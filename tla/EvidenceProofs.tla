--------------------------- MODULE EvidenceProofs ---------------------------
(***************************************************************************)
(* Proofs about Evidence, for any finite set of facts and any number of    *)
(* processing runs, collectors and resolutions.                            *)
(***************************************************************************)
EXTENDS Evidence, IdentityProofs

(***************************************************************************)
(* Identity is one part of the state: whatever a processing run does       *)
(* leaves it alone, so Evidence implements Identity.                       *)
(***************************************************************************)
\* Every behaviour of Evidence is one of Identity.
THEOREM EvidenceRefinesIdentity == Spec => IdentitySpec
<1>1. Init => IdentityInit
  BY DEF Init
<1>2. [Next]_vars => [IdentityNext]_identityVars
  BY DEF Next, vars, ProcessRead, ProcessCommit, ProcessFails
<1> QED BY <1>1, <1>2, PTL DEF Spec, IdentitySpec

\* No two observations of one fact have the same subject, and supersession chains end,
\* while processing runs read and write as well.
THEOREM EvidenceKeepsIdentity == Spec => [](CountedOnce /\ ChainsEnd /\ IdentityInv)
  BY EvidenceRefinesIdentity, NothingCountsTwice, LoopsEnd, IdentityInvariant, PTL

(***************************************************************************)
(* Rows, groups and what they come to.                                     *)
(***************************************************************************)
OneGroup(rows) == \A x, y \in rows : Group(x) = Group(y)

Statuses == {"unverified", "supported", "contradicted"}
OutcomeRow == [status : Statuses, rows : SUBSET Row]

InGroup(rows, g) == {row \in rows : Group(row) = g}
WantedOf(rows) == UNION {Outcomes(InGroup(rows, g)) : g \in {Group(row) : row \in rows}}

LEMMA RowsFinite == IsFiniteSet(Row) /\ IsFiniteSet(OutcomeRow)
<1>1. IsFiniteSet(Row)
  BY IdentityAssumption, FS_Product DEF Row
<1>2. IsFiniteSet(SUBSET Row)
  BY <1>1, FS_SUBSET
<1>3. IsFiniteSet(Statuses)
  <2>1. IsFiniteSet({"unverified"} \cup {"supported"})
    BY FS_Singleton, FS_Union
  <2>2. IsFiniteSet(({"unverified"} \cup {"supported"}) \cup {"contradicted"})
    BY <2>1, FS_Singleton, FS_Union
  <2>3. Statuses = ({"unverified"} \cup {"supported"}) \cup {"contradicted"}
    BY DEF Statuses
  <2> QED BY <2>2, <2>3
<1>4. IsFiniteSet(Statuses \X SUBSET Row)
  BY <1>2, <1>3, FS_Product
<1>5. PICK f : f = [x \in Statuses \X SUBSET Row |-> [status |-> x[1], rows |-> x[2]]]
  OBVIOUS
<1>6. \A o \in OutcomeRow : \E x \in Statuses \X SUBSET Row : f[x] = o
  <2> SUFFICES ASSUME NEW o \in OutcomeRow PROVE \E x \in Statuses \X SUBSET Row : f[x] = o
    OBVIOUS
  <2>1. PICK x : x = <<o.status, o.rows>>
    OBVIOUS
  <2>2. x \in Statuses \X SUBSET Row /\ x[1] = o.status /\ x[2] = o.rows
    BY <2>1 DEF OutcomeRow
  <2>3. f[x] = [status |-> o.status, rows |-> o.rows] /\ o = [status |-> o.status, rows |-> o.rows]
    BY <1>5, <2>2 DEF OutcomeRow
  <2> QED BY <2>2, <2>3
<1>7. f \in Surjection(Statuses \X SUBSET Row, OutcomeRow)
  <2>1. f \in [Statuses \X SUBSET Row -> OutcomeRow]
    BY <1>5 DEF OutcomeRow
  <2> QED BY <2>1, <1>6 DEF Surjection
<1> QED BY <1>1, <1>4, <1>7, FS_Surjection

\* What the rows of one group come to: claims of that group that cite all of them.
LEMMA OutcomeFacts ==
  ASSUME NEW rows \in SUBSET Row, OneGroup(rows), rows # {}
  PROVE  /\ \A out \in Outcomes(rows) : /\ out \in OutcomeRow /\ out.rows # {}
                                        /\ out.rows \subseteq rows
         /\ \A row \in rows : \E out \in Outcomes(rows) : row \in out.rows
<1>1. ASSUME NEW st \in Statuses, Outcomes(rows) = {[status |-> st, rows |-> rows]}
      PROVE  /\ \A out \in Outcomes(rows) : /\ out \in OutcomeRow /\ out.rows # {}
                                            /\ out.rows \subseteq rows
             /\ \A row \in rows : \E out \in Outcomes(rows) : row \in out.rows
  <2>1. PICK o : o = [status |-> st, rows |-> rows]
    OBVIOUS
  <2>2. o \in OutcomeRow /\ o.rows = rows /\ Outcomes(rows) = {o}
    BY <1>1, <2>1 DEF OutcomeRow
  <2> QED BY <2>2
<1>2. CASE Cardinality(rows) = 1 \/ \A x, y \in rows : x[1].value = y[1].value
  <2>1. \/ Outcomes(rows) = {[status |-> "unverified", rows |-> rows]}
        \/ Outcomes(rows) = {[status |-> "supported", rows |-> rows]}
    BY <1>2 DEF Outcomes
  <2> QED BY <1>1, <2>1 DEF Statuses
<1>3. CASE Cardinality(rows) # 1 /\ ~(\A x, y \in rows : x[1].value = y[1].value)
  <2>1. Outcomes(rows) = {[status |-> "contradicted", rows |-> {row}] : row \in rows}
    BY <1>3 DEF Outcomes
  <2>2. ASSUME NEW row \in rows
        PROVE  \E out \in Outcomes(rows) : /\ out = [status |-> "contradicted", rows |-> {row}]
                                          /\ out \in OutcomeRow /\ out.rows = {row}
    <3>1. PICK out : out = [status |-> "contradicted", rows |-> {row}]
      OBVIOUS
    <3>2. out \in OutcomeRow /\ out.rows = {row}
      BY <3>1 DEF OutcomeRow, Statuses
    <3> QED BY <2>1, <3>1, <3>2
  <2>3. ASSUME NEW out \in Outcomes(rows)
        PROVE  out \in OutcomeRow /\ out.rows # {} /\ out.rows \subseteq rows
    <3>1. PICK row \in rows : out = [status |-> "contradicted", rows |-> {row}]
      BY <2>1
    <3>2. out \in OutcomeRow /\ out.rows = {row}
      BY <2>2, <3>1
    <3> QED BY <3>2
  <2>4. \A row \in rows : \E out \in Outcomes(rows) : row \in out.rows
    <3> SUFFICES ASSUME NEW row \in rows PROVE \E out \in Outcomes(rows) : row \in out.rows
      OBVIOUS
    <3> QED BY <2>2
  <2> QED BY <2>3, <2>4
<1> QED BY <1>2, <1>3

LEMMA WantedFacts ==
  ASSUME NEW rows \in SUBSET Row
  PROVE  /\ \A out \in WantedOf(rows) : /\ out \in OutcomeRow /\ out.rows # {}
                                        /\ OneGroup(out.rows)
         /\ \A row \in rows : \E out \in WantedOf(rows) : row \in out.rows
<1>1. ASSUME NEW g \in {Group(row) : row \in rows}
      PROVE  /\ InGroup(rows, g) \in SUBSET Row /\ InGroup(rows, g) # {}
             /\ OneGroup(InGroup(rows, g))
  BY DEF InGroup, OneGroup
<1>2. ASSUME NEW out \in WantedOf(rows)
      PROVE  out \in OutcomeRow /\ out.rows # {} /\ OneGroup(out.rows)
  <2>1. PICK g \in {Group(row) : row \in rows} : out \in Outcomes(InGroup(rows, g))
    BY DEF WantedOf
  <2>2. out \in OutcomeRow /\ out.rows # {} /\ out.rows \subseteq InGroup(rows, g)
    BY <1>1, <2>1, OutcomeFacts
  <2> QED BY <1>1, <2>2 DEF OneGroup
<1>3. ASSUME NEW row \in rows PROVE \E out \in WantedOf(rows) : row \in out.rows
  <2>1. PICK g \in {Group(x) : x \in rows} : g = Group(row)
    OBVIOUS
  <2>2. row \in InGroup(rows, g)
    BY <2>1 DEF InGroup
  <2>3. PICK out \in Outcomes(InGroup(rows, g)) : row \in out.rows
    BY <1>1, <2>2, OutcomeFacts
  <2> QED BY <2>3 DEF WantedOf
<1> QED BY <1>2, <1>3

LEMMA GroupOfClaim ==
  ASSUME NEW c, c.rows # {}, OneGroup(c.rows), NEW row \in c.rows
  PROVE  GroupOf(c) = Group(row)
  BY DEF GroupOf, OneGroup

\* A finite set in some order.
LEMMA EveryRowListed ==
  ASSUME NEW S, IsFiniteSet(S)
  PROVE  /\ SetToSeq(S) \in Seq(S) /\ DOMAIN SetToSeq(S) = 1 .. Len(SetToSeq(S))
         /\ \A x \in S : \E k \in DOMAIN SetToSeq(S) : SetToSeq(S)[k] = x
         /\ S = {} => Len(SetToSeq(S)) = 0
<1>1. PICK n \in Nat : n = Cardinality(S)
  BY FS_CardinalityType
<1>2. \E f \in [1 .. n -> S] : IsInjective(f)
  <2>1. PICK f \in Bijection(1 .. n, S) : TRUE
    BY <1>1, FS_CardinalityType DEF ExistsBijection
  <2> QED BY <2>1 DEF Bijection, Injection, IsInjective
<1>3. PICK f \in [1 .. n -> S] : IsInjective(f) /\ f = SetToSeq(S)
  BY <1>1, <1>2 DEF SetToSeq
<1>4. f \in Seq(S) /\ Len(f) = n /\ DOMAIN f = 1 .. n
  BY FunctionIsSeq
<1>5. \A x \in S : \E k \in 1 .. n : f[k] = x
  <2>1. f \in Injection(1 .. n, S)
    BY <1>3 DEF Injection, IsInjective
  <2>2. IsFiniteSet(1 .. n) /\ Cardinality(1 .. n) = n
    BY FS_Interval
  <2>3. f \in Surjection(1 .. n, S)
    BY <1>1, <2>1, <2>2, FS_Injection
  <2> QED BY <2>3 DEF Surjection
<1>6. S = {} => n = 0
  BY <1>1, FS_EmptySet
<1> QED BY <1>3, <1>4, <1>5, <1>6

(***************************************************************************)
(* Claims.                                                                 *)
(***************************************************************************)
ClaimRow == [person : Person, status : Statuses, rows : SUBSET Row, by : Nat, stamp : Nat]

\* Claims of runs 1 .. n: each cites rows of one group.
ClaimsOK(cs, n) ==
  /\ cs \in Seq(ClaimRow)
  /\ \A i \in DOMAIN cs : cs[i].rows # {} /\ OneGroup(cs[i].rows) /\ cs[i].stamp <= n

Alike(c, d) == c.person = d.person /\ GroupOf(c) = GroupOf(d)

\* Claims are superseded by claims of their person and group.
Forward(cs) ==
  \A i \in DOMAIN cs : cs[i].by # 0 => cs[i].by \in DOMAIN cs /\ Alike(cs[cs[i].by], cs[i])

\* Every group of a person has a current claim.
Kept(cs) == \A i \in DOMAIN cs : \E j \in DOMAIN cs : Alike(cs[j], cs[i]) /\ cs[j].by = 0

\* Nothing of a claim changes but what it is superseded by.
Same(c, d) == c.person = d.person /\ c.status = d.status /\ c.rows = d.rows /\ c.stamp = d.stamp
Revised(ds, cs) == DOMAIN ds = DOMAIN cs /\ \A i \in DOMAIN cs : Same(ds[i], cs[i])

LEMMA SameIsAlike ==
  ASSUME NEW c, NEW d, Same(c, d)
  PROVE  GroupOf(c) = GroupOf(d) /\ Alike(c, d)
  BY DEF Same, Alike, GroupOf

LEMMA AlikeThrough ==
  ASSUME NEW c, NEW d, NEW e, Alike(c, d)
  PROVE  /\ Alike(d, e) => Alike(c, e)
         /\ Alike(d, c)
  BY DEF Alike

\* Of several claims one is the newest.
LEMMA NewestIs ==
  ASSUME NEW cs, NEW n \in Nat, ClaimsOK(cs, n), NEW K \in SUBSET (DOMAIN cs), K # {}
  PROVE  \E k \in K : \A l \in K \ {k} : Newer(cs, k, l)
<1>1. /\ K \subseteq Nat
      /\ \A k \in K : cs[k].stamp \in Nat /\ cs[k].stamp <= n
  <2>1. DOMAIN cs = 1 .. Len(cs) /\ \A k \in DOMAIN cs : cs[k] \in ClaimRow
    BY DEF ClaimsOK
  <2>2. \A k \in K : cs[k].stamp \in Nat
    BY <2>1 DEF ClaimRow
  <2> QED BY <2>1, <2>2 DEF ClaimsOK
<1> DEFINE age(k) == n - cs[k].stamp
           T == {age(k) : k \in K}
<1>2. T \in SUBSET Nat /\ T # {}
  BY <1>1
<1>3. PICK t \in T : \A u \in T : t <= u
  BY <1>2, LeastNumber
<1> DEFINE young == {k \in K : age(k) = t}
<1>4. young \in SUBSET Nat /\ young # {}
  BY <1>1, <1>3
<1>5. PICK k \in young : \A l \in young : k <= l
  BY <1>4, LeastNumber
<1>6. ASSUME NEW l \in K \ {k} PROVE Newer(cs, k, l)
  <2>1. age(l) \in T /\ age(k) <= age(l)
    BY <1>3, <1>5
  <2>2. cs[l].stamp <= cs[k].stamp
    BY <1>1, <1>5, <2>1
  <2>3. cs[l].stamp = cs[k].stamp => l \in young
    BY <1>5
  <2>4. cs[l].stamp = cs[k].stamp => k < l
    BY <2>3, <1>1, <1>5
  <2> QED BY <1>1, <1>5, <2>2, <2>4 DEF Newer
<1> QED BY <1>5, <1>6

LEMMA RevisedOK ==
  ASSUME NEW cs, NEW ds, NEW n, ClaimsOK(cs, n), ds \in Seq(ClaimRow), Revised(ds, cs)
  PROVE  ClaimsOK(ds, n)
  BY DEF ClaimsOK, Revised, Same

\* Claims are superseded by current ones of their person and group that stay so.
LEMMA SupersedeKeeps ==
  ASSUME NEW cs, NEW n, ClaimsOK(cs, n), Forward(cs), Kept(cs),
         NEW old \in SUBSET (DOMAIN cs), NEW heir \in [old -> DOMAIN cs],
         \A i \in old : heir[i] \notin old /\ cs[heir[i]].by = 0 /\ Alike(cs[heir[i]], cs[i]),
         NEW ds, ds = [i \in DOMAIN cs |-> IF i \in old THEN [cs[i] EXCEPT !.by = heir[i]] ELSE cs[i]]
  PROVE  ClaimsOK(ds, n) /\ Forward(ds) /\ Kept(ds) /\ Revised(ds, cs)
<1>1. /\ DOMAIN cs = 1 .. Len(cs) /\ Len(cs) \in Nat
      /\ \A i \in DOMAIN cs : cs[i] \in ClaimRow
  BY DEF ClaimsOK
<1>2. ASSUME NEW i \in DOMAIN cs
      PROVE  /\ ds[i] \in ClaimRow /\ Same(ds[i], cs[i])
             /\ i \in old => ds[i].by = heir[i]
             /\ i \notin old => ds[i] = cs[i]
  <2>1. CASE i \in old
    <3>1. PICK b \in Nat : b = heir[i]
      BY <1>1, <2>1
    <3>2. ds[i] = [cs[i] EXCEPT !.by = b] /\ cs[i] \in ClaimRow
      BY <1>1, <2>1, <3>1
    <3> QED BY <2>1, <3>1, <3>2 DEF ClaimRow, Same
  <2>2. CASE i \notin old
    BY <1>1, <2>2 DEF Same
  <2> QED BY <2>1, <2>2
<1>3. Revised(ds, cs)
  BY <1>2 DEF Revised
<1>4. ClaimsOK(ds, n)
  <2>1. ds \in [1 .. Len(cs) -> ClaimRow]
    BY <1>1, <1>2
  <2>2. ds \in Seq(ClaimRow)
    BY <1>1, <2>1, FunctionIsSeq
  <2> QED BY <1>3, <2>2, RevisedOK
<1>5. ASSUME NEW i \in DOMAIN cs, NEW j \in DOMAIN cs PROVE Alike(cs[j], cs[i]) => Alike(ds[j], ds[i])
  BY <1>2, SameIsAlike, AlikeThrough
<1>6. Forward(ds)
  <2> SUFFICES ASSUME NEW i \in DOMAIN cs, ds[i].by # 0
               PROVE  ds[i].by \in DOMAIN cs /\ Alike(ds[ds[i].by], ds[i])
    BY <1>3 DEF Forward, Revised
  <2>1. CASE i \in old
    BY <1>2, <1>5, <2>1
  <2>2. CASE i \notin old
    BY <1>2, <1>5, <2>2 DEF Forward
  <2> QED BY <2>1, <2>2
<1>7. Kept(ds)
  <2> SUFFICES ASSUME NEW i \in DOMAIN cs
               PROVE  \E k \in DOMAIN cs : Alike(ds[k], ds[i]) /\ ds[k].by = 0
    BY <1>3 DEF Kept, Revised
  <2>1. PICK j \in DOMAIN cs : Alike(cs[j], cs[i]) /\ cs[j].by = 0
    BY DEF Kept
  <2>2. CASE j \in old
    <3>1. PICK k \in DOMAIN cs : k = heir[j]
      BY <2>2
    <3>2. Alike(cs[k], cs[i]) /\ ds[k].by = 0
      BY <1>2, <2>1, <2>2, <3>1, AlikeThrough
    <3> QED BY <1>5, <3>2
  <2>3. CASE j \notin old
    BY <1>2, <1>5, <2>1, <2>3
  <2> QED BY <2>2, <2>3
<1> QED BY <1>3, <1>4, <1>6, <1>7

\* deduplicate_claims supersedes by the newest that says the same, and that one stays.
LEMMA DedupKeeps ==
  ASSUME NEW cs, NEW n \in Nat, ClaimsOK(cs, n), Forward(cs), Kept(cs), NEW p
  PROVE  LET ds == Deduplicated(cs, p)
         IN ClaimsOK(ds, n) /\ Forward(ds) /\ Kept(ds) /\ Revised(ds, cs)
<1> DEFINE current == Current(cs, p)
           alike(k, i) == GroupOf(cs[k]) = GroupOf(cs[i]) /\ ValueOf(cs[k]) = ValueOf(cs[i])
           twins(i) == {k \in current : Newer(cs, k, i) /\ alike(k, i)}
           best(i) == CHOOSE k \in twins(i) : \A l \in twins(i) \ {k} : Newer(cs, k, l)
           old == {i \in current : twins(i) # {}}
<1> PICK ds : ds = Deduplicated(cs, p)
  OBVIOUS
<1>1. /\ DOMAIN cs \subseteq Nat /\ current \subseteq DOMAIN cs
      /\ \A i \in current : cs[i].person = p /\ cs[i].by = 0
      /\ \A i \in DOMAIN cs : cs[i] \in ClaimRow
  BY DEF ClaimsOK, Current
<1>2. \A i \in DOMAIN cs : cs[i].stamp \in Nat
  BY <1>1 DEF ClaimRow
<1>3. ASSUME NEW i \in old
      PROVE  best(i) \in twins(i) /\ \A l \in twins(i) \ {best(i)} : Newer(cs, best(i), l)
  <2>1. twins(i) \in SUBSET (DOMAIN cs) /\ twins(i) # {}
    BY <1>1, <1>3
  <2> HIDE DEF twins
  <2>2. \E k \in twins(i) : \A l \in twins(i) \ {k} : Newer(cs, k, l)
    BY <2>1, NewestIs
  <2> QED BY <2>2
<1> HIDE DEF best
<1>4. ASSUME NEW i \in old
      PROVE  best(i) \in DOMAIN cs \ old /\ cs[best(i)].by = 0 /\ Alike(cs[best(i)], cs[i])
  <2>1. PICK b \in twins(i) : b = best(i) /\ \A l \in twins(i) \ {b} : Newer(cs, b, l)
    BY <1>3
  <2>2. b \in DOMAIN cs /\ cs[b].by = 0 /\ Alike(cs[b], cs[i])
    BY <1>1 DEF Alike
  <2>3. ASSUME NEW l \in twins(b) PROVE FALSE
    <3>1. l \in Nat /\ b \in Nat /\ i \in Nat
          /\ cs[l].stamp \in Nat /\ cs[b].stamp \in Nat /\ cs[i].stamp \in Nat
      BY <1>1, <1>2
    <3>2. Newer(cs, l, b) /\ Newer(cs, b, i) /\ l # b
      BY <3>1 DEF Newer
    <3>3. l \in twins(i)
      BY <3>1, <3>2 DEF Newer
    <3>4. Newer(cs, b, l)
      BY <2>1, <3>2, <3>3
    <3> QED BY <3>1, <3>2, <3>4 DEF Newer
  <2> QED BY <2>1, <2>2, <2>3
<1>5. PICK gone \in SUBSET (DOMAIN cs) : gone = old
  BY <1>1
<1>6. PICK heir : heir = [i \in gone |-> best(i)]
  OBVIOUS
<1>7. heir \in [gone -> DOMAIN cs]
  BY <1>4, <1>5, <1>6
<1>8. \A i \in gone : heir[i] \notin gone /\ cs[heir[i]].by = 0 /\ Alike(cs[heir[i]], cs[i])
  BY <1>4, <1>5, <1>6
<1>9. ds = [i \in DOMAIN cs |-> IF i \in gone THEN [cs[i] EXCEPT !.by = heir[i]] ELSE cs[i]]
  <2>1. ds = [i \in DOMAIN cs |-> IF i \in current /\ twins(i) # {}
                                 THEN [cs[i] EXCEPT !.by = best(i)] ELSE cs[i]]
    BY DEF Deduplicated, best
  <2> QED BY <2>1, <1>5, <1>6
<1> QED BY <1>7, <1>8, <1>9, SupersedeKeeps, SMTT(30)

(***************************************************************************)
(* Processing runs.                                                        *)
(***************************************************************************)
\* What a committed run has read is said by claims.
Cites(cs, I, p, rows) ==
  \A out \in WantedOf(rows) :
    \E i \in I : cs[i].person = p /\ cs[i].status = out.status /\ cs[i].rows = out.rows

ProcessRow == [person : Person \cup {Nobody}, rows : SUBSET Row, known : SUBSET Nat,
               open : SUBSET Nat, stamp : Nat, again : BOOLEAN]

ProcessOK(q) ==
  /\ q \in ProcessRow /\ q.stamp <= started
  /\ q.open \subseteq q.known /\ q.known \subseteq DOMAIN claims
  /\ \A i \in q.known : claims[i].person = q.person
  /\ q.again => Cites(claims, q.known, q.person, q.rows)

EvidenceInv ==
  /\ started \in Nat
  /\ ClaimsOK(claims, started) /\ Forward(claims) /\ Kept(claims)
  /\ DOMAIN process = Processor /\ \A w \in Processor : ProcessOK(process[w])
  /\ \A d \in done : d[2] \in SUBSET Row /\ Cites(claims, DOMAIN claims, d[1], d[2])

\* Claims are added and superseded, never changed otherwise.
Grown(ds, cs) ==
  DOMAIN cs \subseteq DOMAIN ds /\ \A i \in DOMAIN cs : Same(ds[i], cs[i])

LEMMA CitesStays ==
  ASSUME NEW cs, NEW ds, Grown(ds, cs), NEW I \in SUBSET (DOMAIN cs), NEW J, I \subseteq J,
         NEW p, NEW rows, Cites(cs, I, p, rows)
  PROVE  Cites(ds, J, p, rows)
<1> SUFFICES ASSUME NEW out \in WantedOf(rows)
             PROVE \E i \in J : ds[i].person = p /\ ds[i].status = out.status /\ ds[i].rows = out.rows
  BY DEF Cites
<1>1. PICK i \in I : cs[i].person = p /\ cs[i].status = out.status /\ cs[i].rows = out.rows
  BY DEF Cites
<1> QED BY <1>1 DEF Grown, Same

LEMMA ProcessStays ==
  ASSUME NEW q, ProcessOK(q), Grown(claims', claims), started \in Nat, started' \in Nat,
         started <= started'
  PROVE  ProcessOK(q)'
<1>1. q.stamp <= started'
  BY DEF ProcessOK, ProcessRow
<1>2. q.known \subseteq DOMAIN claims' /\ \A i \in q.known : claims'[i].person = q.person
  BY DEF ProcessOK, Grown, Same
<1>3. q.again => Cites(claims', q.known, q.person, q.rows)
  BY CitesStays DEF ProcessOK
<1> QED BY <1>1, <1>2, <1>3 DEF ProcessOK, Cites

LEMMA IdleProcessOK ==
  ASSUME started \in Nat
  PROVE  ProcessOK(IdleProcess)
<1>1. PICK q : q = IdleProcess
  OBVIOUS
<1>2. /\ q \in ProcessRow /\ q.stamp = 0 /\ q.open = {} /\ q.known = {} /\ q.again = FALSE
  BY <1>1 DEF IdleProcess, ProcessRow
<1>3. ProcessOK(q)
  BY <1>2 DEF ProcessOK
<1> QED BY <1>1, <1>3

LEMMA OneProcess ==
  ASSUME EvidenceInv, started' \in Nat, started <= started', Grown(claims', claims),
         NEW w \in Processor, NEW q, ProcessOK(q)', process' = [process EXCEPT ![w] = q]
  PROVE  DOMAIN process' = Processor /\ \A v \in Processor : ProcessOK(process[v])'
<1>1. DOMAIN process' = Processor
  BY DEF EvidenceInv
<1>2. ASSUME NEW v \in Processor PROVE ProcessOK(process[v])'
  <2>1. CASE v = w
    <3>1. process'[v] = q
      BY <2>1 DEF EvidenceInv
    <3> QED BY <3>1 DEF ProcessOK, Cites
  <2>2. CASE v # w
    <3>1. PICK x : x = process[v]
      OBVIOUS
    <3>2. ProcessOK(x) /\ process'[v] = x
      BY <2>2, <3>1 DEF EvidenceInv
    <3>3. ProcessOK(x)'
      BY <3>2, ProcessStays DEF EvidenceInv
    <3> QED BY <3>2, <3>3 DEF ProcessOK, Cites
  <2> QED BY <2>1, <2>2
<1> QED BY <1>1, <1>2

LEMMA SameClaims ==
  ASSUME UNCHANGED claims
  PROVE  Grown(claims', claims)
  BY DEF Grown, Same

LEMMA EvidenceStart == Init => EvidenceInv
<1> SUFFICES ASSUME Init PROVE EvidenceInv
  OBVIOUS
<1>1. started = 0 /\ done = {} /\ claims = <<>> /\ process = [w \in Processor |-> IdleProcess]
  BY DEF Init
<1>2. claims \in Seq(ClaimRow) /\ DOMAIN claims = {}
  BY <1>1
<1>3. ClaimsOK(claims, started) /\ Forward(claims) /\ Kept(claims)
  BY <1>2 DEF ClaimsOK, Forward, Kept
<1>4. \A w \in Processor : ProcessOK(process[w])
  BY <1>1, IdleProcessOK
<1> QED BY <1>1, <1>3, <1>4 DEF EvidenceInv

LEMMA ReadKeepsEvidence ==
  ASSUME IdentityInv, EvidenceInv, NEW w \in Processor, NEW p \in Person, ProcessRead(w, p)
  PROVE  EvidenceInv'
<1>1. UNCHANGED <<claims, done>> /\ started' = started + 1
  BY DEF ProcessRead
<1>2. started' \in Nat /\ started <= started' /\ Grown(claims', claims)
  BY <1>1, SameClaims DEF EvidenceInv
<1> DEFINE known == {i \in DOMAIN claims : claims[i].person = p}
<1>3. PICK q : q = [person |-> p, rows |-> About(p), known |-> known,
                    open |-> {i \in known : claims[i].by = 0},
                    stamp |-> started + 1, again |-> <<p, About(p)>> \in done]
  OBVIOUS
<1>4. /\ q.person = p /\ q.rows = About(p) /\ q.known = known /\ q.open \subseteq known
      /\ q.stamp = started + 1
      /\ q.again => <<p, About(p)>> \in done
  BY <1>3
<1>5. DOMAIN claims \in SUBSET Nat /\ About(p) \in SUBSET Row
  BY DEF EvidenceInv, ClaimsOK, About
<1>6. q \in ProcessRow
  <2>1. (<<p, About(p)>> \in done) \in BOOLEAN
    OBVIOUS
  <2> QED BY <1>3, <1>5, <2>1 DEF EvidenceInv, ProcessRow
<1>7. q.again => Cites(claims, known, p, About(p))
  <2> SUFFICES ASSUME <<p, About(p)>> \in done PROVE Cites(claims, known, p, About(p))
    BY <1>4
  <2>1. PICK d \in done : d = <<p, About(p)>>
    OBVIOUS
  <2>2. Cites(claims, DOMAIN claims, p, About(p))
    BY <2>1 DEF EvidenceInv
  <2> QED BY <2>2 DEF Cites
<1>8. ProcessOK(q)'
  BY <1>1, <1>4, <1>6, <1>7 DEF ProcessOK, Cites, EvidenceInv
<1>9. DOMAIN process' = Processor /\ \A v \in Processor : ProcessOK(process[v])'
  BY <1>2, <1>3, <1>8, OneProcess DEF ProcessRead
<1>10. ClaimsOK(claims, started)'
  <2>1. \A i \in DOMAIN claims : claims[i] \in ClaimRow
    BY DEF EvidenceInv, ClaimsOK
  <2>2. \A i \in DOMAIN claims : claims[i].stamp \in Nat
    BY <2>1 DEF ClaimRow
  <2> QED BY <1>1, <2>2 DEF EvidenceInv, ClaimsOK
<1> QED BY <1>1, <1>2, <1>9, <1>10 DEF EvidenceInv, Forward, Kept, Cites

LEMMA FailsKeepsEvidence ==
  ASSUME EvidenceInv, NEW w \in Processor, ProcessFails(w)
  PROVE  EvidenceInv'
<1>1. UNCHANGED <<claims, started, done>>
  BY DEF ProcessFails
<1>2. PICK q : q = IdleProcess
  OBVIOUS
<1>3. ProcessOK(q)'
  BY <1>1, <1>2, IdleProcessOK DEF EvidenceInv, ProcessOK, Cites
<1>4. started' \in Nat /\ started <= started' /\ Grown(claims', claims)
  BY <1>1, SameClaims DEF EvidenceInv
<1>5. DOMAIN process' = Processor /\ \A v \in Processor : ProcessOK(process[v])'
  BY <1>2, <1>3, <1>4, OneProcess DEF ProcessFails
<1> QED BY <1>1, <1>5 DEF EvidenceInv, Forward, Kept, Cites, ClaimsOK

(***************************************************************************)
(* The commit.                                                             *)
(***************************************************************************)
Missing(w) == {out \in Wanted(w) : ~Matching(w, out)}
NewClaim(run, out) == [person |-> run.person, status |-> out.status, rows |-> out.rows,
                       by |-> 0, stamp |-> run.stamp]
WithNew(run, new) == claims \o [k \in DOMAIN new |-> NewClaim(run, new[k])]

\* The missing claims are added behind those there are, and are current.
LEMMA InsertKeeps ==
  ASSUME EvidenceInv, NEW run, ProcessOK(run), run.person \in Person,
         NEW new \in Seq(OutcomeRow),
         \A k \in 1 .. Len(new) : new[k].rows # {} /\ OneGroup(new[k].rows)
  PROVE  LET all == WithNew(run, new)
         IN /\ Len(all) = Len(claims) + Len(new)
            /\ DOMAIN all = 1 .. Len(claims) + Len(new) /\ DOMAIN claims = 1 .. Len(claims)
            /\ \A i \in DOMAIN claims : all[i] = claims[i]
            /\ \A k \in 1 .. Len(new) : all[Len(claims) + k] = NewClaim(run, new[k])
            /\ ClaimsOK(all, started) /\ Forward(all) /\ Kept(all)
<1> DEFINE N == Len(claims)
           M == Len(new)
<1> PICK more : more = [k \in DOMAIN new |-> NewClaim(run, new[k])]
  OBVIOUS
<1> PICK all : all = WithNew(run, new)
  OBVIOUS
<1>1. /\ claims \in Seq(ClaimRow) /\ DOMAIN claims = 1 .. N /\ N \in Nat
      /\ M \in Nat /\ DOMAIN new = 1 .. M /\ started \in Nat
      /\ run.stamp \in Nat /\ run.stamp <= started
  BY DEF EvidenceInv, ClaimsOK, ProcessOK, ProcessRow
<1>2. ASSUME NEW k \in 1 .. M
      PROVE  more[k] = NewClaim(run, new[k]) /\ more[k] \in ClaimRow /\ more[k].by = 0
             /\ more[k].rows = new[k].rows /\ more[k].stamp = run.stamp
  <2>1. new[k] \in OutcomeRow
    OBVIOUS
  <2> QED BY <1>1, <2>1 DEF NewClaim, ClaimRow, OutcomeRow
<1>3. more \in [1 .. M -> ClaimRow]
  BY <1>1, <1>2
<1>4. more \in Seq(ClaimRow) /\ Len(more) = M
  BY <1>1, <1>3, FunctionIsSeq
<1>5. all = claims \o more
  BY DEF WithNew
<1>6. /\ all \in Seq(ClaimRow) /\ Len(all) = N + M /\ DOMAIN all = 1 .. N + M
      /\ \A i \in 1 .. N : all[i] = claims[i]
      /\ \A k \in 1 .. M : all[N + k] = more[k]
  BY <1>1, <1>4, <1>5
<1>7. ASSUME NEW i \in 1 .. N + M
      PROVE  i \in 1 .. N \/ \E k \in 1 .. M : i = N + k
  <2>1. CASE i <= N
    BY <1>1, <2>1
  <2>2. CASE i > N
    <3>1. i - N \in 1 .. M /\ i = N + (i - N)
      BY <1>1, <2>2
    <3> QED BY <3>1
  <2> QED BY <1>1, <2>1, <2>2
<1>8. ASSUME NEW i \in DOMAIN all
      PROVE  all[i].rows # {} /\ OneGroup(all[i].rows) /\ all[i].stamp <= started
  <2>1. CASE i \in 1 .. N
    BY <1>1, <1>6, <2>1 DEF EvidenceInv, ClaimsOK
  <2>2. ASSUME NEW k \in 1 .. M, i = N + k
        PROVE  all[i].rows # {} /\ OneGroup(all[i].rows) /\ all[i].stamp <= started
    <3>1. all[i] = more[k]
      BY <1>6, <2>2
    <3> QED BY <1>1, <1>2, <3>1
  <2> QED BY <1>6, <1>7, <2>1, <2>2
<1>9. ClaimsOK(all, started)
  BY <1>6, <1>8 DEF ClaimsOK
<1>10. Forward(all)
  <2> SUFFICES ASSUME NEW i \in DOMAIN all, all[i].by # 0
               PROVE  all[i].by \in DOMAIN all /\ Alike(all[all[i].by], all[i])
    BY DEF Forward
  <2>1. i \in 1 .. N
    <3>1. ASSUME NEW k \in 1 .. M, i = N + k PROVE FALSE
      <4>1. all[i] = more[k]
        BY <1>6, <3>1
      <4> QED BY <1>2, <4>1
    <3> QED BY <1>6, <1>7, <3>1
  <2>2. claims[i].by \in 1 .. N /\ Alike(claims[claims[i].by], claims[i])
    BY <1>1, <1>6, <2>1 DEF EvidenceInv, Forward
  <2>3. 1 .. N \subseteq DOMAIN all
    BY <1>1, <1>6
  <2>4. all[i] = claims[i] /\ all[claims[i].by] = claims[claims[i].by]
    BY <1>6, <2>1, <2>2
  <2> QED BY <2>2, <2>3, <2>4
<1>11. Kept(all)
  <2> SUFFICES ASSUME NEW i \in DOMAIN all
               PROVE  \E j \in DOMAIN all : Alike(all[j], all[i]) /\ all[j].by = 0
    BY DEF Kept
  <2>1. CASE i \in 1 .. N
    <3>1. PICK j \in 1 .. N : Alike(claims[j], claims[i]) /\ claims[j].by = 0
      BY <1>1, <2>1 DEF EvidenceInv, Kept
    <3>2. j \in DOMAIN all /\ all[j] = claims[j] /\ all[i] = claims[i]
      BY <1>1, <1>6, <2>1
    <3> QED BY <3>1, <3>2
  <2>2. ASSUME NEW k \in 1 .. M, i = N + k
        PROVE  Alike(all[i], all[i]) /\ all[i].by = 0
    <3>1. all[i] = more[k]
      BY <1>6, <2>2
    <3> QED BY <1>2, <3>1 DEF Alike
  <2> QED BY <1>6, <1>7, <2>1, <2>2
<1>12. /\ \A i \in DOMAIN claims : all[i] = claims[i]
       /\ \A k \in 1 .. M : all[N + k] = NewClaim(run, new[k])
  BY <1>1, <1>2, <1>6
<1> QED BY <1>1, <1>6, <1>9, <1>10, <1>11, <1>12

\* The commit before the deduplication: run has read the rows, head names the claim that
\* closes the earlier ones of each group.
WithClosed(w, head) ==
  LET run == process[w]
      new == SetToSeq(Missing(w))
      all == WithNew(run, new)
      place(out) == Len(claims) + CHOOSE k \in DOMAIN new : new[k] = out
  IN [i \in DOMAIN all |->
        LET by == Closers(head, Missing(w), all[i])
        IN IF i \in Prior(run, all) /\ by # {}
             THEN [all[i] EXCEPT !.by = place(head[CHOOSE g \in by : TRUE])] ELSE all[i]]

LEMMA WantedIs ==
  ASSUME NEW w
  PROVE  /\ Wanted(w) = WantedOf(process[w].rows)
         /\ \A g : RowsOf(w, g) = InGroup(process[w].rows, g)
  BY DEF Wanted, WantedOf, GroupsRead, RowsOf, InGroup

LEMMA MissingFacts ==
  ASSUME NEW w, process[w].rows \in SUBSET Row
  PROVE  LET new == SetToSeq(Missing(w))
         IN /\ new \in Seq(OutcomeRow)
            /\ DOMAIN new = 1 .. Len(new) /\ Len(new) \in Nat
            /\ \A k \in 1 .. Len(new) : new[k].rows # {} /\ OneGroup(new[k].rows)
            /\ \A out \in Missing(w) : \E k \in 1 .. Len(new) : new[k] = out
            /\ Missing(w) = {} => Len(new) = 0
<1>1. PICK missing : missing = Missing(w)
  OBVIOUS
<1>2. PICK new : new = SetToSeq(missing)
  OBVIOUS
<1>3. \A out \in missing : out \in OutcomeRow /\ out.rows # {} /\ OneGroup(out.rows)
  <2>1. missing \subseteq WantedOf(process[w].rows)
    BY <1>1, WantedIs DEF Missing
  <2> QED BY <2>1, WantedFacts
<1>4. IsFiniteSet(missing)
  BY <1>3, RowsFinite, FS_Subset
<1>5. /\ new \in Seq(missing) /\ DOMAIN new = 1 .. Len(new)
      /\ \A out \in missing : \E k \in DOMAIN new : new[k] = out
      /\ missing = {} => Len(new) = 0
  BY <1>2, <1>4, EveryRowListed
<1>6. Len(new) \in Nat /\ \A k \in 1 .. Len(new) : new[k] \in missing
  BY <1>5
<1>7. new \in Seq(OutcomeRow)
  <2>1. new \in [1 .. Len(new) -> OutcomeRow]
    BY <1>3, <1>5, <1>6
  <2> QED BY <1>6, <2>1, FunctionIsSeq
<1> QED BY <1>1, <1>2, <1>3, <1>5, <1>6, <1>7

\* Inserting and closing: every closed claim has an heir among the new ones.
LEMMA CloseKeeps ==
  ASSUME EvidenceInv, NEW w \in Processor, process[w].person # Nobody,
         NEW head,
         \A g \in DOMAIN head : g \in GroupsRead(w) /\ head[g] \in Heads(w, g)
  PROVE  LET ds == WithClosed(w, head)
             all == WithNew(process[w], SetToSeq(Missing(w)))
         IN ClaimsOK(ds, started) /\ Forward(ds) /\ Kept(ds) /\ Revised(ds, all)
<1>1. PICK run : run = process[w]
  OBVIOUS
<1>2. ProcessOK(run) /\ run.person \in Person /\ run.rows \in SUBSET Row
  BY <1>1 DEF EvidenceInv, ProcessOK, ProcessRow
<1>3. PICK new : new = SetToSeq(Missing(w))
  OBVIOUS
<1>4. /\ new \in Seq(OutcomeRow) /\ DOMAIN new = 1 .. Len(new) /\ Len(new) \in Nat
      /\ \A k \in 1 .. Len(new) : new[k].rows # {} /\ OneGroup(new[k].rows)
      /\ \A out \in Missing(w) : \E k \in 1 .. Len(new) : new[k] = out
  BY <1>1, <1>2, <1>3, MissingFacts
<1>5. PICK all : all = WithNew(run, new)
  OBVIOUS
<1>6. /\ DOMAIN all = 1 .. Len(claims) + Len(new) /\ DOMAIN claims = 1 .. Len(claims)
      /\ \A i \in DOMAIN claims : all[i] = claims[i]
      /\ \A k \in 1 .. Len(new) : all[Len(claims) + k] = NewClaim(run, new[k])
      /\ ClaimsOK(all, started) /\ Forward(all) /\ Kept(all) /\ Len(claims) \in Nat
  <2>1. Len(claims) \in Nat
    BY DEF EvidenceInv, ClaimsOK
  <2>2. ProcessOK(run) /\ run.person \in Person
    BY <1>2
  <2>3. new \in Seq(OutcomeRow)
    BY <1>4
  <2>4. \A k \in 1 .. Len(new) : new[k].rows # {} /\ OneGroup(new[k].rows)
    BY <1>4
  <2>5. /\ DOMAIN all = 1 .. Len(claims) + Len(new) /\ DOMAIN claims = 1 .. Len(claims)
        /\ \A i \in DOMAIN claims : all[i] = claims[i]
        /\ \A k \in 1 .. Len(new) : all[Len(claims) + k] = NewClaim(run, new[k])
        /\ ClaimsOK(all, started) /\ Forward(all) /\ Kept(all)
    BY ONLY EvidenceInv, <2>2, <2>3, <2>4, <1>5, InsertKeeps
  <2> QED BY <2>1, <2>5
<1> DEFINE by(i) == Closers(head, Missing(w), all[i])
           place(out) == Len(claims) + CHOOSE k \in DOMAIN new : new[k] = out
           to(i) == place(head[CHOOSE g \in by(i) : TRUE])
           closing == {i \in Prior(run, all) : by(i) # {}}
<1>7. PICK old \in SUBSET (DOMAIN all) : old = closing
  BY DEF Prior
<1>8. ASSUME NEW i \in old
      PROVE  /\ i \in 1 .. Len(claims) /\ to(i) \in DOMAIN all \ old
             /\ all[to(i)].by = 0 /\ Alike(all[to(i)], all[i])
  <2>1. i \in 1 .. Len(claims) /\ claims[i].person = run.person /\ all[i] = claims[i]
    BY <1>2, <1>6, <1>7 DEF Prior, ProcessOK
  <2>2. PICK g : g = CHOOSE x \in by(i) : TRUE
    OBVIOUS
  <2>3. g \in DOMAIN head /\ g = GroupOf(all[i]) /\ head[g] \in Missing(w)
    BY <1>7, <2>2 DEF Closers
  <2>4. PICK out : out = head[g]
    OBVIOUS
  <2>5. out \in Outcomes(InGroup(run.rows, g)) /\ g \in {Group(row) : row \in run.rows}
    BY <1>1, <2>3, <2>4, WantedIs DEF Heads, GroupsRead
  <2>6. out.rows # {} /\ out.rows \subseteq InGroup(run.rows, g)
    <3>1. /\ InGroup(run.rows, g) \in SUBSET Row /\ InGroup(run.rows, g) # {}
          /\ OneGroup(InGroup(run.rows, g))
      BY <1>2, <2>5 DEF InGroup, OneGroup
    <3> QED BY <2>5, <3>1, OutcomeFacts
  <2>7. PICK k \in 1 .. Len(new) : new[k] = out /\ to(i) = Len(claims) + k
    <3>1. \E k \in DOMAIN new : new[k] = out
      BY <1>4, <2>3, <2>4
    <3>2. PICK k : k = CHOOSE x \in DOMAIN new : new[x] = out
      OBVIOUS
    <3>3. k \in DOMAIN new /\ new[k] = out
      BY <3>1, <3>2
    <3>4. to(i) = Len(claims) + k
      BY <2>2, <2>4, <3>2
    <3> QED BY <1>4, <3>3, <3>4
  <2>8. all[to(i)] = NewClaim(run, out)
    BY <1>6, <2>7
  <2>9. all[to(i)].by = 0 /\ all[to(i)].person = run.person /\ all[to(i)].rows = out.rows
    BY <2>8 DEF NewClaim
  <2>10. GroupOf(all[to(i)]) = g
    <3>1. \A row \in out.rows : Group(row) = g
      BY <2>6 DEF InGroup
    <3> QED BY <2>6, <2>9, <3>1 DEF GroupOf
  <2>11. Alike(all[to(i)], all[i])
    BY <2>1, <2>3, <2>9, <2>10 DEF Alike
  <2>12. to(i) \in DOMAIN all /\ to(i) \notin 1 .. Len(claims)
    BY <1>4, <1>6, <2>7
  <2>13. old \subseteq 1 .. Len(claims)
    BY <1>2, <1>6, <1>7 DEF Prior, ProcessOK
  <2> QED BY <2>1, <2>9, <2>11, <2>12, <2>13
<1> HIDE DEF to
<1>9. PICK heir : heir = [i \in old |-> to(i)]
  OBVIOUS
<1>10. heir \in [old -> DOMAIN all]
  BY <1>8, <1>9
<1>11. \A i \in old : heir[i] \notin old /\ all[heir[i]].by = 0 /\ Alike(all[heir[i]], all[i])
  BY <1>8, <1>9
<1>12. PICK ds : ds = WithClosed(w, head)
  OBVIOUS
<1>13. ds = [i \in DOMAIN all |-> IF i \in old THEN [all[i] EXCEPT !.by = heir[i]] ELSE all[i]]
  <2>1. ds = [i \in DOMAIN all |-> IF i \in Prior(run, all) /\ by(i) # {}
                                  THEN [all[i] EXCEPT !.by = to(i)] ELSE all[i]]
    BY <1>1, <1>3, <1>5, <1>12 DEF WithClosed, to
  <2> QED BY <2>1, <1>7, <1>9
<1>14. ClaimsOK(all, started) /\ Forward(all) /\ Kept(all)
  BY <1>6
<1>15. ClaimsOK(ds, started) /\ Forward(ds) /\ Kept(ds) /\ Revised(ds, all)
  BY ONLY <1>14, old \in SUBSET (DOMAIN all), <1>10, <1>11, <1>13, SupersedeKeeps
<1> QED BY <1>1, <1>3, <1>5, <1>12, <1>15

\* What a commit writes: all the claims there were, and more.
LEMMA CommitWrites ==
  ASSUME EvidenceInv, NEW w \in Processor, ProcessCommit(w)
  PROVE  /\ ClaimsOK(claims', started) /\ Forward(claims') /\ Kept(claims')
         /\ Revised(claims', WithNew(process[w], SetToSeq(Missing(w))))
<1>1. /\ process[w].person # Nobody
      /\ \E head \in {h \in [{g \in GroupsRead(w) : Heads(w, g) # {}} ->
                               UNION {Heads(w, g) : g \in {g \in GroupsRead(w) : Heads(w, g) # {}}}] :
                        \A g \in {g \in GroupsRead(w) : Heads(w, g) # {}} : h[g] \in Heads(w, g)} :
           \E embedded \in BOOLEAN :
             claims' = IF embedded THEN Deduplicated(WithClosed(w, head), process[w].person)
                                   ELSE WithClosed(w, head)
  BY DEF ProcessCommit, WithClosed, WithNew, NewClaim, Missing
<1>2. PICK head, embedded :
        /\ \A g \in DOMAIN head : g \in GroupsRead(w) /\ head[g] \in Heads(w, g)
        /\ claims' = IF embedded THEN Deduplicated(WithClosed(w, head), process[w].person)
                                 ELSE WithClosed(w, head)
  BY <1>1
<1>3. PICK ds, all : ds = WithClosed(w, head) /\ all = WithNew(process[w], SetToSeq(Missing(w)))
  OBVIOUS
<1>4. ClaimsOK(ds, started) /\ Forward(ds) /\ Kept(ds) /\ Revised(ds, all)
  BY <1>1, <1>2, <1>3, CloseKeeps
<1>5. CASE embedded
  <2>1. PICK es, p : es = Deduplicated(ds, p) /\ p = process[w].person
    OBVIOUS
  <2>2. started \in Nat /\ ClaimsOK(ds, started) /\ Forward(ds) /\ Kept(ds)
    BY <1>4 DEF EvidenceInv
  <2>3. ClaimsOK(es, started) /\ Forward(es) /\ Kept(es) /\ Revised(es, ds)
    BY ONLY <2>1, <2>2, DedupKeeps
  <2>4. claims' = es
    BY <1>2, <1>3, <1>5, <2>1
  <2>5. Revised(es, all)
    BY <1>4, <2>3 DEF Revised, Same
  <2> QED BY <1>3, <2>3, <2>4, <2>5
<1>6. CASE ~embedded
  BY <1>2, <1>3, <1>4, <1>6
<1> QED BY <1>5, <1>6

\* Every outcome of what the run has read is said by a claim afterwards.
LEMMA CommitGrows ==
  ASSUME EvidenceInv, NEW w \in Processor, ProcessCommit(w)
  PROVE  /\ Grown(claims', claims)
         /\ Cites(claims', DOMAIN claims', process[w].person, process[w].rows)
         /\ process[w].again => Len(claims') = Len(claims)
<1>1. PICK run, new, all :
         run = process[w] /\ new = SetToSeq(Missing(w)) /\ all = WithNew(run, new)
  BY SMTT(30)
<1>2. ProcessOK(run) /\ run.person \in Person /\ run.rows \in SUBSET Row
  BY <1>1 DEF EvidenceInv, ProcessOK, ProcessRow, ProcessCommit
<1>3. /\ new \in Seq(OutcomeRow) /\ Len(new) \in Nat
      /\ \A k \in 1 .. Len(new) : new[k].rows # {} /\ OneGroup(new[k].rows)
      /\ \A out \in Missing(w) : \E k \in 1 .. Len(new) : new[k] = out
      /\ Missing(w) = {} => Len(new) = 0
  BY <1>1, <1>2, MissingFacts
<1>4. /\ DOMAIN all = 1 .. Len(claims) + Len(new) /\ DOMAIN claims = 1 .. Len(claims)
      /\ \A i \in DOMAIN claims : all[i] = claims[i]
      /\ \A k \in 1 .. Len(new) : all[Len(claims) + k] = NewClaim(run, new[k])
  <2>1. ProcessOK(run) /\ run.person \in Person
    BY <1>2
  <2>2. new \in Seq(OutcomeRow)
    BY <1>3
  <2>3. \A k \in 1 .. Len(new) : new[k].rows # {} /\ OneGroup(new[k].rows)
    BY <1>3
  <2> QED BY ONLY EvidenceInv, <2>1, <2>2, <2>3, <1>1, InsertKeeps
<1>5. Len(claims) \in Nat /\ claims' \in Seq(ClaimRow) /\ Revised(claims', all)
  BY <1>1, CommitWrites DEF EvidenceInv, ClaimsOK
<1>6. Grown(claims', claims)
  <2>1. DOMAIN claims \subseteq DOMAIN claims'
    BY <1>3, <1>4, <1>5 DEF Revised
  <2>2. ASSUME NEW i \in DOMAIN claims PROVE Same(claims'[i], claims[i])
    <3>1. i \in DOMAIN all /\ all[i] = claims[i]
      BY <1>3, <1>4, <1>5
    <3> QED BY <1>5, <3>1 DEF Revised
  <2> QED BY <2>1, <2>2 DEF Grown
<1>7. \A out : Matching(w, out) <=>
         \E i \in run.known : claims[i].status = out.status /\ claims[i].rows = out.rows
  BY <1>1 DEF Matching
<1>8. ASSUME NEW out \in WantedOf(run.rows)
      PROVE  \E i \in DOMAIN claims' : /\ claims'[i].person = run.person
                                       /\ claims'[i].status = out.status /\ claims'[i].rows = out.rows
  <2>1. CASE Matching(w, out)
    <3>1. PICK i \in run.known : claims[i].status = out.status /\ claims[i].rows = out.rows
      BY <1>7, <2>1
    <3>2. i \in DOMAIN claims /\ claims[i].person = run.person
      BY <1>2 DEF ProcessOK
    <3> QED BY <1>6, <3>1, <3>2 DEF Grown, Same
  <2>2. CASE ~Matching(w, out)
    <3>1. out \in Missing(w)
      BY <1>1, <2>2, WantedIs DEF Missing
    <3>2. PICK k \in 1 .. Len(new) : new[k] = out
      BY <1>3, <3>1
    <3>3. PICK i : i = Len(claims) + k
      OBVIOUS
    <3>4. i \in DOMAIN all /\ all[i] = NewClaim(run, out)
      <4>1. i \in 1 .. Len(claims) + Len(new)
        BY <1>3, <1>5, <3>3
      <4>2. all[Len(claims) + k] = NewClaim(run, new[k])
        BY <1>4
      <4> QED BY <1>4, <3>2, <3>3, <4>1, <4>2
    <3>5. all[i].person = run.person /\ all[i].status = out.status /\ all[i].rows = out.rows
      BY <3>4 DEF NewClaim
    <3>6. i \in DOMAIN claims' /\ Same(claims'[i], all[i])
      BY <1>5, <3>4 DEF Revised
    <3> QED BY <3>5, <3>6 DEF Same
  <2> QED BY <2>1, <2>2
<1>9. ASSUME run.again PROVE Len(claims') = Len(claims)
  <2>1. Cites(claims, run.known, run.person, run.rows)
    BY <1>2, <1>9 DEF ProcessOK
  <2>2. \A out \in Wanted(w) : Matching(w, out)
    BY <1>1, <1>7, <2>1, WantedIs DEF Cites
  <2>3. Len(new) = 0
    BY <1>3, <2>2 DEF Missing
  <2>4. DOMAIN claims' = 1 .. Len(claims) /\ DOMAIN claims' = 1 .. Len(claims')
        /\ Len(claims') \in Nat
    BY <1>4, <1>5, <2>3 DEF Revised
  <2> QED BY <1>5, <2>4
<1> QED BY <1>1, <1>6, <1>8, <1>9 DEF Cites

LEMMA CommitKeepsEvidence ==
  ASSUME EvidenceInv, NEW w \in Processor, ProcessCommit(w)
  PROVE  EvidenceInv'
<1>1. /\ UNCHANGED started /\ process' = [process EXCEPT ![w] = IdleProcess]
      /\ done' = done \cup {<<process[w].person, process[w].rows>>}
  BY DEF ProcessCommit
<1>2. /\ Grown(claims', claims)
      /\ Cites(claims', DOMAIN claims', process[w].person, process[w].rows)
  BY CommitGrows
<1>3. PICK q : q = IdleProcess
  OBVIOUS
<1>4. ProcessOK(q)'
  <2>1. ProcessOK(q)
    BY <1>3, IdleProcessOK DEF EvidenceInv
  <2> QED BY <1>1, <1>2, <2>1, ProcessStays DEF EvidenceInv
<1>5. DOMAIN process' = Processor /\ \A v \in Processor : ProcessOK(process[v])'
  <2>1. started' \in Nat /\ started <= started'
    BY <1>1 DEF EvidenceInv
  <2>2. process' = [process EXCEPT ![w] = q]
    BY <1>1, <1>3
  <2> QED BY <1>2, <1>4, <2>1, <2>2, OneProcess
<1>6. \A d \in done' : d[2] \in SUBSET Row /\ Cites(claims', DOMAIN claims', d[1], d[2])
  <2> SUFFICES ASSUME NEW d \in done'
               PROVE  d[2] \in SUBSET Row /\ Cites(claims', DOMAIN claims', d[1], d[2])
    OBVIOUS
  <2>1. CASE d \in done
    <3>1. d[2] \in SUBSET Row /\ Cites(claims, DOMAIN claims, d[1], d[2])
      BY <2>1 DEF EvidenceInv
    <3>2. DOMAIN claims \subseteq DOMAIN claims'
      BY <1>2 DEF Grown
    <3> QED BY <1>2, <3>1, <3>2, CitesStays
  <2>2. CASE d = <<process[w].person, process[w].rows>>
    <3>1. d[1] = process[w].person /\ d[2] = process[w].rows
      BY <2>2
    <3> QED BY <1>2, <3>1 DEF EvidenceInv, ProcessOK, ProcessRow
  <2> QED BY <1>1, <2>1, <2>2
<1>7. started' \in Nat
  BY <1>1 DEF EvidenceInv
<1>8. ClaimsOK(claims', started') /\ Forward(claims') /\ Kept(claims')
  BY <1>1, CommitWrites
<1> QED BY <1>5, <1>6, <1>7, <1>8 DEF EvidenceInv, Cites, ClaimsOK, Forward, Kept

(***************************************************************************)
(* The theorems.                                                           *)
(***************************************************************************)
LEMMA EvidenceStep ==
  ASSUME IdentityInv, EvidenceInv, [Next]_vars
  PROVE  EvidenceInv'
<1>1. CASE UNCHANGED claimVars
  <2>1. UNCHANGED <<claims, process, started, done>>
    BY <1>1 DEF claimVars
  <2>2. \A w \in Processor : ProcessOK(process[w])'
    BY <2>1 DEF EvidenceInv, ProcessOK, Cites
  <2>3. \A d \in done' : d[2] \in SUBSET Row /\ Cites(claims', DOMAIN claims', d[1], d[2])
    BY <2>1 DEF EvidenceInv
  <2> QED BY <2>1, <2>2, <2>3 DEF EvidenceInv, ClaimsOK, Forward, Kept, Cites
<1>2. ASSUME NEW w \in Processor, NEW p \in Person, ProcessRead(w, p)
      PROVE  EvidenceInv'
  BY <1>2, ReadKeepsEvidence
<1>3. ASSUME NEW w \in Processor, ProcessCommit(w)
      PROVE  EvidenceInv'
  BY <1>3, CommitKeepsEvidence
<1>4. ASSUME NEW w \in Processor, ProcessFails(w)
      PROVE  EvidenceInv'
  BY <1>4, FailsKeepsEvidence
<1> QED BY <1>1, <1>2, <1>3, <1>4 DEF Next, vars

\* The invariant of the claims: each cites rows of one group, superseded ones point to
\* claims of their person and group, every group has a current one, and a run knows only
\* claims there are.
THEOREM EvidenceInvariant == Spec => [](IdentityInv /\ EvidenceInv)
<1>1. Init => EvidenceInv
  BY EvidenceStart
<1>2. IdentityInv /\ EvidenceInv /\ [Next]_vars => EvidenceInv'
  BY EvidenceStep
<1> QED BY <1>1, <1>2, EvidenceRefinesIdentity, IdentityInvariant, PTL DEF Spec

\* Claims and identity stay well formed: a claim is superseded only by a claim of its own
\* person and group, though merges move observations between persons meanwhile.
THEOREM EvidenceTypes == Spec => []TypeOK
<1>1. IdentityTypeOK /\ EvidenceInv => TypeOK
  <2> SUFFICES ASSUME IdentityTypeOK, EvidenceInv PROVE TypeOK
    OBVIOUS
  <2> SUFFICES ASSUME NEW i \in DOMAIN claims
               PROVE  /\ claims[i].status \in Statuses
                      /\ claims[i].rows # {} /\ claims[i].by \in 0 .. Len(claims)
                      /\ claims[i].by # 0 => /\ claims[claims[i].by].person = claims[i].person
                                             /\ GroupOf(claims[claims[i].by]) = GroupOf(claims[i])
    BY DEF TypeOK, Statuses
  <2>1. claims \in Seq(ClaimRow) /\ claims[i].rows # {} /\ claims[i] \in ClaimRow
    BY DEF EvidenceInv, ClaimsOK
  <2>2. claims[i].status \in Statuses /\ claims[i].by \in Nat
    BY <2>1 DEF ClaimRow
  <2>3. claims[i].by # 0 => claims[i].by \in DOMAIN claims /\ Alike(claims[claims[i].by], claims[i])
    BY DEF EvidenceInv, Forward
  <2> QED BY <2>1, <2>2, <2>3 DEF Alike
<1> QED BY <1>1, EvidenceInvariant, EvidenceRefinesIdentity, IdentityTypes, PTL

\* No supersession, by a new head or by deduplication, leaves a group of a person without
\* a current claim: the heirs of a pass are never among those it supersedes.
THEOREM GroupsStayCurrent == Spec => []GroupKeepsCurrentClaim
<1>1. EvidenceInv => GroupKeepsCurrentClaim
  BY DEF EvidenceInv, Kept, Alike, GroupKeepsCurrentClaim
<1> QED BY <1>1, EvidenceInvariant, PTL

\* Every observation a committed run has read is cited by a claim about that person.
THEOREM NothingGoesUncited == Spec => []EvidenceCited
<1>1. EvidenceInv => EvidenceCited
  <2> SUFFICES ASSUME EvidenceInv, NEW d \in done, NEW row \in d[2]
               PROVE  \E i \in DOMAIN claims : claims[i].person = d[1] /\ row \in claims[i].rows
    BY DEF EvidenceCited
  <2>1. d[2] \in SUBSET Row /\ Cites(claims, DOMAIN claims, d[1], d[2])
    BY DEF EvidenceInv
  <2>2. PICK out \in WantedOf(d[2]) : row \in out.rows
    BY <2>1, WantedFacts
  <2> QED BY <2>1, <2>2 DEF Cites
<1> QED BY <1>1, EvidenceInvariant, PTL

\* A run that reads what a committed run has read creates no claim: whatever that run
\* wrote is among the claims this one knows, superseded or not.
THEOREM RerunsCreateNothing == Spec => RerunCreatesNothing
<1> DEFINE Quiet == \A w \in Processor :
              process[w].again /\ process'[w] = IdleProcess => Len(claims') = Len(claims)
<1>1. EvidenceInv /\ [Next]_vars => Quiet
  <2> SUFFICES ASSUME EvidenceInv, [Next]_vars, NEW w \in Processor,
                      process[w].again, process'[w] = IdleProcess
               PROVE  Len(claims') = Len(claims)
    OBVIOUS
  <2>1. process[w] # IdleProcess
    <3>1. PICK q : q = IdleProcess
      OBVIOUS
    <3>2. q.again = FALSE
      BY <3>1 DEF IdleProcess
    <3> QED BY <3>1, <3>2
  <2>2. CASE UNCHANGED claims
    BY <2>2
  <2>3. ASSUME NEW v \in Processor, ProcessCommit(v)
        PROVE  Len(claims') = Len(claims)
    <3>1. v = w
      BY <2>1, <2>3 DEF ProcessCommit, EvidenceInv
    <3> QED BY <2>3, <3>1, CommitGrows, SMTT(30)
  <2> QED BY <2>2, <2>3 DEF Next, vars, claimVars, ProcessRead, ProcessFails
<1>2. EvidenceInv /\ [Next]_vars => [Quiet]_vars
  BY <1>1
<1> HIDE DEF Quiet
<1>3. Spec => [][Quiet]_vars
  BY <1>2, EvidenceInvariant, PTL DEF Spec
<1> QED BY <1>3 DEF RerunCreatesNothing, Quiet
=============================================================================
