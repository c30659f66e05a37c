--------------------------- MODULE IdentityProofs ---------------------------
(***************************************************************************)
(* Proofs about Identity, for any finite set of accounts and any number of *)
(* collectors and resolutions.                                             *)
(***************************************************************************)
EXTENDS Identity, FiniteSetTheorems, WellFoundedInduction, TLAPS

(***************************************************************************)
(* Chains, for a function g that may be into before or after a step.       *)
(***************************************************************************)
\* A step along g leaves no person of S to one outside.
Closed(g, S) == \A p \in Person : g[p] # Nobody /\ p \in S => g[p] \in S

\* q is on the chain of p.
Leads(g, p, q) == \A S \in SUBSET Person : Closed(g, S) /\ p \in S => q \in S

\* p and q are connected by chains.
Even(g, S) == \A p \in Person : g[p] # Nobody => (p \in S <=> g[p] \in S)
Kin(g, p, q) == \A S \in SUBSET Person : Even(g, S) => (p \in S <=> q \in S)

Links == [Person -> Person \cup {Nobody}]

\* h has the links of g, and perhaps more.
Extends(h, g) == \A p \in Person : g[p] # Nobody => h[p] = g[p]

\* The elder of two persons stays: no chain comes back.
Ordered(g) == \A p \in Person : g[p] # Nobody => Exists(p) /\ Exists(g[p]) /\ Elder(g[p], p)

\* Accounts are uuids, Nobody is none of them.
LEMMA SomeBody == Nobody \notin Person /\ Person \subseteq Nat /\ IsFiniteSet(Person)
  BY IdentityAssumption DEF Nobody

\* Elder is a strict order of the persons there are.
LEMMA ElderOrder ==
  ASSUME born \in [Person -> Nat], NEW p \in Person
  PROVE  /\ ~Elder(p, p)
         /\ \A q, s \in Person : Elder(p, q) /\ Elder(q, s) => Elder(p, s)
         /\ \A q \in Person : Elder(p, q) => ~Elder(q, p) /\ p # q
  BY SomeBody DEF Elder

LEMMA LeadsBasics ==
  ASSUME NEW g \in Links, NEW p \in Person
  PROVE  /\ Leads(g, p, p)
         /\ \A q \in Person : g[p] = q => Leads(g, p, q)
         /\ \A q, s \in Person : Leads(g, p, q) /\ Leads(g, q, s) => Leads(g, p, s)
         /\ \A q \in Person : Leads(g, p, q) /\ p # q => g[p] # Nobody
<1>1. Leads(g, p, p)
  BY DEF Leads
<1>2. \A q \in Person : g[p] = q => Leads(g, p, q)
  BY SomeBody DEF Leads, Closed
<1>3. \A q, s \in Person : Leads(g, p, q) /\ Leads(g, q, s) => Leads(g, p, s)
  BY DEF Leads
<1>4. ASSUME NEW q \in Person, Leads(g, p, q), g[p] = Nobody PROVE p = q
  <2>1. Closed(g, {p})
    BY <1>4 DEF Closed
  <2> QED BY <2>1, <1>4 DEF Leads
<1> QED BY <1>1, <1>2, <1>3, <1>4

\* A chain goes from the younger to the elder.
LEMMA LeadsToElder ==
  ASSUME born \in [Person -> Nat], NEW g \in Links, Ordered(g),
         NEW p \in Person, NEW q \in Person, Leads(g, p, q)
  PROVE  q = p \/ Elder(q, p)
<1> DEFINE S == {x \in Person : x = p \/ Elder(x, p)}
<1>1. ASSUME NEW x \in S, g[x] # Nobody PROVE g[x] \in S
  <2>1. g[x] \in Person /\ Elder(g[x], x)
    BY <1>1 DEF Links, Ordered
  <2> QED BY <1>1, <2>1, ElderOrder
<1>2. Closed(g, S)
  BY <1>1 DEF Closed
<1>3. q \in S
  BY <1>2 DEF Leads
<1> QED BY <1>3

LEMMA LeadsOneWay ==
  ASSUME born \in [Person -> Nat], NEW g \in Links, Ordered(g),
         NEW p \in Person, NEW q \in Person, Leads(g, p, q), Leads(g, q, p)
  PROVE  p = q
  BY LeadsToElder, ElderOrder

LEMMA LeadsIsKin ==
  ASSUME NEW g \in Links, NEW p \in Person, NEW q \in Person, Leads(g, p, q)
  PROVE  Kin(g, p, q)
<1> SUFFICES ASSUME NEW S \in SUBSET Person, Even(g, S) PROVE p \in S <=> q \in S
  BY DEF Kin
<1>1. Closed(g, S)
  BY DEF Closed, Even
<1>2. Closed(g, Person \ S)
  BY DEF Closed, Even, Links
<1>3. p \in S => q \in S
  BY <1>1 DEF Leads
<1>4. p \in Person \ S => q \in Person \ S
  BY <1>2 DEF Leads
<1> QED BY <1>3, <1>4

LEMMA KinBasics ==
  ASSUME NEW g, NEW p, NEW q, NEW s
  PROVE  /\ Kin(g, p, p)
         /\ Kin(g, p, q) => Kin(g, q, p)
         /\ Kin(g, p, q) /\ Kin(g, q, s) => Kin(g, p, s)
  BY DEF Kin

\* The end of a chain is on the chain of everyone connected with it.
LEMMA KinLeadsToEnd ==
  ASSUME NEW g \in Links, NEW p \in Person, NEW q \in Person, Kin(g, p, q), g[q] = Nobody
  PROVE  Leads(g, p, q)
<1> DEFINE S == {x \in Person : Leads(g, x, q)}
<1>1. ASSUME NEW x \in Person, g[x] # Nobody PROVE x \in S <=> g[x] \in S
  <2>1. g[x] \in Person
    BY <1>1 DEF Links
  <2>2. Leads(g, g[x], q) => Leads(g, x, q)
    BY <2>1, LeadsBasics
  <2>3. ASSUME Leads(g, x, q), NEW T \in SUBSET Person, Closed(g, T), g[x] \in T PROVE q \in T
    <3>1. Closed(g, T \cup {x})
      BY <2>3 DEF Closed
    <3>2. q \in T \cup {x}
      BY <2>3, <3>1 DEF Leads
    <3> QED BY <3>2, <1>1
  <2> QED BY <2>1, <2>2, <2>3 DEF Leads
<1>2. Even(g, S)
  BY <1>1 DEF Even
<1>3. q \in S
  BY LeadsBasics
<1>4. p \in S
  BY <1>2, <1>3 DEF Kin
<1> QED BY <1>4

\* Links only add to chains.
LEMMA ExtendsKeeps ==
  ASSUME NEW g \in Links, NEW h \in Links, Extends(h, g), NEW p, NEW q
  PROVE  /\ Leads(g, p, q) => Leads(h, p, q)
         /\ Kin(g, p, q) => Kin(h, p, q)
<1>1. \A S : Closed(h, S) => Closed(g, S)
  BY DEF Closed, Extends
<1>2. \A S : Even(h, S) => Even(g, S)
  BY DEF Even, Extends
<1> QED BY <1>1, <1>2 DEF Leads, Kin

(***************************************************************************)
(* The loop that follows superseded_by_id.                                 *)
(***************************************************************************)
Below == {ss \in Nat \X Nat : ss[1] < ss[2]}

\* Every nonempty set of numbers has a least one.
LEMMA LeastNumber ==
  ASSUME NEW T \in SUBSET Nat, T # {}
  PROVE  \E n \in T : \A m \in T : n <= m
<1>1. IsWellFoundedOn(Below, Nat)
  BY NatLessThanWellFounded DEF OpToRel, Below
<1>2. PICK n \in T : \A m \in T : ~(<<m, n>> \in Below)
  BY <1>1, WFMin
<1>3. \A m \in T : <<m, n>> \in Nat \X Nat /\ <<m, n>>[1] = m /\ <<m, n>>[2] = n
  OBVIOUS
<1>4. \A m \in T : ~(m < n)
  BY <1>2, <1>3 DEF Below
<1> QED BY <1>4

\* Where a step of the loop takes it.
On(q) == IF into[q] = Nobody THEN q ELSE into[q]
Steps == Cardinality(Person)
IsWalk(p, n, s) == s = [i \in 0 .. n |-> IF i = 0 THEN p ELSE On(s[i - 1])]

LEMMA StepsNat == Steps \in Nat
  BY SomeBody, FS_CardinalityType DEF Steps

LEMMA SomeWalk ==
  ASSUME NEW p, NEW n \in Nat
  PROVE  \E s : IsWalk(p, n, s)
<1> DEFINE T == {k \in Nat : ~\E s : IsWalk(p, k, s)}
<1>1. SUFFICES T = {}
  BY <1>1
<1>2. SUFFICES ASSUME T # {} PROVE FALSE
  BY <1>2
<1>3. PICK k \in T : \A m \in T : k <= m
  BY <1>2, LeastNumber
<1>4. k # 0
  <2>1. IsWalk(p, 0, [i \in 0 .. 0 |-> p])
    BY DEF IsWalk
  <2> QED BY <2>1
<1>5. PICK s : IsWalk(p, k - 1, s)
  <2>1. k - 1 \in Nat /\ k - 1 \notin T
    BY <1>3, <1>4
  <2> QED BY <2>1
<1>6. PICK t : t = [i \in 0 .. k |-> IF i = k THEN On(s[k - 1]) ELSE s[i]]
  OBVIOUS
<1>7. \A i \in 0 .. k : t[i] = IF i = k THEN On(s[k - 1]) ELSE s[i]
  BY <1>6
<1>8. \A i \in 0 .. k - 1 : s[i] = IF i = 0 THEN p ELSE On(s[i - 1])
  BY <1>5 DEF IsWalk
<1>9. \A i \in 0 .. k : t[i] = IF i = 0 THEN p ELSE On(t[i - 1])
  <2> SUFFICES ASSUME NEW i \in 0 .. k PROVE t[i] = IF i = 0 THEN p ELSE On(t[i - 1])
    OBVIOUS
  <2>1. k \in Nat
    BY <1>3
  <2>2. CASE i = k
    <3>1. t[i] = On(s[k - 1]) /\ t[k - 1] = s[k - 1]
      BY <2>1, <2>2, <1>7, <1>4
    <3> QED BY <3>1, <2>2, <1>4
  <2>3. CASE i # k
    <3>1. i \in 0 .. k - 1 /\ t[i] = s[i] /\ (i # 0 => t[i - 1] = s[i - 1])
      BY <2>1, <2>3, <1>7
    <3> QED BY <3>1, <1>8
  <2> QED BY <2>2, <2>3
<1>10. IsWalk(p, k, t)
  BY <1>6, <1>9 DEF IsWalk
<1> QED BY <1>10, <1>3

LEMMA WalkSteps ==
  ASSUME NEW p
  PROVE  /\ Walk(p)[0] = p
         /\ \A i \in 1 .. Steps : Walk(p)[i] = On(Walk(p)[i - 1])
<1> DEFINE P(s) == IsWalk(p, Steps, s)
<1>1. Walk(p) = CHOOSE s : P(s)
  BY DEF Walk, IsWalk, On, Steps
<1>2. \E s : P(s)
  BY SomeWalk, StepsNat
<1> HIDE DEF P
<1>3. P(Walk(p))
  BY <1>1, <1>2
<1>4. PICK w : w = Walk(p)
  OBVIOUS
<1>5. w = [i \in 0 .. Steps |-> IF i = 0 THEN p ELSE On(w[i - 1])]
  BY <1>3, <1>4 DEF P, IsWalk
<1>6. w[0] = p /\ \A i \in 1 .. Steps : w[i] = On(w[i - 1])
  BY <1>5, StepsNat
<1> QED BY <1>4, <1>6

\* The number of persons is enough steps: the loop ends at a person without a successor,
\* on the chain of the one it started from.
LEMMA LoopEnds ==
  ASSUME born \in [Person -> Nat], into \in Links, Ordered(into), NEW p \in Person
  PROVE  /\ Chain(p) \in Person /\ into[Chain(p)] = Nobody
         /\ Leads(into, p, Chain(p))
         /\ Exists(p) => Exists(Chain(p))
<1> DEFINE w == Walk(p)
<1>1. w[0] = p /\ \A i \in 1 .. Steps : w[i] = On(w[i - 1])
  BY WalkSteps
<1>2. \A q \in Person : /\ On(q) \in Person /\ Leads(into, q, On(q))
                        /\ Exists(q) => Exists(On(q))
                        /\ into[q] # Nobody => Elder(On(q), q)
  BY LeadsBasics, SomeBody DEF On, Links, Ordered
<1> HIDE DEF w
<1>3. ASSUME NEW i \in 0 .. Steps
      PROVE  w[i] \in Person /\ Leads(into, p, w[i]) /\ (Exists(p) => Exists(w[i]))
  <2> DEFINE Good(k) == w[k] \in Person /\ Leads(into, p, w[k]) /\ (Exists(p) => Exists(w[k]))
             T == {k \in 0 .. Steps : ~Good(k)}
  <2>1. SUFFICES ASSUME T # {} PROVE FALSE
    OBVIOUS
  <2>2. T \in SUBSET Nat
    BY StepsNat
  <2>3. PICK k \in T : \A m \in T : k <= m
    BY <2>1, <2>2, LeastNumber
  <2>4. Good(0)
    BY <1>1, LeadsBasics
  <2>5. k \in 1 .. Steps /\ k - 1 \in 0 .. Steps /\ k - 1 < k
    BY <2>3, <2>4, StepsNat
  <2>6. Good(k - 1)
    BY <2>3, <2>5
  <2>7. w[k] = On(w[k - 1])
    BY <1>1, <2>5
  <2>8. Good(k)
    BY <2>6, <2>7, <1>2, LeadsBasics
  <2> QED BY <2>3, <2>8
<1> DEFINE End(i) == into[w[i]] = Nobody
<1>4. ASSUME NEW i \in 0 .. Steps, End(i) PROVE End(Steps)
  <2> DEFINE T == {k \in 0 .. Steps : k >= i /\ ~End(k)}
  <2>1. SUFFICES ASSUME T # {} PROVE FALSE
    BY StepsNat
  <2>2. T \in SUBSET Nat
    BY StepsNat
  <2>3. PICK k \in T : \A m \in T : k <= m
    BY <2>1, <2>2, LeastNumber
  <2>4. k \in 1 .. Steps /\ k - 1 \in 0 .. Steps /\ k - 1 >= i /\ k - 1 < k
    BY <2>3, <1>4, StepsNat
  <2>5. End(k - 1)
    BY <2>3, <2>4
  <2>6. w[k] = w[k - 1]
    BY <1>1, <2>4, <2>5 DEF On
  <2> QED BY <2>3, <2>5, <2>6
<1>5. \E i \in 0 .. Steps : End(i)
  <2> SUFFICES ASSUME \A i \in 0 .. Steps : ~End(i) PROVE FALSE
    OBVIOUS
  <2>1. \A i \in 1 .. Steps : Elder(w[i], w[i - 1])
    <3> SUFFICES ASSUME NEW i \in 1 .. Steps PROVE Elder(w[i], w[i - 1])
      OBVIOUS
    <3>1. i - 1 \in 0 .. Steps
      BY StepsNat
    <3> QED BY <3>1, <1>1, <1>2, <1>3
  <2>2. ASSUME NEW i \in 0 .. Steps, NEW j \in 0 .. Steps, i < j PROVE Elder(w[j], w[i])
    <3> DEFINE T == {k \in 0 .. Steps : i < k /\ ~Elder(w[k], w[i])}
    <3>1. SUFFICES ASSUME T # {} PROVE FALSE
      BY <2>2
    <3>2. T \in SUBSET Nat
      BY StepsNat
    <3>3. PICK k \in T : \A m \in T : k <= m
      BY <3>1, <3>2, LeastNumber
    <3>4. k \in 1 .. Steps /\ k - 1 \in 0 .. Steps /\ k - 1 < k /\ (k - 1 = i \/ i < k - 1)
      BY <3>3, StepsNat
    <3>5. k - 1 = i \/ Elder(w[k - 1], w[i])
      BY <3>3, <3>4
    <3>6. Elder(w[k], w[k - 1])
      BY <2>1, <3>4
    <3>7. w[k] \in Person /\ w[k - 1] \in Person /\ w[i] \in Person
      BY <1>3, <3>4
    <3> QED BY <3>3, <3>5, <3>6, <3>7, ElderOrder
  <2>3. \A i, j \in 0 .. Steps : i < j => w[i] # w[j]
    BY <2>2, <1>3, ElderOrder
  <2>4. PICK f : f = [i \in 0 .. Steps |-> w[i]]
    OBVIOUS
  <2>5. f \in [0 .. Steps -> Person]
    BY <2>4, <1>3
  <2>6. IsFiniteSet(0 .. Steps) /\ Cardinality(0 .. Steps) = Steps + 1
    BY FS_Interval, StepsNat
  <2>7. Cardinality(Person) < Cardinality(0 .. Steps)
    BY <2>6, StepsNat DEF Steps
  <2>8. PICK i, j \in 0 .. Steps : i # j /\ f[i] = f[j]
    BY <2>5, <2>6, <2>7, SomeBody, FS_PigeonHole
  <2>9. w[i] = w[j] /\ (i < j \/ j < i)
    BY <2>4, <2>8, StepsNat
  <2> QED BY <2>3, <2>9
<1>6. Chain(p) = w[Steps] /\ Steps \in 0 .. Steps
  BY StepsNat DEF Chain, Steps, w
<1>7. End(Steps)
  BY <1>4, <1>5
<1> QED BY <1>3, <1>6, <1>7

(***************************************************************************)
(* The rows of the state.                                                  *)
(***************************************************************************)
Review == [pair : Pair, status : {"pending", "approved", "rejected"}]

Resolution == [phase : {"idle", "pairs"}, pairs : SUBSET Pair, gone : SUBSET Person,
               to : [Person -> Person], handles : [Person -> SUBSET Person],
               merged : SUBSET (Person \X Person), flag : SUBSET Pair]

\* Persons and observations.
EvidenceShape ==
  /\ born \in [Person -> Nat] /\ into \in Links
  /\ handles \in [Person -> SUBSET Person]
  /\ subject \in [Row -> Person \cup {Nobody}]

\* Reviews, collectors and resolutions.
WorkShape ==
  /\ matches \in Seq(Review)
  /\ DOMAIN collect = Collector
  /\ resolve \in [Resolver -> Resolution]
  /\ remerged \in BOOLEAN

\* Whoever is named was created.
Known ==
  /\ \A p \in Person : \A a \in handles[p] : Exists(a)
  /\ \A row \in Row : subject[row] # Nobody => Exists(subject[row]) /\ Exists(row[1].account)
  /\ \A i \in DOMAIN matches : \A p \in matches[i].pair : Exists(p)
  /\ \A w \in Collector : \A a \in DOMAIN collect[w] :
       a \in Person /\ collect[w][a] \in Person /\ Exists(a) /\ Exists(collect[w][a])

\* A resolution: what it has merged, in what order, and where that takes each person.
ToElders(run) == \A m \in run.merged : Exists(m[1]) /\ Exists(m[2]) /\ Elder(m[1], m[2])
MergedOnce(run) ==
  /\ run.gone = {m[2] : m \in run.merged}
  /\ \A m, n \in run.merged : m[2] = n[2] => m = n
MovedOn(run) ==
  /\ \A p \in Person : run.to[p] \notin run.gone /\ (p \notin run.gone => run.to[p] = p)
  /\ \A S \in SUBSET Person, p \in Person :
       (\A m \in run.merged : m[2] \in S => m[1] \in S) /\ p \in S => run.to[p] \in S
Mentions(run) ==
  /\ \A pr \in run.pairs \cup run.flag : \A p \in pr : Exists(p)
  /\ \A p \in Person : \A a \in run.handles[p] : Exists(a)
RunOK(run) == ToElders(run) /\ MergedOnce(run) /\ MovedOn(run) /\ Mentions(run)

RunsOK == \A r \in Resolver : RunOK(resolve[r])

IdentityInv == EvidenceShape /\ WorkShape /\ Known /\ Ordered(into) /\ RunsOK

\* A person once created stays as it is.
Stays == \A p \in Person : Exists(p) => born'[p] = born[p]

LEMMA ElderStays ==
  ASSUME born \in [Person -> Nat], Stays, NEW p \in Person, NEW q \in Person, Exists(p), Exists(q)
  PROVE  /\ Exists(p)' /\ Exists(q)'
         /\ Elder(p, q) => Elder(p, q)'
  BY DEF Stays, Exists, Elder

LEMMA RunStays ==
  ASSUME born \in [Person -> Nat], Stays, NEW run \in Resolution, RunOK(run)
  PROVE  RunOK(run)'
<1>1. ToElders(run)'
  <2>1. \A m \in run.merged : m[1] \in Person /\ m[2] \in Person
    BY DEF Resolution
  <2> QED BY <2>1, ElderStays DEF RunOK, ToElders
<1>2. Mentions(run)'
  <2>1. \A pr \in Pair : pr \subseteq Person
    BY DEF Pair
  <2>2. run.pairs \subseteq Pair /\ run.flag \subseteq Pair
    BY DEF Resolution
  <2>3. \A p \in Person : run.handles[p] \subseteq Person
    BY DEF Resolution
  <2>4. \A p \in Person : Exists(p) => Exists(p)'
    BY DEF Stays, Exists
  <2> QED BY <2>1, <2>2, <2>3, <2>4 DEF RunOK, Mentions
<1> QED BY <1>1, <1>2 DEF RunOK, MergedOnce, MovedOn

LEMMA IdleOK == IdleResolver \in Resolution /\ RunOK(IdleResolver)
<1>1. /\ IdleResolver.merged = {} /\ IdleResolver.gone = {}
      /\ IdleResolver.pairs = {} /\ IdleResolver.flag = {}
      /\ \A p \in Person : IdleResolver.to[p] = p /\ IdleResolver.handles[p] = {}
  BY DEF IdleResolver
<1>2. IdleResolver \in Resolution
  BY DEF IdleResolver, Resolution
<1>3. ToElders(IdleResolver) /\ MergedOnce(IdleResolver) /\ Mentions(IdleResolver)
  BY <1>1 DEF ToElders, MergedOnce, Mentions
<1>4. MovedOn(IdleResolver)
  BY <1>1 DEF MovedOn
<1> QED BY <1>2, <1>3, <1>4 DEF RunOK

LEMMA IdentityStart == IdentityInit => IdentityInv
<1> SUFFICES ASSUME IdentityInit PROVE IdentityInv
  OBVIOUS
<1> USE DEF IdentityInit
<1>1. EvidenceShape
  BY DEF EvidenceShape, Links
<1>2. WorkShape
  <2>1. matches \in Seq(Review)
    OBVIOUS
  <2>2. resolve \in [Resolver -> Resolution]
    <3>1. PICK idle : idle = IdleResolver
      OBVIOUS
    <3>2. resolve = [r \in Resolver |-> idle] /\ idle \in Resolution
      BY <3>1, IdleOK
    <3> QED BY <3>2
  <2> QED BY <2>1, <2>2 DEF WorkShape
<1>3. Known
  <2>1. \A w \in Collector : DOMAIN collect[w] = {}
    OBVIOUS
  <2>2. DOMAIN matches = {} /\ \A row \in Row : subject[row] = Nobody
    OBVIOUS
  <2> QED BY <2>1, <2>2 DEF Known
<1>4. Ordered(into)
  BY DEF Ordered
<1>5. RunsOK
  BY IdleOK DEF RunsOK
<1> QED BY <1>1, <1>2, <1>3, <1>4, <1>5 DEF IdentityInv

\* Facts are about accounts.
LEMMA RowFacts ==
  /\ \A row \in Row : row[1] \in Fact /\ row[1].account \in Person /\ row[2] \in Person
  /\ \A f \in Fact, p \in Person : <<f, p>> \in Row /\ <<f, p>>[1] = f /\ <<f, p>>[2] = p
  BY IdentityAssumption DEF Row

\* A step that leaves the evidence as it is.
LEMMA SameEvidence ==
  ASSUME EvidenceShape, UNCHANGED evidence
  PROVE  Stays /\ EvidenceShape' /\ (Ordered(into) => Ordered(into)')
  BY DEF EvidenceShape, evidence, Stays, Ordered, Exists, Elder

\* A resolution changes, the others stay.
LEMMA OneRun ==
  ASSUME IdentityInv, Stays, NEW r \in Resolver, NEW run \in Resolution, RunOK(run),
         resolve' = [resolve EXCEPT ![r] = run]
  PROVE  resolve' \in [Resolver -> Resolution] /\ RunsOK'
<1>1. resolve' \in [Resolver -> Resolution]
  BY DEF IdentityInv, WorkShape
<1>2. ASSUME NEW s \in Resolver PROVE RunOK(resolve[s])'
  <2>1. PICK q : q = resolve'[s]
    OBVIOUS
  <2>2. q \in Resolution /\ RunOK(q)
    BY <2>1 DEF IdentityInv, WorkShape, RunsOK
  <2>3. RunOK(q)'
    BY <2>2, RunStays DEF IdentityInv, EvidenceShape
  <2> QED BY <2>1, <2>3 DEF RunOK, ToElders, MergedOnce, MovedOn, Mentions
<1> QED BY <1>1, <1>2 DEF RunsOK

LEMMA SameRuns ==
  ASSUME IdentityInv, Stays, UNCHANGED resolve
  PROVE  RunsOK'
<1>1. ASSUME NEW s \in Resolver PROVE RunOK(resolve[s])'
  <2>1. PICK q : q = resolve[s]
    OBVIOUS
  <2>2. q \in Resolution /\ RunOK(q)
    BY <2>1 DEF IdentityInv, WorkShape, RunsOK
  <2>3. RunOK(q)'
    BY <2>2, RunStays DEF IdentityInv, EvidenceShape
  <2> QED BY <2>1, <2>3 DEF RunOK, ToElders, MergedOnce, MovedOn, Mentions
<1> QED BY <1>1 DEF RunsOK

LEMMA ReviewedPersons ==
  ASSUME IdentityInv
  PROVE  \A i \in DOMAIN matches : matches[i] \in Review /\ matches[i].pair \subseteq Person
<1>1. \A pr \in Pair : pr \subseteq Person
  BY DEF Pair
<1>2. \A m \in Review : m.pair \in Pair
  BY DEF Review
<1>3. \A i \in DOMAIN matches : matches[i] \in Review
  BY DEF IdentityInv, WorkShape
<1> QED BY <1>1, <1>2, <1>3

LEMMA DiscoverKeeps ==
  ASSUME IdentityInv, NEW w \in Collector, NEW A \in SUBSET Person, Discover(w, A)
  PROVE  IdentityInv' /\ Stays
<1> DEFINE new == {a \in A : Found(a) = {}}
           now == 1 + Cardinality({born[p] : p \in {q \in Person : Exists(q)}})
<1>1. CASE UNCHANGED <<born, handles, collect>>
  <2>1. UNCHANGED <<evidence, matches, resolve, remerged>>
    BY <1>1 DEF Discover, evidence
  <2>2. Stays /\ EvidenceShape' /\ Ordered(into)'
    BY <2>1, SameEvidence DEF IdentityInv
  <2>3. RunsOK'
    BY <2>1, <2>2, SameRuns
  <2>4. WorkShape' /\ Known'
    BY <1>1, <2>1 DEF IdentityInv, WorkShape, Known, evidence, Exists
  <2> QED BY <2>2, <2>3, <2>4 DEF IdentityInv
<1>2. CASE ~UNCHANGED <<born, handles, collect>>
  <2>1. /\ born' = [p \in Person |-> IF p \in new THEN now ELSE born[p]]
        /\ handles' = [p \in Person |-> IF p \in new THEN {p} ELSE handles[p]]
        /\ collect' = [collect EXCEPT ![w] =
              [a \in A |-> IF a \in new THEN a ELSE Chain(CHOOSE p \in Found(a) : TRUE)]]
    BY <1>2 DEF Discover
  <2>2. /\ UNCHANGED <<into, subject, matches, resolve, remerged>>
        /\ \A a \in new : a \in Person /\ ~Exists(a)
    BY DEF Discover
  <2>3. now \in Nat \ {0}
    <3> DEFINE there == {q \in Person : Exists(q)}
               times == {born[p] : p \in there}
    <3>1. IsFiniteSet(there)
      BY SomeBody, FS_Subset
    <3>2. PICK f : f = [p \in there |-> born[p]]
      OBVIOUS
    <3>3. f \in Surjection(there, times)
      BY <3>2 DEF Surjection
    <3>4. IsFiniteSet(times)
      BY <3>1, <3>3, FS_Surjection
    <3>5. Cardinality(times) \in Nat
      BY <3>4, FS_CardinalityType
    <3> QED BY <3>5
  <2> HIDE DEF now
  <2>4. /\ Stays
        /\ \A p \in Person : Exists(p) => Exists(p)'
        /\ \A p \in new : Exists(p)'
    BY <2>1, <2>2, <2>3 DEF Stays, Exists, IdentityInv, EvidenceShape
  <2>5. EvidenceShape'
    <3>1. handles' \in [Person -> SUBSET Person]
      BY <2>1, <2>2 DEF IdentityInv, EvidenceShape
    <3>2. born' \in [Person -> Nat]
      BY <2>1, <2>3 DEF IdentityInv, EvidenceShape
    <3> QED BY <2>2, <3>1, <3>2 DEF IdentityInv, EvidenceShape
  <2>6. Ordered(into)'
    <3>1. \A p \in Person : into[p] # Nobody => into[p] \in Person
      BY DEF IdentityInv, EvidenceShape, Links
    <3> QED BY <2>2, <2>4, <3>1, ElderStays DEF Ordered, IdentityInv, EvidenceShape
  <2>7. RunsOK'
    BY <2>2, <2>4, SameRuns
  <2>8. WorkShape'
    BY <2>1, <2>2 DEF IdentityInv, WorkShape
  <2>9. ASSUME NEW a \in A, a \notin new
        PROVE  LET q == Chain(CHOOSE p \in Found(a) : TRUE) IN Exists(a) /\ q \in Person /\ Exists(q)
    <3>1. PICK p : p = CHOOSE x \in Found(a) : TRUE
      OBVIOUS
    <3>2. p \in Found(a)
      BY <2>9, <3>1
    <3>3. p \in Person /\ Exists(p) /\ Exists(a)
      BY <3>2 DEF Found, IdentityInv, Known
    <3>4. Chain(p) \in Person /\ Exists(Chain(p))
      BY <3>3, LoopEnds DEF IdentityInv, EvidenceShape
    <3> QED BY <3>1, <3>3, <3>4
  <2>10. Known'
    <3>1. \A v \in Collector : \A a \in DOMAIN collect'[v] :
            a \in Person /\ collect'[v][a] \in Person /\ Exists(a)' /\ Exists(collect[v][a])'
      <4> SUFFICES ASSUME NEW v \in Collector, NEW a \in DOMAIN collect'[v]
                   PROVE a \in Person /\ collect'[v][a] \in Person
                           /\ born'[a] # 0 /\ born'[collect'[v][a]] # 0
        BY DEF Exists
      <4>1. CASE v # w
        <5>1. collect'[v] = collect[v]
          BY <2>1, <4>1
        <5>2. a \in Person /\ collect[v][a] \in Person /\ Exists(a) /\ Exists(collect[v][a])
          BY <5>1 DEF IdentityInv, Known
        <5> QED BY <5>1, <5>2, <2>4 DEF Exists
      <4>2. CASE v = w
        <5>1. PICK l : l = [b \in A |-> IF b \in new THEN b
                                        ELSE Chain(CHOOSE p \in Found(b) : TRUE)]
          OBVIOUS
        <5>2. collect'[v] = l
          BY <2>1, <5>1, <4>2 DEF IdentityInv, WorkShape
        <5>3. a \in A
          BY <5>1, <5>2
        <5>4. CASE a \in new
          <6>1. l[a] = a
            BY <5>1, <5>3, <5>4
          <6> QED BY <5>2, <5>3, <5>4, <6>1, <2>4 DEF Exists
        <5>5. CASE a \notin new
          <6>1. l[a] = Chain(CHOOSE p \in Found(a) : TRUE)
            BY <5>1, <5>3, <5>5
          <6>2. Exists(a) /\ l[a] \in Person /\ Exists(l[a])
            BY <2>9, <5>3, <5>5, <6>1
          <6> QED BY <5>2, <5>3, <6>2, <2>4 DEF Exists
        <5> QED BY <5>4, <5>5
      <4> QED BY <4>1, <4>2
    <3>2. ASSUME NEW p \in Person, NEW a \in handles'[p] PROVE Exists(a)'
      <4>1. CASE p \in new
        BY <2>1, <2>4, <3>2, <4>1
      <4>2. CASE p \notin new
        <5>1. a \in handles[p]
          BY <2>1, <3>2, <4>2
        <5>2. a \in Person /\ Exists(a)
          BY <5>1 DEF IdentityInv, EvidenceShape, Known
        <5> QED BY <5>2, <2>4
      <4> QED BY <4>1, <4>2
    <3>3. ASSUME NEW row \in Row, subject'[row] # Nobody
          PROVE  Exists(subject[row])' /\ Exists(row[1].account)'
      <4>1. subject[row] \in Person /\ row[1].account \in Person /\ subject'[row] = subject[row]
        BY <2>2, <3>3, RowFacts DEF IdentityInv, EvidenceShape
      <4>2. Exists(subject[row]) /\ Exists(row[1].account)
        BY <2>2, <3>3 DEF IdentityInv, Known
      <4> QED BY <4>1, <4>2, <2>4 DEF Exists
    <3>4. \A i \in DOMAIN matches' : \A p \in matches'[i].pair : Exists(p)'
      BY <2>2, <2>4, ReviewedPersons DEF IdentityInv, Known
    <3> QED BY <3>1, <3>2, <3>3, <3>4 DEF Known
  <2> QED BY <2>4, <2>5, <2>6, <2>7, <2>8, <2>10 DEF IdentityInv
<1> QED BY <1>1, <1>2

LEMMA WriteKeeps ==
  ASSUME IdentityInv, NEW w \in Collector, NEW a \in Person, Write(w, a)
  PROVE  IdentityInv' /\ Stays
<1> PICK new : new = {f \in Fact : f.account = a /\ ~Stored(f, collect[w][a])}
  OBVIOUS
<1> PICK p \in Person : p = collect[w][a] /\ Exists(a) /\ Exists(p)
  BY DEF Write, IdentityInv, Known
<1>1. /\ subject' = [row \in Row |-> IF row \in new \X {p} THEN p ELSE subject[row]]
      /\ UNCHANGED <<born, into, handles, matches, collect, resolve, rounds, remerged>>
  BY DEF Write
<1>2. Stays /\ EvidenceShape' /\ Ordered(into)'
  BY <1>1 DEF IdentityInv, EvidenceShape, Stays, Ordered, Exists, Elder
<1>3. RunsOK'
  BY <1>1, <1>2, SameRuns
<1>4. WorkShape'
  BY <1>1 DEF IdentityInv, WorkShape
<1>5. ASSUME NEW row \in Row, subject'[row] # Nobody
      PROVE  Exists(subject[row])' /\ Exists(row[1].account)'
  <2>1. CASE row \in new \X {p}
    BY <1>1, <2>1 DEF Exists
  <2>2. CASE row \notin new \X {p}
    <3>1. subject'[row] = subject[row]
      BY <1>1, <2>2
    <3> QED BY <1>1, <1>5, <3>1 DEF Exists, IdentityInv, Known
  <2> QED BY <2>1, <2>2
<1>6. Known'
  BY <1>1, <1>5 DEF IdentityInv, Known, Exists
<1> QED BY <1>2, <1>3, <1>4, <1>6 DEF IdentityInv

LEMMA LeaveKeeps ==
  ASSUME IdentityInv, NEW w \in Collector, Leave(w)
  PROVE  IdentityInv' /\ Stays
<1>1. collect' = [collect EXCEPT ![w] = <<>>] /\ UNCHANGED <<evidence, matches, resolve, remerged>>
  BY DEF Leave
<1>2. Stays /\ EvidenceShape' /\ Ordered(into)'
  BY <1>1, SameEvidence DEF IdentityInv
<1>3. RunsOK'
  BY <1>1, <1>2, SameRuns
<1>4. WorkShape'
  BY <1>1 DEF IdentityInv, WorkShape
<1>5. \A v \in Collector : \A a \in DOMAIN collect'[v] :
        a \in DOMAIN collect[v] /\ collect'[v][a] = collect[v][a]
  BY <1>1 DEF IdentityInv, WorkShape
<1>6. Known'
  BY <1>1, <1>5 DEF IdentityInv, Known, Exists, evidence
<1> QED BY <1>2, <1>3, <1>4, <1>6 DEF IdentityInv

\* A step of one resolution that writes nothing.
LEMMA OnlyRun ==
  ASSUME IdentityInv, UNCHANGED <<evidence, matches, collect, remerged>>, NEW r \in Resolver,
         NEW run \in Resolution, RunOK(run), resolve' = [resolve EXCEPT ![r] = run]
  PROVE  IdentityInv' /\ Stays
<1>1. Stays /\ EvidenceShape' /\ Ordered(into)'
  BY SameEvidence DEF IdentityInv
<1>2. resolve' \in [Resolver -> Resolution] /\ RunsOK'
  BY <1>1, OneRun
<1>3. WorkShape' /\ Known'
  BY <1>2 DEF IdentityInv, WorkShape, Known, Exists, evidence
<1> QED BY <1>1, <1>2, <1>3 DEF IdentityInv

LEMMA FailsKeeps ==
  ASSUME IdentityInv, NEW r \in Resolver, ResolveFails(r)
  PROVE  IdentityInv' /\ Stays
<1>1. PICK run : run = IdleResolver
  OBVIOUS
<1> QED BY <1>1, IdleOK, OnlyRun DEF ResolveFails

LEMMA ReadKeeps ==
  ASSUME IdentityInv, NEW r \in Resolver, ResolveRead(r)
  PROVE  IdentityInv' /\ Stays
<1> DEFINE ps == {pr \in Pair : /\ \A p \in pr : Canonical(p)
                              /\ \E p, q \in pr : p # q /\ Blocked(p, q)}
<1>1. PICK run : run = [IdleResolver EXCEPT !.phase = "pairs", !.handles = handles, !.pairs = ps]
  OBVIOUS
<1>2. /\ run.phase = "pairs" /\ run.handles = handles /\ run.pairs = ps /\ run.gone = {}
      /\ run.merged = {} /\ run.flag = {} /\ run.to = [p \in Person |-> p]
      /\ run \in Resolution
  BY <1>1 DEF IdleResolver, Resolution, IdentityInv, EvidenceShape
<1>3. ToElders(run) /\ MergedOnce(run)
  BY <1>2 DEF ToElders, MergedOnce
<1>4. Mentions(run)
  BY <1>2 DEF Mentions, Canonical, IdentityInv, Known
<1>5. MovedOn(run)
  BY <1>2 DEF MovedOn
<1>6. RunOK(run)
  BY <1>3, <1>4, <1>5 DEF RunOK
<1> QED BY <1>1, <1>2, <1>6, OnlyRun DEF ResolveRead

\* A merge of d into c, in what a resolution has done so far.
Merged(run, c, d) ==
  [run EXCEPT !.pairs = @ \ {{c, d}}, !.gone = @ \cup {d}, !.merged = @ \cup {<<c, d>>},
              !.to = [p \in Person |-> IF @[p] = d THEN c ELSE @[p]],
              !.handles = Union(@, c, d)]

LEMMA UnionOf ==
  ASSUME NEW h \in [Person -> SUBSET Person], NEW c \in Person, NEW d \in Person
  PROVE  /\ Union(h, c, d) \in [Person -> SUBSET Person]
         /\ \A p \in Person : h[p] \subseteq Union(h, c, d)[p]
         /\ \A p \in Person : \A a \in Union(h, c, d)[p] : a \in h[p] \/ (p = c /\ a \in h[d])
  BY DEF Union

LEMMA MergedOK ==
  ASSUME NEW run \in Resolution, RunOK(run), NEW c \in Person, NEW d \in Person,
         Exists(c), Exists(d), Elder(c, d), born \in [Person -> Nat],
         c \notin run.gone, d \notin run.gone
  PROVE  Merged(run, c, d) \in Resolution /\ RunOK(Merged(run, c, d))
<1>1. PICK t : t = Merged(run, c, d)
  OBVIOUS
<1>2. /\ t.phase = run.phase /\ t.pairs = run.pairs \ {{c, d}} /\ t.gone = run.gone \cup {d}
      /\ t.merged = run.merged \cup {<<c, d>>} /\ t.flag = run.flag
      /\ t.to = [p \in Person |-> IF run.to[p] = d THEN c ELSE run.to[p]]
      /\ t.handles = Union(run.handles, c, d)
      /\ DOMAIN t = DOMAIN run
  BY <1>1 DEF Merged, Resolution
<1>3. /\ run.to \in [Person -> Person] /\ run.handles \in [Person -> SUBSET Person]
      /\ run.merged \subseteq Person \X Person /\ run.gone \subseteq Person
  BY DEF Resolution
<1>4. c # d
  BY ElderOrder
<1> PICK h \in [Person -> SUBSET Person] : h = run.handles
  BY <1>3
<1> PICK new : new = <<c, d>>
  OBVIOUS
<1>5. /\ t.merged = run.merged \cup {new} /\ t.handles = Union(h, c, d)
       /\ new[1] = c /\ new[2] = d
  BY <1>2
<1>6. t \in Resolution
  <2>1. t.handles \in [Person -> SUBSET Person] /\ t.to \in [Person -> Person]
    <3>1. t.handles \in [Person -> SUBSET Person]
      BY <1>5, UnionOf
    <3> QED BY <3>1, <1>2, <1>3
  <2>2. /\ t.phase \in {"idle", "pairs"} /\ t.pairs \in SUBSET Pair /\ t.flag \in SUBSET Pair
        /\ t.gone \in SUBSET Person /\ t.merged \in SUBSET (Person \X Person)
    BY <1>2, <1>3 DEF Resolution
  <2>3. t = [phase |-> t.phase, pairs |-> t.pairs, gone |-> t.gone, to |-> t.to,
             handles |-> t.handles, merged |-> t.merged, flag |-> t.flag]
    BY <1>1 DEF Merged, Resolution
  <2> QED BY <2>1, <2>2, <2>3 DEF Resolution
<1>7. ToElders(t)
  BY <1>5 DEF RunOK, ToElders
<1>8. MergedOnce(t)
  <2>1. t.gone = {m[2] : m \in t.merged}
    <3>1. run.gone = {m[2] : m \in run.merged}
      BY DEF RunOK, MergedOnce
    <3> QED BY <1>2, <1>5, <3>1
  <2>2. \A m \in run.merged : m[2] \in run.gone
    BY DEF RunOK, MergedOnce
  <2>3. ASSUME NEW m \in t.merged, NEW n \in t.merged, m[2] = n[2] PROVE m = n
    BY <1>5, <2>2, <2>3 DEF RunOK, MergedOnce
  <2> QED BY <2>1, <2>3 DEF MergedOnce
<1>9. Mentions(t)
  <2>1. \A p \in Person : \A a \in h[p] : Exists(a)
    BY DEF RunOK, Mentions
  <2>2. \A p \in Person : \A a \in Union(h, c, d)[p] : Exists(a)
    BY <2>1, UnionOf
  <2>3. \A pr \in t.pairs \cup t.flag : \A p \in pr : Exists(p)
    BY <1>2 DEF RunOK, Mentions
  <2> QED BY <1>5, <2>2, <2>3 DEF Mentions
<1>10. MovedOn(t)
  <2>1. \A p \in Person : t.to[p] = IF run.to[p] = d THEN c ELSE run.to[p]
    BY <1>2
  <2>2. ASSUME NEW p \in Person PROVE t.to[p] \notin t.gone /\ (p \notin t.gone => t.to[p] = p)
    BY <2>1, <1>2, <1>4 DEF RunOK, MovedOn
  <2>3. ASSUME NEW S \in SUBSET Person, NEW p \in Person,
               \A m \in t.merged : m[2] \in S => m[1] \in S, p \in S
        PROVE  t.to[p] \in S
    <3>1. run.to[p] \in S
      BY <1>5, <2>3 DEF RunOK, MovedOn
    <3>2. d \in S => c \in S
      BY <1>5, <2>3
    <3> QED BY <3>1, <3>2, <2>1
  <2> QED BY <2>2, <2>3 DEF MovedOn
<1> QED BY <1>1, <1>6, <1>7, <1>8, <1>9, <1>10 DEF RunOK

\* What a resolution does with one pair.
LEMMA PairCases ==
  ASSUME IdentityInv, NEW r \in Resolver, NEW c \in Person, NEW d \in Person, ResolvePair(r, c, d)
  PROVE  LET old == resolve[r]
             rest == [old EXCEPT !.pairs = @ \ {{c, d}}]
         IN \/ resolve' = [resolve EXCEPT ![r] = rest]
            \/ /\ c \notin old.gone /\ d \notin old.gone
               /\ resolve' = [resolve EXCEPT ![r] = Merged(old, c, d)]
            \/ resolve' = [resolve EXCEPT ![r] = IdleResolver]
            \/ resolve' = [resolve EXCEPT ![r] = [rest EXCEPT !.flag = Flag(r, {c, d})]]
<1> DEFINE pr == {c, d}
           left == [resolve[r] EXCEPT !.pairs = @ \ {{c, d}}]
<1> SUFFICES \/ resolve' = [resolve EXCEPT ![r] = left]
             \/ /\ c \notin resolve[r].gone /\ d \notin resolve[r].gone
                /\ resolve' = [resolve EXCEPT ![r] = Merged(resolve[r], c, d)]
             \/ resolve' = [resolve EXCEPT ![r] = IdleResolver]
             \/ resolve' = [resolve EXCEPT ![r] = [left EXCEPT !.flag = Flag(r, pr)]]
  OBVIOUS
<1>1. resolve[r] \in Resolution
  BY DEF IdentityInv, WorkShape
<1>2. CASE pr \cap resolve[r].gone # {}
  BY <1>2 DEF ResolvePair
<1>3. CASE pr \cap resolve[r].gone = {}
  <2>1. PICK v \in Verdicts(Seen(r, c), Seen(r, d)) :
          resolve' = [resolve EXCEPT ![r] =
            CASE v = "merge" ->
                   [left EXCEPT
                      !.gone = @ \cup {d}, !.merged = @ \cup {<<c, d>>},
                      !.to = [p \in Person |-> IF @[p] = d THEN c ELSE @[p]],
                      !.handles = Union(@, c, d)]
              [] v = "review" ->
                   IF Cardinality(Pending({c, d})) > 1 THEN IdleResolver
                   ELSE [left EXCEPT !.flag = Flag(r, {c, d})]
              [] v = "apart" -> left]
    BY <1>3 DEF ResolvePair
  <2>2. v \in {"merge", "review", "apart"}
    BY DEF Verdicts
  <2>3. CASE v = "merge"
    <3>1. Merged(resolve[r], c, d) =
            [left EXCEPT
               !.gone = @ \cup {d}, !.merged = @ \cup {<<c, d>>},
               !.to = [p \in Person |-> IF @[p] = d THEN c ELSE @[p]],
               !.handles = Union(@, c, d)]
      BY <1>1 DEF Merged, Resolution
    <3> QED BY <1>3, <2>1, <2>3, <3>1
  <2>4. CASE v = "review"
    BY <2>1, <2>4
  <2>5. CASE v = "apart"
    BY <2>1, <2>5
  <2> QED BY <2>2, <2>3, <2>4, <2>5
<1> QED BY <1>2, <1>3

LEMMA PairKeeps ==
  ASSUME IdentityInv, NEW r \in Resolver, NEW c \in Person, NEW d \in Person, ResolvePair(r, c, d)
  PROVE  IdentityInv' /\ Stays
<1> DEFINE pr == {c, d}
<1>1. PICK old : old = resolve[r]
  OBVIOUS
<1>2. old \in Resolution /\ RunOK(old)
  BY <1>1 DEF IdentityInv, WorkShape, RunsOK
<1>3. /\ pr \in old.pairs /\ pr \in Pair /\ Elder(c, d) /\ Exists(c) /\ Exists(d)
      /\ UNCHANGED <<evidence, matches, collect, remerged>>
  <2>1. pr \in old.pairs /\ Elder(c, d) /\ UNCHANGED <<evidence, matches, collect, remerged>>
    BY <1>1 DEF ResolvePair
  <2>2. pr \in Pair
    BY <1>2, <2>1 DEF Resolution
  <2>3. \A p \in pr : Exists(p)
    BY <1>2, <2>1 DEF RunOK, Mentions
  <2> QED BY <2>1, <2>2, <2>3
<1>4. PICK rest : rest = [old EXCEPT !.pairs = @ \ {pr}]
  OBVIOUS
<1>5. rest \in Resolution /\ RunOK(rest)
  <2>1. /\ rest.pairs = old.pairs \ {pr} /\ rest.merged = old.merged /\ rest.gone = old.gone
        /\ rest.to = old.to /\ rest.handles = old.handles /\ rest.flag = old.flag
        /\ rest \in Resolution
    BY <1>2, <1>4 DEF Resolution
  <2> QED BY <1>2, <2>1 DEF RunOK, ToElders, MergedOnce, MovedOn, Mentions
<1>6. CASE resolve' = [resolve EXCEPT ![r] = rest]
  BY <1>3, <1>5, <1>6, OnlyRun
<1>7. CASE c \notin old.gone /\ d \notin old.gone /\ resolve' = [resolve EXCEPT ![r] = Merged(old, c, d)]
  <2>1. PICK t : t = Merged(old, c, d)
    OBVIOUS
  <2>2. t \in Resolution /\ RunOK(t)
    BY <2>1, <1>2, <1>3, <1>7, MergedOK DEF IdentityInv, EvidenceShape
  <2> QED BY <1>3, <1>7, <2>1, <2>2, OnlyRun
<1>8. CASE resolve' = [resolve EXCEPT ![r] = IdleResolver]
  <2>1. PICK idle : idle = IdleResolver
    OBVIOUS
  <2> QED BY <2>1, <1>3, <1>8, IdleOK, OnlyRun
<1>9. CASE resolve' = [resolve EXCEPT ![r] = [rest EXCEPT !.flag = Flag(r, pr)]]
  <2>1. PICK t : t = [rest EXCEPT !.flag = Flag(r, pr)]
    OBVIOUS
  <2>2. Flag(r, pr) \subseteq old.flag \cup {pr}
    BY <1>1 DEF Flag
  <2>3. /\ t.pairs = rest.pairs /\ t.merged = rest.merged /\ t.gone = rest.gone /\ t.to = rest.to
        /\ t.handles = rest.handles /\ t.flag = Flag(r, pr) /\ t.phase = rest.phase
    BY <2>1, <1>5 DEF Resolution
  <2>4. t.flag \subseteq Pair /\ \A x \in t.flag : \A p \in x : Exists(p)
    <3>1. old.flag \subseteq Pair /\ \A x \in old.flag : \A p \in x : Exists(p)
      BY <1>2 DEF Resolution, RunOK, Mentions
    <3>2. \A x \in t.flag : x \in old.flag \/ x = pr
      BY <2>2, <2>3
    <3>3. \A p \in pr : Exists(p)
      BY <1>3
    <3>4. \A x \in t.flag : x \in Pair
      BY <3>1, <3>2, <1>3
    <3> QED BY <3>1, <3>2, <3>3, <3>4
  <2>5. t \in Resolution
    BY <2>1, <2>3, <2>4, <1>5 DEF Resolution
  <2>6. RunOK(t)
    BY <1>5, <2>3, <2>4 DEF RunOK, ToElders, MergedOnce, MovedOn, Mentions
  <2> QED BY <2>1, <1>9, <2>5, <2>6, <1>3, OnlyRun
<1> QED BY <1>1, <1>4, <1>6, <1>7, <1>8, <1>9, PairCases

LEMMA FunctionIsSeq ==
  ASSUME NEW S, NEW n \in Nat, NEW f \in [1 .. n -> S]
  PROVE  f \in Seq(S) /\ Len(f) = n
  OBVIOUS

\* The pairs a resolution puts up for review join the queue.
LEMMA FlagsJoin ==
  ASSUME IdentityInv, NEW flag \in SUBSET Pair, \A pr \in flag : \A p \in pr : Exists(p),
         NEW s \in [1 .. Cardinality(flag) -> flag],
         matches' = matches \o [i \in DOMAIN s |-> [pair |-> s[i], status |-> "pending"]]
  PROVE  /\ matches' \in Seq(Review)
         /\ \A i \in DOMAIN matches' : \A p \in matches'[i].pair : Exists(p)
         /\ \A i \in DOMAIN matches' : \/ i \in DOMAIN matches /\ matches'[i] = matches[i]
                                       \/ /\ i - Len(matches) \in DOMAIN s
                                          /\ matches'[i].pair = s[i - Len(matches)]
<1>1. Cardinality(flag) \in Nat
  <2>1. IsFiniteSet(SUBSET Person) /\ flag \in SUBSET (SUBSET Person)
    BY SomeBody, FS_SUBSET DEF Pair
  <2> QED BY <2>1, FS_Subset, FS_CardinalityType
<1> PICK n \in Nat : n = Cardinality(flag)
  BY <1>1
<1> PICK more : more = [i \in DOMAIN s |-> [pair |-> s[i], status |-> "pending"]]
  OBVIOUS
<1>2. /\ more = [i \in 1 .. n |-> [pair |-> s[i], status |-> "pending"]]
      /\ \A i \in 1 .. n : s[i] \in flag /\ s[i] \in Pair
  OBVIOUS
<1>3. /\ \A i \in 1 .. n : more[i] \in Review /\ more[i].pair \in flag
      /\ more \in Seq(Review) /\ Len(more) = n
  <2>1. \A i \in 1 .. n : more[i] = [pair |-> s[i], status |-> "pending"]
    BY <1>2
  <2>2. \A i \in 1 .. n : more[i] \in Review /\ more[i].pair \in flag
    BY <1>2, <2>1 DEF Review
  <2>3. more \in [1 .. n -> Review]
    BY <1>2, <2>2
  <2>4. more \in Seq(Review) /\ Len(more) = n
    BY <2>3, FunctionIsSeq
  <2> QED BY <2>2, <2>4
<1>4. matches \in Seq(Review) /\ \A i \in 1 .. Len(matches) : \A p \in matches[i].pair : Exists(p)
  BY DEF IdentityInv, WorkShape, Known
<1>5. matches' \in Seq(Review) /\ Len(matches') = Len(matches) + n
  BY <1>3, <1>4
<1>6. ASSUME NEW i \in DOMAIN matches' PROVE \A p \in matches'[i].pair : Exists(p)
  <2>1. CASE i <= Len(matches)
    <3>1. i \in 1 .. Len(matches) /\ matches'[i] = matches[i]
      BY <1>3, <1>4, <1>5, <2>1
    <3> QED BY <3>1, <1>4
  <2>2. CASE i > Len(matches)
    <3>1. PICK j \in 1 .. n : matches'[i] = more[j]
      <4>1. i - Len(matches) \in 1 .. n /\ matches'[i] = more[i - Len(matches)]
        BY <1>3, <1>4, <1>5, <2>2
      <4> QED BY <4>1
    <3>2. PICK pr \in flag : pr = matches'[i].pair
      BY <1>3, <3>1
    <3> QED BY <3>2
  <2>3. i <= Len(matches) \/ i > Len(matches)
    BY <1>4, <1>5
  <2> QED BY ONLY <2>1, <2>2, <2>3
<1>7. ASSUME NEW i \in DOMAIN matches'
      PROVE  \/ i \in DOMAIN matches /\ matches'[i] = matches[i]
             \/ i - Len(matches) \in DOMAIN s /\ matches'[i].pair = s[i - Len(matches)]
  <2>1. CASE i <= Len(matches)
    <3>1. i \in DOMAIN matches /\ matches'[i] = matches[i]
      BY <1>3, <1>4, <1>5, <2>1
    <3> QED BY <3>1
  <2>2. CASE i > Len(matches)
    <3>1. i - Len(matches) \in 1 .. n /\ matches'[i] = more[i - Len(matches)]
      BY <1>3, <1>4, <1>5, <2>2
    <3>2. \A j \in 1 .. n : more[j].pair = s[j]
      BY <1>2
    <3>3. DOMAIN s = 1 .. n
      OBVIOUS
    <3> QED BY <3>1, <3>2, <3>3
  <2>3. i <= Len(matches) \/ i > Len(matches)
    BY <1>4, <1>5
  <2> QED BY ONLY <2>1, <2>2, <2>3
<1> QED BY <1>5, <1>6, <1>7

\* Whoever a resolution moves a person to was created if the person was.
LEMMA MovedExist ==
  ASSUME NEW run \in Resolution, RunOK(run), NEW p \in Person, Exists(p)
  PROVE  run.to[p] \in Person /\ Exists(run.to[p])
<1> DEFINE S == {q \in Person : Exists(q)}
<1>1. \A m \in run.merged : m[1] \in Person /\ Exists(m[1])
  BY DEF Resolution, RunOK, ToElders
<1>2. run.to[p] \in S
  BY <1>1 DEF RunOK, MovedOn
<1> QED BY <1>2

\* The links a resolution writes.
Linked(run) == [p \in Person |-> IF p \in run.gone
                                  THEN (CHOOSE m \in run.merged : m[2] = p)[1] ELSE into[p]]

LEMMA LinkedTo ==
  ASSUME NEW run \in Resolution, RunOK(run), into \in Links
  PROVE  /\ Linked(run) \in Links
         /\ \A p \in Person : p \notin run.gone => Linked(run)[p] = into[p]
         /\ \A m \in run.merged : m[1] \in Person /\ m[2] \in run.gone /\ Linked(run)[m[2]] = m[1]
         /\ Ordered(into) => Ordered(Linked(run))
<1>1. /\ run.merged \subseteq Person \X Person /\ run.gone \subseteq Person
      /\ run.gone = {m[2] : m \in run.merged}
  BY DEF Resolution, RunOK, MergedOnce
<1>2. ASSUME NEW m \in run.merged
      PROVE  m[1] \in Person /\ m[2] \in Person /\ m[2] \in run.gone /\ Linked(run)[m[2]] = m[1]
  <2>1. m[1] \in Person /\ m[2] \in Person /\ m[2] \in run.gone
    BY <1>1
  <2>2. (CHOOSE n \in run.merged : n[2] = m[2]) = m
    BY DEF RunOK, MergedOnce
  <2> QED BY <2>1, <2>2 DEF Linked
<1>3. \A p \in Person : p \notin run.gone => Linked(run)[p] = into[p]
  BY DEF Linked
<1>4. \A p \in run.gone : \E m \in run.merged : m[2] = p
  BY <1>1
<1>5. \A p \in Person : Linked(run)[p] \in Person \cup {Nobody}
  BY <1>2, <1>3, <1>4 DEF Links
<1>6. Linked(run) \in Links
  BY <1>5 DEF Linked, Links
<1>7. Ordered(into) => Ordered(Linked(run))
  BY <1>2, <1>3, <1>4 DEF Ordered, RunOK, ToElders
<1> QED BY <1>2, <1>3, <1>6, <1>7

LEMMA CommitKeeps ==
  ASSUME IdentityInv, NEW r \in Resolver, ResolveCommit(r)
  PROVE  IdentityInv' /\ Stays
<1>1. PICK run \in Resolution : run = resolve[r] /\ RunOK(run)
  BY DEF IdentityInv, WorkShape, RunsOK
<1>2. /\ into' = Linked(run)
      /\ handles' = [p \in Person |-> IF p \in {m[1] : m \in run.merged}
                                        THEN run.handles[p] ELSE handles[p]]
      /\ subject' = [row \in Row |-> IF subject[row] = Nobody THEN Nobody
                                      ELSE run.to[subject[row]]]
      /\ resolve' = [resolve EXCEPT ![r] = IdleResolver]
      /\ UNCHANGED <<born, collect>>
      /\ remerged' = (remerged \/ \E d \in run.gone : ~Canonical(d))
  BY <1>1 DEF ResolveCommit, Linked
<1>3. PICK s \in [1 .. Cardinality(run.flag) -> run.flag] :
        matches' = matches \o [i \in DOMAIN s |-> [pair |-> s[i], status |-> "pending"]]
  BY <1>1 DEF ResolveCommit, InSomeOrder
<1>4. matches' \in Seq(Review) /\ \A i \in DOMAIN matches' : \A p \in matches'[i].pair : Exists(p)
  <2>1. PICK flag \in SUBSET Pair : flag = run.flag
    BY DEF Resolution
  <2>2. \A pr \in flag : \A p \in pr : Exists(p)
    BY <1>1, <2>1 DEF RunOK, Mentions
  <2> QED BY <1>3, <2>1, <2>2, FlagsJoin
<1>5. Stays
  BY <1>2 DEF Stays
<1>6. into' \in Links /\ Ordered(into)'
  <2>1. Linked(run) \in Links /\ Ordered(Linked(run))
    BY <1>1, LinkedTo DEF IdentityInv, EvidenceShape
  <2> QED BY <1>2, <2>1 DEF Ordered, Exists, Elder
<1>7. EvidenceShape'
  <2>1. subject' \in [Row -> Person \cup {Nobody}]
    BY <1>2 DEF IdentityInv, EvidenceShape, Resolution
  <2>2. handles' \in [Person -> SUBSET Person]
    BY <1>2 DEF IdentityInv, EvidenceShape, Resolution
  <2> QED BY <1>2, <1>6, <2>1, <2>2 DEF IdentityInv, EvidenceShape
<1>8. resolve' \in [Resolver -> Resolution] /\ RunsOK'
  <2>1. PICK idle : idle = IdleResolver
    OBVIOUS
  <2> QED BY <2>1, <1>2, <1>5, IdleOK, OneRun
<1>9. WorkShape'
  BY <1>2, <1>4, <1>8 DEF IdentityInv, WorkShape
<1>10. Known'
  <2>1. \A p \in Person : \A a \in handles'[p] : Exists(a)
    BY <1>1, <1>2 DEF IdentityInv, Known, RunOK, Mentions
  <2>2. ASSUME NEW row \in Row, subject'[row] # Nobody
        PROVE  subject'[row] \in Person /\ born[subject'[row]] # 0 /\ Exists(row[1].account)
    <3>1. subject[row] \in Person /\ subject'[row] = run.to[subject[row]]
      BY <1>2, <2>2 DEF IdentityInv, EvidenceShape
    <3>2. Exists(subject[row]) /\ Exists(row[1].account)
      BY <3>1, SomeBody DEF IdentityInv, Known
    <3>3. run.to[subject[row]] \in Person /\ Exists(run.to[subject[row]])
      BY <1>1, <3>1, <3>2, MovedExist
    <3> QED BY <3>1, <3>2, <3>3 DEF Exists
  <2> QED BY <1>2, <1>4, <2>1, <2>2 DEF IdentityInv, Known, Exists
<1> QED BY <1>5, <1>6, <1>7, <1>8, <1>9, <1>10 DEF IdentityInv

\* A review that is closed names the pair it named.
LEMMA ReviewClosed ==
  ASSUME IdentityInv, NEW i \in DOMAIN matches, NEW status \in {"approved", "rejected"},
         matches' = Resolved(i, status), UNCHANGED born
  PROVE  /\ matches' \in Seq(Review)
         /\ \A j \in DOMAIN matches' : \A p \in matches'[j].pair : Exists(p)'
<1>1. /\ matches \in Seq(Review) /\ \A j \in 1 .. Len(matches) : matches[j] \in Review
      /\ DOMAIN matches = 1 .. Len(matches) /\ Len(matches) \in Nat
  BY DEF IdentityInv, WorkShape
<1>2. PICK m : m = [matches[i] EXCEPT !.status = status]
  OBVIOUS
<1>3. m \in Review /\ m.pair = matches[i].pair
  BY <1>1, <1>2 DEF Review
<1>4. matches' = [matches EXCEPT ![i] = m]
  BY <1>2 DEF Resolved
<1>5. /\ DOMAIN matches' = 1 .. Len(matches)
      /\ \A j \in 1 .. Len(matches) : matches'[j] = IF j = i THEN m ELSE matches[j]
  BY <1>1, <1>4
<1>6. matches' \in [1 .. Len(matches) -> Review]
  BY <1>1, <1>3, <1>4
<1>7. \A j \in 1 .. Len(matches) : matches'[j].pair = matches[j].pair
  BY <1>3, <1>5
<1> QED BY <1>1, <1>5, <1>6, <1>7, FunctionIsSeq DEF IdentityInv, Known, Exists

LEMMA RejectKeeps ==
  ASSUME IdentityInv, NEW i \in DOMAIN matches, Reject(i)
  PROVE  IdentityInv' /\ Stays
<1>1. matches' = Resolved(i, "rejected") /\ UNCHANGED <<evidence, collect, resolve, remerged>>
  BY DEF Reject
<1>2. Stays /\ EvidenceShape' /\ Ordered(into)'
  BY <1>1, SameEvidence DEF IdentityInv
<1>3. RunsOK'
  BY <1>1, <1>2, SameRuns
<1>4. matches' \in Seq(Review) /\ \A j \in DOMAIN matches' : \A p \in matches'[j].pair : Exists(p)'
  BY <1>1, ReviewClosed DEF evidence
<1>5. WorkShape' /\ Known'
  BY <1>1, <1>4 DEF IdentityInv, WorkShape, Known, Exists, evidence
<1> QED BY <1>2, <1>3, <1>5 DEF IdentityInv

LEMMA ApproveKeeps ==
  ASSUME IdentityInv, NEW i \in DOMAIN matches, NEW c \in Person, NEW d \in Person, Approve(i, c, d)
  PROVE  IdentityInv' /\ Stays
<1>1. matches' = Resolved(i, "approved") /\ UNCHANGED <<born, collect, resolve, remerged>>
  BY DEF Approve
<1>2. matches' \in Seq(Review) /\ \A j \in DOMAIN matches' : \A p \in matches'[j].pair : Exists(p)'
  BY <1>1, ReviewClosed
<1>3. Stays
  BY <1>1 DEF Stays
<1>4. RunsOK' /\ WorkShape'
  BY <1>1, <1>2, <1>3, SameRuns DEF IdentityInv, WorkShape
<1>5. CASE UNCHANGED <<into, handles, subject>>
  <2>1. EvidenceShape' /\ Ordered(into)' /\ Known'
    BY <1>1, <1>2, <1>5 DEF IdentityInv, EvidenceShape, Ordered, Known, Exists, Elder
  <2> QED BY <1>3, <1>4, <2>1 DEF IdentityInv
<1>6. CASE /\ into' = [into EXCEPT ![d] = c]
           /\ handles' = Union(handles, c, d)
           /\ subject' = [row \in Row |-> IF subject[row] = d THEN c ELSE subject[row]]
  <2>1. Exists(c) /\ Exists(d) /\ Elder(c, d)
    <3>1. matches[i].pair = {c, d} /\ Elder(c, d)
      BY DEF Approve
    <3> QED BY <3>1 DEF IdentityInv, Known
  <2>2. into' \in Links /\ Ordered(into)'
    <3>1. into' \in Links /\ \A p \in Person : into'[p] = IF p = d THEN c ELSE into[p]
      BY <1>6 DEF IdentityInv, EvidenceShape, Links
    <3> QED BY <1>1, <2>1, <3>1 DEF IdentityInv, Ordered, Exists, Elder
  <2>3. /\ handles' \in [Person -> SUBSET Person]
        /\ \A p \in Person : \A a \in handles'[p] : Exists(a)
    <3>1. PICK h \in [Person -> SUBSET Person] : h = handles /\ handles' = Union(h, c, d)
      BY <1>6 DEF IdentityInv, EvidenceShape
    <3>2. \A p \in Person : \A a \in h[p] : Exists(a)
      BY <3>1 DEF IdentityInv, Known
    <3> QED BY <3>1, <3>2, UnionOf
  <2>4. \A row \in Row : subject'[row] = IF subject[row] = d THEN c ELSE subject[row]
    BY <1>6
  <2>5. EvidenceShape'
    <3>1. subject' \in [Row -> Person \cup {Nobody}]
      BY <1>6 DEF IdentityInv, EvidenceShape
    <3> QED BY <1>1, <2>2, <2>3, <3>1 DEF IdentityInv, EvidenceShape
  <2>6. Known'
    <3>1. \A row \in Row : subject'[row] # Nobody => born[subject'[row]] # 0 /\ Exists(row[1].account)
      BY <2>1, <2>4, SomeBody DEF IdentityInv, Known, Exists
    <3> QED BY <1>1, <1>2, <2>3, <3>1 DEF IdentityInv, Known, Exists
  <2> QED BY <1>3, <1>4, <2>2, <2>5, <2>6 DEF IdentityInv
<1> QED BY <1>5, <1>6 DEF Approve

LEMMA IdentityStep == IdentityInv /\ [IdentityNext]_identityVars => IdentityInv' /\ Stays
<1> SUFFICES ASSUME IdentityInv, [IdentityNext]_identityVars PROVE IdentityInv' /\ Stays
  OBVIOUS
<1>1. ASSUME NEW w \in Collector, NEW A \in SUBSET Person, Discover(w, A) PROVE IdentityInv' /\ Stays
  BY <1>1, DiscoverKeeps
<1>2. ASSUME NEW w \in Collector, NEW a \in Person, Write(w, a) PROVE IdentityInv' /\ Stays
  BY <1>2, WriteKeeps
<1>3. ASSUME NEW w \in Collector, Leave(w) PROVE IdentityInv' /\ Stays
  BY <1>3, LeaveKeeps
<1>4. ASSUME NEW r \in Resolver, ResolveRead(r) \/ ResolveCommit(r) \/ ResolveFails(r)
      PROVE  IdentityInv' /\ Stays
  BY <1>4, ReadKeeps, CommitKeeps, FailsKeeps
<1>5. ASSUME NEW r \in Resolver, NEW c \in Person, NEW d \in Person, ResolvePair(r, c, d)
      PROVE  IdentityInv' /\ Stays
  BY <1>5, PairKeeps
<1>6. ASSUME NEW i \in DOMAIN matches, Reject(i) PROVE IdentityInv' /\ Stays
  BY <1>6, RejectKeeps
<1>7. ASSUME NEW i \in DOMAIN matches, NEW c \in Person, NEW d \in Person, Approve(i, c, d)
      PROVE  IdentityInv' /\ Stays
  BY <1>7, ApproveKeeps
<1>8. CASE UNCHANGED identityVars
  <2>1. Stays /\ EvidenceShape' /\ Ordered(into)' /\ RunsOK'
    BY <1>8, SameEvidence, SameRuns DEF IdentityInv, identityVars
  <2>2. WorkShape' /\ Known'
    BY <1>8 DEF IdentityInv, WorkShape, Known, Exists, evidence, identityVars
  <2> QED BY <2>1, <2>2 DEF IdentityInv
<1> QED BY <1>1, <1>2, <1>3, <1>4, <1>5, <1>6, <1>7, <1>8 DEF IdentityNext

\* The invariant of the persons and what runs have read holds through any overlap of
\* collections, resolutions and reviews.
THEOREM IdentityInvariant == IdentitySpec => []IdentityInv
  BY IdentityStart, IdentityStep, PTL DEF IdentitySpec

LEMMA InvMeansTypes == IdentityInv => IdentityTypeOK
<1> SUFFICES ASSUME IdentityInv PROVE IdentityTypeOK
  OBVIOUS
<1>1. /\ born \in [Person -> Nat] /\ into \in [Person -> Person \cup {Nobody}]
      /\ handles \in [Person -> SUBSET Person] /\ subject \in [Row -> Person \cup {Nobody}]
  BY DEF IdentityInv, EvidenceShape, Links
<1>2. \A i \in DOMAIN matches : /\ matches[i].pair \in Pair
                               /\ matches[i].status \in {"pending", "approved", "rejected"}
  BY ReviewedPersons DEF Review
<1>3. \A w \in Collector : \A a \in DOMAIN collect[w] : Exists(collect[w][a])
  BY DEF IdentityInv, Known
<1>4. ASSUME NEW r \in Resolver PROVE resolve[r].gone \subseteq Person /\ resolve[r].pairs \subseteq Pair
  BY DEF IdentityInv, WorkShape, Resolution
<1> QED BY <1>1, <1>2, <1>3, <1>4 DEF IdentityTypeOK

\* Persons, observations and reviews stay well formed, whatever overlaps.
THEOREM IdentityTypes == IdentitySpec => []IdentityTypeOK
  BY IdentityInvariant, InvMeansTypes, PTL

LEMMA InvMeansEnds == IdentityInv => ChainsEnd
  BY LoopEnds DEF IdentityInv, EvidenceShape, ChainsEnd, Canonical

\* The loop of _get_or_create_person that follows superseded_by_id ends at a canonical
\* person, however resolutions and reviews overlap: links go from younger to elder
\* persons, so no more of them follow each other than there are persons.
THEOREM LoopsEnd == IdentitySpec => []ChainsEnd
  BY IdentityInvariant, InvMeansEnds, PTL

(***************************************************************************)
(* Reviews.  A resolution adds a pair to what it will ask only while no    *)
(* review of it is pending; those that have added it before are the only   *)
(* ones that may still ask.                                                *)
(***************************************************************************)
WillAsk(pr) == {r \in Resolver : pr \in resolve[r].flag}
AskInv == \A pr \in Pair :
  Cardinality(Pending(pr)) + Cardinality(WillAsk(pr)) <= Cardinality(Resolver)

LEMMA AskCounts ==
  ASSUME NEW m \in Seq(Review), NEW S \in SUBSET DOMAIN m, NEW W \in SUBSET Resolver
  PROVE  /\ IsFiniteSet(Resolver) /\ Cardinality(Resolver) \in Nat
         /\ IsFiniteSet(S) /\ Cardinality(S) \in Nat
         /\ IsFiniteSet(W) /\ Cardinality(W) \in Nat /\ Cardinality(W) <= Cardinality(Resolver)
<1>1. IsFiniteSet(DOMAIN m)
  <2>1. DOMAIN m = 1 .. Len(m) /\ Len(m) \in Nat
    OBVIOUS
  <2> QED BY <2>1, FS_Interval
<1>2. IsFiniteSet(S) /\ IsFiniteSet(W) /\ IsFiniteSet(Resolver)
  BY <1>1, IdentityAssumption, FS_Subset
<1>3. Cardinality(W) <= Cardinality(Resolver)
  BY <1>2, FS_Subset
<1> QED BY <1>2, <1>3, FS_CardinalityType

\* What is counted before and after a step.
LEMMA AskSets ==
  ASSUME IdentityInv, IdentityInv', NEW pr \in Pair
  PROVE  /\ IsFiniteSet(Resolver) /\ Cardinality(Resolver) \in Nat
         /\ IsFiniteSet(Pending(pr)) /\ Cardinality(Pending(pr)) \in Nat
         /\ IsFiniteSet(WillAsk(pr)) /\ Cardinality(WillAsk(pr)) \in Nat
         /\ Cardinality(Pending(pr)') \in Nat /\ Cardinality(WillAsk(pr)') \in Nat
         /\ Cardinality(WillAsk(pr)') <= Cardinality(Resolver)
<1>1. matches \in Seq(Review) /\ Pending(pr) \in SUBSET DOMAIN matches
      /\ WillAsk(pr) \in SUBSET Resolver
  BY DEF IdentityInv, WorkShape, Pending, WillAsk
<1>2. matches' \in Seq(Review) /\ Pending(pr)' \in SUBSET DOMAIN matches'
      /\ WillAsk(pr)' \in SUBSET Resolver
  BY DEF IdentityInv, WorkShape, Pending, WillAsk
<1> QED BY <1>1, <1>2, AskCounts

\* A step after which no pair has more pending reviews or runs that will ask for one,
\* except pairs without a pending review.
LEMMA AskLess ==
  ASSUME IdentityInv, IdentityInv', AskInv,
         \A pr \in Pair : \/ Pending(pr)' \subseteq Pending(pr) /\ WillAsk(pr)' \subseteq WillAsk(pr)
                          \/ Pending(pr)' = {}
  PROVE  AskInv'
<1> SUFFICES ASSUME NEW pr \in Pair
             PROVE  Cardinality(Pending(pr)') + Cardinality(WillAsk(pr)') <= Cardinality(Resolver)
  BY DEF AskInv
<1>1. CASE Pending(pr)' \subseteq Pending(pr) /\ WillAsk(pr)' \subseteq WillAsk(pr)
  <2>1. /\ Cardinality(Pending(pr)') <= Cardinality(Pending(pr))
        /\ Cardinality(WillAsk(pr)') <= Cardinality(WillAsk(pr))
    BY <1>1, AskSets, FS_Subset
  <2> QED BY <2>1, AskSets DEF AskInv
<1>2. CASE Pending(pr)' = {}
  <2>1. Cardinality(Pending(pr)') = 0
    BY <1>2, FS_EmptySet
  <2> QED BY <2>1, AskSets
<1> QED BY <1>1, <1>2

\* The commit of a resolution turns what it will ask into pending reviews, one each.
LEMMA CommitAsks ==
  ASSUME IdentityInv, IdentityInv', AskInv, NEW r \in Resolver, ResolveCommit(r)
  PROVE  AskInv'
<1> SUFFICES ASSUME NEW pr \in Pair
             PROVE  Cardinality(Pending(pr)') + Cardinality(WillAsk(pr)') <= Cardinality(Resolver)
  BY DEF AskInv
<1> DEFINE flag == resolve[r].flag
<1>1. PICK s \in InSomeOrder(flag) :
        matches' = matches \o [i \in DOMAIN s |-> [pair |-> s[i], status |-> "pending"]]
  BY DEF ResolveCommit
<1>2. /\ s \in [1 .. Cardinality(flag) -> flag]
      /\ \A i, j \in DOMAIN s : i # j => s[i] # s[j]
  BY <1>1 DEF InSomeOrder
<1>3. WillAsk(pr)' = WillAsk(pr) \ {r}
  <2>1. resolve' = [resolve EXCEPT ![r] = IdleResolver] /\ IdleResolver.flag = {}
    BY DEF ResolveCommit, IdleResolver
  <2>2. resolve'[r] = IdleResolver /\ \A x \in Resolver \ {r} : resolve'[x] = resolve[x]
    BY <2>1 DEF IdentityInv, WorkShape
  <2> QED BY <2>1, <2>2 DEF WillAsk
<1> HIDE DEF flag
<1>4. \A i \in DOMAIN matches' : \/ i \in DOMAIN matches /\ matches'[i] = matches[i]
                                 \/ /\ i - Len(matches) \in DOMAIN s
                                    /\ matches'[i].pair = s[i - Len(matches)]
  <2>1. flag \in SUBSET Pair /\ \A q \in flag : \A p \in q : Exists(p)
    BY DEF flag, IdentityInv, WorkShape, Resolution, RunsOK, RunOK, Mentions
  <2> QED BY <1>1, <1>2, <2>1, FlagsJoin
<1>5. matches \in Seq(Review) /\ matches' \in Seq(Review)
  BY DEF IdentityInv, WorkShape
<1>6. CASE pr \notin flag
  <2>1. Pending(pr)' \subseteq Pending(pr)
    BY <1>2, <1>4, <1>6 DEF Pending
  <2>2. Cardinality(Pending(pr)') <= Cardinality(Pending(pr))
    BY <2>1, AskSets, FS_Subset
  <2>3. Cardinality(WillAsk(pr)') <= Cardinality(WillAsk(pr))
    BY <1>3, AskSets, FS_Subset
  <2> QED BY <2>2, <2>3, AskSets DEF AskInv
<1>7. CASE pr \in flag
  <2>1. PICK k : \A i \in Pending(pr)' : i \notin Pending(pr) => i = k
    <3>1. ASSUME NEW i \in Pending(pr)', i \notin Pending(pr)
          PROVE  /\ i \in DOMAIN matches' /\ i - Len(matches) \in DOMAIN s
                 /\ s[i - Len(matches)] = pr
      BY <1>4, <3>1 DEF Pending
    <3>2. \A i, j \in DOMAIN matches' : i - Len(matches) = j - Len(matches) => i = j
      BY <1>5
    <3>3. \A i, j \in Pending(pr)' : i \notin Pending(pr) /\ j \notin Pending(pr) => i = j
      BY <1>2, <3>1, <3>2
    <3> QED BY <3>3
  <2>2. /\ IsFiniteSet(Pending(pr) \cup {k})
        /\ Cardinality(Pending(pr) \cup {k}) <= Cardinality(Pending(pr)) + 1
    <3>1. PICK S : S = Pending(pr)
      OBVIOUS
    <3>2. IsFiniteSet(S) /\ Cardinality(S) \in Nat
      BY <3>1, AskSets
    <3>3. /\ IsFiniteSet(S \cup {k})
          /\ Cardinality(S \cup {k}) = Cardinality(S) \/ Cardinality(S \cup {k}) = Cardinality(S) + 1
      BY <3>2, FS_AddElement
    <3>4. /\ IsFiniteSet(S \cup {k})
          /\ Cardinality(S \cup {k}) <= Cardinality(S) + 1
      BY <3>2, <3>3
    <3> QED BY <3>1, <3>4
  <2>3. Cardinality(Pending(pr)') <= Cardinality(Pending(pr) \cup {k})
    <3>1. Pending(pr)' \subseteq Pending(pr) \cup {k}
      BY <2>1
    <3> QED BY <2>2, <3>1, FS_Subset
  <2>4. Cardinality(WillAsk(pr)') = Cardinality(WillAsk(pr)) - 1
    <3>1. r \in WillAsk(pr)
      BY <1>7 DEF WillAsk, flag
    <3> QED BY <1>3, <3>1, AskSets, FS_RemoveElement
  <2>5. Cardinality(Pending(pr) \cup {k}) \in Nat
    BY <2>2, FS_CardinalityType
  <2> QED BY <2>2, <2>3, <2>4, <2>5, AskSets DEF AskInv
<1> QED BY <1>6, <1>7

\* A run that looks at a pair adds it to what it will ask only if no review is pending.
LEMMA PairAsks ==
  ASSUME IdentityInv, IdentityInv', AskInv, NEW r \in Resolver, NEW c \in Person, NEW d \in Person,
         ResolvePair(r, c, d)
  PROVE  AskInv'
<1> SUFFICES ASSUME NEW pr \in Pair
             PROVE  \/ Pending(pr)' \subseteq Pending(pr) /\ WillAsk(pr)' \subseteq WillAsk(pr)
                    \/ Pending(pr)' = {}
  BY AskLess
<1>1. Pending(pr)' = Pending(pr)
  BY DEF ResolvePair, Pending
<1>2. PICK run \in Resolution : run = resolve[r]
  BY DEF IdentityInv, WorkShape
<1>3. PICK new : resolve' = [resolve EXCEPT ![r] = new] /\ new.flag \in {run.flag, {}, Flag(r, {c, d})}
  <2> DEFINE rest == [run EXCEPT !.pairs = @ \ {{c, d}}]
             ask == [rest EXCEPT !.flag = Flag(r, {c, d})]
  <2>1. \/ resolve' = [resolve EXCEPT ![r] = rest]
        \/ resolve' = [resolve EXCEPT ![r] = Merged(run, c, d)]
        \/ resolve' = [resolve EXCEPT ![r] = IdleResolver]
        \/ resolve' = [resolve EXCEPT ![r] = ask]
    BY <1>2, PairCases, ZenonT(60)
  <2>2. /\ rest.flag = run.flag /\ ask.flag = Flag(r, {c, d}) /\ IdleResolver.flag = {}
    BY <1>2 DEF Resolution, IdleResolver
  <2>3. Merged(run, c, d).flag = run.flag
    BY <1>2 DEF Merged, Resolution
  <2> HIDE DEF rest, ask
  <2> QED BY <2>1, <2>2, <2>3
<1>4. resolve'[r] = new /\ \A x \in Resolver \ {r} : resolve'[x] = resolve[x]
  BY <1>3 DEF IdentityInv, WorkShape
<1>5. Flag(r, {c, d}) = IF Pending({c, d}) = {} THEN run.flag \cup {{c, d}} ELSE run.flag
  BY <1>2 DEF Flag
<1>6. WillAsk(pr)' \subseteq WillAsk(pr) \/ Pending(pr) = {}
  <2>1. pr \in new.flag => pr \in run.flag \/ Pending(pr) = {}
    BY <1>3, <1>5
  <2> QED BY <1>2, <1>4, <2>1 DEF WillAsk
<1> QED BY <1>1, <1>6

LEMMA AskStep ==
  ASSUME IdentityInv, IdentityInv', AskInv, [IdentityNext]_identityVars
  PROVE  AskInv'
<1>1. ASSUME UNCHANGED <<matches, resolve>> PROVE AskInv'
  BY <1>1 DEF AskInv, Pending, WillAsk
<1>2. ASSUME NEW r \in Resolver, ResolveRead(r) \/ ResolveFails(r) PROVE AskInv'
  <2>1. matches' = matches
    BY <1>2 DEF ResolveRead, ResolveFails
  <2>2. /\ resolve \in [Resolver -> Resolution]
        /\ \A x \in Resolver \ {r} : resolve'[x] = resolve[x]
    BY <1>2 DEF ResolveRead, ResolveFails, IdentityInv, WorkShape
  <2>3. resolve'[r].flag = {}
    <3>1. IdleResolver.flag = {} /\ \A h, ps : [IdleResolver EXCEPT
            !.phase = "pairs", !.handles = h, !.pairs = ps].flag = {}
      BY DEF IdleResolver
    <3>2. \E h, ps : resolve' = [resolve EXCEPT ![r] = IdleResolver] \/
            resolve' = [resolve EXCEPT ![r] =
              [IdleResolver EXCEPT !.phase = "pairs", !.handles = h, !.pairs = ps]]
      BY <1>2 DEF ResolveRead, ResolveFails
    <3>3. resolve'[r] = IdleResolver \/ \E h, ps : resolve'[r] =
            [IdleResolver EXCEPT !.phase = "pairs", !.handles = h, !.pairs = ps]
      BY <2>2, <3>2
    <3> QED BY <3>1, <3>3
  <2>4. \A pr \in Pair : Pending(pr)' \subseteq Pending(pr) /\ WillAsk(pr)' \subseteq WillAsk(pr)
    BY <2>1, <2>2, <2>3 DEF Pending, WillAsk
  <2> QED BY <2>4, AskLess
<1>3. ASSUME NEW i \in DOMAIN matches, NEW status \in {"approved", "rejected"},
             matches' = Resolved(i, status), UNCHANGED resolve
      PROVE  AskInv'
  <2>1. matches \in Seq(Review)
    BY DEF IdentityInv, WorkShape
  <2>2. DOMAIN matches' = DOMAIN matches /\ matches'[i].status = status
        /\ \A j \in DOMAIN matches \ {i} : matches'[j] = matches[j]
    <3>1. matches[i] \in Review
      BY <2>1
    <3> QED BY <1>3, <2>1, <3>1 DEF Resolved, Review
  <2>3. \A pr \in Pair : Pending(pr)' \subseteq Pending(pr) /\ WillAsk(pr)' \subseteq WillAsk(pr)
    <3>1. \A pr : ~(i \in Pending(pr)')
      BY <2>2 DEF Pending
    <3> QED BY <1>3, <2>2, <3>1 DEF Pending, WillAsk
  <2> QED BY <2>3, AskLess
<1>4. ASSUME NEW i \in DOMAIN matches, Reject(i) \/ \E c, d \in Person : Approve(i, c, d)
      PROVE  AskInv'
  BY <1>3, <1>4 DEF Reject, Approve
<1>5. ASSUME NEW w \in Collector, \/ \E A \in SUBSET Person : Discover(w, A)
                                  \/ \E a \in Person : Write(w, a)
                                  \/ Leave(w)
      PROVE  AskInv'
  BY <1>1, <1>5 DEF Discover, Write, Leave
<1>6. CASE UNCHANGED identityVars
  BY <1>1, <1>6 DEF identityVars
<1> QED BY <1>2, <1>4, <1>5, <1>6, CommitAsks, PairAsks DEF IdentityNext

LEMMA AskStart == IdentityInit => AskInv
<1> SUFFICES ASSUME IdentityInit, NEW pr \in Pair
             PROVE  Cardinality(Pending(pr)) + Cardinality(WillAsk(pr)) <= Cardinality(Resolver)
  BY DEF AskInv
<1>1. Pending(pr) = {}
  BY DEF IdentityInit, Pending
<1>2. WillAsk(pr) = {}
  BY DEF IdentityInit, WillAsk, IdleResolver
<1>3. Cardinality(Resolver) \in Nat
  BY IdentityAssumption, FS_CardinalityType
<1> QED BY <1>1, <1>2, <1>3, FS_EmptySet

\* No pair has more pending reviews than resolutions can overlap: each of those asks for
\* a review once, and nobody asks for another while one is pending.
THEOREM ReviewsBounded == IdentitySpec => []AskedOncePerOverlap
<1>1. IdentityInit => IdentityInv /\ AskInv
  BY IdentityStart, AskStart
<1>2. (IdentityInv /\ AskInv) /\ [IdentityNext]_identityVars => (IdentityInv /\ AskInv)'
  BY IdentityStep, AskStep
<1>3. IdentityInv /\ AskInv => AskedOncePerOverlap
  <2> SUFFICES ASSUME IdentityInv, AskInv, NEW pr \in Pair
               PROVE  Cardinality(Pending(pr)) <= Cardinality(Resolver)
    BY DEF AskedOncePerOverlap
  <2>1. matches \in Seq(Review) /\ Pending(pr) \in SUBSET DOMAIN matches
        /\ WillAsk(pr) \in SUBSET Resolver
    BY DEF IdentityInv, WorkShape, Pending, WillAsk
  <2> QED BY <2>1, AskCounts DEF AskInv
<1> QED BY <1>1, <1>2, <1>3, PTL DEF IdentitySpec

(***************************************************************************)
(* What is said of one account lies on one chain: wherever it was written  *)
(* and wherever merges have moved it, and wherever a collection that has   *)
(* looked the account up may yet write it.  Two places of a chain are one  *)
(* or one leads to the other; a merge moves what is at the end of a chain, *)
(* and moves it where nothing of that account can be.                      *)
(***************************************************************************)
\* What account a says is about s, or will be.
At(a, s) ==
  \/ \E row \in Row : row[1].account = a /\ subject[row] = s /\ s # Nobody
  \/ \E w \in Collector : a \in DOMAIN collect[w] /\ collect[w][a] = s

\* The handles a resolution works with, by the links there are and those it will write.
Along(run, S) == \A m \in run.merged : m[2] \in S <=> m[1] \in S
RunKin(g, run) ==
  \A S \in SUBSET Person : Even(g, S) /\ Along(run, S) =>
    \A p \in Person : \A a \in run.handles[p] : a \in S <=> p \in S

AtKin == \A a, s \in Person : At(a, s) => Kin(into, a, s)
HandlesKin == \A p \in Person : \A a \in handles[p] : Kin(into, a, p)
RunsKin == \A r \in Resolver : RunKin(into, resolve[r])
OneChain == \A a, s, t \in Person : At(a, s) /\ At(a, t) => Leads(into, s, t) \/ Leads(into, t, s)
Distinct ==
  \A f \in Fact, p, q \in Person :
    p # q /\ subject[<<f, p>>] # Nobody => subject[<<f, p>>] # subject[<<f, q>>]

CountInv == ~remerged => AtKin /\ HandlesKin /\ RunsKin /\ OneChain /\ Distinct

LEMMA AtPersons ==
  ASSUME IdentityInv, NEW a, NEW s, At(a, s)
  PROVE  a \in Person /\ s \in Person /\ Exists(a) /\ Exists(s)
<1>1. CASE \E row \in Row : row[1].account = a /\ subject[row] = s /\ s # Nobody
  BY <1>1, RowFacts DEF IdentityInv, EvidenceShape, Known
<1>2. CASE \E w \in Collector : a \in DOMAIN collect[w] /\ collect[w][a] = s
  BY <1>2 DEF IdentityInv, Known
<1> QED BY <1>1, <1>2 DEF At

LEMMA RunKinExtends ==
  ASSUME NEW g \in Links, NEW h \in Links, Extends(h, g), NEW run, RunKin(g, run)
  PROVE  RunKin(h, run)
  BY DEF RunKin, Extends, Even

\* A merge, or several: to says where it takes what was written about each person.
LEMMA MoveCounts ==
  ASSUME IdentityInv, IdentityInv', UNCHANGED <<born, collect>>, Extends(into', into),
         NEW to \in [Person -> Person],
         \A p \in Person : Leads(into', p, to[p]) /\ (into[p] # Nobody => to[p] = p),
         \A row \in Row : subject'[row] = IF subject[row] = Nobody THEN Nobody ELSE to[subject[row]],
         AtKin, OneChain, Distinct
  PROVE  AtKin' /\ OneChain' /\ Distinct'
<1>1. into \in Links /\ into' \in Links /\ Ordered(into')
  BY DEF IdentityInv, EvidenceShape, Ordered, Exists, Elder
<1>2. ASSUME NEW a \in Person, NEW s \in Person, At(a, s)'
      PROVE  \E q \in Person : At(a, q) /\ s \in {q, to[q]}
  <2>1. CASE \E row \in Row : row[1].account = a /\ subject'[row] = s
    <3>1. PICK row \in Row : row[1].account = a /\ subject'[row] = s
      BY <2>1
    <3>2. subject[row] # Nobody /\ subject[row] \in Person /\ s = to[subject[row]]
      BY <3>1, SomeBody DEF IdentityInv, EvidenceShape
    <3> QED BY <3>1, <3>2 DEF At
  <2>2. CASE \E w \in Collector : a \in DOMAIN collect[w] /\ collect[w][a] = s
    BY <2>2 DEF At
  <2> QED BY <1>2, <2>1, <2>2 DEF At
<1>3. AtKin'
  <2> SUFFICES ASSUME NEW a \in Person, NEW s \in Person, At(a, s)' PROVE Kin(into', a, s)
    BY DEF AtKin, Kin, Even
  <2>1. PICK q \in Person : At(a, q) /\ s \in {q, to[q]}
    BY <1>2
  <2>2. Kin(into', a, q)
    BY <2>1, <1>1, ExtendsKeeps DEF AtKin
  <2>3. Kin(into', q, s)
    BY <2>1, <1>1, LeadsIsKin, KinBasics
  <2> QED BY <2>2, <2>3, KinBasics
<1>4. ASSUME NEW q \in Person, NEW x \in Person, NEW s \in {q, to[q]}, NEW t \in {x, to[x]},
             Leads(into, q, x)
      PROVE  Leads(into', s, t) \/ Leads(into', t, s)
  <2>1. /\ Leads(into', q, x) /\ Leads(into', x, to[x]) /\ Leads(into', q, to[q])
        /\ Leads(into', q, q) /\ Leads(into', x, x) /\ s \in Person /\ t \in Person
        /\ Leads(into', to[q], to[q])
    BY <1>1, <1>4, ExtendsKeeps, LeadsBasics
  <2>2. CASE q = x
    BY <2>1, <2>2
  <2>3. CASE q # x
    <3>1. s = q
      BY <2>3, <1>1, <1>4, LeadsBasics
    <3> QED BY <2>1, <3>1, <1>1, LeadsBasics
  <2> QED BY <2>2, <2>3
<1>5. OneChain'
  <2> SUFFICES ASSUME NEW a \in Person, NEW s \in Person, NEW t \in Person, At(a, s)', At(a, t)'
               PROVE  Leads(into', s, t) \/ Leads(into', t, s)
    BY DEF OneChain, Leads, Closed
  <2>1. PICK q \in Person : At(a, q) /\ s \in {q, to[q]}
    BY <1>2
  <2>2. PICK x \in Person : At(a, x) /\ t \in {x, to[x]}
    BY <1>2
  <2>3. Leads(into, q, x) \/ Leads(into, x, q)
    BY <2>1, <2>2 DEF OneChain
  <2> QED BY <2>1, <2>2, <2>3, <1>4
<1>6. ASSUME NEW q \in Person, NEW x \in Person, q # x, Leads(into, q, x)
      PROVE  to[q] # to[x]
  <2>1. to[q] = q
    BY <1>1, <1>6, LeadsBasics
  <2>2. Leads(into', q, x) /\ Leads(into', x, to[x])
    BY <1>1, <1>6, ExtendsKeeps
  <2> QED BY <2>1, <2>2, <1>1, <1>6, LeadsOneWay DEF IdentityInv, EvidenceShape
<1>7. Distinct'
  <2> SUFFICES ASSUME NEW f \in Fact, NEW p \in Person, NEW q \in Person, p # q,
                      subject'[<<f, p>>] # Nobody
               PROVE  subject'[<<f, p>>] # subject'[<<f, q>>]
    BY DEF Distinct
  <2>1. PICK u \in Row : u = <<f, p>> /\ u[1] = f
    BY RowFacts
  <2>2. PICK v \in Row : v = <<f, q>> /\ v[1] = f
    BY RowFacts, ZenonT(60)
  <2>3. u = <<f, p>> /\ v = <<f, q>> /\ u[1] = f /\ v[1] = f
    BY <2>1, <2>2
  <2>4. PICK x \in Person : x = subject[u] /\ subject'[u] = to[x]
    BY <2>3, SomeBody DEF IdentityInv, EvidenceShape
  <2>5. CASE subject[v] = Nobody
    BY <2>3, <2>5
  <2>6. CASE subject[v] # Nobody
    <3>1. PICK y \in Person : y = subject[v] /\ subject'[v] = to[y]
      BY <2>6 DEF IdentityInv, EvidenceShape
    <3>2. x # y
      BY <2>3, <2>4, <3>1, SomeBody DEF Distinct
    <3>3. At(f.account, x) /\ At(f.account, y) /\ f.account \in Person
      BY <2>3, <2>4, <3>1, SomeBody, RowFacts DEF At
    <3>4. Leads(into, x, y) \/ Leads(into, y, x)
      BY <3>3 DEF OneChain
    <3> QED BY <2>3, <2>4, <3>1, <3>2, <3>4, <1>6
  <2> QED BY <2>5, <2>6
<1> QED BY <1>3, <1>5, <1>7

\* A step that says nothing new and merges nothing.
LEMMA StillCounts ==
  ASSUME IdentityInv, AtKin, OneChain, Distinct, UNCHANGED <<into, subject>>,
         \A a, s \in Person : At(a, s)' => At(a, s)
  PROVE  AtKin' /\ OneChain' /\ Distinct'
<1>1. AtKin' /\ OneChain'
  BY DEF AtKin, OneChain, Kin, Even, Leads, Closed
<1>2. Distinct'
  BY DEF Distinct
<1> QED BY <1>1, <1>2

LEMMA SameAt ==
  ASSUME UNCHANGED <<subject, collect>>, NEW a, NEW s
  PROVE  At(a, s)' => At(a, s)
  BY DEF At

LEMMA CountStart == IdentityInit => CountInv
<1> SUFFICES ASSUME IdentityInit PROVE CountInv
  OBVIOUS
<1>1. \A w \in Collector : DOMAIN collect[w] = {}
  BY DEF IdentityInit
<1>2. \A row \in Row : subject[row] = Nobody
  BY DEF IdentityInit
<1>3. \A a, s : ~At(a, s)
  BY <1>1, <1>2 DEF At
<1>4. AtKin /\ OneChain
  BY <1>3 DEF AtKin, OneChain
<1>5. HandlesKin /\ Distinct
  BY <1>2, RowFacts DEF HandlesKin, Distinct, IdentityInit
<1>6. RunsKin
  <2>1. \A r \in Resolver, p \in Person : resolve[r].handles[p] = {}
    BY DEF IdentityInit, IdleResolver
  <2> QED BY <2>1 DEF RunsKin, RunKin
<1> QED BY <1>4, <1>5, <1>6 DEF CountInv

LEMMA LookupCounts ==
  ASSUME IdentityInv, CountInv, NEW w \in Collector, NEW A \in SUBSET Person, Discover(w, A),
         ~remerged
  PROVE  AtKin' /\ HandlesKin' /\ OneChain' /\ Distinct'
<1> DEFINE new == {a \in A : Found(a) = {}}
<1>1. AtKin /\ HandlesKin /\ OneChain /\ Distinct
  BY DEF CountInv
<1>2. UNCHANGED <<into, subject>> /\ into \in Links
  BY DEF Discover, IdentityInv, EvidenceShape
<1>3. CASE UNCHANGED <<born, handles, collect>>
  <2>1. AtKin' /\ OneChain' /\ Distinct'
    BY <1>1, <1>2, <1>3, StillCounts, SameAt
  <2>2. HandlesKin'
    BY <1>1, <1>2, <1>3 DEF HandlesKin, Kin, Even
  <2> QED BY <2>1, <2>2
<1>4. CASE ~UNCHANGED <<born, handles, collect>>
  <2> PICK l : l = [a \in A |-> IF a \in new THEN a ELSE Chain(CHOOSE p \in Found(a) : TRUE)]
    OBVIOUS
  <2>1. /\ handles' = [p \in Person |-> IF p \in new THEN {p} ELSE handles[p]]
        /\ collect' = [collect EXCEPT ![w] = l]
        /\ \A a \in new : ~Exists(a)
    BY <1>4 DEF Discover
  <2>2. HandlesKin'
    <3>1. \A p \in Person : \A a \in handles'[p] : a = p \/ a \in handles[p]
      BY <2>1
    <3>2. \A p \in Person : \A a \in handles'[p] : Kin(into, a, p)
      BY <1>1, <3>1, KinBasics DEF HandlesKin
    <3> QED BY <1>2, <3>2 DEF HandlesKin, Kin, Even
  <2>3. ASSUME NEW a, NEW s, At(a, s)'
        PROVE  At(a, s) \/ (a \in A /\ s = l[a])
    <3>1. CASE \E row \in Row : row[1].account = a /\ subject'[row] = s /\ s # Nobody
      BY <1>2, <3>1 DEF At
    <3>2. CASE \E v \in Collector : a \in DOMAIN collect'[v] /\ collect'[v][a] = s
      <4>1. PICK v \in Collector : a \in DOMAIN collect'[v] /\ collect'[v][a] = s
        BY <3>2
      <4>2. collect'[v] = IF v = w THEN l ELSE collect[v]
        BY <2>1 DEF IdentityInv, WorkShape
      <4> QED BY <4>1, <4>2 DEF At
    <3> QED BY <2>3, <3>1, <3>2 DEF At
  \* What a lookup finds is the end of the account's chain.
  <2>4. ASSUME NEW a \in A
        PROVE  /\ l[a] \in Person /\ Kin(into, a, l[a])
               /\ \A s \in Person : At(a, s) => Leads(into, s, l[a])
    <3>1. CASE a \in new
      <4>1. l[a] = a /\ ~Exists(a)
        BY <2>1, <3>1
      <4> QED BY <4>1, AtPersons, KinBasics
    <3>2. CASE a \notin new
      <4>1. PICK p : p = CHOOSE x \in Found(a) : TRUE
        OBVIOUS
      <4>2. p \in Found(a)
        BY <3>2, <4>1
      <4>3. p \in Person /\ a \in handles[p]
        BY <4>2 DEF Found
      <4>4. l[a] = Chain(p)
        BY <3>2, <4>1
      <4>5. l[a] \in Person /\ into[l[a]] = Nobody /\ Leads(into, p, l[a])
        BY <4>3, <4>4, LoopEnds DEF IdentityInv, EvidenceShape
      <4>6. Kin(into, a, p) /\ Kin(into, p, l[a])
        BY <1>1, <1>2, <4>3, <4>5, LeadsIsKin DEF HandlesKin
      <4>7. Kin(into, a, l[a])
        BY <4>6, KinBasics
      <4>8. ASSUME NEW s \in Person, At(a, s) PROVE Leads(into, s, l[a])
        <5>1. Kin(into, a, s)
          BY <1>1, <4>8 DEF AtKin
        <5>2. Kin(into, s, l[a])
          BY <4>7, <5>1, KinBasics
        <5> QED BY <5>2, <4>5, <1>2, KinLeadsToEnd
      <4> QED BY <4>5, <4>7, <4>8
    <3> QED BY <3>1, <3>2
  <2>5. AtKin'
    <3>1. \A a, s \in Person : At(a, s)' => Kin(into, a, s)
      BY <1>1, <2>3, <2>4 DEF AtKin
    <3> QED BY <1>2, <3>1 DEF AtKin, Kin, Even
  <2>6. OneChain'
    <3>1. ASSUME NEW a \in Person, NEW s \in Person, NEW t \in Person, At(a, s)', At(a, t)'
          PROVE  Leads(into, s, t) \/ Leads(into, t, s)
      <4>1. CASE At(a, s) /\ At(a, t)
        BY <1>1, <4>1 DEF OneChain
      <4>2. CASE At(a, s) /\ t = l[a] /\ a \in A
        BY <2>4, <4>2
      <4>3. CASE At(a, t) /\ s = l[a] /\ a \in A
        BY <2>4, <4>3
      <4>4. CASE s = l[a] /\ t = l[a]
        BY <1>2, <4>4, LeadsBasics
      <4> QED BY <2>3, <3>1, <4>1, <4>2, <4>3, <4>4
    <3> QED BY <1>2, <3>1 DEF OneChain, Leads, Closed
  <2>7. Distinct'
    BY <1>1, <1>2 DEF Distinct
  <2> QED BY <2>2, <2>5, <2>6, <2>7
<1> QED BY <1>3, <1>4

\* What is written is written where the collector said it would.
LEMMA WriteCounts ==
  ASSUME IdentityInv, CountInv, NEW w \in Collector, NEW a \in Person, Write(w, a), ~remerged
  PROVE  AtKin' /\ HandlesKin' /\ OneChain' /\ Distinct'
<1> PICK p : p = collect[w][a]
  OBVIOUS
<1> PICK new : new = {f \in Fact : f.account = a /\ ~Stored(f, p)}
  OBVIOUS
<1>1. /\ subject' = [row \in Row |-> IF row \in new \X {p} THEN p ELSE subject[row]]
      /\ UNCHANGED <<into, handles, collect>> /\ a \in DOMAIN collect[w]
  BY DEF Write
<1>2. AtKin /\ HandlesKin /\ OneChain /\ Distinct
  BY DEF CountInv
<1>3. At(a, p) /\ p \in Person
  BY <1>1, AtPersons DEF At
<1>4. ASSUME NEW b, NEW s, At(b, s)' PROVE At(b, s)
  <2>1. CASE \E row \in Row : row[1].account = b /\ subject'[row] = s /\ s # Nobody
    <3>1. PICK row \in Row : row[1].account = b /\ subject'[row] = s /\ s # Nobody
      BY <2>1
    <3>2. CASE row \in new \X {p}
      BY <1>1, <1>3, <3>1, <3>2
    <3>3. CASE row \notin new \X {p}
      BY <1>1, <3>1, <3>3 DEF At
    <3> QED BY <3>2, <3>3
  <2>2. CASE \E v \in Collector : b \in DOMAIN collect[v] /\ collect[v][b] = s
    BY <2>2 DEF At
  <2> QED BY <1>1, <1>4, <2>1, <2>2 DEF At
<1>5. AtKin' /\ OneChain'
  BY <1>1, <1>2, <1>4 DEF AtKin, OneChain, Kin, Even, Leads, Closed
<1>6. HandlesKin'
  BY <1>1, <1>2 DEF HandlesKin, Kin, Even
<1>7. Distinct'
  <2> SUFFICES ASSUME NEW f \in Fact, NEW q \in Person, NEW s \in Person, q # s,
                      subject'[<<f, q>>] # Nobody, subject'[<<f, q>>] = subject'[<<f, s>>]
               PROVE  FALSE
    BY DEF Distinct
  <2>1. \A x \in Person : subject'[<<f, x>>] = IF f \in new /\ x = p THEN p ELSE subject[<<f, x>>]
    BY <1>1, RowFacts
  <2>2. CASE f \in new
    <3>1. \A x \in Person : subject[<<f, x>>] # p
      BY <2>2 DEF Stored
    <3> QED BY <1>2, <2>1, <3>1 DEF Distinct
  <2>3. CASE f \notin new
    BY <1>2, <2>1, <2>3 DEF Distinct
  <2> QED BY <2>2, <2>3
<1> QED BY <1>5, <1>6, <1>7

\* The links a resolution writes join the handles it has joined.
LEMMA CommitCounts ==
  ASSUME IdentityInv, IdentityInv', CountInv, NEW r \in Resolver, ResolveCommit(r), ~remerged'
  PROVE  /\ Extends(into', into)
         /\ AtKin' /\ HandlesKin' /\ OneChain' /\ Distinct'
<1>1. PICK run \in Resolution : run = resolve[r] /\ RunOK(run)
  BY DEF IdentityInv, WorkShape, RunsOK
<1>2. /\ into' = Linked(run)
      /\ handles' = [p \in Person |-> IF p \in {m[1] : m \in run.merged}
                                        THEN run.handles[p] ELSE handles[p]]
      /\ subject' = [row \in Row |-> IF subject[row] = Nobody THEN Nobody
                                      ELSE run.to[subject[row]]]
      /\ UNCHANGED <<born, collect>>
      /\ remerged' = (remerged \/ \E d \in run.gone : ~Canonical(d))
  BY <1>1 DEF ResolveCommit, Linked
<1>3. ~remerged /\ \A d \in run.gone : into[d] = Nobody
  BY <1>2 DEF Canonical
<1>4. /\ into \in Links /\ into' \in Links /\ run.gone \subseteq Person
      /\ run.to \in [Person -> Person]
  BY DEF IdentityInv, EvidenceShape, Resolution
<1>5. /\ \A p \in Person : p \notin run.gone => into'[p] = into[p]
      /\ \A m \in run.merged : m[1] \in Person /\ m[2] \in run.gone /\ into'[m[2]] = m[1]
  BY <1>1, <1>2, <1>4, LinkedTo
<1>6. Extends(into', into)
  BY <1>3, <1>5 DEF Extends
<1>7. AtKin /\ HandlesKin /\ RunsKin /\ OneChain /\ Distinct
  BY <1>3 DEF CountInv
<1>8. ASSUME NEW p \in Person PROVE Leads(into', p, run.to[p])
  <2> SUFFICES ASSUME NEW S \in SUBSET Person, Closed(into', S), p \in S PROVE run.to[p] \in S
    BY DEF Leads
  <2>1. \A m \in run.merged : m[2] \in S => m[1] \in S
    BY <1>4, <1>5, SomeBody DEF Closed
  <2> QED BY <1>1, <2>1 DEF RunOK, MovedOn
<1>9. \A p \in Person : into[p] # Nobody => run.to[p] = p
  BY <1>1, <1>3 DEF RunOK, MovedOn
<1>10. AtKin' /\ OneChain' /\ Distinct'
  <2>1. PICK to \in [Person -> Person] : to = run.to
    BY <1>4
  <2>2. \A row \in Row : subject'[row] = IF subject[row] = Nobody THEN Nobody ELSE to[subject[row]]
    BY <1>2, <2>1
  <2>3. \A p \in Person : Leads(into', p, to[p]) /\ (into[p] # Nobody => to[p] = p)
    BY <1>8, <1>9, <2>1
  <2> QED BY <1>2, <1>6, <1>7, <2>2, <2>3, MoveCounts
<1>11. HandlesKin'
  <2> SUFFICES ASSUME NEW p \in Person, NEW a \in handles'[p] PROVE Kin(into', a, p)
    BY DEF HandlesKin, Kin, Even
  <2>1. CASE a \in handles[p]
    BY <2>1, <1>4, <1>6, <1>7, ExtendsKeeps DEF HandlesKin
  <2>2. CASE a \in run.handles[p]
    <3> SUFFICES ASSUME NEW S \in SUBSET Person, Even(into', S) PROVE a \in S <=> p \in S
      BY DEF Kin
    <3>1. Even(into, S)
      BY <1>6 DEF Even, Extends
    <3>2. Along(run, S)
      <4>1. ASSUME NEW m \in run.merged PROVE m[2] \in S <=> m[1] \in S
        <5>1. PICK q \in Person : q = m[2] /\ into'[q] = m[1] /\ m[1] \in Person
          BY <1>4, <1>5
        <5> QED BY <5>1, SomeBody DEF Even
      <4> QED BY <4>1 DEF Along
    <3>3. RunKin(into, run)
      BY <1>1, <1>7 DEF RunsKin
    <3> QED BY <2>2, <3>1, <3>2, <3>3 DEF RunKin
  <2> QED BY <1>2, <2>1, <2>2
<1> QED BY <1>6, <1>10, <1>11

\* approve_match merges a person that is canonical then.
LEMMA ApproveCounts ==
  ASSUME IdentityInv, IdentityInv', CountInv, NEW i \in DOMAIN matches,
         NEW c \in Person, NEW d \in Person, Approve(i, c, d), ~remerged
  PROVE  /\ Extends(into', into)
         /\ AtKin' /\ HandlesKin' /\ OneChain' /\ Distinct'
<1>1. UNCHANGED <<born, collect>> /\ into \in Links /\ into' \in Links
  BY DEF Approve, IdentityInv, EvidenceShape
<1>2. AtKin /\ HandlesKin /\ OneChain /\ Distinct
  BY DEF CountInv
<1>3. CASE ~Canonical(d)
  <2>1. UNCHANGED <<into, handles, subject>>
    BY <1>3 DEF Approve
  <2>2. AtKin' /\ OneChain' /\ Distinct'
    BY <1>1, <1>2, <2>1, StillCounts, SameAt
  <2>3. HandlesKin' /\ Extends(into', into)
    BY <1>2, <2>1 DEF HandlesKin, Kin, Even, Extends
  <2> QED BY <2>2, <2>3
<1>4. CASE Canonical(d)
  <2>1. /\ into' = [into EXCEPT ![d] = c] /\ into[d] = Nobody
        /\ handles' = Union(handles, c, d)
        /\ subject' = [row \in Row |-> IF subject[row] = d THEN c ELSE subject[row]]
    BY <1>4 DEF Approve, Canonical
  <2>2. \A p \in Person : into'[p] = IF p = d THEN c ELSE into[p]
    BY <1>1, <2>1 DEF Links
  <2>3. Extends(into', into)
    BY <2>1, <2>2 DEF Extends
  <2>4. PICK to : to = [p \in Person |-> IF p = d THEN c ELSE p]
    OBVIOUS
  <2>5. to \in [Person -> Person] /\ \A p \in Person : to[p] = IF p = d THEN c ELSE p
    BY <2>4
  <2>6. Leads(into', d, c) /\ \A p \in Person : Leads(into', p, p)
    BY <1>1, <2>2, LeadsBasics
  <2>7. \A p \in Person : Leads(into', p, to[p]) /\ (into[p] # Nobody => to[p] = p)
    BY <2>1, <2>5, <2>6
  <2>8. \A row \in Row : subject'[row] = IF subject[row] = Nobody THEN Nobody ELSE to[subject[row]]
    BY <2>1, <2>5, SomeBody DEF IdentityInv, EvidenceShape
  <2>9. AtKin' /\ OneChain' /\ Distinct'
    BY <1>1, <1>2, <2>3, <2>5, <2>7, <2>8, MoveCounts
  <2>10. HandlesKin'
    <3> SUFFICES ASSUME NEW p \in Person, NEW a \in handles'[p] PROVE Kin(into', a, p)
      BY DEF HandlesKin, Kin, Even
    <3>1. PICK h \in [Person -> SUBSET Person] : h = handles
      BY DEF IdentityInv, EvidenceShape
    <3>2. a \in h[p] \/ (p = c /\ a \in h[d])
      BY <2>1, <3>1, UnionOf
    <3>3. Kin(into, a, p) \/ (p = c /\ Kin(into, a, d))
      BY <1>2, <3>1, <3>2 DEF HandlesKin
    <3>4. Kin(into', a, p) \/ (p = c /\ Kin(into', a, d))
      BY <1>1, <2>3, <3>3, ExtendsKeeps
    <3>5. Kin(into', d, c)
      BY <1>1, <2>6, LeadsIsKin
    <3> QED BY <3>4, <3>5, KinBasics
  <2> QED BY <2>3, <2>9, <2>10
<1> QED BY <1>3, <1>4

\* A resolution that has merged d into c has joined their handles.
LEMMA MergedKin ==
  ASSUME NEW run \in Resolution, NEW c \in Person, NEW d \in Person, RunKin(into, run)
  PROVE  RunKin(into, Merged(run, c, d))
<1> PICK t : t = Merged(run, c, d)
  OBVIOUS
<1> PICK h \in [Person -> SUBSET Person] : h = run.handles
  BY DEF Resolution
<1> PICK m : m = <<c, d>>
  OBVIOUS
<1>1. t.merged = run.merged \cup {m} /\ t.handles = Union(h, c, d) /\ m[1] = c /\ m[2] = d
  BY DEF Merged, Resolution
<1>2. ASSUME NEW S \in SUBSET Person, Even(into, S), Along(t, S),
             NEW p \in Person, NEW a \in t.handles[p]
      PROVE  a \in S <=> p \in S
  <2>1. Along(run, S) /\ (d \in S <=> c \in S)
    BY <1>1, <1>2 DEF Along
  <2>2. a \in h[p] \/ (p = c /\ a \in h[d])
    BY <1>1, <1>2, UnionOf
  <2> QED BY <1>2, <2>1, <2>2 DEF RunKin
<1> QED BY <1>2 DEF RunKin

LEMMA IdleKin == RunKin(into, IdleResolver)
<1>1. \A p \in Person : IdleResolver.handles[p] = {}
  BY DEF IdleResolver
<1> QED BY <1>1 DEF RunKin

\* The resolutions, step by step: what each has read was so, and stays so.
LEMMA ReadKin ==
  ASSUME HandlesKin, NEW run, run.handles = handles
  PROVE  RunKin(into, run)
  BY DEF HandlesKin, Kin, RunKin

LEMMA RunsCount ==
  ASSUME IdentityInv, IdentityInv', RunsKin, Extends(into', into), UNCHANGED resolve
  PROVE  RunsKin'
<1>1. into \in Links /\ into' \in Links
  BY DEF IdentityInv, EvidenceShape
<1>2. ASSUME NEW r \in Resolver PROVE RunKin(into', resolve[r])
  BY <1>1, RunKinExtends DEF RunsKin
<1> QED BY <1>2 DEF RunsKin, RunKin, Even, Along

LEMMA OneRunCounts ==
  ASSUME IdentityInv, CountInv, ~remerged, UNCHANGED <<into, handles, subject, collect>>,
         NEW r \in Resolver, NEW run, RunKin(into, run), resolve' = [resolve EXCEPT ![r] = run]
  PROVE  AtKin' /\ HandlesKin' /\ RunsKin' /\ OneChain' /\ Distinct'
<1>1. AtKin /\ HandlesKin /\ RunsKin /\ OneChain /\ Distinct
  BY DEF CountInv
<1>2. AtKin' /\ OneChain' /\ Distinct'
  BY <1>1, StillCounts, SameAt
<1>3. HandlesKin'
  BY <1>1 DEF HandlesKin, Kin, Even
<1>4. ASSUME NEW s \in Resolver PROVE RunKin(into, resolve'[s])
  BY <1>1 DEF RunsKin, IdentityInv, WorkShape
<1>5. RunsKin'
  BY <1>4 DEF RunsKin, RunKin, Even, Along
<1> QED BY <1>2, <1>3, <1>5

LEMMA PairCounts ==
  ASSUME IdentityInv, CountInv, ~remerged, NEW r \in Resolver, NEW c \in Person, NEW d \in Person,
         ResolvePair(r, c, d)
  PROVE  AtKin' /\ HandlesKin' /\ RunsKin' /\ OneChain' /\ Distinct'
<1>1. PICK old \in Resolution : old = resolve[r]
  BY DEF IdentityInv, WorkShape
<1>2. RunKin(into, old)
  BY <1>1 DEF CountInv, RunsKin
<1>3. UNCHANGED <<into, handles, subject, collect>>
  BY DEF ResolvePair, evidence
<1>4. PICK rest : rest = [old EXCEPT !.pairs = @ \ {{c, d}}]
  OBVIOUS
<1>5. ASSUME NEW flag PROVE RunKin(into, [rest EXCEPT !.flag = flag]) /\ RunKin(into, rest)
  <2>1. PICK t : t = [rest EXCEPT !.flag = flag]
    OBVIOUS
  <2>2. /\ rest.handles = old.handles /\ rest.merged = old.merged
        /\ t.handles = old.handles /\ t.merged = old.merged
    BY <1>4, <2>1 DEF Resolution
  <2> QED BY <1>2, <2>1, <2>2 DEF RunKin, Along
<1>6. CASE resolve' = [resolve EXCEPT ![r] = rest]
  BY <1>3, <1>5, <1>6, OneRunCounts
<1>7. CASE resolve' = [resolve EXCEPT ![r] = Merged(old, c, d)]
  <2>1. PICK t : t = Merged(old, c, d)
    OBVIOUS
  <2>2. RunKin(into, t)
    BY <2>1, <1>2, MergedKin
  <2> QED BY <1>3, <1>7, <2>1, <2>2, OneRunCounts
<1>8. CASE resolve' = [resolve EXCEPT ![r] = IdleResolver]
  <2>1. PICK idle : idle = IdleResolver
    OBVIOUS
  <2> QED BY <1>3, <1>8, <2>1, IdleKin, OneRunCounts
<1>9. CASE resolve' = [resolve EXCEPT ![r] = [rest EXCEPT !.flag = Flag(r, {c, d})]]
  <2>1. PICK t : t = [rest EXCEPT !.flag = Flag(r, {c, d})]
    OBVIOUS
  <2>2. RunKin(into, t)
    BY <2>1, <1>5
  <2> QED BY <1>3, <1>9, <2>1, <2>2, OneRunCounts
<1> QED BY <1>1, <1>4, <1>6, <1>7, <1>8, <1>9, PairCases, ZenonT(60)

LEMMA CommitRuns ==
  ASSUME IdentityInv, IdentityInv', CountInv, ~remerged, NEW r \in Resolver, ResolveCommit(r),
         Extends(into', into)
  PROVE  RunsKin'
<1>1. PICK idle : idle = IdleResolver
  OBVIOUS
<1>2. into \in Links /\ into' \in Links /\ resolve' = [resolve EXCEPT ![r] = idle]
  BY <1>1 DEF IdentityInv, EvidenceShape, ResolveCommit
<1>3. ASSUME NEW s \in Resolver PROVE RunKin(into, resolve'[s])
  BY <1>1, <1>2, IdleKin DEF CountInv, RunsKin, IdentityInv, WorkShape
<1>4. ASSUME NEW s \in Resolver PROVE RunKin(into', resolve'[s])
  BY <1>2, <1>3, RunKinExtends
<1> QED BY <1>4 DEF RunsKin, RunKin, Even, Along

\* History is not forgotten.
LEMMA RemergedStays ==
  ASSUME [IdentityNext]_identityVars, remerged
  PROVE  remerged'
<1>1. \A w \in Collector :
        /\ \A A \in SUBSET Person : Discover(w, A) => remerged'
        /\ \A a \in Person : Write(w, a) => remerged'
        /\ Leave(w) => remerged'
  BY DEF Discover, Write, Leave
<1>2. \A r \in Resolver : ResolveRead(r) \/ ResolveFails(r) => remerged'
  BY DEF ResolveRead, ResolveFails
<1>3. \A r \in Resolver : ResolveCommit(r) => remerged'
  BY DEF ResolveCommit
<1>4. ASSUME NEW r \in Resolver, NEW c \in Person, NEW d \in Person, ResolvePair(r, c, d)
      PROVE  remerged'
  <2>1. UNCHANGED <<evidence, matches, collect, rounds, remerged>>
    BY <1>4 DEF ResolvePair
  <2> QED BY <2>1
<1>5. \A i \in DOMAIN matches : Reject(i) \/ (\E c, d \in Person : Approve(i, c, d)) => remerged'
  BY DEF Reject, Approve
<1>6. UNCHANGED identityVars => remerged'
  BY DEF identityVars
<1> QED BY <1>1, <1>2, <1>3, <1>4, <1>5, <1>6 DEF IdentityNext

LEMMA CountStep ==
  ASSUME IdentityInv, IdentityInv', CountInv, [IdentityNext]_identityVars
  PROVE  CountInv'
<1> SUFFICES ASSUME ~remerged' PROVE AtKin' /\ HandlesKin' /\ RunsKin' /\ OneChain' /\ Distinct'
  BY DEF CountInv
<1> DEFINE Goal == AtKin' /\ HandlesKin' /\ RunsKin' /\ OneChain' /\ Distinct'
<1>1. ~remerged
  BY RemergedStays
<1>2. RunsKin
  BY <1>1 DEF CountInv
<1>3. ASSUME UNCHANGED into PROVE Extends(into', into)
  BY <1>3 DEF Extends
<1>4. ASSUME UNCHANGED <<into, handles, subject, collect, resolve>> PROVE Goal
  <2>1. AtKin' /\ OneChain' /\ Distinct'
    BY <1>1, <1>4, StillCounts, SameAt DEF CountInv
  <2>2. HandlesKin'
    BY <1>1, <1>4 DEF CountInv, HandlesKin, Kin, Even
  <2>3. RunsKin'
    BY <1>2, <1>3, <1>4, RunsCount
  <2> QED BY <2>1, <2>2, <2>3
<1>5. ASSUME NEW w \in Collector, NEW A \in SUBSET Person, Discover(w, A) PROVE Goal
  <2>1. UNCHANGED <<into, resolve>>
    BY <1>5 DEF Discover
  <2> QED BY <2>1, <1>1, <1>2, <1>3, <1>5, LookupCounts, RunsCount
<1>6. ASSUME NEW w \in Collector, NEW a \in Person, Write(w, a) PROVE Goal
  <2>1. UNCHANGED <<into, resolve>>
    BY <1>6 DEF Write
  <2> QED BY <2>1, <1>1, <1>2, <1>3, <1>6, WriteCounts, RunsCount
<1>7. ASSUME NEW w \in Collector, Leave(w) PROVE Goal
  <2>1. collect' = [collect EXCEPT ![w] = <<>>] /\ UNCHANGED <<into, handles, subject, resolve>>
    BY <1>7 DEF Leave, evidence
  <2>2. ASSUME NEW a, NEW s, At(a, s)' PROVE At(a, s)
    <3>1. \A v \in Collector : \A b \in DOMAIN collect'[v] :
            b \in DOMAIN collect[v] /\ collect'[v][b] = collect[v][b]
      BY <2>1 DEF IdentityInv, WorkShape
    <3> QED BY <2>1, <2>2, <3>1 DEF At
  <2>3. AtKin' /\ OneChain' /\ Distinct'
    BY <1>1, <2>1, <2>2, StillCounts DEF CountInv
  <2>4. HandlesKin'
    BY <1>1, <2>1 DEF CountInv, HandlesKin, Kin, Even
  <2>5. RunsKin'
    BY <1>2, <1>3, <2>1, RunsCount
  <2> QED BY <2>3, <2>4, <2>5
<1>8. ASSUME NEW r \in Resolver, ResolveRead(r) PROVE Goal
  <2>1. PICK run : /\ resolve' = [resolve EXCEPT ![r] = run] /\ run.handles = handles
    <3> DEFINE ps == {pr \in Pair : /\ \A p \in pr : Canonical(p)
                                  /\ \E p, q \in pr : p # q /\ Blocked(p, q)}
    <3>1. PICK run : run = [IdleResolver EXCEPT !.phase = "pairs", !.handles = handles, !.pairs = ps]
      OBVIOUS
    <3>2. run.handles = handles
      BY <3>1 DEF IdleResolver
    <3> QED BY <1>8, <3>1, <3>2 DEF ResolveRead
  <2>2. UNCHANGED <<into, handles, subject, collect>>
    BY <1>8 DEF ResolveRead, evidence
  <2>3. RunKin(into, run)
    BY <1>1, <2>1, ReadKin DEF CountInv
  <2> QED BY <1>1, <2>1, <2>2, <2>3, OneRunCounts
<1>9. ASSUME NEW r \in Resolver, ResolveCommit(r) PROVE Goal
  BY <1>1, <1>9, CommitCounts, CommitRuns
<1>10. ASSUME NEW r \in Resolver, ResolveFails(r) PROVE Goal
  <2>1. PICK idle : idle = IdleResolver
    OBVIOUS
  <2>2. resolve' = [resolve EXCEPT ![r] = idle] /\ UNCHANGED <<into, handles, subject, collect>>
    BY <1>10, <2>1 DEF ResolveFails, evidence
  <2> QED BY <1>1, <2>1, <2>2, IdleKin, OneRunCounts
<1>11. ASSUME NEW r \in Resolver, NEW c \in Person, NEW d \in Person, ResolvePair(r, c, d) PROVE Goal
  BY <1>1, <1>11, PairCounts
<1>12. ASSUME NEW i \in DOMAIN matches, Reject(i) PROVE Goal
  BY <1>4, <1>12 DEF Reject, evidence
<1>13. ASSUME NEW i \in DOMAIN matches, NEW c \in Person, NEW d \in Person, Approve(i, c, d) PROVE Goal
  <2>1. UNCHANGED resolve
    BY <1>13 DEF Approve
  <2> QED BY <1>1, <1>2, <1>13, <2>1, ApproveCounts, RunsCount
<1>14. CASE UNCHANGED identityVars
  BY <1>4, <1>14 DEF identityVars, evidence
<1> QED BY <1>5, <1>6, <1>7, <1>8, <1>9, <1>10, <1>11, <1>12, <1>13, <1>14 DEF IdentityNext

\* What makes an observation the only one of its fact about its subject, through any
\* overlap of collections, merges and reviews.
THEOREM CountInvariant == IdentitySpec => []CountInv
  BY IdentityInvariant, CountStart, CountStep, PTL DEF IdentitySpec

\* No two observations of one fact have the same subject, however collections, merges and
\* reviews overlap, as long as no resolution commits a merge of a person merged meanwhile.
THEOREM NothingCountsTwice == IdentitySpec => []CountedOnce
<1>1. CountInv => CountedOnce
  BY DEF CountInv, Distinct, CountedOnce
<1> QED BY <1>1, CountInvariant, PTL
=============================================================================
