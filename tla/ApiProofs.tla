----------------------------- MODULE ApiProofs -----------------------------
(***************************************************************************)
(* Proofs about two components behind the API, which share no state: the   *)
(* registry of provider clients (ClientRegistry) and the candidate listing *)
(* (CandidateList); and about all of them side by side (Api).              *)
(***************************************************************************)
EXTENDS Api, DealDeskProofs, FiniteSetTheorems

(***************************************************************************)
(* The registry, for any number of keys, clients and calls of close().     *)
(* The inductive invariant adds to the property who may hold an object:    *)
(* while the registry is closing no key has a client, an object that is    *)
(* registered or in the hands of the shutdown has never been closed, and   *)
(* one the factories have not returned yet is neither.                     *)
(***************************************************************************)
Owner(c) == closers[c].phase = "owner"
Held(c) == closers[c].todo \cup closers[c].failed

Call ==
  {Outside} \cup [phase : {"waiting"}, for : Closer]
  \cup [phase : {"owner"}, entries : [ClientKey -> Client \cup {None}],
        todo : SUBSET Client, failed : SUBSET Client]

Shape ==
  /\ clients \in [ClientKey -> Client \cup {None}]
  /\ made \in SUBSET Client
  /\ closing \in BOOLEAN
  /\ closers \in [Closer -> Call]
  /\ closed \in [Client -> Nat]
  /\ failures \in Nat

OneOwner ==
  /\ closing <=> \E c \in Closer : Owner(c)
  /\ \A c, d \in Closer : Owner(c) /\ Owner(d) => c = d
  /\ closing => \A k \in ClientKey : clients[k] = None

OpenObjects ==
  /\ \A k \in ClientKey : clients[k] # None => clients[k] \in made /\ closed[clients[k]] = 0
  /\ \A c \in Closer : Owner(c) =>
       /\ \A x \in Held(c) : x \in made /\ closed[x] = 0
                             /\ \E k \in ClientKey : closers[c].entries[k] = x
       /\ closers[c].todo \cap closers[c].failed = {}
  /\ \A x \in Client \ made : closed[x] = 0
  /\ \A x \in Client : closed[x] <= 1

Kept ==
  \A x \in made : closed[x] = 0 =>
    \/ \E k \in ClientKey : clients[k] = x
    \/ \E c \in Closer : Owner(c) /\ x \in Held(c)

RInv == Shape /\ OneOwner /\ OpenObjects /\ Kept

\* An empty registry that nobody closes.
LEMMA InitRInv ==
  ASSUME RegistryInit, failures \in Nat
  PROVE  RInv
<1>1. \A c \in Closer : ~Owner(c)
  BY DEF RegistryInit, Outside, Owner
<1>2. Shape
  BY DEF RegistryInit, Shape, Call
<1>3. OneOwner
  BY <1>1 DEF RegistryInit, OneOwner
<1>4. OpenObjects
  BY <1>1 DEF RegistryInit, OpenObjects
<1>5. Kept
  BY DEF RegistryInit, Kept
<1> QED BY <1>2, <1>3, <1>4, <1>5 DEF RInv

\* get_openai and get_tavily.
LEMMA GetRInv ==
  ASSUME RInv, NEW k \in ClientKey, Get(k)
  PROVE  RInv'
<1> USE DEF RInv
<1>1. PICK x \in Client :
        /\ x \notin made \/ x \in Registered
        /\ clients' = [clients EXCEPT ![k] = x]
        /\ made' = made \cup {x}
  BY DEF Get
<1>2. closed[x] = 0
  BY <1>1 DEF Registered, OpenObjects, Shape
<1>3. ~closing /\ UNCHANGED <<closing, closers, closed, failures>>
  BY DEF Get
<1>4. Shape'
  BY <1>1, <1>3 DEF Shape
<1>5. OneOwner'
  BY <1>3 DEF OneOwner, Owner
<1>6. OpenObjects'
  <2>1. \A j \in ClientKey : clients'[j] # None => clients'[j] \in made' /\ closed[clients'[j]] = 0
    BY <1>1, <1>2 DEF Shape, OpenObjects
  <2>2. \A c \in Closer : Owner(c)' = Owner(c) /\ Held(c)' = Held(c)
    BY <1>3 DEF Owner, Held
  <2> QED BY <1>1, <1>3, <2>1, <2>2 DEF OpenObjects
<1>7. Kept'
  <2>1. SUFFICES ASSUME NEW y \in made', closed'[y] = 0
                 PROVE  \/ \E j \in ClientKey : clients'[j] = y
                        \/ \E c \in Closer : Owner(c)' /\ y \in Held(c)'
    BY DEF Kept
  <2>2. CASE y = x
    BY <1>1, <2>2 DEF Shape
  <2>3. CASE y # x
    <3>1. y \in made /\ closed[y] = 0 /\ y # None
      BY <1>1, <1>3, <2>1, <2>3, ClientAssumption DEF Shape
    <3>2. CASE \E j \in ClientKey : clients[j] = y
      <4>1. PICK j \in ClientKey : clients[j] = y
        BY <3>2
      <4>2. j # k
        BY <3>1, <4>1 DEF Get
      <4>3. clients'[j] = y
        BY <1>1, <4>1, <4>2 DEF Shape
      <4> QED BY <4>3
    <3>3. CASE \E c \in Closer : Owner(c) /\ y \in Held(c)
      BY <1>3, <3>3 DEF Owner, Held
    <3> QED BY <3>1, <3>2, <3>3 DEF Kept
  <2> QED BY <2>2, <2>3
<1> QED BY <1>4, <1>5, <1>6, <1>7

\* The first caller of close takes the clients over; a later one waits.
LEMMA CloseBeginRInv ==
  ASSUME RInv, NEW c \in Closer, CloseBegin(c)
  PROVE  RInv'
<1> USE DEF RInv
<1>1. CASE closing
  <2>1. PICK d \in Closer : closers' = [closers EXCEPT ![c] = [phase |-> "waiting", for |-> d]]
    BY <1>1 DEF CloseBegin
  <2>2. UNCHANGED <<clients, closing, made, closed, failures>>
    BY <1>1 DEF CloseBegin
  <2>3. ~Owner(c) /\ ~Owner(c)'
    BY <2>1 DEF CloseBegin, Owner, Outside, Shape
  <2>4. \A e \in Closer \ {c} : closers'[e] = closers[e]
    BY <2>1 DEF Shape
  <2>5. \A e \in Closer : Owner(e)' = Owner(e)
    BY <2>3, <2>4 DEF Owner
  <2>6. \A e \in Closer : Owner(e) => closers'[e] = closers[e]
    BY <2>3, <2>4
  <2>7. Shape'
    BY <2>1, <2>2 DEF Shape, Call
  <2>8. OneOwner'
    BY <2>2, <2>5 DEF OneOwner
  <2>9. OpenObjects'
    BY <2>2, <2>5, <2>6 DEF OpenObjects, Held
  <2>10. Kept'
    BY <2>2, <2>5, <2>6 DEF Kept, Held
  <2> QED BY <2>7, <2>8, <2>9, <2>10
<1>2. CASE ~closing
  <2> DEFINE q == [phase |-> "owner", entries |-> clients, todo |-> Registered, failed |-> {}]
  <2>1. closers' = [closers EXCEPT ![c] = q] /\ closing' = TRUE
        /\ clients' = [k \in ClientKey |-> None] /\ UNCHANGED <<made, closed, failures>>
    BY <1>2 DEF CloseBegin
  <2>2. \A e \in Closer : ~Owner(e)
    BY <1>2 DEF OneOwner
  <2>3. closers'[c] = q /\ \A e \in Closer \ {c} : closers'[e] = closers[e]
    BY <2>1 DEF Shape
  <2>4. \A e \in Closer : Owner(e)' <=> e = c
    BY <2>2, <2>3 DEF Owner
  <2>5. Held(c)' = Registered /\ Registered \subseteq Client
    BY <2>3 DEF Held, Registered, Shape
  <2>6. Shape'
    BY <2>1, <2>5 DEF Shape, Call
  <2>7. OneOwner'
    BY <2>1, <2>4 DEF OneOwner
  <2>8. \A x \in Registered : x \in made /\ closed[x] = 0 /\ \E k \in ClientKey : clients[k] = x
    BY DEF Registered, OpenObjects
  <2>9. OpenObjects'
    BY <2>1, <2>3, <2>4, <2>5, <2>8 DEF OpenObjects
  <2>10. \A x \in made : closed[x] = 0 => x \in Registered
    <3>1. SUFFICES ASSUME NEW x \in made, closed[x] = 0 PROVE x \in Registered
      OBVIOUS
    <3>2. PICK k \in ClientKey : clients[k] = x
      BY <2>2, <3>1 DEF Kept
    <3> QED BY <3>2, ClientAssumption DEF Registered, Shape
  <2>11. Kept'
    BY <2>1, <2>4, <2>5, <2>10 DEF Kept
  <2> QED BY <2>6, <2>7, <2>9, <2>11
<1> QED BY <1>1, <1>2

\* One client of the shutdown is closed, or fails to close and is kept.
LEMMA CloseOneRInv ==
  ASSUME RInv, NEW c \in Closer, CloseOne(c)
  PROVE  RInv'
<1> USE DEF RInv
<1>1. Owner(c) /\ UNCHANGED <<clients, made, closing>>
  BY DEF CloseOne, Owner
<1>2. closers[c] \in [phase : {"owner"}, entries : [ClientKey -> Client \cup {None}],
                      todo : SUBSET Client, failed : SUBSET Client]
  BY <1>1 DEF Shape, Call, Owner, Outside
<1>3. PICK x \in closers[c].todo :
        \/ /\ closers' = [closers EXCEPT ![c].todo = @ \ {x}]
           /\ closed' = [closed EXCEPT ![x] = @ + 1]
           /\ UNCHANGED failures
        \/ /\ failures > 0 /\ failures' = failures - 1
           /\ closers' = [closers EXCEPT ![c].todo = @ \ {x}, ![c].failed = @ \cup {x}]
           /\ UNCHANGED closed
  BY DEF CloseOne
<1>4. x \in Client /\ x \in made /\ closed[x] = 0 /\ x \notin closers[c].failed
  BY <1>1, <1>2, <1>3 DEF OpenObjects, Held
<1>5. \A e \in Closer : Owner(e) => e = c
  BY <1>1 DEF OneOwner
<1>6. CASE /\ closers' = [closers EXCEPT ![c].todo = @ \ {x}]
           /\ closed' = [closed EXCEPT ![x] = @ + 1]
           /\ UNCHANGED failures
  <2> DEFINE q == [closers[c] EXCEPT !.todo = @ \ {x}]
  <2>1. closers' = [closers EXCEPT ![c] = q]
    BY <1>6 DEF Shape
  <2>2. q.todo = closers[c].todo \ {x} /\ q.failed = closers[c].failed
        /\ q.entries = closers[c].entries /\ q.phase = "owner"
    BY <1>2
  <2>3. q \in Call
    BY <1>2 DEF Call
  <2>4. closers'[c] = q /\ \A e \in Closer \ {c} : closers'[e] = closers[e]
    BY <2>1 DEF Shape
  <2>5. \A e \in Closer : Owner(e)' <=> e = c
    BY <1>5, <2>2, <2>4 DEF Owner
  <2>6. Held(c)' = Held(c) \ {x}
    BY <1>4, <2>2, <2>4 DEF Held
  <2>7. closed'[x] = 1 /\ \A y \in Client \ {x} : closed'[y] = closed[y]
    BY <1>4, <1>6 DEF Shape
  <2>8. closed' \in [Client -> Nat]
    BY <1>4, <1>6 DEF Shape
  <2>9. Shape'
    BY <1>1, <1>6, <2>1, <2>3, <2>8 DEF Shape
  <2>10. OneOwner'
    BY <1>1, <1>5, <2>5 DEF OneOwner
  <2>11. \A k \in ClientKey : clients[k] = None
    BY <1>1 DEF OneOwner
  <2>12. \A y \in Held(c)' : y \in made /\ closed'[y] = 0 /\ \E k \in ClientKey : q.entries[k] = y
    BY <1>1, <2>2, <2>6, <2>7 DEF OpenObjects, Shape
  <2>13. OpenObjects'
    <3>1. \A e \in Closer : Owner(e)' =>
            /\ \A y \in Held(e)' : y \in made' /\ closed'[y] = 0
                                   /\ \E k \in ClientKey : closers'[e].entries[k] = y
            /\ closers'[e].todo \cap closers'[e].failed = {}
      <4>1. q.todo \cap q.failed = {}
        BY <1>1, <2>2 DEF OpenObjects
      <4>2. SUFFICES ASSUME NEW e \in Closer, Owner(e)'
                     PROVE  /\ \A y \in Held(e)' : y \in made' /\ closed'[y] = 0
                                 /\ \E k \in ClientKey : closers'[e].entries[k] = y
                            /\ closers'[e].todo \cap closers'[e].failed = {}
        OBVIOUS
      <4>3. e = c /\ closers'[e] = q
        BY <2>4, <2>5, <4>2
      <4> HIDE DEF q
      <4> QED BY <1>1, <2>12, <4>1, <4>3
    <3>2. \A y \in Client : closed'[y] <= 1
      BY <2>7 DEF OpenObjects
    <3>3. \A y \in Client \ made' : closed'[y] = 0
      BY <1>1, <1>4, <2>7 DEF OpenObjects
    <3> QED BY <1>1, <2>11, <3>1, <3>2, <3>3 DEF OpenObjects
  <2>14. Kept'
    BY <1>1, <1>4, <1>5, <2>4, <2>5, <2>6, <2>7, <2>11, ClientAssumption DEF Kept, Shape
  <2> QED BY <2>9, <2>10, <2>13, <2>14
<1>7. CASE /\ failures > 0 /\ failures' = failures - 1
           /\ closers' = [closers EXCEPT ![c].todo = @ \ {x}, ![c].failed = @ \cup {x}]
           /\ UNCHANGED closed
  <2> DEFINE q == [closers[c] EXCEPT !.todo = @ \ {x}, !.failed = @ \cup {x}]
  <2>1. closers' = [closers EXCEPT ![c] = q]
    BY <1>7 DEF Shape
  <2>2. q.todo = closers[c].todo \ {x} /\ q.failed = closers[c].failed \cup {x}
        /\ q.entries = closers[c].entries /\ q.phase = "owner"
    BY <1>2
  <2>3. q \in Call
    BY <1>2, <1>4 DEF Call
  <2>4. closers'[c] = q /\ \A e \in Closer \ {c} : closers'[e] = closers[e]
    BY <2>1 DEF Shape
  <2>5. \A e \in Closer : Owner(e)' <=> e = c
    BY <1>5, <2>2, <2>4 DEF Owner
  <2>6. Held(c)' = Held(c)
    BY <1>3, <2>2, <2>4 DEF Held
  <2>7. failures' \in Nat
    BY <1>7 DEF Shape
  <2>8. Shape'
    BY <1>1, <1>7, <2>1, <2>3, <2>7 DEF Shape
  <2>9. OneOwner'
    BY <1>1, <1>5, <2>5 DEF OneOwner
  <2>10. q.todo \cap q.failed = {}
    BY <1>1, <2>2 DEF OpenObjects
  <2>11. OpenObjects'
    <3>1. \A y \in Held(c)' : y \in made /\ closed[y] = 0 /\ \E k \in ClientKey : q.entries[k] = y
      BY <1>1, <2>2, <2>6 DEF OpenObjects
    <3>2. ASSUME NEW e \in Closer, Owner(e)'
          PROVE  /\ \A y \in Held(e)' : y \in made' /\ closed'[y] = 0
                      /\ \E k \in ClientKey : closers'[e].entries[k] = y
                 /\ closers'[e].todo \cap closers'[e].failed = {}
      <4>1. e = c /\ closers'[e] = q
        BY <2>4, <2>5, <3>2
      <4> HIDE DEF q
      <4> QED BY <1>1, <1>7, <2>10, <3>1, <4>1
    <3> QED BY <1>1, <1>7, <3>2 DEF OpenObjects
  <2>12. Kept'
    BY <1>1, <1>5, <1>7, <2>5, <2>6 DEF Kept
  <2> QED BY <2>8, <2>9, <2>11, <2>12
<1> QED BY <1>3, <1>6, <1>7

\* The end of the shutdown: what failed to close is registered again.
LEMMA CloseEndRInv ==
  ASSUME RInv, NEW c \in Closer, CloseEnd(c)
  PROVE  RInv'
<1> USE DEF RInv
<1> DEFINE q == closers[c]
<1>1. Owner(c) /\ q.todo = {} /\ closing' = FALSE /\ UNCHANGED <<made, closed, failures>>
  BY DEF CloseEnd, Owner
<1>2. q \in [phase : {"owner"}, entries : [ClientKey -> Client \cup {None}],
             todo : SUBSET Client, failed : SUBSET Client]
  BY <1>1 DEF Shape, Call, Owner, Outside
<1>3. \A e \in Closer : closers'[e] = Outside \/ (e # c /\ closers'[e] = closers[e])
  BY DEF CloseEnd
<1>4. \A e \in Closer : ~Owner(e)'
  BY <1>1, <1>3 DEF Owner, Outside, OneOwner
<1>5. Held(c) = q.failed
  BY <1>1 DEF Held
<1>6. \A k \in ClientKey : clients[k] = None
  BY <1>1 DEF OneOwner
<1>7. \A k \in ClientKey : clients'[k] # None => clients'[k] \in q.failed
  BY <1>6 DEF CloseEnd
<1>8. \A x \in q.failed : \E k \in ClientKey : clients'[k] = x
  <2>1. SUFFICES ASSUME NEW x \in q.failed PROVE \E k \in ClientKey : clients'[k] = x
    OBVIOUS
  <2>2. PICK k \in ClientKey : q.entries[k] = x
    BY <1>1, <1>5, <2>1 DEF OpenObjects
  <2> QED BY <2>1, <2>2 DEF CloseEnd
<1>9. clients' \in [ClientKey -> Client \cup {None}]
  BY <1>2 DEF CloseEnd, Shape
<1>10. closers' \in [Closer -> Call]
  BY DEF CloseEnd, Shape, Call
<1>11. Shape'
  BY <1>1, <1>9, <1>10 DEF Shape
<1>12. OneOwner'
  BY <1>1, <1>4 DEF OneOwner
<1>13. OpenObjects'
  BY <1>1, <1>4, <1>5, <1>7 DEF OpenObjects
<1>14. Kept'
  <2>1. SUFFICES ASSUME NEW x \in made, closed[x] = 0 PROVE \E k \in ClientKey : clients'[k] = x
    BY <1>1 DEF Kept
  <2>2. x # None
    BY <2>1, ClientAssumption DEF Shape
  <2>3. PICK e \in Closer : Owner(e) /\ x \in Held(e)
    BY <1>6, <2>1, <2>2 DEF Kept
  <2>4. e = c
    BY <1>1, <2>3 DEF OneOwner
  <2> QED BY <1>5, <1>8, <2>3, <2>4
<1> QED BY <1>11, <1>12, <1>13, <1>14

LEMMA StutterRInv ==
  ASSUME RInv, UNCHANGED registryVars
  PROVE  RInv'
  BY DEF registryVars, RInv, Shape, OneOwner, OpenObjects, Kept, Owner, Held

\* The inductive invariant holds for every number of keys, clients and callers.
THEOREM Registry == RegistrySpec => []RInv
<1>1. RInv /\ [RegistryNext]_registryVars => RInv'
  BY GetRInv, CloseBeginRInv, CloseOneRInv, CloseEndRInv, StutterRInv DEF RegistryNext
<1> QED BY <1>1, InitRInv, PTL DEF RegistrySpec

\* The registry is closing exactly while one caller of close() owns the shutdown.
THEOREM RegistryTypes == RegistrySpec => []RegistryTypeOK
<1>1. RInv => RegistryTypeOK
  BY DEF RInv, Shape, OneOwner, Owner, RegistryTypeOK
<1> QED BY <1>1, Registry, PTL

\* "Own process-scoped clients and close each object at most once": every object that a
\* factory returned is closed at most once and none is forgotten.
THEOREM ClosedOnce == RegistrySpec => []EachClientClosedOnce
<1>1. RInv => EachClientClosedOnce
  <2>1. SUFFICES ASSUME RInv, NEW x \in made PROVE
          /\ closed[x] <= 1
          /\ closed[x] = 0 => x \in Registered \/ \E c \in Closer : Owner(c) /\ x \in Held(c)
    BY DEF EachClientClosedOnce, Owner, Held
  <2>2. x # None /\ x \in Client
    BY <2>1, ClientAssumption DEF RInv, Shape
  <2> QED BY <2>1, <2>2 DEF RInv, OpenObjects, Kept, Registered
<1> QED BY <1>1, Registry, PTL

(***************************************************************************)
(* The candidate listing.  A walk has shown distinct persons, none of them *)
(* behind its cursor, and every person listed all along was shown or is    *)
(* still behind the cursor: creation times never change, so persons that   *)
(* come, go or move do so in front of the cursor or behind it.             *)
(***************************************************************************)
PersonRow == {NoPerson} \cup [created : Stamp, shown_by : SUBSET Filter]
Cursor == {NoCursor} \cup (Nat \X PersonId)
WalkRow == [phase : {"walking", "finished"}, filter : Filter, cursor : Cursor,
            seen : Seq(PersonId), throughout : SUBSET PersonId]

Shown(x) == {x.seen[i] : i \in DOMAIN x.seen}

NoneLost(x) ==
  /\ \A p \in Shown(x) : person[p] # NoPerson /\ (x.phase = "walking" => ~After(x.cursor, p))
  /\ \A p \in x.throughout :
       /\ x.filter \in person[p].shown_by
       /\ p \in Shown(x) \/ (x.phase = "walking" /\ After(x.cursor, p))

WalkOK(x) ==
  /\ x \in WalkRow
  /\ \A i, j \in DOMAIN x.seen : i # j => x.seen[i] # x.seen[j]
  /\ NoneLost(x)

ListInv ==
  /\ person \in [PersonId -> PersonRow] /\ changes \in Nat
  /\ DOMAIN walk = Reader /\ \A w \in Reader : walk[w] = AtRest \/ WalkOK(walk[w])

LEMMA PersonTypes ==
  ASSUME ListInv, NEW p \in PersonId
  PROVE  /\ p \in Nat /\ person[p].created \in Nat /\ person[p].shown_by \in SUBSET Filter
         /\ person[p] # NoPerson => person[p].created \in Stamp
         /\ person[p].shown_by # {} => person[p] # NoPerson
<1>1. person[p] \in PersonRow
  BY DEF ListInv
<1>2. NoPerson.created = 0 /\ NoPerson.shown_by = {}
  BY DEF NoPerson
<1>3. CASE person[p] = NoPerson
  <2>1. person[p].created = 0 /\ person[p].shown_by = {}
    BY <1>2, <1>3
  <2>2. person[p].created \in Nat /\ person[p].shown_by \in SUBSET Filter
    BY <2>1
  <2>3. p \in Nat
    BY ListAssumption
  <2>4. (person[p] # NoPerson => person[p].created \in Stamp)
        /\ (person[p].shown_by # {} => person[p] # NoPerson)
    BY <1>3, <2>1
  <2> QED BY ONLY <2>2, <2>3, <2>4
<1>4. CASE person[p] \in [created : Stamp, shown_by : SUBSET Filter]
  <2>1. person[p].created \in Stamp /\ person[p].shown_by \in SUBSET Filter
    BY <1>4
  <2>2. p \in Nat /\ person[p].created \in Nat
    BY <2>1, ListAssumption
  <2>3. person[p].shown_by # {} => person[p] # NoPerson
    BY <1>2
  <2> QED BY ONLY <2>1, <2>2, <2>3
<1> QED BY <1>1, <1>3, <1>4 DEF PersonRow

\* ORDER BY created_at DESC, id DESC is a total order.
LEMMA TotalOrder ==
  ASSUME ListInv, NEW p \in PersonId, NEW q \in PersonId, NEW r \in PersonId
  PROVE  /\ ~Before(p, p)
         /\ Before(p, q) /\ Before(q, r) => Before(p, r)
         /\ p = q \/ Before(p, q) \/ Before(q, p)
  BY PersonTypes DEF Before

(***************************************************************************)
(* A page.                                                                 *)
(***************************************************************************)
Rank(R, p) == Cardinality({q \in R : Before(q, p)})

LEMMA RankFacts ==
  ASSUME ListInv, NEW R \in SUBSET PersonId, NEW p \in R
  PROVE  /\ IsFiniteSet(R) /\ Cardinality(R) \in Nat
         /\ Rank(R, p) \in Nat /\ Rank(R, p) < Cardinality(R)
         /\ \A q \in R : Before(q, p) => Rank(R, q) < Rank(R, p)
<1> DEFINE ahead(x) == {y \in R : Before(y, x)}
<1>1. IsFiniteSet(R) /\ Cardinality(R) \in Nat
  BY ListAssumption, FS_Subset, FS_CardinalityType
<1>2. ASSUME NEW S \in SUBSET R, NEW T \in SUBSET S, NEW x \in S, x \notin T
      PROVE  Cardinality(T) \in Nat /\ Cardinality(T) < Cardinality(S)
  <2>1. IsFiniteSet(S) /\ IsFiniteSet(T) /\ Cardinality(S) \in Nat /\ Cardinality(T) \in Nat
    BY <1>1, FS_Subset, FS_CardinalityType
  <2>2. Cardinality(T) <= Cardinality(S) /\ (Cardinality(S) = Cardinality(T) => S = T)
    BY <2>1, FS_Subset
  <2>3. S # T
    BY <1>2
  <2> QED BY <2>1, <2>2, <2>3
<1>3. Cardinality(ahead(p)) \in Nat /\ Cardinality(ahead(p)) < Cardinality(R)
  <2>1. ahead(p) \in SUBSET R /\ p \notin ahead(p) /\ R \in SUBSET R
    BY TotalOrder
  <2> HIDE DEF ahead
  <2> QED BY <1>2, <2>1
<1>4. ASSUME NEW q \in R, Before(q, p)
      PROVE  Cardinality(ahead(q)) < Cardinality(ahead(p))
  <2>1. ahead(p) \in SUBSET R /\ q \in ahead(p) /\ q \notin ahead(q)
    BY <1>4, TotalOrder
  <2>2. ahead(q) \in SUBSET ahead(p)
    BY <1>4, TotalOrder
  <2> HIDE DEF ahead
  <2> QED BY <1>2, <2>1, <2>2
<1> QED BY <1>1, <1>3, <1>4 DEF Rank

Sorted(s, n) == \A i, j \in 1 .. n : i < j => Before(s[i], s[j])

\* The first n of the rows, and a sorted enumeration of them.
LEMMA FirstRows ==
  ASSUME ListInv, NEW R \in SUBSET PersonId, NEW n \in Nat, n <= Cardinality(R),
         NEW first, first = {p \in R : Rank(R, p) < n}
  PROVE  /\ IsFiniteSet(first) /\ Cardinality(first) = n
         /\ \E s \in [1 .. n -> first] : Sorted(s, n)
<1>1. IsFiniteSet(R) /\ Cardinality(R) \in Nat
  BY ListAssumption, FS_Subset, FS_CardinalityType
<1>2. PICK m \in Nat : m = Cardinality(R)
  BY <1>1
<1>3. \A p \in R : Rank(R, p) \in 0 .. m - 1
  BY <1>2, RankFacts
<1>4. \A p, q \in R : Rank(R, p) = Rank(R, q) => p = q
  <2> SUFFICES ASSUME NEW p \in R, NEW q \in R, Rank(R, p) = Rank(R, q), p # q PROVE FALSE
    OBVIOUS
  <2>1. Before(p, q) \/ Before(q, p)
    BY TotalOrder
  <2> QED BY <2>1, RankFacts
<1>5. PICK r : r = [p \in R |-> Rank(R, p)]
  OBVIOUS
<1>6. r \in Injection(R, 0 .. m - 1)
  BY <1>3, <1>4, <1>5 DEF Injection, IsInjective
<1>7. r \in Surjection(R, 0 .. m - 1)
  <2>1. IsFiniteSet(0 .. m - 1) /\ Cardinality(0 .. m - 1) = m
    BY FS_Interval
  <2> QED BY <1>2, <1>6, <2>1, FS_Injection
<1>8. \A k \in 0 .. m - 1 : \E p \in R : Rank(R, p) = k
  BY <1>5, <1>7 DEF Surjection
<1>9. PICK s : s = [i \in 1 .. n |-> CHOOSE p \in R : Rank(R, p) = i - 1]
  OBVIOUS
<1>10. ASSUME NEW i \in 1 .. n PROVE s[i] \in R /\ Rank(R, s[i]) = i - 1
  <2>1. i - 1 \in 0 .. m - 1
    BY <1>2
  <2> QED BY <1>8, <1>9, <2>1
<1>11. s \in [1 .. n -> first]
  <2>1. \A i \in 1 .. n : s[i] \in first
    BY <1>10
  <2> QED BY <1>9, <2>1
<1>12. Sorted(s, n)
  <2> SUFFICES ASSUME NEW i \in 1 .. n, NEW j \in 1 .. n, i < j PROVE Before(s[i], s[j])
    BY DEF Sorted
  <2>1. PICK p \in R, q \in R : p = s[i] /\ q = s[j] /\ Rank(R, p) = i - 1 /\ Rank(R, q) = j - 1
    BY <1>10
  <2>2. p # q /\ ~Before(q, p)
    <3>1. Before(q, p) => Rank(R, q) < Rank(R, p)
      BY RankFacts
    <3> QED BY <2>1, <3>1
  <2> QED BY <2>1, <2>2, TotalOrder
<1>13. s \in Surjection(1 .. n, first) /\ s \in Injection(1 .. n, first)
  <2>1. ASSUME NEW p \in first PROVE \E i \in 1 .. n : s[i] = p
    <3>1. Rank(R, p) + 1 \in 1 .. n
      BY <1>3
    <3>2. PICK i \in 1 .. n : i = Rank(R, p) + 1
      BY <3>1
    <3>3. s[i] \in R /\ Rank(R, s[i]) = Rank(R, p)
      BY <1>3, <1>10, <3>2
    <3> QED BY <1>4, <3>3
  <2>2. ASSUME NEW i \in 1 .. n, NEW j \in 1 .. n, s[i] = s[j] PROVE i = j
    BY <1>10, <2>2
  <2> QED BY <1>11, <2>1, <2>2 DEF Surjection, Injection, IsInjective
<1>14. IsFiniteSet(1 .. n) /\ Cardinality(1 .. n) = n
  BY FS_Interval
<1> QED BY <1>11, <1>12, <1>13, <1>14, FS_Surjection

Rest(f, cursor) == {p \in Listed(f) : After(cursor, p)}

RowsOK(rows, R) ==
  /\ rows \in Seq(PersonId) /\ Len(rows) \in 0 .. PageSize + 1
  /\ Sorted(rows, Len(rows))
  /\ \A i \in 1 .. Len(rows) : rows[i] \in R
  /\ \A p \in R : \/ \E i \in 1 .. Len(rows) : rows[i] = p
                  \/ /\ Len(rows) = PageSize + 1
                     /\ \A i \in 1 .. Len(rows) : Before(rows[i], p)

\* The rows of a page: in order, all of them behind the cursor, and if any is missing
\* there are more than fit and every missing one comes later.
LEMMA PageRows ==
  ASSUME ListInv, NEW f, NEW cursor
  PROVE  RowsOK(Rows(f, cursor), Rest(f, cursor))
<1> DEFINE rows == Rows(f, cursor)
           R == Rest(f, cursor)
<1>1. R \in SUBSET PersonId
  BY DEF Listed, Rest
<1>2. IsFiniteSet(R) /\ Cardinality(R) \in Nat
  BY <1>1, ListAssumption, FS_Subset, FS_CardinalityType
<1>3. PICK n \in Nat : /\ n = IF Cardinality(R) > PageSize THEN PageSize + 1 ELSE Cardinality(R)
                       /\ n <= Cardinality(R) /\ n <= PageSize + 1
                       /\ n < Cardinality(R) => n = PageSize + 1
  <2>1. PICK c \in Nat, z \in Nat : c = Cardinality(R) /\ z = PageSize
    BY <1>2, ListAssumption
  <2>2. PICK n : n = IF c > z THEN z + 1 ELSE c
    OBVIOUS
  <2>3. n \in Nat /\ n <= c /\ n <= z + 1 /\ (n < c => n = z + 1)
    <3>1. CASE c > z
      BY <2>2, <3>1
    <3>2. CASE ~(c > z)
      BY <2>2, <3>2
    <3> QED BY <3>1, <3>2
  <2> QED BY <2>1, <2>2, <2>3
<1>4. PICK first : first = {p \in R : Rank(R, p) < n}
  OBVIOUS
<1>5. rows = CHOOSE s \in [1 .. n -> first] : Sorted(s, n)
  BY <1>3, <1>4 DEF Rows, Rest, Rank, Sorted
<1> HIDE DEF rows, R
<1>6. IsFiniteSet(first) /\ Cardinality(first) = n /\ \E s \in [1 .. n -> first] : Sorted(s, n)
  <2>1. n <= Cardinality(R)
    BY <1>3
  <2> QED BY ONLY ListInv, <1>1, n \in Nat, <2>1, <1>4, FirstRows
<1>7. rows \in [1 .. n -> first] /\ Sorted(rows, n)
  BY <1>5, <1>6
<1>8. rows \in Seq(PersonId) /\ Len(rows) = n
  <2>1. rows \in [1 .. n -> PersonId]
    BY <1>1, <1>4, <1>7
  <2> QED BY <2>1
<1>9. rows \in Surjection(1 .. n, first)
  <2>1. rows \in Injection(1 .. n, first)
    <3>1. ASSUME NEW i \in 1 .. n, NEW j \in 1 .. n, rows[i] = rows[j], i # j PROVE FALSE
      <4>1. Before(rows[i], rows[j]) \/ Before(rows[j], rows[i])
        BY <1>7, <3>1 DEF Sorted
      <4>2. rows[i] \in PersonId
        BY <1>1, <1>4, <1>7
      <4> QED BY <3>1, <4>1, <4>2, TotalOrder
    <3> QED BY <1>7, <3>1 DEF Injection, IsInjective
  <2>2. IsFiniteSet(1 .. n) /\ Cardinality(1 .. n) = n
    BY FS_Interval
  <2> QED BY <1>6, <2>1, <2>2, FS_Injection
<1>10. ASSUME NEW p \in R, \A i \in 1 .. n : rows[i] # p
       PROVE  n = PageSize + 1 /\ \A i \in 1 .. n : Before(rows[i], p)
  <2>1. p \notin first
    BY <1>9, <1>10 DEF Surjection
  <2>2. Rank(R, p) \in Nat /\ Rank(R, p) < Cardinality(R) /\ ~(Rank(R, p) < n)
    BY <1>1, <1>4, <2>1, RankFacts
  <2>3. n = PageSize + 1
    BY <1>2, <1>3, <2>2
  <2>4. ASSUME NEW i \in 1 .. n PROVE Before(rows[i], p)
    <3>1. PICK q \in R : q = rows[i] /\ Rank(R, q) < n
      BY <1>4, <1>7
    <3>2. Before(p, q) => Rank(R, p) < Rank(R, q)
      BY <1>1, RankFacts
    <3>3. Rank(R, q) \in Nat
      BY <1>1, RankFacts
    <3>4. ~Before(p, q) /\ p # q
      BY <2>2, <3>1, <3>2, <3>3
    <3> QED BY <1>1, <3>1, <3>4, TotalOrder
  <2> QED BY <2>3, <2>4
<1>11. \A i \in 1 .. n : rows[i] \in R
  BY <1>4, <1>7
<1>12. n \in 0 .. PageSize + 1
  BY <1>3, ListAssumption
<1>13. RowsOK(rows, R)
  BY <1>7, <1>8, <1>10, <1>11, <1>12 DEF RowsOK
<1> QED BY <1>13 DEF rows, R

(***************************************************************************)
(* The steps.                                                              *)
(***************************************************************************)
\* What lies behind a row of a page lies behind the cursor the page continued.
LEMMA CursorMoves ==
  ASSUME ListInv, NEW cursor \in Cursor, NEW end \in PersonId, NEW p \in PersonId
  PROVE  /\ <<person[end].created, end>> \in Cursor \ {NoCursor}
         /\ After(<<person[end].created, end>>, p) <=> Before(end, p)
         /\ After(cursor, end) /\ Before(end, p) => After(cursor, p)
<1>1. PICK c \in Nat, d \in Nat, e \in Nat, q \in Nat :
        c = person[end].created /\ d = person[p].created /\ e = end /\ q = p
  BY PersonTypes
<1>2. PICK k : k = <<c, end>>
  OBVIOUS
<1>3. k \in Nat \X PersonId /\ k[1] = c /\ k[2] = end /\ k # <<>>
  BY <1>2
<1>4. k \in Cursor \ {NoCursor}
  BY <1>3 DEF Cursor, NoCursor
<1>5. After(k, p) <=> (d < c \/ (d = c /\ q < e))
  BY <1>1, <1>3 DEF After, NoCursor
<1>6. Before(end, p) <=> (c > d \/ (c = d /\ e > q))
  BY <1>1 DEF Before
<1>7. (d < c \/ (d = c /\ q < e)) <=> (c > d \/ (c = d /\ e > q))
  OBVIOUS
<1>8. ASSUME After(cursor, end), Before(end, p) PROVE After(cursor, p)
  <2>1. CASE cursor = NoCursor
    BY <2>1 DEF After
  <2>2. CASE cursor \in Nat \X PersonId
    <3>1. PICK a \in Nat, b \in PersonId : cursor = <<a, b>>
      BY <2>2
    <3>2. cursor # NoCursor /\ cursor[1] = a /\ cursor[2] = b /\ b \in Nat
      BY <3>1, ListAssumption DEF NoCursor
    <3>3. c < cursor[1] \/ (c = cursor[1] /\ e < cursor[2])
      BY <1>1, <1>8, <3>2 DEF After
    <3>4. d < cursor[1] \/ (d = cursor[1] /\ q < cursor[2])
      BY <1>6, <1>8, <3>2, <3>3
    <3> QED BY <1>1, <3>4 DEF After
  <2> QED BY <2>1, <2>2 DEF Cursor
<1> QED BY <1>1, <1>2, <1>4, <1>5, <1>6, <1>7, <1>8

\* The rows read for a page of a walk, m of which it shows.
PageOf(x, R, rows, n, m) ==
  /\ x \in WalkRow /\ WalkOK(x) /\ x.phase = "walking"
  /\ \A p \in PersonId : p \in R <=> x.filter \in person[p].shown_by /\ After(x.cursor, p)
  /\ m <= n /\ Sorted(rows, n) /\ \A i \in 1 .. n : rows[i] \in R

Grows(x, y, rows, k, m) ==
  /\ DOMAIN x.seen = 1 .. k /\ DOMAIN y.seen = 1 .. k + m
  /\ \A i \in 1 .. k : y.seen[i] = x.seen[i]
  /\ \A i \in 1 .. k + m : i > k => i - k \in 1 .. m /\ y.seen[i] = rows[i - k]

ShowsMore(x, y, R, rows, m) ==
  /\ \A i, j \in DOMAIN y.seen : i # j => y.seen[i] # y.seen[j]
  /\ Shown(y) = Shown(x) \cup {rows[i] : i \in 1 .. m}
  /\ \A p \in Shown(x) : p \in PersonId /\ p \notin R

\* What a page shows is new to the walk.
LEMMA PageShown ==
  ASSUME ListInv, NEW x, NEW R \in SUBSET PersonId, NEW rows, NEW n \in Nat, NEW m \in Nat,
         PageOf(x, R, rows, n, m), NEW k \in Nat, NEW y, Grows(x, y, rows, k, m)
  PROVE  ShowsMore(x, y, R, rows, m)
<1> USE DEF PageOf, Grows
<1>1. \A i \in 1 .. m : rows[i] \in R
  OBVIOUS
<1>2. \A i \in 1 .. m, j \in 1 .. m : i # j => rows[i] # rows[j]
  <2> SUFFICES ASSUME NEW i \in 1 .. m, NEW j \in 1 .. m, i # j, rows[i] = rows[j] PROVE FALSE
    OBVIOUS
  <2>1. Before(rows[i], rows[j]) \/ Before(rows[j], rows[i])
    BY DEF Sorted
  <2> QED BY <1>1, <2>1, TotalOrder
<1>3. \A p \in Shown(x) : p \in PersonId /\ p \notin R
  <2>1. \A p \in Shown(x) : ~After(x.cursor, p)
    BY DEF WalkOK, NoneLost
  <2>2. \A p \in Shown(x) : p \in PersonId
    BY DEF Shown, WalkRow
  <2> QED BY <2>1, <2>2
<1>4. ASSUME NEW i \in DOMAIN y.seen, NEW j \in DOMAIN y.seen, i # j, y.seen[i] = y.seen[j]
       PROVE  FALSE
  <2>1. i \in 1 .. k + m /\ j \in 1 .. k + m
    OBVIOUS
  <2>2. CASE i <= k /\ j <= k
    <3>1. i \in DOMAIN x.seen /\ j \in DOMAIN x.seen /\ x.seen[i] = x.seen[j]
      BY <1>4, <2>1, <2>2
    <3> QED BY <1>4, <3>1 DEF WalkOK
  <2>3. CASE i > k /\ j > k
    BY <1>2, <1>4, <2>1, <2>3
  <2>4. CASE i <= k /\ j > k
    <3>1. y.seen[i] \in Shown(x) /\ y.seen[j] \in R
      BY <1>1, <2>1, <2>4 DEF Shown
    <3> QED BY <1>3, <1>4, <3>1
  <2>5. CASE i > k /\ j <= k
    <3>1. y.seen[j] \in Shown(x) /\ y.seen[i] \in R
      BY <1>1, <2>1, <2>5, SMTT(30) DEF Shown
    <3> QED BY <1>3, <1>4, <3>1
  <2> QED BY <2>1, <2>2, <2>3, <2>4, <2>5
<1>5. Shown(y) = Shown(x) \cup {rows[i] : i \in 1 .. m}
  <2>1. ASSUME NEW i \in DOMAIN y.seen PROVE y.seen[i] \in Shown(x) \cup {rows[j] : j \in 1 .. m}
    <3>1. CASE i <= k
      BY <3>1 DEF Shown
    <3>2. CASE i > k
      BY <3>2
    <3> QED BY <3>1, <3>2
  <2>2. ASSUME NEW i \in DOMAIN x.seen PROVE x.seen[i] \in Shown(y)
    <3>1. i \in DOMAIN y.seen /\ y.seen[i] = x.seen[i]
      OBVIOUS
    <3> QED BY <3>1 DEF Shown
  <2>3. ASSUME NEW j \in 1 .. m PROVE rows[j] \in Shown(y)
    <3>1. k + j \in 1 .. k + m /\ k + j > k /\ (k + j) - k = j
      OBVIOUS
    <3>2. y.seen[k + j] = rows[j] /\ k + j \in DOMAIN y.seen
      BY <3>1
    <3> QED BY <3>2 DEF Shown
  <2>4. \A p \in Shown(y) : p \in Shown(x) \cup {rows[i] : i \in 1 .. m}
    BY <2>1 DEF Shown
  <2>5. \A p \in Shown(x) : p \in Shown(y)
    <3>1. \A p \in Shown(x) : \E i \in DOMAIN x.seen : p = x.seen[i]
      BY DEF Shown
    <3> QED BY <2>2, <3>1
  <2> QED BY <2>3, <2>4, <2>5
<1> QED BY <1>3, <1>4, <1>5 DEF ShowsMore

\* The rows that follow, and the cursor the page leaves.
Continues(x, y, R, rows, n, m, more, end) ==
  /\ more => m >= 1 /\ n = m + 1
  /\ ~more => m = n
  /\ \A p \in R : \/ \E i \in 1 .. n : rows[i] = p
                  \/ more /\ \A i \in 1 .. n : Before(rows[i], p)
  /\ y.filter = x.filter /\ y.throughout = x.throughout
  /\ more => /\ end = rows[m] /\ y.phase = "walking"
             /\ y.cursor = <<person[end].created, end>>
  /\ ~more => y.phase = "finished"

\* What is still to come of the walk lies in order behind the last row of the page.
LEMMA PageLeaves ==
  ASSUME ListInv, NEW x, NEW R \in SUBSET PersonId, NEW rows, NEW n \in Nat, NEW m \in Nat,
         PageOf(x, R, rows, n, m), NEW y, ShowsMore(x, y, R, rows, m),
         NEW more \in BOOLEAN, NEW end, Continues(x, y, R, rows, n, m, more, end)
  PROVE  NoneLost(y)
<1> USE DEF PageOf, ShowsMore, Continues
<1>1. more => end \in PersonId /\ end \in R /\ m \in 1 .. n
  OBVIOUS
<1>2. x.cursor \in Cursor
  BY DEF WalkRow
<1>3. ASSUME more, NEW p \in PersonId
      PROVE  /\ After(y.cursor, p) <=> Before(end, p)
             /\ Before(end, p) => After(x.cursor, p)
  <2>1. After(x.cursor, end)
    BY <1>1, <1>3
  <2>2. y.cursor = <<person[end].created, end>> /\ end \in PersonId
    BY <1>1, <1>3
  <2> QED BY ONLY ListInv, p \in PersonId, <1>2, <2>1, <2>2, CursorMoves
<1>4. ASSUME NEW p \in Shown(y)
      PROVE  person[p] # NoPerson /\ (more => ~After(y.cursor, p))
  <2>1. CASE p \in Shown(x)
    <3>1. person[p] # NoPerson /\ ~After(x.cursor, p) /\ p \in PersonId
      BY <2>1 DEF WalkOK, NoneLost
    <3> QED BY <1>3, <3>1
  <2>2. ASSUME NEW i \in 1 .. m, p = rows[i]
        PROVE  person[p] # NoPerson /\ (more => ~After(y.cursor, p))
    <3>1. p \in R /\ p \in PersonId /\ x.filter \in person[p].shown_by
      BY <2>2
    <3>2. person[p] # NoPerson
      BY <3>1 DEF NoPerson
    <3>3. more => p = end \/ Before(p, end)
      BY <1>1, <2>2 DEF Sorted
    <3> QED BY <1>1, <1>3, <3>1, <3>2, <3>3, TotalOrder
  <2> QED BY <2>1, <2>2
<1>5. ASSUME NEW p \in y.throughout
      PROVE  y.filter \in person[p].shown_by /\ (p \in Shown(y) \/ (more /\ After(y.cursor, p)))
  <2>1. x.filter \in person[p].shown_by /\ (p \in Shown(x) \/ After(x.cursor, p)) /\ p \in PersonId
    BY DEF WalkOK, NoneLost, WalkRow
  <2>2. CASE p \notin Shown(x) /\ \A i \in 1 .. m : rows[i] # p
    <3>1. p \in R
      BY <2>1, <2>2
    <3>2. more
      BY <2>2, <3>1
    <3>3. Before(end, p)
      <4>1. CASE \A i \in 1 .. n : Before(rows[i], p)
        BY <1>1, <3>2, <4>1
      <4>2. ASSUME NEW i \in 1 .. n, rows[i] = p PROVE Before(end, p)
        <5>1. m < i /\ m \in 1 .. n
          BY <1>1, <2>2, <3>2, <4>2
        <5> QED BY <3>2, <4>2, <5>1 DEF Sorted
      <4> QED BY <3>1, <4>1, <4>2
    <3> QED BY <1>3, <2>1, <3>2, <3>3
  <2> QED BY <2>1, <2>2
<1> QED BY <1>4, <1>5 DEF NoneLost

\* A sequence with another behind it.
LEMMA Appended ==
  ASSUME NEW S, NEW s \in Seq(S), NEW t \in Seq(S)
  PROVE  /\ Len(s) \in Nat /\ Len(t) \in Nat /\ s \o t \in Seq(S)
         /\ DOMAIN s = 1 .. Len(s) /\ DOMAIN (s \o t) = 1 .. Len(s) + Len(t)
         /\ \A i \in 1 .. Len(s) : (s \o t)[i] = s[i]
         /\ \A i \in 1 .. Len(s) + Len(t) :
              i > Len(s) => i - Len(s) \in 1 .. Len(t) /\ (s \o t)[i] = t[i - Len(s)]
<1>1. PICK k \in Nat, m \in Nat : k = Len(s) /\ m = Len(t)
  OBVIOUS
<1>2. DOMAIN s = 1 .. k /\ s \o t \in Seq(S) /\ Len(s \o t) = k + m
  BY <1>1
<1>3. DOMAIN (s \o t) = 1 .. k + m
  BY <1>2
<1>4. \A i \in 1 .. k : (s \o t)[i] = s[i]
  BY <1>1
<1>5. \A i \in 1 .. k + m : i > k => i - k \in 1 .. m /\ (s \o t)[i] = t[i - k]
  BY <1>1
<1> QED BY <1>1, <1>2, <1>3, <1>4, <1>5

\* The rows a page shows and whether there is another.
LEMMA PageItems ==
  ASSUME NEW rows \in Seq(PersonId), Len(rows) \in 0 .. PageSize + 1,
         NEW more \in BOOLEAN, more <=> Len(rows) > PageSize,
         NEW items, items = SubSeq(rows, 1, IF more THEN PageSize ELSE Len(rows))
  PROVE  /\ Len(rows) \in Nat /\ Len(items) \in Nat /\ Len(items) <= Len(rows)
         /\ items \in Seq(PersonId) /\ \A i \in 1 .. Len(items) : items[i] = rows[i]
         /\ more => Len(items) >= 1 /\ Len(rows) = Len(items) + 1
         /\ Len(rows) = PageSize + 1 => more
         /\ ~more => Len(items) = Len(rows)
<1>1. PICK n \in Nat, z \in Nat : n = Len(rows) /\ z = PageSize /\ z >= 1 /\ n <= z + 1
  BY ListAssumption
<1>2. PICK m : m = IF more THEN z ELSE n
  OBVIOUS
<1>3. /\ m \in Nat /\ m <= n
      /\ (more => m = z /\ m >= 1 /\ n = m + 1) /\ (~more => m = n /\ n # z + 1)
  BY <1>1, <1>2
<1>4. items = SubSeq(rows, 1, m)
  BY <1>1, <1>2
<1>5. items \in Seq(PersonId) /\ Len(items) = m /\ \A i \in 1 .. m : items[i] = rows[i]
  BY <1>1, <1>3, <1>4
<1> QED BY <1>1, <1>3, <1>5

\* A walk that shows one more page.
LEMMA OnePage ==
  ASSUME ListInv, NEW x, WalkOK(x), x.phase = "walking",
         NEW rows, rows = Rows(x.filter, x.cursor),
         NEW more \in BOOLEAN, more <=> Len(rows) > PageSize,
         NEW items, items = SubSeq(rows, 1, IF more THEN PageSize ELSE Len(rows)),
         NEW end, end = items[Len(items)],
         NEW cursor, NEW phase,
         more => cursor = <<person[end].created, end>> /\ phase = "walking",
         ~more => cursor = x.cursor /\ phase = "finished",
         NEW y, y = [phase |-> phase, filter |-> x.filter, cursor |-> cursor,
                     seen |-> x.seen \o items, throughout |-> x.throughout]
  PROVE  WalkOK(y)
<1>1. PICK R : R = Rest(x.filter, x.cursor)
  OBVIOUS
<1>2. x \in WalkRow
  BY DEF WalkOK
<1>3. RowsOK(rows, R)
  <2>1. RowsOK(Rows(x.filter, x.cursor), Rest(x.filter, x.cursor))
    BY ONLY ListInv, PageRows
  <2> QED BY <1>1, <2>1
<1>4. PICK n \in Nat, m \in Nat : n = Len(rows) /\ m = Len(items)
  <2>1. rows \in Seq(PersonId) /\ Len(rows) \in 0 .. PageSize + 1
    BY <1>3 DEF RowsOK
  <2> QED BY <2>1, PageItems
<1>5. /\ m <= n /\ items \in Seq(PersonId) /\ \A i \in 1 .. m : items[i] = rows[i]
      /\ more => m >= 1 /\ n = m + 1
      /\ n = PageSize + 1 => more
      /\ ~more => m = n
  <2>1. rows \in Seq(PersonId) /\ Len(rows) \in 0 .. PageSize + 1
    BY <1>3 DEF RowsOK
  <2>2. /\ more \in BOOLEAN /\ (more <=> Len(rows) > PageSize)
        /\ items = SubSeq(rows, 1, IF more THEN PageSize ELSE Len(rows))
    OBVIOUS
  <2>3. /\ Len(items) <= Len(rows) /\ items \in Seq(PersonId)
        /\ \A i \in 1 .. Len(items) : items[i] = rows[i]
        /\ more => Len(items) >= 1 /\ Len(rows) = Len(items) + 1
        /\ Len(rows) = PageSize + 1 => more
        /\ ~more => Len(items) = Len(rows)
    BY ONLY <2>1, <2>2, PageItems, ZenonT(60)
  <2> QED BY ONLY <1>4, <2>3
<1>6. /\ Sorted(rows, n) /\ \A i \in 1 .. n : rows[i] \in R
      /\ \A p \in R : \/ \E i \in 1 .. n : rows[i] = p
                      \/ more /\ \A i \in 1 .. n : Before(rows[i], p)
  BY <1>3, <1>4, <1>5 DEF RowsOK
<1>7. /\ y.seen = x.seen \o items /\ y.filter = x.filter /\ y.throughout = x.throughout
      /\ more => y.phase = "walking" /\ y.cursor = <<person[end].created, end>>
      /\ ~more => y.phase = "finished" /\ y.cursor = x.cursor
  BY <1>2 DEF WalkRow
<1>8. more => end = rows[m] /\ end \in PersonId
  <2>1. end = items[m]
    BY <1>4, <1>5
  <2>2. m >= 1 => m \in 1 .. m
    OBVIOUS
  <2>3. m >= 1 => items[m] \in PersonId
    BY <1>4, <1>5
  <2> QED BY <1>4, <1>5, <2>1, <2>2, <2>3
<1>9. R \in SUBSET PersonId
      /\ \A p \in PersonId : p \in R <=> x.filter \in person[p].shown_by /\ After(x.cursor, p)
  BY ONLY <1>1 DEF Rest, Listed
<1>10. x.seen \in Seq(PersonId) /\ x.cursor \in Cursor
  BY ONLY <1>2 DEF WalkRow
<1>11. PICK k \in Nat : Grows(x, y, rows, k, m) /\ y.seen \in Seq(PersonId)
  <2>1. items \in Seq(PersonId) /\ m = Len(items) /\ \A i \in 1 .. m : items[i] = rows[i]
    BY <1>4, <1>5
  <2>2. y.seen = x.seen \o items
    BY <1>7
  <2>3. PICK s \in Seq(PersonId) : s = x.seen
    BY ONLY <1>10
  <2>4. /\ Len(s) \in Nat /\ Len(items) \in Nat /\ s \o items \in Seq(PersonId)
        /\ DOMAIN s = 1 .. Len(s) /\ DOMAIN (s \o items) = 1 .. Len(s) + Len(items)
        /\ \A i \in 1 .. Len(s) : (s \o items)[i] = s[i]
        /\ \A i \in 1 .. Len(s) + Len(items) :
             i > Len(s) => i - Len(s) \in 1 .. Len(items) /\ (s \o items)[i] = items[i - Len(s)]
    BY <2>1, Appended
  <2>5. PICK k \in Nat : k = Len(s)
    BY <2>4
  <2>6. DOMAIN x.seen = 1 .. k /\ DOMAIN y.seen = 1 .. k + m /\ y.seen \in Seq(PersonId)
    BY ONLY <2>1, <2>2, <2>3, <2>4, <2>5
  <2>7. \A i \in 1 .. k : y.seen[i] = x.seen[i]
    BY ONLY <2>2, <2>3, <2>4, <2>5
  <2>8. \A i \in 1 .. k + m : i > k => i - k \in 1 .. m /\ y.seen[i] = rows[i - k]
    BY ONLY <2>1, <2>2, <2>3, <2>4, <2>5
  <2> QED BY ONLY k \in Nat, <2>6, <2>7, <2>8 DEF Grows
<1>12. y \in WalkRow
  <2>1. y.cursor \in Cursor
    <3>1. more => <<person[end].created, end>> \in Cursor
      BY ONLY ListInv, <1>8, <1>10, CursorMoves
    <3> QED BY ONLY <1>7, <1>10, <3>1
  <2>2. y.phase \in {"walking", "finished"}
    BY ONLY <1>7
  <2>3. y.seen \in Seq(PersonId)
    BY <1>11
  <2> QED BY <1>2, <2>1, <2>2, <2>3 DEF WalkRow
<1>13. PageOf(x, R, rows, n, m)
  BY <1>2, <1>5, <1>9, <1>6 DEF PageOf
<1>14. ShowsMore(x, y, R, rows, m)
  BY ONLY ListInv, n \in Nat, m \in Nat, k \in Nat, <1>9, <1>11, <1>13, PageShown
<1>15. Continues(x, y, R, rows, n, m, more, end)
  BY <1>5, <1>7, <1>8, <1>6 DEF Continues
<1>16. NoneLost(y)
  BY ONLY ListInv, n \in Nat, m \in Nat, more \in BOOLEAN, <1>9, <1>13, <1>14, <1>15, PageLeaves
<1> QED BY ONLY <1>12, <1>14, <1>16 DEF WalkOK, ShowsMore

\* Changes to one candidate leave a walk as it should be.
LEMMA ChangedRow ==
  ASSUME ListInv, NEW x, WalkOK(x), NEW p \in PersonId,
         NEW to \in [created : Stamp, shown_by : SUBSET Filter],
         person[p] # NoPerson => to.created = person[p].created,
         person' = [person EXCEPT ![p] = to],
         NEW y, y = IF x.filter \in to.shown_by THEN x
                    ELSE [x EXCEPT !.throughout = @ \ {p}]
  PROVE  WalkOK(y)'
<1>1. to # NoPerson
  <2>1. to.created # 0 /\ NoPerson.created = 0
    BY ListAssumption DEF NoPerson
  <2> QED BY <2>1
<1>2. ASSUME NEW q \in PersonId, person[q] # NoPerson
      PROVE  person'[q] # NoPerson /\ person'[q].created = person[q].created
  BY <1>1, <1>2 DEF ListInv
<1>3. ASSUME NEW q \in PersonId, person[q] # NoPerson, NEW c
      PROVE  After(c, q)' <=> After(c, q)
  BY <1>2, <1>3 DEF After
<1>4. x \in WalkRow
  BY DEF WalkOK
<1>5. /\ y \in WalkRow /\ y.phase = x.phase /\ y.filter = x.filter /\ y.cursor = x.cursor
      /\ y.seen = x.seen /\ y.throughout \subseteq x.throughout
      /\ p \in y.throughout => y.filter \in to.shown_by
  <2>1. CASE x.filter \in to.shown_by
    BY <1>4, <2>1
  <2>2. CASE x.filter \notin to.shown_by
    BY <1>4, <2>2 DEF WalkRow
  <2> QED BY <2>1, <2>2
<1>6. Shown(x) \subseteq PersonId /\ x.throughout \subseteq PersonId
  BY <1>4 DEF Shown, WalkRow
<1>7. Shown(y) = Shown(x)
  BY <1>5 DEF Shown
<1>8. ASSUME NEW q \in Shown(y)
      PROVE  person'[q] # NoPerson /\ (y.phase = "walking" => ~After(y.cursor, q)')
  <2>1. q \in PersonId /\ person[q] # NoPerson /\ (x.phase = "walking" => ~After(x.cursor, q))
    BY <1>6, <1>7 DEF WalkOK, NoneLost
  <2> QED BY <1>2, <1>3, <1>5, <2>1
<1>9. ASSUME NEW q \in y.throughout
      PROVE  /\ y.filter \in person'[q].shown_by
             /\ q \in Shown(y) \/ (y.phase = "walking" /\ After(y.cursor, q)')
  <2>1. /\ q \in PersonId /\ x.filter \in person[q].shown_by
        /\ q \in Shown(x) \/ (x.phase = "walking" /\ After(x.cursor, q))
    BY <1>5, <1>6 DEF WalkOK, NoneLost
  <2>2. person[q] # NoPerson
    BY <2>1 DEF NoPerson
  <2>3. y.filter \in person'[q].shown_by
    <3>1. CASE q = p
      BY <1>5, <1>9, <2>1, <3>1 DEF ListInv
    <3>2. CASE q # p
      BY <1>5, <2>1, <3>2 DEF ListInv
    <3> QED BY <3>1, <3>2
  <2> QED BY <1>3, <1>5, <1>7, <2>1, <2>2, <2>3
<1>10. \A i, j \in DOMAIN y.seen : i # j => y.seen[i] # y.seen[j]
  BY <1>5 DEF WalkOK
<1> QED BY <1>5, <1>8, <1>9, <1>10 DEF WalkOK, NoneLost, Shown, After, WalkRow, Cursor

\* Every step of the listing keeps its invariant.
LEMMA ListSteps == ListInv /\ [ListNext]_listVars => ListInv'
<1> SUFFICES ASSUME ListInv, [ListNext]_listVars PROVE ListInv'
  OBVIOUS
<1>1. ASSUME NEW w \in Reader, NEW f \in Filter, Begin(w, f) PROVE ListInv'
  <2>1. PICK x : x = [phase |-> "walking", filter |-> f, cursor |-> NoCursor,
                      seen |-> <<>>, throughout |-> Listed(f)]
    OBVIOUS
  <2>2. x \in WalkRow /\ Shown(x) = {}
    BY <2>1 DEF WalkRow, Cursor, Listed, Shown
  <2>3. \A p \in x.throughout : x.filter \in person[p].shown_by /\ After(x.cursor, p)
    BY <2>1 DEF Listed, After
  <2>4. WalkOK(x)
    BY <2>1, <2>2, <2>3 DEF WalkOK, NoneLost
  <2>5. person' = person /\ changes' = changes /\ walk' = [walk EXCEPT ![w] = x]
    BY <1>1, <2>1 DEF Begin
  <2>6. \A y : WalkOK(y)' <=> WalkOK(y)
    BY <2>5 DEF WalkOK, NoneLost, After, WalkRow, Cursor, Shown
  <2> HIDE DEF WalkOK, NoneLost
  <2> QED BY <2>4, <2>5, <2>6 DEF ListInv, PersonRow
<1>2. ASSUME NEW w \in Reader, Page(w) PROVE ListInv'
  <2>1. PICK x : x = walk[w]
    OBVIOUS
  <2>2. WalkOK(x) /\ x.phase = "walking"
    <3>1. x.phase = "walking" /\ AtRest.phase # "walking"
      BY <1>2, <2>1 DEF Page, AtRest
    <3> QED BY <2>1, <3>1 DEF ListInv
  <2>3. PICK rows : rows = Rows(x.filter, x.cursor)
    OBVIOUS
  <2>4. PICK more \in BOOLEAN : more <=> Len(rows) > PageSize
    <3>1. CASE Len(rows) > PageSize
      BY <3>1
    <3>2. CASE ~(Len(rows) > PageSize)
      BY <3>2
    <3> QED BY <3>1, <3>2
  <2>5. PICK items : items = SubSeq(rows, 1, IF more THEN PageSize ELSE Len(rows))
    OBVIOUS
  <2>6. PICK end : end = items[Len(items)]
    OBVIOUS
  <2>7. PICK cursor, phase :
          /\ cursor = IF more THEN <<person[end].created, end>> ELSE x.cursor
          /\ phase = IF more THEN "walking" ELSE "finished"
    OBVIOUS
  <2>8. /\ more => cursor = <<person[end].created, end>> /\ phase = "walking"
        /\ ~more => cursor = x.cursor /\ phase = "finished"
    BY <2>7
  <2>9. PICK shown : shown = x.seen \o items
    OBVIOUS
  <2>10. PICK y : y = [x EXCEPT !.seen = shown, !.cursor = cursor, !.phase = phase]
    OBVIOUS
  <2>11. y = [phase |-> phase, filter |-> x.filter, cursor |-> cursor,
              seen |-> x.seen \o items, throughout |-> x.throughout]
    <3>1. x \in WalkRow
      BY <2>2 DEF WalkOK
    <3>2. y = [phase |-> phase, filter |-> x.filter, cursor |-> cursor,
               seen |-> shown, throughout |-> x.throughout]
      BY ONLY <2>10, <3>1 DEF WalkRow
    <3> QED BY ONLY <2>9, <3>2
  <2>12. WalkOK(y)
    BY ONLY ListInv, <2>2, <2>3, more \in BOOLEAN, <2>4, <2>5, <2>6, <2>8, <2>11, OnePage
  <2>13. person' = person /\ changes' = changes /\ walk' = [walk EXCEPT ![w] = y]
    BY <1>2, <2>1, <2>3, <2>4, <2>5, <2>6, <2>7, <2>9, <2>10 DEF Page
  <2>14. \A v : WalkOK(v)' <=> WalkOK(v)
    BY <2>13 DEF WalkOK, NoneLost, After, WalkRow, Cursor, Shown
  <2> QED BY <2>12, <2>13, <2>14 DEF ListInv, PersonRow
<1>3. ASSUME NEW p \in PersonId, NEW to \in [created : Stamp, shown_by : SUBSET Filter],
             Change(p, to)
      PROVE  ListInv'
  <2>1. /\ person' = [person EXCEPT ![p] = to]
        /\ person[p] # NoPerson => to.created = person[p].created
        /\ changes' = changes - 1 /\ changes > 0
    BY <1>3 DEF Change
  <2>2. person' \in [PersonId -> PersonRow] /\ changes' \in Nat
    BY <2>1 DEF ListInv, PersonRow
  <2>3. DOMAIN walk' = Reader
    BY <1>3 DEF Change
  <2>4. ASSUME NEW w \in Reader PROVE walk'[w] = AtRest \/ WalkOK(walk[w])'
    <3>1. PICK x : x = walk[w]
      OBVIOUS
    <3>2. walk'[w] = IF x = AtRest \/ x.filter \in to.shown_by THEN x
                     ELSE [x EXCEPT !.throughout = @ \ {p}]
      BY <1>3, <3>1 DEF Change
    <3>3. CASE x = AtRest
      BY <3>2, <3>3
    <3>4. CASE x # AtRest
      <4>1. PICK y : y = IF x.filter \in to.shown_by THEN x
                         ELSE [x EXCEPT !.throughout = @ \ {p}]
        OBVIOUS
      <4>2. WalkOK(x)
        BY <3>1, <3>4 DEF ListInv
      <4>3. WalkOK(y)'
        BY ONLY ListInv, <4>1, <4>2, p \in PersonId,
                to \in [created : Stamp, shown_by : SUBSET Filter], <2>1, ChangedRow
      <4>4. walk'[w] = y
        BY <3>2, <3>4, <4>1
      <4> QED BY <4>3, <4>4
    <3> QED BY <3>3, <3>4
  <2> QED BY <2>2, <2>3, <2>4 DEF ListInv, PersonRow
<1>4. CASE UNCHANGED listVars
  <2>1. person' = person /\ walk' = walk /\ changes' = changes
    BY <1>4 DEF listVars
  <2>2. \A v : WalkOK(v)' <=> WalkOK(v)
    BY <2>1 DEF WalkOK, NoneLost, After, WalkRow, Cursor, Shown
  <2> QED BY <2>1, <2>2 DEF ListInv, PersonRow
<1> QED BY <1>1, <1>2, <1>3, <1>4 DEF ListNext

\* The invariant of the listing, for any table of candidates and any changes to it.
THEOREM Listing == ListSpec => []ListInv
<1> DEFINE Start ==
             /\ ListInit /\ changes \in Nat
             /\ person \in [PersonId ->
                   {NoPerson} \cup [created : Stamp, shown_by : SUBSET Filter]]
<1>1. Start => ListInv
  BY DEF ListInit, ListInv, PersonRow
<1>2. ListSpec => Start /\ [][ListNext]_listVars
  BY DEF ListSpec
<1> HIDE DEF Start
<1> QED BY <1>1, <1>2, ListSteps, PTL

\* The listing stays a table of persons and walks over it.
THEOREM ListTypes == ListSpec => []ListTypeOK
<1>1. ListInv => ListTypeOK
  <2> SUFFICES ASSUME ListInv PROVE ListTypeOK
    OBVIOUS
  <2>1. PersonRow \subseteq [created : Stamp \cup {0}, shown_by : SUBSET Filter]
    BY DEF PersonRow, NoPerson
  <2>2. \A w \in Reader : walk[w] # AtRest => walk[w].seen \in Seq(PersonId)
    BY DEF ListInv, WalkOK, WalkRow
  <2> QED BY <2>1, <2>2 DEF ListInv, ListTypeOK
<1> QED BY <1>1, Listing, PTL

\* A walk through the listing (list_candidates) shows no candidate twice and, finished,
\* has shown every candidate that was listed throughout.
THEOREM WalksComplete == ListSpec => []WalkComplete
<1>1. ListInv => WalkComplete
  <2> SUFFICES ASSUME ListInv, NEW w \in Reader, walk[w] # AtRest
               PROVE  /\ \A i, j \in DOMAIN walk[w].seen :
                           i # j => walk[w].seen[i] # walk[w].seen[j]
                      /\ walk[w].phase = "finished" => walk[w].throughout \subseteq Shown(walk[w])
    BY DEF WalkComplete, Shown
  <2>1. WalkOK(walk[w])
    BY DEF ListInv
  <2> QED BY <2>1 DEF WalkOK, NoneLost
<1> QED BY <1>1, Listing, PTL

(***************************************************************************)
(* The components side by side.                                            *)
(***************************************************************************)
\* The code of one component never writes the rows of another, so each behaves in the
\* process of the API as its own specification says: what is proved of one holds there.
THEOREM PartsUndisturbed == ApiSpec => DeskSpec /\ ListSpec /\ RegistrySpec
<1>1. ApiInit => /\ ThesisInit /\ DeskInit /\ ListInit /\ RegistryInit
                 /\ saves \in Nat /\ rescores \in Nat /\ arrivals \in Nat /\ deaths \in Nat
                 /\ merges \in Nat
                 /\ researches \in [Opp -> Nat] /\ asks \in [Opp -> Nat] /\ arq \in [Job -> Nat]
                 /\ changes \in Nat /\ failures \in Nat
                 /\ person \in [PersonId ->
                       {NoPerson} \cup [created : Stamp, shown_by : SUBSET Filter]]
  BY DEF ApiInit
<1>2. [ApiNext]_componentVars =>
        /\ [DeskNext \/ (ThesisNext /\ UNCHANGED deskVars)]_<<thesisVars, deskVars>>
        /\ [ListNext]_listVars
        /\ [RegistryNext]_registryVars
  BY DEF ApiNext, componentVars
<1>3. ApiSpec => ApiInit /\ [][ApiNext]_componentVars
  BY DEF ApiSpec
<1>4. ApiSpec => DeskSpec
  BY <1>1, <1>2, <1>3, PTL DEF DeskSpec
<1>5. ApiSpec => ListSpec
  BY <1>1, <1>2, <1>3, PTL DEF ListSpec
<1>6. ApiSpec => RegistrySpec
  BY <1>1, <1>2, <1>3, PTL DEF RegistrySpec
<1> QED BY <1>4, <1>5, <1>6

\* Theses, memos, decisions, the listing and the registry stay well formed next to each
\* other, for any number of opportunities, persons, jobs, requests and clients.
THEOREM ApiTypes == ApiSpec => []TypeOK
<1>1. ThesisTypeOK /\ DeskTypeOK /\ ListTypeOK /\ RegistryTypeOK => TypeOK
  BY DEF TypeOK
<1> QED BY <1>1, PartsUndisturbed, DeskTypeCorrect, ListTypes, RegistryTypes, PTL
=============================================================================
