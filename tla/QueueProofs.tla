----------------------------- MODULE QueueProofs -----------------------------
(***************************************************************************)
(* Proofs about CollectQueue: type correctness and, for any number of      *)
(* tasks, dispatchers and handlers, that no step except a death loses a    *)
(* task.  What the invariant QInv adds to TypeOK: a dispatcher at rest     *)
(* holds nothing, so its start forgets nothing, and a task in a hand has a *)
(* positive priority, so putting it back puts it into a lane.              *)
(***************************************************************************)
EXTENDS CollectQueue, FiniteSetTheorems, TLAPS

Tasks(s) == {s[i].task : i \in DOMAIN s}
Positive(s) == \A i \in DOMAIN s : s[i].priority > 0

RestsEmpty(y) == y.phase = "idle" => y.hand = <<>>

QInv ==
  /\ TypeOK
  /\ \A d \in Dispatcher : RestsEmpty(disp[d]) /\ Positive(disp[d].hand)

(***************************************************************************)
(* Hands and lanes.                                                        *)
(***************************************************************************)
\* Taking the first entry off a hand keeps all others.
LEMMA TailHand ==
  ASSUME NEW s \in Seq(Entry), s # <<>>, Positive(s)
  PROVE  /\ s[1] \in Entry /\ s[1].priority > 0
         /\ Tail(s) \in Seq(Entry) /\ Positive(Tail(s))
         /\ Tasks(s) \subseteq {s[1].task} \cup Tasks(Tail(s))
<1>1. Len(s) \in Nat /\ Len(s) > 0 /\ DOMAIN s = 1 .. Len(s)
  OBVIOUS
<1>2. Tail(s) \in Seq(Entry) /\ DOMAIN Tail(s) = 1 .. (Len(s) - 1)
      /\ \A i \in 1 .. (Len(s) - 1) : Tail(s)[i] = s[i + 1]
  BY <1>1
<1>3. s[1] \in Entry /\ s[1].priority > 0
  BY <1>1 DEF Positive
<1>4. Positive(Tail(s))
  BY <1>1, <1>2 DEF Positive
<1>5. ASSUME NEW i \in DOMAIN s, i # 1 PROVE s[i].task \in Tasks(Tail(s))
  <2>1. i - 1 \in DOMAIN Tail(s) /\ Tail(s)[i - 1] = s[i]
    BY <1>1, <1>2, <1>5
  <2> QED BY <2>1 DEF Tasks
<1>6. Tasks(s) \subseteq {s[1].task} \cup Tasks(Tail(s))
  BY <1>5 DEF Tasks
<1> QED BY <1>2, <1>3, <1>4, <1>6

\* Appending entries keeps those of both sequences.
LEMMA AppendHand ==
  ASSUME NEW s \in Seq(Entry), NEW t \in Seq(Entry), Positive(s), Positive(t)
  PROVE  /\ s \o t \in Seq(Entry) /\ Positive(s \o t)
         /\ Tasks(s) \cup Tasks(t) \subseteq Tasks(s \o t)
<1>1. Len(s) \in Nat /\ DOMAIN s = 1 .. Len(s) /\ Len(t) \in Nat /\ DOMAIN t = 1 .. Len(t)
  OBVIOUS
<1>2. s \o t \in Seq(Entry) /\ DOMAIN (s \o t) = 1 .. (Len(s) + Len(t))
      /\ \A i \in 1 .. (Len(s) + Len(t)) :
           (s \o t)[i] = IF i <= Len(s) THEN s[i] ELSE t[i - Len(s)]
  BY <1>1
<1>3. Positive(s \o t)
  BY <1>1, <1>2 DEF Positive
<1>4. ASSUME NEW i \in DOMAIN s PROVE s[i].task \in Tasks(s \o t)
  <2>1. i \in DOMAIN (s \o t) /\ (s \o t)[i] = s[i]
    BY <1>1, <1>2
  <2> QED BY <2>1 DEF Tasks
<1>5. ASSUME NEW i \in DOMAIN t PROVE t[i].task \in Tasks(s \o t)
  <2>1. i + Len(s) \in DOMAIN (s \o t) /\ (s \o t)[i + Len(s)] = t[i]
    BY <1>1, <1>2
  <2> QED BY <2>1 DEF Tasks
<1> QED BY <1>2, <1>3, <1>4, <1>5 DEF Tasks

\* ZADD puts the task into a lane and removes nothing.
LEMMA ZaddFacts ==
  ASSUME lanes \in [Lane -> [Task -> Nat]], NEW x \in Task, NEW p \in Nat \ {0},
         lanes' = Zadd(lanes, x, p)
  PROVE  /\ lanes' \in [Lane -> [Task -> Nat]]
         /\ Waiting(x)'
         /\ \A y \in Task : Waiting(y) => Waiting(y)'
<1> DEFINE l == lane_of(p)
           f == [lanes[l] EXCEPT ![x] = p]
<1>1. l \in Lane
  BY DEF lane_of, Lane
<1> HIDE DEF l
<1>2. f \in [Task -> Nat] /\ f[x] = p /\ \A y \in Task \ {x} : f[y] = lanes[l][y]
  BY <1>1
<1>3. lanes' = [lanes EXCEPT ![l] = f]
  BY <1>1 DEF Zadd, l
<1> HIDE DEF f
<1>4. lanes' \in [Lane -> [Task -> Nat]] /\ lanes'[l] = f
      /\ \A k \in Lane \ {l} : lanes'[k] = lanes[k]
  BY <1>1, <1>2, <1>3
<1>5. Waiting(x)'
  BY <1>1, <1>2, <1>4 DEF Waiting, Out
<1>6. ASSUME NEW y \in Task, Waiting(y) PROVE Waiting(y)'
  <2>1. PICK k \in Lane : lanes[k][y] # Out
    BY <1>6 DEF Waiting
  <2>2. CASE y = x
    BY <1>5, <2>2
  <2>3. CASE y # x
    <3>1. lanes'[k][y] = lanes[k][y]
      BY <1>2, <1>4, <2>3
    <3> QED BY <2>1, <3>1 DEF Waiting
  <2> QED BY <2>2, <2>3
<1> QED BY <1>4, <1>5, <1>6

InHandBy(d, x) == x \in Tasks(disp[d].hand)

LEMMA InHandFact ==
  ASSUME NEW x \in Task
  PROVE  InHand(x) <=> \E d \in Dispatcher : InHandBy(d, x)
  BY DEF InHand, Holding, InHandBy, Tasks

Dropped(x) ==
  /\ Waiting(x) \/ InHand(x) \/ Asked(x)
  /\ ~(Waiting(x)' \/ InHand(x)' \/ Asked(x)' \/ arq'[x] > arq[x] \/ rows'[x] = "failed")

Safe == QInv' /\ \A x \in Task : ~Dropped(x)

(***************************************************************************)
(* Steps of a dispatcher.                                                  *)
(***************************************************************************)
\* One run changes from disp[d] to y; what leaves its hand goes to a lane or to Arq.
LEMMA RunStep ==
  ASSUME QInv, NEW d \in Dispatcher, NEW y \in Run,
         disp' = [disp EXCEPT ![d] = y], RestsEmpty(y), Positive(y.hand),
         lanes' \in [Lane -> [Task -> Nat]], tavily' \in Int,
         arq' \in [Task -> Nat], faults' \in Nat, UNCHANGED <<requests, apiVars>>,
         \A x \in Task : Waiting(x) => Waiting(x)' \/ x \in Tasks(y.hand),
         \A x \in Tasks(disp[d].hand) :
            x \in Tasks(y.hand) \/ Waiting(x)' \/ arq'[x] > arq[x]
  PROVE  Safe
<1>1. disp'[d] = y /\ \A c \in Dispatcher \ {d} : disp'[c] = disp[c]
  BY DEF QInv, TypeOK
<1>2. TypeOK'
  BY DEF QInv, TypeOK, apiVars
<1>3. QInv'
  BY <1>1, <1>2 DEF QInv
<1>4. \A c \in Dispatcher, x \in Task :
        InHandBy(c, x) => InHandBy(c, x)' \/ Waiting(x)' \/ arq'[x] > arq[x]
  BY <1>1 DEF InHandBy
<1>5. \A x \in Task : InHand(x) => InHand(x)' \/ Waiting(x)' \/ arq'[x] > arq[x]
  <2>1. \A x \in Task : InHand(x)' <=> \E c \in Dispatcher : InHandBy(c, x)'
    BY DEF InHand, Holding, InHandBy, Tasks
  <2> QED BY <1>4, <2>1, InHandFact
<1>6. \A x \in Task : Waiting(x) => Waiting(x)' \/ InHand(x)'
  <2>1. SUFFICES ASSUME NEW x \in Task, x \in Tasks(y.hand) PROVE InHand(x)'
    OBVIOUS
  <2> QED BY <1>1, <2>1 DEF InHand, Holding, Tasks
<1>7. \A x \in Task : Asked(x) => Asked(x)'
  BY DEF Asked, apiVars
<1> QED BY <1>3, <1>5, <1>6, <1>7 DEF Safe, Dropped

LEMMA IdleFacts == IdleRun \in Run /\ RestsEmpty(IdleRun) /\ Positive(IdleRun.hand)
<1>1. <<>> \in Seq(Entry)
  OBVIOUS
<1>2. IdleRun \in Run /\ IdleRun.hand = <<>>
  BY <1>1 DEF IdleRun, Run, Lane
<1> QED BY <1>2 DEF RestsEmpty, Positive

LEMMA BeginSafe ==
  ASSUME QInv, NEW d \in Dispatcher, DispatchBegin(d)
  PROVE  Safe
<1> DEFINE y == [IdleRun EXCEPT !.phase = "high", !.left = tavily]
<1>1. y \in Run /\ y.hand = <<>> /\ y.phase = "high"
  <2>1. IdleRun \in Run /\ IdleRun.hand = <<>>
    BY IdleFacts DEF IdleRun
  <2>2. tavily \in Int
    BY DEF QInv, TypeOK
  <2> QED BY <2>1, <2>2 DEF Run, Lane
<1>2. disp[d].hand = <<>>
  BY DEF DispatchBegin, QInv, RestsEmpty
<1>3. RestsEmpty(y) /\ Positive(y.hand)
  BY <1>1 DEF RestsEmpty, Positive
<1>4. Tasks(disp[d].hand) = {}
  BY <1>2 DEF Tasks
<1>5. /\ disp' = [disp EXCEPT ![d] = y]
      /\ UNCHANGED <<lanes, tavily, arq, requests, faults, apiVars>>
  BY DEF DispatchBegin
<1>6. lanes' \in [Lane -> [Task -> Nat]] /\ tavily' \in Int /\ arq' \in [Task -> Nat]
      /\ faults' \in Nat /\ \A x \in Task : Waiting(x) => Waiting(x)'
  BY <1>5 DEF QInv, TypeOK, Waiting
<1> HIDE DEF y
<1> QED BY <1>1, <1>3, <1>4, <1>5, <1>6, RunStep

LEMMA PopSafe ==
  ASSUME QInv, NEW d \in Dispatcher, NEW l \in Lane, Pop(d, l)
  PROVE  Safe
<1> DEFINE room == Concurrency - Len(disp[d].hand)
<1>1. PICK s \in Popped(l, room) :
        LET taken == [i \in DOMAIN s |-> [task |-> s[i], priority |-> lanes[l][s[i]]]]
        IN /\ lanes' = [lanes EXCEPT ![l] =
                 [x \in Task |-> IF x \in {s[i] : i \in DOMAIN s} THEN Out ELSE @[x]]]
           /\ disp' = [disp EXCEPT
                 ![d].hand = @ \o taken,
                 ![d].phase = IF Len(s) = room THEN "hand" ELSE After[l]]
  BY DEF Pop
<1> DEFINE taken == [i \in DOMAIN s |-> [task |-> s[i], priority |-> lanes[l][s[i]]]]
           got == {s[i] : i \in DOMAIN s}
           f == [x \in Task |-> IF x \in got THEN Out ELSE lanes[l][x]]
           next == IF Len(s) = room THEN "hand" ELSE After[l]
           y == [disp[d] EXCEPT !.hand = @ \o taken, !.phase = next]
<1>2. UNCHANGED <<tavily, arq, requests, faults, apiVars>>
  BY DEF Pop
<1>3. PICK n \in Nat : s \in [1 .. n -> Members(l)]
  BY <1>1 DEF Popped
<1>4. \A i \in 1 .. n : s[i] \in Task /\ lanes[l][s[i]] \in Nat /\ lanes[l][s[i]] > 0
  BY <1>3 DEF Members, Out, QInv, TypeOK
<1>5. taken \in Seq(Entry)
  <2>1. taken \in [1 .. n -> Entry]
    BY <1>3, <1>4 DEF Entry
  <2> HIDE DEF taken
  <2> QED BY <2>1
<1>6. Positive(taken) /\ Tasks(taken) = got
  BY <1>3, <1>4 DEF Positive, Tasks
<1>7. disp[d] \in Run /\ disp[d].hand \in Seq(Entry) /\ Positive(disp[d].hand)
  BY DEF QInv, TypeOK, Run
<1> HIDE DEF taken
<1>8. /\ disp[d].hand \o taken \in Seq(Entry) /\ Positive(disp[d].hand \o taken)
      /\ Tasks(disp[d].hand) \cup got \subseteq Tasks(disp[d].hand \o taken)
  BY <1>5, <1>6, <1>7, AppendHand
<1>9. next \in {"hand", "normal", "low"}
  BY DEF After, Lane
<1> HIDE DEF next
<1>10. y \in Run /\ y.hand = disp[d].hand \o taken /\ y.phase = next
  BY <1>7, <1>8, <1>9 DEF Run, Lane
<1>11. disp' = [disp EXCEPT ![d] = y]
  BY <1>1 DEF QInv, TypeOK, taken, next
<1>12. lanes' = [lanes EXCEPT ![l] = f] /\ f \in [Task -> Nat]
  BY <1>1 DEF QInv, TypeOK, Out
<1>13. lanes' \in [Lane -> [Task -> Nat]] /\ lanes'[l] = f
       /\ \A k \in Lane \ {l} : lanes'[k] = lanes[k]
  <2> HIDE DEF f
  <2> QED BY <1>12 DEF QInv, TypeOK
<1>14. RestsEmpty(y) /\ Positive(y.hand) /\ Tasks(disp[d].hand) \cup got \subseteq Tasks(y.hand)
  BY <1>8, <1>9, <1>10 DEF RestsEmpty
<1> HIDE DEF y
<1>15. \A x \in Task : Waiting(x) => Waiting(x)' \/ x \in Tasks(y.hand)
  <2>1. SUFFICES ASSUME NEW x \in Task, NEW k \in Lane, lanes[k][x] # Out, x \notin got
                 PROVE  lanes'[k][x] # Out
    BY <1>14 DEF Waiting
  <2> QED BY <1>13, <2>1
<1>16. tavily' \in Int /\ arq' \in [Task -> Nat] /\ faults' \in Nat
  BY <1>2 DEF QInv, TypeOK
<1> QED BY <1>2, <1>10, <1>11, <1>13, <1>14, <1>15, <1>16, RunStep

\* What the steps with a task at hand share.
LEMMA HandFacts ==
  ASSUME QInv, NEW d \in Dispatcher, AtHand(d)
  PROVE  /\ Head1(d).task \in Task /\ Head1(d).priority \in Nat \ {0}
         /\ Put(d) \in Run /\ Put(d).phase = "hand" /\ Put(d).hand = Tail(disp[d].hand)
         /\ Positive(Put(d).hand)
         /\ Tasks(disp[d].hand) \subseteq {Head1(d).task} \cup Tasks(Put(d).hand)
<1>1. disp[d] \in Run /\ disp[d].hand \in Seq(Entry) /\ disp[d].hand # <<>>
      /\ Positive(disp[d].hand)
  BY DEF QInv, TypeOK, Run, AtHand
<1>2. Put(d) = [disp[d] EXCEPT !.phase = "hand", !.hand = Tail(disp[d].hand), !.charged = FALSE]
  BY DEF Put
<1>3. /\ disp[d].hand[1] \in Entry /\ disp[d].hand[1].priority > 0
      /\ Tail(disp[d].hand) \in Seq(Entry) /\ Positive(Tail(disp[d].hand))
      /\ Tasks(disp[d].hand) \subseteq {disp[d].hand[1].task} \cup Tasks(Tail(disp[d].hand))
  BY <1>1, TailHand
<1>4. Put(d) \in Run /\ Put(d).phase = "hand" /\ Put(d).hand = Tail(disp[d].hand)
  BY <1>1, <1>2, <1>3 DEF Run
<1>5. Head1(d).task \in Task /\ Head1(d).priority \in Nat \ {0}
  BY <1>3 DEF Head1, Entry
<1> QED BY <1>3, <1>4, <1>5 DEF Head1

LEMMA PostponeSafe ==
  ASSUME QInv, NEW d \in Dispatcher, Postpone(d)
  PROVE  Safe
<1>1. AtHand(d) /\ lanes' = Zadd(lanes, Head1(d).task, 1)
      /\ disp' = [disp EXCEPT ![d] = Put(d)]
      /\ UNCHANGED <<tavily, arq, requests, faults, apiVars>>
  BY DEF Postpone
<1>2. /\ lanes \in [Lane -> [Task -> Nat]] /\ tavily' \in Int /\ arq' \in [Task -> Nat]
      /\ faults' \in Nat
  BY <1>1 DEF QInv, TypeOK
<1>3. 1 \in Nat \ {0}
  OBVIOUS
<1>4. RestsEmpty(Put(d))
  BY <1>1, HandFacts DEF RestsEmpty
<1> QED BY <1>1, <1>2, <1>3, <1>4, HandFacts, ZaddFacts, RunStep

LEMMA ChargeSafe ==
  ASSUME QInv, NEW d \in Dispatcher, Charge(d)
  PROVE  Safe
<1> DEFINE y == [disp[d] EXCEPT !.left = @ - 1, !.charged = TRUE]
<1>1. disp[d] \in Run /\ disp[d].phase = "hand"
  BY DEF Charge, AtHand, QInv, TypeOK
<1>2. y \in Run /\ y.phase = "hand" /\ y.hand = disp[d].hand
  <2>1. disp[d].left \in Int
    BY <1>1 DEF Run
  <2>2. disp[d].left - 1 \in Int
    BY <2>1
  <2> QED BY <1>1, <2>2 DEF Run, Lane
<1>3. disp' = [disp EXCEPT ![d] = y]
  BY DEF Charge, QInv, TypeOK
<1>4. tavily' = tavily - 1 /\ UNCHANGED <<lanes, arq, requests, faults, apiVars>>
  BY DEF Charge
<1> HIDE DEF y
<1>5. RestsEmpty(y) /\ Positive(y.hand)
  BY <1>2 DEF RestsEmpty, QInv
<1>6. /\ lanes' \in [Lane -> [Task -> Nat]] /\ tavily' \in Int /\ arq' \in [Task -> Nat]
      /\ faults' \in Nat /\ \A x \in Task : Waiting(x) => Waiting(x)'
  BY <1>4 DEF QInv, TypeOK, Waiting
<1> QED BY <1>2, <1>3, <1>4, <1>5, <1>6, RunStep

LEMMA DeliverSafe ==
  ASSUME QInv, NEW d \in Dispatcher, Deliver(d)
  PROVE  Safe
<1> DEFINE x == Head1(d).task
<1>1. AtHand(d) /\ disp' = [disp EXCEPT ![d] = Put(d)]
      /\ UNCHANGED <<lanes, tavily, requests, faults, apiVars>>
      /\ arq' = [arq EXCEPT ![x] = @ + 1]
  BY DEF Deliver, Payable
<1>2. x \in Task
  BY <1>1, HandFacts
<1>3. arq' \in [Task -> Nat] /\ arq'[x] > arq[x]
  <2>1. arq \in [Task -> Nat] /\ arq[x] \in Nat
    BY <1>2 DEF QInv, TypeOK
  <2> HIDE DEF x
  <2> QED BY <1>1, <1>2, <2>1
<1>4. /\ lanes' \in [Lane -> [Task -> Nat]] /\ tavily' \in Int /\ faults' \in Nat
      /\ \A z \in Task : Waiting(z) => Waiting(z)'
  BY <1>1 DEF QInv, TypeOK, Waiting
<1>5. RestsEmpty(Put(d))
  BY <1>1, HandFacts DEF RestsEmpty
<1>6. \A z \in Tasks(disp[d].hand) : z \in Tasks(Put(d).hand) \/ arq'[z] > arq[z]
  BY <1>1, <1>3, HandFacts
<1> QED BY <1>1, <1>3, <1>4, <1>5, <1>6, HandFacts, RunStep

LEMMA DeliverFailsSafe ==
  ASSUME QInv, NEW d \in Dispatcher, DeliverFails(d)
  PROVE  Safe
<1>1. PICK x \in Task : x = Head1(d).task
  BY HandFacts DEF DeliverFails, Payable
<1> DEFINE next == IF disp[d].charged THEN "refund" ELSE "hand"
           y == [Put(d) EXCEPT !.phase = next]
<1>2. AtHand(d) /\ disp' = [disp EXCEPT ![d] = y] /\ lanes' = Zadd(lanes, x, Head1(d).priority)
      /\ UNCHANGED <<tavily, requests, apiVars>>
      /\ (arq' = arq \/ arq' = [arq EXCEPT ![x] = @ + 1])
  BY <1>1 DEF DeliverFails, Payable
<1>3. x \in Task /\ Head1(d).priority \in Nat \ {0}
  BY <1>2, HandFacts
<1>4. Fault
  BY DEF DeliverFails
<1>5. faults' \in Nat
  BY <1>4 DEF Fault, QInv, TypeOK
<1>6. arq' \in [Task -> Nat] /\ lanes \in [Lane -> [Task -> Nat]] /\ tavily' \in Int
  BY <1>2, <1>3 DEF QInv, TypeOK
<1>7. next \in {"hand", "refund"}
  OBVIOUS
<1> HIDE DEF next
<1>8. y \in Run /\ y.hand = Put(d).hand /\ y.phase = next
  <2>1. Put(d) \in Run
    BY <1>2, HandFacts
  <2> QED BY <1>7, <2>1 DEF Run
<1> HIDE DEF y
<1>9. RestsEmpty(y) /\ Positive(y.hand)
  BY <1>2, <1>7, <1>8, HandFacts DEF RestsEmpty
<1>10. PICK p \in Nat \ {0} : p = Head1(d).priority
  BY <1>3
<1>11. /\ lanes' \in [Lane -> [Task -> Nat]] /\ Waiting(x)'
       /\ \A z \in Task : Waiting(z) => Waiting(z)'
  <2>1. lanes' = Zadd(lanes, x, p)
    BY <1>2, <1>10
  <2> QED BY <1>3, <1>6, <2>1, ZaddFacts
<1>12. \A z \in Tasks(disp[d].hand) : z \in Tasks(y.hand) \/ Waiting(z)'
  <2>1. Tasks(disp[d].hand) \subseteq {x} \cup Tasks(Put(d).hand)
    BY <1>1, <1>2, HandFacts
  <2> QED BY <1>8, <1>11, <2>1
<1> QED BY <1>2, <1>5, <1>6, <1>8, <1>9, <1>11, <1>12, RunStep

LEMMA RefundSafe ==
  ASSUME QInv, NEW d \in Dispatcher, Refund(d)
  PROVE  Safe
<1> DEFINE y == [disp[d] EXCEPT !.phase = "hand", !.left = @ + 1]
<1>1. disp[d] \in Run
  BY DEF QInv, TypeOK
<1>2. y \in Run /\ y.phase = "hand" /\ y.hand = disp[d].hand
  <2>1. disp[d].left \in Int
    BY <1>1 DEF Run
  <2>2. disp[d].left + 1 \in Int
    BY <2>1
  <2> QED BY <1>1, <2>2 DEF Run, Lane
<1>3. disp' = [disp EXCEPT ![d] = y]
  BY DEF Refund, QInv, TypeOK
<1>4. tavily' = tavily + 1 /\ UNCHANGED <<lanes, arq, requests, faults, apiVars>>
  BY DEF Refund
<1> HIDE DEF y
<1>5. RestsEmpty(y) /\ Positive(y.hand)
  BY <1>2 DEF RestsEmpty, QInv
<1>6. /\ lanes' \in [Lane -> [Task -> Nat]] /\ tavily' \in Int /\ arq' \in [Task -> Nat]
      /\ faults' \in Nat /\ \A x \in Task : Waiting(x) => Waiting(x)'
  BY <1>4 DEF QInv, TypeOK, Waiting
<1> QED BY <1>2, <1>3, <1>4, <1>5, <1>6, RunStep

LEMMA EndSafe ==
  ASSUME QInv, NEW d \in Dispatcher, DispatchEnd(d)
  PROVE  Safe
<1>1. disp[d].hand = <<>> /\ disp' = [disp EXCEPT ![d] = IdleRun]
      /\ UNCHANGED <<lanes, tavily, arq, requests, faults, apiVars>>
  BY DEF DispatchEnd
<1>2. Tasks(disp[d].hand) = {}
  BY <1>1 DEF Tasks
<1>3. /\ lanes' \in [Lane -> [Task -> Nat]] /\ tavily' \in Int /\ arq' \in [Task -> Nat]
      /\ faults' \in Nat /\ \A x \in Task : Waiting(x) => Waiting(x)'
  BY <1>1 DEF QInv, TypeOK, Waiting
<1> QED BY <1>1, <1>2, <1>3, IdleFacts, RunStep

LEMMA StepSafe ==
  ASSUME QInv, NEW d \in Dispatcher, DispatchStep(d)
  PROVE  Safe
  BY BeginSafe, PopSafe, PostponeSafe, ChargeSafe, DeliverSafe, DeliverFailsSafe, RefundSafe,
     EndSafe DEF DispatchStep

\* A death loses the hand, but leaves everything well formed.
LEMMA DiesQInv ==
  ASSUME QInv, NEW d \in Dispatcher, DispatchDies(d)
  PROVE  QInv'
<1>1. disp' = [disp EXCEPT ![d] = IdleRun] /\ Fault
      /\ UNCHANGED <<lanes, tavily, arq, requests, apiVars>>
  BY DEF DispatchDies
<1>2. faults' \in Nat
  BY <1>1 DEF Fault, QInv, TypeOK
<1>3. TypeOK'
  BY <1>1, <1>2, IdleFacts DEF QInv, TypeOK, apiVars
<1>4. disp'[d] = IdleRun /\ \A c \in Dispatcher \ {d} : disp'[c] = disp[c]
  BY <1>1 DEF QInv, TypeOK
<1> QED BY <1>3, <1>4, IdleFacts DEF QInv

(***************************************************************************)
(* Producers, handlers and jobs.                                           *)
(***************************************************************************)
\* None of these touches a dispatcher.
LEMMA OutsideStep ==
  ASSUME QInv, UNCHANGED <<tavily, disp>>,
         lanes' \in [Lane -> [Task -> Nat]], arq' \in [Task -> Nat],
         rows' \in [Task -> {"none", "queued", "failed", "started"}],
         asking' \in [Handler -> [todo : SUBSET Recorded, refused : SUBSET Recorded]],
         requests' \in [Task -> Nat], faults' \in Nat,
         \A x \in Task : Waiting(x) => Waiting(x)'
  PROVE  /\ QInv'
         /\ (\A x \in Task : Asked(x) => Asked(x)' \/ Waiting(x)' \/ rows'[x] = "failed") => Safe
<1>1. QInv'
  BY DEF QInv, TypeOK
<1>2. \A x \in Task : InHand(x) => InHand(x)'
  BY DEF InHand, Holding
<1> QED BY <1>1, <1>2 DEF Safe, Dropped

LEMMA EnqueueSafe ==
  ASSUME QInv, NEW x \in Task, Enqueue(x)
  PROVE  Safe
<1>1. PICK p \in Priority[x] : lanes' = Zadd(lanes, x, p)
  BY DEF Enqueue
<1>2. p \in Nat \ {0}
  BY <1>1, CollectQueueAssumption
<1>3. requests' \in [Task -> Nat]
  <2>1. requests \in [Task -> Nat] /\ requests[x] \in Nat /\ requests[x] > 0
    BY DEF Enqueue, QInv, TypeOK
  <2> QED BY <2>1 DEF Enqueue
<1>4. UNCHANGED <<tavily, arq, disp, faults, apiVars>>
  BY DEF Enqueue
<1>5. lanes \in [Lane -> [Task -> Nat]]
  BY DEF QInv, TypeOK
<1>6. lanes' \in [Lane -> [Task -> Nat]] /\ \A y \in Task : Waiting(y) => Waiting(y)'
  BY <1>1, <1>2, <1>5, ZaddFacts
<1>7. \A y \in Task : Asked(y) => Asked(y)'
  BY <1>4 DEF Asked, apiVars
<1>8. /\ arq' \in [Task -> Nat] /\ rows' \in [Task -> {"none", "queued", "failed", "started"}]
      /\ asking' \in [Handler -> [todo : SUBSET Recorded, refused : SUBSET Recorded]]
      /\ faults' \in Nat
  BY <1>4 DEF QInv, TypeOK, apiVars
<1> QED BY <1>3, <1>4, <1>6, <1>7, <1>8, OutsideStep

LEMMA RunJobSafe ==
  ASSUME QInv, NEW x \in Task, RunJob(x)
  PROVE  Safe
<1>1. UNCHANGED <<lanes, tavily, disp, asking, requests, faults>>
  BY DEF RunJob
<1>2. arq' \in [Task -> Nat]
  <2>1. arq \in [Task -> Nat] /\ arq[x] \in Nat /\ arq[x] > 0
    BY DEF RunJob, QInv, TypeOK
  <2> QED BY <2>1 DEF RunJob
<1>3. rows' \in [Task -> {"none", "queued", "failed", "started"}]
  BY DEF RunJob, QInv, TypeOK
<1>4. \A y \in Task : (Waiting(y) => Waiting(y)') /\ (Asked(y) => Asked(y)')
  BY <1>1 DEF Waiting, Asked
<1>5. /\ lanes' \in [Lane -> [Task -> Nat]] /\ requests' \in [Task -> Nat] /\ faults' \in Nat
      /\ asking' \in [Handler -> [todo : SUBSET Recorded, refused : SUBSET Recorded]]
  BY <1>1 DEF QInv, TypeOK
<1> QED BY <1>1, <1>2, <1>3, <1>4, <1>5, OutsideStep

\* A step of a handler that leaves lanes, Arq and jobs alone except for its own tasks.
LEMMA AskSafe ==
  ASSUME QInv, NEW h \in Handler, NEW B \in SUBSET Recorded, Ask(h, B)
  PROVE  Safe
<1> DEFINE q == [asking[h] EXCEPT !.todo = B]
<1>1. /\ asking[h] = Quiet /\ \A x \in B : requests[x] > 0
      /\ rows' = [x \in Task |-> IF x \in B THEN "queued" ELSE rows[x]]
      /\ requests' = [x \in Task |-> IF x \in B THEN requests[x] - 1 ELSE requests[x]]
      /\ UNCHANGED <<lanes, tavily, arq, disp, faults>>
  BY DEF Ask
<1>2. asking' = [asking EXCEPT ![h] = q]
  BY DEF Ask, QInv, TypeOK
<1>3. q \in [todo : SUBSET Recorded, refused : SUBSET Recorded]
  <2>1. asking[h] \in [todo : SUBSET Recorded, refused : SUBSET Recorded]
    BY DEF QInv, TypeOK
  <2> QED BY <2>1
<1> HIDE DEF q
<1>4. asking' \in [Handler -> [todo : SUBSET Recorded, refused : SUBSET Recorded]]
  BY <1>2, <1>3 DEF QInv, TypeOK
<1>5. requests' \in [Task -> Nat]
  <2>1. \A x \in Task : requests[x] \in Nat
    BY DEF QInv, TypeOK
  <2>2. \A x \in Task : (IF x \in B THEN requests[x] - 1 ELSE requests[x]) \in Nat
    BY <1>1, <2>1
  <2> QED BY <1>1, <2>2
<1>6. rows' \in [Task -> {"none", "queued", "failed", "started"}]
  BY <1>1 DEF QInv, TypeOK
<1>7. \A x \in Task : Asked(x) => Asked(x)'
  <2>1. SUFFICES ASSUME NEW x \in Task, NEW k \in Handler,
                        x \in asking[k].todo \cup asking[k].refused
                 PROVE  x \in asking'[k].todo \cup asking'[k].refused
    BY DEF Asked
  <2>2. k # h
    BY <1>1, <2>1 DEF Quiet
  <2>3. asking'[k] = asking[k]
    BY <1>2, <2>2 DEF QInv, TypeOK
  <2> QED BY <2>1, <2>3
<1>8. /\ lanes' \in [Lane -> [Task -> Nat]] /\ arq' \in [Task -> Nat] /\ faults' \in Nat
      /\ \A x \in Task : Waiting(x) => Waiting(x)'
  BY <1>1 DEF QInv, TypeOK, Waiting
<1> QED BY <1>1, <1>4, <1>5, <1>6, <1>7, <1>8, OutsideStep

\* What a handler holds after one of its tasks left todo, for refused or not.
LEMMA AskingFacts ==
  ASSUME QInv, NEW h \in Handler, NEW x \in asking[h].todo, NEW r \in SUBSET {x},
         asking' = [asking EXCEPT ![h].todo = @ \ {x}, ![h].refused = @ \cup r]
  PROVE  /\ asking' \in [Handler -> [todo : SUBSET Recorded, refused : SUBSET Recorded]]
         /\ x \in Task
         /\ \A y \in Task : Asked(y) => Asked(y)' \/ (y = x /\ r = {})
<1> DEFINE q == [asking[h] EXCEPT !.todo = @ \ {x}, !.refused = @ \cup r]
<1>1. asking[h] \in [todo : SUBSET Recorded, refused : SUBSET Recorded]
  BY DEF QInv, TypeOK
<1>2. asking' = [asking EXCEPT ![h] = q]
  BY DEF QInv, TypeOK
<1>3. x \in Recorded /\ x \in Task
  BY <1>1, CollectQueueAssumption
<1>4. q.todo = asking[h].todo \ {x} /\ q.refused = asking[h].refused \cup r
      /\ q \in [todo : SUBSET Recorded, refused : SUBSET Recorded]
  BY <1>1, <1>3
<1> HIDE DEF q
<1>5. asking' \in [Handler -> [todo : SUBSET Recorded, refused : SUBSET Recorded]]
      /\ asking'[h] = q /\ \A k \in Handler \ {h} : asking'[k] = asking[k]
  <2>1. asking \in [Handler -> [todo : SUBSET Recorded, refused : SUBSET Recorded]]
    BY DEF QInv, TypeOK
  <2>2. asking' \in [Handler -> [todo : SUBSET Recorded, refused : SUBSET Recorded]]
    BY <1>2, <1>4, <2>1
  <2>3. asking'[h] = q /\ \A k \in Handler \ {h} : asking'[k] = asking[k]
    BY <1>2, <2>1
  <2> QED BY <2>2, <2>3
<1>6. ASSUME NEW y \in Task, NEW k \in Handler, y \in asking[k].todo \cup asking[k].refused,
             ~(y = x /\ r = {})
      PROVE  y \in asking'[k].todo \cup asking'[k].refused
  <2>1. CASE k = h
    BY <1>4, <1>5, <1>6, <2>1
  <2>2. CASE k # h
    BY <1>5, <1>6, <2>2
  <2> QED BY <2>1, <2>2
<1> QED BY <1>3, <1>5, <1>6 DEF Asked

LEMMA AskEnqueueSafe ==
  ASSUME QInv, NEW h \in Handler, AskEnqueue(h)
  PROVE  Safe
<1>1. UNCHANGED <<tavily, arq, disp, requests, faults, rows>>
  BY DEF AskEnqueue
<1>2. PICK x \in asking[h].todo : \E p \in Priority[x] :
        lanes' = Zadd(lanes, x, p) /\ asking' = [asking EXCEPT ![h].todo = @ \ {x}]
  BY DEF AskEnqueue
<1>3. PICK p \in Priority[x] :
        lanes' = Zadd(lanes, x, p) /\ asking' = [asking EXCEPT ![h].todo = @ \ {x}]
  BY <1>2
<1>4. asking' = [asking EXCEPT ![h].todo = @ \ {x}, ![h].refused = @ \cup {}]
  <2>1. asking[h] \in [todo : SUBSET Recorded, refused : SUBSET Recorded]
    BY DEF QInv, TypeOK
  <2>2. [asking[h] EXCEPT !.todo = @ \ {x}]
          = [asking[h] EXCEPT !.todo = @ \ {x}, !.refused = @ \cup {}]
    BY <2>1
  <2> QED BY <1>3, <2>2 DEF QInv, TypeOK
<1>5. {} \in SUBSET {x}
  OBVIOUS
<1>6. /\ asking' \in [Handler -> [todo : SUBSET Recorded, refused : SUBSET Recorded]]
      /\ x \in Task /\ \A y \in Task : Asked(y) => Asked(y)' \/ y = x
  BY <1>4, <1>5, AskingFacts
<1>7. p \in Nat \ {0} /\ lanes \in [Lane -> [Task -> Nat]]
  BY <1>6, CollectQueueAssumption DEF QInv, TypeOK
<1>8. /\ lanes' \in [Lane -> [Task -> Nat]] /\ Waiting(x)'
      /\ \A y \in Task : Waiting(y) => Waiting(y)'
  BY <1>3, <1>6, <1>7, ZaddFacts
<1>9. /\ arq' \in [Task -> Nat] /\ rows' \in [Task -> {"none", "queued", "failed", "started"}]
      /\ requests' \in [Task -> Nat] /\ faults' \in Nat
  BY <1>1 DEF QInv, TypeOK
<1> QED BY <1>1, <1>6, <1>8, <1>9, OutsideStep

LEMMA AskFailsSafe ==
  ASSUME QInv, NEW h \in Handler, AskFails(h)
  PROVE  Safe
<1>1. Fault /\ UNCHANGED <<tavily, arq, disp, requests, rows>>
  BY DEF AskFails
<1>2. faults' \in Nat
  BY <1>1 DEF Fault, QInv, TypeOK
<1>3. PICK x \in asking[h].todo :
        /\ asking' = [asking EXCEPT ![h].todo = @ \ {x}, ![h].refused = @ \cup {x}]
        /\ UNCHANGED lanes \/ \E p \in Priority[x] : lanes' = Zadd(lanes, x, p)
  BY DEF AskFails
<1>4. {x} \in SUBSET {x} /\ {x} # {}
  OBVIOUS
<1>5. /\ asking' \in [Handler -> [todo : SUBSET Recorded, refused : SUBSET Recorded]]
      /\ x \in Task /\ \A y \in Task : Asked(y) => Asked(y)'
  BY <1>3, <1>4, AskingFacts
<1>6. lanes \in [Lane -> [Task -> Nat]]
  BY DEF QInv, TypeOK
<1>7. lanes' \in [Lane -> [Task -> Nat]] /\ \A y \in Task : Waiting(y) => Waiting(y)'
  <2>1. CASE UNCHANGED lanes
    BY <1>6, <2>1 DEF Waiting
  <2>2. CASE \E p \in Priority[x] : lanes' = Zadd(lanes, x, p)
    <3>1. PICK p \in Priority[x] : lanes' = Zadd(lanes, x, p)
      BY <2>2
    <3>2. p \in Nat \ {0}
      BY <1>5, CollectQueueAssumption
    <3> QED BY <1>5, <1>6, <3>1, <3>2, ZaddFacts
  <2> QED BY <1>3, <2>1, <2>2
<1>8. /\ arq' \in [Task -> Nat] /\ rows' \in [Task -> {"none", "queued", "failed", "started"}]
      /\ requests' \in [Task -> Nat]
  BY <1>1 DEF QInv, TypeOK
<1> QED BY <1>1, <1>2, <1>5, <1>7, <1>8, OutsideStep

\* A handler forgets its tasks: a fact shared by its last step and its death.
LEMMA QuietFacts ==
  ASSUME QInv, NEW h \in Handler, asking' = [asking EXCEPT ![h] = Quiet]
  PROVE  /\ asking' \in [Handler -> [todo : SUBSET Recorded, refused : SUBSET Recorded]]
         /\ \A y \in Task : Asked(y) => Asked(y)' \/ y \in asking[h].todo \cup asking[h].refused
<1>1. Quiet \in [todo : SUBSET Recorded, refused : SUBSET Recorded]
  BY DEF Quiet
<1>2. asking' \in [Handler -> [todo : SUBSET Recorded, refused : SUBSET Recorded]]
      /\ \A k \in Handler \ {h} : asking'[k] = asking[k]
  BY <1>1 DEF QInv, TypeOK
<1> QED BY <1>2 DEF Asked

LEMMA AskEndSafe ==
  ASSUME QInv, NEW h \in Handler, AskEnd(h)
  PROVE  Safe
<1>1. /\ asking[h].todo = {} /\ asking' = [asking EXCEPT ![h] = Quiet]
      /\ rows' = [x \in Task |-> IF x \in asking[h].refused THEN "failed" ELSE rows[x]]
      /\ UNCHANGED <<lanes, tavily, arq, disp, requests, faults>>
  BY DEF AskEnd
<1>2. /\ asking' \in [Handler -> [todo : SUBSET Recorded, refused : SUBSET Recorded]]
      /\ \A y \in Task : Asked(y) => Asked(y)' \/ rows'[y] = "failed"
  BY <1>1, QuietFacts
<1>3. rows' \in [Task -> {"none", "queued", "failed", "started"}]
  BY <1>1 DEF QInv, TypeOK
<1>4. /\ lanes' \in [Lane -> [Task -> Nat]] /\ arq' \in [Task -> Nat]
      /\ requests' \in [Task -> Nat] /\ faults' \in Nat
      /\ \A x \in Task : Waiting(x) => Waiting(x)'
  BY <1>1 DEF QInv, TypeOK, Waiting
<1> QED BY <1>1, <1>2, <1>3, <1>4, OutsideStep

LEMMA AskDiesQInv ==
  ASSUME QInv, NEW h \in Handler, AskDies(h)
  PROVE  QInv'
<1>1. Fault /\ asking' = [asking EXCEPT ![h] = Quiet]
      /\ UNCHANGED <<lanes, tavily, arq, disp, requests, rows>>
  BY DEF AskDies
<1>2. faults' \in Nat
  BY <1>1 DEF Fault, QInv, TypeOK
<1>3. asking' \in [Handler -> [todo : SUBSET Recorded, refused : SUBSET Recorded]]
  BY <1>1, QuietFacts
<1> QED BY <1>1, <1>2, <1>3 DEF QInv, TypeOK

(***************************************************************************)
(* The specification.                                                      *)
(***************************************************************************)
LEMMA InitQInv == Init => QInv
<1> SUFFICES ASSUME Init PROVE QInv
  OBVIOUS
<1>1. lanes \in [Lane -> [Task -> Nat]] /\ arq \in [Task -> Nat]
      /\ rows \in [Task -> {"none", "queued", "failed", "started"}]
  BY DEF Init, Out
<1>2. tavily \in Int /\ requests \in [Task -> Nat] /\ faults \in Nat
  BY CollectQueueAssumption DEF Init
<1>3. asking \in [Handler -> [todo : SUBSET Recorded, refused : SUBSET Recorded]]
  BY DEF Init, Quiet
<1>4. disp \in [Dispatcher -> Run]
      /\ \A d \in Dispatcher : RestsEmpty(disp[d]) /\ Positive(disp[d].hand)
  BY IdleFacts DEF Init
<1> QED BY <1>1, <1>2, <1>3, <1>4 DEF QInv, TypeOK

\* A step loses nothing, or it is a death.
Dies == \/ \E d \in Dispatcher : DispatchDies(d)
        \/ \E h \in Handler : AskDies(h)

LEMMA NextSafe ==
  ASSUME QInv, Next
  PROVE  Safe \/ (QInv' /\ Dies)
<1>1. ASSUME NEW d \in Dispatcher, DispatchStep(d) PROVE Safe
  BY <1>1, StepSafe
<1>2. ASSUME NEW d \in Dispatcher, DispatchDies(d) PROVE QInv' /\ Dies
  BY <1>2, DiesQInv DEF Dies
<1>3. ASSUME NEW x \in Task, Enqueue(x) \/ RunJob(x) PROVE Safe
  BY <1>3, EnqueueSafe, RunJobSafe
<1>4. ASSUME NEW h \in Handler, NEW B \in SUBSET Recorded, Ask(h, B) PROVE Safe
  BY <1>4, AskSafe
<1>5. ASSUME NEW h \in Handler, AskEnqueue(h) \/ AskFails(h) \/ AskEnd(h) PROVE Safe
  BY <1>5, AskEnqueueSafe, AskFailsSafe, AskEndSafe
<1>6. ASSUME NEW h \in Handler, AskDies(h) PROVE QInv' /\ Dies
  BY <1>6, AskDiesQInv DEF Dies
<1> QED BY <1>1, <1>2, <1>3, <1>4, <1>5, <1>6 DEF Next

LEMMA StutterQInv ==
  ASSUME QInv, UNCHANGED vars
  PROVE  QInv'
BY DEF QInv, TypeOK, vars

\* Lanes, hands and the budget of every dispatcher keep their form, and a dispatcher at
\* rest holds nothing, however dispatchers, handlers and deaths interleave.
THEOREM Queue == Spec => []QInv
<1>1. QInv /\ [Next]_vars => QInv'
  BY NextSafe, StutterQInv DEF Safe
<1> QED BY <1>1, InitQInv, PTL DEF Spec

\* In particular they keep their types.
THEOREM QueueTypes == Spec => []TypeOK
<1>1. QInv => TypeOK
  BY DEF QInv
<1> QED BY <1>1, Queue, PTL

\* No step of a dispatcher, a producer, a handler or a job loses a task, for any number
\* of each: only the death of the process that holds it does.
THEOREM NothingVanishes == Spec => NoTaskVanishes
<1> DEFINE A == \A x \in Task :
       Waiting(x) \/ InHand(x) \/ Asked(x) =>
         \/ Waiting(x)' \/ InHand(x)' \/ Asked(x)' \/ arq'[x] > arq[x]
         \/ rows'[x] = "failed"
         \/ \E d \in Dispatcher : DispatchDies(d)
         \/ \E h \in Handler : AskDies(h)
<1>1. QInv /\ Next => A
  <2> SUFFICES ASSUME QInv, Next PROVE A
    OBVIOUS
  <2>1. CASE Safe
    BY <2>1 DEF Safe, Dropped
  <2>2. CASE Dies
    BY <2>2 DEF Dies
  <2> QED BY <2>1, <2>2, NextSafe
<1>2. QInv /\ [Next]_vars => [A]_vars
  BY <1>1
<1> HIDE DEF A
<1>3. Spec => [][A]_vars
  BY <1>2, Queue, PTL DEF Spec
<1> QED BY <1>3, PTL DEF NoTaskVanishes, A

(***************************************************************************)
(* The Tavily budget.  A run that read the counter may still charge as     *)
(* often as it saw budget left and as it has tasks or room for them.  What *)
(* all runs together may still charge exceeds the counter by one batch of  *)
(* every run but one at most: the run that starts last has seen the        *)
(* counter as it is.                                                       *)
(***************************************************************************)
\* Run y may still make k charges.
MayCharge(y, k) ==
  /\ y.phase # "idle" /\ k <= y.left
  /\ y.phase \in {"hand", "refund"} => k <= Len(y.hand) - (IF y.charged THEN 1 ELSE 0)

Charges == {c \in Dispatcher \X (1 .. Concurrency) : MayCharge(disp[c[1]], c[2])}

Excess == Concurrency * (Cardinality(Dispatcher) - 1)

SpendInv ==
  /\ \A d \in Dispatcher : Len(disp[d].hand) <= Concurrency
  /\ Cardinality(Charges) <= tavily + Excess

LEMMA ChargesFinite ==
  /\ IsFiniteSet(Charges) /\ Cardinality(Charges) \in Nat
  /\ Cardinality(Dispatcher) \in Nat \ {0} /\ Excess \in Nat
<1>1. IsFiniteSet(Dispatcher \X (1 .. Concurrency))
  <2>1. IsFiniteSet(1 .. Concurrency)
    BY CollectQueueAssumption, FS_Interval
  <2> QED BY <2>1, CollectQueueAssumption, FS_Product
<1>2. IsFiniteSet(Charges)
  BY <1>1, FS_Subset DEF Charges
<1>3. Cardinality(Dispatcher) \in Nat \ {0}
  BY CollectQueueAssumption, FS_CardinalityType, FS_EmptySet
<1>4. Excess \in Nat
  <2>1. PICK n \in Nat : n = Cardinality(Dispatcher) - 1
    BY <1>3
  <2>2. Concurrency * n \in Nat
    BY CollectQueueAssumption
  <2> QED BY <2>1, <2>2 DEF Excess
<1> QED BY <1>2, <1>3, <1>4, FS_CardinalityType

\* The charges of the other runs stay when d goes on as y.
LEMMA ChargesOf ==
  ASSUME QInv, NEW d \in Dispatcher, NEW y, disp' = [disp EXCEPT ![d] = y],
         NEW c \in Charges'
  PROVE  \/ c \in Charges /\ c[1] # d
         \/ \E k \in 1 .. Concurrency : c = <<d, k>> /\ MayCharge(y, k)
<1>1. c \in Dispatcher \X (1 .. Concurrency) /\ MayCharge(disp'[c[1]], c[2])
  BY DEF Charges
<1>2. disp'[d] = y /\ \A e \in Dispatcher \ {d} : disp'[e] = disp[e]
  BY DEF QInv, TypeOK
<1>3. CASE c[1] = d
  <2>1. c = <<d, c[2]>> /\ c[2] \in 1 .. Concurrency
    BY <1>1, <1>3
  <2> QED BY <1>1, <1>2, <1>3, <2>1
<1>4. CASE c[1] # d
  BY <1>1, <1>2, <1>4 DEF Charges
<1> QED BY <1>3, <1>4

\* A run that may charge no more often than before, and leaves the counter alone.
LEMMA SpendsNoMore ==
  ASSUME QInv, SpendInv, NEW d \in Dispatcher, NEW y \in Run,
         disp' = [disp EXCEPT ![d] = y], UNCHANGED tavily, Len(y.hand) <= Concurrency,
         \A k \in 1 .. Concurrency : MayCharge(y, k) => MayCharge(disp[d], k)
  PROVE  SpendInv'
<1>1. Charges' \subseteq Charges
  <2> SUFFICES ASSUME NEW c \in Charges' PROVE c \in Charges
    OBVIOUS
  <2>1. ASSUME NEW k \in 1 .. Concurrency, c = <<d, k>>, MayCharge(y, k) PROVE c \in Charges
    BY <2>1 DEF Charges
  <2> QED BY <2>1, ChargesOf
<1>2. Cardinality(Charges') <= Cardinality(Charges) /\ Cardinality(Charges') \in Nat
  BY <1>1, ChargesFinite, FS_Subset, FS_CardinalityType
<1>3. Cardinality(Charges') <= tavily + Excess
  BY <1>2, ChargesFinite DEF SpendInv, QInv, TypeOK
<1>4. \A e \in Dispatcher : Len(disp'[e].hand) <= Concurrency
  BY DEF SpendInv, QInv, TypeOK
<1> QED BY <1>3, <1>4 DEF SpendInv, Excess

LEMMA BeginSpends ==
  ASSUME QInv, SpendInv, NEW d \in Dispatcher, DispatchBegin(d)
  PROVE  SpendInv'
<1>1. PICK y \in Run : /\ disp' = [disp EXCEPT ![d] = y] /\ y.hand = <<>> /\ y.phase = "high"
                       /\ y.left = tavily
  <2>1. PICK y : y = [IdleRun EXCEPT !.phase = "high", !.left = tavily]
    OBVIOUS
  <2>2. y \in Run /\ y.hand = <<>> /\ y.phase = "high" /\ y.left = tavily
    <3>1. IdleRun \in Run /\ IdleRun.hand = <<>>
      BY IdleFacts DEF IdleRun
    <3> QED BY <2>1, <3>1 DEF Run, Lane, QInv, TypeOK
  <2> QED BY <2>1, <2>2 DEF DispatchBegin
<1>2. UNCHANGED tavily /\ tavily \in Int /\ Concurrency \in Nat
  BY CollectQueueAssumption DEF DispatchBegin, QInv, TypeOK
<1>3. CASE tavily <= 0
  <2>1. \A k \in 1 .. Concurrency : ~MayCharge(y, k)
    BY <1>1, <1>2, <1>3 DEF MayCharge
  <2>2. Len(y.hand) <= Concurrency
    BY <1>1, <1>2
  <2> QED BY <1>1, <1>2, <2>1, <2>2, SpendsNoMore
<1>4. CASE tavily > 0
  <2> DEFINE others == (Dispatcher \ {d}) \X (1 .. Concurrency)
             own == {d} \X (1 .. tavily)
  <2>1. Charges' \subseteq others \cup own
    <3> SUFFICES ASSUME NEW c \in Charges' PROVE c \in others \cup own
      OBVIOUS
    <3>1. ASSUME NEW k \in 1 .. Concurrency, c = <<d, k>>, MayCharge(y, k) PROVE c \in own
      BY <1>1, <1>2, <3>1 DEF MayCharge
    <3>2. ASSUME c \in Charges, c[1] # d PROVE c \in others
      BY <3>2 DEF Charges
    <3> QED BY <1>1, <3>1, <3>2, ChargesOf
  <2>2. IsFiniteSet(others) /\ Cardinality(others) = Excess
    <3>1. /\ IsFiniteSet(Dispatcher \ {d})
          /\ Cardinality(Dispatcher \ {d}) = Cardinality(Dispatcher) - 1
      BY CollectQueueAssumption, FS_RemoveElement
    <3>2. IsFiniteSet(1 .. Concurrency) /\ Cardinality(1 .. Concurrency) = Concurrency
      BY <1>2, FS_Interval
    <3>3. /\ IsFiniteSet(others)
          /\ Cardinality(others) = Cardinality(Dispatcher \ {d}) * Cardinality(1 .. Concurrency)
      BY <3>1, <3>2, FS_Product
    <3>4. PICK n \in Nat : n = Cardinality(Dispatcher) - 1
      BY ChargesFinite
    <3>5. n * Concurrency = Concurrency * n
      BY <1>2
    <3> QED BY <3>1, <3>2, <3>3, <3>4, <3>5 DEF Excess
  <2>3. IsFiniteSet(own) /\ Cardinality(own) = tavily
    <3>1. IsFiniteSet({d}) /\ Cardinality({d}) = 1
      BY FS_Singleton
    <3>2. IsFiniteSet(1 .. tavily) /\ Cardinality(1 .. tavily) = tavily
      BY <1>2, <1>4, FS_Interval
    <3>3. IsFiniteSet(own) /\ Cardinality(own) = Cardinality({d}) * Cardinality(1 .. tavily)
      BY <3>1, <3>2, FS_Product
    <3> QED BY <1>2, <3>1, <3>2, <3>3
  <2> HIDE DEF others, own
  <2>4. /\ IsFiniteSet(others \cup own)
        /\ Cardinality(others \cup own) <= Cardinality(others) + Cardinality(own)
    <3>1. IsFiniteSet(others \cap own) /\ Cardinality(others \cap own) \in Nat
      BY <2>2, FS_Intersection, FS_CardinalityType
    <3>2. /\ IsFiniteSet(others \cup own)
          /\ Cardinality(others \cup own)
               = Cardinality(others) + Cardinality(own) - Cardinality(others \cap own)
      BY <2>2, <2>3, FS_Union
    <3>3. Cardinality(others) \in Nat /\ Cardinality(own) \in Nat
      BY <2>2, <2>3, FS_CardinalityType
    <3> QED BY <3>1, <3>2, <3>3
  <2>5. /\ Cardinality(Charges') <= Cardinality(others \cup own)
        /\ Cardinality(Charges') \in Nat /\ Cardinality(others \cup own) \in Nat
    BY <2>1, <2>4, FS_Subset, FS_CardinalityType
  <2>6. Cardinality(Charges') <= tavily + Excess
    BY <1>2, <2>2, <2>3, <2>4, <2>5, ChargesFinite
  <2>7. \A e \in Dispatcher : Len(disp'[e].hand) <= Concurrency
    BY <1>1, <1>2 DEF SpendInv, QInv, TypeOK
  <2> QED BY <1>2, <2>6, <2>7 DEF SpendInv, Excess
<1> QED BY <1>2, <1>3, <1>4

LEMMA PopSpends ==
  ASSUME QInv, SpendInv, NEW d \in Dispatcher, NEW l \in Lane, Pop(d, l), QInv'
  PROVE  SpendInv'
<1> DEFINE room == Concurrency - Len(disp[d].hand)
<1>1. PICK s \in Popped(l, room) :
        disp' = [disp EXCEPT
           ![d].hand = @ \o [i \in DOMAIN s |-> [task |-> s[i], priority |-> lanes[l][s[i]]]],
           ![d].phase = IF Len(s) = room THEN "hand" ELSE After[l]]
  BY DEF Pop
<1>2. disp[d] \in Run /\ disp[d].hand \in Seq(Entry) /\ disp[d].phase = l /\ UNCHANGED tavily
  BY DEF Pop, QInv, TypeOK, Run
<1>3. Concurrency \in Nat /\ Len(disp[d].hand) \in Nat /\ Len(disp[d].hand) <= Concurrency
  BY <1>2, CollectQueueAssumption DEF SpendInv
<1>4. PICK n \in 0 .. room : s \in [1 .. n -> Members(l)]
  BY <1>1 DEF Popped
<1>5. PICK taken :
        taken = [i \in DOMAIN s |-> [task |-> s[i], priority |-> lanes[l][s[i]]]]
  OBVIOUS
<1>6. taken \in Seq(Entry) /\ Len(taken) = n
  <2>1. \A i \in 1 .. n : s[i] \in Task /\ lanes[l][s[i]] \in Nat
    BY <1>4 DEF Members, QInv, TypeOK
  <2>2. taken \in [1 .. n -> Entry] /\ n \in Nat
    BY <1>3, <1>4, <1>5, <2>1 DEF Entry
  <2> QED BY <2>2
<1>7. PICK y \in Run : disp' = [disp EXCEPT ![d] = y]
  <2>1. PICK y : y = disp'[d]
    OBVIOUS
  <2>2. disp' = [disp EXCEPT ![d] = y] /\ y \in Run
    BY <1>1, <2>1 DEF QInv, TypeOK
  <2> QED BY <2>2
<1>8. y.hand = disp[d].hand \o taken /\ y.left = disp[d].left /\ Len(y.hand) <= Concurrency
  <2>1. y = [disp[d] EXCEPT !.hand = @ \o taken,
                            !.phase = IF Len(s) = room THEN "hand" ELSE After[l]]
    BY <1>1, <1>5, <1>7 DEF QInv, TypeOK
  <2>2. y.hand = disp[d].hand \o taken /\ y.left = disp[d].left
    BY <1>2, <2>1 DEF Run
  <2>3. Len(y.hand) = Len(disp[d].hand) + n
    <3>1. PICK hand \in Seq(Entry) : hand = disp[d].hand
      BY <1>2
    <3>2. Len(hand \o taken) = Len(hand) + Len(taken)
      BY <1>6
    <3> QED BY <1>6, <2>2, <3>1, <3>2
  <2> QED BY <1>3, <1>4, <2>2, <2>3
<1>9. \A k \in 1 .. Concurrency : MayCharge(y, k) => MayCharge(disp[d], k)
  BY <1>2, <1>8 DEF MayCharge, Lane
<1> QED BY <1>2, <1>7, <1>8, <1>9, SpendsNoMore

\* A run that goes on to its next task, or hands this one over.
LEMMA PutSpends ==
  ASSUME QInv, SpendInv, NEW d \in Dispatcher, AtHand(d), UNCHANGED tavily,
         NEW phase \in {"hand", "refund"},
         disp' = [disp EXCEPT ![d] = [Put(d) EXCEPT !.phase = phase]]
  PROVE  SpendInv'
<1>1. /\ disp[d] \in Run /\ disp[d].hand \in Seq(Entry) /\ disp[d].hand # <<>>
      /\ disp[d].phase = "hand" /\ disp[d].charged \in BOOLEAN
  BY DEF AtHand, QInv, TypeOK, Run
<1>2. Put(d) \in Run /\ Put(d).hand = Tail(disp[d].hand)
  BY HandFacts
<1>3. Put(d).charged = FALSE /\ Put(d).left = disp[d].left
  BY <1>1 DEF Put, Run
<1>4. PICK y : y = [Put(d) EXCEPT !.phase = phase]
  OBVIOUS
<1>5. /\ y \in Run /\ y.hand = Tail(disp[d].hand) /\ y.phase = phase /\ y.charged = FALSE
      /\ y.left = disp[d].left
  BY <1>2, <1>3, <1>4 DEF Run
<1>6. Len(y.hand) = Len(disp[d].hand) - 1 /\ Len(disp[d].hand) \in Nat
  BY <1>1, <1>5
<1>7. \A k \in 1 .. Concurrency : MayCharge(y, k) => MayCharge(disp[d], k)
  <2> SUFFICES ASSUME NEW k \in 1 .. Concurrency, MayCharge(y, k) PROVE MayCharge(disp[d], k)
    OBVIOUS
  <2>1. PICK n \in Nat, c \in {0, 1} :
          n = Len(disp[d].hand) /\ c = (IF disp[d].charged THEN 1 ELSE 0)
    BY <1>1, <1>6
  <2>2. k <= n - 1 - 0 /\ k <= disp[d].left
    BY <1>5, <1>6, <2>1 DEF MayCharge
  <2>3. k \in Nat /\ k <= n - c
    BY <2>2, CollectQueueAssumption
  <2> QED BY <1>1, <2>1, <2>2, <2>3 DEF MayCharge
<1>8. Len(y.hand) <= Concurrency
  BY <1>6, CollectQueueAssumption DEF SpendInv
<1> QED BY <1>4, <1>5, <1>7, <1>8, SpendsNoMore

LEMMA ChargeSpends ==
  ASSUME QInv, SpendInv, NEW d \in Dispatcher, Charge(d)
  PROVE  SpendInv'
<1>1. /\ disp[d] \in Run /\ disp[d].hand \in Seq(Entry) /\ disp[d].hand # <<>>
      /\ disp[d].phase = "hand" /\ disp[d].charged = FALSE /\ disp[d].left \in Int
      /\ disp[d].left > 0 /\ tavily' = tavily - 1 /\ tavily \in Int
  BY DEF Charge, AtHand, QInv, TypeOK, Run
<1>2. PICK y : y = [disp[d] EXCEPT !.left = @ - 1, !.charged = TRUE]
  OBVIOUS
<1>3. /\ disp' = [disp EXCEPT ![d] = y] /\ y.phase = "hand" /\ y.charged = TRUE
      /\ y.left = disp[d].left - 1 /\ y.hand = disp[d].hand
  BY <1>1, <1>2 DEF Charge, QInv, TypeOK, Run
<1>4. Len(disp[d].hand) \in 1 .. Concurrency /\ Concurrency \in Nat
  BY <1>1, CollectQueueAssumption DEF SpendInv
<1>5. PICK m \in 1 .. Concurrency :
        /\ m <= disp[d].left /\ m <= Len(disp[d].hand)
        /\ m = disp[d].left \/ m = Len(disp[d].hand)
  <2>1. CASE disp[d].left <= Len(disp[d].hand)
    BY <1>1, <1>4, <2>1
  <2>2. CASE ~(disp[d].left <= Len(disp[d].hand))
    BY <1>1, <1>4, <2>2
  <2> QED BY <2>1, <2>2
<1>6. PICK last : last = <<d, m>>
  OBVIOUS
<1>7. last \in Charges
  <2>1. MayCharge(disp[d], m)
    BY <1>1, <1>4, <1>5 DEF MayCharge
  <2> QED BY <1>6, <2>1 DEF Charges
<1>8. Charges' \subseteq Charges \ {last}
  <2> SUFFICES ASSUME NEW c \in Charges' PROVE c \in Charges /\ c # last
    OBVIOUS
  <2>1. ASSUME NEW k \in 1 .. Concurrency, c = <<d, k>>, MayCharge(y, k)
        PROVE  c \in Charges /\ c # last
    <3>1. k <= disp[d].left - 1 /\ k <= Len(disp[d].hand) - 1
      BY <1>3, <2>1 DEF MayCharge
    <3>2. k # m /\ MayCharge(disp[d], k)
      BY <1>1, <1>4, <1>5, <3>1 DEF MayCharge
    <3> QED BY <1>6, <2>1, <3>2 DEF Charges
  <2>2. ASSUME c \in Charges, c[1] # d PROVE c # last
    BY <1>6, <2>2
  <2> QED BY <1>3, <2>1, <2>2, ChargesOf
<1>9. /\ IsFiniteSet(Charges \ {last})
      /\ Cardinality(Charges \ {last}) = Cardinality(Charges) - 1
  BY <1>7, ChargesFinite, FS_RemoveElement
<1>10. Cardinality(Charges') <= Cardinality(Charges) - 1 /\ Cardinality(Charges') \in Nat
  BY <1>8, <1>9, FS_Subset, FS_CardinalityType
<1>11. Cardinality(Charges') <= tavily' + Excess
  BY <1>1, <1>10, ChargesFinite DEF SpendInv
<1>12. \A e \in Dispatcher : Len(disp'[e].hand) <= Concurrency
  BY <1>3, <1>4 DEF SpendInv, QInv, TypeOK
<1> QED BY <1>11, <1>12 DEF SpendInv, Excess

LEMMA RefundSpends ==
  ASSUME QInv, SpendInv, NEW d \in Dispatcher, Refund(d)
  PROVE  SpendInv'
<1>1. /\ disp[d] \in Run /\ disp[d].phase = "refund" /\ disp[d].left \in Int
      /\ tavily' = tavily + 1 /\ tavily \in Int
  BY DEF Refund, QInv, TypeOK, Run
<1>2. PICK y : y = [disp[d] EXCEPT !.phase = "hand", !.left = @ + 1]
  OBVIOUS
<1>3. /\ disp' = [disp EXCEPT ![d] = y] /\ y.phase = "hand" /\ y.charged = disp[d].charged
      /\ y.left = disp[d].left + 1 /\ y.hand = disp[d].hand
  BY <1>1, <1>2 DEF Refund, QInv, TypeOK, Run
<1>4. PICK new : new = <<d, disp[d].left + 1>>
  OBVIOUS
<1>5. Charges' \subseteq Charges \cup {new}
  <2> SUFFICES ASSUME NEW c \in Charges', c # new PROVE c \in Charges
    OBVIOUS
  <2>1. ASSUME NEW k \in 1 .. Concurrency, c = <<d, k>>, MayCharge(y, k) PROVE c \in Charges
    <3>1. k <= disp[d].left + 1 /\ k # disp[d].left + 1
      BY <1>3, <1>4, <2>1 DEF MayCharge
    <3>2. k <= disp[d].left
      BY <1>1, <3>1
    <3>3. MayCharge(disp[d], k)
      BY <1>1, <1>3, <2>1, <3>2 DEF MayCharge
    <3> QED BY <2>1, <3>3 DEF Charges
  <2> QED BY <1>3, <2>1, ChargesOf
<1>6. /\ IsFiniteSet(Charges \cup {new})
      /\ Cardinality(Charges \cup {new}) <= Cardinality(Charges) + 1
      /\ Cardinality(Charges \cup {new}) \in Nat
  <2>1. /\ IsFiniteSet(Charges \cup {new})
        /\ \/ Cardinality(Charges \cup {new}) = Cardinality(Charges)
           \/ Cardinality(Charges \cup {new}) = Cardinality(Charges) + 1
    BY ChargesFinite, FS_AddElement
  <2> QED BY <2>1, ChargesFinite, FS_CardinalityType
<1>7. /\ Cardinality(Charges') <= Cardinality(Charges \cup {new})
      /\ Cardinality(Charges') \in Nat
  BY <1>5, <1>6, FS_Subset, FS_CardinalityType
<1>8. Cardinality(Charges') <= tavily' + Excess
  BY <1>1, <1>6, <1>7, ChargesFinite DEF SpendInv
<1>9. \A e \in Dispatcher : Len(disp'[e].hand) <= Concurrency
  BY <1>3 DEF SpendInv, QInv, TypeOK
<1> QED BY <1>8, <1>9 DEF SpendInv, Excess

LEMMA RestSpends ==
  ASSUME QInv, SpendInv, NEW d \in Dispatcher, UNCHANGED tavily,
         disp' = [disp EXCEPT ![d] = IdleRun]
  PROVE  SpendInv'
<1>1. IdleRun.phase = "idle" /\ Len(IdleRun.hand) <= Concurrency
  BY CollectQueueAssumption DEF IdleRun
<1>2. \A k \in 1 .. Concurrency : ~MayCharge(IdleRun, k)
  BY <1>1 DEF MayCharge
<1> QED BY <1>1, <1>2, IdleFacts, SpendsNoMore

LEMMA NextSpends ==
  ASSUME QInv, SpendInv, [Next]_vars, QInv'
  PROVE  SpendInv'
<1>1. CASE UNCHANGED <<tavily, disp>>
  BY <1>1 DEF SpendInv, Charges, MayCharge, Excess
<1>2. ASSUME NEW d \in Dispatcher, DispatchStep(d) PROVE SpendInv'
  <2>1. CASE DispatchBegin(d)
    BY <2>1, BeginSpends
  <2>2. ASSUME NEW l \in Lane, Pop(d, l) PROVE SpendInv'
    BY <2>2, PopSpends
  <2>3. CASE Postpone(d) \/ Deliver(d)
    <3>1. AtHand(d) /\ UNCHANGED tavily /\ disp' = [disp EXCEPT ![d] = Put(d)]
      BY <2>3 DEF Postpone, Deliver, Payable
    <3>2. Put(d) = [Put(d) EXCEPT !.phase = "hand"]
      BY <3>1, HandFacts DEF Run
    <3> QED BY <3>1, <3>2, PutSpends
  <2>4. CASE Charge(d)
    BY <2>4, ChargeSpends
  <2>5. CASE DeliverFails(d)
    <3>1. PICK phase \in {"hand", "refund"} :
            phase = IF disp[d].charged THEN "refund" ELSE "hand"
      OBVIOUS
    <3>2. AtHand(d) /\ UNCHANGED tavily
          /\ disp' = [disp EXCEPT ![d] = [Put(d) EXCEPT !.phase = phase]]
      BY <2>5, <3>1 DEF DeliverFails, Payable
    <3> QED BY <3>2, PutSpends
  <2>6. CASE Refund(d)
    BY <2>6, RefundSpends
  <2>7. CASE DispatchEnd(d)
    BY <2>7, RestSpends DEF DispatchEnd
  <2> QED BY <1>2, <2>1, <2>2, <2>3, <2>4, <2>5, <2>6, <2>7 DEF DispatchStep
<1>3. ASSUME NEW d \in Dispatcher, DispatchDies(d) PROVE SpendInv'
  BY <1>3, RestSpends DEF DispatchDies
<1>4. ASSUME NEW x \in Task, Enqueue(x) \/ RunJob(x) PROVE SpendInv'
  BY <1>1, <1>4 DEF Enqueue, RunJob
<1>5. ASSUME NEW h \in Handler,
             \/ \E B \in SUBSET Recorded : Ask(h, B)
             \/ AskEnqueue(h) \/ AskFails(h) \/ AskEnd(h) \/ AskDies(h)
      PROVE  SpendInv'
  BY <1>1, <1>5 DEF Ask, AskEnqueue, AskFails, AskEnd, AskDies
<1> QED BY <1>1, <1>2, <1>3, <1>4, <1>5 DEF Next, vars

LEMMA InitSpends == Init => SpendInv
<1> SUFFICES ASSUME Init PROVE SpendInv
  OBVIOUS
<1>1. \A d \in Dispatcher : disp[d].phase = "idle" /\ Len(disp[d].hand) = 0
  BY DEF Init, IdleRun
<1>2. Charges = {}
  BY <1>1 DEF Charges, MayCharge
<1>3. Cardinality(Charges) = 0 /\ tavily \in Nat
  BY <1>2, FS_EmptySet, CollectQueueAssumption DEF Init
<1> QED BY <1>1, <1>3, ChargesFinite, CollectQueueAssumption DEF SpendInv

LEMMA SpendBounds == SpendInv /\ QInv => OverspendBounded
<1> SUFFICES ASSUME SpendInv, QInv PROVE OverspendBounded
  OBVIOUS
<1>1. tavily + Excess >= 0 /\ tavily \in Int
  BY ChargesFinite DEF SpendInv, QInv, TypeOK
<1> QED BY <1>1, ChargesFinite DEF OverspendBounded, Excess

\* get_tavily_budget_remaining and decrement_tavily_budget: however many dispatchers
\* overlap, and however often they start, die and refund, the counter falls below zero by
\* one full batch of every dispatcher but one at most.
THEOREM OverspendStaysBounded == Spec => []OverspendBounded
<1>1. QInv /\ SpendInv /\ [Next]_vars /\ QInv' => SpendInv'
  BY NextSpends
<1> QED BY <1>1, SpendBounds, InitSpends, Queue, PTL DEF Spec

(***************************************************************************)
(* No task is multiplied.  Each place a task can be in (lanes, hands,      *)
(* handlers, Arq) is counted by itself; a step moves one unit from one     *)
(* count to another, unless it is a new request or a late hand-over.       *)
(***************************************************************************)
LEMMA SubsetCount ==
  ASSUME NEW S, IsFiniteSet(S), NEW T, T \subseteq S
  PROVE  /\ IsFiniteSet(T) /\ Cardinality(S) \in Nat /\ Cardinality(T) \in Nat
         /\ Cardinality(T) <= Cardinality(S)
         /\ \A e \in S : e \notin T => Cardinality(T) + 1 <= Cardinality(S)
<1>1. /\ IsFiniteSet(T) /\ Cardinality(S) \in Nat /\ Cardinality(T) \in Nat
      /\ Cardinality(T) <= Cardinality(S) /\ (Cardinality(S) = Cardinality(T) => S = T)
  BY FS_Subset, FS_CardinalityType
<1> QED BY <1>1

LEMMA OneMoreCount ==
  ASSUME NEW S, IsFiniteSet(S), NEW T, NEW e, T \subseteq S \cup {e}
  PROVE  /\ IsFiniteSet(T) /\ Cardinality(S) \in Nat /\ Cardinality(T) \in Nat
         /\ Cardinality(T) <= Cardinality(S) + 1
<1>1. /\ IsFiniteSet(S \cup {e}) /\ Cardinality(S) \in Nat
      /\ Cardinality(S \cup {e}) <= Cardinality(S) + 1
  BY FS_AddElement, FS_CardinalityType
<1>2. /\ IsFiniteSet(T) /\ Cardinality(T) \in Nat /\ Cardinality(S \cup {e}) \in Nat
      /\ Cardinality(T) <= Cardinality(S \cup {e})
  BY <1>1, SubsetCount
<1> QED BY <1>1, <1>2

AskersFinite == \A x \in Task : IsFiniteSet(Askers(x))

LEMMA CountsFinite ==
  ASSUME NEW x \in Task
  PROVE  IsFiniteSet(InLanes(x)) /\ IsFiniteSet(Held(x))
<1>1. IsFiniteSet(Lane)
  <2>1. IsFiniteSet({"high"}) /\ IsFiniteSet({"high"} \cup {"normal"})
    BY FS_Singleton, FS_AddElement
  <2>2. IsFiniteSet(({"high"} \cup {"normal"}) \cup {"low"})
    BY <2>1, FS_AddElement
  <2>3. Lane = ({"high"} \cup {"normal"}) \cup {"low"}
    BY DEF Lane
  <2> QED BY <2>2, <2>3
<1>2. IsFiniteSet(Dispatcher \X (1 .. Concurrency))
  <2>1. IsFiniteSet(1 .. Concurrency)
    BY CollectQueueAssumption, FS_Interval
  <2> QED BY <2>1, CollectQueueAssumption, FS_Product
<1> QED BY <1>1, <1>2, FS_Subset DEF InLanes, Held

LanesGrow(x, n) == /\ Cardinality(InLanes(x)) \in Nat /\ Cardinality(InLanes(x))' \in Nat
                   /\ Cardinality(InLanes(x))' <= Cardinality(InLanes(x)) + n
HandsGrow(x, n) == /\ Cardinality(Held(x)) \in Nat /\ Cardinality(Held(x))' \in Nat
                   /\ Cardinality(Held(x))' <= Cardinality(Held(x)) + n
AskersGrow(x, n) == /\ Cardinality(Askers(x)) \in Nat /\ Cardinality(Askers(x))' \in Nat
                    /\ Cardinality(Askers(x))' <= Cardinality(Askers(x)) + n

\* ZADD adds one entry of its task at most, and none to a lane in which the task waits.
LEMMA ZaddGrows ==
  ASSUME QInv, NEW x \in Task, NEW p \in Nat \ {0}, lanes' = Zadd(lanes, x, p), NEW y \in Task
  PROVE  /\ LanesGrow(y, IF y = x THEN 1 ELSE 0)
         /\ lanes[lane_of(p)][x] # Out => LanesGrow(y, 0)
<1> DEFINE l == lane_of(p)
<1>1. l \in Lane
  BY DEF lane_of, Lane
<1> HIDE DEF l
<1>2. \A k \in Lane : ~(k = l /\ y = x) => lanes'[k][y] = lanes[k][y]
  BY <1>1 DEF Zadd, l, QInv, TypeOK
<1>3. InLanes(y)' \subseteq InLanes(y) \cup {l} /\ (y # x => InLanes(y)' \subseteq InLanes(y))
  BY <1>2 DEF InLanes
<1>4. IsFiniteSet(InLanes(y))
  BY CountsFinite
<1> HIDE DEF l
<1>5. /\ Cardinality(InLanes(y)) \in Nat /\ Cardinality(InLanes(y)') \in Nat
      /\ Cardinality(InLanes(y)') <= Cardinality(InLanes(y)) + 1
  BY <1>3, <1>4, OneMoreCount
<1>6. y # x => Cardinality(InLanes(y)') <= Cardinality(InLanes(y))
  BY <1>3, <1>4, SubsetCount
<1>7. lanes[l][x] # Out => Cardinality(InLanes(y)') <= Cardinality(InLanes(y))
  <2>1. lanes[l][x] # Out => InLanes(y)' \subseteq InLanes(y)
    BY <1>1, <1>2 DEF InLanes
  <2> QED BY <1>4, <2>1, SubsetCount
<1> QED BY <1>5, <1>6, <1>7 DEF LanesGrow, l

LEMMA LanesStay ==
  ASSUME UNCHANGED lanes, NEW y \in Task
  PROVE  LanesGrow(y, 0)
<1>1. InLanes(y)' = InLanes(y) /\ IsFiniteSet(InLanes(y))
  BY CountsFinite DEF InLanes
<1>2. Cardinality(InLanes(y)) \in Nat
  BY <1>1, FS_CardinalityType
<1> QED BY <1>1, <1>2 DEF LanesGrow

\* A run whose hand only loses entries, without a shift.
LEMMA HandsStay ==
  ASSUME QInv, NEW d \in Dispatcher, NEW y, disp' = [disp EXCEPT ![d] = y],
         y.hand = disp[d].hand \/ y.hand = <<>>, NEW x \in Task
  PROVE  HandsGrow(x, 0)
<1>1. disp'[d] = y /\ \A e \in Dispatcher \ {d} : disp'[e] = disp[e]
  BY DEF QInv, TypeOK
<1>2. Held(x)' \subseteq Held(x)
  BY <1>1 DEF Held
<1>3. IsFiniteSet(Held(x))
  BY CountsFinite
<1> QED BY <1>2, <1>3, SubsetCount DEF HandsGrow

LEMMA HandsSame ==
  ASSUME UNCHANGED disp, NEW x \in Task
  PROVE  HandsGrow(x, 0)
<1>1. Held(x)' \subseteq Held(x) /\ IsFiniteSet(Held(x))
  BY CountsFinite DEF Held
<1> QED BY <1>1, SubsetCount DEF HandsGrow

\* Going on to the next task takes one entry of the task at hand off; the others move up.
LEMMA HandsPut ==
  ASSUME QInv, SpendInv, NEW d \in Dispatcher, AtHand(d), NEW y,
         disp' = [disp EXCEPT ![d] = y], y.hand = Tail(disp[d].hand), NEW x \in Task
  PROVE  HandsGrow(x, IF x = Head1(d).task THEN -1 ELSE 0)
<1> DEFINE head == IF x = Head1(d).task THEN {<<d, 1>>} ELSE {}
           f == [p \in Held(x)' |-> IF p[1] = d THEN <<d, p[2] + 1>> ELSE p]
<1>1. disp'[d] = y /\ \A e \in Dispatcher \ {d} : disp'[e] = disp[e]
  BY DEF QInv, TypeOK
<1>2. PICK hand \in Seq(Entry) : hand = disp[d].hand /\ hand # <<>>
  BY DEF QInv, TypeOK, Run, AtHand
<1>3. /\ Len(hand) \in Nat /\ DOMAIN hand = 1 .. Len(hand) /\ Len(hand) > 0
      /\ Len(hand) <= Concurrency /\ Concurrency \in Nat
      /\ DOMAIN y.hand = 1 .. (Len(hand) - 1)
      /\ \A i \in 1 .. (Len(hand) - 1) : y.hand[i] = hand[i + 1]
  <2>1. Len(hand) <= Concurrency /\ Concurrency \in Nat
    BY <1>2, CollectQueueAssumption DEF SpendInv
  <2> QED BY <1>2, <2>1
<1>4. ASSUME NEW p \in Held(x)'
      PROVE  /\ p = <<p[1], p[2]>> /\ p[1] \in Dispatcher /\ p[2] \in Nat \ {0}
             /\ p[1] = d => /\ p[2] + 1 \in 1 .. Concurrency
                            /\ p[2] + 1 \in DOMAIN hand /\ hand[p[2] + 1].task = x
             /\ p[1] # d => p \in Held(x)
  <2>1. /\ p \in Dispatcher \X (1 .. Concurrency)
        /\ p[2] \in DOMAIN disp'[p[1]].hand /\ disp'[p[1]].hand[p[2]].task = x
    BY <1>4 DEF Held
  <2>2. p = <<p[1], p[2]>> /\ p[1] \in Dispatcher /\ p[2] \in 1 .. Concurrency
    BY <2>1
  <2>3. CASE p[1] = d
    <3>1. PICK i \in 1 .. Concurrency : i = p[2]
      BY <2>2
    <3>2. i \in DOMAIN y.hand /\ y.hand[i].task = x
      BY <1>1, <2>1, <2>3, <3>1
    <3>3. i \in 1 .. (Len(hand) - 1) /\ y.hand[i] = hand[i + 1]
      BY <1>3, <3>2
    <3>4. i + 1 \in 1 .. Concurrency /\ i + 1 \in DOMAIN hand /\ hand[i + 1].task = x
      BY <1>3, <3>2, <3>3
    <3> QED BY <2>2, <2>3, <3>1, <3>4
  <2>4. CASE p[1] # d
    BY <1>1, <1>3, <2>1, <2>2, <2>4 DEF Held
  <2> QED BY <1>3, <2>2, <2>3, <2>4
<1>5. ASSUME NEW p \in Held(x)' PROVE f[p] \in Held(x) \ {<<d, 1>>}
  <2>1. CASE p[1] = d
    <3>1. f[p] = <<d, p[2] + 1>> /\ f[p] \in Dispatcher \X (1 .. Concurrency)
      BY <1>4, <2>1
    <3>2. f[p][1] = d /\ f[p][2] = p[2] + 1 /\ f[p] # <<d, 1>>
      BY <1>4, <3>1
    <3> QED BY <1>2, <1>4, <2>1, <3>1, <3>2 DEF Held
  <2>2. CASE p[1] # d
    BY <1>4, <2>2
  <2> QED BY <2>1, <2>2
<1>6. ASSUME NEW p \in Held(x)', NEW q \in Held(x)', f[p] = f[q] PROVE p = q
  <2>1. (p[1] = d <=> f[p][1] = d) /\ (q[1] = d <=> f[q][1] = d)
    BY <1>4
  <2>2. CASE p[1] = d
    <3>1. <<d, p[2] + 1>> = <<d, q[2] + 1>> /\ q[1] = d
      BY <1>6, <2>1, <2>2
    <3>2. p[2] = q[2]
      <4>1. p[2] + 1 = q[2] + 1
        BY <3>1
      <4> QED BY <1>4, <4>1
    <3> QED BY <1>4, <2>2, <3>1, <3>2
  <2>3. CASE p[1] # d
    BY <1>6, <2>1, <2>3
  <2> QED BY <2>2, <2>3
<1>7. f \in Injection(Held(x)', Held(x) \ {<<d, 1>>})
  <2>1. f \in [Held(x)' -> Held(x) \ {<<d, 1>>}]
    BY <1>5
  <2> HIDE DEF f
  <2> QED BY <1>6, <2>1 DEF Injection, IsInjective
<1> HIDE DEF f
<1>8. IsFiniteSet(Held(x)) /\ IsFiniteSet(Held(x) \ {<<d, 1>>})
  BY CountsFinite, FS_Subset
<1>9. /\ IsFiniteSet(Held(x)') /\ Cardinality(Held(x)') \in Nat
      /\ Cardinality(Held(x)') <= Cardinality(Held(x) \ {<<d, 1>>})
  BY <1>7, <1>8, FS_Injection, FS_CardinalityType
<1>10. /\ Cardinality(Held(x)) \in Nat /\ Cardinality(Held(x) \ {<<d, 1>>}) \in Nat
       /\ Cardinality(Held(x) \ {<<d, 1>>}) <= Cardinality(Held(x))
       /\ <<d, 1>> \in Held(x)
            => Cardinality(Held(x) \ {<<d, 1>>}) + 1 <= Cardinality(Held(x))
  BY <1>8, SubsetCount
<1>11. x = Head1(d).task => <<d, 1>> \in Held(x)
  BY <1>2, <1>3 DEF Head1, Held
<1> QED BY <1>9, <1>10, <1>11 DEF HandsGrow

LEMMA ConcatAt ==
  ASSUME NEW s \in Seq(Entry), NEW t \in Seq(Entry)
  PROVE  /\ DOMAIN (s \o t) = 1 .. (Len(s) + Len(t))
         /\ \A i \in 1 .. (Len(s) + Len(t)) :
              (s \o t)[i] = IF i <= Len(s) THEN s[i] ELSE t[i - Len(s)]
OBVIOUS

\* A pop moves entries of one lane to the hand, each task once.
LEMMA PopMoves ==
  ASSUME QInv, NEW d \in Dispatcher, NEW l \in Lane, Pop(d, l), NEW x \in Task
  PROVE  \/ LanesGrow(x, 0) /\ HandsGrow(x, 0)
         \/ LanesGrow(x, -1) /\ HandsGrow(x, 1)
<1> DEFINE room == Concurrency - Len(disp[d].hand)
<1>1. PICK s \in Popped(l, room) :
        LET taken == [i \in DOMAIN s |-> [task |-> s[i], priority |-> lanes[l][s[i]]]]
        IN /\ lanes' = [lanes EXCEPT ![l] =
                 [z \in Task |-> IF z \in {s[i] : i \in DOMAIN s} THEN Out ELSE @[z]]]
           /\ disp' = [disp EXCEPT
                 ![d].hand = @ \o taken,
                 ![d].phase = IF Len(s) = room THEN "hand" ELSE After[l]]
  BY DEF Pop
<1>2. PICK taken :
        taken = [i \in DOMAIN s |-> [task |-> s[i], priority |-> lanes[l][s[i]]]]
  OBVIOUS
<1>3. PICK n \in Nat : s \in [1 .. n -> Members(l)]
  BY <1>1 DEF Popped
<1>4. \A i, j \in 1 .. n : i < j => s[i] # s[j]
  BY <1>1, <1>3 DEF Popped
<1>5. \A i \in 1 .. n : s[i] \in Task /\ lanes[l][s[i]] \in Nat /\ lanes[l][s[i]] # Out
  BY <1>3 DEF Members, QInv, TypeOK
<1>6. taken \in Seq(Entry) /\ Len(taken) = n /\ \A i \in 1 .. n : taken[i].task = s[i]
  <2>1. taken \in [1 .. n -> Entry] /\ \A i \in 1 .. n : taken[i].task = s[i]
    BY <1>2, <1>3, <1>5 DEF Entry
  <2> QED BY <2>1
<1>7. PICK hand \in Seq(Entry) : hand = disp[d].hand
  BY DEF QInv, TypeOK, Run
<1>8. /\ disp'[d].hand = hand \o taken
      /\ \A e \in Dispatcher \ {d} : disp'[e] = disp[e]
  BY <1>1, <1>2, <1>7 DEF QInv, TypeOK, Run
<1>9. PICK m \in Nat : m = Len(hand) /\ DOMAIN hand = 1 .. m
  BY <1>7
<1>10. /\ DOMAIN (hand \o taken) = 1 .. (m + n)
       /\ \A i \in 1 .. (m + n) :
            (hand \o taken)[i] = IF i <= m THEN hand[i] ELSE taken[i - m]
  BY <1>6, <1>7, <1>9, ConcatAt
<1>11. \A k \in Lane, z \in Task :
         lanes'[k][z] = IF k = l /\ z \in {s[i] : i \in DOMAIN s} THEN Out ELSE lanes[k][z]
  BY <1>1 DEF QInv, TypeOK
<1>12. IsFiniteSet(InLanes(x)) /\ IsFiniteSet(Held(x))
  BY CountsFinite
<1>13. InLanes(x)' \subseteq InLanes(x)
  BY <1>11 DEF InLanes, Out
<1>14. ASSUME NEW p \in Held(x)'
       PROVE  p \in Held(x) \/ \E j \in 1 .. n : x = s[j] /\ p = <<d, m + j>>
  <2>1. /\ p \in Dispatcher \X (1 .. Concurrency)
        /\ p[2] \in DOMAIN disp'[p[1]].hand /\ disp'[p[1]].hand[p[2]].task = x
    BY <1>14 DEF Held
  <2>2. p = <<p[1], p[2]>> /\ p[1] \in Dispatcher
    BY <2>1
  <2>3. CASE p[1] # d
    BY <1>8, <2>1, <2>2, <2>3 DEF Held
  <2>4. CASE p[1] = d
    <3>1. PICK i \in 1 .. (m + n) : i = p[2]
      BY <1>8, <1>10, <2>1, <2>4
    <3>2. CASE i <= m
      <4>1. i \in DOMAIN hand /\ hand[i].task = x
        BY <1>8, <1>9, <1>10, <2>1, <2>4, <3>1, <3>2
      <4> QED BY <1>7, <2>1, <2>4, <3>1, <4>1 DEF Held
    <3>3. CASE i > m
      <4>1. PICK j \in 1 .. n : j = i - m
        BY <1>9, <3>3
      <4>2. (hand \o taken)[i] = taken[j] /\ m + j = i
        BY <1>9, <1>10, <3>3, <4>1
      <4>3. taken[j].task = x
        BY <1>8, <2>1, <2>4, <3>1, <4>2
      <4> QED BY <1>6, <2>2, <2>4, <3>1, <4>2, <4>3
    <3> QED BY <1>9, <3>2, <3>3
  <2> QED BY <2>3, <2>4
<1>15. CASE x \notin {s[i] : i \in DOMAIN s}
  <2>1. Held(x)' \subseteq Held(x)
    BY <1>3, <1>14, <1>15
  <2> QED BY <1>12, <1>13, <2>1, SubsetCount DEF LanesGrow, HandsGrow
<1>16. CASE x \in {s[i] : i \in DOMAIN s}
  <2>1. PICK j \in 1 .. n : x = s[j]
    BY <1>3, <1>16
  <2>2. ASSUME NEW i \in 1 .. n, x = s[i] PROVE i = j
    <3>1. ~(i < j) /\ ~(j < i)
      BY <1>4, <2>1, <2>2
    <3> QED BY <3>1
  <2>3. Held(x)' \subseteq Held(x) \cup {<<d, m + j>>}
    BY <1>14, <2>2
  <2>4. HandsGrow(x, 1)
    <3>1. PICK e : e = <<d, m + j>>
      OBVIOUS
    <3>2. Held(x)' \subseteq Held(x) \cup {e}
      BY <2>3, <3>1
    <3> QED BY <1>12, <3>2, OneMoreCount DEF HandsGrow
  <2>5. l \in InLanes(x) /\ l \notin InLanes(x)'
    BY <1>5, <1>11, <1>16, <2>1 DEF InLanes
  <2>6. LanesGrow(x, -1)
    BY <1>12, <1>13, <2>5, SubsetCount DEF LanesGrow
  <2> QED BY <2>4, <2>6
<1> QED BY <1>15, <1>16

(***************************************************************************)
(* The balance.                                                            *)
(***************************************************************************)
NotMultiplied(x) ==
  /\ CopiesOf(x)' <= CopiesOf(x) + 1
  /\ CopiesOf(x)' > CopiesOf(x) => Requested(x) \/ TakenLate(x)

LEMMA Balance ==
  ASSUME QInv, QInv', NEW x \in Task, NEW l \in Int, NEW h \in Int, NEW a \in Int,
         LanesGrow(x, l), HandsGrow(x, h), AskersGrow(x, a),
         l + h + a + arq'[x] <= arq[x] + 1,
         l + h + a + arq'[x] <= arq[x] \/ Requested(x) \/ TakenLate(x)
  PROVE  NotMultiplied(x)
<1>1. arq[x] \in Nat /\ arq'[x] \in Nat
  BY DEF QInv, TypeOK
<1>2. PICK l0, l1, h0, h1, a0, a1 \in Nat :
        /\ l0 = Cardinality(InLanes(x)) /\ l1 = Cardinality(InLanes(x))' /\ l1 <= l0 + l
        /\ h0 = Cardinality(Held(x)) /\ h1 = Cardinality(Held(x))' /\ h1 <= h0 + h
        /\ a0 = Cardinality(Askers(x)) /\ a1 = Cardinality(Askers(x))' /\ a1 <= a0 + a
  BY DEF LanesGrow, HandsGrow, AskersGrow
<1>3. CopiesOf(x) = l0 + h0 + a0 + arq[x] /\ CopiesOf(x)' = l1 + h1 + a1 + arq'[x]
  BY <1>2 DEF CopiesOf
<1>4. l1 + h1 + a1 + arq'[x] <= l0 + h0 + a0 + arq[x] + 1
  BY <1>1, <1>2
<1>5. l + h + a + arq'[x] <= arq[x]
        => ~(l1 + h1 + a1 + arq'[x] > l0 + h0 + a0 + arq[x])
  BY <1>1, <1>2
<1> QED BY <1>3, <1>4, <1>5 DEF NotMultiplied

LEMMA AskersStay ==
  ASSUME AskersFinite, NEW x \in Task, UNCHANGED asking
  PROVE  AskersGrow(x, 0) /\ IsFiniteSet(Askers(x)')
<1>1. Askers(x)' = Askers(x) /\ IsFiniteSet(Askers(x))
  BY DEF Askers, AskersFinite
<1>2. Cardinality(Askers(x)) \in Nat
  BY <1>1, FS_CardinalityType
<1> QED BY <1>1, <1>2 DEF AskersGrow

\* The steps of a dispatcher ask for nothing.
LEMMA DispatchBalance ==
  ASSUME QInv, QInv', SpendInv, AskersFinite, NEW d \in Dispatcher,
         DispatchStep(d) \/ DispatchDies(d), NEW x \in Task
  PROVE  NotMultiplied(x)
<1>1. UNCHANGED apiVars
  BY DEF DispatchStep, DispatchBegin, Pop, Postpone, Charge, Deliver, DeliverFails, Refund,
         DispatchEnd, DispatchDies
<1>2. AskersGrow(x, 0) /\ arq[x] \in Nat /\ faults \in Nat
  BY <1>1, AskersStay DEF apiVars, QInv, TypeOK
<1>3. CASE DispatchBegin(d) \/ Charge(d) \/ Refund(d) \/ DispatchEnd(d) \/ DispatchDies(d)
  <2>1. PICK y : disp' = [disp EXCEPT ![d] = y] /\ (y.hand = disp[d].hand \/ y.hand = <<>>)
    <3>1. CASE DispatchBegin(d)
      <4>1. PICK y : y = [IdleRun EXCEPT !.phase = "high", !.left = tavily]
        OBVIOUS
      <4>2. disp' = [disp EXCEPT ![d] = y] /\ y.hand = <<>>
        BY <3>1, <4>1 DEF DispatchBegin, IdleRun
      <4> QED BY <4>2
    <3>2. CASE DispatchEnd(d) \/ DispatchDies(d)
      BY <3>2 DEF DispatchEnd, DispatchDies, IdleRun
    <3>3. CASE Charge(d)
      <4>1. PICK y : y = [disp[d] EXCEPT !.left = @ - 1, !.charged = TRUE]
        OBVIOUS
      <4>2. disp' = [disp EXCEPT ![d] = y] /\ y.hand = disp[d].hand
        BY <3>3, <4>1 DEF Charge, QInv, TypeOK, Run
      <4> QED BY <4>2
    <3>4. CASE Refund(d)
      <4>1. PICK y : y = [disp[d] EXCEPT !.phase = "hand", !.left = @ + 1]
        OBVIOUS
      <4>2. disp' = [disp EXCEPT ![d] = y] /\ y.hand = disp[d].hand
        BY <3>4, <4>1 DEF Refund, QInv, TypeOK, Run
      <4> QED BY <4>2
    <3> QED BY <1>3, <3>1, <3>2, <3>3, <3>4
  <2>2. UNCHANGED <<lanes, arq>>
    BY <1>3 DEF DispatchBegin, Charge, Refund, DispatchEnd, DispatchDies
  <2>3. HandsGrow(x, 0) /\ LanesGrow(x, 0)
    BY <2>1, <2>2, HandsStay, LanesStay
  <2> QED BY <1>2, <2>2, <2>3, Balance
<1>4. ASSUME NEW l \in Lane, Pop(d, l) PROVE NotMultiplied(x)
  <2>1. UNCHANGED arq
    BY <1>4 DEF Pop
  <2>2. CASE LanesGrow(x, 0) /\ HandsGrow(x, 0)
    BY <1>2, <2>1, <2>2, Balance
  <2>3. CASE LanesGrow(x, -1) /\ HandsGrow(x, 1)
    BY <1>2, <2>1, <2>3, Balance
  <2> QED BY <1>4, <2>2, <2>3, PopMoves
<1>5. CASE Postpone(d)
  <2>1. /\ AtHand(d) /\ UNCHANGED arq /\ disp' = [disp EXCEPT ![d] = Put(d)]
        /\ lanes' = Zadd(lanes, Head1(d).task, 1)
    BY <1>5 DEF Postpone
  <2>2. Head1(d).task \in Task /\ Put(d).hand = Tail(disp[d].hand)
    BY <2>1, HandFacts
  <2>3. PICK n \in {0, 1} : n = IF x = Head1(d).task THEN 1 ELSE 0
    OBVIOUS
  <2>4. HandsGrow(x, IF x = Head1(d).task THEN -1 ELSE 0)
    BY <2>1, <2>2, HandsPut
  <2>5. 1 \in Nat \ {0}
    OBVIOUS
  <2>6. LanesGrow(x, IF x = Head1(d).task THEN 1 ELSE 0)
    BY <2>1, <2>2, <2>5, ZaddGrows
  <2>7. CASE x = Head1(d).task
    <3>1. LanesGrow(x, 1) /\ HandsGrow(x, -1)
      BY <2>4, <2>6, <2>7
    <3> QED BY <1>2, <2>1, <3>1, Balance
  <2>8. CASE x # Head1(d).task
    <3>1. LanesGrow(x, 0) /\ HandsGrow(x, 0)
      BY <2>4, <2>6, <2>8
    <3> QED BY <1>2, <2>1, <3>1, Balance
  <2> QED BY <2>7, <2>8
<1>6. CASE Deliver(d)
  <2>1. /\ AtHand(d) /\ UNCHANGED lanes /\ disp' = [disp EXCEPT ![d] = Put(d)]
        /\ arq' = [arq EXCEPT ![Head1(d).task] = @ + 1]
    BY <1>6 DEF Deliver, Payable
  <2>2. Head1(d).task \in Task /\ Put(d).hand = Tail(disp[d].hand)
    BY <2>1, HandFacts
  <2>3. HandsGrow(x, IF x = Head1(d).task THEN -1 ELSE 0) /\ LanesGrow(x, 0)
    BY <2>1, <2>2, HandsPut, LanesStay
  <2>4. arq'[x] = IF x = Head1(d).task THEN arq[x] + 1 ELSE arq[x]
    BY <2>1, <2>2 DEF QInv, TypeOK
  <2>5. CASE x = Head1(d).task
    <3>1. LanesGrow(x, 0) /\ HandsGrow(x, -1) /\ arq'[x] = arq[x] + 1
      BY <2>3, <2>4, <2>5
    <3>2. 0 + (-1) + 0 + arq'[x] <= arq[x]
      BY <1>2, <3>1
    <3>3. 0 + (-1) + 0 + arq'[x] <= arq[x] + 1
      BY <1>2, <3>1
    <3> QED BY <1>2, <3>1, <3>2, <3>3, Balance
  <2>6. CASE x # Head1(d).task
    <3>1. LanesGrow(x, 0) /\ HandsGrow(x, 0) /\ arq'[x] = arq[x]
      BY <2>3, <2>4, <2>6
    <3> QED BY <1>2, <2>1, <3>1, Balance
  <2> QED BY <2>5, <2>6
<1>7. CASE DeliverFails(d)
  <2>1. PICK y : y = [Put(d) EXCEPT !.phase = IF disp[d].charged THEN "refund" ELSE "hand"]
    OBVIOUS
  <2>2. /\ AtHand(d) /\ disp' = [disp EXCEPT ![d] = y] /\ Fault
        /\ lanes' = Zadd(lanes, Head1(d).task, Head1(d).priority)
        /\ arq' = arq \/ arq' = [arq EXCEPT ![Head1(d).task] = @ + 1]
    BY <1>7, <2>1 DEF DeliverFails, Payable
  <2>3. /\ Head1(d).task \in Task /\ Head1(d).priority \in Nat \ {0}
        /\ y.hand = Tail(disp[d].hand)
    BY <2>1, <2>2, HandFacts DEF Run
  <2>4. faults' = faults - 1
    BY <2>2 DEF Fault
  <2>5. /\ arq'[x] = arq[x] \/ (x = Head1(d).task /\ arq'[x] = arq[x] + 1)
        /\ arq'[x] > arq[x] => TakenLate(x)
    <3>1. arq'[x] = arq[x] \/ (x = Head1(d).task /\ arq'[x] = arq[x] + 1)
      BY <2>2, <2>3 DEF QInv, TypeOK
    <3>2. faults' < faults
      BY <1>2, <2>4
    <3> QED BY <3>1, <3>2 DEF TakenLate
  <2>6. HandsGrow(x, IF x = Head1(d).task THEN -1 ELSE 0)
    BY <2>2, <2>3, HandsPut
  <2>7. LanesGrow(x, IF x = Head1(d).task THEN 1 ELSE 0)
    BY <2>2, <2>3, ZaddGrows
  <2>8. CASE x = Head1(d).task
    <3>1. LanesGrow(x, 1) /\ HandsGrow(x, -1)
      BY <2>6, <2>7, <2>8
    <3>2. /\ 1 + (-1) + 0 + arq'[x] <= arq[x] + 1
          /\ 1 + (-1) + 0 + arq'[x] <= arq[x] \/ TakenLate(x)
      BY <1>2, <2>5
    <3>3. QInv /\ QInv' /\ x \in Task /\ AskersGrow(x, 0) /\ 1 \in Int /\ -1 \in Int /\ 0 \in Int
      BY <1>2
    <3> QED BY ONLY <3>1, <3>2, <3>3, Balance, SMTT(30)
  <2>9. CASE x # Head1(d).task
    <3>1. LanesGrow(x, 0) /\ HandsGrow(x, 0)
      BY <2>6, <2>7, <2>9
    <3> QED BY <1>2, <2>5, <2>9, <3>1, Balance
  <2> QED BY <2>8, <2>9
<1> QED BY <1>3, <1>4, <1>5, <1>6, <1>7 DEF DispatchStep

LEMMA ProducerBalance ==
  ASSUME QInv, QInv', AskersFinite, NEW y \in Task, Enqueue(y) \/ RunJob(y), NEW x \in Task
  PROVE  NotMultiplied(x)
<1>1. UNCHANGED <<disp, asking>>
  BY DEF Enqueue, RunJob, apiVars
<1>2. HandsGrow(x, 0) /\ AskersGrow(x, 0)
  BY <1>1, HandsSame, AskersStay
<1>3. arq[x] \in Nat /\ requests[x] \in Nat
  BY DEF QInv, TypeOK
<1>4. CASE Enqueue(y)
  <2>1. PICK p \in Priority[y] : lanes' = Zadd(lanes, y, p)
    BY <1>4 DEF Enqueue
  <2>2. p \in Nat \ {0}
    BY <2>1, CollectQueueAssumption
  <2>3. /\ LanesGrow(x, IF x = y THEN 1 ELSE 0)
        /\ lanes[lane_of(p)][y] # Out => LanesGrow(x, 0)
    BY <2>1, <2>2, ZaddGrows
  <2>4. arq'[x] = arq[x]
    BY <1>4 DEF Enqueue
  <2>5. CASE x = y /\ lanes[lane_of(p)][x] = Out
    <3>1. lane_of(p) \in Lane
      BY DEF lane_of, Lane
    <3>2. lanes'[lane_of(p)][x] = p
      BY <2>1, <2>5, <3>1 DEF Zadd, QInv, TypeOK
    <3>3. requests'[x] < requests[x]
      BY <1>3, <1>4, <2>5 DEF Enqueue, QInv, TypeOK
    <3>4. Requested(x)
      BY <2>2, <2>5, <3>1, <3>2, <3>3 DEF Requested, Out
    <3>5. LanesGrow(x, 1)
      BY <2>3, <2>5
    <3> QED BY <1>2, <1>3, <2>4, <3>4, <3>5, Balance
  <2>6. CASE x # y \/ lanes[lane_of(p)][x] # Out
    <3>1. LanesGrow(x, 0)
      BY <2>3, <2>6
    <3> QED BY <1>2, <1>3, <2>4, <3>1, Balance
  <2> QED BY <2>5, <2>6
<1>5. CASE RunJob(y)
  <2>1. UNCHANGED lanes /\ arq' = [arq EXCEPT ![y] = @ - 1]
    BY <1>5 DEF RunJob
  <2>2. arq'[x] <= arq[x]
    BY <1>3, <2>1 DEF QInv, TypeOK
  <2>3. arq'[x] \in Nat
    BY DEF QInv, TypeOK
  <2>4. LanesGrow(x, 0)
    BY <2>1, LanesStay
  <2>5. 0 + 0 + 0 + arq'[x] <= arq[x]
    BY <1>3, <2>2, <2>3
  <2>6. 0 + 0 + 0 + arq'[x] <= arq[x] + 1
    BY <1>3, <2>2, <2>3
  <2> QED BY <1>2, <2>4, <2>5, <2>6, Balance
<1> QED BY <1>4, <1>5

\* A handler that goes on as q.
LEMMA AskersMove ==
  ASSUME QInv, AskersFinite, NEW h \in Handler, NEW q, asking' = [asking EXCEPT ![h] = q],
         NEW x \in Task
  PROVE  /\ IsFiniteSet(Askers(x)')
         /\ AskersGrow(x, 1)
         /\ x \notin q.todo \/ x \in asking[h].todo => AskersGrow(x, 0)
         /\ x \notin q.todo /\ x \in asking[h].todo => AskersGrow(x, -1)
<1>1. asking'[h] = q /\ \A k \in Handler \ {h} : asking'[k] = asking[k]
  BY DEF QInv, TypeOK
<1>2. IsFiniteSet(Askers(x))
  BY DEF AskersFinite
<1>3. Askers(x)' \subseteq Askers(x) \cup {h}
  BY <1>1 DEF Askers
<1>4. x \notin q.todo \/ x \in asking[h].todo => Askers(x)' \subseteq Askers(x)
  BY <1>1 DEF Askers
<1>5. x \notin q.todo /\ x \in asking[h].todo => h \in Askers(x) /\ h \notin Askers(x)'
  BY <1>1 DEF Askers
<1>6. IsFiniteSet(Askers(x)') /\ AskersGrow(x, 1)
  BY <1>2, <1>3, OneMoreCount DEF AskersGrow
<1>7. x \notin q.todo \/ x \in asking[h].todo => AskersGrow(x, 0)
  BY <1>2, <1>4, SubsetCount DEF AskersGrow
<1>8. x \notin q.todo /\ x \in asking[h].todo => AskersGrow(x, -1)
  BY <1>2, <1>4, <1>5, SubsetCount DEF AskersGrow
<1> QED BY <1>6, <1>7, <1>8

LEMMA HandlerBalance ==
  ASSUME QInv, QInv', AskersFinite, NEW h \in Handler, NEW B \in SUBSET Recorded,
         Ask(h, B) \/ AskEnqueue(h) \/ AskFails(h) \/ AskEnd(h) \/ AskDies(h), NEW x \in Task
  PROVE  NotMultiplied(x) /\ IsFiniteSet(Askers(x)')
<1>1. UNCHANGED <<disp, arq>> /\ HandsGrow(x, 0)
  BY HandsSame DEF Ask, AskEnqueue, AskFails, AskEnd, AskDies
<1>2. arq'[x] = arq[x] /\ arq[x] \in Nat
  BY <1>1 DEF QInv, TypeOK
<1>3. CASE Ask(h, B)
  <2>1. PICK q : q = [asking[h] EXCEPT !.todo = B]
    OBVIOUS
  <2>2. asking' = [asking EXCEPT ![h] = q] /\ q.todo = B
    BY <1>3, <2>1 DEF Ask, QInv, TypeOK
  <2>3. UNCHANGED lanes /\ asking[h].todo = {}
    BY <1>3 DEF Ask, Quiet
  <2>4. LanesGrow(x, 0)
    BY <2>3, LanesStay
  <2>5. CASE x \in B
    <3>1. AskersGrow(x, 1) /\ IsFiniteSet(Askers(x)')
      BY <2>2, AskersMove
    <3>2. asking'[h].todo = B
      BY <2>2 DEF QInv, TypeOK
    <3>3. Requested(x)
      BY <2>3, <2>5, <3>2 DEF Requested
    <3> QED BY <1>1, <1>2, <2>4, <3>1, <3>3, Balance
  <2>6. CASE x \notin B
    <3>1. AskersGrow(x, 0) /\ IsFiniteSet(Askers(x)')
      BY <2>2, <2>6, AskersMove
    <3> QED BY <1>1, <1>2, <2>4, <3>1, Balance
  <2> QED BY <2>5, <2>6
<1>4. CASE AskEnqueue(h) \/ AskFails(h)
  <2>1. PICK y \in asking[h].todo :
          /\ \/ asking' = [asking EXCEPT ![h].todo = @ \ {y}]
             \/ asking' = [asking EXCEPT ![h].todo = @ \ {y}, ![h].refused = @ \cup {y}]
          /\ UNCHANGED lanes \/ \E p \in Priority[y] : lanes' = Zadd(lanes, y, p)
    BY <1>4 DEF AskEnqueue, AskFails
  <2>2. y \in Task
    BY CollectQueueAssumption DEF QInv, TypeOK
  <2>3. PICK q : asking' = [asking EXCEPT ![h] = q] /\ q.todo = asking[h].todo \ {y}
    <3>1. CASE asking' = [asking EXCEPT ![h].todo = @ \ {y}]
      <4>1. PICK q : q = [asking[h] EXCEPT !.todo = @ \ {y}]
        OBVIOUS
      <4>2. asking[h] \in [todo : SUBSET Recorded, refused : SUBSET Recorded]
        BY DEF QInv, TypeOK
      <4>3. asking' = [asking EXCEPT ![h] = q]
        BY <3>1, <4>1 DEF QInv, TypeOK
      <4>4. q.todo = asking[h].todo \ {y}
        BY <4>1, <4>2
      <4> QED BY <4>3, <4>4
    <3>2. CASE asking' = [asking EXCEPT ![h].todo = @ \ {y}, ![h].refused = @ \cup {y}]
      <4>1. PICK q : q = [asking[h] EXCEPT !.todo = @ \ {y}, !.refused = @ \cup {y}]
        OBVIOUS
      <4>2. asking[h] \in [todo : SUBSET Recorded, refused : SUBSET Recorded]
        BY DEF QInv, TypeOK
      <4>3. asking' = [asking EXCEPT ![h] = q]
        BY <3>2, <4>1 DEF QInv, TypeOK
      <4>4. q.todo = asking[h].todo \ {y}
        BY <4>1, <4>2
      <4> QED BY <4>3, <4>4
    <3> QED BY <2>1, <3>1, <3>2
  <2>4. LanesGrow(x, IF x = y THEN 1 ELSE 0)
    <3>1. CASE UNCHANGED lanes
      <4>1. LanesGrow(x, 0)
        BY <3>1, LanesStay
      <4> QED BY <4>1 DEF LanesGrow
    <3>2. ASSUME NEW p \in Priority[y], lanes' = Zadd(lanes, y, p)
          PROVE  LanesGrow(x, IF x = y THEN 1 ELSE 0)
      <4>1. p \in Nat \ {0}
        BY <2>2, CollectQueueAssumption
      <4> QED BY <2>2, <3>2, <4>1, ZaddGrows
    <3> QED BY <2>1, <3>1, <3>2
  <2>5. CASE x = y
    <3>1. AskersGrow(x, -1) /\ IsFiniteSet(Askers(x)') /\ LanesGrow(x, 1)
      BY <2>3, <2>4, <2>5, AskersMove
    <3> QED BY <1>1, <1>2, <3>1, Balance
  <2>6. CASE x # y
    <3>1. AskersGrow(x, 0) /\ IsFiniteSet(Askers(x)') /\ LanesGrow(x, 0)
      BY <2>3, <2>4, <2>6, AskersMove
    <3> QED BY <1>1, <1>2, <3>1, Balance
  <2> QED BY <2>5, <2>6
<1>5. CASE AskEnd(h) \/ AskDies(h)
  <2>1. asking' = [asking EXCEPT ![h] = Quiet] /\ x \notin Quiet.todo
    BY <1>5 DEF AskEnd, AskDies, Quiet
  <2>2. AskersGrow(x, 0) /\ IsFiniteSet(Askers(x)')
    BY <2>1, AskersMove
  <2>3. LanesGrow(x, 0)
    BY <1>5, LanesStay DEF AskEnd, AskDies
  <2> QED BY <1>1, <1>2, <2>2, <2>3, Balance
<1> QED BY <1>3, <1>4, <1>5

LEMMA NextBalance ==
  ASSUME QInv, QInv', SpendInv, AskersFinite, Next
  PROVE  AskersFinite' /\ \A x \in Task : NotMultiplied(x)
<1> SUFFICES ASSUME NEW x \in Task PROVE IsFiniteSet(Askers(x)') /\ NotMultiplied(x)
  BY DEF AskersFinite
<1>1. ASSUME NEW d \in Dispatcher, DispatchStep(d) \/ DispatchDies(d)
      PROVE  IsFiniteSet(Askers(x)') /\ NotMultiplied(x)
  <2>1. UNCHANGED asking
    BY <1>1 DEF DispatchStep, DispatchBegin, Pop, Postpone, Charge, Deliver, DeliverFails,
         Refund, DispatchEnd, DispatchDies, apiVars
  <2> QED BY <1>1, <2>1, AskersStay, DispatchBalance
<1>2. ASSUME NEW y \in Task, Enqueue(y) \/ RunJob(y)
      PROVE  IsFiniteSet(Askers(x)') /\ NotMultiplied(x)
  <2>1. UNCHANGED asking
    BY <1>2 DEF Enqueue, RunJob, apiVars
  <2> QED BY <1>2, <2>1, AskersStay, ProducerBalance
<1>3. ASSUME NEW h \in Handler, NEW B \in SUBSET Recorded, Ask(h, B)
      PROVE  IsFiniteSet(Askers(x)') /\ NotMultiplied(x)
  BY <1>3, HandlerBalance
<1>4. ASSUME NEW h \in Handler, AskEnqueue(h) \/ AskFails(h) \/ AskEnd(h) \/ AskDies(h)
      PROVE  IsFiniteSet(Askers(x)') /\ NotMultiplied(x)
  <2>1. {} \in SUBSET Recorded
    OBVIOUS
  <2> QED BY <1>4, <2>1, HandlerBalance
<1> QED BY <1>1, <1>2, <1>3, <1>4 DEF Next

\* pop_top_with_priority, dispatcher_job, enqueue: whatever dispatchers, postponements,
\* refunds, failures and repeated requests interleave, a copy of a task is made by a request
\* that finds no entry of it in the lane of its priority, or by a hand-over that raised too
\* late, and by nothing else.
THEOREM NothingMultiplies == Spec => NoTaskMultiplied
<1>1. Init => AskersFinite
  <2> SUFFICES ASSUME Init, NEW x \in Task PROVE IsFiniteSet(Askers(x))
    BY DEF AskersFinite
  <2>1. Askers(x) = {}
    BY DEF Init, Quiet, Askers
  <2> QED BY <2>1, FS_EmptySet
<1>2. QInv /\ SpendInv /\ [Next]_vars /\ QInv' => SpendInv'
  BY NextSpends
<1>3. QInv /\ QInv' /\ SpendInv /\ AskersFinite /\ [Next]_vars => AskersFinite'
  <2>1. CASE UNCHANGED vars
    BY <2>1 DEF AskersFinite, Askers, vars
  <2> QED BY <2>1, NextBalance
<1> DEFINE A == \A x \in Task :
             /\ CopiesOf(x)' <= CopiesOf(x) + 1
             /\ CopiesOf(x)' > CopiesOf(x) => Requested(x) \/ TakenLate(x)
<1>4. QInv /\ QInv' /\ SpendInv /\ AskersFinite /\ [Next]_vars => [A]_vars
  BY NextBalance DEF NotMultiplied
<1> HIDE DEF A
<1>5. Spec => [][A]_vars
  BY <1>1, <1>2, <1>3, <1>4, InitSpends, Queue, PTL DEF Spec
<1> QED BY <1>5, PTL DEF NoTaskMultiplied, A
=============================================================================
