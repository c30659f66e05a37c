--------------------------- MODULE DiscoveryProofs ---------------------------
(***************************************************************************)
(* Proofs about Discovery, for any number of slots, cron runs, executions, *)
(* dispatchers and pages.                                                  *)
(***************************************************************************)
EXTENDS Discovery, QueueProofs, FiniteSetTheorems

(***************************************************************************)
(* Executions and the ledger: an execution works on a slot whose row       *)
(* exists, because rows are written before tasks are queued and never go   *)
(* away; what it still has to ask for and what was asked for are together  *)
(* all it owes.                                                            *)
(***************************************************************************)
Phases == {"idle", "reserve", "start", "duplicate", "provider", "seeds", "rollback", "failing"}

ExecRow == [slot : SUBSET Slot, phase : Phases, page : 0 .. MaxPage, todo : SUBSET (Task \ Slot)]

Owes(q, x) == q.phase = "seeds" => Deep[x] \subseteq q.todo \cup asked[x]

ExecOK(q) ==
  /\ q \in ExecRow
  /\ q.phase = "idle" => q.slot = {}
  /\ q.phase # "idle" => \E x \in Slot : q.slot = {x} /\ ledger[x] # "none" /\ Owes(q, x)
  /\ q.page = 0 <=> q.phase \in {"idle", "reserve"}

ExecInv == DOMAIN exec = Runner /\ \A e \in Runner : ExecOK(exec[e])

CronRow == [phase : {"idle", "none", "queue_failed", "queued", "raised"},
            slot : {{}} \cup {{x} : x \in Slot}]

\* A task on its way has its row.
Present(x) == Waiting(x) \/ InHand(x) \/ arq[x] > 0

LedgerShape ==
  /\ ledger \in [Slot -> Status] /\ asked \in [Slot -> SUBSET Task]
  /\ cron \in [Cron -> CronRow]
  /\ faults <= FaultBound

RowInv ==
  /\ \A x \in Slot : Present(x) => ledger[x] # "none"
  /\ \A c \in Cron, x \in Slot :
       cron[c].slot = {x} /\ cron[c].phase \in {"queued", "raised"} => ledger[x] # "none"

(***************************************************************************)
(* Pages: while the tracker has not wrapped, every page it has passed is   *)
(* accounted for.                                                          *)
(***************************************************************************)
Flies(q) == q.page # 0 /\ q.phase # "failing"

PageRow == [done : SUBSET (1 .. MaxPage), lost : SUBSET (1 .. MaxPage), lapped : BOOLEAN]

PageInv ==
  /\ tracker \in 0 .. MaxPage /\ pages \in PageRow
  /\ ~pages.lapped =>
       /\ \A e, f \in Runner : Flies(exec[e]) /\ Flies(exec[f]) /\ e # f => exec[e].page # exec[f].page
       /\ \A e \in Runner : Flies(exec[e]) => exec[e].page \notin pages.done /\ exec[e].page <= tracker
       /\ \A p \in pages.done : p <= tracker
       /\ \A p \in 1 .. tracker : \/ p \in pages.done \cup pages.lost
                                  \/ \E e \in Runner : Flies(exec[e]) /\ exec[e].page = p

DInv == QInv /\ LedgerShape /\ ExecInv /\ RowInv /\ PageInv /\ SucceededHasAsked

(***************************************************************************)
(* The copies of a slot's task: as long as nothing has failed, a slot      *)
(* whose row is queued or running has its task in exactly one place, any   *)
(* other nowhere.                                                          *)
(***************************************************************************)
Once(s, x) == \E i \in DOMAIN s : s[i].task = x /\ \A k \in DOMAIN s : s[k].task = x => k = i
Never(s, x) == \A i \in DOMAIN s : s[i].task # x

Handing(c, x) == cron[c] = [phase |-> "queued", slot |-> {x}]
NoCron(x) == \A c \in Cron : ~Handing(c, x)
OneCron(x) == \E c \in Cron : Handing(c, x) /\ \A b \in Cron : Handing(b, x) => b = c
NoLane(x) == \A l \in Lane : lanes[l][x] = Out
OneLane(x) == \E l \in Lane : lanes[l][x] # Out /\ \A k \in Lane : lanes[k][x] # Out => k = l
NoHand(x) == \A d \in Dispatcher : Never(disp[d].hand, x)
OneHand(x) == \E d \in Dispatcher : Once(disp[d].hand, x)
                /\ \A c \in Dispatcher : ~Never(disp[c].hand, x) => c = d
NoExec(x) == \A e \in Runner : exec[e].slot # {x}
OneExec(x) == \E e \in Runner : exec[e].slot = {x} /\ \A f \in Runner : exec[f].slot = {x} => f = e

Nowhere(x) == NoCron(x) /\ NoLane(x) /\ arq[x] = 0 /\ NoHand(x) /\ NoExec(x)
Somewhere(x) ==
  \/ OneCron(x) /\ NoLane(x) /\ arq[x] = 0 /\ NoHand(x) /\ NoExec(x)
  \/ NoCron(x) /\ OneLane(x) /\ arq[x] = 0 /\ NoHand(x) /\ NoExec(x)
  \/ NoCron(x) /\ NoLane(x) /\ arq[x] = 1 /\ NoHand(x) /\ NoExec(x)
  \/ NoCron(x) /\ NoLane(x) /\ arq[x] = 0 /\ OneHand(x) /\ NoExec(x)
  \/ NoCron(x) /\ NoLane(x) /\ arq[x] = 0 /\ NoHand(x) /\ OneExec(x)

Going(x) == ledger[x] \in {"queued", "running"}

\* The one copy is where it belongs, and no run is on a path that only faults open.
SlotOnce(x) == /\ ledger[x] \in {"none", "queued", "running", "succeeded"}
               /\ IF Going(x) THEN Somewhere(x) ELSE Nowhere(x)
Smooth ==
  /\ \A c \in Cron : cron[c].phase \in {"idle", "none", "queued"}
  /\ \A e \in Runner : exec[e].phase \in {"idle", "reserve", "start", "provider", "seeds"}

Copies == Smooth /\ \A x \in Slot : SlotOnce(x)
CopyInv == faults = FaultBound => Copies

(***************************************************************************)
(* What a step of dispatcher d does to the copies of one task x.           *)
(***************************************************************************)
SameLanes(x) == \A l \in Lane : lanes'[l][x] = lanes[l][x]

\* Nothing moves.
Stays(d, x) ==
  /\ SameLanes(x) /\ arq'[x] = arq[x]
  /\ Never(disp[d].hand, x) => Never(disp'[d].hand, x)
  /\ Once(disp[d].hand, x) => Once(disp'[d].hand, x)
\* Out of one lane, into the hand.
Picked(d, x) ==
  /\ arq'[x] = arq[x]
  /\ \E l \in Lane : /\ lanes[l][x] # Out /\ lanes'[l][x] = Out
                     /\ \A k \in Lane \ {l} : lanes'[k][x] = lanes[k][x]
  /\ Never(disp[d].hand, x) => Once(disp'[d].hand, x)
\* Out of the hand, to Arq.
Passed(d, x) ==
  /\ SameLanes(x) /\ arq'[x] = arq[x] + 1
  /\ ~Never(disp[d].hand, x)
  /\ Once(disp[d].hand, x) => Never(disp'[d].hand, x)
\* Out of the hand, back to a lane and perhaps to Arq as well.
Returned(d, x) ==
  /\ ~Never(disp[d].hand, x)
  /\ x \in Tavily \/ faults' # faults
\* The hand is forgotten.
Forgotten(d, x) ==
  /\ SameLanes(x) /\ arq'[x] = arq[x]
  /\ Never(disp'[d].hand, x) /\ faults' # faults

LEMMA TailOnce ==
  ASSUME NEW s \in Seq(Entry), s # <<>>, NEW x
  PROVE /\ Never(s, x) => Never(Tail(s), x)
        /\ s[1].task = x => ~Never(s, x) /\ (Once(s, x) => Never(Tail(s), x))
        /\ s[1].task # x => (Once(s, x) => Once(Tail(s), x))
<1>1. Len(s) \in Nat /\ Len(s) > 0 /\ DOMAIN s = 1 .. Len(s)
  OBVIOUS
<1>2. DOMAIN Tail(s) = 1 .. (Len(s) - 1) /\ \A i \in 1 .. (Len(s) - 1) : Tail(s)[i] = s[i + 1]
  BY <1>1
<1>3. Never(s, x) => Never(Tail(s), x)
  BY <1>1, <1>2 DEF Never
<1>4. ASSUME s[1].task = x PROVE ~Never(s, x) /\ (Once(s, x) => Never(Tail(s), x))
  <2>1. ~Never(s, x)
    BY <1>1, <1>4 DEF Never
  <2>2. ASSUME Once(s, x), NEW i \in 1 .. (Len(s) - 1) PROVE s[i + 1].task # x
    <3>1. 1 \in DOMAIN s /\ i + 1 \in DOMAIN s /\ i + 1 # 1
      BY <1>1
    <3> QED BY <1>4, <2>2, <3>1 DEF Once
  <2> QED BY <1>2, <2>1, <2>2 DEF Never
<1>5. ASSUME s[1].task # x, Once(s, x) PROVE Once(Tail(s), x)
  <2>1. PICK i \in DOMAIN s : s[i].task = x /\ \A k \in DOMAIN s : s[k].task = x => k = i
    BY <1>5 DEF Once
  <2>2. i # 1 /\ i - 1 \in 1 .. (Len(s) - 1) /\ Tail(s)[i - 1].task = x
    BY <1>1, <1>2, <1>5, <2>1
  <2>3. \A k \in 1 .. (Len(s) - 1) : Tail(s)[k].task = x => k = i - 1
    BY <1>1, <1>2, <2>1
  <2> QED BY <1>2, <2>2, <2>3 DEF Once
<1> QED BY <1>3, <1>4, <1>5

LEMMA AppendOnce ==
  ASSUME NEW s \in Seq(Entry), NEW t \in Seq(Entry), NEW x
  PROVE /\ Never(t, x) => /\ Never(s, x) => Never(s \o t, x)
                          /\ Once(s, x) => Once(s \o t, x)
        /\ Never(s, x) /\ Once(t, x) => Once(s \o t, x)
<1>1. Len(s) \in Nat /\ DOMAIN s = 1 .. Len(s) /\ Len(t) \in Nat /\ DOMAIN t = 1 .. Len(t)
  OBVIOUS
<1>2. DOMAIN (s \o t) = 1 .. (Len(s) + Len(t))
      /\ \A i \in 1 .. (Len(s) + Len(t)) :
           (s \o t)[i] = IF i <= Len(s) THEN s[i] ELSE t[i - Len(s)]
  BY <1>1
<1>3. \A i \in 1 .. (Len(s) + Len(t)) : \/ i \in 1 .. Len(s) /\ (s \o t)[i] = s[i]
                                        \/ i - Len(s) \in 1 .. Len(t) /\ (s \o t)[i] = t[i - Len(s)]
  BY <1>1, <1>2
<1>4. Never(s, x) /\ Never(t, x) => Never(s \o t, x)
  BY <1>1, <1>2, <1>3 DEF Never
<1>5. ASSUME Never(t, x), Once(s, x) PROVE Once(s \o t, x)
  <2>1. PICK i \in DOMAIN s : s[i].task = x /\ \A k \in DOMAIN s : s[k].task = x => k = i
    BY <1>5 DEF Once
  <2>2. i \in DOMAIN (s \o t) /\ (s \o t)[i].task = x
    BY <1>1, <1>2, <2>1
  <2>3. \A k \in DOMAIN (s \o t) : (s \o t)[k].task = x => k = i
    BY <1>1, <1>2, <1>3, <1>5, <2>1 DEF Never
  <2> QED BY <2>2, <2>3 DEF Once
<1>6. ASSUME Never(s, x), Once(t, x) PROVE Once(s \o t, x)
  <2>1. PICK i \in DOMAIN t : t[i].task = x /\ \A k \in DOMAIN t : t[k].task = x => k = i
    BY <1>6 DEF Once
  <2>2. i + Len(s) \in DOMAIN (s \o t) /\ (s \o t)[i + Len(s)].task = x
    BY <1>1, <1>2, <2>1
  <2>3. \A k \in DOMAIN (s \o t) : (s \o t)[k].task = x => k = i + Len(s)
    <3> SUFFICES ASSUME NEW k \in 1 .. (Len(s) + Len(t)), (s \o t)[k].task = x PROVE k = i + Len(s)
      BY <1>2
    <3>1. k \notin 1 .. Len(s) \/ (s \o t)[k] # s[k]
      BY <1>1, <1>6 DEF Never
    <3>2. k - Len(s) \in 1 .. Len(t) /\ (s \o t)[k] = t[k - Len(s)]
      BY <1>3, <3>1
    <3>3. k - Len(s) = i
      BY <1>1, <2>1, <3>2
    <3> QED BY <1>1, <3>3
  <2> QED BY <2>2, <2>3 DEF Once
<1> QED BY <1>4, <1>5, <1>6

LEMMA ZaddOther ==
  ASSUME lanes \in [Lane -> [Task -> Nat]], NEW y \in Task, NEW p \in Nat,
         lanes' = Zadd(lanes, y, p), NEW x \in Task, x # y
  PROVE SameLanes(x)
<1>1. lane_of(p) \in Lane
  BY DEF lane_of, Lane
<1>2. PICK l \in Lane : l = lane_of(p)
  BY <1>1
<1>3. lanes' = [lanes EXCEPT ![l] = [lanes[l] EXCEPT ![y] = p]]
  BY <1>2 DEF Zadd
<1> QED BY <1>3 DEF SameLanes

Effect(d, x) ==
  /\ \A c \in Dispatcher \ {d} : disp'[c] = disp[c]
  /\ Stays(d, x) \/ Picked(d, x) \/ Passed(d, x) \/ Returned(d, x) \/ Forgotten(d, x)

\* A step that changes the run to y with the same hand, and no lane and no job.
LEMMA SameHandEffect ==
  ASSUME QInv, NEW d \in Dispatcher, NEW x \in Task, NEW y, disp' = [disp EXCEPT ![d] = y],
         y.hand = disp[d].hand, UNCHANGED <<lanes, arq>>
  PROVE Effect(d, x)
<1>1. disp'[d] = y /\ \A c \in Dispatcher \ {d} : disp'[c] = disp[c]
  BY DEF QInv, TypeOK
<1> QED BY <1>1 DEF Effect, Stays, SameLanes

LEMMA SameHandSteps ==
  ASSUME QInv, NEW d \in Dispatcher, NEW x \in Task,
         DispatchBegin(d) \/ Charge(d) \/ Refund(d) \/ DispatchEnd(d)
  PROVE Effect(d, x)
<1>1. disp[d] \in Run /\ (disp[d].phase = "idle" => disp[d].hand = <<>>)
  BY DEF QInv, TypeOK, RestsEmpty
<1>2. UNCHANGED <<lanes, arq>>
  BY DEF DispatchBegin, Charge, Refund, DispatchEnd
<1>3. PICK y : disp' = [disp EXCEPT ![d] = y] /\ y.hand = disp[d].hand
  <2>1. CASE DispatchBegin(d)
    <3>1. PICK y : y = [IdleRun EXCEPT !.phase = "high", !.left = tavily]
      OBVIOUS
    <3>2. y.hand = <<>>
      BY <3>1 DEF IdleRun
    <3> QED BY <1>1, <2>1, <3>1, <3>2 DEF DispatchBegin
  <2>2. CASE Charge(d)
    <3>1. PICK y : y = [disp[d] EXCEPT !.left = @ - 1, !.charged = TRUE]
      OBVIOUS
    <3>2. y.hand = disp[d].hand
      BY <1>1, <3>1 DEF Run
    <3>3. disp' = [disp EXCEPT ![d] = y]
      BY <2>2, <3>1 DEF Charge, QInv, TypeOK
    <3> QED BY <3>2, <3>3
  <2>3. CASE Refund(d)
    <3>1. PICK y : y = [disp[d] EXCEPT !.phase = "hand", !.left = @ + 1]
      OBVIOUS
    <3>2. y.hand = disp[d].hand
      BY <1>1, <3>1 DEF Run
    <3>3. disp' = [disp EXCEPT ![d] = y]
      BY <2>3, <3>1 DEF Refund, QInv, TypeOK
    <3> QED BY <3>2, <3>3
  <2>4. CASE DispatchEnd(d)
    <3>1. IdleRun.hand = <<>>
      BY DEF IdleRun
    <3> QED BY <2>4, <3>1 DEF DispatchEnd
  <2> QED BY <2>1, <2>2, <2>3, <2>4
<1> QED BY <1>2, <1>3, SameHandEffect

LEMMA PopEffect ==
  ASSUME QInv, NEW d \in Dispatcher, NEW l \in Lane, Pop(d, l), NEW x \in Task
  PROVE Effect(d, x)
<1> DEFINE room == Concurrency - Len(disp[d].hand)
<1>1. PICK s \in Popped(l, room) :
        LET taken == [i \in DOMAIN s |-> [task |-> s[i], priority |-> lanes[l][s[i]]]]
        IN /\ lanes' = [lanes EXCEPT ![l] =
                 [y \in Task |-> IF y \in {s[i] : i \in DOMAIN s} THEN Out ELSE @[y]]]
           /\ disp' = [disp EXCEPT
                 ![d].hand = @ \o taken,
                 ![d].phase = IF Len(s) = room THEN "hand" ELSE After[l]]
  BY DEF Pop
<1> DEFINE taken == [i \in DOMAIN s |-> [task |-> s[i], priority |-> lanes[l][s[i]]]]
           next == IF Len(s) = room THEN "hand" ELSE After[l]
<1>2. PICK n \in Nat : s \in [1 .. n -> Members(l)]
  BY <1>1 DEF Popped
<1>3. \A i, j \in 1 .. n : i < j => s[i] # s[j]
  BY <1>1, <1>2 DEF Popped
<1>4. \A i \in 1 .. n : s[i] \in Task /\ lanes[l][s[i]] \in Nat /\ lanes[l][s[i]] # Out
  BY <1>2 DEF Members, Out, QInv, TypeOK
<1>5. taken \in Seq(Entry) /\ DOMAIN taken = 1 .. n /\ \A i \in 1 .. n : taken[i].task = s[i]
  <2>1. taken \in [1 .. n -> Entry] /\ \A i \in 1 .. n : taken[i].task = s[i]
    BY <1>2, <1>4 DEF Entry
  <2> HIDE DEF taken
  <2> QED BY <2>1
<1>6. disp[d] \in Run /\ disp[d].hand \in Seq(Entry)
  BY DEF QInv, TypeOK, Run
<1>7. UNCHANGED arq
  BY DEF Pop
<1>8. PICK y : y = [disp[d] EXCEPT !.hand = @ \o taken, !.phase = next]
  OBVIOUS
<1>9. y.hand = disp[d].hand \o taken
  BY <1>6, <1>8 DEF Run
<1>10. disp' = [disp EXCEPT ![d] = y]
  BY <1>1, <1>8 DEF QInv, TypeOK
<1>11. disp'[d].hand = disp[d].hand \o taken /\ \A c \in Dispatcher \ {d} : disp'[c] = disp[c]
  BY <1>9, <1>10 DEF QInv, TypeOK
<1>12. lanes'[l][x] = (IF x \in {s[i] : i \in DOMAIN s} THEN Out ELSE lanes[l][x])
       /\ \A k \in Lane \ {l} : lanes'[k][x] = lanes[k][x]
  <2>1. PICK f : f = [y2 \in Task |-> IF y2 \in {s[i] : i \in DOMAIN s} THEN Out ELSE lanes[l][y2]]
    OBVIOUS
  <2>2. lanes' = [lanes EXCEPT ![l] = f]
    BY <1>1, <2>1 DEF QInv, TypeOK
  <2>3. DOMAIN lanes = Lane
    BY DEF QInv, TypeOK
  <2>4. f[x] = IF x \in {s[i] : i \in DOMAIN s} THEN Out ELSE lanes[l][x]
    BY <2>1
  <2> QED BY <2>2, <2>3, <2>4
<1> HIDE DEF taken, next
<1>13. CASE \E i \in 1 .. n : s[i] = x
  <2>1. PICK i \in 1 .. n : s[i] = x
    BY <1>13
  <2>2. Once(taken, x)
    <3>1. \A k \in 1 .. n : s[k] = x => k = i
      BY <1>3, <2>1
    <3> QED BY <1>5, <2>1, <3>1 DEF Once
  <2>3. Never(disp[d].hand, x) => Once(disp'[d].hand, x)
    BY <1>5, <1>6, <1>11, <2>2, AppendOnce
  <2>4. lanes[l][x] # Out /\ lanes'[l][x] = Out
    BY <1>2, <1>4, <1>12, <2>1
  <2>5. Picked(d, x)
    BY <1>7, <1>12, <2>3, <2>4 DEF Picked
  <2> QED BY <1>11, <2>5 DEF Effect
<1>14. CASE ~\E i \in 1 .. n : s[i] = x
  <2>1. Never(taken, x)
    BY <1>5, <1>14 DEF Never
  <2>2. Stays(d, x)
    BY <1>2, <1>5, <1>6, <1>7, <1>11, <1>12, <1>14, <2>1, AppendOnce DEF Stays, SameLanes
  <2> QED BY <1>11, <2>2 DEF Effect
<1> QED BY <1>13, <1>14

\* The steps that take the first task off the hand.
LEMMA TakenOff ==
  ASSUME QInv, NEW d \in Dispatcher, AtHand(d), NEW y, y.hand = Put(d).hand,
         disp' = [disp EXCEPT ![d] = y], NEW x \in Task
  PROVE /\ \A c \in Dispatcher \ {d} : disp'[c] = disp[c]
        /\ Never(disp[d].hand, x) => Never(disp'[d].hand, x)
        /\ x = Head1(d).task => ~Never(disp[d].hand, x)
                                /\ (Once(disp[d].hand, x) => Never(disp'[d].hand, x))
        /\ x # Head1(d).task => (Once(disp[d].hand, x) => Once(disp'[d].hand, x))
<1>1. disp'[d] = y /\ \A c \in Dispatcher \ {d} : disp'[c] = disp[c]
  BY DEF QInv, TypeOK
<1>2. y.hand = Tail(disp[d].hand)
  BY HandFacts
<1>3. disp[d].hand \in Seq(Entry) /\ disp[d].hand # <<>>
  BY DEF QInv, TypeOK, Run, AtHand
<1> QED BY <1>1, <1>2, <1>3, TailOnce DEF Head1

LEMMA PostponeEffect ==
  ASSUME QInv, NEW d \in Dispatcher, Postpone(d), NEW x \in Task
  PROVE Effect(d, x)
<1>1. AtHand(d) /\ disp' = [disp EXCEPT ![d] = Put(d)] /\ UNCHANGED arq
      /\ Head1(d).task \in Tavily /\ lanes' = Zadd(lanes, Head1(d).task, 1)
  BY DEF Postpone
<1>2. Head1(d).task \in Task
  BY <1>1, HandFacts
<1>3. x # Head1(d).task => SameLanes(x)
  BY <1>1, <1>2, ZaddOther DEF QInv, TypeOK
<1>4. /\ \A c \in Dispatcher \ {d} : disp'[c] = disp[c]
      /\ Never(disp[d].hand, x) => Never(disp'[d].hand, x)
      /\ x = Head1(d).task => ~Never(disp[d].hand, x)
      /\ x # Head1(d).task => (Once(disp[d].hand, x) => Once(disp'[d].hand, x))
  BY <1>1, TakenOff
<1> QED BY <1>1, <1>3, <1>4 DEF Effect, Stays, Returned

LEMMA DeliverEffect ==
  ASSUME QInv, NEW d \in Dispatcher, Deliver(d), NEW x \in Task
  PROVE Effect(d, x)
<1>1. AtHand(d) /\ disp' = [disp EXCEPT ![d] = Put(d)] /\ UNCHANGED lanes
      /\ arq' = [arq EXCEPT ![Head1(d).task] = @ + 1]
  BY DEF Deliver, Payable
<1>2. arq'[x] = IF x = Head1(d).task THEN arq[x] + 1 ELSE arq[x]
  BY <1>1 DEF QInv, TypeOK
<1>3. /\ \A c \in Dispatcher \ {d} : disp'[c] = disp[c]
      /\ Never(disp[d].hand, x) => Never(disp'[d].hand, x)
      /\ x = Head1(d).task => ~Never(disp[d].hand, x)
                              /\ (Once(disp[d].hand, x) => Never(disp'[d].hand, x))
      /\ x # Head1(d).task => (Once(disp[d].hand, x) => Once(disp'[d].hand, x))
  BY <1>1, TakenOff
<1> QED BY <1>1, <1>2, <1>3 DEF Effect, Stays, Passed, SameLanes

LEMMA DeliverFailsEffect ==
  ASSUME QInv, NEW d \in Dispatcher, DeliverFails(d), NEW x \in Task
  PROVE Effect(d, x)
<1>1. AtHand(d) /\ lanes' = Zadd(lanes, Head1(d).task, Head1(d).priority) /\ Fault
      /\ (UNCHANGED arq \/ arq' = [arq EXCEPT ![Head1(d).task] = @ + 1])
  BY DEF DeliverFails, Payable
<1>2. PICK y : y = [Put(d) EXCEPT !.phase = IF disp[d].charged THEN "refund" ELSE "hand"]
  OBVIOUS
<1>3. y.hand = Put(d).hand
  BY <1>1, <1>2, HandFacts DEF Run
<1>4. disp' = [disp EXCEPT ![d] = y]
  BY <1>2 DEF DeliverFails
<1>5. Head1(d).task \in Task /\ Head1(d).priority \in Nat
  BY <1>1, HandFacts
<1>6. x # Head1(d).task => SameLanes(x) /\ arq'[x] = arq[x]
  BY <1>1, <1>5, ZaddOther DEF QInv, TypeOK
<1>7. /\ \A c \in Dispatcher \ {d} : disp'[c] = disp[c]
      /\ Never(disp[d].hand, x) => Never(disp'[d].hand, x)
      /\ x = Head1(d).task => ~Never(disp[d].hand, x)
      /\ x # Head1(d).task => (Once(disp[d].hand, x) => Once(disp'[d].hand, x))
  BY <1>1, <1>3, <1>4, TakenOff
<1>8. faults' # faults
  BY <1>1 DEF Fault, QInv, TypeOK
<1> QED BY <1>6, <1>7, <1>8 DEF Effect, Stays, Returned

LEMMA DiesEffect ==
  ASSUME QInv, NEW d \in Dispatcher, DispatchDies(d), NEW x \in Task
  PROVE Effect(d, x)
<1>1. disp'[d] = IdleRun /\ \A c \in Dispatcher \ {d} : disp'[c] = disp[c]
  BY DEF DispatchDies, QInv, TypeOK
<1>2. Never(disp'[d].hand, x)
  BY <1>1 DEF Never, IdleRun
<1>3. faults' # faults /\ UNCHANGED <<lanes, arq>>
  BY DEF DispatchDies, Fault, QInv, TypeOK
<1> QED BY <1>1, <1>2, <1>3 DEF Effect, Forgotten, SameLanes

LEMMA DispatchEffect ==
  ASSUME QInv, NEW d \in Dispatcher, DispatchStep(d) \/ DispatchDies(d), NEW x \in Task
  PROVE Effect(d, x)
  BY SameHandSteps, PopEffect, PostponeEffect, DeliverEffect, DeliverFailsEffect, DiesEffect
  DEF DispatchStep

(***************************************************************************)
(* Frames.                                                                 *)
(***************************************************************************)
LEMMA QFrame ==
  ASSUME QInv, UNCHANGED <<tavily, disp, apiVars>>, lanes' \in [Lane -> [Task -> Nat]],
         arq' \in [Task -> Nat], requests' \in [Task -> Nat], faults' \in Nat
  PROVE QInv'
  BY DEF QInv, TypeOK, apiVars

LEMMA FaultFacts ==
  ASSUME QInv, faults <= FaultBound, Fault \/ UNCHANGED faults
  PROVE faults' \in Nat /\ faults' <= FaultBound /\ (Fault => faults' # FaultBound)
        /\ (faults' = FaultBound => faults = FaultBound)
  BY CollectQueueAssumption DEF QInv, TypeOK, Fault

\* Rows never go away and what was asked for stays asked for.
Grows ==
  /\ \A x \in Slot : ledger[x] # "none" => ledger'[x] # "none"
  /\ \A x \in Slot : asked[x] \subseteq asked'[x]

LEMMA RowFrame ==
  ASSUME RowInv, Grows, UNCHANGED cron, \A x \in Slot : Present(x)' => Present(x)
  PROVE RowInv'
  BY DEF RowInv, Grows

LEMMA ExecFrame ==
  ASSUME ExecInv, Grows, NEW e \in Runner, NEW q, exec' = [exec EXCEPT ![e] = q], ExecOK(q)'
  PROVE ExecInv' /\ \A f \in Runner : exec'[f] = IF f = e THEN q ELSE exec[f]
<1>1. \A f \in Runner : exec'[f] = IF f = e THEN q ELSE exec[f]
  BY DEF ExecInv
<1>2. ASSUME NEW f \in Runner, f # e PROVE ExecOK(exec[f])'
  BY <1>1, <1>2 DEF ExecInv, ExecOK, Owes, Grows
<1>3. \A f \in Runner : ExecOK(exec[f])'
  <2> SUFFICES ASSUME NEW f \in Runner, f = e PROVE ExecOK(exec[f])'
    BY <1>2
  <2> QED BY <1>1 DEF ExecOK, Owes
<1> QED BY <1>1, <1>3 DEF ExecInv

\* An execution that flies on with its page, or does not fly before and after.
LEMMA PageFrame ==
  ASSUME PageInv, NEW e \in Runner, NEW q, UNCHANGED <<tracker, pages>>,
         \A f \in Runner : exec'[f] = IF f = e THEN q ELSE exec[f],
         Flies(q) <=> Flies(exec[e]), Flies(q) => q.page = exec[e].page
  PROVE PageInv'
<1>1. \A f \in Runner : /\ Flies(exec'[f]) <=> Flies(exec[f])
                        /\ Flies(exec[f]) => exec'[f].page = exec[f].page
  OBVIOUS
<1>2. \A f \in Runner : Flies(exec[f])' <=> Flies(exec[f])
  BY <1>1 DEF Flies
<1> QED BY <1>1, <1>2 DEF PageInv

LEMMA SucceededFrame ==
  ASSUME SucceededHasAsked, Grows, \A x \in Slot : ledger'[x] = "succeeded" => ledger[x] = "succeeded"
  PROVE SucceededHasAsked'
  BY DEF SucceededHasAsked, Grows

\* The slot of a busy execution.
LEMMA SlotOf ==
  ASSUME ExecInv, NEW e \in Runner, exec[e].phase # "idle"
  PROVE /\ Of(e) \in Slot /\ exec[e].slot = {Of(e)} /\ ledger[Of(e)] # "none"
        /\ Owes(exec[e], Of(e))
  BY DEF ExecInv, ExecOK, Of

(***************************************************************************)
(* The queue and the cron runs.                                            *)
(***************************************************************************)
\* A dispatcher brings no task onto the way that was not on it.
LEMMA DispatchOrigin ==
  ASSUME QInv, NEW d \in Dispatcher, DispatchStep(d) \/ DispatchDies(d), NEW x \in Task, Present(x)'
  PROVE Present(x)
<1>1. Effect(d, x)
  BY DispatchEffect
<1>2. InHand(x) <=> \E c \in Dispatcher : ~Never(disp[c].hand, x)
  BY DEF InHand, Holding, Never
<1>3. InHand(x)' <=> \E c \in Dispatcher : ~Never(disp'[c].hand, x)
  BY DEF InHand, Holding, Never
<1>4. CASE ~Never(disp[d].hand, x)
  BY <1>2, <1>4 DEF Present
<1>5. CASE Never(disp[d].hand, x) /\ \E l \in Lane : lanes[l][x] # Out
  BY <1>5 DEF Present, Waiting
<1>6. CASE Never(disp[d].hand, x) /\ \A l \in Lane : lanes[l][x] = Out
  <2>1. SameLanes(x) /\ arq'[x] = arq[x] /\ Never(disp'[d].hand, x)
    BY <1>1, <1>6 DEF Effect, Stays, Picked, Passed, Returned, Forgotten
  <2>2. InHand(x)' => InHand(x)
    BY <1>1, <1>2, <1>3, <2>1 DEF Effect
  <2>3. Waiting(x)' => Waiting(x)
    BY <2>1 DEF Waiting, SameLanes
  <2> QED BY <2>1, <2>2, <2>3 DEF Present
<1> QED BY <1>4, <1>5, <1>6

LEMMA QueueStepKeeps == ASSUME DInv, QueueStep, UNCHANGED discoveryVars PROVE DInv'
<1> USE DEF DInv, discoveryVars, runVars
<1>1. QInv' /\ (Fault \/ UNCHANGED faults)
  BY StepSafe, DiesQInv, RunJobSafe
  DEF QueueStep, Safe, DispatchStep, DispatchBegin, Pop, Postpone, Charge, Deliver, DeliverFails,
      Refund, DispatchEnd, DispatchDies, RunJob
<1>2. faults' <= FaultBound
  BY <1>1, FaultFacts DEF LedgerShape
<1>3. \A x \in Slot : Present(x)' => Present(x)
  <2>1. ASSUME NEW d \in Dispatcher, DispatchStep(d) \/ DispatchDies(d)
        PROVE \A x \in Slot : Present(x)' => Present(x)
    BY <2>1, DispatchOrigin, DiscoveryAssumption
  <2>2. ASSUME NEW y \in Task \ Slot, RunJob(y) PROVE \A x \in Slot : Present(x)' => Present(x)
    <3>1. \A x \in Slot : arq'[x] = arq[x]
      BY <2>2, DiscoveryAssumption DEF RunJob, QInv, TypeOK
    <3>2. UNCHANGED <<lanes, disp>>
      BY <2>2 DEF RunJob
    <3> QED BY <3>1, <3>2 DEF Present, Waiting, InHand, Holding
  <2> QED BY <2>1, <2>2 DEF QueueStep
<1>4. RowInv' /\ SucceededHasAsked'
  BY <1>3, RowFrame, SucceededFrame DEF Grows
<1>5. LedgerShape'
  BY <1>2 DEF LedgerShape
<1>6. ExecInv' /\ PageInv'
  BY DEF ExecInv, ExecOK, Owes, PageInv, Flies
<1> QED BY <1>1, <1>4, <1>5, <1>6

\* A cron run touches the ledger, the lanes and itself.
LEMMA CronFrame ==
  ASSUME DInv, UNCHANGED runVars, QInv', RowInv', ledger' \in [Slot -> Status],
         cron' \in [Cron -> CronRow], Fault \/ UNCHANGED faults, Grows,
         \A x \in Slot : ledger'[x] = "succeeded" => ledger[x] = "succeeded"
  PROVE DInv'
<1> USE DEF DInv, runVars
<1>1. SucceededHasAsked'
  BY SucceededFrame
<1>2. LedgerShape'
  BY FaultFacts DEF LedgerShape
<1>3. ExecInv' /\ PageInv'
  BY DEF ExecInv, ExecOK, Owes, PageInv, Flies, Grows
<1> QED BY <1>1, <1>2, <1>3

\* ZADD of a task whose row exists, by a cron run or an execution.
LEMMA ZaddPresent ==
  ASSUME QInv, NEW y \in Task, NEW p \in Priority[y], lanes' = Zadd(lanes, y, p),
         UNCHANGED <<arq, disp>>
  PROVE lanes' \in [Lane -> [Task -> Nat]] /\ \A x \in Task \ {y} : SameLanes(x) /\ (Present(x)' => Present(x))
<1>1. p \in Nat \ {0} /\ lanes \in [Lane -> [Task -> Nat]]
  BY CollectQueueAssumption DEF QInv, TypeOK
<1>2. lanes' \in [Lane -> [Task -> Nat]]
  BY <1>1, ZaddFacts
<1>3. \A x \in Task \ {y} : SameLanes(x)
  BY <1>1, ZaddOther
<1> QED BY <1>2, <1>3 DEF Present, Waiting, InHand, Holding, SameLanes

LEMMA CronRowChange ==
  ASSUME DInv, NEW c \in Cron, NEW r \in CronRow, cron' = [cron EXCEPT ![c] = r]
  PROVE cron' \in [Cron -> CronRow] /\ \A b \in Cron : cron'[b] = IF b = c THEN r ELSE cron[b]
  BY DEF DInv, LedgerShape

LEMMA PhaseChange ==
  ASSUME DInv, NEW c \in Cron, NEW x \in Slot, cron[c].slot = {x},
         NEW phase \in {"queued", "raised"}, cron' = [cron EXCEPT ![c].phase = phase]
  PROVE cron' = [cron EXCEPT ![c] = [phase |-> phase, slot |-> {x}]]
        /\ [phase |-> phase, slot |-> {x}] \in CronRow
<1>1. cron[c] \in CronRow
  BY DEF DInv, LedgerShape
<1>2. [cron[c] EXCEPT !.phase = phase] = [phase |-> phase, slot |-> {x}]
  BY <1>1 DEF CronRow
<1>3. cron' = [cron EXCEPT ![c] = [cron[c] EXCEPT !.phase = phase]]
  OBVIOUS
<1> QED BY <1>2, <1>3 DEF CronRow

LEMMA SlotTask == ASSUME NEW x \in Slot PROVE x \in Task
  BY DiscoveryAssumption

LEMMA IdleCronRow == IdleCron \in CronRow
  BY DEF IdleCron, CronRow

LEMMA SamePresence ==
  ASSUME UNCHANGED <<lanes, disp>>, NEW x, arq'[x] = arq[x]
  PROVE Present(x)' <=> Present(x)
  BY DEF Present, Waiting, InHand, Holding

LEMMA QuietCronKeeps ==
  ASSUME DInv, NEW c \in Cron, AutoDies(c) \/ \E x \in Slot : AutoRead(c, x) PROVE DInv'
<1>1. PICK r \in CronRow : cron' = [cron EXCEPT ![c] = r] /\ r.phase \in {"idle", "none", "queue_failed"}
  <2>1. ASSUME NEW x \in Slot, AutoRead(c, x)
        PROVE \E r \in CronRow : /\ cron' = [cron EXCEPT ![c] = r]
                                 /\ r.phase \in {"idle", "none", "queue_failed"}
    <3>1. PICK r : r = [phase |-> ledger[x], slot |-> {x}]
      OBVIOUS
    <3>2. r \in CronRow /\ r.phase \in {"idle", "none", "queue_failed"}
      BY <2>1, <3>1 DEF AutoRead, CronRow
    <3> QED BY <2>1, <3>1, <3>2 DEF AutoRead
  <2>2. CASE AutoDies(c)
    BY <2>2, IdleCronRow DEF AutoDies, IdleCron
  <2> QED BY <2>1, <2>2
<1>2. cron' \in [Cron -> CronRow] /\ \A b \in Cron : cron'[b] = IF b = c THEN r ELSE cron[b]
  BY <1>1, CronRowChange
<1>3. UNCHANGED <<lanes, tavily, arq, disp, apiVars, ledger, runVars>> /\ (Fault \/ UNCHANGED faults)
  BY DEF AutoRead, AutoDies, queueVars
<1>4. requests' \in [Task -> Nat]
  BY SlotTask DEF AutoRead, AutoDies, queueVars, DInv, QInv, TypeOK
<1>5. QInv'
  BY <1>3, <1>4, QFrame, FaultFacts DEF DInv, LedgerShape, QInv, TypeOK
<1>6. RowInv'
  BY <1>1, <1>2, <1>3, SamePresence DEF DInv, RowInv
<1> QED BY <1>2, <1>3, <1>5, <1>6, CronFrame DEF Grows, DInv, LedgerShape, runVars

LEMMA AutoCommitKeeps == ASSUME DInv, NEW c \in Cron, NEW x \in Slot, AutoCommit(c, x) PROVE DInv'
<1>1. UNCHANGED <<lanes, tavily, arq, disp, requests, faults, apiVars, runVars>>
  BY DEF AutoCommit, queueVars
<1>2. QInv'
  BY <1>1, QFrame DEF DInv, QInv, TypeOK
<1>3. \A y \in Slot : Present(y)' <=> Present(y)
  BY <1>1, SamePresence
<1>4. CASE cron[c].phase = "none" /\ ledger[x] # "none"
  <2>1. cron' = [cron EXCEPT ![c] = IdleCron] /\ UNCHANGED ledger
    BY <1>4 DEF AutoCommit
  <2>2. cron' \in [Cron -> CronRow] /\ \A b \in Cron : cron'[b] = IF b = c THEN IdleCron ELSE cron[b]
    BY <2>1, IdleCronRow, CronRowChange
  <2>3. RowInv'
    BY <1>3, <2>1, <2>2 DEF DInv, RowInv, IdleCron
  <2> QED BY <1>1, <1>2, <2>1, <2>2, <2>3, CronFrame DEF Grows, DInv, LedgerShape, runVars
<1>5. CASE ~(cron[c].phase = "none" /\ ledger[x] # "none")
  <2>1. ledger' = [ledger EXCEPT ![x] = "queued"] /\ cron' = [cron EXCEPT ![c].phase = "queued"]
        /\ cron[c].slot = {x}
    BY <1>5 DEF AutoCommit
  <2>2. PICK r \in CronRow : cron' = [cron EXCEPT ![c] = r] /\ r.slot = {x}
    BY <2>1, PhaseChange
  <2>3. cron' \in [Cron -> CronRow] /\ \A b \in Cron : cron'[b] = IF b = c THEN r ELSE cron[b]
    BY <2>2, CronRowChange
  <2>4. ledger' \in [Slot -> Status] /\ \A y \in Slot : ledger'[y] = IF y = x THEN "queued" ELSE ledger[y]
    BY <2>1 DEF DInv, LedgerShape, Status
  <2>5. RowInv'
    BY <1>3, <2>2, <2>3, <2>4 DEF DInv, RowInv
  <2>6. Grows
    BY <1>1, <2>4 DEF Grows, runVars
  <2> QED BY <1>1, <1>2, <2>3, <2>4, <2>5, <2>6, CronFrame
<1> QED BY <1>4, <1>5

LEMMA AutoEnqueueKeeps ==
  ASSUME DInv, NEW c \in Cron, NEW x \in Slot, AutoEnqueue(c, x) \/ AutoEnqueueFails(c, x)
  PROVE DInv'
<1>1. UNCHANGED <<tavily, arq, disp, requests, apiVars, ledger, runVars>>
      /\ (Fault \/ UNCHANGED faults) /\ cron[c] = [phase |-> "queued", slot |-> {x}]
      /\ (UNCHANGED lanes \/ \E p \in Priority[x] : lanes' = Zadd(lanes, x, p))
  BY DEF AutoEnqueue, AutoEnqueueFails
<1>2. lanes' \in [Lane -> [Task -> Nat]] /\ \A y \in Slot \ {x} : Present(y)' => Present(y)
  <2>1. CASE UNCHANGED lanes
    BY <1>1, <2>1, SamePresence DEF DInv, QInv, TypeOK
  <2>2. CASE \E p \in Priority[x] : lanes' = Zadd(lanes, x, p)
    BY <1>1, <2>2, SlotTask, ZaddPresent DEF DInv
  <2> QED BY <1>1, <2>1, <2>2
<1>3. QInv'
  BY <1>1, <1>2, QFrame, FaultFacts DEF DInv, LedgerShape, QInv, TypeOK
<1>4. ledger[x] # "none"
  BY <1>1 DEF DInv, RowInv
<1>5. PICK r \in CronRow : cron' = [cron EXCEPT ![c] = r] /\ (r = IdleCron \/ r.slot = {x})
  <2>1. CASE AutoEnqueue(c, x)
    BY <2>1, IdleCronRow DEF AutoEnqueue
  <2>2. CASE AutoEnqueueFails(c, x)
    <3>1. cron' = [cron EXCEPT ![c].phase = "raised"] /\ cron[c].slot = {x}
      BY <1>1, <2>2 DEF AutoEnqueueFails
    <3>2. PICK r : r = [phase |-> "raised", slot |-> {x}]
      OBVIOUS
    <3>3. cron' = [cron EXCEPT ![c] = r] /\ r \in CronRow /\ r.slot = {x}
      BY <3>1, <3>2, PhaseChange
    <3> QED BY <3>3
  <2> QED BY <2>1, <2>2
<1>6. cron' \in [Cron -> CronRow] /\ \A b \in Cron : cron'[b] = IF b = c THEN r ELSE cron[b]
  BY <1>5, CronRowChange
<1>7. RowInv'
  BY <1>1, <1>2, <1>4, <1>5, <1>6 DEF DInv, RowInv, IdleCron
<1> QED BY <1>1, <1>3, <1>6, <1>7, CronFrame DEF Grows, DInv, LedgerShape, runVars

LEMMA AutoMarkKeeps == ASSUME DInv, NEW c \in Cron, NEW x \in Slot, AutoMark(c, x) PROVE DInv'
<1>1. UNCHANGED <<lanes, tavily, arq, disp, requests, faults, apiVars, runVars>>
  BY DEF AutoMark, queueVars
<1>2. QInv'
  BY <1>1, QFrame DEF DInv, QInv, TypeOK
<1>3. \A y \in Slot : Present(y)' <=> Present(y)
  BY <1>1, SamePresence
<1>4. ledger' = [ledger EXCEPT ![x] = "queue_failed"] /\ cron' = [cron EXCEPT ![c] = IdleCron]
  BY DEF AutoMark
<1>5. cron' \in [Cron -> CronRow] /\ \A b \in Cron : cron'[b] = IF b = c THEN IdleCron ELSE cron[b]
  BY <1>4, IdleCronRow, CronRowChange
<1>6. ledger' \in [Slot -> Status] /\ \A y \in Slot : ledger'[y] = IF y = x THEN "queue_failed" ELSE ledger[y]
  BY <1>4 DEF DInv, LedgerShape, Status
<1>7. RowInv'
  BY <1>3, <1>5, <1>6 DEF DInv, RowInv, IdleCron
<1>8. Grows
  BY <1>1, <1>6 DEF Grows, runVars
<1> QED BY <1>1, <1>2, <1>5, <1>6, <1>7, <1>8, CronFrame

(***************************************************************************)
(* Executions.                                                             *)
(***************************************************************************)
\* What an execution that becomes q has to show.
Becomes(e, q) ==
  /\ exec' = [exec EXCEPT ![e] = q] /\ ExecOK(q)'
  /\ Grows /\ UNCHANGED cron /\ (Fault \/ UNCHANGED faults)
  /\ ledger' \in [Slot -> Status] /\ asked' \in [Slot -> SUBSET Task]
  /\ \A x \in Slot : Present(x)' => Present(x)

LEMMA ExecKeeps ==
  ASSUME DInv, NEW e \in Runner, NEW q, Becomes(e, q), QInv', PageInv', SucceededHasAsked'
  PROVE DInv'
<1> USE DEF DInv, Becomes
<1>1. ExecInv'
  BY ExecFrame
<1>2. LedgerShape'
  BY FaultFacts DEF LedgerShape
<1>3. RowInv'
  BY RowFrame
<1> QED BY <1>1, <1>2, <1>3

\* A change of phase, while the execution keeps slot and page.
LEMMA Moved ==
  ASSUME DInv, NEW e \in Runner, exec[e].phase # "idle", NEW phase \in Phases \ {"idle", "seeds"},
         phase = "reserve" <=> exec[e].phase = "reserve", Goto(e, phase), Grows
  PROVE \E q : /\ exec' = [exec EXCEPT ![e] = q] /\ ExecOK(q)'
               /\ q.phase = phase /\ q.page = exec[e].page /\ q.slot = exec[e].slot
<1>1. PICK q : q = [exec[e] EXCEPT !.phase = phase]
  OBVIOUS
<1>2. exec' = [exec EXCEPT ![e] = q]
  BY <1>1 DEF Goto
<1>3. ExecOK(exec[e]) /\ exec[e] \in ExecRow
  BY DEF DInv, ExecInv, ExecOK
<1>4. q \in ExecRow /\ q.phase = phase /\ q.page = exec[e].page /\ q.slot = exec[e].slot
  BY <1>1, <1>3 DEF ExecRow
<1>5. ExecOK(q)'
  BY <1>3, <1>4 DEF ExecOK, Owes, Grows, Phases
<1> QED BY <1>2, <1>4, <1>5

LEMMA IdleExecOK == ExecOK(IdleExec)' /\ ~Flies(IdleExec)
<1>1. IdleExec \in ExecRow
  BY DiscoveryAssumption DEF IdleExec, ExecRow, Phases
<1> QED BY <1>1 DEF ExecOK, IdleExec, Flies

\* What an execution leaves of the queue.
LEMMA SameQueue ==
  ASSUME DInv, UNCHANGED <<queueVars, arq>>, Fault \/ UNCHANGED faults
  PROVE QInv' /\ \A x \in Slot : Present(x)' => Present(x)
<1>1. UNCHANGED <<lanes, tavily, arq, disp, requests, apiVars>>
  BY DEF queueVars
<1>2. QInv'
  BY <1>1, QFrame, FaultFacts DEF DInv, LedgerShape, QInv, TypeOK
<1> QED BY <1>1, <1>2, SamePresence

LEMMA TakeKeeps == ASSUME DInv, NEW e \in Runner, NEW x \in Slot, Take(e, x) PROVE DInv'
<1>1. UNCHANGED <<lanes, tavily, disp, requests, apiVars, cron, ledger, faults, tracker, asked, pages>>
  BY DEF Take, queueVars
<1>2. arq' \in [Task -> Nat] /\ \A y \in Task : arq'[y] > 0 => arq[y] > 0
  BY SlotTask DEF Take, DInv, QInv, TypeOK
<1>3. QInv'
  BY <1>1, <1>2, QFrame DEF DInv, QInv, TypeOK
<1>4. \A y \in Slot : Present(y)' => Present(y)
  BY <1>1, <1>2, SlotTask DEF Present, Waiting, InHand, Holding
<1>5. PICK q : q = [IdleExec EXCEPT !.slot = {x}, !.phase = "reserve"]
  OBVIOUS
<1>6. q = [slot |-> {x}, phase |-> "reserve", page |-> 0, todo |-> {}]
  BY <1>5 DEF IdleExec
<1>7. exec' = [exec EXCEPT ![e] = q] /\ exec[e].phase = "idle"
  BY <1>5 DEF Take, At
<1>8. ledger[x] # "none"
  BY DEF Take, DInv, RowInv, Present
<1>9. q \in ExecRow
  BY <1>6, DiscoveryAssumption DEF ExecRow, Phases
<1>10. ExecOK(q)'
  BY <1>1, <1>6, <1>8, <1>9 DEF ExecOK, Owes
<1>11. Grows
  BY <1>1 DEF Grows
<1>12. Becomes(e, q)
  BY <1>1, <1>4, <1>7, <1>10, <1>11 DEF Becomes, DInv, LedgerShape
<1>13. ~Flies(q) /\ ~Flies(exec[e])
  BY <1>6, <1>7 DEF Flies, DInv, ExecInv, ExecOK
<1>14. PageInv'
  BY <1>1, <1>7, <1>10, <1>11, <1>13, ExecFrame, PageFrame DEF DInv
<1>15. SucceededHasAsked'
  BY <1>1, <1>11, SucceededFrame DEF DInv
<1> QED BY <1>3, <1>12, <1>14, <1>15, ExecKeeps

LEMMA PageNumbers ==
  ASSUME DInv
  PROVE /\ tracker \in Nat /\ tracker <= MaxPage /\ MaxPage \in Nat \ {0}
        /\ \A f \in Runner : exec[f] \in ExecRow /\ exec[f].page \in 0 .. MaxPage
        /\ pages \in PageRow /\ pages.done \subseteq 1 .. MaxPage
<1>1. MaxPage \in Nat \ {0}
  BY DiscoveryAssumption
<1>2. \A f \in Runner : exec[f] \in ExecRow /\ exec[f].page \in 0 .. MaxPage
  BY DEF DInv, ExecInv, ExecOK, ExecRow
<1> QED BY <1>1, <1>2 DEF DInv, PageInv, PageRow

\* A new page is above all that are out or done.
LEMMA PageTaken ==
  ASSUME DInv, NEW e \in Runner, NEW q, ~Flies(exec[e]), Flies(q), q.page = tracker + 1,
         \A f \in Runner : exec'[f] = IF f = e THEN q ELSE exec[f],
         tracker' = tracker + 1, tracker' <= MaxPage, UNCHANGED pages
  PROVE PageInv'
<1> SUFFICES ASSUME ~pages.lapped PROVE PageInv'
  BY PageNumbers DEF PageInv
<1> USE PageNumbers DEF Flies
<1>1. /\ \A f \in Runner : Flies(exec[f]) => exec[f].page \notin pages.done /\ exec[f].page <= tracker
      /\ \A p \in pages.done : p <= tracker
      /\ \A p \in 1 .. tracker : \/ p \in pages.done \cup pages.lost
                                 \/ \E f \in Runner : Flies(exec[f]) /\ exec[f].page = p
      /\ \A f, g \in Runner : Flies(exec[f]) /\ Flies(exec[g]) /\ f # g => exec[f].page # exec[g].page
  BY DEF DInv, PageInv
<1>2. \A f, g \in Runner : Flies(exec'[f]) /\ Flies(exec'[g]) /\ f # g => exec'[f].page # exec'[g].page
  BY <1>1
<1>3. \A f \in Runner : Flies(exec'[f]) => exec'[f].page \notin pages.done /\ exec'[f].page <= tracker'
  BY <1>1
<1>4. \A p \in 1 .. tracker' : \/ p \in pages.done \cup pages.lost
                               \/ \E f \in Runner : Flies(exec'[f]) /\ exec'[f].page = p
  <2> SUFFICES ASSUME NEW p \in 1 .. tracker', p \notin pages.done \cup pages.lost
               PROVE \E f \in Runner : Flies(exec'[f]) /\ exec'[f].page = p
    OBVIOUS
  <2>1. CASE p = tracker + 1
    BY <2>1
  <2>2. CASE p # tracker + 1
    <3>1. PICK f \in Runner : Flies(exec[f]) /\ exec[f].page = p
      BY <1>1, <2>2
    <3> QED BY <3>1
  <2> QED BY <2>1, <2>2
<1>5. \A p \in pages.done : p <= tracker'
  BY <1>1
<1> QED BY <1>2, <1>3, <1>4, <1>5 DEF PageInv

\* An execution lets its page go: as lost, as done, or back to the tracker.
LEMMA PageLeft ==
  ASSUME DInv, NEW e \in Runner, NEW q, ~Flies(q), exec[e].page # 0,
         \A f \in Runner : exec'[f] = IF f = e THEN q ELSE exec[f],
         \/ UNCHANGED tracker /\ pages' = [pages EXCEPT !.lost = @ \cup {exec[e].page}]
         \/ /\ Flies(exec[e]) /\ UNCHANGED tracker
            /\ pages' = [pages EXCEPT !.done = @ \cup {exec[e].page}]
         \/ /\ Flies(exec[e]) /\ tracker = exec[e].page /\ tracker' = exec[e].page - 1
            /\ UNCHANGED pages
  PROVE PageInv'
<1> USE PageNumbers DEF Flies
<1>1. exec[e].page \in 1 .. MaxPage
  OBVIOUS
<1>2. tracker' \in 0 .. MaxPage /\ pages' \in PageRow /\ pages'.lapped = pages.lapped
  BY <1>1 DEF PageRow
<1> SUFFICES ASSUME ~pages.lapped PROVE PageInv'
  BY <1>2 DEF PageInv
<1>3. /\ \A f \in Runner : Flies(exec[f]) => exec[f].page \notin pages.done /\ exec[f].page <= tracker
      /\ \A p \in pages.done : p <= tracker
      /\ \A p \in 1 .. tracker : \/ p \in pages.done \cup pages.lost
                                 \/ \E f \in Runner : Flies(exec[f]) /\ exec[f].page = p
      /\ \A f, g \in Runner : Flies(exec[f]) /\ Flies(exec[g]) /\ f # g => exec[f].page # exec[g].page
  BY DEF DInv, PageInv
<1>4. \A f, g \in Runner : Flies(exec'[f]) /\ Flies(exec'[g]) /\ f # g => exec'[f].page # exec'[g].page
  BY <1>3
<1>5. CASE UNCHANGED tracker /\ pages' = [pages EXCEPT !.lost = @ \cup {exec[e].page}]
  <2>1. pages'.done = pages.done /\ pages'.lost = pages.lost \cup {exec[e].page}
    BY <1>5 DEF PageRow
  <2>2. \A f \in Runner : Flies(exec'[f]) => exec'[f].page \notin pages'.done /\ exec'[f].page <= tracker'
    BY <1>3, <1>5, <2>1
  <2>3. \A p \in 1 .. tracker' : \/ p \in pages'.done \cup pages'.lost
                                 \/ \E f \in Runner : Flies(exec'[f]) /\ exec'[f].page = p
    BY <1>3, <1>5, <2>1
  <2> QED BY <1>2, <1>3, <1>4, <1>5, <2>1, <2>2, <2>3 DEF PageInv
<1>6. CASE /\ Flies(exec[e]) /\ UNCHANGED tracker
           /\ pages' = [pages EXCEPT !.done = @ \cup {exec[e].page}]
  <2>1. pages'.lost = pages.lost /\ pages'.done = pages.done \cup {exec[e].page}
    BY <1>6 DEF PageRow
  <2>2. \A f \in Runner : Flies(exec'[f]) => exec'[f].page \notin pages'.done /\ exec'[f].page <= tracker'
    BY <1>3, <1>6, <2>1
  <2>3. \A p \in 1 .. tracker' : \/ p \in pages'.done \cup pages'.lost
                                 \/ \E f \in Runner : Flies(exec'[f]) /\ exec'[f].page = p
    BY <1>3, <1>6, <2>1
  <2>4. \A p \in pages'.done : p <= tracker'
    BY <1>3, <1>6, <2>1
  <2> QED BY <1>2, <1>4, <1>6, <2>1, <2>2, <2>3, <2>4 DEF PageInv
<1>7. CASE /\ Flies(exec[e]) /\ tracker = exec[e].page /\ tracker' = exec[e].page - 1
           /\ UNCHANGED pages
  <2>1. \A f \in Runner : Flies(exec'[f]) => exec'[f].page \notin pages'.done /\ exec'[f].page <= tracker'
    BY <1>3, <1>7
  <2>2. \A p \in 1 .. tracker' : \/ p \in pages'.done \cup pages'.lost
                                 \/ \E f \in Runner : Flies(exec'[f]) /\ exec'[f].page = p
    BY <1>3, <1>7
  <2>3. \A p \in pages'.done : p <= tracker'
    BY <1>3, <1>7
  <2> QED BY <1>2, <1>4, <1>7, <2>1, <2>2, <2>3 DEF PageInv
<1> QED BY <1>5, <1>6, <1>7

LEMMA ReserveKeeps == ASSUME DInv, NEW e \in Runner, Reserve(e) PROVE DInv'
<1>1. UNCHANGED <<queueVars, cron, arq, ledger, faults, asked>> /\ exec[e].phase = "reserve"
  BY DEF Reserve, At
<1>2. QInv' /\ \A x \in Slot : Present(x)' => Present(x)
  BY <1>1, SameQueue
<1>3. PICK n : n = NextPage
  OBVIOUS
<1>4. n \in 1 .. MaxPage /\ tracker' = n /\ (n <= tracker \/ n = tracker + 1)
  BY <1>3, PageNumbers DEF NextPage, Reserve
<1>5. PICK q : q = [exec[e] EXCEPT !.page = n, !.phase = "start"]
  OBVIOUS
<1>6. exec' = [exec EXCEPT ![e] = q]
  BY <1>3, <1>5 DEF Reserve
<1>7. ExecOK(exec[e]) /\ exec[e] \in ExecRow /\ exec[e].page = 0
  BY <1>1 DEF DInv, ExecInv, ExecOK
<1>8. q \in ExecRow /\ q.phase = "start" /\ q.page = n /\ q.slot = exec[e].slot
  <2>1. n \in 0 .. MaxPage /\ "start" \in Phases
    BY <1>4, PageNumbers DEF Phases
  <2> QED BY <1>5, <1>7, <2>1 DEF ExecRow
<1>9. ExecOK(q)'
  BY <1>1, <1>4, <1>7, <1>8, PageNumbers DEF ExecOK, Owes
<1>10. Grows
  BY <1>1 DEF Grows
<1>11. Becomes(e, q)
  BY <1>1, <1>2, <1>6, <1>9, <1>10 DEF Becomes, DInv, LedgerShape
<1>12. \A f \in Runner : exec'[f] = IF f = e THEN q ELSE exec[f]
  BY <1>6, <1>9, <1>10, ExecFrame DEF DInv
<1>13. PICK b \in BOOLEAN : b <=> pages.lapped \/ n <= tracker
  OBVIOUS
<1>14. b = (pages.lapped \/ n <= tracker)
  <2>1. pages.lapped \in BOOLEAN /\ (n <= tracker) \in BOOLEAN
    BY PageNumbers DEF PageRow
  <2> QED BY <1>13, <2>1
<1>15. pages' = [pages EXCEPT !.lapped = b]
  BY <1>3, <1>14 DEF Reserve
<1>16. PageInv'
  <2>1. tracker' \in 0 .. MaxPage /\ pages' \in PageRow
        /\ (pages'.lapped <=> pages.lapped \/ n <= tracker)
    BY <1>4, <1>13, <1>15, PageNumbers DEF PageRow
  <2>2. CASE pages'.lapped
    BY <2>1, <2>2 DEF PageInv
  <2>3. CASE ~pages'.lapped
    <3>1. n = tracker + 1 /\ UNCHANGED pages
      BY <1>4, <1>13, <1>15, <2>1, <2>3, PageNumbers DEF PageRow
    <3>2. ~Flies(exec[e]) /\ Flies(q)
      BY <1>4, <1>7, <1>8, PageNumbers DEF Flies
    <3> QED BY <1>4, <1>8, <1>12, <3>1, <3>2, PageTaken
  <2> QED BY <2>2, <2>3
<1>17. SucceededHasAsked'
  BY <1>1, <1>10, SucceededFrame DEF DInv
<1> QED BY <1>2, <1>11, <1>16, <1>17, ExecKeeps

LEMMA StartKeeps == ASSUME DInv, NEW e \in Runner, Start(e) PROVE DInv'
<1>1. UNCHANGED <<queueVars, cron, arq, faults, tracker, asked, pages>> /\ exec[e].phase = "start"
  BY DEF Start, At
<1>2. QInv' /\ \A x \in Slot : Present(x)' => Present(x)
  BY <1>1, SameQueue
<1>3. Of(e) \in Slot
  BY <1>1, SlotOf DEF DInv
<1>4. ledger' \in [Slot -> Status] /\ \A x \in Slot : ledger'[x] \in {ledger[x], "running"}
  BY <1>3 DEF Start, DInv, LedgerShape, Status
<1>5. Grows /\ \A x \in Slot : ledger'[x] = "succeeded" => ledger[x] = "succeeded"
  BY <1>1, <1>4 DEF Grows
<1>6. PICK phase \in {"duplicate", "provider"} : Goto(e, phase)
  BY DEF Start
<1>7. PICK q : /\ exec' = [exec EXCEPT ![e] = q] /\ ExecOK(q)'
               /\ q.phase = phase /\ q.page = exec[e].page
  BY <1>1, <1>5, <1>6, Moved DEF Phases
<1>8. Becomes(e, q)
  BY <1>1, <1>2, <1>4, <1>5, <1>7 DEF Becomes, DInv, LedgerShape
<1>9. PageInv'
  BY <1>1, <1>5, <1>7, ExecFrame, PageFrame DEF DInv, Flies
<1>10. SucceededHasAsked'
  BY <1>5, SucceededFrame DEF DInv
<1> QED BY <1>2, <1>8, <1>9, <1>10, ExecKeeps

LEMMA RaisesKeeps == ASSUME DInv, NEW e \in Runner, Raises(e) PROVE DInv'
<1>1. UNCHANGED <<queueVars, cron, arq, ledger, tracker, asked, pages>> /\ Fault
      /\ exec[e].phase \in {"start", "provider", "seeds"} /\ Goto(e, "rollback")
  BY DEF Raises
<1>2. QInv' /\ \A x \in Slot : Present(x)' => Present(x)
  BY <1>1, SameQueue
<1>3. Grows
  BY <1>1 DEF Grows
<1>4. PICK q : /\ exec' = [exec EXCEPT ![e] = q] /\ ExecOK(q)'
               /\ q.phase = "rollback" /\ q.page = exec[e].page
  BY <1>1, <1>3, Moved DEF Phases
<1>5. Becomes(e, q)
  BY <1>1, <1>2, <1>3, <1>4 DEF Becomes, DInv, LedgerShape
<1>6. PageInv'
  BY <1>1, <1>3, <1>4, ExecFrame, PageFrame DEF DInv, Flies
<1>7. SucceededHasAsked'
  BY <1>1, <1>3, SucceededFrame DEF DInv
<1> QED BY <1>2, <1>5, <1>6, <1>7, ExecKeeps

LEMMA ProvideKeeps == ASSUME DInv, NEW e \in Runner, Provide(e) PROVE DInv'
<1>1. UNCHANGED <<queueVars, cron, arq, ledger, faults, tracker, asked, pages>>
      /\ exec[e].phase = "provider"
  BY DEF Provide, At
<1>2. QInv' /\ \A x \in Slot : Present(x)' => Present(x)
  BY <1>1, SameQueue
<1>3. Of(e) \in Slot /\ exec[e].slot = {Of(e)} /\ ledger[Of(e)] # "none"
  BY <1>1, SlotOf DEF DInv
<1>4. PICK x \in Slot : x = Of(e)
  BY <1>3
<1>5. PICK q : q = [exec[e] EXCEPT !.phase = "seeds", !.todo = Deep[x]]
  OBVIOUS
<1>6. exec' = [exec EXCEPT ![e] = q]
  BY <1>4, <1>5 DEF Provide
<1>7. ExecOK(exec[e]) /\ exec[e] \in ExecRow
  BY DEF DInv, ExecInv, ExecOK
<1>8. Deep[x] \subseteq Task \ Slot
  BY DiscoveryAssumption
<1>9. q \in ExecRow /\ q.phase = "seeds" /\ q.page = exec[e].page /\ q.slot = {x} /\ q.todo = Deep[x]
  BY <1>3, <1>4, <1>5, <1>7, <1>8 DEF ExecRow, Phases
<1>10. ExecOK(q)'
  BY <1>1, <1>3, <1>4, <1>7, <1>9 DEF ExecOK, Owes
<1>11. Grows
  BY <1>1 DEF Grows
<1>12. Becomes(e, q)
  BY <1>1, <1>2, <1>6, <1>10, <1>11 DEF Becomes, DInv, LedgerShape
<1>13. PageInv'
  BY <1>1, <1>6, <1>9, <1>10, <1>11, ExecFrame, PageFrame DEF DInv, Flies
<1>14. SucceededHasAsked'
  BY <1>1, <1>11, SucceededFrame DEF DInv
<1> QED BY <1>2, <1>12, <1>13, <1>14, ExecKeeps

LEMMA AskDeepKeeps == ASSUME DInv, NEW e \in Runner, NEW y \in Task, AskDeep(e, y) PROVE DInv'
<1>1. UNCHANGED <<tavily, arq, disp, requests, faults, apiVars, ledger, cron, tracker, pages>>
      /\ exec[e].phase = "seeds" /\ y \in exec[e].todo
  BY DEF AskDeep, At
<1>2. ExecOK(exec[e]) /\ exec[e] \in ExecRow /\ y \notin Slot
  BY <1>1 DEF DInv, ExecInv, ExecOK, ExecRow
<1>3. lanes' \in [Lane -> [Task -> Nat]] /\ \A x \in Slot : Present(x)' => Present(x)
  <2>1. PICK p \in Priority[y] : lanes' = Zadd(lanes, y, p)
    BY DEF AskDeep
  <2> QED BY <1>1, <1>2, <2>1, ZaddPresent, SlotTask DEF DInv
<1>4. QInv'
  BY <1>1, <1>3, QFrame DEF DInv, QInv, TypeOK
<1>5. Of(e) \in Slot /\ exec[e].slot = {Of(e)} /\ ledger[Of(e)] # "none" /\ Owes(exec[e], Of(e))
  BY <1>1, SlotOf DEF DInv
<1>6. PICK x \in Slot : x = Of(e)
  BY <1>5
<1>7. asked' = [asked EXCEPT ![x] = @ \cup {y}]
  BY <1>6 DEF AskDeep
<1>8. asked' \in [Slot -> SUBSET Task] /\ asked'[x] = asked[x] \cup {y}
      /\ \A z \in Slot : asked[z] \subseteq asked'[z]
  <2>1. asked \in [Slot -> SUBSET Task]
    BY DEF DInv, LedgerShape
  <2> QED BY <1>7, <2>1
<1>9. Grows
  BY <1>1, <1>8 DEF Grows
<1>10. PICK q : q = [exec[e] EXCEPT !.todo = @ \ {y}]
  OBVIOUS
<1>11. exec' = [exec EXCEPT ![e] = q]
  BY <1>10 DEF AskDeep
<1>12. q \in ExecRow /\ q.phase = "seeds" /\ q.page = exec[e].page /\ q.slot = {x}
       /\ q.todo = exec[e].todo \ {y}
  BY <1>1, <1>2, <1>5, <1>6, <1>10 DEF ExecRow
<1>13. Deep[x] \subseteq q.todo \cup asked'[x]
  BY <1>1, <1>5, <1>6, <1>8, <1>12 DEF Owes
<1>14. ExecOK(q)'
  BY <1>1, <1>2, <1>5, <1>6, <1>12, <1>13 DEF ExecOK, Owes
<1>15. Becomes(e, q)
  BY <1>1, <1>3, <1>8, <1>9, <1>11, <1>14 DEF Becomes, DInv, LedgerShape
<1>16. PageInv'
  BY <1>1, <1>9, <1>11, <1>12, <1>14, ExecFrame, PageFrame DEF DInv, Flies
<1>17. SucceededHasAsked'
  BY <1>1, <1>9, SucceededFrame DEF DInv
<1> QED BY <1>4, <1>15, <1>16, <1>17, ExecKeeps

\* The executions that end.
LEMMA EndsFacts ==
  ASSUME DInv, NEW e \in Runner, Ends(e), Grows
  PROVE ExecOK(IdleExec)' /\ \A f \in Runner : exec'[f] = IF f = e THEN IdleExec ELSE exec[f]
  BY IdleExecOK, ExecFrame DEF Ends, DInv

LEMMA ReserveFailsKeeps == ASSUME DInv, NEW e \in Runner, ReserveFails(e) PROVE DInv'
<1>1. UNCHANGED <<queueVars, cron, arq, ledger, tracker, asked, pages>> /\ Fault /\ Ends(e)
      /\ exec[e].phase = "reserve"
  BY DEF ReserveFails, At
<1>2. QInv' /\ \A x \in Slot : Present(x)' => Present(x)
  BY <1>1, SameQueue
<1>3. Grows
  BY <1>1 DEF Grows
<1>4. Becomes(e, IdleExec)
  BY <1>1, <1>2, <1>3, EndsFacts DEF Becomes, DInv, LedgerShape, Ends
<1>5. ~Flies(exec[e])
  BY <1>1 DEF DInv, ExecInv, ExecOK, Flies
<1>6. PageInv'
  BY <1>1, <1>3, <1>5, EndsFacts, IdleExecOK, PageFrame DEF DInv
<1>7. SucceededHasAsked'
  BY <1>1, <1>3, SucceededFrame DEF DInv
<1> QED BY <1>2, <1>4, <1>6, <1>7, ExecKeeps

LEMMA FailKeeps == ASSUME DInv, NEW e \in Runner, Fail(e) PROVE DInv'
<1>1. UNCHANGED <<queueVars, cron, arq, faults, tracker, asked, pages>> /\ Ends(e)
      /\ exec[e].phase = "failing" /\ ledger' = [ledger EXCEPT ![Of(e)] = "failed"]
  BY DEF Fail, At
<1>2. QInv' /\ \A x \in Slot : Present(x)' => Present(x)
  BY <1>1, SameQueue
<1>3. Of(e) \in Slot
  BY <1>1, SlotOf DEF DInv
<1>4. ledger' \in [Slot -> Status] /\ \A x \in Slot : ledger'[x] \in {ledger[x], "failed"}
  BY <1>1, <1>3 DEF DInv, LedgerShape, Status
<1>5. Grows /\ \A x \in Slot : ledger'[x] = "succeeded" => ledger[x] = "succeeded"
  BY <1>1, <1>4 DEF Grows
<1>6. Becomes(e, IdleExec)
  BY <1>1, <1>2, <1>4, <1>5, EndsFacts DEF Becomes, DInv, LedgerShape, Ends
<1>7. ~Flies(exec[e])
  BY <1>1 DEF Flies
<1>8. PageInv'
  BY <1>1, <1>5, <1>7, EndsFacts, IdleExecOK, PageFrame DEF DInv
<1>9. SucceededHasAsked'
  BY <1>5, SucceededFrame DEF DInv
<1> QED BY <1>2, <1>6, <1>8, <1>9, ExecKeeps

LEMMA DuplicateKeeps == ASSUME DInv, NEW e \in Runner, Duplicate(e) PROVE DInv'
<1>1. UNCHANGED <<queueVars, cron, arq, ledger, faults, asked>> /\ Ends(e)
      /\ exec[e].phase = "duplicate" /\ rollback_discovery_page(exec[e].page)
  BY DEF Duplicate, At
<1>2. QInv' /\ \A x \in Slot : Present(x)' => Present(x)
  BY <1>1, SameQueue
<1>3. Grows
  BY <1>1 DEF Grows
<1>4. Becomes(e, IdleExec)
  BY <1>1, <1>2, <1>3, EndsFacts DEF Becomes, DInv, LedgerShape, Ends
<1>5. Flies(exec[e]) /\ exec[e].page # 0
  BY <1>1 DEF DInv, ExecInv, ExecOK, Flies
<1>6. PageInv'
  BY <1>1, <1>3, <1>5, EndsFacts, IdleExecOK, PageLeft DEF rollback_discovery_page, Lost
<1>7. SucceededHasAsked'
  BY <1>1, <1>3, SucceededFrame DEF DInv
<1> QED BY <1>2, <1>4, <1>6, <1>7, ExecKeeps

LEMMA CommitRunKeeps == ASSUME DInv, NEW e \in Runner, CommitRun(e) PROVE DInv'
<1>1. UNCHANGED <<queueVars, cron, arq, faults, tracker, asked>> /\ Ends(e)
      /\ exec[e].phase = "seeds" /\ exec[e].todo = {} /\ ledger' = [ledger EXCEPT ![Of(e)] = "succeeded"]
      /\ pages' = [pages EXCEPT !.done = @ \cup {exec[e].page}]
  BY DEF CommitRun, At
<1>2. QInv' /\ \A x \in Slot : Present(x)' => Present(x)
  BY <1>1, SameQueue
<1>3. Of(e) \in Slot /\ Owes(exec[e], Of(e))
  BY <1>1, SlotOf DEF DInv
<1>4. ledger' \in [Slot -> Status]
      /\ \A x \in Slot : ledger'[x] = IF x = Of(e) THEN "succeeded" ELSE ledger[x]
  BY <1>1, <1>3 DEF DInv, LedgerShape, Status
<1>5. Grows
  BY <1>1, <1>4 DEF Grows
<1>6. Becomes(e, IdleExec)
  BY <1>1, <1>2, <1>4, <1>5, EndsFacts DEF Becomes, DInv, LedgerShape, Ends
<1>7. Flies(exec[e]) /\ exec[e].page # 0
  BY <1>1 DEF DInv, ExecInv, ExecOK, Flies
<1>8. PageInv'
  BY <1>1, <1>5, <1>7, EndsFacts, IdleExecOK, PageLeft
<1>9. Deep[Of(e)] \subseteq asked[Of(e)]
  BY <1>1, <1>3 DEF Owes
<1>10. SucceededHasAsked'
  BY <1>1, <1>4, <1>9 DEF DInv, SucceededHasAsked
<1> QED BY <1>2, <1>6, <1>8, <1>10, ExecKeeps

LEMMA GiveBackKeeps == ASSUME DInv, NEW e \in Runner, GiveBack(e) PROVE DInv'
<1>1. UNCHANGED <<queueVars, cron, arq, ledger, asked>> /\ Goto(e, "failing")
      /\ exec[e].phase = "rollback"
      /\ \/ rollback_discovery_page(exec[e].page) /\ UNCHANGED faults
         \/ Fault /\ Lost(exec[e].page) /\ UNCHANGED tracker
  BY DEF GiveBack, At
<1>2. QInv' /\ \A x \in Slot : Present(x)' => Present(x)
  BY <1>1, SameQueue
<1>3. Grows
  BY <1>1 DEF Grows
<1>4. PICK q : /\ exec' = [exec EXCEPT ![e] = q] /\ ExecOK(q)'
               /\ q.phase = "failing" /\ q.page = exec[e].page
  BY <1>1, <1>3, Moved DEF Phases
<1>5. Becomes(e, q)
  BY <1>1, <1>2, <1>3, <1>4 DEF Becomes, DInv, LedgerShape
<1>6. Flies(exec[e]) /\ exec[e].page # 0 /\ ~Flies(q)
  BY <1>1, <1>4 DEF DInv, ExecInv, ExecOK, Flies
<1>7. \A f \in Runner : exec'[f] = IF f = e THEN q ELSE exec[f]
  BY <1>3, <1>4, ExecFrame DEF DInv
<1>8. PageInv'
  BY <1>1, <1>6, <1>7, PageLeft DEF rollback_discovery_page, Lost
<1>9. SucceededHasAsked'
  BY <1>1, <1>3, SucceededFrame DEF DInv
<1> QED BY <1>2, <1>5, <1>8, <1>9, ExecKeeps

LEMMA ExecDiesKeeps == ASSUME DInv, NEW e \in Runner, ExecDies(e) PROVE DInv'
<1>1. UNCHANGED <<lanes, tavily, disp, requests, apiVars, cron, ledger, tracker, asked>> /\ Ends(e)
      /\ Fault /\ exec[e].phase # "idle"
      /\ (UNCHANGED arq \/ arq' = [arq EXCEPT ![Of(e)] = @ + 1])
      /\ pages' = [pages EXCEPT !.lost = IF exec[e].page = 0 THEN @ ELSE @ \cup {exec[e].page}]
  BY DEF ExecDies, At, queueVars
<1>2. Of(e) \in Slot /\ ledger[Of(e)] # "none"
  BY <1>1, SlotOf DEF DInv
<1>3. arq' \in [Task -> Nat] /\ \A x \in Slot : x # Of(e) => arq'[x] = arq[x]
  BY <1>1, <1>2, SlotTask DEF DInv, QInv, TypeOK
<1>4. QInv'
  BY <1>1, <1>3, QFrame, FaultFacts DEF DInv, LedgerShape, QInv, TypeOK
<1>5. Grows
  BY <1>1 DEF Grows
<1>6. ExecInv'
  <2>1. exec' = [exec EXCEPT ![e] = IdleExec] /\ ExecInv
    BY <1>1 DEF Ends, DInv
  <2> QED BY <1>5, <2>1, IdleExecOK, ExecFrame
<1>7. RowInv'
  <2>1. \A x \in Slot : x # Of(e) => (Present(x)' => Present(x))
    BY <1>1, <1>3, SamePresence
  <2> QED BY <1>1, <1>2, <2>1 DEF DInv, RowInv
<1>8. PageInv'
  <2>1. CASE exec[e].page = 0
    <3>1. UNCHANGED pages
      BY <1>1, <2>1, PageNumbers DEF PageRow
    <3>2. ~Flies(exec[e])
      BY <2>1 DEF Flies
    <3> QED BY <1>1, <1>5, <3>1, <3>2, EndsFacts, IdleExecOK, PageFrame DEF DInv
  <2>2. CASE exec[e].page # 0
    BY <1>1, <1>5, <2>2, EndsFacts, IdleExecOK, PageLeft
  <2> QED BY <2>1, <2>2
<1>9. SucceededHasAsked'
  BY <1>1, <1>5, SucceededFrame DEF DInv
<1>10. LedgerShape'
  BY <1>1, FaultFacts DEF DInv, LedgerShape
<1> QED BY <1>4, <1>6, <1>7, <1>8, <1>9, <1>10 DEF DInv

LEMMA DiscoveryStart == DiscoveryInit => DInv
<1> SUFFICES ASSUME DiscoveryInit PROVE DInv
  OBVIOUS
<1>1. QInv
  BY InitQInv DEF DiscoveryInit
<1>2. LedgerShape
  BY CollectQueueAssumption, IdleCronRow DEF DiscoveryInit, LedgerShape, Init, Status
<1>3. ExecInv
  <2>1. IdleExec \in ExecRow
    BY DiscoveryAssumption DEF IdleExec, ExecRow, Phases
  <2> QED BY <2>1 DEF DiscoveryInit, ExecInv, ExecOK, IdleExec
<1>4. RowInv
  <2>1. \A x \in Task : ~Present(x)
    BY DEF DiscoveryInit, Init, Present, Waiting, InHand, Holding, IdleRun
  <2> QED BY <2>1, SlotTask DEF RowInv, DiscoveryInit, IdleCron
<1>5. PageInv
  <2>1. tracker \in 0 .. MaxPage /\ tracker = 0
    BY DiscoveryAssumption DEF DiscoveryInit
  <2>2. pages \in PageRow /\ pages.done = {}
    BY DEF DiscoveryInit, PageRow
  <2>3. \A e \in Runner : ~Flies(exec[e])
    BY DEF DiscoveryInit, Flies, IdleExec
  <2>4. 1 .. tracker = {}
    BY <2>1
  <2> QED BY <2>1, <2>2, <2>3, <2>4 DEF PageInv
<1>6. SucceededHasAsked
  BY DEF DiscoveryInit, SucceededHasAsked
<1> QED BY <1>1, <1>2, <1>3, <1>4, <1>5, <1>6 DEF DInv

LEMMA DiscoveryStepKeeps == DInv /\ [DiscoveryNext]_allVars => DInv'
<1>1. DInv /\ DiscoveryNext => DInv'
  BY QueueStepKeeps, QuietCronKeeps, AutoCommitKeeps, AutoEnqueueKeeps, AutoMarkKeeps, TakeKeeps,
     AskDeepKeeps, ReserveKeeps, ReserveFailsKeeps, StartKeeps, DuplicateKeeps, ProvideKeeps,
     CommitRunKeeps, RaisesKeeps, GiveBackKeeps, FailKeeps, ExecDiesKeeps
  DEF DiscoveryNext
<1>2. ASSUME DInv, UNCHANGED allVars PROVE DInv'
  <2>1. UNCHANGED <<vars, ledger, cron, runVars>>
    BY <1>2 DEF allVars, discoveryVars
  <2>2. QInv'
    BY <1>2, <2>1, StutterQInv DEF DInv
  <2>3. \A x : Present(x)' <=> Present(x)
    BY <2>1, SamePresence DEF vars
  <2>4. LedgerShape' /\ ExecInv' /\ RowInv' /\ PageInv' /\ SucceededHasAsked'
    BY <1>2, <2>1, <2>3
    DEF vars, runVars, DInv, LedgerShape, ExecInv, ExecOK, Owes, RowInv, PageInv, Flies, SucceededHasAsked
  <2> QED BY <2>2, <2>4 DEF DInv
<1> QED BY <1>1, <1>2

LEMMA DiscoveryInvariant == DiscoverySpec => []DInv
  BY DiscoveryStart, DiscoveryStepKeeps, PTL DEF DiscoverySpec

\* The tracker stays on a page that exists, executions on slots whose row was written.
THEOREM DiscoveryTypes == DiscoverySpec => []DiscoveryTypeOK
<1>1. DInv => DiscoveryTypeOK
  <2> SUFFICES ASSUME DInv PROVE DiscoveryTypeOK
    OBVIOUS
  <2>1. \A e \in Runner : At(e, "idle") \/ ledger[Of(e)] # "none"
    BY SlotOf DEF DInv, At
  <2> QED BY <2>1, PageNumbers DEF DiscoveryTypeOK, DInv, QInv, LedgerShape, CronRow, PageInv
<1> QED BY <1>1, DiscoveryInvariant, PTL

\* get_discovery_page and rollback_discovery_page, under any overlap of executions and any
\* order of failures: until the tracker wraps, no page is out twice or again after it was
\* processed.
THEOREM PagesStayDistinct == DiscoverySpec => []PagesDistinct
<1>1. DInv => PagesDistinct
  BY DEF DInv, PageInv, PagesDistinct, InFlight, Flies
<1> QED BY <1>1, DiscoveryInvariant, PTL

\* "retries do not silently skip a failed page": every page the tracker has passed was
\* processed, is out, or could not go back.
THEOREM PagesAccountedFor == DiscoverySpec => []NoPageForgotten
<1>1. DInv => NoPageForgotten
  BY DEF DInv, PageInv, NoPageForgotten, InFlight, Flies
<1> QED BY <1>1, DiscoveryInvariant, PTL

\* _discover_job_impl: a discovery that reads succeeded has asked for every deep collection
\* it owes, whichever of its executions committed.
THEOREM SuccessHasAsked == DiscoverySpec => []SucceededHasAsked
<1>1. DInv => SucceededHasAsked
  BY DEF DInv
<1> QED BY <1>1, DiscoveryInvariant, PTL

(***************************************************************************)
(* The one copy of a slot's task, as long as nothing fails.                *)
(***************************************************************************)
SameCron(x) == \A c \in Cron : Handing(c, x)' <=> Handing(c, x)
SameExec(x) == \A e \in Runner : exec'[e].slot = {x} <=> exec[e].slot = {x}

\* A step that moves no copy of x.
LEMMA NotMoved ==
  ASSUME NEW x \in Slot, SlotOnce(x), SameCron(x), SameLanes(x), arq'[x] = arq[x],
         UNCHANGED disp, SameExec(x), ledger'[x] \in {"none", "queued", "running", "succeeded"},
         Going(x)' <=> Going(x)
  PROVE SlotOnce(x)'
<1>1. (NoCron(x) => NoCron(x)') /\ (OneCron(x) => OneCron(x)')
  BY DEF NoCron, OneCron, SameCron
<1>2. (NoLane(x) => NoLane(x)') /\ (OneLane(x) => OneLane(x)')
  BY DEF NoLane, OneLane, SameLanes
<1>3. (NoHand(x) => NoHand(x)') /\ (OneHand(x) => OneHand(x)')
  BY DEF NoHand, OneHand, Never, Once
<1>4. (NoExec(x) => NoExec(x)') /\ (OneExec(x) => OneExec(x)')
  BY DEF NoExec, OneExec, SameExec
<1> QED BY <1>1, <1>2, <1>3, <1>4 DEF SlotOnce, Nowhere, Somewhere

LEMMA DispatchMoves ==
  ASSUME DInv, NEW d \in Dispatcher, DispatchStep(d) \/ DispatchDies(d), faults' = faults,
         UNCHANGED discoveryVars, NEW x \in Slot, SlotOnce(x)
  PROVE SlotOnce(x)'
<1>1. UNCHANGED <<ledger, cron, exec>>
  BY DEF discoveryVars, runVars
<1>2. (NoCron(x) => NoCron(x)') /\ (OneCron(x) => OneCron(x)')
  BY <1>1 DEF NoCron, OneCron, Handing
<1>3. (NoExec(x) => NoExec(x)') /\ (OneExec(x) => OneExec(x)')
  BY <1>1 DEF NoExec, OneExec
<1>4. \A c \in Dispatcher \ {d} : disp'[c] = disp[c]
  BY DispatchEffect, SlotTask DEF DInv, Effect
<1>5. Stays(d, x) \/ Picked(d, x) \/ Passed(d, x)
  BY DispatchEffect, SlotTask, DiscoveryAssumption DEF DInv, Effect, Returned, Forgotten
<1>6. \A c \in Dispatcher \ {d} : /\ Never(disp[c].hand, x)' <=> Never(disp[c].hand, x)
                                 /\ Once(disp[c].hand, x)' <=> Once(disp[c].hand, x)
  BY <1>4 DEF Never, Once
<1>7. Once(disp[d].hand, x)' <=> Once(disp'[d].hand, x)
  BY DEF Once
<1>8. CASE Stays(d, x)
  <2>1. NoHand(x) => NoHand(x)'
    BY <1>4, <1>8 DEF NoHand, Stays, Never
  <2>2. OneHand(x) => OneHand(x)'
    <3> SUFFICES ASSUME OneHand(x) PROVE OneHand(x)'
      OBVIOUS
    <3>1. PICK c \in Dispatcher : /\ Once(disp[c].hand, x)
                                  /\ \A b \in Dispatcher : ~Never(disp[b].hand, x) => b = c
      BY DEF OneHand
    <3>2. Once(disp[c].hand, x)'
      BY <1>6, <1>7, <1>8, <3>1 DEF Stays
    <3>3. \A b \in Dispatcher : ~Never(disp[b].hand, x)' => b = c
      BY <1>4, <1>8, <3>1 DEF Stays, Never
    <3> QED BY <3>2, <3>3 DEF OneHand
  <2>3. (NoLane(x) => NoLane(x)') /\ (OneLane(x) => OneLane(x)') /\ arq'[x] = arq[x]
    BY <1>8 DEF Stays, SameLanes, NoLane, OneLane
  <2> QED BY <1>1, <1>2, <1>3, <2>1, <2>2, <2>3 DEF SlotOnce, Going, Nowhere, Somewhere
<1>9. CASE Picked(d, x)
  <2>1. PICK l \in Lane : /\ lanes[l][x] # Out /\ lanes'[l][x] = Out
                          /\ \A k \in Lane \ {l} : lanes'[k][x] = lanes[k][x]
    BY <1>9 DEF Picked
  <2>2. Going(x) /\ NoCron(x) /\ OneLane(x) /\ arq[x] = 0 /\ NoHand(x) /\ NoExec(x)
    BY <2>1 DEF SlotOnce, Nowhere, Somewhere, NoLane
  <2>3. NoLane(x)'
    BY <2>1, <2>2 DEF NoLane, OneLane
  <2>4. Once(disp[d].hand, x)'
    BY <1>7, <1>9, <2>2 DEF Picked, NoHand
  <2>5. OneHand(x)'
    BY <1>4, <2>2, <2>4 DEF NoHand, OneHand, Never, Once
  <2>6. arq'[x] = 0
    BY <1>9, <2>2 DEF Picked
  <2> QED BY <1>1, <1>2, <1>3, <2>2, <2>3, <2>5, <2>6 DEF SlotOnce, Going, Somewhere
<1>10. CASE Passed(d, x)
  <2>1. ~NoHand(x)
    BY <1>10 DEF Passed, NoHand
  <2>2. Going(x) /\ NoCron(x) /\ NoLane(x) /\ arq[x] = 0 /\ OneHand(x) /\ NoExec(x)
    BY <2>1 DEF SlotOnce, Nowhere, Somewhere
  <2>3. Once(disp[d].hand, x) /\ \A c \in Dispatcher \ {d} : Never(disp[c].hand, x)
    BY <1>10, <2>2 DEF OneHand, Passed
  <2>4. NoHand(x)'
    BY <1>4, <1>10, <2>3 DEF Passed, NoHand, Never, Once
  <2>5. arq'[x] = 1 /\ NoLane(x)'
    BY <1>10, <2>2 DEF Passed, SameLanes, NoLane
  <2> QED BY <1>1, <1>2, <1>3, <2>2, <2>4, <2>5 DEF SlotOnce, Going, Somewhere
<1> QED BY <1>5, <1>8, <1>9, <1>10

LEMMA QueueCopies ==
  ASSUME DInv, Copies, QueueStep, UNCHANGED discoveryVars, faults' = faults PROVE Copies'
<1>1. UNCHANGED <<ledger, cron, exec>>
  BY DEF discoveryVars, runVars
<1>2. Smooth'
  BY <1>1 DEF Copies, Smooth
<1>3. ASSUME NEW x \in Slot PROVE SlotOnce(x)'
  <2>1. ASSUME NEW d \in Dispatcher, DispatchStep(d) \/ DispatchDies(d) PROVE SlotOnce(x)'
    BY <2>1, DispatchMoves DEF Copies
  <2>2. ASSUME NEW y \in Task \ Slot, RunJob(y) PROVE SlotOnce(x)'
    <3>1. arq'[x] = arq[x] /\ UNCHANGED <<lanes, disp>>
      BY <2>2, SlotTask DEF RunJob, DInv, QInv, TypeOK
    <3>2. SameCron(x) /\ SameExec(x) /\ SameLanes(x) /\ (Going(x)' <=> Going(x))
      BY <1>1, <3>1 DEF SameCron, Handing, SameExec, SameLanes, Going
    <3> QED BY <1>1, <3>1, <3>2, NotMoved DEF Copies, SlotOnce
  <2> QED BY <2>1, <2>2 DEF QueueStep
<1> QED BY <1>2, <1>3 DEF Copies

\* ZADD of a task that is in no lane.
LEMMA ZaddOneLane ==
  ASSUME lanes \in [Lane -> [Task -> Nat]], NEW x \in Task, NEW p \in Nat \ {0},
         lanes' = Zadd(lanes, x, p), NoLane(x)
  PROVE OneLane(x)'
<1>1. lane_of(p) \in Lane
  BY DEF lane_of, Lane
<1>2. PICK l \in Lane : l = lane_of(p)
  BY <1>1
<1>3. lanes' = [lanes EXCEPT ![l] = [lanes[l] EXCEPT ![x] = p]]
  BY <1>2 DEF Zadd
<1>4. lanes'[l][x] = p /\ \A k \in Lane \ {l} : lanes'[k][x] = lanes[k][x]
  BY <1>3
<1> QED BY <1>4 DEF NoLane, OneLane, Out

\* A run of the cron job.
LEMMA CronCopies ==
  ASSUME DInv, Copies, NEW c \in Cron, NEW x \in Slot, faults' = faults,
         \/ AutoRead(c, x) \/ AutoCommit(c, x) \/ AutoEnqueue(c, x)
         \/ AutoEnqueueFails(c, x) \/ AutoMark(c, x) \/ AutoDies(c)
  PROVE Copies'
<1>1. AutoRead(c, x) \/ AutoCommit(c, x) \/ AutoEnqueue(c, x)
  BY DEF AutoEnqueueFails, AutoMark, AutoDies, Fault, Copies, Smooth, DInv, QInv, TypeOK
<1>2. UNCHANGED <<arq, disp, exec>>
  BY <1>1 DEF AutoRead, AutoCommit, AutoEnqueue, queueVars, runVars
<1>3. \A y \in Slot : SameExec(y)
  BY <1>2 DEF SameExec
<1>4. CASE AutoRead(c, x)
  <2>1. PICK r : r = [phase |-> ledger[x], slot |-> {x}]
    OBVIOUS
  <2>2. cron' = [cron EXCEPT ![c] = r] /\ cron[c] = IdleCron /\ UNCHANGED <<ledger, lanes>>
        /\ ledger[x] \in {"none", "queue_failed"}
    BY <1>4, <2>1 DEF AutoRead
  <2>3. r \in CronRow /\ r.phase = "none"
    BY <2>1, <2>2 DEF Copies, SlotOnce, CronRow
  <2>4. \A b \in Cron : cron'[b] = IF b = c THEN r ELSE cron[b]
    BY <2>2, <2>3, CronRowChange
  <2>5. Smooth'
    BY <1>2, <2>3, <2>4 DEF Copies, Smooth
  <2>6. \A y \in Slot : SameCron(y) /\ SameLanes(y)
    BY <2>2, <2>3, <2>4 DEF SameCron, Handing, SameLanes, IdleCron
  <2>7. \A y \in Slot : SlotOnce(y)'
    BY <1>2, <1>3, <2>2, <2>6, NotMoved DEF Copies, SlotOnce, Going
  <2> QED BY <2>5, <2>7 DEF Copies
<1>5. CASE AutoCommit(c, x)
  <2>1. cron[c].slot = {x} /\ cron[c].phase = "none" /\ UNCHANGED lanes
    BY <1>5 DEF AutoCommit, queueVars, Copies, Smooth
  <2>2. CASE ledger[x] # "none"
    <3>1. cron' = [cron EXCEPT ![c] = IdleCron] /\ UNCHANGED ledger
      BY <1>5, <2>1, <2>2 DEF AutoCommit
    <3>2. \A b \in Cron : cron'[b] = IF b = c THEN IdleCron ELSE cron[b]
      BY <3>1, IdleCronRow, CronRowChange
    <3>3. Smooth'
      BY <1>2, <3>2 DEF Copies, Smooth, IdleCron
    <3>4. \A y \in Slot : SameCron(y) /\ SameLanes(y)
      BY <2>1, <3>2 DEF SameCron, Handing, SameLanes, IdleCron
    <3>5. \A y \in Slot : SlotOnce(y)'
      BY <1>2, <1>3, <3>1, <3>4, NotMoved DEF Copies, SlotOnce, Going
    <3> QED BY <3>3, <3>5 DEF Copies
  <2>3. CASE ledger[x] = "none"
    <3>1. ledger' = [ledger EXCEPT ![x] = "queued"] /\ cron' = [cron EXCEPT ![c].phase = "queued"]
      BY <1>5, <2>3 DEF AutoCommit
    <3>2. PICK r : r = [phase |-> "queued", slot |-> {x}]
      OBVIOUS
    <3>3. cron' = [cron EXCEPT ![c] = r] /\ r \in CronRow
      BY <2>1, <3>1, <3>2, PhaseChange
    <3>4. \A b \in Cron : cron'[b] = IF b = c THEN r ELSE cron[b]
      BY <3>3, CronRowChange
    <3>5. \A y \in Slot : ledger'[y] = IF y = x THEN "queued" ELSE ledger[y]
      BY <3>1 DEF DInv, LedgerShape
    <3>6. Smooth'
      BY <1>2, <3>2, <3>4 DEF Copies, Smooth
    <3>7. ASSUME NEW y \in Slot, y # x PROVE SlotOnce(y)'
      <4>1. SameCron(y) /\ SameLanes(y) /\ SameExec(y)
        BY <1>3, <2>1, <3>2, <3>4, <3>7 DEF SameCron, Handing, SameLanes
      <4> QED BY <1>2, <3>5, <3>7, <4>1, NotMoved DEF Copies, SlotOnce, Going
    <3>8. SlotOnce(x)'
      <4>1. Nowhere(x)
        BY <2>3 DEF Copies, SlotOnce, Going
      <4>2. OneCron(x)'
        BY <3>2, <3>4, <4>1 DEF Nowhere, NoCron, OneCron, Handing
      <4>3. NoLane(x)' /\ NoHand(x)' /\ NoExec(x)'
        BY <1>2, <2>1, <4>1 DEF Nowhere, NoLane, NoHand, NoExec, Never
      <4> QED BY <1>2, <3>5, <4>1, <4>2, <4>3 DEF SlotOnce, Going, Somewhere, Nowhere
    <3> QED BY <3>6, <3>7, <3>8 DEF Copies
  <2> QED BY <2>2, <2>3
<1>6. CASE AutoEnqueue(c, x)
  <2>1. PICK p \in Priority[x] : lanes' = Zadd(lanes, x, p)
    BY <1>6 DEF AutoEnqueue
  <2>2. Handing(c, x) /\ cron' = [cron EXCEPT ![c] = IdleCron] /\ UNCHANGED ledger
    BY <1>6 DEF AutoEnqueue, Handing
  <2>3. \A b \in Cron : cron'[b] = IF b = c THEN IdleCron ELSE cron[b]
    BY <2>2, IdleCronRow, CronRowChange
  <2>4. Smooth'
    BY <1>2, <2>3 DEF Copies, Smooth, IdleCron
  <2>5. ASSUME NEW y \in Slot, y # x PROVE SlotOnce(y)'
    <3>1. SameLanes(y)
      BY <1>2, <2>1, <2>5, SlotTask, ZaddPresent DEF DInv
    <3>2. SameCron(y) /\ SameExec(y)
      BY <1>3, <2>2, <2>3, <2>5 DEF SameCron, Handing, IdleCron
    <3> QED BY <1>2, <2>2, <3>1, <3>2, NotMoved DEF Copies, SlotOnce, Going
  <2>6. SlotOnce(x)'
    <3>1. Going(x) /\ OneCron(x) /\ NoLane(x) /\ arq[x] = 0 /\ NoHand(x) /\ NoExec(x)
      BY <2>2 DEF Copies, SlotOnce, Nowhere, Somewhere, NoCron
    <3>2. NoCron(x)'
      BY <2>2, <2>3, <3>1 DEF NoCron, OneCron, Handing, IdleCron
    <3>3. NoHand(x)' /\ NoExec(x)'
      BY <1>2, <3>1 DEF NoHand, NoExec, Never
    <3>4. OneLane(x)'
      BY <2>1, <3>1, SlotTask, ZaddOneLane, CollectQueueAssumption DEF DInv, QInv, TypeOK
    <3> QED BY <1>2, <2>2, <3>1, <3>2, <3>3, <3>4 DEF Copies, SlotOnce, Going, Somewhere
  <2> QED BY <2>4, <2>5, <2>6 DEF Copies
<1> QED BY <1>1, <1>4, <1>5, <1>6

\* An execution that keeps its slot, while the queue and the cron runs rest.
LEMMA ExecGoesOn ==
  ASSUME DInv, Copies, NEW e \in Runner, NEW q, exec' = [exec EXCEPT ![e] = q],
         q.slot = exec[e].slot, q.phase \in {"reserve", "start", "provider", "seeds"},
         UNCHANGED <<cron, arq, disp>>, \A x \in Slot : SameLanes(x),
         \A x \in Slot : ledger'[x] = ledger[x] \/ (Going(x) /\ ledger'[x] = "running")
  PROVE Copies'
<1>1. \A f \in Runner : exec'[f] = IF f = e THEN q ELSE exec[f]
  BY DEF DInv, ExecInv
<1>2. Smooth'
  BY <1>1 DEF Copies, Smooth
<1>3. ASSUME NEW x \in Slot PROVE SlotOnce(x)'
  <2>1. SameExec(x) /\ SameCron(x)
    BY <1>1 DEF SameExec, SameCron, Handing
  <2>2. ledger'[x] \in {"none", "queued", "running", "succeeded"} /\ (Going(x)' <=> Going(x))
    BY DEF Copies, SlotOnce, Going
  <2> QED BY <2>1, <2>2, NotMoved DEF Copies
<1> QED BY <1>2, <1>3 DEF Copies

LEMMA TakeCopies ==
  ASSUME DInv, Copies, NEW e \in Runner, NEW x \in Slot, Take(e, x) PROVE Copies'
<1>1. UNCHANGED <<lanes, disp, cron, ledger>> /\ exec[e].phase = "idle" /\ arq[x] > 0
  BY DEF Take, queueVars, At
<1>2. \A y \in Task : arq'[y] = IF y = x THEN arq[x] - 1 ELSE arq[y]
  BY DEF Take, DInv, QInv, TypeOK
<1>3. PICK q : q = [IdleExec EXCEPT !.slot = {x}, !.phase = "reserve"]
  OBVIOUS
<1>4. q.slot = {x} /\ q.phase = "reserve"
  BY <1>3 DEF IdleExec
<1>5. \A f \in Runner : exec'[f] = IF f = e THEN q ELSE exec[f]
  BY <1>3 DEF Take, DInv, ExecInv
<1>6. exec[e].slot = {}
  BY <1>1 DEF DInv, ExecInv, ExecOK
<1>7. Smooth'
  BY <1>1, <1>4, <1>5 DEF Copies, Smooth
<1>8. ASSUME NEW y \in Slot, y # x PROVE SlotOnce(y)'
  <2>1. SameExec(y) /\ SameCron(y) /\ SameLanes(y) /\ arq'[y] = arq[y]
    BY <1>1, <1>2, <1>4, <1>5, <1>6, <1>8, SlotTask DEF SameExec, SameCron, Handing, SameLanes
  <2> QED BY <1>1, <2>1, NotMoved DEF Copies, SlotOnce, Going
<1>9. SlotOnce(x)'
  <2>1. Going(x) /\ NoCron(x) /\ NoLane(x) /\ arq[x] = 1 /\ NoHand(x) /\ NoExec(x)
    BY <1>1 DEF Copies, SlotOnce, Nowhere, Somewhere
  <2>2. NoCron(x)' /\ NoLane(x)' /\ NoHand(x)'
    BY <1>1, <2>1 DEF NoCron, Handing, NoLane, NoHand, Never
  <2>3. OneExec(x)'
    BY <1>4, <1>5, <2>1 DEF NoExec, OneExec
  <2>4. arq'[x] = 0
    BY <1>2, <2>1, SlotTask
  <2> QED BY <1>1, <2>1, <2>2, <2>3, <2>4 DEF Copies, SlotOnce, Going, Somewhere
<1> QED BY <1>7, <1>8, <1>9 DEF Copies

\* The row of a slot with an execution.
LEMMA RunningSlot ==
  ASSUME DInv, Copies, NEW e \in Runner, exec[e].phase # "idle"
  PROVE /\ Of(e) \in Slot /\ exec[e].slot = {Of(e)} /\ Going(Of(e))
        /\ NoCron(Of(e)) /\ NoLane(Of(e)) /\ arq[Of(e)] = 0 /\ NoHand(Of(e)) /\ OneExec(Of(e))
<1>1. Of(e) \in Slot /\ exec[e].slot = {Of(e)}
  BY SlotOf DEF DInv
<1>2. PICK x \in Slot : x = Of(e)
  BY <1>1
<1>3. SlotOnce(x) /\ ~NoExec(x)
  BY <1>1, <1>2 DEF Copies, NoExec
<1>4. Going(x) /\ NoCron(x) /\ NoLane(x) /\ arq[x] = 0 /\ NoHand(x) /\ OneExec(x)
  BY <1>3 DEF SlotOnce, Nowhere, Somewhere
<1> QED BY <1>1, <1>2, <1>4

LEMMA CommitRunCopies ==
  ASSUME DInv, Copies, NEW e \in Runner, CommitRun(e) PROVE Copies'
<1>1. UNCHANGED <<lanes, arq, disp, cron>> /\ exec[e].phase = "seeds"
      /\ ledger' = [ledger EXCEPT ![Of(e)] = "succeeded"] /\ exec' = [exec EXCEPT ![e] = IdleExec]
  BY DEF CommitRun, queueVars, At, Ends
<1>2. PICK x \in Slot : x = Of(e)
  BY <1>1, RunningSlot
<1>3. exec[e].slot = {x} /\ NoCron(x) /\ NoLane(x) /\ arq[x] = 0 /\ NoHand(x) /\ OneExec(x)
  BY <1>1, <1>2, RunningSlot
<1>4. \A y \in Slot : ledger'[y] = IF y = x THEN "succeeded" ELSE ledger[y]
  BY <1>1, <1>2 DEF DInv, LedgerShape
<1>5. \A f \in Runner : exec'[f] = IF f = e THEN IdleExec ELSE exec[f]
  BY <1>1 DEF DInv, ExecInv
<1>6. Smooth'
  BY <1>1, <1>5 DEF Copies, Smooth, IdleExec
<1>7. ASSUME NEW y \in Slot, y # x PROVE SlotOnce(y)'
  <2>1. SameExec(y) /\ SameCron(y) /\ SameLanes(y)
    BY <1>1, <1>3, <1>5, <1>7 DEF SameExec, SameCron, Handing, SameLanes, IdleExec
  <2> QED BY <1>1, <1>4, <1>7, <2>1, NotMoved DEF Copies, SlotOnce, Going
<1>8. SlotOnce(x)'
  <2>1. NoCron(x)' /\ NoLane(x)' /\ NoHand(x)' /\ arq'[x] = 0
    BY <1>1, <1>3 DEF NoCron, Handing, NoLane, NoHand, Never
  <2>2. NoExec(x)'
    BY <1>3, <1>5 DEF NoExec, OneExec, IdleExec
  <2> QED BY <1>4, <2>1, <2>2 DEF SlotOnce, Going, Nowhere
<1> QED BY <1>6, <1>7, <1>8 DEF Copies

LEMMA ExecCopies ==
  ASSUME DInv, Copies, NEW e \in Runner, faults' = faults,
         \/ \E y \in Task : AskDeep(e, y)
         \/ Reserve(e) \/ ReserveFails(e) \/ Start(e) \/ Duplicate(e) \/ Provide(e)
         \/ CommitRun(e) \/ Raises(e) \/ GiveBack(e) \/ Fail(e) \/ ExecDies(e)
  PROVE Copies'
<1>1. \/ (\E y \in Task : AskDeep(e, y)) \/ Reserve(e) \/ Start(e) \/ Provide(e) \/ CommitRun(e)
  BY DEF ReserveFails, Duplicate, Raises, GiveBack, Fail, ExecDies, At, Fault, Copies, Smooth,
         DInv, QInv, TypeOK
<1>2. exec[e] \in ExecRow
  BY DEF DInv, ExecInv, ExecOK
<1>3. ASSUME NEW y \in Task, AskDeep(e, y) PROVE Copies'
  <2>1. PICK p \in Priority[y] : lanes' = Zadd(lanes, y, p)
    BY <1>3 DEF AskDeep
  <2>2. UNCHANGED <<cron, arq, disp, ledger>> /\ y \in exec[e].todo /\ exec[e].phase = "seeds"
    BY <1>3 DEF AskDeep, At
  <2>3. \A x \in Slot : SameLanes(x)
    BY <1>2, <2>1, <2>2, SlotTask, ZaddPresent DEF DInv, ExecRow
  <2>4. PICK q : q = [exec[e] EXCEPT !.todo = @ \ {y}]
    OBVIOUS
  <2>5. exec' = [exec EXCEPT ![e] = q] /\ q.slot = exec[e].slot /\ q.phase = "seeds"
    BY <1>2, <1>3, <2>2, <2>4 DEF AskDeep, ExecRow
  <2> QED BY <2>2, <2>3, <2>5, ExecGoesOn
<1>4. CASE Reserve(e)
  <2>1. UNCHANGED <<lanes, cron, arq, disp, ledger>>
    BY <1>4 DEF Reserve, queueVars
  <2>2. PICK q : q = [exec[e] EXCEPT !.page = NextPage, !.phase = "start"]
    OBVIOUS
  <2>3. exec' = [exec EXCEPT ![e] = q]
    BY <1>4, <2>2 DEF Reserve
  <2>4. q.slot = exec[e].slot /\ q.phase = "start"
    BY <1>2, <2>2 DEF ExecRow
  <2> QED BY <2>1, <2>3, <2>4, ExecGoesOn DEF SameLanes
<1>5. CASE Start(e)
  <2>1. UNCHANGED <<lanes, cron, arq, disp>> /\ exec[e].phase = "start"
    BY <1>5 DEF Start, queueVars, At
  <2>2. Going(Of(e)) /\ Of(e) \in Slot
    BY <2>1, RunningSlot
  <2>3. Goto(e, "provider") /\ ledger' = [ledger EXCEPT ![Of(e)] = "running"]
    BY <1>5, <2>2 DEF Start, Going
  <2>4. \A x \in Slot : ledger'[x] = ledger[x] \/ (Going(x) /\ ledger'[x] = "running")
    BY <2>2, <2>3 DEF DInv, LedgerShape
  <2>5. PICK q : q = [exec[e] EXCEPT !.phase = "provider"]
    OBVIOUS
  <2>6. exec' = [exec EXCEPT ![e] = q] /\ q.slot = exec[e].slot /\ q.phase = "provider"
    BY <1>2, <2>3, <2>5 DEF Goto, ExecRow
  <2> QED BY <2>1, <2>4, <2>6, ExecGoesOn DEF SameLanes
<1>6. CASE Provide(e)
  <2>1. UNCHANGED <<lanes, cron, arq, disp, ledger>>
    BY <1>6 DEF Provide, queueVars
  <2>2. PICK q : q = [exec[e] EXCEPT !.phase = "seeds", !.todo = Deep[Of(e)]]
    OBVIOUS
  <2>3. exec' = [exec EXCEPT ![e] = q]
    BY <1>6, <2>2 DEF Provide
  <2>4. q.slot = exec[e].slot /\ q.phase = "seeds"
    BY <1>2, <2>2 DEF ExecRow
  <2> QED BY <2>1, <2>3, <2>4, ExecGoesOn DEF SameLanes
<1> QED BY <1>1, <1>3, <1>4, <1>5, <1>6, CommitRunCopies

LEMMA CopyStart == DiscoveryInit => CopyInv
<1> SUFFICES ASSUME DiscoveryInit PROVE Copies
  BY DEF CopyInv
<1>1. Smooth
  BY DEF DiscoveryInit, Smooth, IdleCron, IdleExec
<1>2. ASSUME NEW x \in Slot PROVE SlotOnce(x)
  <2>1. ledger[x] = "none" /\ arq[x] = 0
    BY SlotTask DEF DiscoveryInit, Init
  <2>2. NoCron(x)
    BY DEF DiscoveryInit, NoCron, Handing, IdleCron
  <2>3. NoLane(x)
    BY SlotTask DEF DiscoveryInit, Init, NoLane
  <2>4. NoHand(x)
    BY DEF DiscoveryInit, Init, NoHand, Never, IdleRun
  <2>5. NoExec(x)
    BY DEF DiscoveryInit, NoExec, IdleExec
  <2> QED BY <2>1, <2>2, <2>3, <2>4, <2>5 DEF SlotOnce, Going, Nowhere
<1> QED BY <1>1, <1>2 DEF Copies

LEMMA CopyStepKeeps == DInv /\ CopyInv /\ [DiscoveryNext]_allVars => CopyInv'
<1> SUFFICES ASSUME DInv, CopyInv, [DiscoveryNext]_allVars, faults' = FaultBound PROVE Copies'
  BY DEF CopyInv
<1>1. ASSUME UNCHANGED allVars PROVE Copies'
  <2>1. UNCHANGED <<lanes, arq, disp, faults, ledger, cron, exec>>
    BY <1>1 DEF allVars, vars, discoveryVars, runVars
  <2>2. Copies
    BY <2>1 DEF CopyInv
  <2>3. \A x \in Slot : SameCron(x) /\ SameLanes(x) /\ SameExec(x)
    BY <2>1 DEF SameCron, Handing, SameLanes, SameExec
  <2>4. \A x \in Slot : SlotOnce(x)'
    BY <2>1, <2>2, <2>3, NotMoved DEF Copies, SlotOnce, Going
  <2>5. Smooth'
    BY <2>1, <2>2 DEF Copies, Smooth
  <2> QED BY <2>4, <2>5 DEF Copies
<1>2. ASSUME DiscoveryNext PROVE Copies'
  <2>1. faults' = faults
    <3>1. Fault \/ UNCHANGED faults
      BY <1>2 DEF DiscoveryNext, QueueStep, DispatchStep, DispatchBegin, Pop, Postpone, Charge, Deliver,
           DeliverFails, Refund, DispatchEnd, DispatchDies, RunJob, AutoDies, AutoRead, AutoCommit,
           AutoEnqueue, AutoEnqueueFails, AutoMark, Take, AskDeep, Reserve, ReserveFails, Start,
           Duplicate, Provide, CommitRun, Raises, GiveBack, Fail, ExecDies
    <3> QED BY <3>1, FaultFacts DEF DInv, LedgerShape
  <2>2. Copies
    BY <2>1 DEF CopyInv
  <2>3. ASSUME QueueStep, UNCHANGED discoveryVars PROVE Copies'
    BY <2>1, <2>2, <2>3, QueueCopies
  <2>4. ASSUME NEW c \in Cron, AutoDies(c) PROVE Copies'
    BY <2>1, <2>4 DEF AutoDies, Fault, DInv, QInv, TypeOK
  <2> QED BY <1>2, <2>1, <2>2, <2>3, <2>4, CronCopies, TakeCopies, ExecCopies DEF DiscoveryNext
<1> QED BY <1>1, <1>2

\* Overlapping ticks of auto_discovery_job hand a query out once in its hour: as long as
\* nothing fails a slot's task is in one place between the ticks, the lanes, the hands, Arq
\* and the executions, and nowhere before its row is written or after it succeeded.
THEOREM HandedOutOnce == DiscoverySpec => []SlotHandedOutOnce
<1>1. CopyInv => SlotHandedOutOnce
  <2> SUFFICES ASSUME Copies, NEW x \in Slot
               PROVE Cardinality({c \in Cron : cron[c] = [phase |-> "queued", slot |-> {x}]})
                       + Cardinality({l \in Lane : lanes[l][x] # Out}) + arq[x]
                       + Cardinality(Holding(x)) + Cardinality({e \in Runner : exec[e].slot = {x}})
                     = IF ledger[x] \in {"queued", "running"} THEN 1 ELSE 0
    BY DEF CopyInv, SlotHandedOutOnce
  <2> DEFINE handing == {c \in Cron : cron[c] = [phase |-> "queued", slot |-> {x}]}
             waiting == {l \in Lane : lanes[l][x] # Out}
             running == {e \in Runner : exec[e].slot = {x}}
  <2>1. \A S : (S = {} => Cardinality(S) = 0) /\ ((\E y : S = {y}) => Cardinality(S) = 1)
    BY FS_EmptySet, FS_Singleton
  <2>2. (NoCron(x) => handing = {}) /\ (OneCron(x) => \E y : handing = {y})
    BY DEF NoCron, OneCron, Handing
  <2>3. (NoLane(x) => waiting = {}) /\ (OneLane(x) => \E y : waiting = {y})
    BY DEF NoLane, OneLane
  <2>4. (NoHand(x) => Holding(x) = {}) /\ (OneHand(x) => \E y : Holding(x) = {y})
    BY DEF NoHand, OneHand, Never, Once, Holding
  <2>5. (NoExec(x) => running = {}) /\ (OneExec(x) => \E y : running = {y})
    BY DEF NoExec, OneExec
  <2>6. SlotOnce(x)
    BY DEF Copies
  <2> HIDE DEF handing, waiting, running
  <2>7. /\ NoCron(x) => Cardinality(handing) = 0
        /\ OneCron(x) => Cardinality(handing) = 1
        /\ NoLane(x) => Cardinality(waiting) = 0
        /\ OneLane(x) => Cardinality(waiting) = 1
        /\ NoHand(x) => Cardinality(Holding(x)) = 0
        /\ OneHand(x) => Cardinality(Holding(x)) = 1
        /\ NoExec(x) => Cardinality(running) = 0
        /\ OneExec(x) => Cardinality(running) = 1
    BY <2>1, <2>2, <2>3, <2>4, <2>5
  <2>8. Cardinality(handing) + Cardinality(waiting) + arq[x] + Cardinality(Holding(x))
          + Cardinality(running) = IF ledger[x] \in {"queued", "running"} THEN 1 ELSE 0
    BY <2>6, <2>7 DEF SlotOnce, Going, Nowhere, Somewhere
  <2> QED BY <2>8 DEF handing, waiting, running
<1>2. DiscoverySpec => []CopyInv
  BY DiscoveryInvariant, CopyStart, CopyStepKeeps, PTL DEF DiscoverySpec
<1> QED BY <1>1, <1>2, PTL

(***************************************************************************)
(* Open rows.  The queue's API is not used here, so that a task leaves the *)
(* lanes and hands only for Arq.                                           *)
(***************************************************************************)
QuietApi ==
  /\ \A h \in Handler : asking[h] = Quiet
  /\ \A x \in Slot : rows[x] = "none"

LEMMA QuietStart == DiscoveryInit => QuietApi
  BY SlotTask DEF DiscoveryInit, Init, QuietApi

LEMMA QuietStepKeeps == DInv /\ QuietApi /\ [DiscoveryNext]_allVars => QuietApi'
<1> SUFFICES ASSUME DInv, QuietApi, [DiscoveryNext]_allVars PROVE QuietApi'
  OBVIOUS
<1>1. ASSUME UNCHANGED apiVars PROVE QuietApi'
  BY <1>1 DEF QuietApi, apiVars
<1>2. ASSUME NEW y \in Task \ Slot, RunJob(y) PROVE QuietApi'
  BY <1>2, SlotTask DEF RunJob, QuietApi, DInv, QInv, TypeOK
<1>3. ASSUME ~\E y \in Task \ Slot : RunJob(y) PROVE UNCHANGED apiVars
  BY <1>3, ZenonT(60) DEF allVars, vars, apiVars, queueVars, DiscoveryNext, QueueStep, DispatchStep, DispatchBegin,
    Pop, Postpone, Charge, Deliver, DeliverFails, Refund, DispatchEnd, DispatchDies, AutoDies, AutoRead,
    AutoCommit, AutoEnqueue, AutoEnqueueFails, AutoMark, Take, AskDeep, Reserve, ReserveFails, Start,
    Duplicate, Provide, CommitRun, Raises, GiveBack, Fail, ExecDies
<1> QED BY <1>1, <1>2, <1>3

CronHas(x) == \E c \in Cron : cron[c].slot = {x} /\ cron[c].phase \in {"queued", "raised"}
ExecHas(x) == \E e \in Runner : exec[e].slot = {x} /\ exec[e].phase # "duplicate"

LEMMA ServedBy == \A x : Served(x) <=> CronHas(x) \/ Present(x) \/ ExecHas(x)
  BY DEF Served, CronHas, Present, ExecHas, At

LEMMA ServedByThen == \A x : Served(x)' <=> CronHas(x)' \/ Present(x)' \/ ExecHas(x)'
  BY DEF Served, CronHas, Present, ExecHas, At

\* A dispatcher that lives keeps what is on its way.
LEMMA DispatchServes ==
  ASSUME DInv, QuietApi, NEW d \in Dispatcher, DispatchStep(d), NEW x \in Slot, Present(x)
  PROVE Present(x)'
<1>1. UNCHANGED apiVars
  BY DEF DispatchStep, DispatchBegin, Pop, Postpone, Charge, Deliver, DeliverFails, Refund, DispatchEnd
<1>2. ~Asked(x)' /\ rows'[x] # "failed"
  BY <1>1 DEF QuietApi, apiVars, Asked, Quiet
<1>3. arq' = arq \/ \E y \in Task : arq' = [arq EXCEPT ![y] = @ + 1]
  <2>1. AtHand(d) => Head1(d).task \in Task
    BY HandFacts DEF DInv
  <2> QED BY <2>1 DEF DispatchStep, DispatchBegin, Pop, Postpone, Charge, Deliver, DeliverFails,
       Refund, DispatchEnd, Payable
<1>4. arq[x] \in Nat /\ arq'[x] \in Nat /\ arq'[x] >= arq[x]
  BY <1>3, SlotTask DEF DInv, QInv, TypeOK
<1>5. ~Dropped(x)
  BY StepSafe, SlotTask DEF DInv, Safe
<1> QED BY <1>2, <1>4, <1>5 DEF Dropped, Present

LEMMA QueueServes ==
  ASSUME DInv, QuietApi, QueueStep, UNCHANGED discoveryVars, ~Killed, NEW x \in Slot, Stranded(x)'
  PROVE Stranded(x)
<1>1. UNCHANGED <<ledger, cron, exec>>
  BY DEF discoveryVars, runVars
<1>2. Present(x) => Present(x)'
  <2>1. ASSUME NEW d \in Dispatcher, DispatchStep(d) PROVE Present(x) => Present(x)'
    BY <2>1, DispatchServes
  <2>2. ASSUME NEW y \in Task \ Slot, RunJob(y) PROVE Present(x) => Present(x)'
    <3>1. arq'[x] = arq[x] /\ UNCHANGED <<lanes, disp>>
      BY <2>2, SlotTask DEF RunJob, DInv, QInv, TypeOK
    <3> QED BY <3>1, SamePresence
  <2> QED BY <2>1, <2>2 DEF QueueStep, Killed
<1>3. (CronHas(x) => CronHas(x)') /\ (ExecHas(x) => ExecHas(x)') /\ (Open(x)' => Open(x))
  BY <1>1 DEF CronHas, ExecHas, Open
<1> QED BY <1>2, <1>3, ServedBy, ServedByThen DEF Stranded

\* ZADD, for any task.
LEMMA ZaddServes ==
  ASSUME DInv, NEW y \in Task, NEW p \in Priority[y], lanes' = Zadd(lanes, y, p),
         UNCHANGED <<arq, disp>>
  PROVE Present(y)' /\ \A x \in Slot : Present(x) => Present(x)'
<1>1. p \in Nat \ {0} /\ lanes \in [Lane -> [Task -> Nat]]
  BY CollectQueueAssumption DEF DInv, QInv, TypeOK
<1>2. Waiting(y)' /\ \A x \in Task : Waiting(x) => Waiting(x)'
  BY <1>1, ZaddFacts
<1>3. \A x \in Slot : InHand(x) => InHand(x)'
  BY DEF InHand, Holding
<1> QED BY <1>2, <1>3, SlotTask DEF Present

LEMMA CronServes ==
  ASSUME DInv, NEW c \in Cron, NEW y \in Slot,
         AutoRead(c, y) \/ AutoCommit(c, y) \/ AutoEnqueue(c, y) \/ AutoEnqueueFails(c, y) \/ AutoMark(c, y),
         NEW x \in Slot, Stranded(x)'
  PROVE Stranded(x)
<1>1. cron[c] \in CronRow /\ DOMAIN cron = Cron /\ DOMAIN ledger = Slot
  BY DEF DInv, LedgerShape
<1>2. UNCHANGED <<arq, disp, exec>>
  BY DEF AutoRead, AutoCommit, AutoEnqueue, AutoEnqueueFails, AutoMark, queueVars, runVars
<1>3. ExecHas(x) => ExecHas(x)'
  BY <1>2 DEF ExecHas
<1>4. ASSUME UNCHANGED lanes PROVE Present(x) => Present(x)'
  BY <1>2, <1>4, SamePresence
<1>5. ASSUME UNCHANGED ledger PROVE Open(x)' => Open(x)
  BY <1>5 DEF Open
<1>6. \A b \in Cron \ {c} : cron'[b] = cron[b]
  BY <1>1 DEF AutoRead, AutoCommit, AutoEnqueue, AutoEnqueueFails, AutoMark
\* What a run that is not handing x out does to its own row takes no server from x.
<1>7. ASSUME ~(cron[c].slot = {x} /\ cron[c].phase \in {"queued", "raised"}) PROVE CronHas(x) => CronHas(x)'
  BY <1>6, <1>7 DEF CronHas
<1>8. CASE AutoRead(c, y)
  <2>1. UNCHANGED <<lanes, ledger>> /\ cron[c].slot # {x}
    BY <1>8 DEF AutoRead, IdleCron
  <2> QED BY <1>3, <1>4, <1>5, <1>7, <2>1, ServedBy, ServedByThen DEF Stranded
<1>9. CASE AutoCommit(c, y)
  <2>1. UNCHANGED lanes /\ cron[c].slot = {y} /\ cron[c].phase \notin {"queued", "raised"}
    BY <1>9 DEF AutoCommit, queueVars
  <2>2. CASE UNCHANGED ledger
    BY <1>3, <1>4, <1>5, <1>7, <2>1, <2>2, ServedBy, ServedByThen DEF Stranded
  <2>3. CASE ledger' = [ledger EXCEPT ![y] = "queued"] /\ cron' = [cron EXCEPT ![c].phase = "queued"]
    <3>1. x = y => CronHas(x)'
      <4>1. cron'[c].phase = "queued" /\ cron'[c].slot = {y}
        BY <1>1, <2>1, <2>3 DEF CronRow
      <4> QED BY <4>1 DEF CronHas
    <3>2. x # y => (Open(x)' => Open(x))
      BY <1>1, <2>3 DEF Open
    <3> QED BY <1>3, <1>4, <1>7, <2>1, <3>1, <3>2, ServedBy, ServedByThen DEF Stranded
  <2> QED BY <1>9, <2>2, <2>3 DEF AutoCommit
<1>10. CASE AutoEnqueue(c, y)
  <2>1. UNCHANGED ledger /\ cron[c].slot = {y}
    BY <1>10 DEF AutoEnqueue
  <2>2. Present(y)' /\ (Present(x) => Present(x)')
    BY <1>2, <1>10, ZaddServes, SlotTask DEF AutoEnqueue
  <2>3. x # y => (CronHas(x) => CronHas(x)')
    BY <1>7, <2>1
  <2> QED BY <1>3, <1>5, <2>1, <2>2, <2>3, ServedBy, ServedByThen DEF Stranded
<1>11. CASE AutoEnqueueFails(c, y)
  <2>1. UNCHANGED ledger /\ cron[c].slot = {y}
    BY <1>11 DEF AutoEnqueueFails
  <2>2. Present(x) => Present(x)'
    <3>1. CASE UNCHANGED lanes
      BY <1>4, <3>1
    <3>2. CASE \E p \in Priority[y] : lanes' = Zadd(lanes, y, p)
      BY <1>2, <3>2, ZaddServes, SlotTask
    <3> QED BY <1>11, <3>1, <3>2 DEF AutoEnqueueFails
  <2>3. x = y => CronHas(x)'
    <3>1. cron'[c].phase = "raised" /\ cron'[c].slot = {y}
      BY <1>1, <1>11, <2>1 DEF AutoEnqueueFails, CronRow
    <3> QED BY <3>1 DEF CronHas
  <2>4. x # y => (CronHas(x) => CronHas(x)')
    BY <1>7, <2>1
  <2> QED BY <1>3, <1>5, <2>1, <2>2, <2>3, <2>4, ServedBy, ServedByThen DEF Stranded
<1>12. CASE AutoMark(c, y)
  <2>1. UNCHANGED lanes /\ cron[c].slot = {y} /\ ledger' = [ledger EXCEPT ![y] = "queue_failed"]
    BY <1>12 DEF AutoMark, queueVars
  <2>2. x # y /\ Open(x)
    BY <1>1, <2>1 DEF Stranded, Open
  <2>3. CronHas(x) => CronHas(x)'
    BY <1>7, <2>1, <2>2
  <2> QED BY <1>3, <1>4, <2>1, <2>2, <2>3, ServedBy, ServedByThen DEF Stranded
<1> QED BY <1>8, <1>9, <1>10, <1>11, <1>12

\* An execution that starts takes the task over from Arq.
LEMMA TakeServes ==
  ASSUME DInv, NEW e \in Runner, NEW y \in Slot, Take(e, y), NEW x \in Slot, Stranded(x)'
  PROVE Stranded(x)
<1>1. UNCHANGED <<lanes, disp, ledger, cron>> /\ exec[e].slot = {}
  BY DEF Take, queueVars, At, DInv, ExecInv, ExecOK
<1>2. \A f \in Runner : exec'[f] = IF f = e THEN [IdleExec EXCEPT !.slot = {y}, !.phase = "reserve"] ELSE exec[f]
  BY DEF Take, DInv, ExecInv
<1>3. exec'[e].slot = {y} /\ exec'[e].phase = "reserve"
  BY <1>2 DEF IdleExec
<1>4. ExecHas(y)' /\ (ExecHas(x) => ExecHas(x)')
  BY <1>1, <1>2, <1>3 DEF ExecHas
<1>5. x # y => (Present(x) => Present(x)')
  <2>1. x # y => arq'[x] = arq[x]
    BY SlotTask DEF Take, DInv, QInv, TypeOK
  <2> QED BY <1>1, <2>1, SamePresence
<1>6. (CronHas(x) => CronHas(x)') /\ (Open(x)' => Open(x))
  BY <1>1 DEF CronHas, Open
<1> QED BY <1>4, <1>5, <1>6, ServedBy, ServedByThen DEF Stranded

\* An execution that goes on: it changes to q, which serves the same slot, or it ends or turns
\* out to be a duplicate, and the row of its slot is closed or it was a duplicate already.
LEMMA RunServes ==
  ASSUME DInv, NEW e \in Runner, NEW q, exec' = [exec EXCEPT ![e] = q], exec[e].phase # "idle",
         UNCHANGED cron, NEW x \in Slot, Present(x) => Present(x)',
         x # Of(e) => ledger'[x] = ledger[x],
         \/ exec[e].phase = "duplicate" /\ UNCHANGED ledger
         \/ q.slot = exec[e].slot /\ q.phase # "duplicate"
         \/ ledger'[Of(e)] \notin {"queued", "running"},
         Stranded(x)'
  PROVE Stranded(x)
<1>1. Of(e) \in Slot /\ exec[e].slot = {Of(e)}
  BY SlotOf DEF DInv
<1>2. \A f \in Runner : exec'[f] = IF f = e THEN q ELSE exec[f]
  BY DEF DInv, ExecInv
<1>3. CronHas(x) => CronHas(x)'
  BY DEF CronHas
<1>4. x # Of(e) => (ExecHas(x) => ExecHas(x)') /\ (Open(x)' => Open(x))
  BY <1>1, <1>2 DEF ExecHas, Open
<1>5. CASE x # Of(e)
  BY <1>3, <1>4, <1>5, ServedBy, ServedByThen DEF Stranded
<1>6. CASE exec[e].phase = "duplicate" /\ UNCHANGED ledger
  <2>1. ExecHas(x) => ExecHas(x)'
    BY <1>2, <1>6 DEF ExecHas
  <2> QED BY <1>3, <1>6, <2>1, ServedBy, ServedByThen DEF Stranded, Open
<1>7. CASE q.slot = exec[e].slot /\ q.phase # "duplicate" /\ x = Of(e)
  <2>1. ExecHas(x)'
    BY <1>1, <1>2, <1>7 DEF ExecHas
  <2> QED BY <2>1, ServedByThen DEF Stranded
<1>8. CASE x = Of(e) /\ ledger'[Of(e)] \notin {"queued", "running"}
  BY <1>8 DEF Stranded, Open
<1> QED BY <1>5, <1>6, <1>7, <1>8

LEMMA ExecServes ==
  ASSUME DInv, NEW e \in Runner, NEW x \in Slot, Stranded(x)',
         \/ Reserve(e) \/ Start(e) \/ Duplicate(e) \/ Provide(e) \/ CommitRun(e) \/ Raises(e)
         \/ GiveBack(e) \/ Fail(e) \/ \E y \in Task : AskDeep(e, y)
  PROVE Stranded(x)
<1>1. exec[e].phase # "idle" /\ exec[e] \in ExecRow /\ UNCHANGED cron
  BY DEF Reserve, Start, Duplicate, Provide, CommitRun, Raises, GiveBack, Fail, AskDeep, At, DInv,
    ExecInv, ExecOK
<1>2. Of(e) \in Slot /\ exec[e].slot = {Of(e)} /\ DOMAIN ledger = Slot
  BY <1>1, SlotOf DEF DInv, LedgerShape
<1>3. Present(x) => Present(x)'
  <2>1. ASSUME NEW y \in Task, AskDeep(e, y) PROVE Present(x) => Present(x)'
    BY <2>1, ZaddServes DEF AskDeep
  <2>2. CASE UNCHANGED <<lanes, disp, arq>>
    BY <2>2, SamePresence
  <2> QED BY <2>1, <2>2
       DEF Reserve, Start, Duplicate, Provide, CommitRun, Raises, GiveBack, Fail, queueVars
<1>4. x # Of(e) => ledger'[x] = ledger[x]
  BY <1>2 DEF Reserve, Start, Duplicate, Provide, CommitRun, Raises, GiveBack, Fail, AskDeep
<1>5. CASE Duplicate(e)
  <2>1. exec' = [exec EXCEPT ![e] = IdleExec] /\ exec[e].phase = "duplicate" /\ UNCHANGED ledger
    BY <1>5 DEF Duplicate, Ends, At
  <2> QED BY <1>1, <1>3, <1>4, <2>1, RunServes
<1>6. CASE CommitRun(e) \/ Fail(e)
  <2>1. exec' = [exec EXCEPT ![e] = IdleExec] /\ ledger'[Of(e)] \in {"succeeded", "failed"}
    BY <1>2, <1>6 DEF CommitRun, Fail, Ends
  <2> QED BY <1>1, <1>3, <1>4, <2>1, RunServes
<1>7. CASE Start(e)
  <2>1. PICK phase \in {"duplicate", "provider"} :
          /\ Goto(e, phase)
          /\ phase = "duplicate" => ledger'[Of(e)] = "succeeded"
    BY <1>7 DEF Start
  <2>2. PICK q : q = [exec[e] EXCEPT !.phase = phase]
    OBVIOUS
  <2>3. exec' = [exec EXCEPT ![e] = q] /\ q.slot = exec[e].slot /\ q.phase = phase
    BY <1>1, <2>1, <2>2 DEF Goto, ExecRow
  <2> QED BY <1>1, <1>3, <1>4, <2>1, <2>3, RunServes
<1>8. CASE Reserve(e) \/ Provide(e) \/ Raises(e) \/ GiveBack(e) \/ \E y \in Task : AskDeep(e, y)
  <2>1. PICK q : exec' = [exec EXCEPT ![e] = q] /\ q.slot = exec[e].slot /\ q.phase # "duplicate"
    <3>1. CASE Reserve(e)
      <4>1. PICK q : q = [exec[e] EXCEPT !.page = NextPage, !.phase = "start"]
        OBVIOUS
      <4>2. exec' = [exec EXCEPT ![e] = q] /\ q.slot = exec[e].slot /\ q.phase = "start"
        BY <1>1, <3>1, <4>1 DEF Reserve, ExecRow
      <4> QED BY <4>2
    <3>2. CASE Provide(e)
      <4>1. PICK q : q = [exec[e] EXCEPT !.phase = "seeds", !.todo = Deep[Of(e)]]
        OBVIOUS
      <4>2. exec' = [exec EXCEPT ![e] = q] /\ q.slot = exec[e].slot /\ q.phase = "seeds"
        BY <1>1, <3>2, <4>1 DEF Provide, ExecRow
      <4> QED BY <4>2
    <3>3. CASE Raises(e) \/ GiveBack(e)
      <4>1. PICK phase \in {"rollback", "failing"} : Goto(e, phase)
        BY <3>3 DEF Raises, GiveBack
      <4>2. PICK q : q = [exec[e] EXCEPT !.phase = phase]
        OBVIOUS
      <4>3. exec' = [exec EXCEPT ![e] = q] /\ q.slot = exec[e].slot /\ q.phase = phase
        BY <1>1, <4>1, <4>2 DEF Goto, ExecRow
      <4> QED BY <4>3
    <3>4. ASSUME NEW y \in Task, AskDeep(e, y)
          PROVE \E q : exec' = [exec EXCEPT ![e] = q] /\ q.slot = exec[e].slot /\ q.phase # "duplicate"
      <4>1. PICK q : q = [exec[e] EXCEPT !.todo = @ \ {y}]
        OBVIOUS
      <4>2. exec' = [exec EXCEPT ![e] = q] /\ q.slot = exec[e].slot /\ q.phase = "seeds"
        BY <1>1, <3>4, <4>1 DEF AskDeep, ExecRow, At
      <4> QED BY <4>2
    <3> QED BY <1>8, <3>1, <3>2, <3>3, <3>4
  <2> QED BY <1>1, <1>3, <1>4, <2>1, RunServes
<1> QED BY <1>5, <1>6, <1>7, <1>8

\* A row of auto_discovery_job that reads queued or running has somebody who will run it or
\* mark it, through failed hand-overs, failing providers, colliding ticks, retries and
\* duplicates, unless the process that held it died or could not reserve a page.
THEOREM OpenSlotsServed == DiscoverySpec => OpenSlotServed
<1> DEFINE A == \A x \in Slot : Stranded(x)' => \/ Stranded(x) \/ Killed
                                               \/ \E e \in Runner : ReserveFails(e)
<1>1. DInv /\ QuietApi /\ DiscoveryNext => A
  <2> SUFFICES ASSUME DInv, QuietApi, DiscoveryNext, ~Killed, ~\E e \in Runner : ReserveFails(e),
                      NEW x \in Slot, Stranded(x)'
               PROVE Stranded(x)
    OBVIOUS
  <2>1. CASE QueueStep /\ UNCHANGED discoveryVars
    BY <2>1, QueueServes
  <2>2. CASE \E c \in Cron, y \in Slot : \/ AutoRead(c, y) \/ AutoCommit(c, y) \/ AutoEnqueue(c, y)
                                        \/ AutoEnqueueFails(c, y) \/ AutoMark(c, y)
    BY <2>2, CronServes
  <2>3. CASE \E e \in Runner, y \in Slot : Take(e, y)
    BY <2>3, TakeServes
  <2>4. CASE \E e \in Runner : \/ Reserve(e) \/ Start(e) \/ Duplicate(e) \/ Provide(e) \/ CommitRun(e)
                              \/ Raises(e) \/ GiveBack(e) \/ Fail(e) \/ \E y \in Task : AskDeep(e, y)
    BY <2>4, ExecServes
  <2> QED BY <2>1, <2>2, <2>3, <2>4 DEF DiscoveryNext, Killed
<1>2. DInv /\ QuietApi /\ [DiscoveryNext]_allVars => [A]_allVars
  BY <1>1
<1> HIDE DEF A
<1>3. DiscoverySpec => []QuietApi
  BY DiscoveryInvariant, QuietStart, QuietStepKeeps, PTL DEF DiscoverySpec
<1>4. DiscoverySpec => [][A]_allVars
  BY <1>2, <1>3, DiscoveryInvariant, PTL DEF DiscoverySpec
<1> QED BY <1>4, PTL DEF OpenSlotServed, A

(***************************************************************************)
(* What CollectQueue promises holds with discovery as its producer and its *)
(* consumer: outside the dispatchers nothing leaves a lane, and nothing    *)
(* touches a hand or the budget.                                           *)
(***************************************************************************)
LEMMA OutsideDispatch ==
  ASSUME DInv, DiscoveryNext
  PROVE  \/ \E d \in Dispatcher : (DispatchStep(d) \/ DispatchDies(d)) /\ UNCHANGED discoveryVars
         \/ UNCHANGED <<tavily, disp, asking>> /\ \A x \in Task : Waiting(x) => Waiting(x)'
<1>1. ASSUME NEW y \in Task, NEW p \in Priority[y], lanes' = Zadd(lanes, y, p)
      PROVE \A x \in Task : Waiting(x) => Waiting(x)'
  <2>1. p \in Nat \ {0} /\ lanes \in [Lane -> [Task -> Nat]]
    BY CollectQueueAssumption DEF DInv, QInv, TypeOK
  <2> QED BY <1>1, <2>1, ZaddFacts
<1>2. ASSUME UNCHANGED lanes PROVE \A x \in Task : Waiting(x) => Waiting(x)'
  BY <1>2 DEF Waiting
<1>3. CASE QueueStep /\ UNCHANGED discoveryVars
  <2>1. ASSUME NEW y \in Task \ Slot, RunJob(y) PROVE UNCHANGED <<tavily, disp, asking, lanes>>
    BY <2>1 DEF RunJob
  <2> QED BY <1>2, <1>3, <2>1 DEF QueueStep
<1>4. ASSUME NEW c \in Cron, NEW y \in Slot, AutoEnqueue(c, y) \/ AutoEnqueueFails(c, y)
      PROVE UNCHANGED <<tavily, disp, asking>> /\ \A x \in Task : Waiting(x) => Waiting(x)'
  BY <1>1, <1>2, <1>4, SlotTask DEF AutoEnqueue, AutoEnqueueFails, apiVars
<1>5. ASSUME NEW e \in Runner, NEW y \in Task, AskDeep(e, y)
      PROVE UNCHANGED <<tavily, disp, asking>> /\ \A x \in Task : Waiting(x) => Waiting(x)'
  BY <1>1, <1>5 DEF AskDeep, apiVars
<1>6. ASSUME NEW c \in Cron, NEW y \in Slot, AutoRead(c, y) \/ AutoCommit(c, y) \/ AutoMark(c, y)
      PROVE UNCHANGED <<tavily, disp, asking, lanes>>
  BY <1>6 DEF AutoRead, AutoCommit, AutoMark, queueVars, apiVars
<1>7. ASSUME NEW c \in Cron, AutoDies(c) PROVE UNCHANGED <<tavily, disp, asking, lanes>>
  BY <1>7 DEF AutoDies, queueVars, apiVars
<1>8. ASSUME NEW e \in Runner,
             \/ \E y \in Slot : Take(e, y)
             \/ Reserve(e) \/ ReserveFails(e) \/ Start(e) \/ Duplicate(e) \/ Provide(e) \/ CommitRun(e)
             \/ Raises(e) \/ GiveBack(e) \/ Fail(e) \/ ExecDies(e)
      PROVE UNCHANGED <<tavily, disp, asking, lanes>>
  BY <1>8 DEF Take, Reserve, ReserveFails, Start, Duplicate, Provide, CommitRun, Raises, GiveBack, Fail,
    ExecDies, queueVars, apiVars
<1> QED BY <1>2, <1>3, <1>4, <1>5, <1>6, <1>7, <1>8 DEF DiscoveryNext

\* enqueue, pop_top_with_priority and enqueue_arq_job under hourly ticks and executions that
\* queue more work: no task, deep collections included, falls out unless a process dies.
THEOREM DiscoveryKeepsTasks == DiscoverySpec => NoTaskVanishes
<1> DEFINE A == \A x \in Task :
       Waiting(x) \/ InHand(x) \/ Asked(x) =>
         \/ Waiting(x)' \/ InHand(x)' \/ Asked(x)' \/ arq'[x] > arq[x]
         \/ rows'[x] = "failed"
         \/ \E d \in Dispatcher : DispatchDies(d)
         \/ \E h \in Handler : AskDies(h)
<1>1. DInv /\ DiscoveryNext => A
  <2> SUFFICES ASSUME DInv, DiscoveryNext PROVE A
    OBVIOUS
  <2>1. ASSUME NEW d \in Dispatcher, DispatchStep(d) PROVE A
    BY <2>1, StepSafe DEF DInv, Safe, Dropped
  <2>2. ASSUME NEW d \in Dispatcher, DispatchDies(d) PROVE A
    BY <2>2
  <2>3. ASSUME UNCHANGED <<tavily, disp, asking>>, \A x \in Task : Waiting(x) => Waiting(x)' PROVE A
    BY <2>3 DEF InHand, Holding, Asked
  <2> QED BY <2>1, <2>2, <2>3, OutsideDispatch
<1>2. DInv /\ [DiscoveryNext]_allVars => [A]_vars
  BY <1>1 DEF allVars
<1> HIDE DEF A
<1>3. DiscoverySpec => [][A]_vars
  BY <1>2, DiscoveryInvariant, PTL DEF DiscoverySpec
<1> QED BY <1>3, PTL DEF NoTaskVanishes, A

\* The Tavily budget, with discovery around the dispatchers: overdrawn by one batch of
\* every dispatcher but one at most.
THEOREM DiscoveryKeepsBudget == DiscoverySpec => []OverspendBounded
<1>1. DInv /\ SpendInv /\ [DiscoveryNext]_allVars /\ DInv' => SpendInv'
  <2> SUFFICES ASSUME DInv, SpendInv, [DiscoveryNext]_allVars, DInv' PROVE SpendInv'
    OBVIOUS
  <2>1. QInv /\ QInv'
    BY DEF DInv
  <2>2. CASE UNCHANGED <<tavily, disp>>
    BY <2>2 DEF SpendInv, Charges, MayCharge, Excess
  <2>3. ASSUME NEW d \in Dispatcher, DispatchStep(d) \/ DispatchDies(d) PROVE SpendInv'
    <3>1. Next
      BY <2>3 DEF Next
    <3> QED BY <2>1, <3>1, NextSpends
  <2>4. UNCHANGED allVars => UNCHANGED <<tavily, disp>>
    BY DEF allVars, vars
  <2> QED BY <2>2, <2>3, <2>4, OutsideDispatch
<1>2. DiscoveryInit => SpendInv
  BY InitSpends DEF DiscoveryInit
<1>3. SpendInv /\ DInv => OverspendBounded
  BY SpendBounds DEF DInv
<1> QED BY <1>1, <1>2, <1>3, DiscoveryInvariant, PTL DEF DiscoverySpec
=============================================================================
