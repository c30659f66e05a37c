--------------------------- MODULE DeliveryProofs ---------------------------
(***************************************************************************)
(* Proofs about InboundDelivery: its safety properties for any number of   *)
(* requests, dispatchers, executions and faults, and that it implements    *)
(* Submission.                                                             *)
(*                                                                         *)
(* The inductive invariant DInv has one part per concern.  What it adds to *)
(* the properties: events are locked by one dispatcher each (Locks); a run *)
(* that is past a step has what that step wrote (Work); and an open row is *)
(* carried by an event no dispatcher has handed over yet, by a delivery, or *)
(* by a run that will not end as a duplicate of a finished one (Carried).  *)
(***************************************************************************)
EXTENDS InboundDelivery, TLAPS

Phase == {"new", "checked", "creating", "inserting", "founder",
          "answered", "rejected", "failed", "lost"}
RowStatus == {"none", "queued", "running", "succeeded", "failed"}
RunPhase == {"idle", "starting", "parsing", "persisting", "processing",
             "reconciling", "finishing"}
Call == [phase : Phase, names : Request \cup {Nobody}]
Event == [status : {"none", "pending", "dispatched"}, due : BOOLEAN, sent : Nat]
Batch == [todo : SUBSET Request, ok : SUBSET Request, bad : SUBSET Request]
Execution == [of : Request \cup {Nobody}, phase : RunPhase, seen : RowStatus \cup {""},
              read : SUBSET Request]

Shape ==
  /\ client \in [Request -> Call]
  /\ accepted \in SUBSET Request
  /\ event \in [Request -> Event]
  /\ dispatch \in [Dispatcher -> Batch]
  /\ arq \in [Request -> Nat]
  /\ ledger \in [Request -> RowStatus]
  /\ run \in [Worker -> Execution]
  /\ observed \in [Request -> Nat]
  /\ faults \in Nat

Together ==
  \A r \in Request :
    /\ r \in accepted <=> event[r].status # "none"
    /\ r \in accepted <=> ledger[r] # "none"
    /\ r \in accepted => EmailOf[r] \in persons

Locks ==
  /\ \A c, d \in Dispatcher : c # d => Locked(c) \cap Locked(d) = {}
  /\ \A d \in Dispatcher : Locked(d) \subseteq accepted

Backed ==
  /\ \A x \in Worker : IF run[x].phase = "idle" THEN run[x].of = Nobody
                                                ELSE run[x].of \in accepted
  /\ \A r \in Request : arq[r] > 0 => r \in accepted
  /\ claimed \subseteq accepted /\ killed \subseteq accepted

Past(x, phases) == run[x].phase \in phases

Work ==
  /\ \A x \in Worker :
       /\ Past(x, {"persisting"}) /\ run[x].of \in run[x].read => observed[run[x].of] = 1
       /\ Past(x, {"processing", "reconciling", "finishing"}) => observed[run[x].of] = 1
       /\ Past(x, {"reconciling"}) => run[x].of \in run[x].read /\ run[x].read \subseteq accepted
       /\ Past(x, {"finishing"}) => run[x].of \in claimed
  /\ SucceededIsProcessed
  /\ EvidenceOnce

Works(x, r) == run[x].of = r /\ (run[x].phase = "starting" => run[x].seen # "succeeded")
Unsent(r) == event[r].status = "pending" /\ \A d \in Dispatcher : r \notin dispatch[d].ok
Open(r) == ledger[r] \in {"queued", "running"}

Carried ==
  \A r \in accepted \ killed : Open(r) =>
    Unsent(r) \/ arq[r] > 0 \/ \E x \in Worker : Works(x, r)

DInv == Shape /\ Together /\ AnswersAgree /\ Locks /\ Backed /\ Work /\ Carried

LEMMA InitDInv == Init => DInv
<1> SUFFICES ASSUME Init PROVE DInv
  OBVIOUS
<1>1. Shape
  BY DeliveryAssumption DEF Init, Shape, Call, Event, Batch, Execution, Phase, RowStatus,
     RunPhase, IdleDispatch, IdleRun
<1>2. Together
  BY DEF Init, Together
<1>3. AnswersAgree
  BY DEF Init, AnswersAgree, At
<1>4. Locks
  BY DEF Init, Locks, Locked, IdleDispatch
<1>5. \A x \in Worker : run[x].phase = "idle" /\ run[x].of = Nobody
  BY DEF Init, IdleRun
<1>6. Backed
  BY <1>5 DEF Init, Backed
<1>7. Work
  BY <1>5 DEF Init, Work, Past, SucceededIsProcessed, EvidenceOnce
<1>8. Carried
  BY DEF Init, Carried
<1> QED BY <1>1, <1>2, <1>3, <1>4, <1>6, <1>7, <1>8 DEF DInv

(***************************************************************************)
(* submit_pitch.                                                           *)
(***************************************************************************)
\* A handler that writes nothing to the database and answers nothing.
LEMMA GotoDInv ==
  ASSUME DInv, NEW r \in Request, NEW p \in Phase \ {"answered"}, Goto(r, p),
         UNCHANGED <<persons, accepted, event, dispatch, arq, ledger, jobVars>>,
         faults' \in Nat
  PROVE  DInv'
<1> DEFINE c == [client[r] EXCEPT !.phase = p]
<1>1. client' = [client EXCEPT ![r] = c]
  BY DEF Goto, DInv, Shape
<1>2. c \in Call /\ c.phase = p
  BY DEF DInv, Shape, Call
<1>3. client'[r].phase = p /\ \A q \in Request \ {r} : client'[q] = client[q]
  BY <1>1, <1>2 DEF DInv, Shape
<1>4. Shape'
  BY <1>1, <1>2 DEF DInv, Shape, jobVars
<1>5. AnswersAgree'
  BY <1>3 DEF DInv, AnswersAgree, At
<1>6. Together' /\ Locks' /\ Backed'
  BY DEF DInv, Together, Locks, Locked, Backed, jobVars
<1>7. Work'
  BY DEF DInv, Work, Past, SucceededIsProcessed, EvidenceOnce, jobVars
<1>8. Carried'
  BY DEF DInv, Carried, Open, Unsent, Works, jobVars
<1> QED BY <1>4, <1>5, <1>6, <1>7, <1>8 DEF DInv

\* A handler that answers with the rows of an earlier request.
LEMMA AnswerDInv ==
  ASSUME DInv, NEW r \in Request, NEW q \in Rival(r), Answer(r, q),
         UNCHANGED <<persons, accepted, event, dispatch, arq, ledger, jobVars, faults>>
  PROVE  DInv'
<1>1. q \in accepted /\ q \in Request /\ KeyOf[q] = KeyOf[r]
  BY DEF Rival, DInv, Shape
<1>2. client' \in [Request -> Call]
  BY <1>1 DEF Answer, DInv, Shape, Call, Phase
<1>3. client'[r].names = q /\ \A z \in Request \ {r} : client'[z] = client[z]
  BY DEF Answer, DInv, Shape
<1>4. Shape'
  BY <1>2 DEF DInv, Shape, jobVars
<1>5. AnswersAgree'
  BY <1>1, <1>3 DEF DInv, AnswersAgree, At
<1>6. Together' /\ Locks' /\ Backed'
  BY DEF DInv, Together, Locks, Locked, Backed, jobVars
<1>7. Work'
  BY DEF DInv, Work, Past, SucceededIsProcessed, EvidenceOnce, jobVars
<1>8. Carried'
  BY DEF DInv, Carried, Open, Unsent, Works, jobVars
<1> QED BY <1>4, <1>5, <1>6, <1>7, <1>8 DEF DInv

\* The commit of all rows of a submission.
LEMMA AcceptDInv ==
  ASSUME DInv, NEW r \in Request, Rival(r) = {}, Accept(r)
  PROVE  DInv'
<1> DEFINE e == [status |-> "pending", due |-> TRUE, sent |-> 0]
<1>1. UNCHANGED <<dispatch, arq, run, observed, claimed, killed, faults>>
  BY DEF Accept, jobVars
<1>2. accepted' = accepted \cup {r} /\ persons' = persons \cup {EmailOf[r]}
  BY DEF Accept
<1>3. event'[r].status = "pending" /\ \A q \in Request \ {r} : event'[q] = event[q]
  BY DEF Accept, DInv, Shape
<1>4. ledger'[r] = "queued" /\ \A q \in Request \ {r} : ledger'[q] = ledger[q]
  BY DEF Accept, DInv, Shape
<1>5. client'[r].names = r /\ \A q \in Request \ {r} : client'[q] = client[q]
  BY DEF Accept, Answer, DInv, Shape
<1>6. r \notin accepted
  BY DEF Rival
<1>7. Shape'
  <2>1. client' \in [Request -> Call]
    BY DEF Accept, Answer, DInv, Shape, Call, Phase
  <2>2. event' \in [Request -> Event]
    BY DEF Accept, DInv, Shape, Event
  <2>3. ledger' \in [Request -> RowStatus]
    BY DEF Accept, DInv, Shape, RowStatus
  <2> QED BY <1>1, <1>2, <2>1, <2>2, <2>3 DEF DInv, Shape
<1>8. Together'
  BY <1>2, <1>3, <1>4 DEF DInv, Together
<1>9. AnswersAgree'
  <2>1. \A q \in accepted : KeyOf[q] # KeyOf[r]
    BY DEF Rival
  <2> QED BY <1>2, <1>5, <2>1 DEF DInv, AnswersAgree, At, Shape
<1>10. Locks' /\ Backed'
  BY <1>1, <1>2 DEF DInv, Locks, Locked, Backed
<1>11. Work'
  <2>1. SucceededIsProcessed'
    BY <1>1, <1>4 DEF DInv, Work, SucceededIsProcessed
  <2>2. EvidenceOnce'
    BY <1>1 DEF DInv, Work, EvidenceOnce
  <2> QED BY <1>1, <1>2, <2>1, <2>2 DEF DInv, Work, Past
<1>12. Carried'
  <2>1. Unsent(r)'
    BY <1>1, <1>3, <1>6 DEF DInv, Locks, Locked, Unsent
  <2>2. \A q \in accepted : q \in Request /\ q # r
    BY <1>6 DEF DInv, Shape
  <2>3. \A q \in accepted : (Open(q)' <=> Open(q)) /\ (Unsent(q)' <=> Unsent(q))
    BY <1>1, <1>3, <1>4, <2>2 DEF Open, Unsent
  <2> QED BY <1>1, <1>2, <2>1, <2>3 DEF DInv, Carried, Works
<1> QED BY <1>7, <1>8, <1>9, <1>10, <1>11, <1>12 DEF DInv

LEMMA ApiDInv ==
  ASSUME DInv, NEW r \in Request,
         \/ Arrive(r) \/ Quarantine(r) \/ LookUp(r) \/ InsertPerson(r)
         \/ CommitSubmission(r) \/ Lose(r)
  PROVE  DInv'
<1>0. faults \in Nat
  BY DEF DInv, Shape
<1>1. CASE Arrive(r)
  <2>1. CASE Rival(r) # {}
    BY <1>1, <2>1, AnswerDInv DEF Arrive
  <2>2. CASE Rival(r) = {}
    BY <1>0, <1>1, <2>2, GotoDInv DEF Arrive, Phase
  <2> QED BY <2>1, <2>2
<1>2. CASE Quarantine(r)
  BY <1>0, <1>2, GotoDInv DEF Quarantine, Phase
<1>3. CASE LookUp(r)
  <2> DEFINE p == IF EmailOf[r] \in persons THEN "inserting" ELSE "creating"
  <2>1. p \in Phase \ {"answered"}
    BY DEF Phase
  <2>2. Goto(r, p) /\ UNCHANGED <<persons, accepted, event, dispatch, arq, ledger, jobVars>>
        /\ faults' \in Nat
    BY <1>0, <1>3 DEF LookUp
  <2> HIDE DEF p
  <2> QED BY <2>1, <2>2, GotoDInv
<1>4. CASE InsertPerson(r)
  <2> DEFINE p == IF EmailOf[r] \in persons THEN "failed" ELSE "founder"
  <2>1. p \in Phase \ {"answered"}
    BY DEF Phase
  <2>2. Goto(r, p) /\ UNCHANGED <<persons, accepted, event, dispatch, arq, ledger, jobVars>>
        /\ faults' \in Nat
    BY <1>0, <1>4 DEF InsertPerson
  <2> HIDE DEF p
  <2> QED BY <2>1, <2>2, GotoDInv
<1>5. CASE CommitSubmission(r)
  BY <1>5, AcceptDInv, AnswerDInv DEF CommitSubmission
<1>6. CASE Lose(r)
  BY <1>0, <1>6, GotoDInv DEF Lose, Fault, Phase
<1> QED BY <1>1, <1>2, <1>3, <1>4, <1>5, <1>6

(***************************************************************************)
(* dispatch_pending_outbox.                                                *)
(***************************************************************************)
\* What a dispatcher may do without touching the rows of jobs: take free events, drop its
\* locks, move events between its lists, hand jobs to Arq.
LEMMA DispatcherDInv ==
  ASSUME DInv, NEW d \in Dispatcher, NEW b \in Batch,
         dispatch' = [dispatch EXCEPT ![d] = b],
         b.todo \cup b.ok \cup b.bad \subseteq accepted,
         \A c \in Dispatcher \ {d} : Locked(c) \cap (b.todo \cup b.ok \cup b.bad) = {},
         arq' \in [Request -> Nat], event' \in [Request -> Event],
         \A r \in Request : arq[r] > 0 => arq'[r] > 0,
         \A r \in Request : arq'[r] > 0 => r \in accepted,
         \A r \in Request : event'[r].status = event[r].status,
         \A r \in b.ok : r \in dispatch[d].ok \/ arq'[r] > 0,
         UNCHANGED <<apiVars, accepted, ledger, jobVars>>, faults' \in Nat
  PROVE  DInv'
<1>1. dispatch'[d] = b /\ \A c \in Dispatcher \ {d} : dispatch'[c] = dispatch[c]
  BY DEF DInv, Shape
<1>2. Shape'
  BY DEF DInv, Shape, apiVars, jobVars
<1>3. Together'
  BY DEF DInv, Together, apiVars
<1>4. AnswersAgree'
  BY DEF DInv, AnswersAgree, At, apiVars
<1>5. Locks'
  <2>1. Locked(d)' = b.todo \cup b.ok \cup b.bad
    BY <1>1 DEF Locked
  <2>2. \A c \in Dispatcher \ {d} : Locked(c)' = Locked(c)
    BY <1>1 DEF Locked
  <2> QED BY <2>1, <2>2 DEF DInv, Locks
<1>6. Backed'
  BY DEF DInv, Backed, jobVars
<1>7. Work'
  BY DEF DInv, Work, Past, SucceededIsProcessed, EvidenceOnce, jobVars
<1>8. Carried'
  <2>1. SUFFICES ASSUME NEW r \in accepted \ killed, Open(r)
                 PROVE  Unsent(r)' \/ arq'[r] > 0 \/ \E x \in Worker : Works(x, r)'
    BY DEF Carried, Open, jobVars
  <2>2. r \in Request
    BY DEF DInv, Shape
  <2>3. CASE Unsent(r)
    <3>1. event'[r].status = "pending"
      BY <2>2, <2>3 DEF Unsent
    <3>2. CASE r \in b.ok
      BY <2>3, <3>2 DEF Unsent
    <3>3. CASE r \notin b.ok
      BY <1>1, <2>3, <3>1, <3>3 DEF Unsent
    <3> QED BY <3>2, <3>3
  <2>4. CASE arq[r] > 0
    BY <2>2, <2>4
  <2>5. CASE \E x \in Worker : Works(x, r)
    BY <2>5 DEF Works, jobVars
  <2> QED BY <2>1, <2>3, <2>4, <2>5 DEF DInv, Carried
<1> QED BY <1>2, <1>3, <1>4, <1>5, <1>6, <1>7, <1>8 DEF DInv

\* The commit of a batch: what was handed over is carried by Arq from here on.
LEMMA DispatchCommitDInv ==
  ASSUME DInv, NEW d \in Dispatcher, DispatchCommit(d)
  PROVE  DInv'
<1>1. \A r \in Request :
        event'[r] = IF r \in dispatch[d].ok THEN [event[r] EXCEPT !.status = "dispatched"]
                    ELSE IF r \in dispatch[d].bad THEN [event[r] EXCEPT !.due = FALSE]
                    ELSE event[r]
  BY DEF DispatchCommit
<1>2. \A r \in Request : event'[r] \in Event
  BY <1>1 DEF DInv, Shape, Event
<1>3. \A r \in Request : event'[r].status =
        IF r \in dispatch[d].ok THEN "dispatched" ELSE event[r].status
  BY <1>1 DEF DInv, Shape, Event
<1>4. dispatch'[d] = IdleDispatch /\ \A c \in Dispatcher \ {d} : dispatch'[c] = dispatch[c]
  BY DEF DispatchCommit, DInv, Shape
<1>5. UNCHANGED <<apiVars, accepted, arq, ledger, jobVars, faults>>
  BY DEF DispatchCommit
<1>6. \A r \in dispatch[d].ok : r \in accepted
  BY DEF DInv, Locks, Locked
<1>7. Shape'
  <2>1. event' \in [Request -> Event]
    BY <1>2 DEF DispatchCommit
  <2>2. dispatch' \in [Dispatcher -> Batch]
    BY DEF DispatchCommit, IdleDispatch, DInv, Shape, Batch
  <2> QED BY <1>5, <2>1, <2>2 DEF DInv, Shape, apiVars, jobVars
<1>8. Together'
  BY <1>3, <1>5, <1>6 DEF DInv, Together, apiVars
<1>9. AnswersAgree'
  BY <1>5 DEF DInv, AnswersAgree, At, apiVars
<1>10. Locks'
  <2>1. Locked(d)' = {}
    BY <1>4 DEF Locked, IdleDispatch
  <2>2. \A c \in Dispatcher \ {d} : Locked(c)' = Locked(c)
    BY <1>4 DEF Locked
  <2> QED BY <1>5, <2>1, <2>2 DEF DInv, Locks
<1>11. Backed'
  BY <1>5 DEF DInv, Backed, jobVars
<1>12. Work'
  BY <1>5 DEF DInv, Work, Past, SucceededIsProcessed, EvidenceOnce, jobVars
<1>13. Carried'
  <2>1. SUFFICES ASSUME NEW r \in accepted \ killed, Open(r)
                 PROVE  Unsent(r)' \/ arq[r] > 0 \/ \E x \in Worker : Works(x, r)
    BY <1>5 DEF Carried, Open, Works, jobVars
  <2>2. CASE Unsent(r)
    <3>1. event'[r].status = "pending"
      BY <1>3, <2>2 DEF Unsent, DInv, Shape
    <3>2. \A c \in Dispatcher : r \notin dispatch'[c].ok
      BY <1>4, <2>2 DEF Unsent, IdleDispatch
    <3> QED BY <3>1, <3>2 DEF Unsent
  <2> QED BY <2>1, <2>2 DEF DInv, Carried
<1> QED BY <1>7, <1>8, <1>9, <1>10, <1>11, <1>12, <1>13 DEF DInv

\* A hand-over to Arq.
LEMMA HandOverFacts ==
  ASSUME DInv, NEW r \in accepted, HandOver(r)
  PROVE  /\ arq' \in [Request -> Nat] /\ event' \in [Request -> Event]
         /\ \A q \in Request : arq[q] > 0 => arq'[q] > 0
         /\ \A q \in Request : arq'[q] > 0 => q \in accepted
         /\ \A q \in Request : event'[q].status = event[q].status
         /\ arq'[r] > 0
<1> r \in Request
  BY DEF DInv, Shape
<1> DEFINE e == [event[r] EXCEPT !.sent = @ + 1]
<1>1. event' = [event EXCEPT ![r] = e]
  BY DEF HandOver, DInv, Shape
<1>2. e \in Event /\ e.status = event[r].status
  BY DEF DInv, Shape, Event
<1>3. event' \in [Request -> Event] /\ \A q \in Request : event'[q].status = event[q].status
  <2> HIDE DEF e
  <2> QED BY <1>1, <1>2 DEF DInv, Shape
<1>4. arq' \in [Request -> Nat] /\ arq'[r] = arq[r] + 1
      /\ \A q \in Request \ {r} : arq'[q] = arq[q]
  BY DEF HandOver, DInv, Shape
<1>5. \A q \in Request : arq[q] \in Nat /\ (arq[q] > 0 => q \in accepted)
  BY DEF DInv, Shape, Backed
<1>6. \A q \in Request : arq'[q] = arq[q] \/ (q = r /\ arq'[q] = arq[q] + 1)
  BY <1>4
<1> HIDE DEF e
<1>7. \A q \in Request : (arq[q] > 0 => arq'[q] > 0) /\ (arq'[q] > 0 => q \in accepted)
  BY <1>5, <1>6
<1>8. arq'[r] > 0
  BY <1>4, <1>5
<1> QED BY <1>3, <1>4, <1>7, <1>8

LEMMA DispatchDInv ==
  ASSUME DInv, NEW d \in Dispatcher,
         \/ DispatchRead(d) \/ DispatchDies(d)
         \/ \E r \in Request : DispatchSend(d, r) \/ DispatchFails(d, r)
  PROVE  DInv'
<1>1. CASE DispatchRead(d)
  <2> DEFINE free == {r \in accepted : /\ event[r].status = "pending" /\ event[r].due
                                       /\ \A c \in Dispatcher : r \notin Locked(c)}
             b == [dispatch[d] EXCEPT !.todo = free]
  <2>1. dispatch' = [dispatch EXCEPT ![d] = b] /\ dispatch[d] = IdleDispatch
        /\ UNCHANGED <<apiVars, accepted, event, arq, ledger, jobVars, faults>>
    BY <1>1 DEF DispatchRead, DInv, Shape
  <2>2. b \in Batch /\ b.todo = free /\ b.ok = {} /\ b.bad = {}
    BY <2>1 DEF IdleDispatch, Batch, DInv, Shape
  <2>3. \A c \in Dispatcher : Locked(c) \cap free = {}
    OBVIOUS
  <2>4. free \subseteq accepted
    OBVIOUS
  <2>5. \A r \in Request : arq[r] > 0 => r \in accepted
    BY DEF DInv, Backed
  <2> HIDE DEF free, b
  <2>6. b.todo \cup b.ok \cup b.bad = free
    BY <2>2
  <2>7. /\ arq' \in [Request -> Nat] /\ event' \in [Request -> Event] /\ faults' \in Nat
        /\ arq' = arq /\ event' = event
    BY <2>1 DEF DInv, Shape
  <2> QED BY <2>1, <2>2, <2>3, <2>4, <2>5, <2>6, <2>7, DispatcherDInv
<1>2. CASE DispatchDies(d)
  <2>1. IdleDispatch \in Batch /\ IdleDispatch.todo = {} /\ IdleDispatch.ok = {}
        /\ IdleDispatch.bad = {}
    BY DEF IdleDispatch, Batch
  <2>2. \A r \in Request : arq[r] > 0 => r \in accepted
    BY DEF DInv, Backed
  <2>3. faults' \in Nat
    BY <1>2 DEF DispatchDies, Fault, DInv, Shape
  <2>4. /\ arq' \in [Request -> Nat] /\ event' \in [Request -> Event]
        /\ arq' = arq /\ event' = event /\ dispatch' = [dispatch EXCEPT ![d] = IdleDispatch]
        /\ UNCHANGED <<apiVars, accepted, ledger, jobVars>>
    BY <1>2 DEF DispatchDies, DInv, Shape
  <2>5. IdleDispatch.todo \cup IdleDispatch.ok \cup IdleDispatch.bad = {}
    BY <2>1
  <2> QED BY <2>1, <2>2, <2>3, <2>4, <2>5, DispatcherDInv
<1>3. CASE \E r \in Request : DispatchSend(d, r)
  <2>1. PICK r \in Request : DispatchSend(d, r)
    BY <1>3
  <2> DEFINE b == [dispatch[d] EXCEPT !.todo = @ \ {r}, !.ok = @ \cup {r}]
  <2>2. dispatch' = [dispatch EXCEPT ![d] = b] /\ HandOver(r)
        /\ UNCHANGED <<apiVars, accepted, ledger, jobVars, faults>>
    BY <2>1 DEF DispatchSend, DInv, Shape
  <2>3. dispatch[d] \in Batch /\ r \in dispatch[d].todo
    BY <2>1 DEF DispatchSend, DInv, Shape
  <2>4. b \in Batch /\ b.todo = dispatch[d].todo \ {r} /\ b.ok = dispatch[d].ok \cup {r}
        /\ b.bad = dispatch[d].bad
    BY <2>3 DEF Batch
  <2>5. b.todo \cup b.ok \cup b.bad = Locked(d)
    BY <2>3, <2>4 DEF Locked
  <2>6. \A c \in Dispatcher \ {d} : Locked(c) \cap (b.todo \cup b.ok \cup b.bad) = {}
    BY <2>5 DEF DInv, Locks
  <2>7. Locked(d) \subseteq accepted /\ r \in accepted
    BY <2>3 DEF DInv, Locks, Locked
  <2> HIDE DEF b
  <2> QED BY <2>2, <2>4, <2>5, <2>6, <2>7, HandOverFacts, DispatcherDInv DEF DInv, Shape
<1>4. CASE \E r \in Request : DispatchFails(d, r)
  <2>1. PICK r \in Request : DispatchFails(d, r)
    BY <1>4
  <2> DEFINE b == [dispatch[d] EXCEPT !.todo = @ \ {r}, !.bad = @ \cup {r}]
  <2>2. dispatch' = [dispatch EXCEPT ![d] = b] /\ (HandOver(r) \/ UNCHANGED <<arq, event>>)
        /\ UNCHANGED <<apiVars, accepted, ledger, jobVars>> /\ faults' \in Nat
    <3>1. dispatch' = [dispatch EXCEPT ![d] = b]
      BY <2>1 DEF DispatchFails, DInv, Shape
    <3>2. faults' \in Nat
      <4>1. Fault
        BY <2>1 DEF DispatchFails
      <4> QED BY <4>1 DEF Fault, DInv, Shape
    <3>3. (HandOver(r) \/ UNCHANGED <<arq, event>>)
          /\ UNCHANGED <<apiVars, accepted, ledger, jobVars>>
      BY <2>1 DEF DispatchFails
    <3> QED BY <3>1, <3>2, <3>3
  <2>3. dispatch[d] \in Batch /\ r \in dispatch[d].todo
    BY <2>1 DEF DispatchFails, DInv, Shape
  <2>4. b \in Batch /\ b.todo = dispatch[d].todo \ {r} /\ b.ok = dispatch[d].ok
        /\ b.bad = dispatch[d].bad \cup {r}
    BY <2>3 DEF Batch
  <2>5. b.todo \cup b.ok \cup b.bad = Locked(d)
    BY <2>3, <2>4 DEF Locked
  <2>6. \A c \in Dispatcher \ {d} : Locked(c) \cap (b.todo \cup b.ok \cup b.bad) = {}
    BY <2>5 DEF DInv, Locks
  <2>7. Locked(d) \subseteq accepted /\ r \in accepted
    BY <2>3 DEF DInv, Locks, Locked
  <2>8. /\ arq' \in [Request -> Nat] /\ event' \in [Request -> Event]
        /\ \A q \in Request : arq[q] > 0 => arq'[q] > 0
        /\ \A q \in Request : arq'[q] > 0 => q \in accepted
        /\ \A q \in Request : event'[q].status = event[q].status
    <3>1. CASE HandOver(r)
      BY <2>7, <3>1, HandOverFacts
    <3>2. CASE UNCHANGED <<arq, event>>
      BY <3>2 DEF DInv, Shape, Backed
    <3> QED BY <2>2, <3>1, <3>2
  <2> HIDE DEF b
  <2> QED BY <2>2, <2>4, <2>5, <2>6, <2>7, <2>8, DispatcherDInv
<1> QED BY <1>1, <1>2, <1>3, <1>4

\* The backoff of an event is over.
LEMMA FallDueDInv ==
  ASSUME DInv, NEW r \in Request, FallDue(r)
  PROVE  DInv'
<1> DEFINE e == [event[r] EXCEPT !.due = TRUE]
<1>1. event' = [event EXCEPT ![r] = e] /\ e \in Event /\ e.status = event[r].status
  BY DEF FallDue, DInv, Shape, Event
<1>2. event' \in [Request -> Event] /\ \A q \in Request : event'[q].status = event[q].status
  <2> HIDE DEF e
  <2> QED BY <1>1 DEF DInv, Shape
<1>3. UNCHANGED <<apiVars, accepted, dispatch, arq, ledger, jobVars, faults>>
  BY DEF FallDue
<1>4. Shape'
  BY <1>2, <1>3 DEF DInv, Shape, apiVars, jobVars
<1>5. Together'
  BY <1>2, <1>3 DEF DInv, Together, apiVars
<1>6. AnswersAgree' /\ Locks' /\ Backed'
  BY <1>3 DEF DInv, AnswersAgree, At, Locks, Locked, Backed, apiVars, jobVars
<1>7. Work'
  BY <1>3 DEF DInv, Work, Past, SucceededIsProcessed, EvidenceOnce, jobVars
<1>8. Carried'
  <2>1. \A q \in accepted : Unsent(q)' <=> Unsent(q)
    BY <1>2, <1>3 DEF Unsent, DInv, Shape
  <2> QED BY <1>3, <2>1 DEF DInv, Carried, Open, Works, jobVars
<1> QED BY <1>4, <1>5, <1>6, <1>7, <1>8 DEF DInv

(***************************************************************************)
(* process_inbound_pitch_job.                                              *)
(***************************************************************************)
\* A step of a run that writes neither its ledger row nor observations and claims.
LEMMA RunStepDInv ==
  ASSUME DInv, NEW x \in Worker, NEW y \in Execution,
         run[x].phase # "idle", run' = [run EXCEPT ![x] = y],
         y.of = run[x].of, y.phase \notin {"idle", "starting"},
         y.phase = "persisting" /\ y.of \in y.read => observed[y.of] = 1,
         y.phase \in {"processing", "reconciling", "finishing"} => observed[y.of] = 1,
         y.phase = "reconciling" => y.of \in y.read /\ y.read \subseteq accepted,
         y.phase = "finishing" => y.of \in claimed',
         UNCHANGED <<apiVars, accepted, event, dispatch, arq, ledger, observed, killed, faults>>,
         claimed \subseteq claimed', claimed' \subseteq accepted
  PROVE  DInv'
<1>1. run'[x] = y /\ \A w \in Worker \ {x} : run'[w] = run[w]
  BY DEF DInv, Shape
<1>2. Shape'
  BY DEF DInv, Shape, apiVars
<1>3. Together' /\ AnswersAgree' /\ Locks'
  BY DEF DInv, Together, AnswersAgree, At, Locks, Locked, apiVars
<1>4. Backed'
  BY <1>1 DEF DInv, Backed
<1>5. Work'
  <2>1. SucceededIsProcessed' /\ EvidenceOnce'
    BY DEF DInv, Work, SucceededIsProcessed, EvidenceOnce
  <2> QED BY <1>1, <2>1 DEF DInv, Work, Past
<1>6. Carried'
  <2>1. \A w \in Worker, r \in Request : Works(w, r) => Works(w, r)'
    BY <1>1 DEF Works
  <2> QED BY <2>1 DEF DInv, Carried, Open, Unsent, Shape
<1> QED BY <1>2, <1>3, <1>4, <1>5, <1>6 DEF DInv

\* A run that ends with a closed ledger row.
LEMMA ClosedDInv ==
  ASSUME DInv, NEW x \in Worker, run[x].phase # "idle",
         NEW status \in {"succeeded", "failed"}, update_job(x, status), Ends(x),
         status = "succeeded" => run[x].phase = "finishing",
         UNCHANGED <<apiVars, accepted, event, dispatch, arq, observed, claimed, killed, faults>>
  PROVE  DInv'
<1> DEFINE r == run[x].of
<1>1. r \in accepted /\ r \in Request
  BY DEF DInv, Backed, Shape
<1>2. ledger'[r] = status /\ \A q \in Request \ {r} : ledger'[q] = ledger[q]
  BY <1>1 DEF update_job, DInv, Shape
<1>3. IdleRun \in Execution /\ IdleRun.of = Nobody /\ IdleRun.phase = "idle"
  BY DEF IdleRun, Execution, RunPhase
<1>4. run'[x] = IdleRun /\ \A w \in Worker \ {x} : run'[w] = run[w]
  BY DEF Ends, DInv, Shape
<1>5. Shape'
  <2>1. ledger' \in [Request -> RowStatus]
    BY <1>1 DEF update_job, DInv, Shape, RowStatus
  <2>2. run' \in [Worker -> Execution]
    BY <1>3 DEF Ends, DInv, Shape
  <2> QED BY <2>1, <2>2 DEF DInv, Shape, apiVars
<1>6. Together'
  BY <1>1, <1>2 DEF DInv, Together, apiVars
<1>7. AnswersAgree' /\ Locks'
  BY DEF DInv, AnswersAgree, At, Locks, Locked, apiVars
<1>8. Backed'
  BY <1>3, <1>4 DEF DInv, Backed
<1>9. Work'
  <2>1. SucceededIsProcessed'
    <3>1. status = "succeeded" => observed[r] = 1 /\ r \in claimed
      BY DEF DInv, Work, Past
    <3> QED BY <1>2, <3>1 DEF DInv, Work, SucceededIsProcessed
  <2>2. EvidenceOnce'
    BY DEF DInv, Work, EvidenceOnce
  <2> QED BY <1>3, <1>4, <2>1, <2>2 DEF DInv, Work, Past
<1>10. Carried'
  <2>1. SUFFICES ASSUME NEW q \in accepted \ killed, Open(q)'
                 PROVE  Unsent(q) \/ arq[q] > 0 \/ \E w \in Worker : Works(w, q)'
    BY DEF Carried, Unsent
  <2>2. q \in Request /\ q # r /\ Open(q)
    BY <1>2, <2>1 DEF Open, DInv, Shape
  <2>3. CASE \E w \in Worker : Works(w, q)
    BY <1>4, <2>2, <2>3 DEF Works
  <2> QED BY <2>1, <2>2, <2>3 DEF DInv, Carried
<1> QED BY <1>5, <1>6, <1>7, <1>8, <1>9, <1>10 DEF DInv

LEMMA TerminalizeDInv ==
  ASSUME DInv, NEW x \in Worker, run[x].phase # "idle", Terminalize(x)
  PROVE  DInv'
  BY ClosedDInv DEF Terminalize

\* A delivery begins a run.
LEMMA DeliverDInv ==
  ASSUME DInv, NEW x \in Worker, NEW r \in Request, Deliver(x, r)
  PROVE  DInv'
<1> DEFINE y == [of |-> r, phase |-> "starting", seen |-> ledger[r], read |-> {}]
<1>1. UNCHANGED <<apiVars, accepted, event, dispatch, ledger, observed, claimed, killed, faults>>
      /\ arq[r] > 0 /\ run[x].phase = "idle"
  BY DEF Deliver, Step
<1>2. y \in Execution
  BY DEF Execution, RunPhase, DInv, Shape
<1>3. run'[x] = y /\ \A w \in Worker \ {x} : run'[w] = run[w]
  BY DEF Deliver, DInv, Shape
<1>4. arq' \in [Request -> Nat] /\ \A q \in Request \ {r} : arq'[q] = arq[q]
  BY <1>1 DEF Deliver, DInv, Shape
<1>5. r \in accepted
  BY <1>1 DEF DInv, Backed
<1>6. Shape'
  <2>1. run' \in [Worker -> Execution]
    BY <1>2 DEF Deliver, DInv, Shape
  <2> QED BY <1>1, <1>4, <2>1 DEF DInv, Shape, apiVars
<1>7. Together' /\ AnswersAgree' /\ Locks'
  BY <1>1 DEF DInv, Together, AnswersAgree, At, Locks, Locked, apiVars
<1>8. Backed'
  BY <1>1, <1>3, <1>4, <1>5 DEF DInv, Backed
<1>9. Work'
  <2>1. SucceededIsProcessed' /\ EvidenceOnce'
    BY <1>1 DEF DInv, Work, SucceededIsProcessed, EvidenceOnce
  <2> QED BY <1>1, <1>3, <2>1 DEF DInv, Work, Past
<1>10. Carried'
  <2>1. SUFFICES ASSUME NEW q \in accepted \ killed, Open(q)
                 PROVE  Unsent(q) \/ arq'[q] > 0 \/ \E w \in Worker : Works(w, q)'
    BY <1>1 DEF Carried, Unsent, Open
  <2>2. CASE q = r
    <3>1. Works(x, r)'
      BY <1>3, <2>1, <2>2 DEF Works, Open
    <3> QED BY <2>2, <3>1
  <2>3. CASE q # r
    <3>1. q \in Request /\ arq'[q] = arq[q]
      BY <1>4, <2>3 DEF DInv, Shape
    <3>2. \A w \in Worker : Works(w, q) => w # x /\ Works(w, q)'
      BY <1>1, <1>3, <3>1, DeliveryAssumption DEF Works, DInv, Backed
    <3> QED BY <2>1, <3>1, <3>2 DEF DInv, Carried
  <2> QED BY <2>2, <2>3
<1> QED BY <1>6, <1>7, <1>8, <1>9, <1>10 DEF DInv

\* start_job.
LEMMA StartJobDInv ==
  ASSUME DInv, NEW x \in Worker, StartJob(x)
  PROVE  DInv'
<1> DEFINE r == run[x].of
<1>1. run[x].phase = "starting"
      /\ UNCHANGED <<apiVars, accepted, event, dispatch, arq, observed, claimed, killed, faults>>
  BY DEF StartJob, Step
<1>2. r \in accepted /\ r \in Request /\ run[x] \in Execution
  BY <1>1 DEF DInv, Backed, Shape
<1>3. AnswersAgree' /\ Locks'
  BY <1>1 DEF DInv, AnswersAgree, At, Locks, Locked, apiVars
<1>4. CASE run[x].seen = "succeeded"
  <2>1. Ends(x) /\ UNCHANGED ledger
    BY <1>4 DEF StartJob
  <2>2. IdleRun \in Execution /\ IdleRun.of = Nobody /\ IdleRun.phase = "idle"
    BY DEF IdleRun, Execution, RunPhase
  <2>3. run'[x] = IdleRun /\ \A w \in Worker \ {x} : run'[w] = run[w]
    BY <2>1 DEF Ends, DInv, Shape
  <2>4. run' \in [Worker -> Execution]
    BY <2>1, <2>2 DEF Ends, DInv, Shape
  <2>5. Shape'
    BY <1>1, <2>1, <2>4 DEF DInv, Shape, apiVars
  <2>6. Together'
    BY <1>1, <2>1 DEF DInv, Together, apiVars
  <2>7. Backed'
    BY <1>1, <2>2, <2>3 DEF DInv, Backed
  <2>8. Work'
    <3>1. SucceededIsProcessed' /\ EvidenceOnce'
      BY <1>1, <2>1 DEF DInv, Work, SucceededIsProcessed, EvidenceOnce
    <3> QED BY <1>1, <2>2, <2>3, <3>1 DEF DInv, Work, Past
  <2>9. Carried'
    <3>1. \A w \in Worker, q \in Request : Works(w, q) => w # x /\ Works(w, q)'
      BY <1>1, <1>4, <2>3 DEF Works
    <3> QED BY <1>1, <2>1, <3>1 DEF DInv, Carried, Open, Unsent, Shape
  <2> QED BY <1>3, <2>5, <2>6, <2>7, <2>8, <2>9 DEF DInv
<1>5. CASE run[x].seen # "succeeded"
  <2> DEFINE y == [run[x] EXCEPT !.phase = "parsing"]
  <2>1. run' = [run EXCEPT ![x] = y]
    BY <1>5 DEF StartJob, Move, DInv, Shape
  <2>2. y \in Execution /\ y.of = r /\ y.phase = "parsing" /\ y.seen # "succeeded"
    BY <1>2, <1>5 DEF Execution, RunPhase
  <2>3. run'[x] = y /\ \A w \in Worker \ {x} : run'[w] = run[w]
    BY <2>1 DEF DInv, Shape
  <2>4. ledger' \in [Request -> RowStatus]
        /\ (ledger'[r] = ledger[r] \/ ledger'[r] = "running")
        /\ \A q \in Request \ {r} : ledger'[q] = ledger[q]
    BY <1>2, <1>5 DEF StartJob, update_job, DInv, Shape, RowStatus
  <2> HIDE DEF y
  <2>5. Shape'
    BY <1>1, <2>1, <2>2, <2>4 DEF DInv, Shape, apiVars
  <2>6. Together'
    BY <1>1, <1>2, <2>4 DEF DInv, Together, apiVars
  <2>7. Backed'
    BY <1>1, <1>2, <2>2, <2>3 DEF DInv, Backed
  <2>8. Work'
    <3>1. SucceededIsProcessed' /\ EvidenceOnce'
      BY <1>1, <1>2, <2>4 DEF DInv, Work, SucceededIsProcessed, EvidenceOnce
    <3> QED BY <1>1, <2>2, <2>3, <3>1 DEF DInv, Work, Past
  <2>9. Carried'
    <3>1. \A w \in Worker, q \in Request : Works(w, q) => Works(w, q)'
      BY <2>2, <2>3 DEF Works
    <3>3. \A q \in accepted : q # r => (Open(q)' <=> Open(q))
      BY <2>4 DEF Open, DInv, Shape
    <3>4. SUFFICES ASSUME NEW q \in accepted \ killed, Open(q)'
                   PROVE  Unsent(q) \/ arq[q] > 0 \/ \E w \in Worker : Works(w, q)'
      BY <1>1 DEF Carried, Unsent
    <3>5. CASE q = r
      <4>1. Works(x, q)'
        BY <2>2, <2>3, <3>5 DEF Works
      <4> QED BY <4>1
    <3>6. CASE q # r
      <4>1. Unsent(q) \/ arq[q] > 0 \/ \E w \in Worker : Works(w, q)
        BY <3>3, <3>4, <3>6 DEF DInv, Carried
      <4>2. q \in Request
        BY DEF DInv, Shape
      <4> QED BY <3>1, <4>1, <4>2
    <3> QED BY <3>5, <3>6
  <2> QED BY <1>3, <2>5, <2>6, <2>7, <2>8, <2>9 DEF DInv
<1> QED BY <1>4, <1>5

\* The text is there: which observations exist already?
LEMMA ParseDInv ==
  ASSUME DInv, NEW x \in Worker, Parse(x)
  PROVE  DInv'
<1> DEFINE r == run[x].of
           R == IF observed[r] > 0 THEN {r} ELSE {}
           y == [run[x] EXCEPT !.phase = "persisting", !.read = R]
<1>1. run[x].phase = "parsing" /\ run[x] \in Execution
  BY DEF Parse, Step, DInv, Shape
<1>2. r \in accepted /\ r \in Request
  BY <1>1 DEF DInv, Backed, Shape
<1>3. run' = [run EXCEPT ![x] = y]
  BY DEF Parse, DInv, Shape
<1>4. R \in SUBSET Request /\ (r \in R => observed[r] > 0)
  BY <1>2
<1>5. y \in Execution /\ y.of = r /\ y.phase = "persisting" /\ y.read = R
  BY <1>1, <1>4 DEF Execution, RunPhase
<1>6. y.of \in y.read => observed[y.of] = 1
  <2>1. observed[r] \in Nat /\ observed[r] <= 1
    BY <1>2 DEF DInv, Shape, Work, EvidenceOnce
  <2> HIDE DEF y, R
  <2> QED BY <1>4, <1>5, <2>1
<1>7. UNCHANGED <<apiVars, accepted, event, dispatch, arq, ledger, observed, claimed, killed, faults>>
  BY DEF Parse
<1>8. claimed \subseteq accepted
  BY DEF DInv, Backed
<1> HIDE DEF y
<1> QED BY <1>1, <1>3, <1>5, <1>6, <1>7, <1>8, RunStepDInv

\* The missing observations are written, or collide with another delivery's.
LEMMA PersistDInv ==
  ASSUME DInv, NEW x \in Worker, Persist(x)
  PROVE  DInv'
<1> DEFINE r == run[x].of
           y == [run[x] EXCEPT !.phase = "processing"]
<1>1. run[x].phase = "persisting" /\ run[x] \in Execution
  BY DEF Persist, Step, DInv, Shape
<1>2. r \in accepted /\ r \in Request
  BY <1>1 DEF DInv, Backed, Shape
<1>3. CASE r \notin run[x].read /\ observed[r] > 0
  BY <1>1, <1>3, TerminalizeDInv DEF Persist
<1>4. CASE ~(r \notin run[x].read /\ observed[r] > 0)
  <2>1. run' = [run EXCEPT ![x] = y] /\ observed' = [observed EXCEPT ![r] = 1]
        /\ UNCHANGED <<apiVars, accepted, event, dispatch, arq, ledger, claimed, killed, faults>>
    BY <1>4 DEF Persist, Move, DInv, Shape
  <2>2. y \in Execution /\ y.of = r /\ y.phase = "processing"
    BY <1>1 DEF Execution, RunPhase
  <2>3. run'[x] = y /\ \A w \in Worker \ {x} : run'[w] = run[w]
    BY <2>1 DEF DInv, Shape
  <2>4. observed' \in [Request -> Nat] /\ observed'[r] = 1
        /\ \A q \in Request \ {r} : observed'[q] = observed[q]
    BY <1>2, <2>1 DEF DInv, Shape
  <2> HIDE DEF y
  <2>5. Shape'
    BY <2>1, <2>2, <2>4 DEF DInv, Shape, apiVars
  <2>6. Together' /\ AnswersAgree' /\ Locks'
    BY <2>1 DEF DInv, Together, AnswersAgree, At, Locks, Locked, apiVars
  <2>7. Backed'
    BY <1>2, <2>1, <2>2, <2>3 DEF DInv, Backed
  <2>8. Work'
    <3>1. \A q \in Request : observed[q] = 1 => observed'[q] = 1
      BY <2>4
    <3>2. SucceededIsProcessed' /\ EvidenceOnce'
      BY <2>1, <2>4, <3>1 DEF DInv, Work, SucceededIsProcessed, EvidenceOnce
    <3>3. \A w \in Worker \ {x} : run[w].phase # "idle" => run[w].of \in Request
      BY DEF DInv, Backed, Shape
    <3> QED BY <2>1, <2>2, <2>3, <2>4, <3>1, <3>2, <3>3 DEF DInv, Work, Past
  <2>9. Carried'
    <3>1. \A w \in Worker, q \in Request : Works(w, q) => Works(w, q)'
      BY <2>2, <2>3 DEF Works
    <3> QED BY <2>1, <3>1 DEF DInv, Carried, Open, Unsent, Shape
  <2> QED BY <2>5, <2>6, <2>7, <2>8, <2>9 DEF DInv
<1> QED BY <1>3, <1>4

\* process_candidate_job reads all observations about the founder, ...
LEMMA ProcessReadDInv ==
  ASSUME DInv, NEW x \in Worker, ProcessRead(x)
  PROVE  DInv'
<1> DEFINE R == {q \in accepted : EmailOf[q] = EmailOf[run[x].of] /\ observed[q] > 0}
           y == [run[x] EXCEPT !.phase = "reconciling", !.read = R]
<1>1. run[x].phase = "processing" /\ run[x] \in Execution
  BY DEF ProcessRead, Step, DInv, Shape
<1>2. run[x].of \in accepted /\ accepted \subseteq Request
  BY <1>1 DEF DInv, Backed, Shape
<1>3. observed[run[x].of] = 1
  BY <1>1 DEF DInv, Work, Past
<1>4. run' = [run EXCEPT ![x] = y]
  BY DEF ProcessRead, DInv, Shape
<1>5. R \in SUBSET Request /\ R \subseteq accepted /\ run[x].of \in R
  BY <1>2, <1>3
<1> HIDE DEF R
<1>6. y \in Execution /\ y.of = run[x].of /\ y.phase = "reconciling" /\ y.read = R
  BY <1>1, <1>5 DEF Execution, RunPhase
<1>7. UNCHANGED <<apiVars, accepted, event, dispatch, arq, ledger, observed, claimed, killed, faults>>
  BY DEF ProcessRead
<1>8. claimed \subseteq accepted
  BY DEF DInv, Backed
<1> HIDE DEF y
<1> QED BY <1>1, <1>3, <1>4, <1>5, <1>6, <1>7, <1>8, RunStepDInv

\* ... and commits its claims.
LEMMA ProcessCommitDInv ==
  ASSUME DInv, NEW x \in Worker, ProcessCommit(x)
  PROVE  DInv'
<1> DEFINE y == [run[x] EXCEPT !.phase = "finishing"]
<1>1. run[x].phase = "reconciling" /\ run[x] \in Execution
  BY DEF ProcessCommit, Step, DInv, Shape
<1>2. observed[run[x].of] = 1 /\ run[x].of \in run[x].read /\ run[x].read \subseteq accepted
  BY <1>1 DEF DInv, Work, Past
<1>3. run' = [run EXCEPT ![x] = y]
  BY DEF ProcessCommit, Move, DInv, Shape
<1>4. y \in Execution /\ y.of = run[x].of /\ y.phase = "finishing"
  BY <1>1 DEF Execution, RunPhase
<1>5. UNCHANGED <<apiVars, accepted, event, dispatch, arq, ledger, observed, killed, faults>>
      /\ claimed' = claimed \cup run[x].read
  BY DEF ProcessCommit
<1>6. claimed \subseteq claimed' /\ claimed' \subseteq accepted /\ run[x].of \in claimed'
  BY <1>2, <1>5 DEF DInv, Backed
<1> HIDE DEF y
<1> QED BY <1>1, <1>2, <1>3, <1>4, <1>5, <1>6, RunStepDInv

\* A run dies: Arq delivers the job again, or it is killed.
LEMMA RunDiesDInv ==
  ASSUME DInv, NEW x \in Worker, RunDies(x)
  PROVE  DInv'
<1> DEFINE r == run[x].of
<1>1. run[x].phase # "idle" /\ Ends(x)
      /\ UNCHANGED <<apiVars, accepted, event, dispatch, ledger, observed, claimed>>
  BY DEF RunDies, Step
<1>2. Fault
  BY DEF RunDies
<1>3. faults' \in Nat
  BY <1>2 DEF Fault, DInv, Shape
<1>4. r \in accepted /\ r \in Request
  BY <1>1 DEF DInv, Backed, Shape
<1>5. \/ arq' = [arq EXCEPT ![r] = @ + 1] /\ killed' = killed
      \/ killed' = killed \cup {r} /\ arq' = arq
  BY DEF RunDies
<1>6. arq[r] \in Nat /\ arq \in [Request -> Nat]
  BY <1>4 DEF DInv, Shape
<1>7. /\ arq' \in [Request -> Nat]
      /\ \A q \in Request : q # r => arq'[q] = arq[q]
      /\ r \in killed' \/ arq'[r] > 0
      /\ killed \subseteq killed' /\ killed' \subseteq accepted
  BY <1>4, <1>5, <1>6 DEF DInv, Backed
<1>8. IdleRun \in Execution /\ IdleRun.of = Nobody /\ IdleRun.phase = "idle"
  BY DEF IdleRun, Execution, RunPhase
<1>9. run'[x] = IdleRun /\ \A w \in Worker \ {x} : run'[w] = run[w]
  BY <1>1 DEF Ends, DInv, Shape
<1>10. Shape'
  <2>1. run' \in [Worker -> Execution]
    BY <1>1, <1>8 DEF Ends, DInv, Shape
  <2> QED BY <1>1, <1>3, <1>7, <2>1 DEF DInv, Shape, apiVars
<1>11. Together' /\ AnswersAgree' /\ Locks'
  BY <1>1 DEF DInv, Together, AnswersAgree, At, Locks, Locked, apiVars
<1>12. Backed'
  BY <1>1, <1>4, <1>7, <1>8, <1>9 DEF DInv, Backed
<1>13. Work'
  <2>1. SucceededIsProcessed' /\ EvidenceOnce'
    BY <1>1 DEF DInv, Work, SucceededIsProcessed, EvidenceOnce
  <2> QED BY <1>1, <1>8, <1>9, <2>1 DEF DInv, Work, Past
<1>14. Carried'
  <2>1. SUFFICES ASSUME NEW q \in accepted \ killed', Open(q)
                 PROVE  Unsent(q) \/ arq'[q] > 0 \/ \E w \in Worker : Works(w, q)'
    BY <1>1 DEF Carried, Unsent, Open
  <2>2. CASE q = r
    BY <1>7, <2>1, <2>2
  <2>3. CASE q # r
    <3>1. q \in Request /\ q \notin killed /\ arq'[q] = arq[q]
      BY <1>7, <2>1, <2>3 DEF DInv, Shape
    <3>2. \A w \in Worker : Works(w, q) => Works(w, q)'
      BY <1>9, <2>3 DEF Works
    <3> QED BY <2>1, <3>1, <3>2 DEF DInv, Carried
  <2> QED BY <2>2, <2>3
<1> QED BY <1>10, <1>11, <1>12, <1>13, <1>14 DEF DInv

LEMMA JobDInv ==
  ASSUME DInv, NEW x \in Worker,
         \/ \E r \in Request : Deliver(x, r)
         \/ StartJob(x) \/ StartFails(x) \/ Parse(x) \/ ParseFails(x) \/ Persist(x)
         \/ ProcessRead(x) \/ ProcessCommit(x) \/ ProcessFails(x)
         \/ Finish(x) \/ FinishFails(x) \/ RunDies(x)
  PROVE  DInv'
<1>1. CASE StartFails(x) \/ ParseFails(x) \/ ProcessFails(x) \/ FinishFails(x)
  BY <1>1, TerminalizeDInv DEF StartFails, ParseFails, ProcessFails, FinishFails, Step
<1>2. CASE Finish(x)
  BY <1>2, ClosedDInv DEF Finish, Step
<1> QED BY <1>1, <1>2, DeliverDInv, StartJobDInv, ParseDInv, PersistDInv, ProcessReadDInv,
       ProcessCommitDInv, RunDiesDInv

LEMMA StutterDInv ==
  ASSUME DInv, UNCHANGED vars
  PROVE  DInv'
<1>1. Shape' /\ Together' /\ AnswersAgree' /\ Locks' /\ Backed'
  BY DEF DInv, Shape, Together, AnswersAgree, At, Locks, Locked, Backed, vars, apiVars, jobVars
<1>2. Work'
  BY DEF DInv, Work, Past, SucceededIsProcessed, EvidenceOnce, vars, jobVars
<1>3. Carried'
  BY DEF DInv, Carried, Open, Unsent, Works, vars, jobVars
<1> QED BY <1>1, <1>2, <1>3 DEF DInv

\* No step of any actor breaks the invariant.
LEMMA DInvStep == DInv /\ [Next]_vars => DInv'
<1>1. SUFFICES ASSUME DInv, [Next]_vars PROVE DInv'
  OBVIOUS
<1>2. CASE \E r \in Request : \/ Arrive(r) \/ Quarantine(r) \/ LookUp(r) \/ InsertPerson(r)
                              \/ CommitSubmission(r) \/ Lose(r)
  BY <1>1, <1>2, ApiDInv
<1>3. CASE \E r \in Request : FallDue(r)
  BY <1>1, <1>3, FallDueDInv
<1>4. CASE \E d \in Dispatcher : DispatchCommit(d)
  BY <1>1, <1>4, DispatchCommitDInv
<1>5. CASE \E d \in Dispatcher :
             \/ DispatchRead(d) \/ DispatchDies(d)
             \/ \E r \in Request : DispatchSend(d, r) \/ DispatchFails(d, r)
  BY <1>1, <1>5, DispatchDInv
<1>6. CASE \E x \in Worker :
             \/ \E r \in Request : Deliver(x, r)
             \/ StartJob(x) \/ StartFails(x) \/ Parse(x) \/ ParseFails(x) \/ Persist(x)
             \/ ProcessRead(x) \/ ProcessCommit(x) \/ ProcessFails(x)
             \/ Finish(x) \/ FinishFails(x) \/ RunDies(x)
  BY <1>1, <1>6, JobDInv
<1>7. CASE UNCHANGED vars
  BY <1>1, <1>7, StutterDInv
<1> QED BY <1>1, <1>2, <1>3, <1>4, <1>5, <1>6, <1>7 DEF Next

(***************************************************************************)
(* The theorems.                                                           *)
(***************************************************************************)
\* The inductive invariant, for any number of requests, dispatchers, runs and faults.
THEOREM Delivery == Spec => []DInv
  BY InitDInv, DInvStep, PTL DEF Spec

\* Rows, runs and histories stay well formed, whatever the interleaving.
THEOREM DeliveryTypes == Spec => []TypeOK
<1>1. DInv => TypeOK
  <2> SUFFICES ASSUME DInv PROVE TypeOK
    OBVIOUS
  <2>1. \A r \in Request :
          /\ client[r].phase \in Phase /\ client[r].names \in Request \cup {Nobody}
          /\ event[r].status \in {"none", "pending", "dispatched"}
          /\ ledger[r] \in RowStatus
    BY DEF DInv, Shape, Call, Event
  <2>2. \A x \in Worker : Step(x, "idle") \/ run[x].of \in accepted
    BY DEF DInv, Backed, Step
  <2> QED BY <2>1, <2>2 DEF DInv, Shape, Together, Locks, Backed, TypeOK, Phase, RowStatus
<1> QED BY <1>1, Delivery, PTL

\* One key has one accepted submission, and every answer to it names that one.
THEOREM OneAnswer == Spec => []AnswersAgree
<1>1. DInv => AnswersAgree
  BY DEF DInv
<1> QED BY <1>1, Delivery, PTL

\* The observations of a deck exist at most once, however often it is delivered.
THEOREM DeckOnce == Spec => []EvidenceOnce
<1>1. DInv => EvidenceOnce
  BY DEF DInv, Work
<1> QED BY <1>1, Delivery, PTL

\* "succeeded" in the ledger means observed and processed, also for duplicates.
THEOREM Truthful == Spec => []SucceededIsProcessed
<1>1. DInv => SucceededIsProcessed
  BY DEF DInv, Work
<1> QED BY <1>1, Delivery, PTL

\* No fault except a killed run leaves an open row that nothing serves.
THEOREM NothingDropped == Spec => []OpenRowServed
<1>1. DInv => OpenRowServed
  <2> SUFFICES ASSUME DInv, NEW r \in accepted \ killed, Open(r)
               PROVE  event[r].status = "pending" \/ arq[r] > 0 \/ \E x \in Worker : run[x].of = r
    BY DEF OpenRowServed, Open
  <2> QED BY DEF DInv, Carried, Unsent, Works
<1> QED BY <1>1, Delivery, PTL

(***************************************************************************)
(* InboundDelivery implements Submission.  The mapping needs that what is  *)
(* observed was accepted, that what is claimed was observed, and that a    *)
(* processing run still has only observed decks in its hands when it       *)
(* commits.                                                                *)
(***************************************************************************)
Grounded ==
  /\ \A r \in Request : observed[r] # 0 => r \in accepted
  /\ \A r \in claimed : observed[r] # 0
  /\ \A x \in Worker : Past(x, {"reconciling"}) => \A r \in run[x].read : observed[r] # 0

LEMMA InitGrounded == Init => Grounded
<1> SUFFICES ASSUME Init PROVE Grounded
  OBVIOUS
<1>1. \A x \in Worker : run[x].phase = "idle"
  BY DEF Init, IdleRun
<1>2. observed = [r \in Request |-> 0] /\ claimed = {}
  BY DEF Init
<1> QED BY <1>1, <1>2 DEF Grounded, Past

\* Nothing is taken back: a step keeps what is accepted and observed.
LEMMA NothingTakenBack ==
  ASSUME DInv, [Next]_vars
  PROVE  accepted \subseteq accepted' /\ \A r \in Request : observed[r] # 0 => observed'[r] # 0
<1>1. CASE \E r \in Request : CommitSubmission(r)
  BY <1>1 DEF CommitSubmission, Accept, jobVars
<1>2. CASE \E x \in Worker : Persist(x)
  <2>1. PICK x \in Worker : Persist(x)
    BY <1>2
  <2> QED BY <2>1 DEF Persist, Terminalize, DInv, Shape
<1>3. CASE UNCHANGED <<accepted, observed>>
  BY <1>3
<1>4. CASE UNCHANGED vars
  BY <1>4 DEF vars, jobVars
<1>5. ASSUME NEW r \in Request, \/ Arrive(r) \/ Quarantine(r) \/ LookUp(r) \/ InsertPerson(r)
                                \/ Lose(r) \/ FallDue(r)
      PROVE  UNCHANGED <<accepted, observed>>
  BY <1>5 DEF Arrive, Quarantine, LookUp, InsertPerson, Lose, FallDue, jobVars
<1>6. ASSUME NEW d \in Dispatcher,
             \/ DispatchRead(d) \/ DispatchCommit(d) \/ DispatchDies(d)
             \/ \E r \in Request : DispatchSend(d, r) \/ DispatchFails(d, r)
      PROVE  UNCHANGED <<accepted, observed>>
  BY <1>6 DEF DispatchRead, DispatchCommit, DispatchDies, DispatchSend, DispatchFails, jobVars
<1>7. ASSUME NEW x \in Worker,
             \/ \E r \in Request : Deliver(x, r)
             \/ StartJob(x) \/ StartFails(x) \/ Parse(x) \/ ParseFails(x)
             \/ ProcessRead(x) \/ ProcessCommit(x) \/ ProcessFails(x)
             \/ Finish(x) \/ FinishFails(x) \/ RunDies(x)
      PROVE  UNCHANGED <<accepted, observed>>
  BY <1>7 DEF Deliver, StartJob, StartFails, Parse, ParseFails, ProcessRead, ProcessCommit,
     ProcessFails, Finish, FinishFails, RunDies, Terminalize
<1> QED BY <1>1, <1>2, <1>3, <1>4, <1>5, <1>6, <1>7 DEF Next

LEMMA GroundedStep ==
  ASSUME DInv, Grounded, [Next]_vars
  PROVE  Grounded'
<1>1. accepted \subseteq accepted' /\ \A r \in Request : observed[r] # 0 => observed'[r] # 0
  BY NothingTakenBack
<1>2. accepted \subseteq Request /\ claimed \subseteq accepted
      /\ \A x \in Worker : run[x] \in Execution
  BY DEF DInv, Shape, Backed
<1>3. CASE \E x \in Worker : Persist(x)
  <2>1. PICK x \in Worker : Persist(x)
    BY <1>3
  <2>2. run[x].of \in accepted
    BY <2>1 DEF Persist, Step, DInv, Backed
  <2>3. accepted' = accepted /\ claimed' = claimed
        /\ \A r \in Request : observed'[r] # 0 => observed[r] # 0 \/ r = run[x].of
    BY <1>2, <2>1, <2>2 DEF Persist, Terminalize, DInv, Shape
  <2>4. \A w \in Worker : Past(w, {"reconciling"})' => Past(w, {"reconciling"}) /\ run'[w] = run[w]
    <3>1. \/ run' = [run EXCEPT ![x] = IdleRun]
          \/ run' = [run EXCEPT ![x].phase = "processing"]
      BY <2>1 DEF Persist, Terminalize, Ends, Move
    <3>2. \A w \in Worker \ {x} : run'[w] = run[w]
      BY <3>1 DEF DInv, Shape
    <3>3. CASE run' = [run EXCEPT ![x] = IdleRun]
      BY <3>2, <3>3 DEF IdleRun, Past, DInv, Shape
    <3>4. CASE run' = [run EXCEPT ![x].phase = "processing"]
      <4>1. run'[x].phase = "processing"
        BY <1>2, <3>4 DEF DInv, Shape, Execution
      <4> QED BY <3>2, <4>1 DEF Past
    <3> QED BY <3>1, <3>3, <3>4
  <2>5. \A w \in Worker : run[w].read \subseteq Request
    BY <1>2 DEF Execution
  <2> QED BY <1>1, <1>2, <2>2, <2>3, <2>4, <2>5 DEF Grounded
<1>4. CASE \E x \in Worker : ProcessRead(x)
  <2>1. PICK x \in Worker : ProcessRead(x)
    BY <1>4
  <2> DEFINE R == {r \in accepted : EmailOf[r] = EmailOf[run[x].of] /\ observed[r] > 0}
  <2>2. accepted' = accepted /\ claimed' = claimed /\ observed' = observed
        /\ run' = [run EXCEPT ![x].phase = "reconciling", ![x].read = R]
    BY <2>1 DEF ProcessRead
  <2>3. \A r \in R : observed[r] # 0
    BY <1>2 DEF DInv, Shape
  <2> HIDE DEF R
  <2>4. run'[x].read = R /\ \A w \in Worker \ {x} : run'[w] = run[w]
    BY <1>2, <2>2 DEF DInv, Shape, Execution
  <2> QED BY <2>2, <2>3, <2>4 DEF Grounded, Past
<1>5. CASE \E x \in Worker : ProcessCommit(x)
  <2>1. PICK x \in Worker : ProcessCommit(x)
    BY <1>5
  <2>2. accepted' = accepted /\ observed' = observed /\ claimed' = claimed \cup run[x].read
        /\ run' = [run EXCEPT ![x].phase = "finishing"] /\ run[x].phase = "reconciling"
    BY <2>1 DEF ProcessCommit, Move, Step
  <2>3. run'[x].phase = "finishing" /\ \A w \in Worker \ {x} : run'[w] = run[w]
    BY <1>2, <2>2 DEF DInv, Shape, Execution
  <2> QED BY <2>2, <2>3 DEF Grounded, Past
<1>6. ASSUME UNCHANGED <<observed, claimed>>,
             \A w \in Worker : Past(w, {"reconciling"})' => run'[w] = run[w]
      PROVE  Grounded'
  BY <1>1, <1>2, <1>6 DEF Grounded, Past
<1>7. ASSUME NEW x \in Worker,
             \/ \E r \in Request : Deliver(x, r)
             \/ StartJob(x) \/ StartFails(x) \/ Parse(x) \/ ParseFails(x)
             \/ ProcessFails(x) \/ Finish(x) \/ FinishFails(x) \/ RunDies(x)
      PROVE  Grounded'
  <2>1. UNCHANGED <<observed, claimed>>
    BY <1>7 DEF Deliver, StartJob, StartFails, Parse, ParseFails, ProcessFails, Finish,
       FinishFails, RunDies, Terminalize
  <2>2. \A w \in Worker \ {x} : run'[w] = run[w]
    BY <1>7 DEF Deliver, StartJob, StartFails, Parse, ParseFails, ProcessFails, Finish,
       FinishFails, RunDies, Terminalize, Ends, Move, DInv, Shape
  <2>3. run'[x].phase # "reconciling"
    <3>1. CASE Ends(x)
      BY <3>1 DEF Ends, IdleRun, DInv, Shape
    <3>2. CASE \E r \in Request : Deliver(x, r)
      BY <3>2 DEF Deliver, DInv, Shape
    <3>3. CASE StartJob(x) /\ ~Ends(x)
      BY <1>2, <3>3 DEF StartJob, Move, DInv, Shape, Execution
    <3>4. CASE Parse(x)
      BY <1>2, <3>4 DEF Parse, DInv, Shape, Execution
    <3> QED BY <1>7, <3>1, <3>2, <3>3, <3>4 DEF StartFails, ParseFails, ProcessFails, Finish,
           FinishFails, RunDies, Terminalize
  <2> QED BY <1>6, <2>1, <2>2, <2>3 DEF Past
<1>8. CASE \E r \in Request : \/ Arrive(r) \/ Quarantine(r) \/ LookUp(r) \/ InsertPerson(r)
                              \/ CommitSubmission(r) \/ Lose(r) \/ FallDue(r)
  <2>1. UNCHANGED <<observed, claimed, run>>
    BY <1>8 DEF Arrive, Quarantine, LookUp, InsertPerson, CommitSubmission, Accept, Lose, FallDue,
       jobVars
  <2> QED BY <1>6, <2>1
<1>9. CASE \E d \in Dispatcher :
             \/ DispatchRead(d) \/ DispatchCommit(d) \/ DispatchDies(d)
             \/ \E r \in Request : DispatchSend(d, r) \/ DispatchFails(d, r)
  <2>1. UNCHANGED <<observed, claimed, run>>
    BY <1>9 DEF DispatchRead, DispatchCommit, DispatchDies, DispatchSend, DispatchFails, jobVars
  <2> QED BY <1>6, <2>1
<1>10. CASE UNCHANGED vars
  BY <1>6, <1>10 DEF vars, jobVars
<1> QED BY <1>3, <1>4, <1>5, <1>7, <1>8, <1>9, <1>10 DEF Next

GInv == DInv /\ Grounded

LEMMA GroundedAlways == Spec => []GInv
<1>1. Init => GInv
  BY InitDInv, InitGrounded DEF GInv
<1>2. GInv /\ [Next]_vars => GInv'
  BY DInvStep, GroundedStep DEF GInv
<1> QED BY <1>1, <1>2, PTL DEF Spec

\* What the mapping reads of a state.
LEMMA DeckFacts ==
  ASSUME GInv, NEW r \in Request
  PROVE  /\ Deck[r] # "none" <=> r \in accepted
         /\ r \in accepted /\ observed[r] = 0 => Deck[r] = "accepted"
         /\ r \in accepted /\ observed[r] # 0 => Deck[r] \in {"observed", "claimed"}
         /\ r \in claimed => Deck[r] = "claimed"
<1>1. r \in claimed => r \in accepted /\ observed[r] # 0
  BY DEF GInv, DInv, Backed, Grounded
<1> QED BY <1>1 DEF Deck

LEMMA SameRival == \A r \in Request : GInv => SM!Stands(r) = Rival(r)
<1> SUFFICES ASSUME NEW r \in Request, GInv PROVE SM!Stands(r) = Rival(r)
  OBVIOUS
<1>1. SM!Accepted = accepted
  <2>1. accepted \subseteq Request
    BY DEF GInv, DInv, Shape
  <2> QED BY <2>1, DeckFacts DEF SM!Accepted
<1> QED BY <1>1 DEF SM!Stands, Rival

\* A step that leaves what the abstraction reads is a stutter.
LEMMA Unseen ==
  ASSUME UNCHANGED <<client, accepted, ledger, observed, claimed>>
  PROVE  UNCHANGED SM!view
  BY DEF SM!view, Told, Deck, At

\* So is a handler that goes on without an answer.
LEMMA UnansweredUnseen ==
  ASSUME GInv, NEW r \in Request, NEW p \in Phase \ {"answered"}, client[r].phase # "answered",
         Goto(r, p), UNCHANGED <<accepted, ledger, observed, claimed>>
  PROVE  UNCHANGED SM!view
<1>1. client'[r].phase = p /\ \A q \in Request \ {r} : client'[q] = client[q]
  BY DEF Goto, GInv, DInv, Shape, Call
<1>2. Told' = Told
  BY <1>1 DEF Told, At
<1>3. Deck' = Deck
  BY DEF Deck
<1> QED BY <1>2, <1>3 DEF SM!view

\* An answer is what the client has been told from then on.
LEMMA AnswerTells ==
  ASSUME GInv, NEW r \in Request, NEW q, client[r].phase # "answered", Answer(r, q)
  PROVE  Told[r] = Nobody /\ Told' = [Told EXCEPT ![r] = q]
<1>1. client'[r] = [phase |-> "answered", names |-> q]
      /\ \A z \in Request \ {r} : client'[z] = client[z]
  BY DEF Answer, GInv, DInv, Shape
<1>2. Told[r] = Nobody
  BY DEF Told, At
<1>3. \A z \in Request : (IF At(z, "answered")' THEN client'[z].names ELSE Nobody)
                           = IF z = r THEN q ELSE Told[z]
  BY <1>1 DEF Told, At
<1>4. Told' = [z \in Request |-> IF z = r THEN q ELSE Told[z]]
  BY <1>3 DEF Told
<1>5. Told = [z \in Request |-> Told[z]]
  BY DEF Told
<1> QED BY <1>2, <1>4, <1>5

\* An answer read from an earlier submission.
LEMMA AnswerRepeats ==
  ASSUME GInv, NEW r \in Request, NEW q \in Rival(r), client[r].phase # "answered",
         Answer(r, q), UNCHANGED <<accepted, ledger, observed, claimed>>
  PROVE  SM!Repeat(r)
<1>1. Told[r] = Nobody /\ Told' = [Told EXCEPT ![r] = q]
  BY AnswerTells
<1>2. Deck' = Deck
  BY DEF Deck
<1>3. q \in SM!Stands(r)
  BY SameRival
<1> QED BY <1>1, <1>2, <1>3 DEF SM!Repeat

\* The commit of a submission.
LEMMA AcceptAccepts ==
  ASSUME GInv, GInv', NEW r \in Request, Rival(r) = {}, client[r].phase # "answered", Accept(r)
  PROVE  SM!Accept(r)
<1>1. Told[r] = Nobody /\ Told' = [Told EXCEPT ![r] = r]
  BY AnswerTells DEF Accept
<1>2. r \notin accepted /\ accepted' = accepted \cup {r}
      /\ observed' = observed /\ claimed' = claimed
  BY DEF Accept, Rival, jobVars
<1>3. r \notin claimed /\ observed[r] = 0
  BY <1>2 DEF GInv, Grounded, DInv, Backed
<1>4. Deck' = [Deck EXCEPT ![r] = "accepted"]
  BY <1>2, <1>3 DEF Deck
<1>5. ledger' = [ledger EXCEPT ![r] = "queued"]
  BY DEF Accept
<1>6. SM!Stands(r) = {}
  BY SameRival
<1> QED BY <1>1, <1>4, <1>5, <1>6 DEF SM!Accept

\* A step that writes the ledger row of an accepted submission, and nothing else a client
\* can see.
LEMMA RowShows ==
  ASSUME GInv, NEW r \in accepted, NEW status \in {"running", "succeeded", "failed"},
         ledger' = [ledger EXCEPT ![r] = status],
         status = "succeeded" => r \in claimed,
         UNCHANGED <<client, accepted, observed, claimed>>
  PROVE  SM!Next
<1>1. r \in Request
  BY DEF GInv, DInv, Shape
<1>2. Told' = Told /\ Deck' = Deck
  BY DEF Told, Deck, At
<1>3. Deck[r] # "none" /\ (status = "succeeded" => Deck[r] = "claimed")
  BY <1>1, DeckFacts
<1>4. SM!Show(r, status)
  BY <1>2, <1>3 DEF SM!Show
<1> QED BY <1>1, <1>4 DEF SM!Next

LEMMA TerminalizeShows ==
  ASSUME GInv, NEW x \in Worker, run[x].phase # "idle", Terminalize(x)
  PROVE  SM!Next
<1>1. run[x].of \in accepted
  BY DEF GInv, DInv, Backed
<1> QED BY <1>1, RowShows DEF Terminalize, update_job, apiVars

\* The observations of a deck appear, unless they are there or collide.
LEMMA PersistObserves ==
  ASSUME GInv, GInv', NEW x \in Worker, Persist(x)
  PROVE  [SM!Next]_(SM!view)
<1> DEFINE r == run[x].of
<1>1. run[x].phase = "persisting" /\ r \in accepted /\ r \in Request
  BY DEF Persist, Step, GInv, DInv, Backed, Shape
<1>2. CASE r \notin run[x].read /\ observed[r] > 0
  BY <1>1, <1>2, TerminalizeShows DEF Persist
<1>3. CASE ~(r \notin run[x].read /\ observed[r] > 0)
  <2>1. observed' = [observed EXCEPT ![r] = 1]
        /\ UNCHANGED <<client, accepted, ledger, claimed>>
    BY <1>3 DEF Persist, apiVars
  <2>2. observed \in [Request -> Nat] /\ observed[r] <= 1
    BY <1>1 DEF GInv, DInv, Shape, Work, EvidenceOnce
  <2>3. CASE observed[r] = 0
    <3>1. Deck[r] = "accepted" /\ r \notin claimed
      BY <1>1, <2>3, DeckFacts DEF GInv, Grounded
    <3>2. Deck' = [Deck EXCEPT ![r] = "observed"]
      <4> HIDE DEF r
      <4>1. \A q \in Request \ {r} : observed'[q] = observed[q]
        BY <2>1, <2>2
      <4>2. observed'[r] # 0
        BY <1>1, <2>1, <2>2
      <4>3. Deck' = [q \in Request |-> IF q = r THEN "observed" ELSE Deck[q]]
        BY <1>1, <2>1, <3>1, <4>1, <4>2 DEF Deck
      <4>4. Deck = [q \in Request |-> Deck[q]]
        BY DEF Deck
      <4> QED BY <4>3, <4>4
    <3>3. Told' = Told
      BY <2>1 DEF Told, At
    <3>4. SM!Observe(r)
      BY <2>1, <3>1, <3>2, <3>3 DEF SM!Observe
    <3> QED BY <1>1, <3>4 DEF SM!Next
  <2>4. CASE observed[r] # 0
    <3>1. observed' = observed
      BY <1>1, <2>1, <2>2, <2>4
    <3> QED BY <2>1, <3>1, Unseen
  <2> QED BY <2>3, <2>4
<1> QED BY <1>2, <1>3

\* A processing run commits its claims.
LEMMA CommitClaims ==
  ASSUME GInv, NEW x \in Worker, ProcessCommit(x)
  PROVE  SM!Next
<1> DEFINE R == run[x].read
<1>1. run[x].phase = "reconciling"
      /\ claimed' = claimed \cup R /\ UNCHANGED <<client, accepted, ledger, observed>>
  BY DEF ProcessCommit, Step, apiVars
<1>2. R \subseteq accepted /\ \A r \in R : observed[r] # 0
  BY <1>1 DEF GInv, DInv, Work, Grounded, Past
<1>3. accepted \subseteq Request
  BY DEF GInv, DInv, Shape
<1> HIDE DEF R
<1>4. \A r \in R : Deck[r] \in {"observed", "claimed"}
  BY <1>2, <1>3, DeckFacts
<1>5. Deck' = [r \in Request |-> IF r \in R THEN "claimed" ELSE Deck[r]]
  BY <1>1, <1>2 DEF Deck
<1>6. Told' = Told
  BY <1>1 DEF Told, At
<1>7. SM!Claim(R)
  BY <1>1, <1>4, <1>5, <1>6 DEF SM!Claim
<1> QED BY <1>2, <1>3, <1>7 DEF SM!Next

LEMMA ApiImplements ==
  ASSUME GInv, GInv', NEW r \in Request,
         \/ Arrive(r) \/ Quarantine(r) \/ LookUp(r) \/ InsertPerson(r)
         \/ CommitSubmission(r) \/ Lose(r)
  PROVE  [SM!Next]_(SM!view)
<1>1. CASE Arrive(r)
  <2>1. client[r].phase # "answered" /\ UNCHANGED <<accepted, ledger, observed, claimed>>
    BY <1>1 DEF Arrive, At, jobVars
  <2>2. CASE Rival(r) # {}
    <3>1. SM!Repeat(r)
      BY <1>1, <2>1, <2>2, AnswerRepeats DEF Arrive
    <3> QED BY <3>1 DEF SM!Next
  <2>3. CASE Rival(r) = {}
    BY <1>1, <2>1, <2>3, UnansweredUnseen DEF Arrive, Phase
  <2> QED BY <2>2, <2>3
<1>2. CASE Quarantine(r)
  BY <1>2, UnansweredUnseen DEF Quarantine, At, jobVars, Phase
<1>3. CASE LookUp(r)
  <2> DEFINE p == IF EmailOf[r] \in persons THEN "inserting" ELSE "creating"
  <2>1. p \in Phase \ {"answered"}
    BY DEF Phase
  <2>2. Goto(r, p) /\ client[r].phase # "answered"
        /\ UNCHANGED <<accepted, ledger, observed, claimed>>
    BY <1>3 DEF LookUp, At, jobVars
  <2> HIDE DEF p
  <2> QED BY <2>1, <2>2, UnansweredUnseen
<1>4. CASE InsertPerson(r)
  <2> DEFINE p == IF EmailOf[r] \in persons THEN "failed" ELSE "founder"
  <2>1. p \in Phase \ {"answered"}
    BY DEF Phase
  <2>2. Goto(r, p) /\ client[r].phase # "answered"
        /\ UNCHANGED <<accepted, ledger, observed, claimed>>
    BY <1>4 DEF InsertPerson, At, jobVars
  <2> HIDE DEF p
  <2> QED BY <2>1, <2>2, UnansweredUnseen
<1>5. CASE CommitSubmission(r)
  <2>1. client[r].phase # "answered"
    BY <1>5 DEF CommitSubmission, At
  <2>2. CASE Rival(r) = {} /\ Accept(r)
    BY <2>1, <2>2, AcceptAccepts DEF SM!Next
  <2>3. CASE /\ \E q \in Rival(r) : Answer(r, q)
             /\ UNCHANGED <<persons, accepted, event, dispatch, arq, ledger, jobVars, faults>>
    <3>1. SM!Repeat(r)
      BY <2>1, <2>3, AnswerRepeats DEF jobVars
    <3> QED BY <3>1 DEF SM!Next
  <2> QED BY <1>5, <2>2, <2>3 DEF CommitSubmission
<1>6. CASE Lose(r)
  BY <1>6, UnansweredUnseen DEF Lose, jobVars, Phase
<1> QED BY <1>1, <1>2, <1>3, <1>4, <1>5, <1>6

LEMMA JobImplements ==
  ASSUME GInv, GInv', NEW x \in Worker,
         \/ \E r \in Request : Deliver(x, r)
         \/ StartJob(x) \/ StartFails(x) \/ Parse(x) \/ ParseFails(x) \/ Persist(x)
         \/ ProcessRead(x) \/ ProcessCommit(x) \/ ProcessFails(x)
         \/ Finish(x) \/ FinishFails(x) \/ RunDies(x)
  PROVE  [SM!Next]_(SM!view)
<1>1. CASE StartFails(x) \/ ParseFails(x) \/ ProcessFails(x) \/ FinishFails(x)
  BY <1>1, TerminalizeShows DEF StartFails, ParseFails, ProcessFails, FinishFails, Step
<1>2. CASE StartJob(x)
  <2>1. run[x].of \in accepted /\ UNCHANGED <<client, accepted, observed, claimed>>
    BY <1>2 DEF StartJob, Step, apiVars, GInv, DInv, Backed
  <2>2. CASE update_job(x, "running")
    BY <2>1, <2>2, RowShows DEF update_job
  <2>3. CASE UNCHANGED ledger
    BY <2>1, <2>3, Unseen
  <2> QED BY <1>2, <2>2, <2>3 DEF StartJob
<1>3. CASE Finish(x)
  <2>1. run[x].of \in accepted /\ run[x].of \in claimed
    BY <1>3 DEF Finish, Step, GInv, DInv, Backed, Work, Past
  <2> QED BY <1>3, <2>1, RowShows DEF Finish, update_job, apiVars
<1>4. CASE (\E r \in Request : Deliver(x, r)) \/ Parse(x) \/ ProcessRead(x) \/ RunDies(x)
  <2>1. UNCHANGED <<client, accepted, ledger, observed, claimed>>
    BY <1>4 DEF Deliver, Parse, ProcessRead, RunDies, apiVars
  <2> QED BY <2>1, Unseen
<1> QED BY <1>1, <1>2, <1>3, <1>4, PersistObserves, CommitClaims

\* The clients' view of the whole machinery is the abstract promise: one accepted request
\* per key that every answer names for good, observations and then claims once each, and a
\* row that reads "succeeded" only after that, for any number of requests, dispatchers,
\* redeliveries and faults.
THEOREM ClientView == Spec => ImplementsSubmission
<1>1. Init => SM!Init
  BY DEF Init, SM!Init, Told, Deck, At
<1>2. GInv /\ GInv' /\ [Next]_vars => [SM!Next]_(SM!view)
  <2>1. SUFFICES ASSUME GInv, GInv', [Next]_vars PROVE [SM!Next]_(SM!view)
    OBVIOUS
  <2>2. CASE \E r \in Request : \/ Arrive(r) \/ Quarantine(r) \/ LookUp(r) \/ InsertPerson(r)
                                \/ CommitSubmission(r) \/ Lose(r)
    BY <2>1, <2>2, ApiImplements
  <2>3. CASE \/ \E r \in Request : FallDue(r)
             \/ \E d \in Dispatcher :
                  \/ DispatchRead(d) \/ DispatchCommit(d) \/ DispatchDies(d)
                  \/ \E r \in Request : DispatchSend(d, r) \/ DispatchFails(d, r)
    <3>1. UNCHANGED <<client, accepted, ledger, observed, claimed>>
      BY <2>3 DEF FallDue, DispatchRead, DispatchCommit, DispatchDies, DispatchSend,
         DispatchFails, apiVars, jobVars
    <3> QED BY <3>1, Unseen
  <2>4. CASE \E x \in Worker :
               \/ \E r \in Request : Deliver(x, r)
               \/ StartJob(x) \/ StartFails(x) \/ Parse(x) \/ ParseFails(x) \/ Persist(x)
               \/ ProcessRead(x) \/ ProcessCommit(x) \/ ProcessFails(x)
               \/ Finish(x) \/ FinishFails(x) \/ RunDies(x)
    BY <2>1, <2>4, JobImplements
  <2>5. CASE UNCHANGED vars
    BY <2>5, Unseen DEF vars, apiVars, jobVars
  <2> QED BY <2>1, <2>2, <2>3, <2>4, <2>5 DEF Next
<1> QED BY <1>1, <1>2, GroundedAlways, PTL DEF Spec, ImplementsSubmission, SM!Spec
=============================================================================
