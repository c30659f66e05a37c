--------------------------- MODULE InboundDelivery ---------------------------
(***************************************************************************)
(* How a pitch reaches processing: submissions with an idempotency key     *)
(* (backend/app/api/routes/inbound.py), the transactional outbox           *)
(* (outbox.py), Arq's redelivery and the parsing job with its ledger row   *)
(* (agents/inbound_job.py, job_ledger.py).                                 *)
(*                                                                         *)
(* What one submission creates (snapshot, opportunity, touch, submission,  *)
(* ledger row, event) is named by the request that created it.             *)
(***************************************************************************)
EXTENDS Integers, FiniteSets

CONSTANTS
  Request,       \* POST /inbound/pitch, with all retries of the clients
  KeyOf,         \* Idempotency-Key of a request
  EmailOf,       \* founder_email of a request
  Dispatcher,    \* dispatch_outbox_job runs that may overlap
  Worker,        \* executions of process_inbound_pitch_job at once
  FaultBound     \* model bound: failed hand-overs, crashes, timeouts, lost requests

Nobody == "nobody"

ASSUME DeliveryAssumption == FaultBound \in Nat /\ Nobody \notin Request

VARIABLES
  client,     \* client[r]: how far the handler of r is, and what it answers
  persons,    \* emails that have a Person row
  accepted,   \* requests whose submission has committed
  event,      \* event[r]: [status, due, sent] of the outbox event; sent: jobs handed to
              \* Arq for it (history)
  dispatch,   \* dispatch[d]: the events d has locked, with what became of each
  arq,        \* arq[r]: deliveries Arq holds
  ledger,     \* ledger[r]: status of the JobRun of r
  run,        \* run[x]: an execution
  observed,   \* observed[r]: copies of the deck's observations
  claimed,    \* submissions whose observations a committed processing run has read
  killed,     \* submissions that lost an execution that was not redelivered (history)
  faults      \* faults still to come (model bound)

apiVars == <<client, persons>>
jobVars == <<run, observed, claimed, killed>>
vars == <<apiVars, accepted, event, dispatch, arq, ledger, jobVars, faults>>

Rival(r) == {q \in accepted : KeyOf[q] = KeyOf[r]}
Fault == faults > 0 /\ faults' = faults - 1

(***************************************************************************)
(* submit_pitch.                                                           *)
(***************************************************************************)
At(r, phase) == client[r].phase = phase
Answer(r, q) == client' = [client EXCEPT ![r] = [phase |-> "answered", names |-> q]]
Goto(r, phase) == client' = [client EXCEPT ![r].phase = phase]

\* A known key is answered with what the first request created.
Arrive(r) ==
  /\ At(r, "new")
  /\ IF Rival(r) # {} THEN \E q \in Rival(r) : Answer(r, q) ELSE Goto(r, "checked")
  /\ UNCHANGED <<persons, accepted, event, dispatch, arq, ledger, jobVars, faults>>

\* quarantine_pitch_upload refuses the file.
Quarantine(r) ==
  /\ At(r, "checked")
  /\ Goto(r, "rejected")
  /\ UNCHANGED <<persons, accepted, event, dispatch, arq, ledger, jobVars, faults>>

\* The file is stored; is the founder known?
LookUp(r) ==
  /\ At(r, "checked")
  /\ Goto(r, IF EmailOf[r] \in persons THEN "inserting" ELSE "creating")
  /\ UNCHANGED <<persons, accepted, event, dispatch, arq, ledger, jobVars, faults>>

\* The flush of a new founder waits for another transaction that inserts the same
\* stable_id, and raises if that one committed: no handler catches it here.
InsertPerson(r) ==
  /\ At(r, "creating")
  /\ \A q \in Request \ {r} : At(q, "founder") => EmailOf[q] # EmailOf[r]
  /\ Goto(r, IF EmailOf[r] \in persons THEN "failed" ELSE "founder")
  /\ UNCHANGED <<persons, accepted, event, dispatch, arq, ledger, jobVars, faults>>

\* What the commit of r leaves.
Accept(r) ==
  /\ Answer(r, r)
  /\ persons' = persons \cup {EmailOf[r]}
  /\ accepted' = accepted \cup {r}
  /\ event' = [event EXCEPT ![r] = [status |-> "pending", due |-> TRUE, sent |-> 0]]
  /\ ledger' = [ledger EXCEPT ![r] = "queued"]
  /\ UNCHANGED <<dispatch, arq, jobVars, faults>>

\* One commit for all rows.  If the key was taken meanwhile everything is rolled back,
\* the founder too, and the answer is read again.
CommitSubmission(r) ==
  /\ At(r, "inserting") \/ At(r, "founder")
  /\ \/ Rival(r) = {} /\ Accept(r)
     \/ /\ \E q \in Rival(r) : Answer(r, q)
        /\ UNCHANGED <<persons, accepted, event, dispatch, arq, ledger, jobVars, faults>>

\* The connection or the process is gone before the commit.
Lose(r) ==
  /\ client[r].phase \in {"checked", "creating", "inserting", "founder"}
  /\ Fault /\ Goto(r, "lost")
  /\ UNCHANGED <<persons, accepted, event, dispatch, arq, ledger, jobVars>>

(***************************************************************************)
(* dispatch_pending_outbox.                                                *)
(***************************************************************************)
IdleDispatch == [todo |-> {}, ok |-> {}, bad |-> {}]
Locked(d) == dispatch[d].todo \cup dispatch[d].ok \cup dispatch[d].bad

\* Mutant: the rows are not locked.
DispatchRead_unlocked(d) ==
  /\ dispatch[d] = IdleDispatch
  /\ LET free == {r \in accepted : event[r].status = "pending" /\ event[r].due}
     IN free # {} /\ dispatch' = [dispatch EXCEPT ![d].todo = free]
  /\ UNCHANGED <<apiVars, accepted, event, arq, ledger, jobVars, faults>>

\* SELECT ... FOR UPDATE SKIP LOCKED.
DispatchRead(d) ==
  /\ dispatch[d] = IdleDispatch
  /\ LET free == {r \in accepted : /\ event[r].status = "pending" /\ event[r].due
                                   /\ \A c \in Dispatcher : r \notin Locked(c)}
     IN free # {} /\ dispatch' = [dispatch EXCEPT ![d].todo = free]
  /\ UNCHANGED <<apiVars, accepted, event, arq, ledger, jobVars, faults>>

HandOver(r) ==
  /\ arq' = [arq EXCEPT ![r] = @ + 1]
  /\ event' = [event EXCEPT ![r].sent = @ + 1]

DispatchSend(d, r) ==
  /\ r \in dispatch[d].todo
  /\ HandOver(r)
  /\ dispatch' = [dispatch EXCEPT ![d].todo = @ \ {r}, ![d].ok = @ \cup {r}]
  /\ UNCHANGED <<apiVars, accepted, ledger, jobVars, faults>>

\* Mutant: a hand-over that raises counts as done.
DispatchFails_done(d, r) ==
  /\ r \in dispatch[d].todo
  /\ Fault
  /\ HandOver(r) \/ UNCHANGED <<arq, event>>
  /\ dispatch' = [dispatch EXCEPT ![d].todo = @ \ {r}, ![d].ok = @ \cup {r}]
  /\ UNCHANGED <<apiVars, accepted, ledger, jobVars>>

\* enqueue_job raises, with or without its effect.
DispatchFails(d, r) ==
  /\ r \in dispatch[d].todo
  /\ Fault
  /\ HandOver(r) \/ UNCHANGED <<arq, event>>
  /\ dispatch' = [dispatch EXCEPT ![d].todo = @ \ {r}, ![d].bad = @ \cup {r}]
  /\ UNCHANGED <<apiVars, accepted, ledger, jobVars>>

\* The commit: dispatched, or later again.
DispatchCommit(d) ==
  /\ dispatch[d] # IdleDispatch /\ dispatch[d].todo = {}
  /\ event' = [r \in Request |->
       IF r \in dispatch[d].ok THEN [event[r] EXCEPT !.status = "dispatched"]
       ELSE IF r \in dispatch[d].bad THEN [event[r] EXCEPT !.due = FALSE]
       ELSE event[r]]
  /\ dispatch' = [dispatch EXCEPT ![d] = IdleDispatch]
  /\ UNCHANGED <<apiVars, accepted, arq, ledger, jobVars, faults>>

\* The worker dies: the locks go, what was handed to Arq stays.
DispatchDies(d) ==
  /\ dispatch[d] # IdleDispatch
  /\ Fault
  /\ dispatch' = [dispatch EXCEPT ![d] = IdleDispatch]
  /\ UNCHANGED <<apiVars, accepted, event, arq, ledger, jobVars>>

\* Mutant: an event that failed stays put off.
FallDue_never(r) ==
  /\ event[r].status = "dispatched" /\ ~event[r].due
  /\ event' = [event EXCEPT ![r].due = TRUE]
  /\ UNCHANGED <<apiVars, accepted, dispatch, arq, ledger, jobVars, faults>>

\* The backoff is over.
FallDue(r) ==
  /\ event[r].status = "pending" /\ ~event[r].due
  /\ event' = [event EXCEPT ![r].due = TRUE]
  /\ UNCHANGED <<apiVars, accepted, dispatch, arq, ledger, jobVars, faults>>

(***************************************************************************)
(* process_inbound_pitch_job.                                              *)
(***************************************************************************)
IdleRun == [of |-> Nobody, phase |-> "idle", seen |-> "", read |-> {}]
Step(x, phase) == run[x].phase = phase
Move(x, phase) == run' = [run EXCEPT ![x].phase = phase]
Ends(x) == run' = [run EXCEPT ![x] = IdleRun]

\* update_job on the row of run x: unconditional.
update_job(x, status) == ledger' = [ledger EXCEPT ![run[x].of] = status]

\* terminalize, after which the job returns or raises; Arq does not retry either.
Terminalize(x) ==
  /\ update_job(x, "failed") /\ Ends(x)
  /\ UNCHANGED <<apiVars, accepted, event, dispatch, arq, observed, claimed, killed, faults>>

Deliver(x, r) ==
  /\ Step(x, "idle") /\ arq[r] > 0
  /\ arq' = [arq EXCEPT ![r] = @ - 1]
  /\ run' = [run EXCEPT ![x] = [of |-> r, phase |-> "starting", seen |-> ledger[r],
                                read |-> {}]]
  /\ UNCHANGED <<apiVars, accepted, event, dispatch, ledger, observed, claimed, killed,
                 faults>>

\* start_job: a run that succeeded is left alone, a failed one is opened again.  A value
\* the session already holds is not written.
StartJob(x) ==
  /\ Step(x, "starting")
  /\ IF run[x].seen = "succeeded"
       THEN Ends(x) /\ UNCHANGED ledger
       ELSE /\ Move(x, "parsing")
            /\ IF run[x].seen = "running" THEN UNCHANGED ledger
               ELSE update_job(x, "running")
  /\ UNCHANGED <<apiVars, accepted, event, dispatch, arq, observed, claimed, killed, faults>>

\* The ledger row cannot be read or started: even one that reads "succeeded" is failed.
StartFails(x) ==
  /\ Step(x, "starting")
  /\ Terminalize(x)

\* The snapshot or its bytes cannot be read, or the PDF is refused.
ParseFails(x) ==
  /\ Step(x, "parsing")
  /\ Terminalize(x)

\* The text is there; which observations exist already?
Parse(x) ==
  /\ Step(x, "parsing")
  /\ run' = [run EXCEPT ![x].phase = "persisting",
                        ![x].read = IF observed[run[x].of] > 0 THEN {run[x].of} ELSE {}]
  /\ UNCHANGED <<apiVars, accepted, event, dispatch, arq, ledger, observed, claimed, killed,
                 faults>>

\* Mutant: no fingerprint, so what was read decides alone.
Persist_no_fingerprint(x) ==
  LET r == run[x].of IN
  /\ Step(x, "persisting")
  /\ Move(x, "processing")
  /\ observed' = [observed EXCEPT ![r] = IF r \in run[x].read THEN @ ELSE @ + 1]
  /\ UNCHANGED <<apiVars, accepted, event, dispatch, arq, ledger, claimed, killed, faults>>

\* The missing observations and "processing" in one commit.  If another delivery has
\* inserted them since, their fingerprints collide and the run fails.  The status is
\* "running" in the session, so the row's is not touched.
Persist(x) ==
  LET r == run[x].of IN
  /\ Step(x, "persisting")
  /\ IF r \notin run[x].read /\ observed[r] > 0
       THEN Terminalize(x)
       ELSE /\ Move(x, "processing")
            /\ observed' = [observed EXCEPT ![r] = 1]
            /\ UNCHANGED <<apiVars, accepted, event, dispatch, arq, ledger, claimed, killed,
                           faults>>

\* Mutant: the row is finished when processing is asked for.
ProcessRead_unawaited(x) ==
  /\ Step(x, "processing")
  /\ update_job(x, "succeeded") /\ Ends(x)
  /\ UNCHANGED <<apiVars, accepted, event, dispatch, arq, observed, claimed, killed, faults>>

\* process_candidate_job, in a session and with a ledger row of its own, reads all
\* observations about the founder, ...
ProcessRead(x) ==
  /\ Step(x, "processing")
  /\ run' = [run EXCEPT ![x].phase = "reconciling",
                        ![x].read = {r \in accepted : /\ EmailOf[r] = EmailOf[run[x].of]
                                                      /\ observed[r] > 0}]
  /\ UNCHANGED <<apiVars, accepted, event, dispatch, arq, ledger, observed, claimed, killed,
                 faults>>

\* ... commits its claims, ...
ProcessCommit(x) ==
  /\ Step(x, "reconciling")
  /\ claimed' = claimed \cup run[x].read
  /\ Move(x, "finishing")
  /\ UNCHANGED <<apiVars, accepted, event, dispatch, arq, ledger, observed, killed, faults>>

\* ... or fails.
ProcessFails(x) ==
  /\ Step(x, "processing") \/ Step(x, "reconciling")
  /\ Terminalize(x)

Finish(x) ==
  /\ Step(x, "finishing")
  /\ update_job(x, "succeeded") /\ Ends(x)
  /\ UNCHANGED <<apiVars, accepted, event, dispatch, arq, observed, claimed, killed, faults>>

\* The last commit raises.
FinishFails(x) ==
  /\ Step(x, "finishing")
  /\ Terminalize(x)

\* The worker dies and Arq delivers the job again; or the job runs into its timeout (or
\* its last try, or terminalize itself fails) and is not.
RunDies(x) ==
  LET r == run[x].of IN
  /\ ~Step(x, "idle")
  /\ Fault /\ Ends(x)
  /\ \/ arq' = [arq EXCEPT ![r] = @ + 1] /\ UNCHANGED killed
     \/ killed' = killed \cup {r} /\ UNCHANGED arq
  /\ UNCHANGED <<apiVars, accepted, event, dispatch, ledger, observed, claimed>>

-----------------------------------------------------------------------------
Init ==
  /\ client = [r \in Request |-> [phase |-> "new", names |-> Nobody]]
  /\ persons = {} /\ accepted = {}
  /\ event = [r \in Request |-> [status |-> "none", due |-> FALSE, sent |-> 0]]
  /\ dispatch = [d \in Dispatcher |-> IdleDispatch]
  /\ arq = [r \in Request |-> 0]
  /\ ledger = [r \in Request |-> "none"]
  /\ run = [x \in Worker |-> IdleRun]
  /\ observed = [r \in Request |-> 0]
  /\ claimed = {} /\ killed = {} /\ faults = FaultBound

Next ==
  \/ \E r \in Request :
       \/ Arrive(r) \/ Quarantine(r) \/ LookUp(r) \/ InsertPerson(r)
       \/ CommitSubmission(r) \/ Lose(r) \/ FallDue(r)
  \/ \E d \in Dispatcher :
       \/ DispatchRead(d) \/ DispatchCommit(d) \/ DispatchDies(d)
       \/ \E r \in Request : DispatchSend(d, r) \/ DispatchFails(d, r)
  \/ \E x \in Worker :
       \/ \E r \in Request : Deliver(x, r)
       \/ StartJob(x) \/ StartFails(x) \/ Parse(x) \/ ParseFails(x) \/ Persist(x)
       \/ ProcessRead(x) \/ ProcessCommit(x) \/ ProcessFails(x)
       \/ Finish(x) \/ FinishFails(x) \/ RunDies(x)

Spec == Init /\ [][Next]_vars

\* Cron starts a dispatcher every minute and one that runs goes on; time passes.
DispatchFairness ==
  /\ \A d \in Dispatcher :
       /\ WF_vars(DispatchRead(d)) /\ WF_vars(DispatchCommit(d))
       /\ \A r \in Request : WF_vars(DispatchSend(d, r))
  /\ \A r \in Request : WF_vars(FallDue(r))

FairSpec == Spec /\ DispatchFairness

(***************************************************************************)
(* Properties.                                                             *)
(***************************************************************************)
\* Rows, runs and histories stay well formed; the rows of a request exist together.
TypeOK ==
  /\ \A r \in Request :
       /\ client[r].phase \in {"new", "checked", "creating", "inserting", "founder",
                               "answered", "rejected", "failed", "lost"}
       /\ client[r].names \in Request \cup {Nobody}
       /\ event[r].status \in {"none", "pending", "dispatched"}
       /\ ledger[r] \in {"none", "queued", "running", "succeeded", "failed"}
       /\ r \in accepted <=> event[r].status # "none"
       /\ r \in accepted <=> ledger[r] # "none"
       /\ r \in accepted => EmailOf[r] \in persons
  /\ arq \in [Request -> Nat]
  /\ \A c, d \in Dispatcher : c # d => Locked(c) \cap Locked(d) = {}
  /\ \A x \in Worker : Step(x, "idle") \/ run[x].of \in accepted
  /\ claimed \subseteq accepted /\ killed \subseteq accepted

\* Retries of a submission, one after another or at once, get the ids of one
\* opportunity and one job, and these exist.
AnswersAgree ==
  /\ \A q, r \in accepted : KeyOf[q] = KeyOf[r] => q = r
  /\ \A r \in Request : At(r, "answered") =>
       client[r].names \in accepted /\ KeyOf[client[r].names] = KeyOf[r]

\* However often a deck is delivered, its observations exist once.
EvidenceOnce == \A r \in Request : observed[r] <= 1

\* A submission reads "succeeded" only when its observations are there and a committed
\* processing run has turned them into claims.
SucceededIsProcessed ==
  \A r \in Request : ledger[r] = "succeeded" => observed[r] = 1 /\ r \in claimed

\* No failed hand-over, collision or exception drops a pitch: an open ledger row is
\* still to be dispatched, delivered or being worked on, unless a run of it was killed.
OpenRowServed ==
  \A r \in accepted \ killed :
    ledger[r] \in {"queued", "running"} =>
      event[r].status = "pending" \/ arq[r] > 0 \/ \E x \in Worker : run[x].of = r

\* What a client has been told, and how far a deck has come as far as a client may know.
Told == [r \in Request |-> IF At(r, "answered") THEN client[r].names ELSE Nobody]
Deck == [r \in Request |-> IF r \notin accepted THEN "none"
                          ELSE IF r \in claimed THEN "claimed"
                          ELSE IF observed[r] = 0 THEN "accepted" ELSE "observed"]

\* All of it together looks to the clients like the promise of module Submission: an
\* answer is never taken back and names the one accepted request of its key, whose rows
\* came into being together; observations and claims follow in that order and stay; and
\* the row never reads "succeeded" before.  Redeliveries, lost hand-overs and races do
\* not show, except that the row may fall back.
SM == INSTANCE Submission
        WITH Pitch <- Request, told <- Told, deck <- Deck, shown <- ledger
ImplementsSubmission == SM!Spec

\* An accepted pitch is handed to Arq, whatever fails (finitely often) on the way.
HandedOver == \A r \in Request : r \in accepted ~> event[r].sent > 0

(***************************************************************************)
(* A statement of the repository that a run refutes.                       *)
(***************************************************************************)
\* "a concurrent idempotency race must be handled by the IntegrityError re-read below
\* rather than escaping here": a request that loses the race is answered.
RaceAnswered ==
  \A r \in Request : At(r, "failed") => Rival(r) = {}
=============================================================================
