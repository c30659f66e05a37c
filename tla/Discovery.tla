------------------------------ MODULE Discovery ------------------------------
(***************************************************************************)
(* Hourly discovery over the queue of CollectQueue.  auto_discovery_job    *)
(* (backend/app/collectors/jobs.py) keeps one ledger row for each query    *)
(* and hour, a slot, and queues its task.  When Arq runs it, discover_job  *)
(* reserves a page of the query in Redis, starts the ledger row, asks the  *)
(* provider, persists what it finds, asks for deep collections and         *)
(* commits; a failure gives the page back (queue.py).                      *)
(*                                                                         *)
(* All slots are one query in different hours, so they share one tracker.  *)
(***************************************************************************)
EXTENDS CollectQueue

CONSTANTS
  Slot,      \* the tasks of auto_discovery_job: one query in one hour
  Cron,      \* auto_discovery_job runs that may overlap
  Runner,    \* executions of discover_job at once
  Deep,      \* Deep[x]: the deep collections slot x asks for
  MaxPage    \* _MAX_DISCOVERY_PAGE

ASSUME DiscoveryAssumption ==
  /\ Slot \subseteq Task /\ Tavily \cap Slot = {}
  /\ Deep \in [Slot -> SUBSET (Task \ Slot)]
  /\ MaxPage \in Nat \ {0}

VARIABLES
  ledger,    \* ledger[x]: JobRun of a slot
  cron,      \* cron[c]: an auto_discovery_job run
  tracker,   \* the page last reserved, 0 if none
  exec,      \* exec[e]: an execution
  asked,     \* asked[x]: deep collections the executions of x have put on the queue (history)
  pages      \* [done, lost : pages, lapped] since the tracker was first used: processed
             \* by a committed run; given up with their run; whether it has wrapped (history)

queueVars == <<lanes, tavily, disp, requests, apiVars>>
runVars == <<tracker, exec, asked, pages>>
discoveryVars == <<ledger, cron, runVars>>
allVars == <<vars, discoveryVars>>

(***************************************************************************)
(* auto_discovery_job, at one query.                                       *)
(***************************************************************************)
IdleCron == [phase |-> "idle", slot |-> {}]
Status == {"none", "queued", "running", "succeeded", "failed", "queue_failed"}

\* The ledger row is missing, or says that queueing failed.
AutoRead(c, x) ==
  /\ cron[c] = IdleCron
  /\ requests[x] > 0
  /\ ledger[x] \in {"none", "queue_failed"}
  /\ cron' = [cron EXCEPT ![c] = [phase |-> ledger[x], slot |-> {x}]]
  /\ requests' = [requests EXCEPT ![x] = @ - 1]
  /\ UNCHANGED <<lanes, tavily, arq, disp, faults, apiVars, ledger, runVars>>

\* Mutant: each tick makes a row of its own.
AutoCommit_own_row(c, x) ==
  /\ cron[c].slot = {x} /\ cron[c].phase \in {"none", "queue_failed"}
  /\ ledger' = [ledger EXCEPT ![x] = "queued"]
  /\ cron' = [cron EXCEPT ![c].phase = "queued"]
  /\ UNCHANGED <<queueVars, arq, faults, runVars>>

\* Commit of the row.  The insert of a row another run has inserted meanwhile
\* collides and the run goes on to its next query.
AutoCommit(c, x) ==
  /\ cron[c].slot = {x} /\ cron[c].phase \in {"none", "queue_failed"}
  /\ IF cron[c].phase = "none" /\ ledger[x] # "none"
       THEN cron' = [cron EXCEPT ![c] = IdleCron] /\ UNCHANGED ledger
       ELSE /\ ledger' = [ledger EXCEPT ![x] = "queued"]
            /\ cron' = [cron EXCEPT ![c].phase = "queued"]
  /\ UNCHANGED <<queueVars, arq, faults, runVars>>

AutoEnqueue(c, x) ==
  /\ cron[c] = [phase |-> "queued", slot |-> {x}]
  /\ \E p \in Priority[x] : lanes' = Zadd(lanes, x, p)
  /\ cron' = [cron EXCEPT ![c] = IdleCron]
  /\ UNCHANGED <<tavily, arq, disp, requests, faults, apiVars, ledger, runVars>>

\* queue_enqueue raises, before or after its effect.
AutoEnqueueFails(c, x) ==
  /\ cron[c] = [phase |-> "queued", slot |-> {x}]
  /\ \/ UNCHANGED lanes
     \/ \E p \in Priority[x] : lanes' = Zadd(lanes, x, p)
  /\ cron' = [cron EXCEPT ![c].phase = "raised"]
  /\ Fault
  /\ UNCHANGED <<tavily, arq, disp, requests, apiVars, ledger, runVars>>

\* The row is marked, whatever it says by now.
AutoMark(c, x) ==
  /\ cron[c] = [phase |-> "raised", slot |-> {x}]
  /\ ledger' = [ledger EXCEPT ![x] = "queue_failed"]
  /\ cron' = [cron EXCEPT ![c] = IdleCron]
  /\ UNCHANGED <<queueVars, arq, faults, runVars>>

AutoDies(c) ==
  /\ cron[c] # IdleCron
  /\ cron' = [cron EXCEPT ![c] = IdleCron]
  /\ Fault
  /\ UNCHANGED <<queueVars, arq, ledger, runVars>>

(***************************************************************************)
(* Executions.                                                             *)
(***************************************************************************)

IdleExec == [slot |-> {}, phase |-> "idle", page |-> 0, todo |-> {}]
At(e, phase) == exec[e].phase = phase
Of(e) == CHOOSE x \in Slot : exec[e].slot = {x}
Goto(e, phase) == exec' = [exec EXCEPT ![e].phase = phase]
Ends(e) == exec' = [exec EXCEPT ![e] = IdleExec]

(***************************************************************************)
(* The page tracker.  WATCH/MULTI makes each change one step; three        *)
(* conflicts in a row, or Redis, make the reservation raise.               *)
(***************************************************************************)
\* get_discovery_page.
NextPage == IF tracker + 1 > MaxPage THEN 1 ELSE tracker + 1

Lost(p) == pages' = [pages EXCEPT !.lost = @ \cup {p}]

\* Mutant: the tracker is moved back whatever it says.
rollback_discovery_page_always(p) == tracker' = p - 1 /\ UNCHANGED pages

\* rollback_discovery_page: only the page reserved last goes back.
rollback_discovery_page(p) ==
  \/ tracker = p /\ tracker' = p - 1 /\ UNCHANGED pages
  \/ tracker # p /\ Lost(p) /\ UNCHANGED tracker

(***************************************************************************)
(* discover_job and _discover_job_impl.                                    *)
(***************************************************************************)
Take(e, x) ==
  /\ At(e, "idle") /\ arq[x] > 0
  /\ arq' = [arq EXCEPT ![x] = @ - 1]
  /\ exec' = [exec EXCEPT ![e] = [IdleExec EXCEPT !.slot = {x}, !.phase = "reserve"]]
  /\ UNCHANGED <<queueVars, cron, ledger, faults, tracker, asked, pages>>

Reserve(e) ==
  /\ At(e, "reserve")
  /\ tracker' = NextPage
  /\ pages' = [pages EXCEPT !.lapped = @ \/ NextPage <= tracker]
  /\ exec' = [exec EXCEPT ![e].page = NextPage, ![e].phase = "start"]
  /\ UNCHANGED <<queueVars, cron, arq, ledger, faults, asked>>

\* The reservation raises: the wrapper finds none and leaves the ledger row alone.
ReserveFails(e) ==
  /\ At(e, "reserve")
  /\ Fault /\ Ends(e)
  /\ UNCHANGED <<queueVars, cron, arq, ledger, tracker, asked, pages>>

\* start_job, committed.
Start(e) ==
  /\ At(e, "start")
  /\ IF ledger[Of(e)] = "succeeded"
       THEN Goto(e, "duplicate") /\ UNCHANGED ledger
       ELSE /\ Goto(e, "provider")
            /\ ledger' = [ledger EXCEPT ![Of(e)] = "running"]
  /\ UNCHANGED <<queueVars, cron, arq, faults, tracker, asked, pages>>

\* Of a run that has succeeded, only the page goes back.
Duplicate(e) ==
  /\ At(e, "duplicate")
  /\ rollback_discovery_page(exec[e].page) /\ Ends(e)
  /\ UNCHANGED <<queueVars, cron, arq, ledger, faults, asked>>

\* connector.discover, and what it returned, are all right: seeds are persisted in a
\* session that marks the row running.  Those above the threshold ...
Provide(e) ==
  /\ At(e, "provider")
  /\ exec' = [exec EXCEPT ![e].phase = "seeds", ![e].todo = Deep[Of(e)]]
  /\ UNCHANGED <<queueVars, cron, arq, ledger, faults, tracker, asked, pages>>

\* ... are queued for deep collection at once, before the commit.
AskDeep(e, y) ==
  /\ At(e, "seeds") /\ y \in exec[e].todo
  /\ \E p \in Priority[y] : lanes' = Zadd(lanes, y, p)
  /\ exec' = [exec EXCEPT ![e].todo = @ \ {y}]
  /\ asked' = [asked EXCEPT ![Of(e)] = @ \cup {y}]
  /\ UNCHANGED <<tavily, arq, disp, requests, faults, apiVars, ledger, cron, tracker, pages>>

\* Mutant: the row is finished first and the queue served afterwards.
CommitRun_first(e) ==
  /\ At(e, "seeds")
  /\ ledger' = [ledger EXCEPT ![Of(e)] = "succeeded"]
  /\ pages' = [pages EXCEPT !.done = @ \cup {exec[e].page}]
  /\ IF exec[e].todo = {} THEN Ends(e) ELSE UNCHANGED exec
  /\ UNCHANGED <<queueVars, cron, arq, faults, tracker, asked>>

CommitRun(e) ==
  /\ At(e, "seeds") /\ exec[e].todo = {}
  /\ ledger' = [ledger EXCEPT ![Of(e)] = "succeeded"]
  /\ pages' = [pages EXCEPT !.done = @ \cup {exec[e].page}]
  /\ Ends(e)
  /\ UNCHANGED <<queueVars, cron, arq, faults, tracker, asked>>

\* The provider or the validation of its answer fails ("provider", "handled"), or the
\* ledger, the persistence or the queue does (the wrapper takes over).
Raises(e) ==
  /\ exec[e].phase \in {"start", "provider", "seeds"}
  /\ Fault /\ Goto(e, "rollback")
  /\ UNCHANGED <<queueVars, cron, arq, ledger, tracker, asked, pages>>

\* Mutant: only the failures of the provider return the page.
GiveBack_forgotten(e) ==
  /\ At(e, "rollback")
  /\ Goto(e, "failing")
  /\ UNCHANGED <<queueVars, cron, arq, ledger, faults, tracker, asked, pages>>

\* The page goes back, unless that raises too (which is only logged).
GiveBack(e) ==
  /\ At(e, "rollback")
  /\ \/ rollback_discovery_page(exec[e].page) /\ UNCHANGED faults
     \/ Fault /\ Lost(exec[e].page) /\ UNCHANGED tracker
  /\ Goto(e, "failing")
  /\ UNCHANGED <<queueVars, cron, arq, ledger, asked>>

\* Mutant: the wrapper gives the page back and leaves the row to the implementation.
Fail_forgotten(e) ==
  /\ At(e, "failing")
  /\ Ends(e)
  /\ UNCHANGED <<queueVars, cron, arq, ledger, faults, tracker, asked, pages>>

\* update_job "failed", in a session of its own (if that raises, which is only logged,
\* the row stays as it is: the outcome of ExecDies).
Fail(e) ==
  /\ At(e, "failing")
  /\ ledger' = [ledger EXCEPT ![Of(e)] = "failed"]
  /\ Ends(e)
  /\ UNCHANGED <<queueVars, cron, arq, faults, tracker, asked, pages>>

\* The worker dies, and Arq delivers the job again; or the job runs into its timeout and
\* is not.  Nobody returns the page.
ExecDies(e) ==
  /\ ~At(e, "idle")
  /\ Fault /\ Ends(e)
  /\ pages' = [pages EXCEPT !.lost = IF exec[e].page = 0 THEN @ ELSE @ \cup {exec[e].page}]
  /\ UNCHANGED arq \/ arq' = [arq EXCEPT ![Of(e)] = @ + 1]
  /\ UNCHANGED <<queueVars, cron, ledger, tracker, asked>>

-----------------------------------------------------------------------------
DiscoveryInit ==
  /\ Init
  /\ ledger = [x \in Slot |-> "none"]
  /\ cron = [c \in Cron |-> IdleCron]
  /\ tracker = 0
  /\ exec = [e \in Runner |-> IdleExec]
  /\ asked = [x \in Slot |-> {}]
  /\ pages = [done |-> {}, lost |-> {}, lapped |-> FALSE]

QueueStep ==
  \/ \E d \in Dispatcher : DispatchStep(d) \/ DispatchDies(d)
  \/ \E x \in Task \ Slot : RunJob(x)

DiscoveryNext ==
  \/ QueueStep /\ UNCHANGED discoveryVars
  \/ \E c \in Cron :
       \/ AutoDies(c)
       \/ \E x \in Slot : \/ AutoRead(c, x) \/ AutoCommit(c, x) \/ AutoEnqueue(c, x)
                         \/ AutoEnqueueFails(c, x) \/ AutoMark(c, x)
  \/ \E e \in Runner :
       \/ \E x \in Slot : Take(e, x)
       \/ \E y \in Task : AskDeep(e, y)
       \/ Reserve(e) \/ ReserveFails(e) \/ Start(e) \/ Duplicate(e) \/ Provide(e)
       \/ CommitRun(e) \/ Raises(e) \/ GiveBack(e) \/ Fail(e) \/ ExecDies(e)

DiscoverySpec == DiscoveryInit /\ [][DiscoveryNext]_allVars

(***************************************************************************)
(* Properties.                                                             *)
(***************************************************************************)
InFlight == {e \in Runner : exec[e].page # 0 /\ exec[e].phase # "failing"}

\* The tracker stays on a page that exists, executions on slots that were queued.
DiscoveryTypeOK ==
  /\ TypeOK
  /\ ledger \in [Slot -> Status]
  /\ cron \in [Cron -> [phase : {"idle", "none", "queue_failed", "queued", "raised"},
                        slot : {{}} \cup {{x} : x \in Slot}]]
  /\ tracker \in 0 .. MaxPage
  /\ \A e \in Runner : exec[e].page \in 0 .. MaxPage
                       /\ (At(e, "idle") \/ ledger[Of(e)] # "none")
  /\ asked \in [Slot -> SUBSET Task]

\* Concurrent runs and returned pages, in any order of failing: until the tracker wraps,
\* no page is out twice, and none that was processed is out again.
PagesDistinct ==
  ~pages.lapped =>
    /\ \A e, f \in InFlight : e # f => exec[e].page # exec[f].page
    /\ \A e \in InFlight : exec[e].page \notin pages.done
    /\ \A p \in pages.done : p <= tracker

\* "retries do not silently skip a failed page": a page the tracker has passed was
\* processed, is out, or could not go back (its worker died, Redis failed, or a later
\* page was reserved).
NoPageForgotten ==
  ~pages.lapped =>
    \A p \in 1 .. tracker : \/ p \in pages.done \cup pages.lost
                            \/ \E e \in InFlight : exec[e].page = p

\* A discovery that reads "succeeded" has asked for every deep collection it owes.
SucceededHasAsked ==
  \A x \in Slot : ledger[x] = "succeeded" => Deep[x] \subseteq asked[x]

\* Overlapping ticks of auto_discovery_job hand a query out once in its hour: as long
\* as nothing fails there is one copy of a slot's task between the ticks, the lanes,
\* the hands, Arq and the executions, and none when its row is terminal.
SlotHandedOutOnce ==
  faults = FaultBound =>
    \A x \in Slot :
      LET handing == {c \in Cron : cron[c] = [phase |-> "queued", slot |-> {x}]}
          waiting == {l \in Lane : lanes[l][x] # Out}
          running == {e \in Runner : exec[e].slot = {x}}
          copies == Cardinality(handing) + Cardinality(waiting) + arq[x]
                      + Cardinality(Holding(x)) + Cardinality(running)
      IN copies = IF ledger[x] \in {"queued", "running"} THEN 1 ELSE 0

\* An open row blocks its query for the hour: later ticks skip it.
Open(x) == ledger[x] \in {"queued", "running"}

\* Somebody is still to run slot x, or to mark its row.
Served(x) ==
  \/ \E c \in Cron : cron[c].slot = {x} /\ cron[c].phase \in {"queued", "raised"}
  \/ Waiting(x) \/ InHand(x) \/ arq[x] > 0
  \/ \E e \in Runner : exec[e].slot = {x} /\ ~At(e, "duplicate")

Stranded(x) == Open(x) /\ ~Served(x)

Killed ==
  \/ \E d \in Dispatcher : DispatchDies(d)
  \/ \E c \in Cron : AutoDies(c)
  \/ \E e \in Runner : ExecDies(e)

\* No hand-over that fails, no provider that fails, no collision of two ticks, no retry and
\* no run that finds the work done strands a row as queued or running: only the death of
\* the process that holds it does, and a page that cannot be reserved or a failure that
\* cannot be recorded, which look the same.
OpenSlotServed ==
  [][\A x \in Slot : Stranded(x)' => \/ Stranded(x) \/ Killed
                                    \/ \E e \in Runner : ReserveFails(e)]_allVars
=============================================================================
