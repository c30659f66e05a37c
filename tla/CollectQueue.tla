---------------------------- MODULE CollectQueue ----------------------------
(***************************************************************************)
(* The Redis priority queue between the producers of background work and   *)
(* Arq (backend/app/collectors/queue.py), and the dispatcher that empties  *)
(* it every minute (dispatcher_job).                                       *)
(*                                                                         *)
(* Every Redis command is atomic and nothing else is: several dispatchers  *)
(* run at once (the cron job is not unique), each over the tasks it has    *)
(* removed and the Tavily budget it read when it started.                  *)
(*                                                                         *)
(* Priorities are the code's multiplied by ten.                            *)
(***************************************************************************)
EXTENDS Integers, Sequences, FiniteSets

CONSTANTS
  Task,          \* task dictionaries
  Tavily,        \* those whose source is tavily_search
  Recorded,      \* those that carry the id of a JobRun row of their own
  Priority,      \* the priorities producers give to a task
  Dispatcher,    \* dispatcher_job runs that may overlap
  Concurrency,   \* settings.collection_concurrency
  TavilyBudget,  \* settings.tavily_monthly_budget
  Handler,       \* API requests that create job rows
  RequestBound,  \* requests made for a task: one if it is recorded, else a model bound
  FaultBound     \* model bound: deaths of runs and failed Redis calls

ASSUME CollectQueueAssumption ==
  /\ Tavily \subseteq Task /\ Recorded \subseteq Task
  /\ Priority \in [Task -> SUBSET (Nat \ {0})]
  /\ Concurrency \in Nat \ {0}
  /\ IsFiniteSet(Dispatcher) /\ Dispatcher # {}
  /\ TavilyBudget \in Nat /\ RequestBound \in [Task -> Nat] /\ FaultBound \in Nat

VARIABLES
  lanes,     \* lanes[l][x]: priority of x in the sorted set of lane l, or Out
  tavily,    \* vcbrain:budget:tavily
  arq,       \* arq[x]: jobs for x that Arq holds
  disp,      \* disp[d]: a dispatcher_job run
  rows,      \* rows[x]: the JobRun of x as far as the queue goes
  asking,    \* asking[h]: an API request between its first and its last commit
  requests,  \* requests[x]: requests for x producers may still make
  faults     \* faults that may still happen (model bound)

vars == <<lanes, tavily, arq, disp, rows, asking, requests, faults>>
apiVars == <<rows, asking>>

\* A death or a failed Redis call.
Fault == faults > 0 /\ faults' = faults - 1

(***************************************************************************)
(* Lanes.                                                                  *)
(***************************************************************************)
Out == 0
Lane == {"high", "normal", "low"}

\* _lane.
lane_of(priority) == IF priority >= 100 THEN "high"
                     ELSE IF priority >= 10 THEN "normal" ELSE "low"

\* enqueue: ZADD inserts the task or changes its score, in its own lane only.
Zadd(q, x, priority) == [q EXCEPT ![lane_of(priority)][x] = priority]

Members(l) == {x \in Task : lanes[l][x] # Out}

\* ZPOPMIN key k: the k members of highest priority, in that order.
Popped(l, k) ==
  {s \in UNION {[1 .. n -> Members(l)] : n \in 0 .. k} :
     /\ Len(s) = k \/ {s[i] : i \in DOMAIN s} = Members(l)
     /\ \A i, j \in DOMAIN s : i < j => s[i] # s[j] /\ lanes[l][s[i]] >= lanes[l][s[j]]
     /\ \A i \in DOMAIN s, x \in Members(l) \ {s[j] : j \in DOMAIN s} :
          lanes[l][s[i]] >= lanes[l][x]}

(***************************************************************************)
(* dispatcher_job.  It visits the lanes in turn, then works off its hand.  *)
(***************************************************************************)
Entry == [task : Task, priority : Nat]
IdleRun == [phase |-> "idle", hand |-> <<>>, left |-> 0, charged |-> FALSE]
Run == [phase : {"idle", "hand", "refund"} \cup Lane, hand : Seq(Entry),
        left : Int, charged : BOOLEAN]

\* The lane after l, or the work on the hand.
After == [high |-> "normal", normal |-> "low", low |-> "hand"]

\* get_tavily_budget_remaining.
DispatchBegin(d) ==
  /\ disp[d].phase = "idle"
  /\ disp' = [disp EXCEPT ![d] = [IdleRun EXCEPT !.phase = "high", !.left = tavily]]
  /\ UNCHANGED <<lanes, tavily, arq, requests, faults, apiVars>>

\* Mutant: the scores are returned as Redis keeps them, negative.
Pop_raw_score(d, l) ==
  LET room == Concurrency - Len(disp[d].hand)
  IN /\ disp[d].phase = l
     /\ \E s \in Popped(l, room) :
          LET taken == [i \in DOMAIN s |-> [task |-> s[i], priority |-> -lanes[l][s[i]]]]
          IN /\ lanes' = [lanes EXCEPT ![l] =
                   [x \in Task |-> IF x \in {s[i] : i \in DOMAIN s} THEN Out ELSE @[x]]]
             /\ disp' = [disp EXCEPT
                   ![d].hand = @ \o taken,
                   ![d].phase = IF Len(s) = room THEN "hand" ELSE After[l]]
     /\ UNCHANGED <<tavily, arq, requests, faults, apiVars>>

\* Mutant: the tasks are read with ZREVRANGE and stay in their lane.
Pop_peeked(d, l) ==
  LET room == Concurrency - Len(disp[d].hand)
  IN /\ disp[d].phase = l
     /\ \E s \in Popped(l, room) :
          disp' = [disp EXCEPT
             ![d].hand = @ \o [i \in DOMAIN s |-> [task |-> s[i], priority |-> lanes[l][s[i]]]],
             ![d].phase = IF Len(s) = room THEN "hand" ELSE After[l]]
     /\ UNCHANGED <<lanes, tavily, arq, requests, faults, apiVars>>

\* pop_top_with_priority, one lane: as many tasks as the run still has room for.
Pop(d, l) ==
  LET room == Concurrency - Len(disp[d].hand)
  IN /\ disp[d].phase = l
     /\ \E s \in Popped(l, room) :
          LET taken == [i \in DOMAIN s |-> [task |-> s[i], priority |-> lanes[l][s[i]]]]
          IN /\ lanes' = [lanes EXCEPT ![l] =
                   [x \in Task |-> IF x \in {s[i] : i \in DOMAIN s} THEN Out ELSE @[x]]]
             /\ disp' = [disp EXCEPT
                   ![d].hand = @ \o taken,
                   ![d].phase = IF Len(s) = room THEN "hand" ELSE After[l]]
     /\ UNCHANGED <<tavily, arq, requests, faults, apiVars>>

\* The task at hand.
Head1(d) == disp[d].hand[1]
AtHand(d) == disp[d].phase = "hand" /\ disp[d].hand # <<>>
Put(d) == [disp[d] EXCEPT !.phase = "hand", !.hand = Tail(@), !.charged = FALSE]

\* Mutant: the task goes back where it was.
Postpone_same_priority(d) ==
  LET x == Head1(d).task IN
  /\ AtHand(d) /\ x \in Tavily /\ ~disp[d].charged /\ disp[d].left <= 0
  /\ lanes' = Zadd(lanes, x, Head1(d).priority)
  /\ disp' = [disp EXCEPT ![d] = Put(d)]
  /\ UNCHANGED <<tavily, arq, requests, faults, apiVars>>

\* No Tavily budget: the task goes back with priority 0.1.
Postpone(d) ==
  LET x == Head1(d).task IN
  /\ AtHand(d) /\ x \in Tavily /\ ~disp[d].charged /\ disp[d].left <= 0
  /\ lanes' = Zadd(lanes, x, 1)
  /\ disp' = [disp EXCEPT ![d] = Put(d)]
  /\ UNCHANGED <<tavily, arq, requests, faults, apiVars>>

\* Mutant: the remaining budget is not looked at.
Charge_unchecked(d) ==
  /\ AtHand(d) /\ Head1(d).task \in Tavily /\ ~disp[d].charged
  /\ tavily' = tavily - 1
  /\ disp' = [disp EXCEPT ![d].left = @ - 1, ![d].charged = TRUE]
  /\ UNCHANGED <<lanes, arq, requests, faults, apiVars>>

\* decrement_tavily_budget.
Charge(d) ==
  /\ AtHand(d) /\ Head1(d).task \in Tavily /\ ~disp[d].charged /\ disp[d].left > 0
  /\ tavily' = tavily - 1
  /\ disp' = [disp EXCEPT ![d].left = @ - 1, ![d].charged = TRUE]
  /\ UNCHANGED <<lanes, arq, requests, faults, apiVars>>

Payable(d) == AtHand(d) /\ (Head1(d).task \in Tavily => disp[d].charged)

\* enqueue_arq_job.
Deliver(d) ==
  /\ Payable(d)
  /\ arq' = [arq EXCEPT ![Head1(d).task] = @ + 1]
  /\ disp' = [disp EXCEPT ![d] = Put(d)]
  /\ UNCHANGED <<lanes, tavily, requests, faults, apiVars>>

\* Mutant: the except branch only counts the failure.
DeliverFails_dropped(d) ==
  /\ Payable(d)
  /\ disp' = [disp EXCEPT ![d] =
                 [Put(d) EXCEPT !.phase = IF disp[d].charged THEN "refund" ELSE "hand"]]
  /\ Fault
  /\ UNCHANGED <<lanes, tavily, arq, requests, apiVars>>

\* It raises, before or after Redis has taken the job: the task goes back with its
\* priority, and a Tavily charge is to be refunded.
DeliverFails(d) ==
  LET x == Head1(d).task IN
  /\ Payable(d)
  /\ \/ UNCHANGED arq
     \/ arq' = [arq EXCEPT ![x] = @ + 1]
  /\ lanes' = Zadd(lanes, x, Head1(d).priority)
  /\ disp' = [disp EXCEPT ![d] =
                 [Put(d) EXCEPT !.phase = IF disp[d].charged THEN "refund" ELSE "hand"]]
  /\ Fault
  /\ UNCHANGED <<tavily, requests, apiVars>>

\* decrement_tavily_budget(amount=-1).
Refund(d) ==
  /\ disp[d].phase = "refund"
  /\ tavily' = tavily + 1
  /\ disp' = [disp EXCEPT ![d].phase = "hand", ![d].left = @ + 1]
  /\ UNCHANGED <<lanes, arq, requests, faults, apiVars>>

DispatchEnd(d) ==
  /\ disp[d].phase = "hand" /\ disp[d].hand = <<>>
  /\ disp' = [disp EXCEPT ![d] = IdleRun]
  /\ UNCHANGED <<lanes, tavily, arq, requests, faults, apiVars>>

\* The worker dies, or Redis fails again when the task is put back: what the run
\* holds is nowhere else.
DispatchDies(d) ==
  /\ disp[d].phase # "idle"
  /\ disp' = [disp EXCEPT ![d] = IdleRun]
  /\ Fault
  /\ UNCHANGED <<lanes, tavily, arq, requests, apiVars>>

DispatchStep(d) ==
  \/ DispatchBegin(d) \/ (\E l \in Lane : Pop(d, l)) \/ Postpone(d) \/ Charge(d) \/ Deliver(d)
  \/ DeliverFails(d) \/ Refund(d) \/ DispatchEnd(d)

(***************************************************************************)
(* Producers.                                                              *)
(***************************************************************************)
\* queue_enqueue by signals and the pipeline worker, which keep no row.
Enqueue(x) ==
  /\ x \notin Recorded /\ requests[x] > 0
  /\ \E p \in Priority[x] : lanes' = Zadd(lanes, x, p)
  /\ requests' = [requests EXCEPT ![x] = @ - 1]
  /\ UNCHANGED <<tavily, arq, disp, faults, apiVars>>

\* The API: a handler commits the rows of one task or of a batch, then enqueues task by
\* task; the tasks that Redis did not take are marked failed in one last commit.
Quiet == [todo |-> {}, refused |-> {}]

Ask(h, B) ==
  /\ asking[h] = Quiet /\ B # {} /\ \A x \in B : requests[x] > 0
  /\ rows' = [x \in Task |-> IF x \in B THEN "queued" ELSE rows[x]]
  /\ asking' = [asking EXCEPT ![h].todo = B]
  /\ requests' = [x \in Task |-> IF x \in B THEN requests[x] - 1 ELSE requests[x]]
  /\ UNCHANGED <<lanes, tavily, arq, disp, faults>>

AskEnqueue(h) ==
  /\ \E x \in asking[h].todo : \E p \in Priority[x] :
       /\ lanes' = Zadd(lanes, x, p)
       /\ asking' = [asking EXCEPT ![h].todo = @ \ {x}]
  /\ UNCHANGED <<tavily, arq, disp, requests, faults, rows>>

\* ZADD raises, before or after Redis has taken the task.
AskFails(h) ==
  /\ \E x \in asking[h].todo :
       /\ asking' = [asking EXCEPT ![h].todo = @ \ {x}, ![h].refused = @ \cup {x}]
       /\ \/ UNCHANGED lanes
          \/ \E p \in Priority[x] : lanes' = Zadd(lanes, x, p)
  /\ Fault
  /\ UNCHANGED <<tavily, arq, disp, requests, rows>>

AskEnd(h) ==
  /\ asking[h].todo = {} /\ asking[h].refused # {}
  /\ rows' = [x \in Task |-> IF x \in asking[h].refused THEN "failed" ELSE rows[x]]
  /\ asking' = [asking EXCEPT ![h] = Quiet]
  /\ UNCHANGED <<lanes, tavily, arq, disp, requests, faults>>

\* The API process dies: what it had not enqueued stays queued in the ledger only.
AskDies(h) ==
  /\ asking[h] # Quiet
  /\ asking' = [asking EXCEPT ![h] = Quiet]
  /\ Fault
  /\ UNCHANGED <<lanes, tavily, arq, disp, requests, rows>>

(***************************************************************************)
(* Arq runs a job; one whose worker died it delivers again, which changes  *)
(* nothing here.                                                           *)
(***************************************************************************)
RunJob(x) ==
  /\ arq[x] > 0
  /\ arq' = [arq EXCEPT ![x] = @ - 1]
  /\ rows' = [rows EXCEPT ![x] = IF @ = "none" THEN @ ELSE "started"]
  /\ UNCHANGED <<lanes, tavily, disp, asking, requests, faults>>

-----------------------------------------------------------------------------
Init ==
  /\ lanes = [l \in Lane |-> [x \in Task |-> Out]]
  /\ tavily = TavilyBudget
  /\ arq = [x \in Task |-> 0]
  /\ disp = [d \in Dispatcher |-> IdleRun]
  /\ rows = [x \in Task |-> "none"]
  /\ asking = [h \in Handler |-> Quiet]
  /\ requests = RequestBound
  /\ faults = FaultBound

Next ==
  \/ \E d \in Dispatcher : DispatchStep(d) \/ DispatchDies(d)
  \/ \E x \in Task : Enqueue(x) \/ RunJob(x)
  \/ \E h \in Handler :
       \/ \E B \in SUBSET Recorded : Ask(h, B)
       \/ AskEnqueue(h) \/ AskFails(h) \/ AskEnd(h) \/ AskDies(h)

Spec == Init /\ [][Next]_vars

\* Cron starts a dispatcher every minute and faults come to an end.  Nothing is assumed
\* of producers and jobs.
FairSpec == Spec /\ \A d \in Dispatcher : WF_vars(DispatchStep(d))

(***************************************************************************)
(* Properties.                                                             *)
(***************************************************************************)
Waiting(x) == \E l \in Lane : lanes[l][x] # Out
Holding(x) == {d \in Dispatcher : \E i \in DOMAIN disp[d].hand : disp[d].hand[i].task = x}
InHand(x)  == Holding(x) # {}
Asked(x)   == \E h \in Handler : x \in asking[h].todo \cup asking[h].refused

\* Lanes and hands stay well formed under overlapping dispatchers.
TypeOK ==
  /\ lanes \in [Lane -> [Task -> Nat]]
  /\ tavily \in Int
  /\ arq \in [Task -> Nat]
  /\ disp \in [Dispatcher -> Run]
  /\ rows \in [Task -> {"none", "queued", "failed", "started"}]
  /\ asking \in [Handler -> [todo : SUBSET Recorded, refused : SUBSET Recorded]]
  /\ requests \in [Task -> Nat] /\ faults \in Nat

\* The Tavily budget a dispatcher looks at is the one it read when it started: the
\* counter falls below zero, by one full batch of every other dispatcher at most.
OverspendBounded == tavily >= -(Concurrency * (Cardinality(Dispatcher) - 1))

\* A task never falls out of the system between the handler that created its row, the
\* lanes, a dispatcher's hand and Arq: not when a hand-over fails, not when another task
\* of its batch is refused, not when the budget is spent, not when it is enqueued again
\* meanwhile.  A refused task ends with its row failed; only the death of the process
\* that holds a task loses it.
NoTaskVanishes ==
  [][\A x \in Task :
       Waiting(x) \/ InHand(x) \/ Asked(x) =>
         \/ Waiting(x)' \/ InHand(x)' \/ Asked(x)' \/ arq'[x] > arq[x]
         \/ rows'[x] = "failed"
         \/ \E d \in Dispatcher : DispatchDies(d)
         \/ \E h \in Handler : AskDies(h)]_vars

\* The copies of x in the system: entries in lanes and hands, jobs with Arq, and requests
\* the API has committed and not yet enqueued.
InLanes(x) == {l \in Lane : lanes[l][x] # Out}
Held(x) == {p \in Dispatcher \X (1 .. Concurrency) :
              p[2] \in DOMAIN disp[p[1]].hand /\ disp[p[1]].hand[p[2]].task = x}
Askers(x) == {h \in Handler : x \in asking[h].todo}
CopiesOf(x) ==
  Cardinality(InLanes(x)) + Cardinality(Held(x)) + Cardinality(Askers(x)) + arq[x]

\* A request for x that makes a copy of it: it gives x a place in a lane where x does not
\* wait, or a handler commits it.
Requested(x) ==
  \/ requests'[x] < requests[x] /\ \E l \in Lane : lanes[l][x] = Out /\ lanes'[l][x] # Out
  \/ \E h \in Handler : x \in asking'[h].todo \ asking[h].todo

\* A hand-over of x that raised after Redis had taken the job.
TakenLate(x) == faults' < faults /\ arq'[x] > arq[x]

\* A task is not multiplied by pops, postponements, refunds, refused hand-overs and
\* overlapping dispatchers, and a request for a task that waits in the lane of its priority
\* only changes its score: a copy is made, one at a time, by a request that finds no entry in
\* that lane and by a hand-over that raised too late.  An entry in another lane does not
\* count for enqueue: a task asked for at two priorities may wait twice.
NoTaskMultiplied ==
  [][\A x \in Task :
       /\ CopiesOf(x)' <= CopiesOf(x) + 1
       /\ CopiesOf(x)' > CopiesOf(x) => Requested(x) \/ TakenLate(x)]_vars

\* "Still process non-Tavily tasks": without any Tavily budget, postponed Tavily
\* tasks circulate for ever and must not keep another task in its lane, once the
\* producers are quiet.
OthersServed ==
  \A x \in Task \ Tavily : Waiting(x) ~> ~Waiting(x) /\ ~InHand(x)
=============================================================================
