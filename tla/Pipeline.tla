------------------------------ MODULE Pipeline ------------------------------
(***************************************************************************)
(* The worker that moves opportunities through the lifecycle               *)
(* (backend/app/agents/lifecycle_job.py, advance_pipeline_job) and         *)
(* everything that changes what it reads: the discovery and submission     *)
(* paths that create opportunities, the background jobs that produce the   *)
(* outputs each stage waits for, and the human decision endpoint.          *)
(*                                                                         *)
(* A tick of the worker is one PostgreSQL transaction over the rows it     *)
(* locked with SELECT ... FOR UPDATE SKIP LOCKED, while its effects on     *)
(* Redis (the LLM budget counter, the queued jobs) are immediate and       *)
(* survive a rollback.  Several ticks may overlap.                         *)
(*                                                                         *)
(* Opportunities are numbered: the inbound ones 1..NInbound in the order   *)
(* they are submitted, then the outbound ones in the order they are        *)
(* discovered.  This is the worker's ORDER BY decision_due_at NULLS LAST,  *)
(* created_at, id: an inbound deadline is its submission time plus a       *)
(* constant and an outbound opportunity has none.                          *)
(***************************************************************************)
EXTENDS LifecycleContract, Integers, FiniteSets

CONSTANTS
  NInbound, NOutbound,   \* how many opportunities of each kind can be created
  Person,                \* founders
  Founder,               \* the founder of each opportunity
  Tick,                  \* advance_pipeline_job runs that may overlap
  Scanner,               \* discover_job runs that may overlap
  AgentBudget,           \* settings.agent_monthly_budget
  BatchSize,             \* settings.pipeline_batch_size
  Requests(_),           \* model bound: whether people may queue job j by hand
  HistoryBound           \* model bound: audit rows a discovery scan may reach

Inbound  == 1 .. NInbound
Outbound == (NInbound + 1) .. (NInbound + NOutbound)
Opp      == 1 .. (NInbound + NOutbound)

ASSUME PipelineAssumption ==
  /\ NInbound \in Nat /\ NOutbound \in Nat
  /\ Founder \in [Opp -> Person]
  /\ IsFiniteSet(Tick) /\ Tick # {}
  /\ AgentBudget \in Nat
  /\ BatchSize \in Nat \ {0}
  /\ HistoryBound \in Nat

(***************************************************************************)
(* Constants of the code.                                                  *)
(***************************************************************************)
MAX_RETRIES == 3
INVESTIGATION_AGENT_CALLS == 5
FOUNDER_SCORE_AGENT_CALLS == 5
RESEARCH_AGENT_CALLS == 3

\* The gated stages: what asking for the missing output costs, and the next stage.
Gate == [ received  |-> [cost |-> 1, next |-> "triage"],
          triage    |-> [cost |-> FOUNDER_SCORE_AGENT_CALLS, next |-> "screening"],
          screening |-> [cost |-> RESEARCH_AGENT_CALLS, next |-> "diligence"],
          diligence |-> [cost |-> 1, next |-> "memo_ready"] ]
Gated == {"received", "triage", "screening", "diligence"}

VARIABLES
  \* PostgreSQL
  row,       \* row[o]: lifecycle_state, retry events, audit trail, SLA attainment
  signal,    \* signal[p]: the latest signal-v1 composite crosses the threshold
  fscore,    \* fscore[p]: latest founder-agent-v1 score against contact_threshold
  claims,    \* claims[o]: a current "supported" claim scoped to o exists
  axes,      \* axes[o]: an opportunity-axes-v1 snapshot of o exists
  memo,      \* memo[o]: best InvestmentMemo of o
  outreach,  \* outreach[o]: OutreachMessage of o
  recent,    \* recent[o]: stages whose "queued" event is inside the stuck interval
  fresh,     \* fresh[o]: updated_at is inside the stuck interval; kept for the
             \* outbound rows only, it is read only in "investigating"
  overdue,   \* overdue[o]: decision_due_at has passed
  \* Redis
  budget,    \* vcbrain:budget:agent
  jobs,      \* jobs requested and not finished, from lane to Arq completion
  \* running transactions
  tick,      \* tick[t]: an advance_pipeline_job run
  scan       \* scan[s]: a discover_job run

db    == <<row, signal, fscore, claims, axes, memo, outreach, recent, fresh, overdue>>
redis == <<budget, jobs>>
vars  == <<db, redis, tick, scan>>

(***************************************************************************)
(* Rows.                                                                   *)
(***************************************************************************)
NoRow == [state |-> Absent, retries |-> 0, trail |-> <<>>, sla |-> "none"]
Row == [state : STAGES \cup {Absent}, retries : Nat, trail : Seq(DecisionEvent),
        sla : {"none", "pending", "met", "breached"}]

\* transition_opportunity of a session that has read the stage `prior`: the new
\* stage and its audit event are written together.
transition_opportunity(r, prior, new, actor) ==
  [r EXCEPT !.state = new,
            !.trail = Append(@, [prior |-> prior, new |-> new, actor |-> actor])]

\* updated_at of the rows in S becomes now (TimestampMixin, onupdate).
Updated(S) == [o \in Opp |-> fresh[o] \/ o \in S \cap Outbound]

(***************************************************************************)
(* Background jobs, named by the queue's task dictionaries.                *)
(***************************************************************************)
process_candidate(p)  == <<"process_candidate", p>>
score_candidate(p)    == <<"score_candidate", p>>
contact_outbound(p)   == <<"contact_outbound", p>>
research_candidate(o) == <<"research_candidate", o>>
generate_memo(o)      == <<"generate_memo", o>>

Jobs == {process_candidate(p) : p \in Person} \cup {score_candidate(p) : p \in Person}
        \cup {contact_outbound(p) : p \in Person}
        \cup {research_candidate(o) : o \in Opp} \cup {generate_memo(o) : o \in Opp}

\* _queue_investigation_jobs.
InvestigationJobs(o) == { research_candidate(o), score_candidate(Founder[o]),
                          process_candidate(Founder[o]) }

\* The job that produces what a gated stage waits for.
GateJob(stage, o) ==
  CASE stage = "received"  -> process_candidate(Founder[o])
    [] stage = "triage"    -> score_candidate(Founder[o])
    [] stage = "screening" -> research_candidate(o)
    [] stage = "diligence" -> generate_memo(o)

\* Mutant: _has_memo without the status filter.
HasOutput_any_memo(stage, o) ==
  CASE stage = "received"  -> claims[o]
    [] stage = "triage"    -> fscore[Founder[o]] # "none"
    [] stage = "screening" -> axes[o]
    [] stage = "diligence" -> memo[o] # "none"

\* _has_scoped_claims, _has_founder_score, _has_opportunity_axes, _has_memo.
HasOutput(stage, o) ==
  CASE stage = "received"  -> claims[o]
    [] stage = "triage"    -> fscore[Founder[o]] # "none"
    [] stage = "screening" -> axes[o]
    [] stage = "diligence" -> memo[o] = "succeeded"

(***************************************************************************)
(* One run of advance_pipeline_job.  A tick holds the rows it locked and   *)
(* the stages it read; `plan` is what it has decided to pay for on the     *)
(* opportunity at hand, and mark[o] what its session holds for o: a new    *)
(* stage, or the audit row of a retry, a question or an outreach request.  *)
(***************************************************************************)
Plans == {"none", "ask", "investigate", "retry", "contact"}
Marks == {"none", "ask", "retry", "contact"} \cup STAGES
IdleTick == [ phase |-> "idle", mine |-> {}, todo |-> {}, plan |-> "none",
              seen |-> [o \in Opp |-> Absent], mark |-> [o \in Opp |-> "none"] ]
TickRun == [ phase : {"idle", "visit", "charge", "queue"}, mine : SUBSET Opp,
             todo : SUBSET Opp, plan : Plans,
             seen : [Opp -> STAGES \cup {Absent}], mark : [Opp -> Marks] ]

\* Rows under FOR UPDATE.
Locked == UNION {tick[t].mine : t \in Tick}

\* Mutant: the SELECT without FOR UPDATE SKIP LOCKED.
Selectable_unlocked == {o \in Opp : row[o].state \notin Terminal \cup {Absent}}

\* The SELECT: the first BatchSize unlocked rows that are not terminal.
Selectable == {o \in Opp : row[o].state \notin Terminal \cup {Absent}} \ Locked
Batch == {o \in Selectable : Cardinality({e \in Selectable : e < o}) < BatchSize}

TickBegin(t) ==
  /\ tick[t].phase = "idle"
  /\ Batch # {}
  /\ tick' = [tick EXCEPT ![t] = [IdleTick EXCEPT
                !.phase = "visit", !.mine = Batch, !.todo = Batch,
                !.seen = [o \in Opp |-> IF o \in Batch THEN row[o].state ELSE Absent]]]
  /\ UNCHANGED <<db, redis, scan>>

\* The opportunity the loop is at.
At(t, o) == o \in tick[t].todo /\ \A e \in tick[t].todo : o <= e

\* "investigating", no axes yet, and nothing happened for the stuck interval.
Stuck(o) == ~axes[o] /\ ~fresh[o]

\* Mutant: one retry too few before giving up.
AutoStage_early(o, stage) ==
  CASE stage = "discovered" /\ signal[Founder[o]] -> "interesting"
    [] stage = "investigating" /\ Stuck(o) /\ row[o].retries >= MAX_RETRIES - 1 -> "closed"
    [] stage \in Gated /\ HasOutput(stage, o) -> Gate[stage].next
    [] OTHER -> stage

\* The stage an opportunity moves to at this visit without spending anything.
AutoStage(o, stage) ==
  CASE stage = "discovered" /\ signal[Founder[o]] -> "interesting"
    [] stage = "investigating" /\ Stuck(o) /\ row[o].retries >= MAX_RETRIES -> "closed"
    [] stage \in Gated /\ HasOutput(stage, o) -> Gate[stage].next
    [] OTHER -> stage

\* What the visit wants to pay for, and its price.
PlanFor(o, stage) ==
  CASE stage = "interesting" /\ ~axes[o] -> "investigate"
    [] stage = "investigating" /\ Stuck(o) /\ row[o].retries < MAX_RETRIES -> "retry"
    [] stage = "investigating" /\ axes[o] /\ fscore[Founder[o]] = "above" -> "contact"
    [] stage \in Gated /\ ~HasOutput(stage, o) /\ ~recent[o] -> "ask"
    [] OTHER -> "none"

Cost(plan, stage) ==
  CASE plan \in {"investigate", "retry"} -> INVESTIGATION_AGENT_CALLS
    [] plan = "contact" -> 1
    [] plan = "ask"     -> Gate[stage].cost
    [] plan = "none"    -> 0

PlanJobs(plan, o, stage) ==
  CASE plan \in {"investigate", "retry"} -> InvestigationJobs(o)
    [] plan = "contact" -> {contact_outbound(Founder[o])}
    [] plan = "ask"     -> {GateJob(stage, o)}

PlanMark(plan) == IF plan = "investigate" THEN "investigating" ELSE plan

\* The loop moves on, leaving m in the session.
Visited(t, o, m) ==
  [tick[t] EXCEPT !.phase = "visit", !.plan = "none", !.todo = @ \ {o}, !.mark[o] = m]

\* A transition whose required output exists.
TickAdvance(t, o) ==
  LET stage == tick[t].seen[o] IN
  /\ tick[t].phase = "visit" /\ At(t, o)
  /\ AutoStage(o, stage) # stage
  /\ tick' = [tick EXCEPT ![t] = Visited(t, o, AutoStage(o, stage))]
  /\ UNCHANGED <<db, redis, scan>>

\* Mutant: the budget is not read before it is charged.
TickPlan_unchecked(t, o) ==
  LET stage == tick[t].seen[o] IN
  /\ tick[t].phase = "visit" /\ At(t, o)
  /\ AutoStage(o, stage) = stage /\ PlanFor(o, stage) # "none"
  /\ tick' = [tick EXCEPT ![t].phase = "charge", ![t].plan = PlanFor(o, stage)]
  /\ UNCHANGED <<db, redis, scan>>

\* GET of the budget counter: enough is left for the plan.
TickPlan(t, o) ==
  LET stage == tick[t].seen[o] IN
  /\ tick[t].phase = "visit" /\ At(t, o)
  /\ AutoStage(o, stage) = stage /\ PlanFor(o, stage) # "none"
  /\ budget >= Cost(PlanFor(o, stage), stage)
  /\ tick' = [tick EXCEPT ![t].phase = "charge", ![t].plan = PlanFor(o, stage)]
  /\ UNCHANGED <<db, redis, scan>>

\* `continue`: nothing to do yet, or not enough budget (needs attention).
TickPass(t, o) ==
  LET stage == tick[t].seen[o] IN
  /\ tick[t].phase = "visit" /\ At(t, o)
  /\ AutoStage(o, stage) = stage
  /\ PlanFor(o, stage) = "none" \/ budget < Cost(PlanFor(o, stage), stage)
  /\ tick' = [tick EXCEPT ![t] = Visited(t, o, "none")]
  /\ UNCHANGED <<db, redis, scan>>

\* DECRBY, at once visible to every other worker.
TickCharge(t, o) ==
  /\ tick[t].phase = "charge" /\ At(t, o)
  /\ budget' = budget - Cost(tick[t].plan, tick[t].seen[o])
  /\ tick' = [tick EXCEPT ![t].phase = "queue"]
  /\ UNCHANGED <<db, jobs, scan>>

\* ZADD of the jobs, and the audit row or transition added to the session.
TickQueue(t, o) ==
  /\ tick[t].phase = "queue" /\ At(t, o)
  /\ jobs' = jobs \cup PlanJobs(tick[t].plan, o, tick[t].seen[o])
  /\ tick' = [tick EXCEPT ![t] = Visited(t, o, PlanMark(tick[t].plan))]
  /\ UNCHANGED <<db, budget, scan>>

\* What the session of t writes for o: only what the visit changed.
Flushed(t, o) ==
  LET m == tick[t].mark[o] IN
  CASE m \in STAGES -> transition_opportunity(row[o], tick[t].seen[o], m, Worker)
    [] m = "retry"  -> [row[o] EXCEPT !.retries = @ + 1]
    [] OTHER        -> row[o]

\* session.commit() after the loop.
TickCommit(t) ==
  LET marked(M) == {o \in Opp : tick[t].mark[o] \in M} IN
  /\ tick[t].phase = "visit" /\ tick[t].todo = {}
  /\ row' = [o \in Opp |-> Flushed(t, o)]
  /\ fresh' = Updated(marked(STAGES \cup {"retry", "contact"}))
  /\ recent' = [o \in Opp |-> IF o \in marked(STAGES) THEN FALSE
                                ELSE recent[o] \/ o \in marked({"ask"})]
  /\ tick' = [tick EXCEPT ![t] = IdleTick]
  /\ UNCHANGED <<signal, fscore, claims, axes, memo, outreach, overdue, redis, scan>>

\* A crash, the 300 s timeout or an exception: the transaction rolls back.
TickAbort(t) ==
  /\ tick[t].phase # "idle"
  /\ tick' = [tick EXCEPT ![t] = IdleTick]
  /\ UNCHANGED <<db, redis, scan>>

TickStep(t) ==
  \/ TickBegin(t)
  \/ \E o \in Opp : \/ TickAdvance(t, o)
                    \/ TickPlan(t, o)
                    \/ TickPass(t, o)
                    \/ TickCharge(t, o)
                    \/ TickQueue(t, o)
  \/ TickCommit(t)

(***************************************************************************)
(* Creation: the submission endpoint, and discovery runs.                  *)
(***************************************************************************)
Exists(o) == row[o].state # Absent

\* submit_pitch: a received opportunity, whose deck reaches the processing job.
Submit(o) ==
  /\ o \in Inbound /\ ~Exists(o)
  /\ \A e \in Inbound : e < o => Exists(e)
  /\ row' = [row EXCEPT ![o] = [NoRow EXCEPT !.state = "received", !.sla = "pending"]]
  /\ jobs' = jobs \cup {process_candidate(Founder[o])}
  /\ UNCHANGED <<signal, fscore, claims, axes, memo, outreach, recent, fresh,
                 overdue, budget, tick, scan>>

NoScan == [opp |-> 0, seen |-> Absent]

\* _discover_job_impl reads the founder's latest opportunity (no row lock).
ScanRead(s, o) ==
  /\ scan[s] = NoScan
  /\ o \in Outbound
  /\ \A e \in Opp \ {o} : Founder[e] = Founder[o] /\ Exists(e) =>
        Exists(o) /\ e \in Outbound /\ e < o
  /\ scan' = [scan EXCEPT ![s] = [opp |-> o, seen |-> row[o].state]]
  /\ UNCHANGED <<db, redis, tick>>

\* The row a scan leaves: inserted, moved from the state it READ, or untouched.
ScanRow(o, seen, crosses) ==
  LET base == IF seen = Absent THEN [NoRow EXCEPT !.state = "discovered"]
                               ELSE row[o]
      from == IF seen = Absent THEN "discovered" ELSE seen
  IN IF crosses /\ from = "discovered"
       THEN transition_opportunity(base, from, "interesting", Worker)
       ELSE base

\* Flush and commit.  The UPDATE waits for the row lock of a running tick.
ScanWrite(s, o, crosses) ==
  LET new == ScanRow(o, scan[s].seen, crosses) IN
  /\ scan[s].opp = o
  /\ o \notin Locked
  /\ Len(row[o].trail) < HistoryBound
  /\ scan[s].seen = Absent =>
        ~Exists(o) /\ \A e \in Outbound : e < o => Exists(e)
  /\ row' = [row EXCEPT ![o] = new]
  /\ fresh' = IF new # row[o] THEN Updated({o}) ELSE fresh
  /\ signal' = [signal EXCEPT ![Founder[o]] = crosses]
  /\ scan' = [scan EXCEPT ![s] = NoScan]
  /\ UNCHANGED <<fscore, claims, axes, memo, outreach, recent, overdue, redis, tick>>

\* A later seed, the queue or the commit fails: the run rolls back.
ScanFail(s) ==
  /\ scan[s] # NoScan
  /\ scan' = [scan EXCEPT ![s] = NoScan]
  /\ UNCHANGED <<db, redis, tick>>

(***************************************************************************)
(* The outputs the stages wait for.                                        *)
(***************************************************************************)
\* A finished job leaves the queue unless the same request is still in it.
Served(j) == /\ j \in jobs
             /\ jobs' \in {jobs, jobs \ {j}}

\* recompute_signals_job and collect_job: a new signal-v1 snapshot, of a founder
\* with an opportunity that waits for one.
Recompute(p) ==
  /\ \E o \in Outbound : Founder[o] = p /\ row[o].state = "discovered"
  /\ signal' = [signal EXCEPT ![p] = ~@]
  /\ UNCHANGED <<row, fscore, claims, axes, memo, outreach, recent, fresh, overdue,
                 redis, tick, scan>>

\* process_candidate_job: reconciliation may make or supersede supported claims.
RunProcess(p) ==
  /\ Served(process_candidate(p))
  /\ claims' \in [Opp -> BOOLEAN]
  /\ \A o \in Opp : claims'[o] # claims[o] => Founder[o] = p /\ Exists(o)
  /\ UNCHANGED <<row, signal, fscore, axes, memo, outreach, recent, fresh, overdue,
                 budget, tick, scan>>

\* score_candidate_job: a new founder-agent-v1 snapshot.
RunScore(p) ==
  /\ Served(score_candidate(p))
  /\ \E s \in {"below", "above"} : fscore' = [fscore EXCEPT ![p] = s]
  /\ UNCHANGED <<row, signal, claims, axes, memo, outreach, recent, fresh, overdue,
                 budget, tick, scan>>

\* research_candidate_job: an opportunity-axes-v1 snapshot.
RunResearch(o) ==
  /\ Served(research_candidate(o)) /\ Exists(o)
  /\ axes' = [axes EXCEPT ![o] = TRUE]
  /\ UNCHANGED <<row, signal, fscore, claims, memo, outreach, recent, fresh, overdue,
                 budget, tick, scan>>

\* generate_memo_job, first commit: a pending memo from accepted claims.  Pinning
\* the thesis version updates the opportunity row, which waits for its lock.
MemoStart(o) ==
  /\ generate_memo(o) \in jobs /\ Exists(o) /\ o \notin Locked
  /\ claims[o]
  /\ memo[o] = "none"
  /\ memo' = [memo EXCEPT ![o] = "pending"]
  /\ fresh' \in {fresh, Updated({o})}
  /\ UNCHANGED <<row, signal, fscore, claims, axes, outreach, recent, overdue,
                 redis, tick, scan>>

\* Second commit: the memo succeeded, or is failed or degraded.
MemoFinish(o) ==
  /\ memo[o] = "pending"
  /\ Served(generate_memo(o))
  /\ \E outcome \in {"succeeded", "none"} : memo' = [memo EXCEPT ![o] = outcome]
  /\ UNCHANGED <<row, signal, fscore, claims, axes, outreach, recent, fresh, overdue,
                 budget, tick, scan>>

\* contact_outbound_job: one live message per founder and opportunity.
RunContact(p, o) ==
  /\ Served(contact_outbound(p))
  /\ o \in Outbound /\ Founder[o] = p /\ Exists(o)
  /\ \A e \in Outbound : e > o /\ Founder[e] = p => ~Exists(e)
  /\ IF outreach[o] = "live"
       THEN UNCHANGED outreach
       ELSE \E result \in {"live", "failed"} :
              outreach' = [outreach EXCEPT ![o] = result]
  /\ UNCHANGED <<row, signal, fscore, claims, axes, memo, recent, fresh, overdue,
                 budget, tick, scan>>

\* A job fails, is rejected or lost without an output.  A pending memo stays behind
\* in the table, where nothing reads it.
JobFail(j) ==
  /\ j \in jobs
  /\ jobs' = jobs \ {j}
  /\ memo' = [o \in Opp |-> IF j = generate_memo(o) /\ memo[o] = "pending"
                              THEN "none" ELSE memo[o]]
  /\ UNCHANGED <<row, signal, fscore, claims, axes, outreach, recent, fresh, overdue,
                 budget, tick, scan>>

(***************************************************************************)
(* People and time.                                                        *)
(***************************************************************************)
\* The API routes that queue the same jobs by hand, without spending budget.
RequestJob(j) ==
  /\ Requests(j)
  /\ j \notin jobs
  /\ \A o \in Opp : j \in {research_candidate(o), generate_memo(o)} => Exists(o)
  /\ \A p \in Person : j = contact_outbound(p) =>
        \E o \in Outbound : Founder[o] = p /\ Exists(o)
  /\ jobs' = jobs \cup {j}
  /\ UNCHANGED <<db, budget, tick, scan>>

\* Mutants: an attainment outside the vocabulary, and a clock never settled.
finalize_sla_missed(o) == IF row[o].sla = "none" THEN "none"
                          ELSE IF overdue[o] THEN "missed" ELSE "met"
finalize_sla_skipped(o) == row[o].sla

\* finalize_sla.
finalize_sla(o) == IF row[o].sla = "none" THEN "none"
                   ELSE IF overdue[o] THEN "breached" ELSE "met"

\* Mutant: the decision reads the opportunity without FOR UPDATE.
Decide_unlocked(o, action) ==
  LET new == decision_state_for_action[action] IN
  /\ Exists(o)
  /\ is_valid_transition(row[o].state, new) /\ row[o].state # new
  /\ memo[o] = "succeeded"
  /\ row' = [row EXCEPT ![o] = [transition_opportunity(@, @.state, new, Human)
                                  EXCEPT !.sla = finalize_sla(o)]]
  /\ fresh' = Updated({o})
  /\ UNCHANGED <<signal, fscore, claims, axes, memo, outreach, recent, overdue,
                 redis, tick, scan>>

\* record_candidate_decision.  Its FOR UPDATE waits for a running tick.
Decide(o, action) ==
  LET new == decision_state_for_action[action] IN
  /\ Exists(o) /\ o \notin Locked
  /\ is_valid_transition(row[o].state, new) /\ row[o].state # new
  /\ memo[o] = "succeeded"
  /\ row' = [row EXCEPT ![o] = [transition_opportunity(@, @.state, new, Human)
                                  EXCEPT !.sla = finalize_sla(o)]]
  /\ fresh' = Updated({o})
  /\ UNCHANGED <<signal, fscore, claims, axes, memo, outreach, recent, overdue,
                 redis, tick, scan>>

\* Mutant: _has_recent_pipeline_event without its created_at bound.
Elapse_never_recent(o) ==
  /\ fresh[o]
  /\ fresh' = [fresh EXCEPT ![o] = FALSE]
  /\ UNCHANGED <<row, signal, fscore, claims, axes, memo, outreach, recent, overdue,
                 redis, tick, scan>>

\* pipeline_stuck_after_minutes go by.
Elapse(o) ==
  /\ fresh[o] \/ recent[o]
  /\ fresh' = [fresh EXCEPT ![o] = FALSE]
  /\ recent' = [recent EXCEPT ![o] = FALSE]
  /\ UNCHANGED <<row, signal, fscore, claims, axes, memo, outreach, overdue,
                 redis, tick, scan>>

\* The 24 hours of the decision clock run out.
FallDue(o) ==
  /\ row[o].sla # "none" /\ ~overdue[o]
  /\ overdue' = [overdue EXCEPT ![o] = TRUE]
  /\ UNCHANGED <<row, signal, fscore, claims, axes, memo, outreach, recent, fresh,
                 redis, tick, scan>>

-----------------------------------------------------------------------------
Init ==
  /\ row = [o \in Opp |-> NoRow]
  /\ signal = [p \in Person |-> FALSE]
  /\ fscore = [p \in Person |-> "none"]
  /\ claims = [o \in Opp |-> FALSE]
  /\ axes = [o \in Opp |-> FALSE]
  /\ memo = [o \in Opp |-> "none"]
  /\ outreach = [o \in Opp |-> "none"]
  /\ recent = [o \in Opp |-> FALSE]
  /\ fresh = [o \in Opp |-> FALSE]
  /\ overdue = [o \in Opp |-> FALSE]
  /\ budget = AgentBudget
  /\ jobs = {}
  /\ tick = [t \in Tick |-> IdleTick]
  /\ scan = [s \in Scanner |-> NoScan]

JobStep ==
  \/ \E p \in Person : Recompute(p) \/ RunProcess(p) \/ RunScore(p)
  \/ \E o \in Opp : RunResearch(o) \/ MemoStart(o) \/ MemoFinish(o)
  \/ \E p \in Person, o \in Opp : RunContact(p, o)
  \/ \E j \in Jobs : JobFail(j)

Next ==
  \/ \E t \in Tick : TickStep(t) \/ TickAbort(t)
  \/ \E o \in Opp : Submit(o) \/ Elapse(o) \/ FallDue(o)
  \/ \E o \in Opp, a \in DecisionAction : Decide(o, a)
  \/ \E s \in Scanner, o \in Opp : ScanRead(s, o)
  \/ \E s \in Scanner, o \in Opp, b \in BOOLEAN : ScanWrite(s, o, b)
  \/ \E s \in Scanner : ScanFail(s)
  \/ \E j \in Jobs : RequestJob(j)
  \/ JobStep

Spec == Init /\ [][Next]_vars

\* Cron starts ticks again and again, and not every one of them is cut short: each
\* step of the loop that keeps being possible is taken in some run.  Time passes.
\* Nothing is assumed of jobs, scans, submissions or people.
TickFairness(t) ==
  /\ SF_vars(TickBegin(t))
  /\ SF_vars(TickCommit(t))
  /\ \A o \in Opp : /\ SF_vars(TickAdvance(t, o))
                    /\ SF_vars(TickPlan(t, o))
                    /\ SF_vars(TickPass(t, o))
                    /\ SF_vars(TickCharge(t, o))
                    /\ SF_vars(TickQueue(t, o))
FairSpec == /\ Spec
            /\ \A t \in Tick : TickFairness(t)
            /\ \A o \in Opp : WF_vars(Elapse(o))

(***************************************************************************)
(* Properties.                                                             *)
(***************************************************************************)
\* Every variable keeps its type: rows, ticks and scans stay well formed whatever
\* the interleaving of worker, jobs and people.
TypeOK ==
  /\ row \in [Opp -> Row]
  /\ signal \in [Person -> BOOLEAN]
  /\ fscore \in [Person -> {"none", "below", "above"}]
  /\ claims \in [Opp -> BOOLEAN] /\ axes \in [Opp -> BOOLEAN]
  /\ memo \in [Opp -> {"none", "pending", "succeeded"}]
  /\ outreach \in [Opp -> {"none", "failed", "live"}]
  /\ recent \in [Opp -> BOOLEAN] /\ fresh \in [Opp -> BOOLEAN]
  /\ overdue \in [Opp -> BOOLEAN]
  /\ budget \in Int
  /\ jobs \in SUBSET Jobs
  /\ tick \in [Tick -> TickRun]
  /\ scan \in [Scanner -> [opp : Outbound \cup {0}, seen : STAGES \cup {Absent}]]

\* The audit trail of every inbound opportunity is an unbroken path of the
\* lifecycle from "received" to its present state: no decision is overwritten by a
\* tick that had read the row before it, and no tick by another one.
IsPath(trail, from, to) ==
  /\ \A i \in DOMAIN trail :
       /\ trail[i].prior = IF i = 1 THEN from ELSE trail[i-1].new
       /\ trail[i].new \in TRANSITIONS[trail[i].prior]
  /\ to = IF trail = <<>> THEN from ELSE trail[Len(trail)].new
InboundAudit ==
  \A o \in Inbound : Exists(o) => IsPath(row[o].trail, "received", row[o].state)

\* No stage is entered without the outputs of the stages before it, although the
\* worker reads them in a transaction of its own: a Founder Score behind screening,
\* the axes behind diligence, a succeeded memo behind memo_ready and every decision.
EvidenceBehindStage ==
  \A o \in Opp :
    LET s == row[o].state IN
    /\ s \in {"screening", "diligence", "memo_ready"} \cup Decided
         => fscore[Founder[o]] # "none"
    /\ s \in {"diligence", "memo_ready"} \cup Decided => axes[o]
    /\ s \in {"memo_ready"} \cup Decided => memo[o] = "succeeded"

\* The worker gives up on an opportunity only after MAX_RETRIES recorded retries,
\* and never retries more often, also when ticks are rolled back in between.
TimeoutAfterRetries ==
  \A o \in Opp :
    /\ row[o].retries <= MAX_RETRIES
    /\ \A i \in DOMAIN row[o].trail :
         row[o].trail[i].new = "closed" /\ row[o].trail[i].actor = Worker
           => row[o].retries = MAX_RETRIES

\* The budget is read and decremented in two calls, so overlapping ticks can
\* overdraw it; but at most by one investigation for each tick beyond the first.
OverdraftBounded ==
  budget >= -(INVESTIGATION_AGENT_CALLS * (Cardinality(Tick) - 1))

\* The decision clock of an opportunity is settled exactly when a person has
\* decided on it; "met" is never recorded without a decision event.
SlaSettledByDecision ==
  \A o \in Opp : Exists(o) =>
    (row[o].sla \in {"met", "breached"}
       <=> /\ o \in Inbound
           /\ \E i \in DOMAIN row[o].trail : row[o].trail[i].actor = Human)

\* A row under FOR UPDATE belongs to one tick, and nobody else changes it.
LockedRowsStandStill ==
  [][\A t \in Tick : \A o \in tick[t].mine :
       row'[o] # row[o] => tick'[t].phase = "idle" /\ row'[o] = Flushed(t, o)]_vars

\* The inbound opportunities implement the abstract lifecycle.
LC == INSTANCE Lifecycle WITH Deal <- Inbound, Entry <- "received",
                              stage <- [o \in Inbound |-> row[o].state]
ImplementsLifecycle == LC!Spec

\* The worker is done with an opportunity when a person must decide or has decided.
PersonsTurn(o) == row[o].state \in {"memo_ready"} \cup Decided \cup Terminal
\* needs_attention: the budget does not cover what the stage is missing.
OutOfBudget(o) == row[o].state \in Gated /\ budget < Gate[row[o].state].cost

\* Every submitted opportunity is carried to a person, unless the LLM budget runs
\* out on the way: failed or lost jobs are requested again, rolled-back ticks redone.
CarriedToAPerson == \A o \in Inbound : Exists(o) ~> PersonsTurn(o) \/ OutOfBudget(o)

(***************************************************************************)
(* Statements of the repository that the runs refute.                      *)
(***************************************************************************)
\* "Idempotent - each transition checks for output existence before advancing": no
\* visit pays for an outreach draft that is already there.
OutreachPaidOnce ==
  [][\A t \in Tick, o \in Opp :
       TickPlan(t, o) /\ tick'[t].plan = "contact" => outreach[o] # "live"]_vars

\* transition_opportunity "raises ValueError if the transition is invalid": an
\* outbound opportunity, once created, only follows edges of TRANSITIONS.
OutboundFollowsLifecycle ==
  [][\A o \in Outbound : Exists(o) /\ row'[o].state # row[o].state
       => row'[o].state \in TRANSITIONS[row[o].state]]_vars
====
