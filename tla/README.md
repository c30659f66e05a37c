# The VC Brain: specification and proofs

This directory specifies the backend of The VC Brain (`backend/app`): how a
venture opportunity is found or submitted, how a background worker carries it
through the deal lifecycle, what the jobs around it produce, and when a person
decides. The specification is TLA+; TLC checks it on small instances and the
TLA+ proof system proves the main safety properties for all of them.

Source paths below are relative to `backend/app`.

## 1. The system

A FastAPI process and one or more Arq workers share PostgreSQL (rows) and Redis
(priority queue, budget counters, Arq's own queue). There is no other shared
state; all interleavings of interest are between database transactions and
single Redis commands.

| Part | State it keeps | Operations | What makes it correct |
|---|---|---|---|
| Lifecycle contract (`lifecycle.py`) | constant: stages and transitions | `is_valid_transition` | an opportunity only follows edges |
| Pipeline worker (`agents/lifecycle_job.py`) | none of its own; reads all outputs, writes stages and audit rows, charges the LLM budget | `advance_pipeline_job`, cron every 2 minutes | gates are respected, locked rows stand still, retries are bounded, budget is not overspent, nothing waits for ever |
| Opportunity service (`opportunity_service.py`) | `Opportunity`, `DecisionEvent` | get or create, transition | stage and audit row change together |
| Decision API, decision clock (`api/routes/candidates.py`, `sla.py`) | decision events, attainment | `record_candidate_decision`, `finalize_sla` | a decision needs a validated memo and a valid edge; the clock is settled by a decision only |
| Collection queue and dispatcher (`collectors/queue.py`, `collectors/jobs.py`) | three Redis sorted sets, Tavily and agent budget, page tracker | `enqueue`, `pop_top`, `dispatcher_job`, page reservation and rollback | no task lost or doubled, budget respected, pages distinct |
| Job ledger (`job_ledger.py`) | `JobRun` | create, start, update | a terminal result is not undone by a duplicate delivery |
| Discovery and collection (`collectors/*`) | persons, snapshots, observations, signal scores, outbound opportunities | `discover_job`, `collect_job`, `recompute_signals_job`, `auto_discovery_job` | evidence and telemetry commit together; failed pages are returned |
| Inbound submission, outbox, deck parsing (`api/routes/inbound.py`, `outbox.py`, `agents/inbound_job.py`) | submissions, outbox events, observations | `submit_pitch`, `dispatch_outbox_job`, `process_inbound_pitch_job` | one opportunity per idempotency key, delivered at least once, effects once |
| Processing (`processing/*`) | claims | `process_candidate_job`, `reconcile_observations` | idempotent, keeps counter-evidence |
| Identity (`identity/*`) | persons, matches | `resolve_identities`, `merge_persons`, approve, reject | all evidence ends on a canonical person |
| Scoring and research (`agents/scoring*.py`, `scoring/*`) | score snapshots, assessments | `score_candidate_job`, `research_candidate_job`, thesis score | versioned, per subject; unknown is not failed |
| Memo (`agents/memo*.py`, `decision_proposal.py`) | memos, proposals | `generate_memo_job` | only a validated memo succeeds |
| Outreach (`agents/contact_job.py`, `outreach_delivery.py`) | messages | draft, approve, request send, provider events | one live message, no suppressed recipient, provider-confirmed states |
| Thesis versions (`api/routes/theses.py`) | thesis rows, pinned versions | save, rescore | one active version, one version per memo package |
| Candidate listing (`api/routes/candidates.py`) | cursor in the client | `list_candidates` | a walk shows every stable candidate once |
| Provider clients (`client_lifecycle.py`) | process-wide registry | get, close | each client closed once |
| Connectors, storage, other reads, frontend, scripts | - | I/O, formatting | outside the models |

Interactions: the API creates rows and puts task dictionaries on the priority
queue; the dispatcher moves them to Arq; jobs leave outputs (claims, scores,
axes, memos, messages) in PostgreSQL; the pipeline worker polls those outputs,
moves opportunities and asks for what is missing; people decide through the API.

What is hard here:

* a tick of the pipeline is one long transaction with row locks, but its effects
  on Redis are immediate and survive a rollback;
* ticks overlap: `unique=True` keeps one slot from being served twice, it does
  not keep the next slot away from a tick that still runs (`job_timeout` 300 s);
* the outputs are read in transactions that did not write them, while decisions,
  jobs and discovery runs go on;
* discovery reads opportunities without a lock and writes them minutes later;
* Arq does not retry a job that raised, redelivers one whose worker died, and
  the queue and outbox can deliver the same request twice;
* everything that must eventually happen depends on a batch limit, a recency
  window and a budget that is never replenished.

* a person is merged into another while collections, processing runs and reviews
  that looked it up go on writing;
* a memo is written in two transactions around a model call, and people decide,
  save theses and repeat requests in between.

`PROJECT.json` lists each of these hazards at the line where it bites, with the
properties that cover it or the reason none does.

## 2. The modules

| Module | Role |
|---|---|
| `LifecycleContract` | constants: stages, `TRANSITIONS`, `is_valid_transition`, the audit row, the meaning of a decision |
| `Lifecycle` | abstract specification: a deal appears at its entry stage and follows edges |
| `Pipeline` | the worker, the jobs and endpoints around it; implements `Lifecycle` for inbound opportunities |
| `CollectQueue` | the Redis priority queue, the dispatcher and the producers of tasks |
| `Discovery` | extends `CollectQueue`: hourly discovery, `discover_job`, its pages and ledger rows |
| `Submission` | abstract specification: what a pitch promises its client |
| `InboundDelivery` | pitch submission, outbox, deck job and its ledger row, up to processing; implements `Submission` |
| `Identity` | persons, observations, automatic and reviewed merges |
| `Evidence` | extends `Identity`: reconciliation of observations into claims |
| `Thesis` | thesis versions, pins and the deterministic thesis score |
| `DealDesk` | extends `Thesis` and `LifecycleContract`: research, memo jobs, proposals, decisions, merges of founders |
| `CandidateList` | keyset pagination of the candidate listing |
| `ClientRegistry` | shared provider clients and their shutdown |
| `Api` | the components behind the API side by side: `DealDesk` (with `Thesis`), `CandidateList`, `ClientRegistry` |
| `MCPipeline`, `MCCollectQueue`, `MCDiscovery`, `MCInboundDelivery`, `MCEvidence`, `MCDealDesk` | instances for TLC |
| `PipelineProofs`, `QueueProofs`, `DiscoveryProofs`, `DeliveryProofs`, `IdentityProofs`, `EvidenceProofs`, `DealDeskProofs` | theorems about the module of that name (`QueueProofs`: `CollectQueue`, `DeliveryProofs`: `InboundDelivery`, `DealDeskProofs`: also `Thesis`) |
| `ApiProofs` | theorems about `ClientRegistry`, `CandidateList` and `Api` |

The components in `Api` share nothing but the thesis pins, so their product would
only multiply states: each behaviour of `MCDealDesk` picks a `scene` that gives
work to one of them. The scenes are `desk` (memo jobs, theses
and one decision), `latest` (research twice before a memo), `keys` (two memos of
two opportunities and repeated decisions), `moved` (the founder is merged between
two decisions), `thesis` (saves, rescores and new evidence), `walk` (the listing)
and `shutdown` (the registry).

### Pipeline: state

| Variable | In the code |
|---|---|
| `row[o]` | the `opportunities` row: `lifecycle_state`, attainment of the decision clock, its `DecisionEvent` trail, and the number of events whose reason contains "retry" (`_count_retries`) |
| `signal`, `fscore` | the latest `signal-v1` and `founder-agent-v1` snapshot of a person, reduced to its comparison with the threshold |
| `claims`, `axes`, `memo`, `outreach` | what `_has_scoped_claims`, `_has_opportunity_axes`, `_has_memo` and the outreach lookup would find |
| `recent`, `fresh` | whether the last "... queued" event, or `updated_at`, lies inside `pipeline_stuck_after_minutes`; time passes by `Elapse` |
| `overdue` | `decision_due_at` has passed; by `FallDue` |
| `budget` | Redis `vcbrain:budget:agent` |
| `jobs` | requests between their `ZADD` and the end of their Arq job. A set: the task dictionary is the key in the lane. A finished job may leave the same request behind, because a second one can be enqueued while the first runs |
| `tick[t]` | one run of `advance_pipeline_job`: rows locked, rows still to visit, stages read, what it decided to pay for, what its session will write |
| `scan[s]` | one run of `discover_job` between reading an opportunity and committing |

### Pipeline: actions

`TickBegin` is the `SELECT ... FOR UPDATE SKIP LOCKED ... LIMIT`. For each row
`TickAdvance` is a transition whose output exists, `TickPlan` the budget check
that passes, `TickPass` every `continue`, then `TickCharge` (`DECRBY`) and
`TickQueue` (`ZADD` and the audit row in the session). `TickCommit` flushes what
the session changed, `TickAbort` is a crash, timeout or exception; the charge
and the queued jobs stay. The order of the steps is the order of the awaits.

`Submit` is `submit_pitch`; `ScanRead`, `ScanWrite`, `ScanFail` are discovery
(`get_or_create_opportunity` and the transition that follows it); `Recompute` to
`RunContact` are the jobs, by the outputs they commit; `MemoStart` and
`MemoFinish` are the two transactions of the memo job; `JobFail` any job that
ends without an output; `RequestJob` the routes that queue jobs by hand;
`Decide` is `record_candidate_decision`, which waits for the row lock.

Abstractions: opportunities are numbered in the worker's ORDER BY; thresholds
are booleans; the three `ZADD`s of an investigation are one step; a job's inputs
(text, model answers) are replaced by a choice among its possible outcomes.
Within one visit the outputs read by `TickAdvance` or `TickPlan` are read in one
step: the queries of one visit are separate statements, but each decision of a
visit depends on one output only, apart from "investigating" where the axes are
read before the score and neither is ever withdrawn.

### CollectQueue

`Pipeline` sees a request as a set member between its `ZADD` and the end of its
job. `CollectQueue` opens that interval for the tasks of all producers.

| Variable | In the code |
|---|---|
| `lanes[l][x]` | priority of task `x` in the sorted set of lane `l` (the score negated), times ten |
| `tavily` | Redis `vcbrain:budget:tavily` |
| `arq[x]` | jobs for `x` that Arq holds |
| `disp[d]` | one run of `dispatcher_job`: the lane it pops next, the tasks it removed, the budget as it knows it |
| `rows[x]` | the `JobRun` of a task that has one, as far as the queue goes |
| `asking[h]` | an API request between the commit of its rows and its last commit |

`Pop` is one `ZPOPMIN`; then the tasks on the hand are postponed at priority 0.1
(`Postpone`), charged (`Charge`) and handed to Arq (`Deliver`), or put back when
that raises (`DeliverFails`, then `Refund`), one Redis command per step. A
command that raises may have had its effect. Producers without a row `Enqueue`;
a route that creates rows commits them (`Ask`), enqueues one by one
(`AskEnqueue`, `AskFails`) and marks the refused ones failed (`AskEnd`). Deaths
and failures draw on `FaultBound`. Not here: what the jobs do, JSON keys (a task
is its key) and `queue_depth`, which is only logged.

### Discovery

Slots are the tasks of `auto_discovery_job`: the ids of one query in different
hours, which share a page tracker. `AutoRead` to `AutoMark` follow the awaits of
that job. An execution of `discover_job` reserves a page (`Reserve`, WATCH/MULTI,
one step), starts its row (`Start`, or `Duplicate` if it has succeeded before),
asks the provider (`Provide`), queues deep collections (`AskDeep`) and commits
(`CommitRun`). What raises goes to `GiveBack`, where only the page reserved last
moves the tracker back, and to `Fail`. `ExecDies` covers death with redelivery
and the timeout without. `pages` and `asked` are history.

### InboundDelivery

| Variable | In the code |
|---|---|
| `client[r]` | the handler of `POST /inbound/pitch` for request `r`, and the submission its answer names |
| `persons` | emails with a `Person` row |
| `accepted` | submissions, with their opportunity, snapshot, ledger row and event |
| `event[r]` | `OutboxEvent`: status, whether `available_at` has passed, jobs handed to Arq |
| `dispatch[d]` | a run of `dispatch_outbox_job`: locked events and what became of each |
| `arq[r]`, `run[x]` | deliveries, and executions of `process_inbound_pitch_job` |
| `ledger[r]` | the `JobRun` |
| `observed[r]`, `claimed` | the deck's observations; submissions a committed processing run has read |

`submit_pitch` is `Arrive`, `LookUp`, `InsertPerson`, `CommitSubmission`: the
flush of a new founder and the commit are separate steps, and the loser of a race
at the commit reads the winner. The job is `Deliver` (`start_job`), `Parse`,
`Persist`, `ProcessRead`, `ProcessCommit`, `Finish`, each with its failure. The
text of a deck is one value; the opportunity it creates goes on in `Pipeline`.

`Submission` says what all this is for, without transactions, outbox, Arq, retries
or faults: which request each client is told of (`told`), how far a deck has come
(`deck`) and what its row shows (`shown`). `SM` maps them to the answers already
given, to what is accepted, observed and claimed, and to `ledger`.

### Identity and Evidence

An account stands for the person first created for it. `born`, `into` and
`handles` are columns of `persons`; `subject` says which person an observation is
about, `matches` are review rows. `Discover` and `Write` are the lookup and, much
later, the observations of a collection. A resolution reads all canonical persons
(`ResolveRead`), works off blocked pairs in any order on what it read
(`ResolvePair`) and applies its merges to the rows as they are at its commit
(`ResolveCommit`), with one review row for each pair it flagged (`InSomeOrder`).
`Approve` and `Reject` are the review endpoints.

`Evidence` adds `claims` in insertion order. `ProcessRead` is the reading of
`reconcile_observations`, `ProcessCommit` its writing with `_close_superseded_claims`
and `deduplicate_claims`; equal values have equal embeddings. `done` is history.

### Thesis and DealDesk

A save counts the versions (`SaveCount`), then inserts the next one, deactivates
the others, scores every candidate and pins the version (`SaveCommit`); two that
counted the same number collide (`SaveConflict`). A rescore scores with the
version that was active when it began. `Score` is `score_thesis` over criteria
matched, failed or unknown; points are kept as a fraction.

In `DealDesk` a memo job is `MemoTake` (`start_job`), `MemoRead`, `MemoPend` (the
pending memo with its proposal), `MemoFinish` (result, proposal, ledger, or
failure), with `MemoError` and `MemoDies`. `Applied` is the UPDATE SQLAlchemy
emits: columns whose value did not change in the session are not written, so a
decision in between stands. `record_candidate_decision` is `DecideArrive` (404 for
a person that is not canonical, 409 for one the opportunity is not linked to),
`DecideRead` (under the row lock: the idempotency key, the transition, the memo),
`DecideCommit` and `DecideConflict`. `Merge` is `merge_persons` as far as decisions
see it: `merged` persons are not canonical and their opportunities are linked to
the survivor (`link`). An opportunity has one founder, as `opportunity_service.py`
creates it. A memo job may end in `MemoError` at any time before it reads, which
covers one whose founder was merged away. A batch of assessments is reduced to the
action its ratings propose.

### CandidateList and ClientRegistry

`Page` is one request of `list_candidates`: rows after the cursor (creation time
and id) that pass the filter; `Change` creates, merges or refilters a person
between pages. In `ClientRegistry` a step is what the code does without an await:
`Get`, the start of `close`, the close of one object, the end. `Get` assumes of an
injected factory that it returns a new object or one that is registered under
another key, never one that was closed before; the default factories construct
their client on each call.

## 3. The runs

| Run | Instance | Question |
|---|---|---|
| `PipelineInbound` | 1 inbound, 1 tick, budget 10, memos may be queued by hand; fair | audit trail is a path, evidence behind every stage, clock settled by decisions, `Lifecycle` implemented, every submission reaches a person or the budget is gone |
| `PipelineOverlap` | 2 inbound, 2 ticks, budget 5 | row locks, bounded overdraft |
| `PipelineOutbound` | 1 outbound, 1 tick, 1 discovery run, budget 21 | timeout exactly after three retries |
| `CollectQueue` | 2 Tavily tasks with rows, budget for 1, 1 collection requested twice at priorities of two lanes, 2 dispatchers, 1 fault; fair | no task falls out; a further copy of a task comes only from a request that finds none in the lane of its priority, or from a hand-over that raised late; overspending is bounded, others are served although Tavily tasks are postponed for ever |
| `Discovery` | 2 hours of one query, 2 hourly ticks, 1 dispatcher, 2 executions, 3 pages, 2 faults | pages distinct and none forgotten, success only after all was asked for, one hand-out per hour while nothing fails, no step but a death or a failed reservation strands an open row |
| `InboundDelivery` | 2 requests with one key, 2 dispatchers, 2 executions, 2 faults; fair | `Submission` implemented (one answer, success means processed), evidence once, nothing dropped, handed over in the end |
| `Evidence` | 3 persons linked by a shared address and a shared name, 1 collector, 2 resolutions, 3 rounds, 2 processing runs | chains end, nothing counted twice but for one overlap, a pair under review once per overlapping resolution, current claims, evidence cited, reruns create nothing |
| `DealDesk` | the seven scenes | memos, proposals, decisions and retries agree; thesis scores; complete walks; clients closed once |
| `PipelineContactAgain` | 1 outbound, budget 7 | refutes "idempotent: each transition checks for output existence" |
| `PipelineDiscoverRace` | 1 outbound, 1 discovery run | refutes "raises ValueError if the transition is invalid" |
| `InboundRace` | as `InboundDelivery`, no faults | refutes "a concurrent idempotency race must be handled by the IntegrityError re-read" |
| `DealDeskOutdated` | as `DealDesk` | refutes "loads the latest agent scorecard + assessments" |

Why these bounds show the interesting cases.

* Pipeline: `BatchSize` 1 reaches the batch limit with two opportunities. Budget
  10 is exactly what one inbound opportunity costs when nothing fails
  (1 + 5 + 3 + 1), so every repeated request exhausts it somewhere else. Budget 5
  lets one tick take it all while the other has already read it: -5 is reached.
  Budget 21 pays for the investigation and three retries (4 x 5) and one outreach
  request. `HistoryBound` limits how often a discovery run may append to the
  trail of one row; it is not used in the inbound runs.
* CollectQueue: a `Concurrency` of 1 makes the batch full with one task, so a
  task in front really displaces another; two dispatchers and two Tavily tasks
  reach the bound of -1; one fault is a failed hand-over (with or without its
  effect) or a death, in every order with the second dispatcher and request.
* Discovery: three pages are enough to fail in another order than reserved and to
  wrap; two faults are a failed page return followed by a death.
* InboundDelivery: two requests of one key are the race; two faults a lost
  hand-over and a death of an execution, or two deaths. `InboundRace` needs none.
  Several keys, where one processing run reads the decks of several submissions of
  one founder, are left to the theorems.
* Evidence: three persons make a chain of two merges, with two persons of one
  transaction (equal creation times) among them; the third round is a discovery
  after two resolutions or a resolution after two discoveries; two processing
  runs overlap, or the second reruns the first. What three rounds are too few for
  is covered by the theorems, and is how an exception to `CountedOnce` was found
  (section 4).
* DealDesk: per scene two jobs or requests overlap, with one death. The listing has four
  persons, two creation times and pages of two, so that a page ends inside a
  group of equal times. The registry has three keys, three objects, two overlapping
  shutdowns and two failing closes.

`CHECK_DEADLOCK FALSE` appears where the work of an instance is finite and the
system then rests. Symmetry is declared over interchangeable runs and requests
in runs without liveness properties only.

### Fairness

`Pipeline.FairSpec` assumes of each tick that its steps are taken again and again
(strong fairness per step and row): cron starts a tick every two minutes, and
although any tick can be cut short (`TickAbort` stays possible at each step),
not every one is. It assumes that time passes (`Elapse`). Nothing is assumed of
jobs, discovery, submissions or people: a job that always fails is asked for
again until the budget is gone, which is why `CarriedToAPerson` ends in "or out
of budget".

`CollectQueue.FairSpec` assumes that a dispatcher goes on (cron starts one every
minute) and that faults come to an end, which `FaultBound` expresses. Nothing is
assumed of producers or jobs.

`InboundDelivery.FairSpec` assumes that the outbox dispatcher reads, sends and
commits (cron, every minute), that the retry delay of an event passes
(`FallDue`), and again that faults are finite. Nothing is assumed of the workers,
so `HandedOver` ends where Arq has the job.

### What the violations show

* `PipelineContactAgain`: above the contact threshold every tick pays one call
  and queues `contact_outbound` again; the job finds the draft and does nothing.
* `PipelineDiscoverRace`: `transition_opportunity` validates against the stage
  the session read; a discovery run can put an investigated opportunity back to
  "interesting". The inbound lane is not affected, since discovery only writes
  from "discovered".
* `InboundRace`: the founder's row is flushed before the block that handles the
  race, so the loser fails there when the founder is new, and its client sees an
  error for a submission that exists. Retrying gives the right answer.
* `DealDeskOutdated`: research appends assessments, the memo job reads them
  oldest first and the proposal keeps the first of each axis.

### Behaviour seen in the models without a run of its own

* Rows that cannot move keep their place at the head of every pipeline batch;
  with `pipeline_batch_size` of them the others are never visited.
* An hourly discovery row is committed before its `ZADD` and skipped afterwards:
  a death in between leaves the query unserved for that hour. `OpenSlotServed`
  says that nothing else does, but a reservation that raises.
* A merge leaves the handle on the duplicate too, so a later lookup by that
  handle finds two persons and its discovery fails.
* Two resolutions can flag one pair twice; later runs that meet the pair fail
  until a reviewer settles it. `AskedOncePerOverlap` bounds the rows by the overlap.
* A delivery that fails in `start_job` after another one succeeded writes
  "failed" over "succeeded" in the ledger.
* A task enqueued again at a priority of another lane waits twice and becomes two
  jobs: `ZADD` sees the set of its own lane only. The docstring says of a task with
  the same key that "it is *not* duplicated" (`collectors/queue.py:57`);
  `backend/tests/collectors/test_queue.py:129` records two entries.
  `NoTaskMultiplied` allows this copy and no other of a waiting task.
* After a merge, the repeat of a recorded decision that is still sent to the old
  candidate id gets a 404 (`candidates.py:1190`, before the key is looked up),
  although the decision stands; sent to the founder it was merged into, it is
  answered with the recorded event. `RetriesAnswered` says both.
* Of two overlapping merges the later one can link an opportunity to a person the
  earlier one has merged away; no decision reaches the opportunity then.

## 4. The proofs

All theorems hold for any values of the constants under the assumptions named in
the modules. Most of them only type the constants; the others are:
for `InboundDelivery` that the marker `Nobody` is not a request and for
`ClientRegistry` that `None` is not a client; for `CollectQueue` and `Pipeline`
that dispatchers and ticks are finitely many and at least one (a worker process
runs a bounded number of jobs), without which "all but one" means nothing; for
`Identity` that accounts, facts and overlapping resolutions are finitely many; for `DealDesk` that a memo
job belongs to one opportunity (`generate_memo_job` is given its id) and that
persons are numbered, in order of creation; for
`CandidateList` that ids and creation times are ordered like numbers, that the
table is finite and that a page has at least one row (`limit` is declared `ge=1`).
`DeskSpec`, `ListSpec` and `RegistrySpec` are the specifications of the components
by themselves; by `PartsUndisturbed` each holds of every behaviour of `Api`, so the
theorems about them do as well.

| Theorem | States |
|---|---|
| `PipelineProofs!Types`, `LocksHold`, `Refinement` | `TypeOK`, `LockedRowsStandStill`, `ImplementsLifecycle` |
| `PipelineProofs!Evidence`, `Audit`, `Timeout`, `Sla` | `EvidenceBehindStage`, `InboundAudit`, `TimeoutAfterRetries`, `SlaSettledByDecision` |
| `PipelineProofs!OverdraftStaysBounded` | `OverdraftBounded` |
| `QueueProofs!QueueTypes`, `NothingVanishes`, `NothingMultiplies`, `OverspendStaysBounded` | `TypeOK`, `NoTaskVanishes`, `NoTaskMultiplied`, `OverspendBounded` of `CollectQueue` |
| `DiscoveryProofs!DiscoveryTypes`, `PagesStayDistinct`, `PagesAccountedFor`, `SuccessHasAsked`, `HandedOutOnce` | `DiscoveryTypeOK`, `PagesDistinct`, `NoPageForgotten`, `SucceededHasAsked`, `SlotHandedOutOnce` |
| `DiscoveryProofs!OpenSlotsServed` | `OpenSlotServed` |
| `DiscoveryProofs!DiscoveryKeepsTasks`, `DiscoveryKeepsBudget` | `NoTaskVanishes`, `OverspendBounded`, now of `Discovery` |
| `DeliveryProofs!ClientView` | `ImplementsSubmission` |
| `DeliveryProofs!DeliveryTypes`, `OneAnswer`, `DeckOnce`, `Truthful`, `NothingDropped` | `TypeOK`, `AnswersAgree`, `EvidenceOnce`, `SucceededIsProcessed`, `OpenRowServed` |
| `IdentityProofs!IdentityTypes`, `LoopsEnd`, `NothingCountsTwice`, `ReviewsBounded` | `IdentityTypeOK`, `ChainsEnd`, `CountedOnce`, `AskedOncePerOverlap` |
| `EvidenceProofs!EvidenceRefinesIdentity`, `EvidenceTypes`, `GroupsStayCurrent`, `NothingGoesUncited`, `RerunsCreateNothing` | `Spec => IdentitySpec`, `TypeOK`, `GroupKeepsCurrentClaim`, `EvidenceCited`, `RerunCreatesNothing` |
| `DealDeskProofs!DeskTypeCorrect`, `CitedMemoValidated`, `ReadyIffValidated`, `PackageKeepsThesis`, `SuccessLeavesMemo` | `DeskTypeOK` with `ThesisTypeOK`, `DecisionCitesValidatedMemo`, `ReadyMeansValidated`, `OneThesisPerPackage`, `LedgerTellsTruth` |
| `DealDeskProofs!NothingUnknownFails`, `DecisionsStand`, `KeysAnswered` | `UnknownIsNotFailed`, `DecidedProposalStands`, `RetriesAnswered` |
| `ApiProofs!ListTypes`, `WalksComplete` | `ListTypeOK`, `WalkComplete` |
| `ApiProofs!ClosedOnce`, `RegistryTypes` | `EachClientClosedOnce`, `RegistryTypeOK` |
| `ApiProofs!PartsUndisturbed`, `ApiTypes` | `ApiSpec => DeskSpec /\ ListSpec /\ RegistrySpec`, `TypeOK` of `Api` |

The arguments.

* `Pipeline`. `TypeOK` is not enough to know that a commit writes over the stage
  it read. `Inductive` adds that ticks lock disjoint sets of existing rows; that
  for a locked row the stage a tick read is the stage in the row; and that each
  mark in a session is justified by what was true when it was made and still is
  (an axis, a score or a succeeded memo never goes away, a locked row does not
  change). From it `RowChanges` shows that whenever a row changes, the change is
  one of five: created by a submission, moved by the worker along an edge with
  its evidence, given a retry, moved by a person with a succeeded memo, or
  written by a discovery run. Each remaining theorem is a case analysis over
  those five.
* Budgets. That the counter never falls below a bound is not inductive: a tick or
  dispatcher charges what it decided on an older reading. What matters is what all
  of them may still charge. `Promised` (in `Pipeline`) and `Charges` (in
  `CollectQueue`) are the sets of charges still possible, one element per unit,
  so that their cardinality is the sum without an induction. `PromiseInv` and
  `SpendInv` say that this number exceeds the counter by at most one
  investigation, or one batch, for every process but one: whoever read last saw
  the counter as it is, and everyone else owes no more than one portion.
* `CollectQueue`. `QInv` adds to the types that a dispatcher at rest holds
  nothing, so its start forgets nothing, and that a task in a hand has a positive
  priority, so a `ZADD` of it puts it into a lane (priority 0 stands for "not in
  the lane"). One lemma, `RunStep`, covers all dispatcher steps: what leaves a
  hand is in a lane or with Arq; `OutsideStep` covers the others. That no task is
  multiplied is a balance of counts: entries of a task in lanes, in hands, among the
  requests a handler still has to enqueue, and jobs with Arq. A step moves one unit
  from one count to another, unless it is a request that takes a free place in a
  lane or that a handler commits, or a hand-over that raised late: those add one. That
  the rest of a hand moves up when its first task leaves is an injection (`HandsPut`).
* `Discovery`. `DInv` extends `QInv`: an execution works on a slot whose row
  exists; what it has asked for and what it still will are together all it owes;
  and, as long as the tracker has not wrapped, a page that is out was neither
  processed nor passed over, and lies below the tracker. Whether a page may go
  back is decided by the tracker alone, so the last part is what makes the two
  properties of pages inductive together. For `SlotHandedOutOnce`, `CopyInv`
  follows the task of a slot while no fault has occurred: a slot whose row is
  queued or running has its task in exactly one place (the hourly tick that will
  queue it, a lane, Arq, a hand, an execution), any other slot nowhere; five
  places with one occupant each make a stronger statement than the property,
  which counts only what is handed out. For `OpenSlotServed` each step is followed
  to whoever serves the slot next; `QuietApi` keeps the handlers of other tasks
  out of it. `DiscoveryKeepsTasks` and `DiscoveryKeepsBudget` carry the theorems of
  the queue over: beside the dispatchers, ticks and executions only add entries to
  lanes and move jobs in Arq, and touch neither hands nor the counter.
* `InboundDelivery`. `DInv` adds that events are locked by one dispatcher each;
  that an execution past a step has what that step wrote (`Work`); and that an
  open row is carried by an event not yet handed over, by a delivery or by an
  execution that will not end as a duplicate (`Carried`). The last is stronger
  than `OpenRowServed`: an event that a dispatcher has handed over but not yet
  committed is still pending, but carries nothing. For the refinement, `Grounded`
  adds that what is observed was accepted, what is claimed was observed, and what a
  processing run has read still is there; nothing of that and no answer is ever
  taken back, so each step is one of `Submission` or changes nothing it shows.
* `Identity`. `IdentityInv` says that every `superseded_by_id` leads to an older
  person, also those a resolution has decided on and not yet written. A loop
  along them therefore meets no person twice and, with finitely many persons,
  has ended after as many steps (pigeonhole). The loop is a recursive function;
  that it is defined for every number of steps, and what it returns, is shown by
  taking a least counterexample (`LeastNumber`, from the well-foundedness of `<`).
  `CountInv` is the invariant behind `CountedOnce`: all that is said of one
  account, and all that collections in flight will yet write of it, lies on one
  chain of supersessions, so that the merges that reach it take it to one end; a
  merge moves only what stands at the end of a chain. `AskInv`, behind
  `AskedOncePerOverlap`, counts for each pair the pending reviews together with the
  resolutions that have decided to ask for one: a resolution decides so only while
  none is pending, so the sum never exceeds the number of resolutions.
* The exception in `CountedOnce` came out of this proof. The property without it
  was not inductive, and the failing case is reachable with five rounds, two more
  than the run has: resolution A loads persons p and q; resolution B merges p into
  r and commits; a collection that had looked p up writes about p; A merges p into
  q, for the person object A holds still says `canonical`, and moves what p had
  received since. One source's statement is then in two places on different
  chains, and can come together in one person. The code does not prevent it
  (`merge.py:54` looks at the loaded object), so `remerged` records that it
  happened and `CountedOnce` speaks of everything else.
* `Evidence`. A processing run leaves persons and observations alone, so
  `Evidence` implements `Identity` and inherits its theorems. `EvidenceInv` says
  of the claims that each cites rows of one group, that supersession leads from a
  claim to a claim of the same person and group, that each group has a current
  claim, and that whatever a committed run has read is cited with the outcome of
  its group; and of a run in flight that the claims it read are still there, with
  nothing changed but what supersedes them. The commit is one lemma per part: the
  matching and closing of claims, the selection by time, and the rows added.
* `DealDesk`. `ThesisInv` has exactly the last thesis active and every request in
  flight at most one version ahead, so what a save commits is the next version.
  `DeskInv` says that a memo and its proposal are one package with one thesis,
  ready exactly when validated; that no two runs write one memo and the memo a run
  writes is pending; that a decision in flight cites a succeeded memo of its
  opportunity and is alone with it (the row lock), so a key it did not find can
  only have been recorded for another opportunity; and that a succeeded job left
  its memo. A merge moves links and nothing else, so a repeated request is refused
  only if it is sent to somebody who is not the founder any more (`Linked`).
  `DecidedProposalStands` and `RetriesAnswered` are then facts about single steps. `UnknownIsNotFailed` is a fact about one step too, by comparing the
  weighted sums: a criterion that did not fail earns at least half of its weight.
* `CandidateList`. `ListInv` says that nothing a walk has shown lies behind its
  cursor, and everything listed throughout was shown or lies behind it; since
  creation times never change, it survives whatever happens to the table. That a
  page really holds the next rows in order is shown by rank: each row is mapped
  to the number of rows before it, which is one-to-one into an interval of the
  same size and hence onto (`FirstRows`), so the first n rows exist, are n in
  number and have an order.
* `ClientRegistry`. `RInv` says that one caller owns a shutdown, during which no key
  has a client; that what is registered or in that caller's hands has never been
  closed; and that every open object is one or the other.

* `Api`. A step of one component leaves the variables of the others alone, so it is
  a stuttering step of their specifications.

Only model-checked: the liveness properties (`CarriedToAPerson`, `OthersServed`,
`HandedOver`), since liveness under fairness is outside the prover's reach, and the
refuted statements. Every other property of a passing run is a theorem. Four
theorems are about formulas without a run of their own: `AnswersAgree` and
`SucceededIsProcessed` are parts of what `ImplementsSubmission` says,
`ReadyMeansValidated` and `DiscoveryTypeOK` are invariants the other proofs rest on.

## 5. Not modelled

* Outreach beyond the draft: approval, the send request and provider events are
  guarded writes of one row; no worker or provider stands behind them. Nothing in
  the code changes a recipient's consent.
* The rubrics of the scoring agents and the prompts: arithmetic and text over one
  input; the models choose freely among their results.
* Connectors, avatars and storage: calls of outside services and parsing of
  their formats. What they return is an input of `Discovery` and `Identity`.
* Signals, trust scores and validity times as numbers; `Pipeline` keeps their
  comparison with the thresholds.
* Organisations, channel touches, outcomes, feedback: append-only records that
  nothing modelled reads back.
* Reading endpoints other than the listing; privacy, provenance and source
  policies (pure predicates on strings); schema and migrations beyond the unique
  constraints the models use; frontend and scripts.

## 6. What is left

1. A composition of `InboundDelivery` with `Evidence`, in which the processing
   step of the deck job is a reconciliation, and the theorem that it implements
   both.
2. An abstract specification of the queue (a task is asked for, handed over, done)
   that `CollectQueue` implements; `NoTaskVanishes` and `NoTaskMultiplied` are its
   two halves, and still speak of lanes and hands.
3. What happens after the overlap that `CountedOnce` excepts: which persons can
   hold the doubled statement, and whether a later resolution brings it together.
