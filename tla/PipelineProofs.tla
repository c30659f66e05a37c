--------------------------- MODULE PipelineProofs ---------------------------
(***************************************************************************)
(* Theorems about module Pipeline, for every number of opportunities,      *)
(* founders, ticks and scanners, every budget and every batch size.        *)
(***************************************************************************)
EXTENDS Pipeline, FiniteSetTheorems, TLAPS

\* A tick marks only rows it locked, and it read their stages.
Holding ==
  \A t \in Tick :
    /\ tick[t].todo \subseteq tick[t].mine
    /\ \A o \in Opp : tick[t].mark[o] # "none" => o \in tick[t].mine
    /\ \A o \in tick[t].mine : tick[t].seen[o] \in STAGES \ Terminal

\* What a tick is about to pay for fits the stage it read and the retries so far.
Planned ==
  \A t \in Tick, o \in Opp :
    tick[t].phase \in {"charge", "queue"} /\ At(t, o) =>
      /\ tick[t].plan # "none"
      /\ tick[t].plan = "ask" => tick[t].seen[o] \in Gated
      /\ tick[t].plan = "investigate" => tick[t].seen[o] = "interesting"

Typed == TypeOK /\ Holding /\ Planned

USE PipelineAssumption

LEMMA OppNat == Opp \subseteq Nat
  BY DEF Opp

LEMMA NoRowType == NoRow \in Row
  BY DEF NoRow, Row

LEMMA IdleTickType == IdleTick \in TickRun
  BY DEF IdleTick, TickRun, Plans, Marks

LEMMA TransitionType ==
  ASSUME NEW r \in Row, NEW prior \in STAGES, NEW new \in STAGES,
         NEW actor \in {Worker, Human}
  PROVE  transition_opportunity(r, prior, new, actor) \in Row
<1> DEFINE event == [prior |-> prior, new |-> new, actor |-> actor]
<1>1. event \in DecisionEvent
  BY DEF DecisionEvent
<1>2. r.trail \in Seq(DecisionEvent)
  BY DEF Row
<1>3. Append(r.trail, event) \in Seq(DecisionEvent)
  BY <1>1, <1>2
<1> HIDE DEF event
<1>4. [[r EXCEPT !.state = new] EXCEPT !.trail = Append(r.trail, event)] \in Row
  BY <1>3 DEF Row
<1>5. transition_opportunity(r, prior, new, actor)
        = [[r EXCEPT !.state = new] EXCEPT !.trail = Append(r.trail, event)]
  BY DEF transition_opportunity, event, Row
<1> QED
  BY <1>4, <1>5

\* At most one opportunity is at hand.
LEMMA OneAtATime ==
  ASSUME NEW t \in Tick, NEW o \in Opp, NEW e \in Opp, At(t, o), At(t, e)
  PROVE  o = e
<1>1. o \in tick[t].todo /\ e \in tick[t].todo
  BY DEF At
<1>2. o <= e /\ e <= o
  BY <1>1 DEF At
<1> QED
  BY <1>2, OppNat

LEMMA AutoStageType ==
  ASSUME TypeOK, NEW o \in Opp, NEW s \in STAGES
  PROVE  /\ AutoStage(o, s) \in STAGES
         /\ AutoStage(o, s) = s \/ AutoStage(o, s) \in TRANSITIONS[s]
  BY DEF TypeOK, AutoStage, STAGES, TRANSITIONS, Gate, Gated

LEMMA CostType ==
  ASSUME NEW plan \in Plans, NEW s, plan = "ask" => s \in Gated
  PROVE  Cost(plan, s) \in Nat
  BY DEF Cost, Plans, Gate, Gated, INVESTIGATION_AGENT_CALLS,
         FOUNDER_SCORE_AGENT_CALLS, RESEARCH_AGENT_CALLS

LEMMA PlanForType ==
  ASSUME NEW o, NEW s
  PROVE  /\ PlanFor(o, s) \in Plans
         /\ PlanFor(o, s) = "ask" => s \in Gated
         /\ PlanFor(o, s) = "investigate" => s = "interesting"
  BY DEF PlanFor, Plans

LEMMA PlanJobsType ==
  ASSUME NEW o \in Opp, NEW s, NEW plan \in Plans \ {"none"},
         plan = "ask" => s \in Gated
  PROVE  PlanJobs(plan, o, s) \subseteq Jobs
  BY DEF PlanJobs, Plans, Jobs, InvestigationJobs, GateJob, Gated, process_candidate,
         score_candidate, contact_outbound, research_candidate, generate_memo

\* What a tick's run and the rows look like after a visit.
LEMMA VisitedType ==
  ASSUME TypeOK, NEW t \in Tick, NEW o \in Opp, NEW m \in Marks
  PROVE  Visited(t, o, m) \in TickRun
<1>1. tick[t] \in TickRun
  BY DEF TypeOK
<1>2. [tick[t].mark EXCEPT ![o] = m] \in [Opp -> Marks]
  BY <1>1 DEF TickRun
<1> QED
  BY <1>1, <1>2 DEF Visited, TickRun, Plans

LEMMA FlushedType ==
  ASSUME Typed, NEW t \in Tick, NEW o \in Opp
  PROVE  Flushed(t, o) \in Row
<1>1. row[o] \in Row /\ tick[t] \in TickRun
  BY DEF Typed, TypeOK
<1>2. CASE tick[t].mark[o] \in STAGES
  <2>1. tick[t].mark[o] # "none"
    BY <1>2 DEF STAGES
  <2>2. tick[t].seen[o] \in STAGES
    BY <2>1, <1>1 DEF Typed, Holding, TickRun
  <2>3. transition_opportunity(row[o], tick[t].seen[o], tick[t].mark[o], Worker) \in Row
    BY <1>1, <1>2, <2>2, TransitionType
  <2>4. tick[t].mark[o] # "retry"
    BY <1>2 DEF STAGES
  <2>5. Flushed(t, o)
          = transition_opportunity(row[o], tick[t].seen[o], tick[t].mark[o], Worker)
    BY <1>2, <2>4 DEF Flushed
  <2> QED
    BY <2>3, <2>5
<1>3. CASE tick[t].mark[o] \notin STAGES
  BY <1>1, <1>3, SMTT(30) DEF Flushed, Row
<1> QED
  BY <1>2, <1>3

LEMMA ScanRowType ==
  ASSUME TypeOK, NEW o \in Opp, NEW seen \in STAGES \cup {Absent}, NEW crosses \in BOOLEAN
  PROVE  ScanRow(o, seen, crosses) \in Row
<1> DEFINE base == IF seen = Absent THEN [NoRow EXCEPT !.state = "discovered"] ELSE row[o]
<1>1. [NoRow EXCEPT !.state = "discovered"] \in Row
  BY NoRowType DEF Row, STAGES
<1>2. base \in Row
  BY <1>1 DEF TypeOK
<1>3. "discovered" \in STAGES /\ "interesting" \in STAGES
  BY DEF STAGES
<1> HIDE DEF base
<1>4. transition_opportunity(base, "discovered", "interesting", Worker) \in Row
  BY <1>2, <1>3, TransitionType
<1> QED
  BY <1>2, <1>4 DEF ScanRow, base

LEMMA TypedInit == Init => Typed
<1> SUFFICES ASSUME Init PROVE Typed
  OBVIOUS
<1>1. TypeOK
  BY NoRowType, IdleTickType DEF Init, TypeOK, NoScan, STAGES, Absent, Jobs
<1>2. Holding /\ Planned
  BY DEF Init, Holding, Planned, IdleTick
<1> QED
  BY <1>1, <1>2 DEF Typed

(***************************************************************************)
(* Every step keeps the types.                                             *)
(***************************************************************************)
LEMMA TypedVisit ==
  ASSUME Typed, NEW t \in Tick, NEW o \in Opp, NEW m \in Marks,
         At(t, o), tick' = [tick EXCEPT ![t] = Visited(t, o, m)]
  PROVE  tick' \in [Tick -> TickRun] /\ Holding' /\ Planned'
<1>1. tick' \in [Tick -> TickRun]
  BY VisitedType DEF Typed, TypeOK
<1>2. /\ tick'[t].mine = tick[t].mine /\ tick'[t].seen = tick[t].seen
      /\ tick'[t].todo = tick[t].todo \ {o} /\ tick'[t].phase = "visit"
      /\ \A e \in Opp : tick'[t].mark[e] = IF e = o THEN m ELSE tick[t].mark[e]
  BY DEF Typed, TypeOK, TickRun, Visited
<1>3. \A u \in Tick \ {t} : tick'[u] = tick[u]
  BY DEF Typed, TypeOK
<1>4. o \in tick[t].mine
  BY DEF Typed, Holding, At
<1>5. Holding'
  BY <1>2, <1>3, <1>4 DEF Typed, Holding
<1>6. Planned'
  BY <1>2, <1>3 DEF Typed, Planned, At
<1> QED
  BY <1>1, <1>5, <1>6

LEMMA TypedTick ==
  ASSUME Typed, NEW t \in Tick, TickStep(t) \/ TickAbort(t)
  PROVE  Typed'
<1> USE DEF db, redis
<1>1. CASE TickBegin(t)
  <2>1. IdleTick \in TickRun
    BY IdleTickType
  <2>2. Batch \subseteq Opp /\ \A o \in Batch : row[o].state \in STAGES \ Terminal
    BY DEF Batch, Selectable, Typed, TypeOK, Row
  <2>3. [o \in Opp |-> IF o \in Batch THEN row[o].state ELSE Absent]
          \in [Opp -> STAGES \cup {Absent}]
    BY <2>2
  <2>4. tick' \in [Tick -> TickRun]
    BY <1>1, <2>1, <2>2, <2>3 DEF TickBegin, Typed, TypeOK, TickRun
  <2>5. /\ tick'[t].mine = Batch /\ tick'[t].todo = Batch /\ tick'[t].phase = "visit"
        /\ tick'[t].seen = [o \in Opp |-> IF o \in Batch THEN row[o].state ELSE Absent]
        /\ tick'[t].mark = [o \in Opp |-> "none"]
    BY <1>1 DEF TickBegin, Typed, TypeOK, IdleTick
  <2>6. \A u \in Tick \ {t} : tick'[u] = tick[u]
    BY <1>1 DEF TickBegin, Typed, TypeOK
  <2>7. Holding'
    BY <2>2, <2>5, <2>6 DEF Typed, Holding
  <2>8. Planned'
    BY <2>5, <2>6 DEF Typed, Planned, At
  <2>9. TypeOK'
    BY <1>1, <2>4 DEF TickBegin, Typed, TypeOK
  <2> QED
    BY <2>7, <2>8, <2>9 DEF Typed
<1>2. ASSUME NEW o \in Opp, TickAdvance(t, o) \/ TickPass(t, o) \/ TickQueue(t, o)
      PROVE  Typed'
  <2>1. At(t, o) /\ UNCHANGED <<db, budget, scan>>
    BY <1>2 DEF TickAdvance, TickPass, TickQueue
  <2>2. tick[t].seen[o] \in STAGES /\ tick[t].plan \in Plans
    BY <2>1 DEF Typed, TypeOK, TickRun, Holding, At
  <2>3. \E m \in Marks : tick' = [tick EXCEPT ![t] = Visited(t, o, m)]
    <3>1. CASE TickAdvance(t, o)
      BY <2>2, <3>1, AutoStageType DEF TickAdvance, Marks, Typed
    <3>2. CASE TickPass(t, o)
      BY <3>2 DEF TickPass, Marks
    <3>3. CASE TickQueue(t, o)
      BY <2>2, <3>3 DEF TickQueue, PlanMark, Plans, Marks, STAGES
    <3> QED
      BY <1>2, <3>1, <3>2, <3>3
  <2>4. tick' \in [Tick -> TickRun] /\ Holding' /\ Planned'
    BY <2>1, <2>3, TypedVisit
  <2>5. jobs' \subseteq Jobs
    <3>1. CASE TickAdvance(t, o) \/ TickPass(t, o)
      BY <3>1 DEF TickAdvance, TickPass, Typed, TypeOK
    <3>2. CASE TickQueue(t, o)
      BY <3>2, <2>1, <2>2, PlanJobsType DEF TickQueue, Typed, TypeOK, Planned
    <3> QED
      BY <1>2, <3>1, <3>2
  <2>6. TypeOK'
    BY <2>1, <2>4, <2>5 DEF Typed, TypeOK
  <2> QED
    BY <2>4, <2>6 DEF Typed
<1>3. ASSUME NEW o \in Opp, TickPlan(t, o)
      PROVE  Typed'
  <2> DEFINE s == tick[t].seen[o]
             p == PlanFor(o, s)
  <2>1. /\ At(t, o) /\ p # "none" /\ p \in Plans
        /\ p = "ask" => s \in Gated
        /\ p = "investigate" => s = "interesting"
    BY <1>3, PlanForType DEF TickPlan
  <2> HIDE DEF p
  <2>2. tick' = [tick EXCEPT ![t].phase = "charge", ![t].plan = p]
    BY <1>3 DEF TickPlan, p
  <2>3. tick' \in [Tick -> TickRun]
    <3>1. tick[t] \in TickRun
      BY DEF Typed, TypeOK
    <3>2. [tick[t] EXCEPT !.phase = "charge", !.plan = p] \in TickRun
      BY <2>1, <3>1 DEF TickRun
    <3> QED
      BY <2>2, <3>2 DEF Typed, TypeOK
  <2>4. /\ tick'[t].mine = tick[t].mine /\ tick'[t].seen = tick[t].seen
        /\ tick'[t].todo = tick[t].todo /\ tick'[t].mark = tick[t].mark
        /\ tick'[t].plan = p
        /\ \A u \in Tick \ {t} : tick'[u] = tick[u]
    BY <2>2 DEF Typed, TypeOK, TickRun
  <2>5. Holding'
    BY <2>4 DEF Typed, Holding
  <2>6. \A e \in Opp : At(t, e)' => e = o
    BY <2>1, <2>4, OneAtATime DEF At
  <2>7. Planned'
    <3> SUFFICES ASSUME NEW u \in Tick, NEW e \in Opp,
                        tick'[u].phase \in {"charge", "queue"}, At(u, e)'
                 PROVE  /\ tick'[u].plan # "none"
                        /\ tick'[u].plan = "ask" => tick'[u].seen[e] \in Gated
                        /\ tick'[u].plan = "investigate" => tick'[u].seen[e] = "interesting"
      BY DEF Planned
    <3>1. CASE u = t
      BY <2>1, <2>4, <2>6, <3>1
    <3>2. CASE u # t
      BY <2>4, <3>2 DEF Typed, Planned, At
    <3> QED
      BY <3>1, <3>2
  <2>8. TypeOK'
    BY <1>3, <2>3 DEF TickPlan, Typed, TypeOK
  <2> QED
    BY <2>5, <2>7, <2>8 DEF Typed
<1>4. ASSUME NEW o \in Opp, TickCharge(t, o)
      PROVE  Typed'
  <2>1. /\ tick[t].plan \in Plans
        /\ tick[t].plan = "ask" => tick[t].seen[o] \in Gated
    BY <1>4 DEF TickCharge, Typed, TypeOK, TickRun, Planned
  <2>2. budget' \in Int
    BY <1>4, <2>1, CostType DEF TickCharge, Typed, TypeOK
  <2>3. tick' = [tick EXCEPT ![t].phase = "queue"] /\ tick[t].phase = "charge"
    BY <1>4 DEF TickCharge
  <2>4. tick' \in [Tick -> TickRun]
    <3>1. tick[t] \in TickRun
      BY DEF Typed, TypeOK
    <3>2. [tick[t] EXCEPT !.phase = "queue"] \in TickRun
      BY <3>1 DEF TickRun
    <3> QED
      BY <2>3, <3>2 DEF Typed, TypeOK
  <2>5. /\ tick'[t].mine = tick[t].mine /\ tick'[t].seen = tick[t].seen
        /\ tick'[t].todo = tick[t].todo /\ tick'[t].mark = tick[t].mark
        /\ tick'[t].plan = tick[t].plan
        /\ \A u \in Tick \ {t} : tick'[u] = tick[u]
    BY <2>3 DEF Typed, TypeOK, TickRun
  <2>6. Holding'
    BY <2>5 DEF Typed, Holding
  <2>7. Planned'
    BY <2>3, <2>5 DEF Typed, Planned, At
  <2>8. TypeOK'
    BY <1>4, <2>2, <2>4 DEF TickCharge, Typed, TypeOK
  <2> QED
    BY <2>6, <2>7, <2>8 DEF Typed
<1>5. CASE TickCommit(t) \/ TickAbort(t)
  <2>1. tick' = [tick EXCEPT ![t] = IdleTick]
    BY <1>5 DEF TickCommit, TickAbort
  <2>2. tick' \in [Tick -> TickRun]
    BY <2>1, IdleTickType DEF Typed, TypeOK
  <2>3. Holding' /\ Planned'
    BY <2>1 DEF Typed, TypeOK, Holding, Planned, At, IdleTick
  <2>4. TypeOK'
    <3>1. CASE TickCommit(t)
      <4>1. row' \in [Opp -> Row]
        BY <3>1, FlushedType DEF TickCommit
      <4>2. fresh' \in [Opp -> BOOLEAN] /\ recent' \in [Opp -> BOOLEAN]
        BY <3>1 DEF TickCommit, Updated, Typed, TypeOK
      <4> QED
        BY <3>1, <2>2, <4>1, <4>2 DEF TickCommit, Typed, TypeOK
    <3>2. CASE TickAbort(t)
      BY <3>2, <2>2 DEF TickAbort, Typed, TypeOK
    <3> QED
      BY <1>5, <3>1, <3>2
  <2> QED
    BY <2>3, <2>4 DEF Typed
<1> QED
  BY <1>1, <1>2, <1>3, <1>4, <1>5 DEF TickStep

\* Everybody else leaves the ticks alone.
OtherStep ==
  \/ \E o \in Opp : Submit(o) \/ Elapse(o) \/ FallDue(o)
  \/ \E o \in Opp, a \in DecisionAction : Decide(o, a)
  \/ \E s \in Scanner, o \in Opp : ScanRead(s, o)
  \/ \E s \in Scanner, o \in Opp, b \in BOOLEAN : ScanWrite(s, o, b)
  \/ \E s \in Scanner : ScanFail(s)
  \/ \E j \in Jobs : RequestJob(j)
  \/ JobStep

LEMMA NextSplits ==
  ASSUME Next
  PROVE  OtherStep \/ \E t \in Tick : TickStep(t) \/ TickAbort(t)
  BY DEF Next, OtherStep

LEMMA DecisionType ==
  ASSUME NEW a \in DecisionAction
  PROVE  decision_state_for_action[a] \in {"approved", "hold", "closed"}
  BY DEF DecisionAction, decision_state_for_action

LEMMA OtherKeepsTicks == OtherStep => tick' = tick
  BY DEF OtherStep, Submit, Elapse, FallDue, Decide, ScanRead, ScanWrite, ScanFail,
         RequestJob, JobStep, Recompute, RunProcess, RunScore, RunResearch, MemoStart,
         MemoFinish, RunContact, JobFail

\* The rows, whoever writes them.
LEMMA OtherKeepsRowType ==
  ASSUME TypeOK, OtherStep
  PROVE  row' \in [Opp -> Row]
<1> USE DEF db
<1>1. ASSUME NEW o \in Opp, Submit(o) PROVE row' \in [Opp -> Row]
  <2>1. [NoRow EXCEPT !.state = "received", !.sla = "pending"] \in Row
    BY NoRowType DEF Row, STAGES
  <2> QED
    BY <1>1, <2>1 DEF Submit, TypeOK
<1>2. ASSUME NEW o \in Opp, NEW a \in DecisionAction, Decide(o, a)
      PROVE  row' \in [Opp -> Row]
  <2> DEFINE new == decision_state_for_action[a]
             moved == transition_opportunity(row[o], row[o].state, new, Human)
  <2>1. new \in STAGES
    BY DecisionType DEF STAGES
  <2>2. row[o] \in Row /\ row[o].state \in STAGES
    BY <1>2 DEF Decide, TypeOK, Exists, Row
  <2>3. moved \in Row
    BY <2>1, <2>2, TransitionType
  <2>4. finalize_sla(o) \in {"none", "met", "breached"}
    BY DEF finalize_sla
  <2> HIDE DEF moved
  <2>5. [moved EXCEPT !.sla = finalize_sla(o)] \in Row
    BY <2>3, <2>4 DEF Row
  <2>6. row' = [row EXCEPT ![o] = [moved EXCEPT !.sla = finalize_sla(o)]]
    BY <1>2 DEF Decide, moved
  <2> QED
    BY <2>5, <2>6 DEF TypeOK
<1>3. ASSUME NEW s \in Scanner, NEW o \in Opp, NEW b \in BOOLEAN, ScanWrite(s, o, b)
      PROVE  row' \in [Opp -> Row]
  <2>1. scan[s].seen \in STAGES \cup {Absent}
    BY DEF TypeOK
  <2>2. ScanRow(o, scan[s].seen, b) \in Row
    BY <2>1, ScanRowType
  <2> QED
    BY <1>3, <2>2 DEF ScanWrite, TypeOK
<1>4. CASE UNCHANGED row
  BY <1>4 DEF TypeOK
<1> QED
  BY <1>1, <1>2, <1>3, <1>4 DEF OtherStep, Elapse, FallDue, ScanRead, ScanFail, RequestJob,
     JobStep, Recompute, RunProcess, RunScore, RunResearch, MemoStart, MemoFinish,
     RunContact, JobFail

LEMMA OtherKeepsType ==
  ASSUME TypeOK, OtherStep
  PROVE  TypeOK'
<1> USE DEF db, redis
<1>1. row' \in [Opp -> Row] /\ tick' = tick
  BY OtherKeepsRowType, OtherKeepsTicks
<1>2. ASSUME NEW o \in Opp, Submit(o) \/ Elapse(o) \/ FallDue(o)
      PROVE  TypeOK'
  <2>1. Submit(o) => process_candidate(Founder[o]) \in Jobs
    BY DEF Jobs
  <2> QED
    BY <1>1, <1>2, <2>1 DEF Submit, Elapse, FallDue, TypeOK
<1>3. ASSUME NEW o \in Opp, NEW a \in DecisionAction, Decide(o, a)
      PROVE  TypeOK'
  BY <1>1, <1>3 DEF Decide, Updated, TypeOK
<1>4. ASSUME NEW s \in Scanner, NEW o \in Opp, ScanRead(s, o)
      PROVE  TypeOK'
  BY <1>1, <1>4 DEF ScanRead, TypeOK, Row
<1>5. ASSUME NEW s \in Scanner, NEW o \in Opp, NEW b \in BOOLEAN, ScanWrite(s, o, b)
      PROVE  TypeOK'
  BY <1>1, <1>5 DEF ScanWrite, NoScan, Updated, TypeOK
<1>6. ASSUME NEW s \in Scanner, ScanFail(s)
      PROVE  TypeOK'
  BY <1>1, <1>6 DEF ScanFail, NoScan, TypeOK
<1>7. ASSUME NEW j \in Jobs, RequestJob(j) \/ JobFail(j)
      PROVE  TypeOK'
  BY <1>1, <1>7 DEF RequestJob, JobFail, TypeOK
<1>8. ASSUME NEW p \in Person, Recompute(p) \/ RunProcess(p) \/ RunScore(p)
      PROVE  TypeOK'
  <2>1. CASE Recompute(p)
    BY <1>1, <2>1 DEF Recompute, TypeOK
  <2>2. CASE RunProcess(p)
    BY <1>1, <2>2 DEF RunProcess, Served, TypeOK
  <2>3. CASE RunScore(p)
    BY <1>1, <2>3 DEF RunScore, Served, TypeOK
  <2> QED
    BY <1>8, <2>1, <2>2, <2>3
<1>9. ASSUME NEW o \in Opp, RunResearch(o) \/ MemoStart(o) \/ MemoFinish(o)
      PROVE  TypeOK'
  <2>1. CASE RunResearch(o)
    BY <1>1, <2>1 DEF RunResearch, Served, TypeOK
  <2>2. CASE MemoStart(o)
    BY <1>1, <2>2 DEF MemoStart, Updated, TypeOK
  <2>3. CASE MemoFinish(o)
    BY <1>1, <2>3 DEF MemoFinish, Served, TypeOK
  <2> QED
    BY <1>9, <2>1, <2>2, <2>3
<1>10. ASSUME NEW p \in Person, NEW o \in Opp, RunContact(p, o)
       PROVE  TypeOK'
  BY <1>1, <1>10 DEF RunContact, Served, TypeOK
<1> QED
  BY <1>2, <1>3, <1>4, <1>5, <1>6, <1>7, <1>8, <1>9, <1>10 DEF OtherStep, JobStep

LEMMA TypedStep == Typed /\ [Next]_vars => Typed'
<1> SUFFICES ASSUME Typed, [Next]_vars PROVE Typed'
  OBVIOUS
<1>1. CASE UNCHANGED vars
  <2>1. UNCHANGED <<row, signal, fscore, claims, axes, memo, outreach, recent, fresh,
                    overdue, budget, jobs, tick, scan>>
    BY <1>1 DEF vars, db, redis
  <2>2. TypeOK'
    BY <2>1 DEF Typed, TypeOK
  <2>3. Holding' /\ Planned'
    BY <2>1 DEF Typed, Holding, Planned, At
  <2> QED
    BY <2>2, <2>3 DEF Typed
<1>2. CASE OtherStep
  <2>1. Holding' /\ Planned'
    BY <1>2, OtherKeepsTicks DEF Typed, Holding, Planned, At
  <2> QED
    BY <1>2, <2>1, OtherKeepsType DEF Typed
<1>3. ASSUME NEW t \in Tick, TickStep(t) \/ TickAbort(t)
      PROVE  Typed'
  BY <1>3, TypedTick
<1> QED
  BY <1>1, <1>2, <1>3, NextSplits

\* The types hold in every reachable state, for any number of opportunities and of
\* overlapping ticks and scans.
THEOREM Types == Spec => []TypeOK
<1>1. Spec => []Typed
  BY TypedInit, TypedStep, PTL DEF Spec
<1>2. Typed => TypeOK
  BY DEF Typed
<1> QED
  BY <1>1, <1>2, PTL

(***************************************************************************)
(* The row locks.  What a tick read stays true until it commits, and what  *)
(* it is going to write is justified by what the database holds then.      *)
(***************************************************************************)
Exclusive ==
  \A t, u \in Tick : t # u => tick[t].mine \cap tick[u].mine = {}

Current ==
  \A t \in Tick : \A o \in tick[t].mine : tick[t].seen[o] = row[o].state

\* The stages a tick may move an opportunity to.
Reached == {"interesting", "investigating", "triage", "screening", "diligence",
            "memo_ready", "closed"}

JustifiedMark(o, seen, m) ==
  /\ m \in STAGES => m \in Reached /\ m \in TRANSITIONS[seen]
  /\ m = "screening"  => fscore[Founder[o]] # "none"
  /\ m = "diligence"  => axes[o]
  /\ m = "memo_ready" => memo[o] = "succeeded"
  /\ m = "closed"     => row[o].retries >= MAX_RETRIES
  /\ m = "retry"      => row[o].retries < MAX_RETRIES

Justified ==
  \A t \in Tick, o \in Opp : JustifiedMark(o, tick[t].seen[o], tick[t].mark[o])

RetryLeft ==
  \A t \in Tick, o \in Opp :
    tick[t].phase \in {"charge", "queue"} /\ At(t, o) /\ tick[t].plan = "retry"
      => row[o].retries < MAX_RETRIES

Locking == Exclusive /\ Current /\ Justified /\ RetryLeft
Inductive == Typed /\ Locking

\* Outputs are never taken back, except supported claims.
Grows ==
  /\ \A p \in Person : fscore[p] # "none" => fscore'[p] # "none"
  /\ \A o \in Opp : axes[o] => axes'[o]
  /\ \A o \in Opp : memo[o] = "succeeded" => memo'[o] = "succeeded"

LEMMA FounderType ==
  ASSUME NEW o \in Opp
  PROVE  Founder[o] \in Person
  BY DEF PipelineAssumption

LEMMA LockedExist ==
  ASSUME Inductive, NEW o \in Opp, o \in Locked
  PROVE  Exists(o) /\ row[o].state \notin Terminal
  BY DEF Inductive, Typed, Locking, Holding, Current, Locked, Exists, STAGES, Absent

LEMMA OtherGrows ==
  ASSUME TypeOK, OtherStep
  PROVE  Grows
<1> USE DEF db
<1>1. CASE UNCHANGED <<fscore, axes, memo>>
  BY <1>1 DEF Grows
<1>2. ASSUME NEW p \in Person, RunScore(p) PROVE Grows
  BY <1>2 DEF RunScore, Grows, TypeOK
<1>3. ASSUME NEW o \in Opp, RunResearch(o) PROVE Grows
  BY <1>3 DEF RunResearch, Grows, TypeOK
<1>4. ASSUME NEW o \in Opp, MemoStart(o) \/ MemoFinish(o) PROVE Grows
  BY <1>4 DEF MemoStart, MemoFinish, Grows, TypeOK
<1>5. ASSUME NEW j \in Jobs, JobFail(j) PROVE Grows
  BY <1>5 DEF JobFail, Grows, TypeOK
<1> QED
  BY <1>1, <1>2, <1>3, <1>4, <1>5 DEF OtherStep, Submit, Elapse, FallDue, Decide, ScanRead,
     ScanWrite, ScanFail, RequestJob, JobStep, Recompute, RunProcess, RunContact

\* Everybody else waits for the lock of a row before writing it.
LEMMA OtherSparesLocked ==
  ASSUME Inductive, OtherStep, NEW o \in Opp, o \in Locked
  PROVE  row'[o] = row[o]
<1> USE DEF db
<1>1. row \in [Opp -> Row]
  BY DEF Inductive, Typed, TypeOK
<1>2. ASSUME NEW e \in Opp, Submit(e) PROVE row'[o] = row[o]
  BY <1>1, <1>2, LockedExist DEF Submit
<1>3. ASSUME NEW e \in Opp, NEW a \in DecisionAction, Decide(e, a)
      PROVE  row'[o] = row[o]
  BY <1>1, <1>3 DEF Decide
<1>4. ASSUME NEW s \in Scanner, NEW e \in Opp, NEW b \in BOOLEAN, ScanWrite(s, e, b)
      PROVE  row'[o] = row[o]
  BY <1>1, <1>4 DEF ScanWrite
<1>5. CASE UNCHANGED row
  BY <1>5
<1> QED
  BY <1>2, <1>3, <1>4, <1>5 DEF OtherStep, Elapse, FallDue, ScanRead, ScanFail, RequestJob,
     JobStep, Recompute, RunProcess, RunScore, RunResearch, MemoStart, MemoFinish,
     RunContact, JobFail

LEMMA LockingInit == Init => Locking
<1> SUFFICES ASSUME Init PROVE Locking
  OBVIOUS
<1>1. /\ \A t \in Tick : tick[t].mine = {} /\ tick[t].todo = {}
      /\ \A t \in Tick, o \in Opp : tick[t].mark[o] = "none"
  BY DEF Init, IdleTick
<1>2. Exclusive /\ Current /\ RetryLeft
  BY <1>1 DEF Exclusive, Current, RetryLeft, At
<1>3. Justified
  BY <1>1 DEF Justified, JustifiedMark, STAGES
<1> QED
  BY <1>2, <1>3 DEF Locking

LEMMA LockingOther ==
  ASSUME Inductive, OtherStep
  PROVE  Locking'
<1>1. tick' = tick
  BY OtherKeepsTicks
<1>2. \A t \in Tick : \A o \in tick[t].mine : o \in Opp /\ o \in Locked
  BY DEF Inductive, Typed, TypeOK, TickRun, Locked
<1>3. \A t \in Tick : \A o \in tick[t].mine : row'[o] = row[o]
  BY <1>2, OtherSparesLocked
<1>4. Exclusive' /\ Current'
  BY <1>1, <1>3 DEF Inductive, Locking, Exclusive, Current
<1>5. RetryLeft'
  BY <1>1, <1>3 DEF Inductive, Typed, Holding, Locking, RetryLeft, At
<1>6. Justified'
  <2> SUFFICES ASSUME NEW t \in Tick, NEW o \in Opp
               PROVE  JustifiedMark(o, tick[t].seen[o], tick[t].mark[o])'
    BY DEF Justified
  <2>1. JustifiedMark(o, tick[t].seen[o], tick[t].mark[o])
    BY DEF Inductive, Locking, Justified
  <2>2. CASE tick[t].mark[o] = "none"
    BY <1>1, <2>2 DEF JustifiedMark, STAGES
  <2>3. CASE tick[t].mark[o] # "none"
    <3>1. row'[o] = row[o]
      BY <1>3, <2>3 DEF Inductive, Typed, Holding
    <3>2. Grows
      BY OtherGrows DEF Inductive, Typed
    <3> QED
      BY <1>1, <2>1, <3>1, <3>2, FounderType DEF JustifiedMark, Grows
  <2> QED
    BY <2>2, <2>3
<1> QED
  BY <1>4, <1>5, <1>6 DEF Locking

\* A visit that reads the database, spends or not, and writes nothing to it.
LEMMA LockingVisit ==
  ASSUME Inductive, NEW t \in Tick, NEW o \in Opp, NEW m \in Marks,
         UNCHANGED db, tick' = [tick EXCEPT ![t] = Visited(t, o, m)],
         JustifiedMark(o, tick[t].seen[o], m)
  PROVE  Locking'
<1>1. UNCHANGED <<row, fscore, axes, memo>>
  BY DEF db
<1>2. /\ tick'[t].mine = tick[t].mine /\ tick'[t].seen = tick[t].seen
      /\ tick'[t].phase = "visit"
      /\ \A e \in Opp : tick'[t].mark[e] = IF e = o THEN m ELSE tick[t].mark[e]
  BY DEF Inductive, Typed, TypeOK, TickRun, Visited
<1>3. \A u \in Tick \ {t} : tick'[u] = tick[u]
  BY DEF Inductive, Typed, TypeOK
<1>4. Exclusive' /\ Current' /\ RetryLeft'
  BY <1>1, <1>2, <1>3 DEF Inductive, Locking, Exclusive, Current, RetryLeft, At
<1>5. Justified'
  BY <1>1, <1>2, <1>3 DEF Inductive, Locking, Justified, JustifiedMark
<1> QED
  BY <1>4, <1>5 DEF Locking

\* A move the visit makes for free is justified by what it has just read.
LEMMA AutoStageJustified ==
  ASSUME Inductive, NEW t \in Tick, NEW o \in Opp, At(t, o),
         AutoStage(o, tick[t].seen[o]) # tick[t].seen[o]
  PROVE  JustifiedMark(o, tick[t].seen[o], AutoStage(o, tick[t].seen[o]))
<1> DEFINE s == tick[t].seen[o]
<1>1. s \in STAGES /\ row[o].retries \in Nat
  BY DEF Inductive, Typed, TypeOK, Holding, At, Row
<1>2. /\ s = "discovered" => AutoStage(o, s) \in {s, "interesting"}
      /\ s = "investigating" => AutoStage(o, s) \in {s, "closed"}
      /\ s = "received" => AutoStage(o, s) \in {s, "triage"}
      /\ s = "triage" => AutoStage(o, s) \in {s, "screening"}
      /\ s = "screening" => AutoStage(o, s) \in {s, "diligence"}
      /\ s = "diligence" => AutoStage(o, s) \in {s, "memo_ready"}
      /\ s \notin Gated \cup {"discovered", "investigating"} => AutoStage(o, s) = s
  BY DEF AutoStage, Gate, Gated
<1>3. /\ AutoStage(o, s) # s /\ s = "investigating" => row[o].retries >= MAX_RETRIES
      /\ AutoStage(o, s) # s /\ s \in Gated => HasOutput(s, o)
  BY DEF AutoStage, Gate, Gated
<1>4. /\ HasOutput("triage", o) => fscore[Founder[o]] # "none"
      /\ HasOutput("screening", o) => axes[o]
      /\ HasOutput("diligence", o) => memo[o] = "succeeded"
  BY DEF HasOutput
<1> DEFINE m == AutoStage(o, s)
<1>5. \/ s = "discovered" /\ m = "interesting"
      \/ s = "investigating" /\ m = "closed" /\ row[o].retries >= MAX_RETRIES
      \/ s = "received" /\ m = "triage"
      \/ s = "triage" /\ m = "screening" /\ fscore[Founder[o]] # "none"
      \/ s = "screening" /\ m = "diligence" /\ axes[o]
      \/ s = "diligence" /\ m = "memo_ready" /\ memo[o] = "succeeded"
  BY <1>1, <1>2, <1>3, <1>4 DEF Gated
<1> HIDE DEF s, m
<1>6. JustifiedMark(o, s, m)
  BY <1>5 DEF JustifiedMark, Reached, STAGES, TRANSITIONS
<1> QED
  BY <1>6 DEF s, m

LEMMA LockingTick ==
  ASSUME Inductive, NEW t \in Tick, TickStep(t) \/ TickAbort(t)
  PROVE  Locking'
<1> USE DEF redis
<1>1. CASE TickBegin(t)
  <2>1. /\ tick'[t].mine = Batch /\ tick'[t].todo = Batch /\ tick'[t].phase = "visit"
        /\ tick'[t].seen = [o \in Opp |-> IF o \in Batch THEN row[o].state ELSE Absent]
        /\ tick'[t].mark = [o \in Opp |-> "none"]
        /\ \A u \in Tick \ {t} : tick'[u] = tick[u]
    BY <1>1 DEF TickBegin, Inductive, Typed, TypeOK, IdleTick
  <2>2. UNCHANGED <<row, fscore, axes, memo>>
    BY <1>1 DEF TickBegin, db
  <2>3. Batch \subseteq Opp /\ \A u \in Tick : Batch \cap tick[u].mine = {}
    BY DEF Batch, Selectable, Locked
  <2>4. Exclusive'
    BY <2>1, <2>3 DEF Inductive, Locking, Exclusive
  <2>5. Current'
    BY <2>1, <2>2, <2>3 DEF Inductive, Locking, Current
  <2>6. RetryLeft'
    BY <2>1, <2>2 DEF Inductive, Locking, RetryLeft, At
  <2>7. Justified'
    BY <2>1, <2>2 DEF Inductive, Locking, Justified, JustifiedMark, STAGES
  <2> QED
    BY <2>4, <2>5, <2>6, <2>7 DEF Locking
<1>2. ASSUME NEW o \in Opp, TickAdvance(t, o)
      PROVE  Locking'
  <2> DEFINE m == AutoStage(o, tick[t].seen[o])
  <2>1. At(t, o) /\ m # tick[t].seen[o] /\ UNCHANGED db
        /\ tick' = [tick EXCEPT ![t] = Visited(t, o, m)]
    BY <1>2 DEF TickAdvance
  <2>2. JustifiedMark(o, tick[t].seen[o], m)
    BY <2>1, AutoStageJustified
  <2>3. tick[t].seen[o] \in STAGES
    BY <2>1 DEF Inductive, Typed, TypeOK, Holding, At
  <2>4. m \in Marks
    BY <2>3, AutoStageType DEF Inductive, Typed, Marks
  <2> HIDE DEF m
  <2> QED
    BY <2>1, <2>2, <2>4, LockingVisit
<1>3. ASSUME NEW o \in Opp, TickPass(t, o)
      PROVE  Locking'
  <2>1. JustifiedMark(o, tick[t].seen[o], "none") /\ "none" \in Marks
    BY DEF JustifiedMark, STAGES, Marks
  <2> QED
    BY <1>3, <2>1, LockingVisit DEF TickPass
<1>4. ASSUME NEW o \in Opp, TickQueue(t, o)
      PROVE  Locking'
  <2> DEFINE p == tick[t].plan
  <2>1. /\ p \in Plans /\ At(t, o) /\ tick[t].phase = "queue" /\ UNCHANGED db
        /\ tick' = [tick EXCEPT ![t] = Visited(t, o, PlanMark(p))]
    BY <1>4 DEF TickQueue, Inductive, Typed, TypeOK, TickRun, db
  <2>2. p = "investigate" => tick[t].seen[o] = "interesting"
    BY <2>1 DEF Inductive, Typed, Planned
  <2>3. p = "retry" => row[o].retries < MAX_RETRIES
    BY <2>1 DEF Inductive, Locking, RetryLeft
  <2> HIDE DEF p
  <2>4. PlanMark(p) \in Marks
    BY <2>1 DEF PlanMark, Plans, Marks, STAGES
  <2>5. JustifiedMark(o, tick[t].seen[o], PlanMark(p))
    BY <2>1, <2>2, <2>3
       DEF PlanMark, Plans, JustifiedMark, STAGES, Reached, TRANSITIONS
  <2> QED
    BY <2>1, <2>4, <2>5, LockingVisit
<1>5. ASSUME NEW o \in Opp, TickPlan(t, o) \/ TickCharge(t, o)
      PROVE  Locking'
  <2>1. UNCHANGED <<row, fscore, axes, memo>>
    BY <1>5 DEF TickPlan, TickCharge, db
  <2>2. /\ tick'[t].mine = tick[t].mine /\ tick'[t].seen = tick[t].seen
        /\ tick'[t].todo = tick[t].todo /\ tick'[t].mark = tick[t].mark
        /\ \A u \in Tick \ {t} : tick'[u] = tick[u]
    BY <1>5 DEF TickPlan, TickCharge, Inductive, Typed, TypeOK, TickRun
  <2>3. Exclusive' /\ Current'
    BY <2>1, <2>2 DEF Inductive, Locking, Exclusive, Current
  <2>4. Justified'
    BY <2>1, <2>2 DEF Inductive, Locking, Justified, JustifiedMark
  <2>5. \A e \in Opp : At(t, e)' => e = o /\ At(t, e)
    BY <1>5, <2>2, OneAtATime DEF TickPlan, TickCharge, At
  <2>6. tick'[t].plan = "retry" => row[o].retries < MAX_RETRIES
    <3>1. CASE TickPlan(t, o)
      <4>1. tick'[t].plan = PlanFor(o, tick[t].seen[o])
        BY <3>1 DEF TickPlan, Inductive, Typed, TypeOK, TickRun
      <4> QED
        BY <4>1 DEF PlanFor
    <3>2. CASE TickCharge(t, o)
      BY <3>2 DEF TickCharge, Inductive, Typed, TypeOK, TickRun, Locking, RetryLeft
    <3> QED
      BY <1>5, <3>1, <3>2
  <2>7. RetryLeft'
    <3> SUFFICES ASSUME NEW u \in Tick, NEW e \in Opp, At(u, e)',
                        tick'[u].phase \in {"charge", "queue"}, tick'[u].plan = "retry"
                 PROVE  row[e].retries < MAX_RETRIES
      BY <2>1 DEF RetryLeft
    <3>1. CASE u = t
      BY <2>5, <2>6, <3>1
    <3>2. CASE u # t
      BY <2>2, <3>2 DEF Inductive, Locking, RetryLeft, At
    <3> QED
      BY <3>1, <3>2
  <2> QED
    BY <2>3, <2>4, <2>7 DEF Locking
<1>6. CASE TickCommit(t) \/ TickAbort(t)
  <2>1. /\ tick' = [tick EXCEPT ![t] = IdleTick]
        /\ UNCHANGED <<fscore, axes, memo>>
    BY <1>6 DEF TickCommit, TickAbort, db
  <2>2. /\ tick'[t].mine = {} /\ tick'[t].todo = {}
        /\ \A o \in Opp : tick'[t].mark[o] = "none"
        /\ \A u \in Tick \ {t} : tick'[u] = tick[u]
    BY <2>1 DEF Inductive, Typed, TypeOK, IdleTick
  <2>3. \A u \in Tick \ {t} : \A o \in tick[u].mine : row'[o] = row[o]
    <3>1. CASE TickCommit(t)
      <4> SUFFICES ASSUME NEW u \in Tick \ {t}, NEW o \in tick[u].mine
                   PROVE  row'[o] = row[o]
        OBVIOUS
      <4>1. o \in Opp /\ o \notin tick[t].mine
        BY DEF Inductive, Typed, TypeOK, TickRun, Locking, Exclusive
      <4>2. tick[t].mark[o] = "none"
        BY <4>1 DEF Inductive, Typed, Holding
      <4>3. Flushed(t, o) = row[o]
        BY <4>2 DEF Flushed, STAGES
      <4> QED
        BY <3>1, <4>1, <4>3 DEF TickCommit
    <3>2. CASE TickAbort(t)
      BY <3>2 DEF TickAbort, db
    <3> QED
      BY <1>6, <3>1, <3>2
  <2>4. Exclusive' /\ Current'
    BY <2>2, <2>3 DEF Inductive, Locking, Exclusive, Current
  <2>5. RetryLeft'
    BY <2>2, <2>3 DEF Inductive, Typed, Holding, Locking, RetryLeft, At
  <2>6. Justified'
    <3> SUFFICES ASSUME NEW u \in Tick, NEW o \in Opp
                 PROVE  JustifiedMark(o, tick[u].seen[o], tick[u].mark[o])'
      BY DEF Justified
    <3>1. CASE tick'[u].mark[o] = "none"
      BY <3>1 DEF JustifiedMark, STAGES
    <3>2. CASE tick'[u].mark[o] # "none"
      <4>1. u # t /\ tick'[u] = tick[u] /\ o \in tick[u].mine
        BY <2>2, <3>2 DEF Inductive, Typed, Holding
      <4>2. row'[o] = row[o]
        BY <2>3, <4>1
      <4> QED
        BY <2>1, <4>1, <4>2 DEF Inductive, Locking, Justified, JustifiedMark
    <3> QED
      BY <3>1, <3>2
  <2> QED
    BY <2>4, <2>5, <2>6 DEF Locking
<1> QED
  BY <1>1, <1>2, <1>3, <1>4, <1>5, <1>6 DEF TickStep

LEMMA InductiveInit == Init => Inductive
  BY TypedInit, LockingInit DEF Inductive

LEMMA InductiveStep == Inductive /\ [Next]_vars => Inductive'
<1> SUFFICES ASSUME Inductive, [Next]_vars PROVE Inductive'
  OBVIOUS
<1>1. Typed'
  BY TypedStep DEF Inductive
<1>2. Locking'
  <2>1. CASE UNCHANGED vars
    <3>1. UNCHANGED <<row, fscore, axes, memo, tick>>
      BY <2>1 DEF vars, db
    <3> QED
      BY <3>1 DEF Inductive, Locking, Exclusive, Current, Justified, JustifiedMark,
                  RetryLeft, At
  <2>2. CASE OtherStep
    BY <2>2, LockingOther
  <2>3. ASSUME NEW t \in Tick, TickStep(t) \/ TickAbort(t) PROVE Locking'
    BY <2>3, LockingTick
  <2> QED
    BY <2>1, <2>2, <2>3, NextSplits
<1> QED
  BY <1>1, <1>2 DEF Inductive

\* The inductive invariant holds for any number of opportunities, ticks and scans.
THEOREM InductiveInvariant == Spec => []Inductive
  BY InductiveInit, InductiveStep, PTL DEF Spec

(***************************************************************************)
(* The five ways a row changes.                                            *)
(***************************************************************************)
Creation(o) ==
  /\ o \in Inbound /\ ~Exists(o)
  /\ row'[o] = [NoRow EXCEPT !.state = "received", !.sla = "pending"]

WorkerMove(o) ==
  /\ Exists(o)
  /\ \E m \in Reached \cap TRANSITIONS[row[o].state] :
       /\ JustifiedMark(o, row[o].state, m)
       /\ row'[o] = transition_opportunity(row[o], row[o].state, m, Worker)

WorkerRetry(o) ==
  /\ Exists(o)
  /\ row[o].retries < MAX_RETRIES
  /\ row'[o] = [row[o] EXCEPT !.retries = @ + 1]

HumanMove(o) ==
  /\ Exists(o) /\ memo[o] = "succeeded"
  /\ \E new \in {"approved", "hold", "closed"} \cap TRANSITIONS[row[o].state] :
       row'[o] = [transition_opportunity(row[o], row[o].state, new, Human)
                    EXCEPT !.sla = finalize_sla(o)]

ScanMove(o) ==
  /\ o \in Outbound
  /\ \E seen \in STAGES \cup {Absent}, b \in BOOLEAN :
       /\ seen = Absent => ~Exists(o)
       /\ row'[o] = ScanRow(o, seen, b)

LEMMA FlushedCases ==
  ASSUME Inductive, NEW t \in Tick, NEW o \in Opp, TickCommit(t), row'[o] # row[o]
  PROVE  /\ o \in tick[t].mine
         /\ WorkerMove(o) \/ WorkerRetry(o)
<1> DEFINE m == tick[t].mark[o]
<1>1. m \in Marks /\ row'[o] = Flushed(t, o)
  BY DEF TickCommit, Inductive, Typed, TypeOK, TickRun
<1>2. m \in STAGES \cup {"retry"}
  BY <1>1 DEF Flushed, Marks
<1>3. m # "none"
  BY <1>2 DEF STAGES
<1>4. o \in tick[t].mine
  BY <1>3 DEF Inductive, Typed, Holding
<1>5. tick[t].seen[o] = row[o].state /\ row[o].state \in STAGES
  BY <1>4 DEF Inductive, Typed, Holding, Locking, Current
<1>6. Exists(o)
  BY <1>5 DEF Exists, STAGES, Absent
<1>7. JustifiedMark(o, row[o].state, m)
  BY <1>5 DEF Inductive, Locking, Justified
<1>8. CASE m \in STAGES
  <2>1. m # "retry"
    BY <1>8 DEF STAGES
  <2>2. row'[o] = transition_opportunity(row[o], row[o].state, m, Worker)
    BY <1>1, <1>5, <1>8, <2>1 DEF Flushed
  <2>3. m \in Reached \cap TRANSITIONS[row[o].state]
    BY <1>7, <1>8 DEF JustifiedMark
  <2> QED
    BY <1>4, <1>6, <1>7, <2>2, <2>3 DEF WorkerMove
<1>9. CASE m = "retry"
  <2>1. m \notin STAGES
    BY <1>9 DEF STAGES
  <2>2. row'[o] = [row[o] EXCEPT !.retries = @ + 1]
    BY <1>1, <1>9, <2>1 DEF Flushed
  <2> QED
    BY <1>4, <1>6, <1>7, <1>9, <2>2 DEF WorkerRetry, JustifiedMark
<1> QED
  BY <1>2, <1>8, <1>9

LEMMA RowChanges ==
  ASSUME Inductive, [Next]_vars, NEW o \in Opp, row'[o] # row[o]
  PROVE  Creation(o) \/ WorkerMove(o) \/ WorkerRetry(o) \/ HumanMove(o) \/ ScanMove(o)
<1> USE DEF db
<1>1. row \in [Opp -> Row]
  BY DEF Inductive, Typed, TypeOK
<1>2. row' # row
  OBVIOUS
<1>3. ASSUME NEW e \in Opp, Submit(e) PROVE Creation(o)
  BY <1>1, <1>3 DEF Submit, Creation
<1>4. ASSUME NEW e \in Opp, NEW a \in DecisionAction, Decide(e, a)
      PROVE  HumanMove(o)
  <2> DEFINE new == decision_state_for_action[a]
  <2>1. e = o /\ Exists(o) /\ memo[o] = "succeeded"
    BY <1>1, <1>4 DEF Decide
  <2>2. new \in {"approved", "hold", "closed"}
    BY DecisionType
  <2>3. new \in TRANSITIONS[row[o].state]
    BY <1>4, <2>1 DEF Decide, is_valid_transition
  <2>4. row'[o] = [transition_opportunity(row[o], row[o].state, new, Human)
                     EXCEPT !.sla = finalize_sla(o)]
    BY <1>1, <1>4, <2>1 DEF Decide
  <2> QED
    BY <2>1, <2>2, <2>3, <2>4 DEF HumanMove
<1>5. ASSUME NEW s \in Scanner, NEW e \in Opp, NEW b \in BOOLEAN, ScanWrite(s, e, b)
      PROVE  ScanMove(o)
  <2>1. e = o /\ row'[o] = ScanRow(o, scan[s].seen, b) /\ scan[s].opp = o
    BY <1>1, <1>5 DEF ScanWrite
  <2>2. o # 0
    BY DEF Opp
  <2>3. o \in Outbound /\ scan[s].seen \in STAGES \cup {Absent}
    BY <2>1, <2>2 DEF Inductive, Typed, TypeOK
  <2>4. scan[s].seen = Absent => ~Exists(o)
    BY <1>5, <2>1 DEF ScanWrite
  <2> QED
    BY <2>1, <2>3, <2>4 DEF ScanMove
<1>6. ASSUME NEW t \in Tick, TickStep(t) \/ TickAbort(t)
      PROVE  WorkerMove(o) \/ WorkerRetry(o)
  <2>1. TickCommit(t)
    BY <1>2, <1>6 DEF TickStep, TickBegin, TickAdvance, TickPlan, TickPass, TickCharge,
                      TickQueue, TickAbort
  <2> QED
    BY <2>1, FlushedCases
<1>7. CASE OtherStep
  BY <1>2, <1>3, <1>4, <1>5, <1>7 DEF OtherStep, Elapse, FallDue, ScanRead, ScanFail,
     RequestJob, JobStep, Recompute, RunProcess, RunScore, RunResearch, MemoStart,
     MemoFinish, RunContact, JobFail
<1>8. CASE UNCHANGED vars
  BY <1>2, <1>8 DEF vars
<1> QED
  BY <1>6, <1>7, <1>8, NextSplits

LEMMA NextGrows ==
  ASSUME Inductive, [Next]_vars
  PROVE  Grows
<1>1. CASE UNCHANGED vars
  BY <1>1 DEF vars, db, Grows
<1>2. CASE OtherStep
  BY <1>2, OtherGrows DEF Inductive, Typed
<1>3. ASSUME NEW t \in Tick, TickStep(t) \/ TickAbort(t) PROVE Grows
  <2>1. UNCHANGED <<fscore, axes, memo>>
    BY <1>3 DEF TickStep, TickBegin, TickAdvance, TickPlan, TickPass, TickCharge,
                TickQueue, TickCommit, TickAbort, db
  <2> QED
    BY <2>1 DEF Grows
<1> QED
  BY <1>1, <1>2, <1>3, NextSplits

(***************************************************************************)
(* The theorems.                                                           *)
(***************************************************************************)
\* SELECT ... FOR UPDATE SKIP LOCKED does its work: between the SELECT and the commit
\* of a tick nobody else writes the rows it holds, whatever people, scans, jobs and
\* other ticks do.
THEOREM LocksHold == Spec => LockedRowsStandStill
<1> DEFINE Still == \A t \in Tick : \A o \in tick[t].mine :
      row'[o] # row[o] => tick'[t].phase = "idle" /\ row'[o] = Flushed(t, o)
<1>1. Inductive /\ [Next]_vars => [Still]_vars
  <2> SUFFICES ASSUME Inductive, Next, NEW t \in Tick, NEW o \in tick[t].mine,
                      row'[o] # row[o]
               PROVE  tick'[t].phase = "idle" /\ row'[o] = Flushed(t, o)
    OBVIOUS
  <2>1. o \in Opp /\ o \in Locked
    BY DEF Inductive, Typed, TypeOK, TickRun, Locked
  <2>2. ~OtherStep
    BY <2>1, OtherSparesLocked
  <2>3. PICK u \in Tick : TickStep(u) \/ TickAbort(u)
    BY <2>2, NextSplits
  <2>4. TickCommit(u)
    BY <2>3 DEF TickStep, TickBegin, TickAdvance, TickPlan, TickPass, TickCharge,
                TickQueue, TickAbort, db
  <2>5. u = t
    BY <2>1, <2>4, FlushedCases DEF Inductive, Locking, Exclusive
  <2> QED
    BY <2>1, <2>4, <2>5 DEF TickCommit, Inductive, Typed, TypeOK, IdleTick
<1> QED
  BY <1>1, InductiveInvariant, PTL DEF Spec, LockedRowsStandStill

LEMMA LanesDisjoint == \A o \in Inbound : o \in Opp /\ o \notin Outbound
  BY DEF Inbound, Outbound, Opp

LEMMA AbsentNotStage == Absent \notin STAGES
  BY DEF Absent, STAGES

\* The contract's constants are the same in the abstract module.
LEMMA SameContract ==
  LC!Absent = Absent /\ LC!STAGES = STAGES /\ LC!TRANSITIONS = TRANSITIONS
  BY DEF LC!Absent, Absent, LC!STAGES, STAGES, LC!TRANSITIONS, TRANSITIONS

LEMMA FollowsCases ==
  ASSUME NEW from, NEW to
  PROVE  LC!Follows(from, to) <=> \/ to = from
                                  \/ from = Absent /\ to = "received"
                                  \/ from \in STAGES /\ to \in TRANSITIONS[from]
  BY SameContract DEF LC!Follows

\* The inbound opportunities, seen through their stages alone, follow the abstract
\* lifecycle: they appear at "received" and take edges of TRANSITIONS only.
THEOREM Refinement == Spec => ImplementsLifecycle
<1>1. Init => LC!Init
  BY LanesDisjoint, SameContract DEF Init, LC!Init, NoRow
<1>2. Inductive /\ [Next]_vars => [LC!Next]_([o \in Inbound |-> row[o].state])
  <2> SUFFICES ASSUME Inductive, [Next]_vars PROVE LC!Next
    OBVIOUS
  <2>1. Inductive'
    BY InductiveStep
  <2>2. row \in [Opp -> Row] /\ row' \in [Opp -> Row]
    BY <2>1 DEF Inductive, Typed, TypeOK
  <2>3. [o \in Inbound |-> row'[o].state] \in [Inbound -> STAGES \cup {Absent}]
    BY <2>2, LanesDisjoint DEF Row
  <2>4. ASSUME NEW o \in Inbound
        PROVE  LC!Follows(row[o].state, row'[o].state)
    <3>1. CASE row'[o] = row[o]
      BY <3>1, FollowsCases
    <3>2. CASE row'[o] # row[o]
      <4>1. /\ o \in Opp /\ row[o] \in Row
            /\ row[o].state \in STAGES \cup {Absent}
        BY <2>2, LanesDisjoint DEF Row
      <4>2. Creation(o) \/ WorkerMove(o) \/ WorkerRetry(o) \/ HumanMove(o)
        BY <3>2, <4>1, RowChanges, LanesDisjoint DEF ScanMove
      <4>3. CASE Creation(o)
        <5>1. row'[o].state = "received"
          BY <4>3 DEF Creation, NoRow
        <5> QED
          BY <4>3, <5>1, FollowsCases DEF Creation, Exists
      <4>4. CASE WorkerMove(o)
        <5>1. PICK m \in TRANSITIONS[row[o].state] :
                row'[o] = transition_opportunity(row[o], row[o].state, m, Worker)
          BY <4>4 DEF WorkerMove
        <5>2. row'[o].state = m
          BY <4>1, <5>1 DEF transition_opportunity, Row
        <5> QED
          BY <4>1, <4>4, <5>2, FollowsCases DEF WorkerMove, Exists
      <4>5. CASE WorkerRetry(o)
        BY <4>1, <4>5, FollowsCases DEF WorkerRetry, Row
      <4>6. CASE HumanMove(o)
        <5>1. PICK new \in TRANSITIONS[row[o].state] :
                row'[o] = [transition_opportunity(row[o], row[o].state, new, Human)
                             EXCEPT !.sla = finalize_sla(o)]
          BY <4>6 DEF HumanMove
        <5>2. row'[o].state = new
          BY <4>1, <5>1 DEF transition_opportunity, Row
        <5> QED
          BY <4>1, <4>6, <5>2, FollowsCases DEF HumanMove, Exists
      <4> QED
        BY <4>2, <4>3, <4>4, <4>5, <4>6
    <3> QED
      BY <3>1, <3>2
  <2> QED
    BY <2>3, <2>4, SameContract DEF LC!Next
<1> QED
  BY <1>1, <1>2, InductiveInvariant, PTL DEF Spec, ImplementsLifecycle, LC!Spec

\* The evidence is there before the stage is: no interleaving of ticks, jobs and people
\* enters screening, diligence, memo_ready or a decision without it.
THEOREM Evidence == Spec => []EvidenceBehindStage
<1>1. Init => EvidenceBehindStage
  BY DEF Init, NoRow, EvidenceBehindStage, Absent, Decided
<1>2. Inductive /\ EvidenceBehindStage /\ [Next]_vars => EvidenceBehindStage'
  <2> SUFFICES ASSUME Inductive, EvidenceBehindStage, [Next]_vars, NEW o \in Opp
               PROVE  LET s == row'[o].state IN
                      /\ s \in {"screening", "diligence", "memo_ready"} \cup Decided
                           => fscore'[Founder[o]] # "none"
                      /\ s \in {"diligence", "memo_ready"} \cup Decided => axes'[o]
                      /\ s \in {"memo_ready"} \cup Decided => memo'[o] = "succeeded"
    BY DEF EvidenceBehindStage
  <2>1. /\ fscore[Founder[o]] # "none" => fscore'[Founder[o]] # "none"
        /\ axes[o] => axes'[o]
        /\ memo[o] = "succeeded" => memo'[o] = "succeeded"
    BY NextGrows, FounderType DEF Grows
  <2>2. row[o] \in Row
    BY DEF Inductive, Typed, TypeOK
  <2>3. row[o].state \in STAGES \cup {Absent}
    BY <2>2 DEF Row
  <2>4. CASE row'[o].state = row[o].state
    BY <2>1, <2>4 DEF EvidenceBehindStage
  <2>5. CASE WorkerMove(o)
    <3>1. PICK m \in Reached \cap TRANSITIONS[row[o].state] :
            /\ JustifiedMark(o, row[o].state, m)
            /\ row'[o] = transition_opportunity(row[o], row[o].state, m, Worker)
      BY <2>5 DEF WorkerMove
    <3>2. row'[o].state = m
      BY <2>2, <3>1 DEF transition_opportunity, Row
    <3>3. row[o].state \in STAGES
      BY <2>3, <2>5 DEF WorkerMove, Exists
    <3>4. /\ m = "screening" => fscore[Founder[o]] # "none"
          /\ m = "diligence" => axes[o] /\ row[o].state = "screening"
          /\ m = "memo_ready" => memo[o] = "succeeded" /\ row[o].state = "diligence"
          /\ m \notin Decided
      BY <3>1, <3>3 DEF JustifiedMark, STAGES, TRANSITIONS, Reached, Decided
    <3> QED
      BY <2>1, <3>2, <3>4 DEF EvidenceBehindStage
  <2>6. CASE HumanMove(o)
    <3>1. PICK new \in {"approved", "hold", "closed"} \cap TRANSITIONS[row[o].state] :
            row'[o] = [transition_opportunity(row[o], row[o].state, new, Human)
                         EXCEPT !.sla = finalize_sla(o)]
      BY <2>6 DEF HumanMove
    <3>2. row'[o].state = new
      BY <2>2, <3>1 DEF transition_opportunity, Row
    <3>3. row[o].state \in STAGES
      BY <2>3, <2>6 DEF HumanMove, Exists
    <3>4. new \in Decided => row[o].state \in {"memo_ready", "hold"}
      BY <3>1, <3>3 DEF STAGES, TRANSITIONS, Decided
    <3> QED
      BY <2>1, <3>1, <3>2, <3>4 DEF EvidenceBehindStage, Decided
  <2>7. CASE Creation(o) \/ ScanMove(o)
    <3>1. row'[o].state \in {row[o].state, "received", "discovered", "interesting"}
      <4>1. CASE Creation(o)
        BY <4>1 DEF Creation, NoRow
      <4>2. CASE ScanMove(o)
        BY <2>2, <4>2 DEF ScanMove, ScanRow, transition_opportunity, NoRow, Row
      <4> QED
        BY <2>7, <4>1, <4>2
    <3> QED
      BY <2>4, <3>1 DEF Decided
  <2>8. CASE WorkerRetry(o)
    BY <2>2, <2>4, <2>8 DEF WorkerRetry, Row
  <2> QED
    BY <2>4, <2>5, <2>6, <2>7, <2>8, RowChanges
<1> QED
  BY <1>1, <1>2, InductiveInvariant, PTL DEF Spec

(***************************************************************************)
(* The audit trail.                                                        *)
(***************************************************************************)
LEMMA Appended ==
  ASSUME NEW trail \in Seq(DecisionEvent), NEW e \in DecisionEvent
  PROVE  /\ DOMAIN Append(trail, e) = DOMAIN trail \cup {Len(trail) + 1}
         /\ DOMAIN trail = 1 .. Len(trail)
         /\ Len(Append(trail, e)) = Len(trail) + 1
         /\ \A i \in DOMAIN trail : Append(trail, e)[i] = trail[i]
         /\ Append(trail, e)[Len(trail) + 1] = e
  OBVIOUS

LEMMA PathGrows ==
  ASSUME NEW trail \in Seq(DecisionEvent), NEW from, NEW to \in STAGES,
         NEW new \in STAGES, new \in TRANSITIONS[to], IsPath(trail, from, to),
         NEW actor \in {Worker, Human}
  PROVE  IsPath(Append(trail, [prior |-> to, new |-> new, actor |-> actor]), from, new)
<1> DEFINE e == [prior |-> to, new |-> new, actor |-> actor]
           longer == Append(trail, e)
<1>1. e \in DecisionEvent /\ e.prior = to /\ e.new = new
  BY DEF DecisionEvent
<1> HIDE DEF e
<1>2. Len(trail) \in Nat
  OBVIOUS
<1>3. /\ DOMAIN longer = DOMAIN trail \cup {Len(trail) + 1}
      /\ DOMAIN trail = 1 .. Len(trail)
      /\ Len(longer) = Len(trail) + 1
      /\ \A i \in DOMAIN trail : longer[i] = trail[i]
      /\ longer[Len(trail) + 1] = e
  BY <1>1, Appended
<1>4. longer # <<>>
  BY <1>2, <1>3
<1> HIDE DEF longer
<1>5. ASSUME NEW i \in DOMAIN longer
      PROVE  /\ longer[i].prior = IF i = 1 THEN from ELSE longer[i-1].new
             /\ longer[i].new \in TRANSITIONS[longer[i].prior]
  <2>1. CASE i \in DOMAIN trail
    <3>1. longer[i] = trail[i] /\ (i # 1 => longer[i-1] = trail[i-1])
      BY <1>2, <1>3, <2>1
    <3> QED
      BY <2>1, <3>1 DEF IsPath
  <2>2. CASE i = Len(trail) + 1 /\ trail = <<>>
    <3>1. i = 1 /\ to = from
      BY <2>2 DEF IsPath
    <3> QED
      BY <1>1, <1>3, <2>2, <3>1
  <2>3. CASE i = Len(trail) + 1 /\ trail # <<>>
    <3>1. Len(trail) \in DOMAIN trail /\ i # 1 /\ i - 1 = Len(trail)
      BY <1>2, <1>3, <2>3
    <3>2. longer[i-1] = trail[Len(trail)] /\ longer[i] = e
      BY <1>3, <2>3, <3>1
    <3>3. to = trail[Len(trail)].new
      BY <2>3 DEF IsPath
    <3> QED
      BY <1>1, <3>1, <3>2, <3>3
  <2> QED
    BY <1>3, <2>1, <2>2, <2>3
<1>6. new = IF longer = <<>> THEN from ELSE longer[Len(longer)].new
  BY <1>1, <1>3, <1>4
<1>7. IsPath(longer, from, new)
  BY <1>5, <1>6 DEF IsPath
<1> QED
  BY <1>7 DEF longer, e

\* The trail of an inbound opportunity is an unbroken path from "received" to its
\* stage: concurrent ticks and decisions never record a move from a stage that the
\* opportunity had already left.
THEOREM Audit == Spec => []InboundAudit
<1>1. Init => InboundAudit
  BY LanesDisjoint DEF Init, NoRow, InboundAudit, Exists
<1>2. Inductive /\ InboundAudit /\ [Next]_vars => InboundAudit'
  <2> SUFFICES ASSUME Inductive, InboundAudit, [Next]_vars, NEW o \in Inbound,
                      row'[o].state # Absent
               PROVE  IsPath(row'[o].trail, "received", row'[o].state)
    BY DEF InboundAudit, Exists
  <2>1. /\ o \in Opp /\ row[o] \in Row /\ row[o].state \in STAGES \cup {Absent}
        /\ row[o].trail \in Seq(DecisionEvent)
    BY LanesDisjoint DEF Inductive, Typed, TypeOK, Row
  <2>2. Exists(o) => IsPath(row[o].trail, "received", row[o].state)
    BY DEF InboundAudit
  <2>3. CASE row'[o] = row[o]
    BY <2>2, <2>3 DEF Exists
  <2>4. CASE Creation(o)
    <3>1. row'[o].trail = <<>> /\ row'[o].state = "received"
      BY <2>4 DEF Creation, NoRow
    <3> QED
      BY <3>1 DEF IsPath
  <2>5. ASSUME NEW new \in STAGES, new \in TRANSITIONS[row[o].state], Exists(o),
               NEW actor \in {Worker, Human}, row'[o].state = new,
               row'[o].trail = Append(row[o].trail,
                  [prior |-> row[o].state, new |-> new, actor |-> actor])
        PROVE  IsPath(row'[o].trail, "received", row'[o].state)
    <3>1. row[o].state \in STAGES
      BY <2>1, <2>5 DEF Exists
    <3> QED
      BY <2>1, <2>2, <2>5, <3>1, PathGrows
  <2>6. CASE WorkerMove(o)
    <3>1. PICK m \in Reached \cap TRANSITIONS[row[o].state] :
            row'[o] = transition_opportunity(row[o], row[o].state, m, Worker)
      BY <2>6 DEF WorkerMove
    <3>2. m \in STAGES /\ m \in TRANSITIONS[row[o].state]
      BY DEF Reached, STAGES
    <3>3. /\ row'[o].state = m
          /\ row'[o].trail = Append(row[o].trail,
                [prior |-> row[o].state, new |-> m, actor |-> Worker])
      BY <2>1, <3>1 DEF transition_opportunity, Row
    <3> QED
      BY <2>5, <2>6, <3>2, <3>3 DEF WorkerMove
  <2>7. CASE HumanMove(o)
    <3>1. PICK new \in {"approved", "hold", "closed"} \cap TRANSITIONS[row[o].state] :
            row'[o] = [transition_opportunity(row[o], row[o].state, new, Human)
                         EXCEPT !.sla = finalize_sla(o)]
      BY <2>7 DEF HumanMove
    <3>2. new \in STAGES /\ new \in TRANSITIONS[row[o].state]
      BY DEF STAGES
    <3>3. /\ row'[o].state = new
          /\ row'[o].trail = Append(row[o].trail,
                [prior |-> row[o].state, new |-> new, actor |-> Human])
      BY <2>1, <3>1 DEF transition_opportunity, Row
    <3> QED
      BY <2>5, <2>7, <3>2, <3>3 DEF HumanMove
  <2>8. CASE WorkerRetry(o)
    <3>1. row'[o].trail = row[o].trail /\ row'[o].state = row[o].state
      BY <2>1, <2>8 DEF WorkerRetry, Row
    <3> QED
      BY <2>2, <2>8, <3>1 DEF WorkerRetry
  <2> QED
    BY <2>1, <2>3, <2>4, <2>6, <2>7, <2>8, RowChanges, LanesDisjoint DEF ScanMove
<1> QED
  BY <1>1, <1>2, InductiveInvariant, PTL DEF Spec

\* The worker counts: it closes an opportunity on a timeout only after MAX_RETRIES
\* recorded retries, and never records one more.
THEOREM Timeout == Spec => []TimeoutAfterRetries
<1>1. Init => TimeoutAfterRetries
  BY DEF Init, NoRow, TimeoutAfterRetries, MAX_RETRIES
<1>2. Inductive /\ TimeoutAfterRetries /\ [Next]_vars => TimeoutAfterRetries'
  <2> SUFFICES ASSUME Inductive, TimeoutAfterRetries, [Next]_vars, NEW o \in Opp
               PROVE  /\ row'[o].retries <= MAX_RETRIES
                      /\ \A i \in DOMAIN row'[o].trail :
                           row'[o].trail[i].new = "closed" /\ row'[o].trail[i].actor = Worker
                             => row'[o].retries = MAX_RETRIES
    BY DEF TimeoutAfterRetries
  <2>1. /\ row[o] \in Row /\ row[o].trail \in Seq(DecisionEvent) /\ row[o].retries \in Nat
        /\ row[o].state \in STAGES \cup {Absent}
    BY DEF Inductive, Typed, TypeOK, Row
  <2>2. /\ row[o].retries <= MAX_RETRIES
        /\ \A i \in DOMAIN row[o].trail :
             row[o].trail[i].new = "closed" /\ row[o].trail[i].actor = Worker
               => row[o].retries = MAX_RETRIES
    BY DEF TimeoutAfterRetries
  <2>3. CASE row'[o].trail = row[o].trail /\ row'[o].retries = row[o].retries
    BY <2>2, <2>3
  <2>4. CASE row'[o].trail = <<>> /\ row'[o].retries = 0
    BY <2>4 DEF MAX_RETRIES
  <2>5. ASSUME NEW e \in DecisionEvent, row'[o].retries = row[o].retries,
               row'[o].trail = Append(row[o].trail, e),
               e.new = "closed" /\ e.actor = Worker => row[o].retries = MAX_RETRIES
        PROVE  /\ row'[o].retries <= MAX_RETRIES
               /\ \A i \in DOMAIN row'[o].trail :
                    row'[o].trail[i].new = "closed" /\ row'[o].trail[i].actor = Worker
                      => row'[o].retries = MAX_RETRIES
    <3>1. \A i \in DOMAIN row'[o].trail :
            \/ i \in DOMAIN row[o].trail /\ row'[o].trail[i] = row[o].trail[i]
            \/ row'[o].trail[i] = e
      BY <2>1, <2>5, Appended
    <3> QED
      BY <2>2, <2>5, <3>1
  <2>6. CASE Creation(o)
    BY <2>4, <2>6 DEF Creation, NoRow
  <2>7. CASE WorkerMove(o)
    <3>1. PICK m \in Reached :
            /\ JustifiedMark(o, row[o].state, m)
            /\ row'[o] = transition_opportunity(row[o], row[o].state, m, Worker)
      BY <2>7 DEF WorkerMove
    <3> DEFINE e == [prior |-> row[o].state, new |-> m, actor |-> Worker]
    <3>2. row'[o].retries = row[o].retries /\ row'[o].trail = Append(row[o].trail, e)
      BY <2>1, <3>1 DEF transition_opportunity, Row
    <3>3. row[o].state \in STAGES /\ m \in STAGES
      BY <2>1, <2>7 DEF WorkerMove, Exists, Reached, STAGES
    <3>4. e \in DecisionEvent
      BY <3>3 DEF DecisionEvent
    <3>5. m = "closed" => row[o].retries = MAX_RETRIES
      BY <2>1, <2>2, <3>1 DEF JustifiedMark, MAX_RETRIES
    <3>6. e.new = m
      OBVIOUS
    <3> HIDE DEF e
    <3> QED
      BY <2>5, <3>2, <3>4, <3>5, <3>6
  <2>8. CASE WorkerRetry(o)
    <3>1. /\ row'[o].trail = row[o].trail /\ row'[o].retries = row[o].retries + 1
          /\ row[o].retries < MAX_RETRIES
      BY <2>1, <2>8 DEF WorkerRetry, Row
    <3> QED
      BY <2>1, <2>2, <3>1 DEF MAX_RETRIES
  <2>9. CASE HumanMove(o)
    <3>1. PICK new \in {"approved", "hold", "closed"} :
            row'[o] = [transition_opportunity(row[o], row[o].state, new, Human)
                         EXCEPT !.sla = finalize_sla(o)]
      BY <2>9 DEF HumanMove
    <3> DEFINE e == [prior |-> row[o].state, new |-> new, actor |-> Human]
    <3>2. row'[o].retries = row[o].retries /\ row'[o].trail = Append(row[o].trail, e)
      BY <2>1, <3>1 DEF transition_opportunity, Row
    <3>3. row[o].state \in STAGES /\ new \in STAGES
      BY <2>1, <2>9 DEF HumanMove, Exists, STAGES
    <3>4. e \in DecisionEvent /\ e.actor # Worker
      BY <3>3 DEF DecisionEvent, Human, Worker
    <3> HIDE DEF e
    <3> QED
      BY <2>5, <3>2, <3>4
  <2>10. CASE ScanMove(o)
    <3>1. PICK seen \in STAGES \cup {Absent}, b \in BOOLEAN :
            /\ seen = Absent => ~Exists(o)
            /\ row'[o] = ScanRow(o, seen, b)
      BY <2>10 DEF ScanMove
    <3> DEFINE base == IF seen = Absent THEN [NoRow EXCEPT !.state = "discovered"]
                                        ELSE row[o]
               e == [prior |-> "discovered", new |-> "interesting", actor |-> Worker]
    <3>2. /\ base \in Row
          /\ \/ base.trail = <<>> /\ base.retries = 0
             \/ base.trail = row[o].trail /\ base.retries = row[o].retries
      BY <2>1, NoRowType DEF NoRow, Row, STAGES
    <3>3. \/ row'[o] = base
          \/ row'[o] = transition_opportunity(base, "discovered", "interesting", Worker)
      BY <3>1 DEF ScanRow
    <3>4. e \in DecisionEvent /\ e.new # "closed"
      BY DEF DecisionEvent, STAGES
    <3> HIDE DEF base, e
    <3>5. CASE row'[o] = base
      BY <2>3, <2>4, <3>2, <3>5
    <3>6. CASE row'[o] = transition_opportunity(base, "discovered", "interesting", Worker)
      <4>1. row'[o].retries = base.retries /\ row'[o].trail = Append(base.trail, e)
        BY <3>2, <3>6 DEF transition_opportunity, Row, e
      <4>2. CASE base.trail = row[o].trail /\ base.retries = row[o].retries
        BY <2>5, <3>4, <4>1, <4>2
      <4>3. CASE base.trail = <<>> /\ base.retries = 0
        <5>1. row'[o].trail = <<e>>
          BY <4>1, <4>3, <3>4
        <5> QED
          BY <3>4, <4>1, <4>3, <5>1 DEF MAX_RETRIES
      <4> QED
        BY <3>2, <4>2, <4>3
    <3> QED
      BY <3>3, <3>5, <3>6
  <2>11. CASE row'[o] = row[o]
    BY <2>3, <2>11
  <2> QED
    BY <2>6, <2>7, <2>8, <2>9, <2>10, <2>11, RowChanges
<1> QED
  BY <1>1, <1>2, InductiveInvariant, PTL DEF Spec

\* Inbound opportunities have a decision clock and no others do.
Clocks == \A o \in Opp : /\ o \notin Inbound => row[o].sla = "none"
                         /\ o \in Inbound /\ Exists(o) => row[o].sla # "none"

HumanDecided(trail) == \E i \in DOMAIN trail : trail[i].actor = Human

LEMMA HumanDecidedGrows ==
  ASSUME NEW trail \in Seq(DecisionEvent), NEW e \in DecisionEvent
  PROVE  HumanDecided(Append(trail, e)) <=> HumanDecided(trail) \/ e.actor = Human
<1> DEFINE longer == Append(trail, e)
<1>1. /\ DOMAIN longer = DOMAIN trail \cup {Len(trail) + 1}
      /\ \A i \in DOMAIN trail : longer[i] = trail[i]
      /\ longer[Len(trail) + 1] = e
  BY Appended
<1> HIDE DEF longer
<1>2. HumanDecided(longer) <=> HumanDecided(trail) \/ e.actor = Human
  BY <1>1 DEF HumanDecided
<1> QED
  BY <1>2 DEF longer

\* A decision clock is settled by a person's decision and by nothing else.
THEOREM Sla == Spec => []SlaSettledByDecision
<1> DEFINE Settled == Clocks /\ SlaSettledByDecision
<1>1. Init => Settled
  BY DEF Init, NoRow, Clocks, SlaSettledByDecision, Exists
<1>2. Inductive /\ Settled /\ [Next]_vars => Settled'
  <2> SUFFICES ASSUME Inductive, Settled, [Next]_vars, NEW o \in Opp
               PROVE  /\ o \notin Inbound => row'[o].sla = "none"
                      /\ o \in Inbound /\ row'[o].state # Absent => row'[o].sla # "none"
                      /\ row'[o].state # Absent =>
                         row'[o].sla \in {"met", "breached"}
                           <=> o \in Inbound /\ HumanDecided(row'[o].trail)
    BY DEF Clocks, SlaSettledByDecision, HumanDecided, Exists
  <2>1. /\ row[o] \in Row /\ row[o].trail \in Seq(DecisionEvent)
        /\ row[o].state \in STAGES \cup {Absent}
        /\ row[o].sla \in {"none", "pending", "met", "breached"}
    BY DEF Inductive, Typed, TypeOK, Row
  <2>2. /\ o \notin Inbound => row[o].sla = "none"
        /\ Exists(o) /\ o \in Inbound => row[o].sla # "none"
        /\ Exists(o) => (row[o].sla \in {"met", "breached"}
                           <=> o \in Inbound /\ HumanDecided(row[o].trail))
    <3>1. Clocks /\ SlaSettledByDecision
      OBVIOUS
    <3>2. /\ o \notin Inbound => row[o].sla = "none"
          /\ Exists(o) /\ o \in Inbound => row[o].sla # "none"
      BY <3>1 DEF Clocks
    <3>3. Exists(o) => (row[o].sla \in {"met", "breached"}
                          <=> o \in Inbound /\ HumanDecided(row[o].trail))
      BY <3>1, Zenon DEF SlaSettledByDecision, HumanDecided
    <3> QED
      BY <3>2, <3>3
  <2>3. CASE row'[o] = row[o] \/ WorkerRetry(o)
    <3>1. row'[o].state = row[o].state /\ row'[o].sla = row[o].sla
          /\ row'[o].trail = row[o].trail
      BY <2>1, <2>3 DEF WorkerRetry, Row
    <3> QED
      BY <2>2, <3>1 DEF Exists
  <2>4. CASE Creation(o)
    <3>1. o \in Inbound /\ row'[o].sla = "pending" /\ row'[o].trail = <<>>
      BY <2>4 DEF Creation, NoRow
    <3> QED
      BY <3>1 DEF HumanDecided
  <2>5. CASE WorkerMove(o)
    <3>1. PICK m \in Reached :
            row'[o] = transition_opportunity(row[o], row[o].state, m, Worker)
      BY <2>5 DEF WorkerMove
    <3> DEFINE e == [prior |-> row[o].state, new |-> m, actor |-> Worker]
    <3>2. row'[o].sla = row[o].sla /\ row'[o].trail = Append(row[o].trail, e)
      BY <2>1, <3>1 DEF transition_opportunity, Row
    <3>3. row[o].state \in STAGES /\ m \in STAGES
      BY <2>1, <2>5 DEF WorkerMove, Exists, Reached, STAGES
    <3>4. e \in DecisionEvent /\ e.actor # Human
      BY <3>3 DEF DecisionEvent, Human, Worker
    <3> HIDE DEF e
    <3>5. HumanDecided(row'[o].trail) <=> HumanDecided(row[o].trail)
      BY <2>1, <3>2, <3>4, HumanDecidedGrows
    <3> QED
      BY <2>2, <2>5, <3>2, <3>5 DEF WorkerMove
  <2>6. CASE HumanMove(o)
    <3>1. PICK new \in {"approved", "hold", "closed"} :
            row'[o] = [transition_opportunity(row[o], row[o].state, new, Human)
                         EXCEPT !.sla = finalize_sla(o)]
      BY <2>6 DEF HumanMove
    <3> DEFINE e == [prior |-> row[o].state, new |-> new, actor |-> Human]
    <3>2. row'[o].sla = finalize_sla(o) /\ row'[o].trail = Append(row[o].trail, e)
      BY <2>1, <3>1 DEF transition_opportunity, Row
    <3>3. row[o].state \in STAGES /\ new \in STAGES
      BY <2>1, <2>6 DEF HumanMove, Exists, STAGES
    <3>4. e \in DecisionEvent /\ e.actor = Human
      BY <3>3 DEF DecisionEvent
    <3> HIDE DEF e
    <3>5. HumanDecided(row'[o].trail)
      BY <2>1, <3>2, <3>4, HumanDecidedGrows
    <3>6. IF row[o].sla = "none" THEN finalize_sla(o) = "none"
                                 ELSE finalize_sla(o) \in {"met", "breached"}
      BY DEF finalize_sla
    <3> QED
      BY <2>2, <2>6, <3>2, <3>5, <3>6 DEF HumanMove
  <2>7. CASE ScanMove(o)
    <3>1. PICK seen \in STAGES \cup {Absent}, b \in BOOLEAN :
            /\ seen = Absent => ~Exists(o)
            /\ row'[o] = ScanRow(o, seen, b)
      BY <2>7 DEF ScanMove
    <3>2. o \notin Inbound
      BY <2>7, LanesDisjoint DEF ScanMove
    <3>3. row[o].sla = "none"
      BY <2>2, <3>2
    <3>4. CASE ~Exists(o) /\ seen = Absent
      <4>1. row'[o].sla = "none"
        BY <3>1, <3>4 DEF ScanRow, transition_opportunity, NoRow
      <4> QED
        BY <3>2, <4>1
    <3>5. CASE seen # Absent
      <4>1. row'[o].sla = row[o].sla
        BY <2>1, <3>1, <3>5 DEF ScanRow, transition_opportunity, Row
      <4> QED
        BY <3>2, <3>3, <4>1
    <3> QED
      BY <3>1, <3>4, <3>5
  <2> QED
    BY <2>3, <2>4, <2>5, <2>6, <2>7, RowChanges
<1>3. Settled => SlaSettledByDecision
  OBVIOUS
<1> QED
  BY <1>1, <1>2, <1>3, InductiveInvariant, PTL DEF Spec

(***************************************************************************)
(* The LLM budget.  A tick that has read the counter is about to charge    *)
(* what it saw covered.  What all ticks are about to charge exceeds the    *)
(* counter by one investigation of every tick but one at most: the tick    *)
(* that read last saw the counter as it is.                                *)
(***************************************************************************)
\* Tick t is about to charge n calls or more.
Owes(t, n) ==
  /\ tick[t].phase = "charge"
  /\ \E o \in Opp : At(t, o) /\ n <= Cost(tick[t].plan, tick[t].seen[o])

Promised == {c \in Tick \X (1 .. INVESTIGATION_AGENT_CALLS) : Owes(c[1], c[2])}

Overdraft == INVESTIGATION_AGENT_CALLS * (Cardinality(Tick) - 1)

PromiseInv == Cardinality(Promised) <= budget + Overdraft

LEMMA CallsInterval ==
  /\ IsFiniteSet(1 .. INVESTIGATION_AGENT_CALLS)
  /\ Cardinality(1 .. INVESTIGATION_AGENT_CALLS) = INVESTIGATION_AGENT_CALLS
<1>1. PICK n \in Nat \ {0} : n = INVESTIGATION_AGENT_CALLS
  BY DEF INVESTIGATION_AGENT_CALLS
<1>2. IsFiniteSet(1 .. n) /\ Cardinality(1 .. n) = n
  BY FS_Interval
<1> QED BY <1>1, <1>2

LEMMA PromisedFinite ==
  /\ IsFiniteSet(Promised) /\ Cardinality(Promised) \in Nat
  /\ Cardinality(Tick) \in Nat \ {0} /\ Overdraft \in Nat
<1>1. IsFiniteSet(Tick \X (1 .. INVESTIGATION_AGENT_CALLS))
  <2>1. IsFiniteSet(1 .. INVESTIGATION_AGENT_CALLS)
    BY CallsInterval
  <2> QED BY <2>1, FS_Product
<1>2. IsFiniteSet(Promised)
  BY <1>1, FS_Subset DEF Promised
<1>3. Cardinality(Tick) \in Nat \ {0}
  BY FS_CardinalityType, FS_EmptySet
<1> QED BY <1>2, <1>3, FS_CardinalityType DEF Overdraft, INVESTIGATION_AGENT_CALLS

LEMMA CostBounded ==
  ASSUME NEW plan \in Plans, NEW s, plan = "ask" => s \in Gated
  PROVE  Cost(plan, s) \in 0 .. INVESTIGATION_AGENT_CALLS
  BY DEF Cost, Plans, Gate, Gated, INVESTIGATION_AGENT_CALLS,
         FOUNDER_SCORE_AGENT_CALLS, RESEARCH_AGENT_CALLS

\* Nothing is promised that was not, and nothing is charged.
LEMMA PromisesNoMore ==
  ASSUME Typed, PromiseInv, UNCHANGED budget,
         \A t \in Tick : tick'[t].phase = "charge" => tick'[t] = tick[t]
  PROVE  PromiseInv'
<1>1. Promised' \subseteq Promised
  BY DEF Promised, Owes, At
<1>2. Cardinality(Promised') <= Cardinality(Promised) /\ Cardinality(Promised') \in Nat
  BY <1>1, PromisedFinite, FS_Subset, FS_CardinalityType
<1>3. budget \in Int
  BY DEF Typed, TypeOK
<1> QED BY <1>2, <1>3, PromisedFinite DEF PromiseInv, Overdraft

LEMMA PlanPromises ==
  ASSUME Typed, PromiseInv, NEW t \in Tick, NEW o \in Opp, TickPlan(t, o)
  PROVE  PromiseInv'
<1>1. PICK s, p : s = tick[t].seen[o] /\ p = PlanFor(o, s)
  OBVIOUS
<1>2. PICK cost \in 0 .. INVESTIGATION_AGENT_CALLS : cost = Cost(p, s)
  BY <1>1, PlanForType, CostBounded
<1>3. /\ At(t, o) /\ budget >= cost /\ UNCHANGED budget
      /\ tick' = [tick EXCEPT ![t].phase = "charge", ![t].plan = p]
  <2>1. /\ At(t, o) /\ budget >= Cost(PlanFor(o, tick[t].seen[o]), tick[t].seen[o])
        /\ tick' = [tick EXCEPT ![t].phase = "charge",
                                ![t].plan = PlanFor(o, tick[t].seen[o])]
    BY DEF TickPlan
  <2>2. UNCHANGED budget
    BY DEF TickPlan, redis
  <2> QED BY <1>1, <1>2, <2>1, <2>2
<1>4. /\ tick'[t].plan = p /\ tick'[t].seen = tick[t].seen /\ tick'[t].todo = tick[t].todo
      /\ \A u \in Tick \ {t} : tick'[u] = tick[u]
  BY <1>3 DEF Typed, TypeOK, TickRun
<1>5. \A e \in Opp : At(t, e)' => e = o
  BY <1>3, <1>4, OneAtATime DEF At
<1> DEFINE others == (Tick \ {t}) \X (1 .. INVESTIGATION_AGENT_CALLS)
           own == {t} \X (1 .. cost)
<1>6. Promised' \subseteq others \cup own
  <2> SUFFICES ASSUME NEW c \in Promised' PROVE c \in others \cup own
    OBVIOUS
  <2>1. c \in Tick \X (1 .. INVESTIGATION_AGENT_CALLS) /\ Owes(c[1], c[2])'
    BY DEF Promised
  <2>2. CASE c[1] = t
    <3>1. c[2] <= cost
      BY <1>1, <1>2, <1>4, <1>5, <2>1, <2>2 DEF Owes
    <3>2. c[2] \in 1 .. cost
      BY <2>1, <3>1
    <3> QED BY <2>1, <2>2, <3>2
  <2>3. CASE c[1] # t
    BY <2>1, <2>3
  <2> QED BY <2>2, <2>3
<1>7. IsFiniteSet(others) /\ Cardinality(others) = Overdraft
  <2>1. IsFiniteSet(Tick \ {t}) /\ Cardinality(Tick \ {t}) = Cardinality(Tick) - 1
    BY FS_RemoveElement
  <2>2. /\ IsFiniteSet(1 .. INVESTIGATION_AGENT_CALLS)
        /\ Cardinality(1 .. INVESTIGATION_AGENT_CALLS) = INVESTIGATION_AGENT_CALLS
    BY CallsInterval
  <2>3. /\ IsFiniteSet(others)
        /\ Cardinality(others)
             = Cardinality(Tick \ {t}) * Cardinality(1 .. INVESTIGATION_AGENT_CALLS)
    BY <2>1, <2>2, FS_Product
  <2> QED BY <2>1, <2>2, <2>3, PromisedFinite DEF Overdraft, INVESTIGATION_AGENT_CALLS
<1>8. IsFiniteSet(own) /\ Cardinality(own) = cost
  <2>1. IsFiniteSet({t}) /\ Cardinality({t}) = 1
    BY FS_Singleton
  <2>2. IsFiniteSet(1 .. cost) /\ Cardinality(1 .. cost) = cost
    BY FS_Interval
  <2>3. IsFiniteSet(own) /\ Cardinality(own) = Cardinality({t}) * Cardinality(1 .. cost)
    BY <2>1, <2>2, FS_Product
  <2> QED BY <2>1, <2>2, <2>3
<1> HIDE DEF others, own
<1>9. /\ IsFiniteSet(others \cup own)
      /\ Cardinality(others \cup own) <= Overdraft + cost
  <2>1. IsFiniteSet(others \cap own) /\ Cardinality(others \cap own) \in Nat
    BY <1>7, FS_Intersection, FS_CardinalityType
  <2>2. /\ IsFiniteSet(others \cup own)
        /\ Cardinality(others \cup own)
             = Cardinality(others) + Cardinality(own) - Cardinality(others \cap own)
    BY <1>7, <1>8, FS_Union
  <2> QED BY <1>7, <1>8, <2>1, <2>2, PromisedFinite
<1>10. /\ Cardinality(Promised') <= Cardinality(others \cup own)
       /\ Cardinality(Promised') \in Nat /\ Cardinality(others \cup own) \in Nat
  BY <1>6, <1>9, FS_Subset, FS_CardinalityType
<1>11. budget \in Int
  BY DEF Typed, TypeOK
<1> QED BY <1>3, <1>9, <1>10, <1>11, PromisedFinite DEF PromiseInv, Overdraft

LEMMA ChargePays ==
  ASSUME Typed, PromiseInv, NEW t \in Tick, NEW o \in Opp, TickCharge(t, o)
  PROVE  PromiseInv'
<1>1. PICK s, p : s = tick[t].seen[o] /\ p = tick[t].plan
  OBVIOUS
<1>2. At(t, o) /\ tick[t].phase = "charge" /\ tick' = [tick EXCEPT ![t].phase = "queue"]
  BY DEF TickCharge
<1>3. p \in Plans /\ (p = "ask" => s \in Gated)
  BY <1>1, <1>2 DEF Typed, TypeOK, TickRun, Planned
<1>4. PICK cost \in 0 .. INVESTIGATION_AGENT_CALLS : cost = Cost(p, s)
  BY <1>3, CostBounded
<1>5. budget' = budget - cost /\ budget \in Int
  BY <1>1, <1>4 DEF TickCharge, Typed, TypeOK
<1>6. tick'[t].phase = "queue" /\ \A u \in Tick \ {t} : tick'[u] = tick[u]
  BY <1>2 DEF Typed, TypeOK, TickRun
<1> DEFINE own == {t} \X (1 .. cost)
<1>7. own \subseteq Promised
  <2> SUFFICES ASSUME NEW n \in 1 .. cost PROVE <<t, n>> \in Promised
    OBVIOUS
  <2>1. n \in 1 .. INVESTIGATION_AGENT_CALLS
    BY DEF INVESTIGATION_AGENT_CALLS
  <2>2. Owes(t, n)
    BY <1>1, <1>2, <1>4 DEF Owes
  <2> QED BY <2>1, <2>2 DEF Promised
<1>8. IsFiniteSet(own) /\ Cardinality(own) = cost
  <2>1. IsFiniteSet({t}) /\ Cardinality({t}) = 1
    BY FS_Singleton
  <2>2. IsFiniteSet(1 .. cost) /\ Cardinality(1 .. cost) = cost
    BY FS_Interval
  <2>3. IsFiniteSet(own) /\ Cardinality(own) = Cardinality({t}) * Cardinality(1 .. cost)
    BY <2>1, <2>2, FS_Product
  <2> QED BY <2>1, <2>2, <2>3
<1>9. Promised' \subseteq Promised \ own
  <2> SUFFICES ASSUME NEW c \in Promised' PROVE c \in Promised /\ c \notin own
    OBVIOUS
  <2>1. c \in Tick \X (1 .. INVESTIGATION_AGENT_CALLS) /\ Owes(c[1], c[2])'
    BY DEF Promised
  <2>2. c[1] # t
    BY <1>6, <2>1 DEF Owes
  <2>3. Owes(c[1], c[2])
    BY <1>6, <2>1, <2>2 DEF Owes, At
  <2> QED BY <2>1, <2>2, <2>3 DEF Promised
<1> HIDE DEF own
<1>10. /\ IsFiniteSet(Promised \ own)
       /\ Cardinality(Promised \ own) = Cardinality(Promised) - cost
  <2>1. Promised \cap own = own
    BY <1>7
  <2> QED BY <1>8, <2>1, PromisedFinite, FS_Difference
<1>11. /\ Cardinality(Promised') <= Cardinality(Promised \ own)
       /\ Cardinality(Promised') \in Nat
  BY <1>9, <1>10, FS_Subset, FS_CardinalityType
<1> QED BY <1>5, <1>10, <1>11, PromisedFinite DEF PromiseInv, Overdraft

LEMMA PromiseStep ==
  ASSUME Typed, PromiseInv, [Next]_vars
  PROVE  PromiseInv'
<1>1. CASE UNCHANGED <<budget, tick>>
  BY <1>1, PromisesNoMore
<1>2. ASSUME NEW t \in Tick, TickStep(t) \/ TickAbort(t)
      PROVE  PromiseInv'
  <2>1. CASE TickBegin(t) \/ TickCommit(t) \/ TickAbort(t)
    <3>1. UNCHANGED budget
      BY <2>1 DEF TickBegin, TickCommit, TickAbort, redis
    <3>2. tick'[t].phase # "charge" /\ \A u \in Tick \ {t} : tick'[u] = tick[u]
      <4>1. CASE TickBegin(t)
        BY <4>1 DEF TickBegin, IdleTick, Typed, TypeOK
      <4>2. CASE TickCommit(t) \/ TickAbort(t)
        <5>1. tick' = [tick EXCEPT ![t] = IdleTick]
          BY <4>2 DEF TickCommit, TickAbort
        <5> QED BY <5>1 DEF IdleTick, Typed, TypeOK
      <4> QED BY <2>1, <4>1, <4>2
    <3> QED BY <3>1, <3>2, PromisesNoMore
  <2>2. ASSUME NEW o \in Opp, TickAdvance(t, o) \/ TickPass(t, o) \/ TickQueue(t, o)
        PROVE  PromiseInv'
    <3>1. UNCHANGED budget /\ \E m : tick' = [tick EXCEPT ![t] = Visited(t, o, m)]
      BY <2>2 DEF TickAdvance, TickPass, TickQueue, redis
    <3>2. \A m : Visited(t, o, m).phase = "visit"
      BY DEF Visited, Typed, TypeOK, TickRun
    <3> QED BY <3>1, <3>2, PromisesNoMore DEF Typed, TypeOK
  <2>3. ASSUME NEW o \in Opp, TickPlan(t, o) PROVE PromiseInv'
    BY <2>3, PlanPromises
  <2>4. ASSUME NEW o \in Opp, TickCharge(t, o) PROVE PromiseInv'
    BY <2>4, ChargePays
  <2> QED BY <1>2, <2>1, <2>2, <2>3, <2>4 DEF TickStep
<1>3. CASE OtherStep
  <2>1. CASE JobStep
    <3>1. UNCHANGED budget
      BY <2>1 DEF JobStep, Recompute, RunProcess, RunScore, RunResearch, MemoStart, MemoFinish,
                  RunContact, JobFail, redis
    <3> QED BY <1>1, <1>3, <3>1, OtherKeepsTicks
  <2>2. CASE ~JobStep
    <3>1. CASE \E o \in Opp : \/ Submit(o) \/ Elapse(o) \/ FallDue(o)
                              \/ \E a \in DecisionAction : Decide(o, a)
      <4>1. UNCHANGED budget
        BY <3>1 DEF Submit, Elapse, FallDue, Decide, redis
      <4> QED BY <1>1, <1>3, <4>1, OtherKeepsTicks
    <3>2. CASE \E s \in Scanner : \/ ScanFail(s)
                                  \/ \E o \in Opp : \/ ScanRead(s, o)
                                                    \/ \E b \in BOOLEAN : ScanWrite(s, o, b)
      <4>1. UNCHANGED budget
        BY <3>2 DEF ScanFail, ScanRead, ScanWrite, redis
      <4> QED BY <1>1, <1>3, <4>1, OtherKeepsTicks
    <3>3. CASE \E j \in Jobs : RequestJob(j)
      <4>1. UNCHANGED budget
        BY <3>3 DEF RequestJob
      <4> QED BY <1>1, <1>3, <4>1, OtherKeepsTicks
    <3> QED BY <1>3, <2>2, <3>1, <3>2, <3>3 DEF OtherStep
  <2> QED BY <2>1, <2>2
<1> QED BY <1>1, <1>2, <1>3, NextSplits DEF vars, redis

LEMMA PromiseInit == Init => PromiseInv
<1> SUFFICES ASSUME Init PROVE PromiseInv
  OBVIOUS
<1>1. Promised = {}
  BY DEF Init, Promised, Owes, IdleTick
<1>2. Cardinality(Promised) = 0 /\ budget \in Nat
  BY <1>1, FS_EmptySet DEF Init
<1> QED BY <1>2, PromisedFinite DEF PromiseInv

\* get_agent_budget_remaining and decrement_agent_budget are two calls: overlapping ticks
\* overdraw the counter by one investigation for each tick beyond the first at most.
THEOREM OverdraftStaysBounded == Spec => []OverdraftBounded
<1>1. PromiseInv /\ Typed => OverdraftBounded
  <2> SUFFICES ASSUME PromiseInv, Typed PROVE OverdraftBounded
    OBVIOUS
  <2>1. budget + Overdraft >= 0 /\ budget \in Int
    BY PromisedFinite DEF PromiseInv, Typed, TypeOK
  <2> QED BY <2>1, PromisedFinite DEF OverdraftBounded, Overdraft
<1>2. Typed /\ PromiseInv /\ [Next]_vars => PromiseInv'
  BY PromiseStep
<1> QED BY <1>1, <1>2, PromiseInit, TypedInit, TypedStep, PTL DEF Spec
=============================================================================
