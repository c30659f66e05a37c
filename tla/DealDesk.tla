------------------------------ MODULE DealDesk ------------------------------
(***************************************************************************)
(* From assessments to a person's decision: research that appends axis     *)
(* assessments, generate_memo_job that writes a memo and its decision      *)
(* proposal in two transactions around the model call, and the decision    *)
(* endpoint with its idempotency keys.                                     *)
(*                                                                         *)
(* One research run writes all three axes in one commit, so a batch of     *)
(* assessments is represented by the action its ratings propose.  An       *)
(* opportunity has one founder; merges of persons move it to another.      *)
(***************************************************************************)
EXTENDS LifecycleContract, Thesis

CONSTANTS
  Job,        \* memo jobs, each with its JobRun row
  JobOpp,     \* JobOpp[j]: the opportunity of job j
  Runner,     \* executions of generate_memo_job that may overlap
  Caller,     \* decision requests in flight
  IdemKey,    \* idempotency keys
  Founder     \* persons, numbered in order of creation

ASSUME JobAssumption == JobOpp \in [Job -> Opp]
ASSUME FounderAssumption == Founder \subseteq Nat

VARIABLES
  stage,        \* stage[o]: lifecycle_state
  assessments,  \* assessments[o]: batches in order of creation
  memos,        \* InvestmentMemo rows in order of insertion
  proposals,    \* proposals[i]: the DecisionProposal of memo i
  ledger,       \* ledger[j]: status of the JobRun
  arq,          \* arq[j]: deliveries of job j
  runs,         \* runs[r]
  clock,        \* transactions of memos begun so far (their created_at)
  calls,        \* calls[c]: a decision request
  reply,        \* reply[c]: the last answer; event 0 for a 409 or 500
  events,       \* DecisionEvent rows
  link,         \* link[o]: the person of the OpportunityFounder row of o
  merged,       \* persons that are no longer canonical
  researches, deaths, asks, merges   \* model bounds: research runs, deaths, decision
                                     \* requests, merges

personVars == <<link, merged, merges>>
deskVars == <<stage, assessments, memos, proposals, ledger, arq, runs, clock, calls, reply,
              events, researches, deaths, asks, personVars>>

(***************************************************************************)
(* build_decision_proposal.                                                *)
(***************************************************************************)
Batch == {"invest", "investigate", "hold"}

\* research_candidate_job appends its assessments.
Research(o) ==
  /\ researches[o] > 0
  /\ \E b \in Batch : assessments' = [assessments EXCEPT ![o] = Append(@, b)]
  /\ researches' = [researches EXCEPT ![o] = @ - 1]
  /\ UNCHANGED <<stage, memos, proposals, ledger, arq, runs, clock, calls, reply, events,
                 deaths, asks, personVars, thesisVars>>

\* by_axis keeps the first assessment of an axis; the rows come in order of creation.
Used(batches) == IF batches = <<>> THEN 0 ELSE 1

Blockers(batches, memo_status) ==
  (IF Used(batches) = 0 THEN {"missing_assessment"} ELSE {})
  \cup (IF memo_status # "succeeded" THEN {"memo_not_validated"} ELSE {})

build_decision_proposal(batches, memo_status, version) ==
  [action |-> IF Used(batches) = 0 THEN "investigate" ELSE batches[Used(batches)],
   status |-> "draft",
   used |-> Used(batches), known |-> Len(batches),
   ready |-> Blockers(batches, memo_status) = {},
   thesis |-> version]

\* _apply_proposal_values, as SQLAlchemy writes it: action and status have the values
\* they were loaded with, so the UPDATE leaves these columns alone.
\* Mutant: every column is written.
Applied_all(row, values) == values

Applied(row, values) == [values EXCEPT !.action = row.action, !.status = row.status]

(***************************************************************************)
(* generate_memo_job.                                                      *)
(***************************************************************************)
Resting == [phase |-> "idle"]
Busy(r) == runs[r].phase # "idle"

UnchangedButRun ==
  UNCHANGED <<stage, assessments, calls, reply, events, researches, asks, personVars>>

\* start_job: a terminal row makes the delivery a no-op.
MemoTake(r, j) ==
  /\ ~Busy(r) /\ arq[j] > 0
  /\ arq' = [arq EXCEPT ![j] = @ - 1]
  /\ IF ledger[j] \in {"succeeded", "cancelled"}
     THEN UNCHANGED <<ledger, runs>>
     ELSE /\ ledger' = [ledger EXCEPT ![j] = "running"]
          /\ runs' = [runs EXCEPT ![r] = [phase |-> "started", job |-> j]]
  /\ UnchangedButRun /\ UNCHANGED <<memos, proposals, clock, deaths, thesisVars>>

\* The transaction of the pending memo begins: opportunity, assessments, thesis.
MemoRead(r) ==
  LET o == JobOpp[runs[r].job] IN
  /\ runs[r].phase = "started"
  /\ \E v \in (IF pin[o] # Unpinned THEN {pin[o]} ELSE Active) :
       runs' = [runs EXCEPT ![r] = [phase |-> "read", job |-> @.job, at |-> clock + 1,
                  thesis |-> v, pins |-> pin[o] = Unpinned, batches |-> assessments[o]]]
  /\ clock' = clock + 1
  /\ UnchangedButRun /\ UNCHANGED <<memos, proposals, ledger, arq, deaths, thesisVars>>

\* finish_error: the founder was merged away, no accepted claims, or no thesis.
MemoError(r) ==
  /\ runs[r].phase = "started"
  /\ ledger' = [ledger EXCEPT ![runs[r].job] = "failed"]
  /\ runs' = [runs EXCEPT ![r] = Resting]
  /\ UnchangedButRun /\ UNCHANGED <<memos, proposals, arq, clock, deaths, thesisVars>>

\* The pending memo, its draft proposal and the pin of an unpinned opportunity.
MemoPend(r) ==
  LET q == runs[r]
      o == JobOpp[q.job]
  IN /\ q.phase = "read"
     /\ memos' = Append(memos, [opp |-> o, job |-> q.job, status |-> "pending", at |-> q.at,
                                thesis |-> q.thesis])
     /\ proposals' = Append(proposals, build_decision_proposal(q.batches, "pending", q.thesis))
     /\ pin' = [pin EXCEPT ![o] = IF q.pins THEN q.thesis ELSE @]
     /\ runs' = [runs EXCEPT ![r] = [phase |-> "writing", job |-> q.job, memo |-> Len(memos) + 1,
                                     batches |-> q.batches]]
     /\ UnchangedButRun
     /\ UNCHANGED <<ledger, arq, clock, deaths, theses, edits, evidence, fit, saves, rescores,
                    arrivals>>

\* What the model writes: each section with what it cites, relative to the package.
Draft == [complete : BOOLEAN, factual : BOOLEAN, cites : {"none", "package", "foreign"}]

\* _validate_memo_citations.
Citation_errors(d) ==
  d.cites = "foreign" \/ (d.factual /\ d.cites = "none")

\* generate_memo: no key, privacy or a failed call give the template; malformed JSON,
\* a missing section or a citation error give a failed memo.
Generated ==
  {"degraded", "failed"}
  \cup {IF d.complete /\ ~Citation_errors(d) THEN "succeeded" ELSE "failed" : d \in Draft}

\* Mutant: only a failed memo fails the job.
JobStatus_degraded(memo_status) == IF memo_status = "failed" THEN "failed" ELSE "succeeded"

JobStatus(memo_status) == IF memo_status = "succeeded" THEN "succeeded" ELSE "failed"

\* Mutant: the finished proposal takes the version the opportunity has now.
MemoFinish_repinned(r) ==
  LET i == runs[r].memo IN
  /\ runs[r].phase = "writing"
  /\ \E status \in Generated :
       /\ memos' = [memos EXCEPT ![i].status = status]
       /\ proposals' = [proposals EXCEPT ![i] =
            Applied(@, build_decision_proposal(runs[r].batches, status, pin[memos[i].opp]))]
       /\ ledger' = [ledger EXCEPT ![runs[r].job] = JobStatus(status)]
  /\ runs' = [runs EXCEPT ![r] = Resting]
  /\ UnchangedButRun /\ UNCHANGED <<arq, clock, deaths, thesisVars>>

\* Memo, proposal and ledger in one commit.  An exception of the model call takes the
\* same writes with status failed.
MemoFinish(r) ==
  LET i == runs[r].memo IN
  /\ runs[r].phase = "writing"
  /\ \E status \in Generated :
       /\ memos' = [memos EXCEPT ![i].status = status]
       /\ proposals' = [proposals EXCEPT ![i] =
            Applied(@, build_decision_proposal(runs[r].batches, status, memos[i].thesis))]
       /\ ledger' = [ledger EXCEPT ![runs[r].job] = JobStatus(status)]
  /\ runs' = [runs EXCEPT ![r] = Resting]
  /\ UnchangedButRun /\ UNCHANGED <<arq, clock, deaths, thesisVars>>

\* The worker dies and Arq delivers the job again: a pending memo stays behind.
MemoDies(r) ==
  /\ Busy(r) /\ deaths > 0
  /\ deaths' = deaths - 1
  /\ arq' = [arq EXCEPT ![runs[r].job] = @ + 1]
  /\ runs' = [runs EXCEPT ![r] = Resting]
  /\ UnchangedButRun /\ UNCHANGED <<memos, proposals, ledger, clock, thesisVars>>

(***************************************************************************)
(* merge_persons, as far as decisions see it: the younger person is no     *)
(* longer canonical and its opportunities go to the elder.  The run that   *)
(* merges decided so on rows it had loaded before (module Identity), so    *)
(* either of the two may have been merged itself meanwhile.                *)
(***************************************************************************)
Merge(p, s) ==
  /\ s < p /\ merges > 0
  /\ merged' = merged \cup {p}
  /\ link' = [o \in Opp |-> IF link[o] = p THEN s ELSE link[o]]
  /\ merges' = merges - 1
  /\ UNCHANGED <<stage, assessments, memos, proposals, ledger, arq, runs, clock, calls, reply,
                 events, researches, deaths, asks, thesisVars>>

(***************************************************************************)
(* record_candidate_decision.  The person and its link are read first; the *)
(* opportunity is read FOR UPDATE, and everything from there to the commit *)
(* happens under its row lock.                                             *)
(***************************************************************************)
Waiting == [phase |-> "idle"]
Locked(o) == \E c \in Caller : calls[c].phase = "deciding" /\ calls[c].opp = o

UnchangedButCall ==
  UNCHANGED <<assessments, memos, ledger, arq, runs, clock, researches, deaths, personVars,
              thesisVars>>

Reply(c, q, e) ==
  reply' = [reply EXCEPT ![c] =
              [who |-> q.who, opp |-> q.opp, key |-> q.key, action |-> q.action, event |-> e]]

\* The person a request is sent to is canonical and the founder of the opportunity.
Linked(q) == q.who \notin merged /\ link[q.opp] = q.who

Recorded(k) == {e \in DOMAIN events : events[e].key = k}
Same(e, q) == events[e].opp = q.opp /\ events[e].action = q.action

\* The newest of the memos of o in I, by created_at.
Newest(o, I) ==
  {i \in I : memos[i].opp = o /\ \A k \in I : memos[k].opp = o => memos[k].at <= memos[i].at}
Validated == {i \in DOMAIN memos : memos[i].status = "succeeded"}

Allowed(q) ==
  LET new == decision_state_for_action[q.action]
  IN is_valid_transition(stage[q.opp], new) /\ stage[q.opp] # new

\* Mutant: any memo will do.
Citable_any(o) == Newest(o, DOMAIN memos)

Citable(o) == Newest(o, Validated)

\* 404 for a person that is not canonical, 409 for one the opportunity is not linked to;
\* a request that passes may still wait for the row lock.
DecideArrive(c) ==
  \E q \in [who : Founder, opp : Opp, key : IdemKey, action : DecisionAction] :
    /\ calls[c] = Waiting /\ asks[q.opp] > 0
    /\ asks' = [asks EXCEPT ![q.opp] = @ - 1]
    /\ \/ /\ Linked(q)
          /\ calls' = [calls EXCEPT ![c] = [phase |-> "arrived", who |-> q.who, opp |-> q.opp,
                                           key |-> q.key, action |-> q.action]]
          /\ UNCHANGED reply
       \/ ~Linked(q) /\ Reply(c, q, 0) /\ UNCHANGED calls
    /\ UnchangedButCall /\ UNCHANGED <<stage, proposals, events>>

Answered(c, q, e) == Reply(c, q, e) /\ calls' = [calls EXCEPT ![c] = Waiting]

\* The request goes on with what its event will cite.
Decides(c, q, i) ==
  /\ calls' = [calls EXCEPT ![c] = [phase |-> "deciding", who |-> q.who, opp |-> q.opp,
                 key |-> q.key, action |-> q.action, memo |-> i,
                 proposals |-> Newest(q.opp, DOMAIN memos)]]
  /\ UNCHANGED reply

\* Mutant: the transition is checked before the key is looked up.
DecideRead_key_last(c) ==
  LET q == calls[c] IN
  /\ q.phase = "arrived" /\ ~Locked(q.opp)
  /\ \/ ~Allowed(q) /\ Answered(c, q, 0)
     \/ Allowed(q) /\ \E e \in Recorded(q.key) : Answered(c, q, IF Same(e, q) THEN e ELSE 0)
     \/ Recorded(q.key) = {} /\ Allowed(q) /\ Citable(q.opp) = {} /\ Answered(c, q, 0)
     \/ Recorded(q.key) = {} /\ Allowed(q) /\ \E i \in Citable(q.opp) : Decides(c, q, i)
  /\ UnchangedButCall /\ UNCHANGED <<stage, proposals, events, asks>>

\* A known key is answered with its event, or refused if it was used for another
\* decision; then the transition and the memo are checked; else what the event will
\* cite is read.
DecideRead(c) ==
  LET q == calls[c] IN
  /\ q.phase = "arrived" /\ ~Locked(q.opp)
  /\ \/ \E e \in Recorded(q.key) : Answered(c, q, IF Same(e, q) THEN e ELSE 0)
     \/ Recorded(q.key) = {} /\ (~Allowed(q) \/ Citable(q.opp) = {}) /\ Answered(c, q, 0)
     \/ Recorded(q.key) = {} /\ Allowed(q) /\ \E i \in Citable(q.opp) : Decides(c, q, i)
  /\ UnchangedButCall /\ UNCHANGED <<stage, proposals, events, asks>>

Proposed == [proceed |-> "invest", hold |-> "hold", decline |-> "decline"]

\* Stage, event and the newest proposal of the opportunity, in one commit.
DecideCommit(c) ==
  LET q == calls[c] IN
  /\ q.phase = "deciding" /\ Recorded(q.key) = {}
  /\ stage' = [stage EXCEPT ![q.opp] = decision_state_for_action[q.action]]
  /\ events' = Append(events, [opp |-> q.opp, key |-> q.key, action |-> q.action,
                               memo |-> q.memo, thesis |-> memos[q.memo].thesis])
  /\ proposals' = [i \in DOMAIN proposals |->
       IF i \notin q.proposals THEN proposals[i]
       ELSE [proposals[i] EXCEPT
              !.status = IF Proposed[q.action] # proposals[i].action THEN "overridden" ELSE "approved",
              !.action = Proposed[q.action]]]
  /\ Answered(c, q, Len(events) + 1)
  /\ UnchangedButCall /\ UNCHANGED asks

\* The key was used meanwhile for another opportunity: the unique constraint raises.
DecideConflict(c) ==
  /\ calls[c].phase = "deciding" /\ Recorded(calls[c].key) # {}
  /\ Answered(c, calls[c], 0)
  /\ UnchangedButCall /\ UNCHANGED <<stage, proposals, events, asks>>

DeskNext ==
  \/ \E o \in Opp : Research(o)
  \/ \E r \in Runner :
       \/ \E j \in Job : MemoTake(r, j)
       \/ MemoRead(r) \/ MemoError(r) \/ MemoPend(r) \/ MemoFinish(r) \/ MemoDies(r)
  \/ \E p, s \in Founder : Merge(p, s)
  \/ \E c \in Caller : DecideArrive(c) \/ DecideRead(c) \/ DecideCommit(c) \/ DecideConflict(c)

DeskInit ==
  /\ stage = [o \in Opp |-> "memo_ready"]
  /\ assessments = [o \in Opp |-> <<>>]
  /\ memos = <<>> /\ proposals = <<>> /\ clock = 0
  /\ ledger = [j \in Job |-> "queued"]
  /\ runs = [r \in Runner |-> Resting]
  /\ calls = [c \in Caller |-> Waiting]
  /\ reply = [c \in Caller |-> [event |-> 0]]
  /\ events = <<>>
  /\ link \in [Opp -> Founder] /\ merged = {}

\* Runs and requests of the desk and of the thesis API, in any order; the worker, the API
\* and the people have any finite number of deaths, deliveries, merges and requests to come.
DeskSpec ==
  /\ ThesisInit /\ DeskInit
  /\ saves \in Nat /\ rescores \in Nat /\ arrivals \in Nat /\ deaths \in Nat
  /\ merges \in Nat
  /\ researches \in [Opp -> Nat] /\ asks \in [Opp -> Nat] /\ arq \in [Job -> Nat]
  /\ [][DeskNext \/ (ThesisNext /\ UNCHANGED deskVars)]_<<thesisVars, deskVars>>

(***************************************************************************)
(* Properties.                                                             *)
(***************************************************************************)
\* Every memo has its proposal, and what runs and requests in flight hold on to exists.
DeskTypeOK ==
  /\ stage \in [Opp -> STAGES] /\ assessments \in [Opp -> Seq(Batch)]
  /\ \A i \in DOMAIN memos :
       memos[i].status \in {"pending", "failed", "degraded", "succeeded"}
       /\ memos[i].thesis \in Version /\ memos[i].at <= clock
  /\ DOMAIN proposals = DOMAIN memos
  /\ \A i \in DOMAIN proposals :
       proposals[i].action \in Batch \cup {"decline"}
       /\ proposals[i].status \in {"draft", "approved", "overridden"}
  /\ ledger \in [Job -> {"queued", "running", "failed", "succeeded"}] /\ arq \in [Job -> Nat]
  /\ link \in [Opp -> Founder] /\ merged \subseteq Founder
  /\ \A r \in Runner : runs[r].phase = "writing" => memos[runs[r].memo].status = "pending"
  /\ \A c \in Caller : reply[c].event \in DOMAIN events \cup {0}
                       /\ (calls[c].phase = "deciding" => calls[c].memo \in Validated)

\* A decision cites a memo of its own opportunity that passed validation, also when newer
\* memos are pending, failed or finish between the reads and the commit.
DecisionCitesValidatedMemo ==
  \A e \in DOMAIN events : events[e].memo \in Validated /\ memos[events[e].memo].opp = events[e].opp

\* A proposal is ready exactly when its memo was validated and its axes were assessed:
\* the two rows are written together, and a run that died leaves neither ready.
ReadyMeansValidated ==
  \A i \in DOMAIN proposals :
    proposals[i].ready <=> memos[i].status = "succeeded" /\ proposals[i].used > 0

\* "A later active thesis change must not alter this memo's input package"
\* (memo_job.py:240): memo, proposal and the decisions that cite them name one version.
OneThesisPerPackage ==
  /\ \A i \in DOMAIN proposals : proposals[i].thesis = memos[i].thesis
  /\ \A e \in DOMAIN events : events[e].thesis = memos[events[e].memo].thesis

\* The ledger reports success only for a job that left a validated memo, however often
\* it was delivered.
LedgerTellsTruth ==
  \A j \in Job : ledger[j] = "succeeded" => \E i \in Validated : memos[i].job = j

\* What a person decided on a proposal is changed by another decision on the same
\* opportunity only: not by the memo job that is still writing and saves the proposal
\* it created before.
DecidedProposalStands ==
  [][\A i \in DOMAIN proposals :
       /\ proposals[i].status # "draft"
       /\ <<proposals'[i].action, proposals'[i].status>> # <<proposals[i].action, proposals[i].status>>
       => Len(events') > Len(events) /\ events'[Len(events')].opp = memos[i].opp]_<<proposals, events>>

\* "Persist an idempotent, lifecycle-validated human VC decision" (candidates.py:1184): a
\* request whose key is recorded never makes another event and never gets a wrong one.  It
\* is answered with the recorded event if it asks for the same, however far the opportunity
\* has moved, provided it is sent to the person who is the founder now: sent to one that was
\* merged away it is refused, although it was recorded.
RetriesAnswered ==
  [][\A c \in Caller : reply'[c] # reply[c] =>
       \A e \in DOMAIN events : events[e].key = reply'[c].key =>
         IF Same(e, reply'[c])
         THEN reply'[c].event = e \/ (reply'[c].event = 0 /\ ~Linked(reply'[c]))
         ELSE reply'[c].event = 0]_<<reply, events>>

\* generate_memo_job "loads the latest agent scorecard + assessments" (memo_job.py:81):
\* a proposal is built from the newest assessments its job could read.
ProposalUsesLatest ==
  \A i \in DOMAIN proposals : proposals[i].used = proposals[i].known
=============================================================================
