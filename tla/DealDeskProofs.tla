--------------------------- MODULE DealDeskProofs ---------------------------
(***************************************************************************)
(* Proofs about DealDesk and Thesis: for any number of opportunities,      *)
(* memo jobs, runs, decision requests, keys and thesis requests.           *)
(***************************************************************************)
EXTENDS DealDesk, TLAPS

deskAll == <<thesisVars, deskVars>>
DeskStep == DeskNext \/ (ThesisNext /\ UNCHANGED deskVars)

(***************************************************************************)
(* The inductive invariant of the theses: a request in flight counted its  *)
(* version when there were at least as few theses as now, so the version a *)
(* save commits is the next one.                                           *)
(***************************************************************************)
Stored == [mandate : Mandate, is_active : BOOLEAN]

EditOK(q) ==
  /\ q.phase \in {"idle", "save", "rescore", "score"}
  /\ q.phase = "save" => q.version \in 1 .. Len(theses) + 1 /\ q.mandate \in Mandate
  /\ q.phase \in {"rescore", "score"} => q.version \in 1 .. Len(theses)

ThesisInv ==
  /\ theses \in Seq(Stored)
  /\ \A v \in 1 .. Len(theses) : theses[v].is_active <=> v = Len(theses)
  /\ DOMAIN edits = Editor /\ \A x \in Editor : EditOK(edits[x])
  /\ pin \in [Opp -> 0 .. Len(theses)]
  /\ evidence \in [Opp -> Seq(Fact)]
  /\ DOMAIN fit = Opp /\ \A o \in Opp : fit[o].version \in 0 .. Len(theses)
  /\ saves \in Nat /\ rescores \in Nat /\ arrivals \in Nat

(***************************************************************************)
(* The inductive invariant of the desk.                                    *)
(***************************************************************************)
Memo == [opp : Opp, job : Job, status : {"pending", "failed", "degraded", "succeeded"},
         at : Nat, thesis : Nat]
Proposal == [action : Batch \cup {"decline"}, status : {"draft", "approved", "overridden"},
             used : {0, 1}, known : Nat, ready : BOOLEAN, thesis : Nat]
Event == [opp : Opp, key : IdemKey, action : DecisionAction, memo : Nat, thesis : Nat]

DeskShape ==
  /\ stage \in [Opp -> STAGES] /\ assessments \in [Opp -> Seq(Batch)]
  /\ memos \in Seq(Memo) /\ proposals \in Seq(Proposal) /\ events \in Seq(Event)
  /\ ledger \in [Job -> {"queued", "running", "failed", "succeeded"}] /\ arq \in [Job -> Nat]
  /\ clock \in Nat /\ deaths \in Nat
  /\ researches \in [Opp -> Nat] /\ asks \in [Opp -> Nat]
  /\ link \in [Opp -> Founder] /\ merged \subseteq Founder /\ merges \in Nat

\* A memo and its proposal are one package.
PackageInv ==
  /\ Len(proposals) = Len(memos)
  /\ \A i \in 1 .. Len(memos) :
       /\ memos[i].thesis \in 1 .. Len(theses) /\ memos[i].at <= clock
       /\ proposals[i].thesis = memos[i].thesis
       /\ proposals[i].ready <=> memos[i].status = "succeeded" /\ proposals[i].used > 0

RunOK(q) ==
  /\ q.phase \in {"idle", "started", "read", "writing"}
  /\ q.phase # "idle" => q.job \in Job
  /\ q.phase = "read" => /\ q.at \in 0 .. clock /\ q.thesis \in 1 .. Len(theses)
                         /\ q.pins \in BOOLEAN /\ q.batches \in Seq(Batch)
  /\ q.phase = "writing" => /\ q.memo \in 1 .. Len(memos) /\ q.batches \in Seq(Batch)
                            /\ memos[q.memo].status = "pending" /\ memos[q.memo].job = q.job

\* No two runs write the same memo.
RunInv ==
  /\ DOMAIN runs = Runner /\ \A r \in Runner : RunOK(runs[r])
  /\ \A r, s \in Runner : runs[r].phase = "writing" /\ runs[s].phase = "writing" /\ r # s
                          => runs[r].memo # runs[s].memo

CallOK(q) ==
  /\ q.phase \in {"idle", "arrived", "deciding"}
  /\ q.phase # "idle" => q.opp \in Opp /\ q.key \in IdemKey /\ q.action \in DecisionAction
  /\ q.phase = "deciding" =>
       /\ q.memo \in 1 .. Len(memos)
       /\ memos[q.memo].status = "succeeded" /\ memos[q.memo].opp = q.opp
       /\ q.proposals \subseteq {i \in 1 .. Len(memos) : memos[i].opp = q.opp}
       /\ \A e \in 1 .. Len(events) : events[e].key = q.key => events[e].opp # q.opp

\* The row lock: one decision per opportunity at a time.  A key that another request
\* recorded meanwhile was therefore recorded for another opportunity.
CallInv ==
  /\ DOMAIN calls = Caller /\ \A c \in Caller : CallOK(calls[c])
  /\ \A c, d \in Caller : calls[c].phase = "deciding" /\ calls[d].phase = "deciding" /\ c # d
                          => calls[c].opp # calls[d].opp

EventInv ==
  /\ \A e \in 1 .. Len(events) :
       /\ events[e].memo \in 1 .. Len(memos)
       /\ memos[events[e].memo].status = "succeeded"
       /\ memos[events[e].memo].opp = events[e].opp
       /\ events[e].thesis = memos[events[e].memo].thesis
  /\ \A e, f \in 1 .. Len(events) : events[e].key = events[f].key => e = f
  /\ DOMAIN reply = Caller /\ \A c \in Caller : reply[c].event \in 0 .. Len(events)

LedgerInv ==
  \A j \in Job : ledger[j] = "succeeded" =>
    \E i \in 1 .. Len(memos) : memos[i].status = "succeeded" /\ memos[i].job = j

DeskInv == ThesisInv /\ DeskShape /\ PackageInv /\ RunInv /\ CallInv /\ EventInv /\ LedgerInv

(***************************************************************************)
(* Theses.                                                                 *)
(***************************************************************************)
LEMMA ThesisStart == ThesisInit /\ saves \in Nat /\ rescores \in Nat /\ arrivals \in Nat => ThesisInv
<1> SUFFICES ASSUME ThesisInit, saves \in Nat, rescores \in Nat, arrivals \in Nat PROVE ThesisInv
  OBVIOUS
<1>1. theses \in Seq(Stored) /\ Len(theses) = 0
  BY DEF ThesisInit
<1>2. DOMAIN edits = Editor /\ \A x \in Editor : EditOK(edits[x])
  BY DEF ThesisInit, EditOK, Idle
<1>3. pin \in [Opp -> 0 .. Len(theses)]
  BY <1>1 DEF ThesisInit, Unpinned
<1>4. evidence \in [Opp -> Seq(Fact)]
  BY DEF ThesisInit
<1>5. DOMAIN fit = Opp /\ \A o \in Opp : fit[o].version \in 0 .. Len(theses)
  BY <1>1 DEF ThesisInit, Unscored
<1> QED BY <1>1, <1>2, <1>3, <1>4, <1>5 DEF ThesisInv

LEMMA SaveCountKeeps ==
  ASSUME ThesisInv, NEW x \in Editor, NEW m \in Mandate, SaveCount(x, m) PROVE ThesisInv'
<1>1. EditOK([phase |-> "save", version |-> Len(theses) + 1, mandate |-> m])
  BY DEF ThesisInv, EditOK
<1>2. DOMAIN edits' = Editor /\ \A y \in Editor : EditOK(edits'[y])
  BY <1>1 DEF SaveCount, ThesisInv
<1>3. DOMAIN edits' = Editor /\ \A y \in Editor : EditOK(edits[y])'
  BY <1>2 DEF SaveCount, EditOK
<1> QED BY <1>3 DEF SaveCount, ThesisInv

\* The version a save commits is the next one, and the theses before it are inactive.
LEMMA SaveCommitAppends ==
  ASSUME ThesisInv, NEW x \in Editor, SaveCommit(x)
  PROVE /\ edits[x].version = Len(theses) + 1 /\ edits[x].mandate \in Mandate
        /\ theses' \in Seq(Stored) /\ Len(theses') = Len(theses) + 1
        /\ \A v \in 1 .. Len(theses') : theses'[v].is_active <=> v = Len(theses')
<1> DEFINE old == [i \in Version |-> [theses[i] EXCEPT !.is_active = FALSE]]
           new == [mandate |-> edits[x].mandate, is_active |-> TRUE]
<1>1. Version = 1 .. Len(theses) /\ Len(theses) \in Nat
  BY DEF ThesisInv, Version
<1>2. edits[x].version = Len(theses) + 1 /\ edits[x].mandate \in Mandate
  BY <1>1 DEF ThesisInv, EditOK, SaveCommit
<1>3. \A i \in 1 .. Len(theses) : theses[i] \in Stored
  BY DEF ThesisInv
<1>4. \A i \in Version : old[i] \in Stored /\ old[i].is_active = FALSE
  BY <1>1, <1>3 DEF Stored
<1>5. old \in Seq(Stored) /\ Len(old) = Len(theses)
  BY <1>1, <1>4
<1>6. new \in Stored /\ new.is_active = TRUE
  BY <1>2 DEF Stored
<1>7. theses' = Append(old, new)
  BY DEF SaveCommit
<1> HIDE DEF old, new
<1>8. theses' \in Seq(Stored) /\ Len(theses') = Len(theses) + 1
  BY <1>5, <1>6, <1>7
<1>9. \A v \in 1 .. Len(theses') : theses'[v] = IF v = Len(theses') THEN new ELSE old[v]
  BY <1>1, <1>5, <1>6, <1>7, <1>8
<1>10. \A v \in 1 .. Len(theses') : theses'[v].is_active <=> v = Len(theses')
  BY <1>1, <1>4, <1>6, <1>8, <1>9
<1> QED BY <1>2, <1>8, <1>10

LEMMA SaveCommitKeeps ==
  ASSUME ThesisInv, NEW x \in Editor, SaveCommit(x) PROVE ThesisInv'
<1> USE SaveCommitAppends
<1>1. Len(theses) \in Nat
  BY DEF ThesisInv
<1>2. DOMAIN edits' = Editor /\ edits'[x] = Idle /\ \A y \in Editor \ {x} : edits'[y] = edits[y]
  BY DEF SaveCommit, ThesisInv
<1>3. \A y \in Editor : EditOK(edits[y])'
  BY <1>1, <1>2, SMTT(30) DEF EditOK, ThesisInv, Idle
<1> DEFINE v == edits[x].version
<1>v. v \in 0 .. Len(theses')
  BY <1>1
<1>s. pin' = [o \in Opp |-> v] /\ fit' = Scored(v, edits[x].mandate)
  BY DEF SaveCommit
<1> HIDE DEF v
<1>4. pin' \in [Opp -> 0 .. Len(theses')]
  BY <1>v, <1>s
<1>5. DOMAIN fit' = Opp /\ \A o \in Opp : fit'[o].version \in 0 .. Len(theses')
  BY <1>v, <1>s DEF Scored
<1> QED BY <1>2, <1>3, <1>4, <1>5 DEF SaveCommit, ThesisInv

\* A request that ends, or that goes on with a version that exists, changes nothing else.
LEMMA EditKeeps ==
  ASSUME ThesisInv, NEW x \in Editor, NEW q, EditOK(q), edits' = [edits EXCEPT ![x] = q],
         UNCHANGED theses
  PROVE DOMAIN edits' = Editor /\ \A y \in Editor : EditOK(edits[y])'
<1>1. DOMAIN edits' = Editor /\ \A y \in Editor : EditOK(edits'[y])
  BY DEF ThesisInv
<1> QED BY <1>1 DEF EditOK

LEMMA ConflictAndRescoreKeep ==
  ASSUME ThesisInv, NEW x \in Editor, SaveConflict(x) \/ RescoreRead(x) \/ RescoreLoad(x)
  PROVE ThesisInv'
<1> USE DEF ThesisInv
<1>1. CASE SaveConflict(x)
  <2>1. EditOK(Idle)
    BY DEF EditOK, Idle
  <2> QED BY <1>1, <2>1, EditKeeps DEF SaveConflict
<1>2. CASE RescoreRead(x)
  <2>1. PICK v \in Active : edits' = [edits EXCEPT ![x] = [phase |-> "rescore", version |-> v]]
    BY <1>2 DEF RescoreRead
  <2>2. EditOK([phase |-> "rescore", version |-> v])
    BY DEF EditOK, Active, Version
  <2>3. DOMAIN edits' = Editor /\ \A y \in Editor : EditOK(edits[y])'
    BY <1>2, <2>1, <2>2, EditKeeps DEF RescoreRead
  <2> QED BY <1>2, <2>3 DEF RescoreRead
<1>3. CASE RescoreLoad(x)
  <2>1. EditOK([phase |-> "score", version |-> edits[x].version, loaded |-> pin])
    BY <1>3 DEF EditOK, RescoreLoad
  <2> QED BY <1>3, <2>1, EditKeeps DEF RescoreLoad
<1> QED BY <1>1, <1>2, <1>3

LEMMA RescoreCommitKeeps ==
  ASSUME ThesisInv, NEW x \in Editor, RescoreCommit(x) PROVE ThesisInv'
<1>1. EditOK(Idle)
  BY DEF EditOK, Idle
<1>2. DOMAIN edits' = Editor /\ \A y \in Editor : EditOK(edits[y])'
  BY <1>1, EditKeeps DEF RescoreCommit
<1>3. edits[x].version \in 1 .. Len(theses)
  BY DEF RescoreCommit, ThesisInv, EditOK
<1>4. pin' \in [Opp -> 0 .. Len(theses)]
  BY <1>3 DEF RescoreCommit, ThesisInv
<1>5. DOMAIN fit' = Opp /\ \A o \in Opp : fit'[o].version \in 0 .. Len(theses)
  BY <1>3 DEF RescoreCommit, Scored
<1> QED BY <1>2, <1>4, <1>5 DEF RescoreCommit, ThesisInv

LEMMA ObserveKeeps ==
  ASSUME ThesisInv, NEW o \in Opp, NEW f \in Fact, Observe(o, f) PROVE ThesisInv'
<1>1. evidence' \in [Opp -> Seq(Fact)]
  BY DEF Observe, ThesisInv
<1>2. \A x \in Editor : EditOK(edits[x])'
  BY DEF Observe, ThesisInv, EditOK
<1> QED BY <1>1, <1>2 DEF Observe, ThesisInv

LEMMA ThesisNextKeeps == ThesisInv /\ ThesisNext => ThesisInv'
  BY SaveCountKeeps, SaveCommitKeeps, ConflictAndRescoreKeep, RescoreCommitKeeps, ObserveKeeps
  DEF ThesisNext

LEMMA ThesisFrame == ThesisInv /\ UNCHANGED thesisVars => ThesisInv'
  BY DEF thesisVars, ThesisInv, EditOK

\* What is stored is never taken back: a version, once there, stays.
LEMMA ThesesGrow ==
  ASSUME ThesisInv, ThesisNext \/ UNCHANGED theses
  PROVE Len(theses) \in Nat /\ Len(theses') \in Nat /\ Len(theses) <= Len(theses')
<1>1. Len(theses) \in Nat
  BY DEF ThesisInv
<1>2. CASE \E x \in Editor : SaveCommit(x)
  BY <1>1, <1>2, SaveCommitAppends
<1>3. CASE UNCHANGED theses
  BY <1>1, <1>3
<1> QED
  BY <1>2, <1>3 DEF ThesisNext, SaveCount, SaveConflict, RescoreRead, RescoreLoad, RescoreCommit,
                    Observe

(***************************************************************************)
(* Scores.  Points are 0, 1 or 2 and weights are naturals, so a criterion  *)
(* that did not fail earns at least half of its weight.                    *)
(***************************************************************************)
LEMMA PointsOfCriterion ==
  ASSUME NEW p \in {0, 1, 2}, NEW w \in Nat
  PROVE p * w \in Nat /\ (p # 0 => p * w >= w) /\ 1 * w = w
<1>1. CASE p = 0
  BY <1>1
<1>2. CASE p = 1
  BY <1>2
<1>3. CASE p = 2
  BY <1>3
<1> QED BY <1>1, <1>2, <1>3

LEMMA StatusOfCriteria ==
  ASSUME NEW m, NEW seen, NEW c \in Criterion
  PROVE /\ Status(m, seen)[c] \in {"matched", "unknown", "failed"}
        /\ Points[Status(m, seen)[c]] \in {0, 1, 2}
        /\ Status(m, seen)[c] # "failed" => Points[Status(m, seen)[c]] # 0
<1>1. Status(m, seen)[c] \in {"matched", "unknown", "failed"}
  BY DEF Status, Criterion
<1> QED BY <1>1 DEF Points

\* What score_thesis_alignment promises about one candidate and one mandate.
Sound(f) ==
  /\ (\A c \in Criterion : f.status[c] # "failed") =>
       f.hard_eligible /\ 2 * f.score.points >= f.score.of
  /\ ~f.hard_eligible => 100 * f.score.points <= 35 * f.score.of

LEMMA ScoreSound ==
  ASSUME NEW v, NEW m, validate_thesis(m), NEW seen
  PROVE Sound([version |-> v, score |-> Score(m, seen), hard_eligible |-> Eligible(m, seen),
               status |-> Status(m, seen)])
<1> DEFINE st == Status(m, seen)
           p == [c \in Criterion |-> Points[st[c]]]
           one == [c \in Criterion |-> 1]
           w == m.weights
           W == Weighted(m, one)
           P == Weighted(m, p)
<1>1. \A c \in Criterion : w[c] \in Nat
  BY DEF validate_thesis
<1>2. \A c \in Criterion : p[c] \in {0, 1, 2} /\ (st[c] # "failed" => p[c] # 0)
  BY StatusOfCriteria
<1>3. \A c \in Criterion : one[c] = 1
  OBVIOUS
<1>4. \A c \in Criterion : p[c] * w[c] \in Nat /\ (st[c] # "failed" => p[c] * w[c] >= w[c])
                           /\ one[c] * w[c] = w[c]
  BY <1>1, <1>2, <1>3, PointsOfCriterion
<1>5. /\ P = p["stage"] * w["stage"] + p["sector"] * w["sector"]
             + p["geography"] * w["geography"] + p["check_size"] * w["check_size"]
      /\ W = one["stage"] * w["stage"] + one["sector"] * w["sector"]
             + one["geography"] * w["geography"] + one["check_size"] * w["check_size"]
  BY DEF Weighted
<1>6. Score(m, seen) = IF ~Eligible(m, seen) /\ 100 * P > 35 * (2 * W)
                       THEN [points |-> 35, of |-> 100] ELSE [points |-> P, of |-> 2 * W]
  BY DEF Score
<1>7. Criterion = {"stage", "sector", "geography", "check_size"}
  BY DEF Criterion
<1>8. (\A c \in Criterion : st[c] # "failed") => Eligible(m, seen)
  BY <1>7 DEF Eligible, Status
<1> HIDE DEF st, p, one, w, W, P
<1>9. P \in Nat /\ W \in Nat
  BY <1>1, <1>4, <1>5, <1>7
<1>10. (\A c \in Criterion : st[c] # "failed") => P >= W
  BY <1>1, <1>4, <1>5, <1>7
<1>11. (\A c \in Criterion : st[c] # "failed") => 2 * Score(m, seen).points >= Score(m, seen).of
  BY <1>6, <1>8, <1>9, <1>10
<1>12. ~Eligible(m, seen) => 100 * Score(m, seen).points <= 35 * Score(m, seen).of
  BY <1>6, <1>9
<1> QED BY <1>8, <1>11, <1>12 DEF Sound, st

LEMMA ScoredSound ==
  ASSUME NEW v, NEW m \in Mandate PROVE \A o \in Opp : Sound(Scored(v, m)[o])
  BY MandateAssumption, ScoreSound DEF Scored

LEMMA FitKeeps ==
  ASSUME ThesisInv, UnknownIsNotFailed, ThesisNext \/ UNCHANGED fit PROVE UnknownIsNotFailed'
<1>1. CASE UNCHANGED fit
  BY <1>1 DEF UnknownIsNotFailed
<1>2. ASSUME NEW v, NEW m \in Mandate, fit' = Scored(v, m) PROVE UnknownIsNotFailed'
  BY <1>2, ScoredSound DEF UnknownIsNotFailed, Sound
<1>3. CASE \E x \in Editor : SaveCommit(x)
  BY <1>2, <1>3, SaveCommitAppends DEF SaveCommit
<1>4. ASSUME NEW x \in Editor, RescoreCommit(x) PROVE UnknownIsNotFailed'
  <2>1. theses[edits[x].version] \in Stored
    BY <1>4 DEF RescoreCommit, ThesisInv, EditOK
  <2> QED BY <1>2, <1>4, <2>1 DEF RescoreCommit, Stored
<1> QED
  BY <1>1, <1>3, <1>4 DEF ThesisNext, SaveCount, SaveConflict, RescoreRead, RescoreLoad, Observe

(***************************************************************************)
(* The desk.                                                               *)
(***************************************************************************)
LEMMA DeskStart == ThesisInv /\ DeskInit /\ deaths \in Nat /\ merges \in Nat
                   /\ researches \in [Opp -> Nat] /\ asks \in [Opp -> Nat] /\ arq \in [Job -> Nat]
                   => DeskInv
<1> SUFFICES ASSUME ThesisInv, DeskInit, deaths \in Nat, merges \in Nat,
                    researches \in [Opp -> Nat], asks \in [Opp -> Nat], arq \in [Job -> Nat]
             PROVE DeskInv
  OBVIOUS
<1>1. DeskShape
  BY DEF DeskInit, DeskShape, STAGES
<1>2. PackageInv
  BY DEF DeskInit, PackageInv
<1>3. RunInv
  BY DEF DeskInit, RunInv, RunOK, Resting
<1>4. CallInv
  BY DEF DeskInit, CallInv, CallOK, Waiting
<1>5. EventInv
  BY DEF DeskInit, EventInv
<1>6. LedgerInv
  BY DEF DeskInit, LedgerInv
<1> QED BY <1>1, <1>2, <1>3, <1>4, <1>5, <1>6 DEF DeskInv

\* A thesis request leaves the desk alone and the versions it names in place.
LEMMA ThesisStepKeepsDesk ==
  ASSUME DeskInv, ThesisNext \/ UNCHANGED thesisVars, UNCHANGED deskVars PROVE DeskInv'
<1> USE DEF deskVars, personVars
<1>1. ThesisInv'
  BY ThesisNextKeeps, ThesisFrame DEF DeskInv
<1>2. Len(theses) \in Nat /\ Len(theses') \in Nat /\ Len(theses) <= Len(theses')
  BY ThesesGrow DEF DeskInv, thesisVars
<1>3. DeskShape'
  BY DEF DeskInv, DeskShape
<1>4. PackageInv'
  BY <1>2 DEF DeskInv, PackageInv
<1>5. RunInv'
  BY <1>2 DEF DeskInv, RunInv, RunOK
<1>6. CallInv'
  BY DEF DeskInv, CallInv, CallOK
<1>7. EventInv'
  BY DEF DeskInv, EventInv
<1>8. LedgerInv'
  BY DEF DeskInv, LedgerInv
<1> QED BY <1>1, <1>3, <1>4, <1>5, <1>6, <1>7, <1>8 DEF DeskInv

LEMMA ResearchKeeps == ASSUME DeskInv, NEW o \in Opp, Research(o) PROVE DeskInv'
<1> USE DEF DeskInv, Research, personVars
<1>1. PICK b \in Batch : assessments' = [assessments EXCEPT ![o] = Append(@, b)]
  OBVIOUS
<1>2. assessments' \in [Opp -> Seq(Batch)]
  <2>1. Append(assessments[o], b) \in Seq(Batch)
    BY DEF DeskShape
  <2> QED BY <1>1, <2>1 DEF DeskShape
<1>3. researches' \in [Opp -> Nat]
  BY DEF DeskShape
<1>4. DeskShape'
  BY <1>2, <1>3 DEF DeskShape
<1>5. ThesisInv'
  BY ThesisFrame
<1>6. UNCHANGED theses
  BY DEF thesisVars
<1> QED
  BY <1>4, <1>5, <1>6 DEF PackageInv, RunInv, RunOK, CallInv, CallOK, EventInv, LedgerInv

\* A run that starts, reads, ends or dies, and does not begin to write: memos and
\* proposals stay as they are.
RunMoves(r, q) ==
  /\ RunOK(q)' /\ q.phase # "writing" /\ runs' = [runs EXCEPT ![r] = q]
  /\ clock' \in Nat /\ clock <= clock'
  /\ UNCHANGED <<memos, proposals, theses, thesisVars>> /\ UnchangedButRun
  /\ ledger' \in [Job -> {"queued", "running", "failed", "succeeded"}]
  /\ arq' \in [Job -> Nat] /\ deaths' \in Nat
  /\ \A j \in Job : ledger'[j] = "succeeded" => ledger[j] = "succeeded"

LEMMA RunMovesKeeps == ASSUME DeskInv, NEW r \in Runner, NEW q, RunMoves(r, q) PROVE DeskInv'
<1> USE DEF DeskInv, UnchangedButRun, RunMoves
<1>1. ThesisInv' /\ UNCHANGED theses
  BY ThesisFrame
<1>2. DeskShape'
  BY DEF DeskShape, personVars
<1>3. PackageInv'
  <2>1. \A i \in 1 .. Len(memos) : memos[i] \in Memo
    BY DEF DeskShape
  <2>2. \A i \in 1 .. Len(memos) : memos[i].at <= clock'
    BY <2>1 DEF PackageInv, Memo, DeskShape
  <2> QED BY <1>1, <2>2 DEF PackageInv
<1>4. \A s \in Runner : runs'[s] = IF s = r THEN q ELSE runs[s]
  BY DEF RunInv
<1>5. \A s \in Runner : RunOK(runs[s])'
  <2> SUFFICES ASSUME NEW s \in Runner PROVE RunOK(runs[s])'
    OBVIOUS
  <2>1. CASE s = r
    BY <1>4, <2>1 DEF RunOK
  <2>2. CASE s # r
    <3>1. RunOK(runs[s]) /\ runs'[s] = runs[s] /\ clock \in Nat
      BY <1>4, <2>2 DEF RunInv, DeskShape
    <3> QED BY <1>1, <3>1 DEF RunOK
  <2> QED BY <2>1, <2>2
<1>6. RunInv'
  BY <1>4, <1>5 DEF RunInv
<1>7. CallInv' /\ EventInv'
  BY DEF CallInv, CallOK, EventInv
<1>8. LedgerInv'
  BY DEF LedgerInv
<1> QED BY <1>1, <1>2, <1>3, <1>6, <1>7, <1>8

LEMMA MemoTakeKeeps == ASSUME DeskInv, NEW r \in Runner, NEW j \in Job, MemoTake(r, j) PROVE DeskInv'
<1>1. arq' \in [Job -> Nat] /\ clock \in Nat /\ deaths \in Nat
  BY DEF DeskInv, DeskShape, MemoTake
<1>2. UNCHANGED <<memos, proposals, clock, deaths, thesisVars>> /\ UnchangedButRun
  BY DEF MemoTake
<1>3. UNCHANGED theses
  BY <1>2 DEF thesisVars
<1>4. CASE UNCHANGED <<ledger, runs>>
  <2>1. DeskShape' /\ ThesisInv'
    BY <1>1, <1>2, <1>4, ThesisFrame DEF DeskInv, DeskShape, UnchangedButRun, personVars
  <2> QED
    BY <1>2, <1>3, <1>4, <2>1
    DEF DeskInv, PackageInv, RunInv, RunOK, CallInv, CallOK, EventInv, LedgerInv, UnchangedButRun
<1>5. CASE ~UNCHANGED <<ledger, runs>>
  <2> DEFINE q == [phase |-> "started", job |-> j]
  <2>1. RunOK(q)' /\ q.phase # "writing"
    BY DEF RunOK
  <2>2. runs' = [runs EXCEPT ![r] = q] /\ ledger' = [ledger EXCEPT ![j] = "running"]
    BY <1>5 DEF MemoTake
  <2> HIDE DEF q
  <2>3. /\ ledger' \in [Job -> {"queued", "running", "failed", "succeeded"}]
        /\ \A k \in Job : ledger'[k] = "succeeded" => ledger[k] = "succeeded"
    BY <2>2 DEF DeskInv, DeskShape
  <2>4. RunMoves(r, q)
    BY <1>1, <1>2, <1>3, <2>1, <2>2, <2>3 DEF RunMoves
  <2> QED BY <2>4, RunMovesKeeps
<1> QED BY <1>4, <1>5

LEMMA MemoReadKeeps == ASSUME DeskInv, NEW r \in Runner, MemoRead(r) PROVE DeskInv'
<1> DEFINE o == JobOpp[runs[r].job]
<1>1. runs[r].phase = "started" /\ clock' = clock + 1 /\ clock \in Nat
  BY DEF MemoRead, DeskInv, DeskShape
<1>2. runs[r].job \in Job /\ o \in Opp
  BY <1>1, JobAssumption DEF DeskInv, RunInv, RunOK
<1>3. PICK v \in (IF pin[o] # Unpinned THEN {pin[o]} ELSE Active) :
        runs' = [runs EXCEPT ![r] = [phase |-> "read", job |-> @.job, at |-> clock + 1,
                   thesis |-> v, pins |-> pin[o] = Unpinned, batches |-> assessments[o]]]
  BY DEF MemoRead
<1>4. v \in 1 .. Len(theses)
  <2>1. pin[o] \in 0 .. Len(theses)
    BY <1>2 DEF DeskInv, ThesisInv
  <2>2. Active \subseteq 1 .. Len(theses)
    BY DEF DeskInv, ThesisInv, Active, Version
  <2> QED BY <1>3, <2>1, <2>2 DEF Unpinned
<1>5. PICK q : q = [phase |-> "read", job |-> runs[r].job, at |-> clock + 1,
                    thesis |-> v, pins |-> pin[o] = Unpinned, batches |-> assessments[o]]
  OBVIOUS
<1>6. runs' = [runs EXCEPT ![r] = q]
  BY <1>3, <1>5
<1>7. UNCHANGED <<memos, proposals, ledger, arq, deaths, thesisVars>> /\ UnchangedButRun
  BY DEF MemoRead
<1>8. UNCHANGED theses
  BY <1>7 DEF thesisVars
<1>9. assessments[o] \in Seq(Batch)
  BY <1>2 DEF DeskInv, DeskShape
<1>10. RunOK(q)' /\ q.phase # "writing"
  BY <1>1, <1>2, <1>4, <1>5, <1>8, <1>9 DEF RunOK
<1>11. RunMoves(r, q)
  BY <1>1, <1>6, <1>7, <1>8, <1>10 DEF RunMoves, DeskInv, DeskShape
<1> QED BY <1>11, RunMovesKeeps

LEMMA MemoErrorKeeps == ASSUME DeskInv, NEW r \in Runner, MemoError(r) PROVE DeskInv'
<1>1. RunOK(Resting)' /\ Resting.phase # "writing"
  BY DEF RunOK, Resting
<1>2. UNCHANGED <<memos, proposals, arq, clock, deaths, thesisVars>> /\ UnchangedButRun
  BY DEF MemoError
<1>3. UNCHANGED theses
  BY <1>2 DEF thesisVars
<1>4. /\ ledger' \in [Job -> {"queued", "running", "failed", "succeeded"}]
      /\ \A k \in Job : ledger'[k] = "succeeded" => ledger[k] = "succeeded"
  BY DEF MemoError, DeskInv, DeskShape
<1>5. RunMoves(r, Resting)
  BY <1>1, <1>2, <1>3, <1>4 DEF RunMoves, MemoError, DeskInv, DeskShape
<1> QED BY <1>5, RunMovesKeeps

LEMMA MemoDiesKeeps == ASSUME DeskInv, NEW r \in Runner, MemoDies(r) PROVE DeskInv'
<1>1. RunOK(Resting)' /\ Resting.phase # "writing"
  BY DEF RunOK, Resting
<1>2. UNCHANGED <<memos, proposals, ledger, clock, thesisVars>> /\ UnchangedButRun
  BY DEF MemoDies
<1>3. UNCHANGED theses
  BY <1>2 DEF thesisVars
<1>j. runs[r].job \in Job
  BY DEF MemoDies, Busy, DeskInv, RunInv, RunOK
<1>4. arq' \in [Job -> Nat] /\ deaths' \in Nat
  BY <1>j DEF MemoDies, DeskInv, DeskShape
<1>5. RunMoves(r, Resting)
  BY <1>1, <1>2, <1>3, <1>4 DEF RunMoves, MemoDies, DeskInv, DeskShape
<1> QED BY <1>5, RunMovesKeeps

LEMMA BuiltProposal ==
  ASSUME NEW batches \in Seq(Batch), NEW memo_status, NEW version \in Nat
  PROVE LET p == build_decision_proposal(batches, memo_status, version)
        IN /\ p \in Proposal /\ p.status = "draft" /\ p.thesis = version
           /\ p.ready <=> memo_status = "succeeded" /\ p.used > 0
<1> DEFINE p == build_decision_proposal(batches, memo_status, version)
<1>1. Used(batches) \in {0, 1} /\ Len(batches) \in Nat
  BY DEF Used
<1>2. Used(batches) # 0 => batches[Used(batches)] \in Batch
  BY DEF Used
<1>3. p.action \in Batch
  BY <1>2 DEF build_decision_proposal, Batch
<1>4. (Blockers(batches, memo_status) = {}) <=> memo_status = "succeeded" /\ Used(batches) > 0
  BY <1>1 DEF Blockers
<1> QED BY <1>1, <1>3, <1>4 DEF build_decision_proposal, Proposal

\* What was written about a memo stays, except that a pending one gets its status.
MemosKept ==
  /\ Len(memos) <= Len(memos')
  /\ \A i \in 1 .. Len(memos) :
       /\ memos'[i].opp = memos[i].opp /\ memos'[i].job = memos[i].job
       /\ memos'[i].thesis = memos[i].thesis
       /\ memos[i].status # "pending" => memos'[i].status = memos[i].status

LEMMA MemosKeptKeeps ==
  ASSUME DeskInv, MemosKept, memos' \in Seq(Memo), UNCHANGED <<calls, events, reply>>
  PROVE CallInv' /\ EventInv'
<1>1. Len(memos) \in Nat /\ Len(memos') \in Nat
  BY DEF DeskInv, DeskShape
<1>2. 1 .. Len(memos) \subseteq 1 .. Len(memos')
  BY <1>1 DEF MemosKept
<1>3. \A c \in Caller : CallOK(calls[c])'
  <2> SUFFICES ASSUME NEW c \in Caller, calls[c].phase = "deciding" PROVE CallOK(calls[c])'
    BY DEF DeskInv, CallInv, CallOK
  <2>1. CallOK(calls[c])
    BY DEF DeskInv, CallInv
  <2> QED BY <1>2, <2>1 DEF CallOK, MemosKept
<1>4. CallInv'
  BY <1>3 DEF CallInv, DeskInv
<1>5. EventInv /\ UNCHANGED <<events, reply>> /\ MemosKept
  BY DEF DeskInv
<1>6. EventInv'
  <2>1. ASSUME NEW e \in 1 .. Len(events)
        PROVE  /\ events[e].memo \in 1 .. Len(memos')
               /\ memos'[events[e].memo].status = "succeeded"
               /\ memos'[events[e].memo].opp = events[e].opp
               /\ events[e].thesis = memos'[events[e].memo].thesis
    BY ONLY <1>2, <1>5, <2>1 DEF EventInv, MemosKept
  <2> QED BY ONLY <1>5, <2>1 DEF EventInv
<1> QED BY <1>4, <1>6

LEMMA MemoPendKeeps == ASSUME DeskInv, NEW r \in Runner, MemoPend(r) PROVE DeskInv'
<1> DEFINE o == JobOpp[runs[r].job]
<1>1. runs[r].phase = "read" /\ RunOK(runs[r]) /\ o \in Opp /\ runs[r].job \in Job
  BY JobAssumption DEF MemoPend, DeskInv, RunInv, RunOK
<1>2. /\ runs[r].at \in 0 .. clock /\ runs[r].thesis \in 1 .. Len(theses)
      /\ runs[r].pins \in BOOLEAN /\ runs[r].batches \in Seq(Batch)
  BY <1>1 DEF RunOK
<1>3. Len(memos) \in Nat /\ Len(proposals) = Len(memos) /\ Len(theses) \in Nat /\ clock \in Nat
      /\ memos \in Seq(Memo) /\ proposals \in Seq(Proposal)
  BY DEF DeskInv, DeskShape, PackageInv, ThesisInv
<1>4. PICK m : m = [opp |-> o, job |-> runs[r].job, status |-> "pending", at |-> runs[r].at,
                    thesis |-> runs[r].thesis]
  OBVIOUS
<1>5. PICK p : p = build_decision_proposal(runs[r].batches, "pending", runs[r].thesis)
  OBVIOUS
<1>6. memos' = Append(memos, m) /\ proposals' = Append(proposals, p)
  BY <1>4, <1>5 DEF MemoPend
<1>7. m \in Memo /\ m.status = "pending" /\ m.at <= clock
      /\ m.thesis = runs[r].thesis /\ m.job = runs[r].job
  BY <1>1, <1>2, <1>3, <1>4 DEF Memo
<1>8. p \in Proposal /\ p.thesis = m.thesis /\ p.ready = FALSE
  <2>1. runs[r].thesis \in Nat
    BY <1>2, <1>3
  <2> QED BY <1>2, <1>5, <1>7, <2>1, BuiltProposal DEF Proposal
<1>9. /\ memos' \in Seq(Memo) /\ Len(memos') = Len(memos) + 1
      /\ proposals' \in Seq(Proposal) /\ Len(proposals') = Len(memos) + 1
      /\ memos'[Len(memos) + 1] = m /\ proposals'[Len(memos) + 1] = p
      /\ \A i \in 1 .. Len(memos) : memos'[i] = memos[i] /\ proposals'[i] = proposals[i]
  BY <1>3, <1>6, <1>7, <1>8
<1>10. UNCHANGED <<theses, clock, ledger, arq, deaths, edits, evidence, fit, saves, rescores,
                   arrivals>> /\ UnchangedButRun
  BY DEF MemoPend
<1>11. ThesisInv'
  <2>1. pin' \in [Opp -> 0 .. Len(theses)]
    <3>1. pin' = [pin EXCEPT ![o] = IF runs[r].pins THEN runs[r].thesis ELSE @]
      BY DEF MemoPend
    <3>2. pin \in [Opp -> 0 .. Len(theses)]
      BY DEF DeskInv, ThesisInv
    <3> QED BY <1>1, <1>2, <1>3, <3>1, <3>2
  <2> QED BY <1>10, <2>1 DEF DeskInv, ThesisInv, EditOK
<1>12. DeskShape'
  BY <1>9, <1>10 DEF DeskInv, DeskShape, UnchangedButRun, personVars
<1>13. PackageInv'
  <2>1. \A i \in 1 .. Len(memos) :
          /\ memos'[i].thesis \in 1 .. Len(theses) /\ memos'[i].at <= clock
          /\ proposals'[i].thesis = memos'[i].thesis
          /\ proposals'[i].ready <=> memos'[i].status = "succeeded" /\ proposals'[i].used > 0
    BY <1>9 DEF DeskInv, PackageInv
  <2>2. \A i \in 1 .. Len(memos') : i \in 1 .. Len(memos) \/ i = Len(memos) + 1
    BY <1>3, <1>9
  <2> QED BY <1>2, <1>7, <1>8, <1>9, <1>10, <2>1, <2>2 DEF PackageInv
<1>14. PICK q : q = [phase |-> "writing", job |-> runs[r].job, memo |-> Len(memos) + 1,
                     batches |-> runs[r].batches]
  OBVIOUS
<1>15. runs' = [runs EXCEPT ![r] = q]
  BY <1>14 DEF MemoPend
<1>16. \A s \in Runner : runs'[s] = IF s = r THEN q ELSE runs[s]
  BY <1>15 DEF DeskInv, RunInv
<1>17. RunOK(q)'
  BY <1>1, <1>2, <1>3, <1>7, <1>9, <1>14 DEF RunOK
<1>18. \A s \in Runner : RunOK(runs[s])'
  <2> SUFFICES ASSUME NEW s \in Runner, s # r PROVE RunOK(runs[s])'
    BY <1>16, <1>17 DEF RunOK
  <2>1. RunOK(runs[s]) /\ runs'[s] = runs[s]
    BY <1>16 DEF DeskInv, RunInv
  <2> QED BY <1>3, <1>9, <1>10, <2>1 DEF RunOK
<1>19. RunInv'
  <2>1. \A s \in Runner \ {r} : runs[s].phase = "writing" => runs[s].memo \in 1 .. Len(memos)
    BY DEF DeskInv, RunInv, RunOK
  <2>2. q.memo = Len(memos) + 1
    BY <1>14
  <2>3. DOMAIN runs' = Runner
    BY <1>15 DEF DeskInv, RunInv
  <2> QED BY <1>3, <1>16, <1>18, <2>1, <2>2, <2>3 DEF DeskInv, RunInv
<1>20. MemosKept
  BY <1>3, <1>9 DEF MemosKept
<1>21. CallInv' /\ EventInv'
  BY <1>9, <1>10, <1>20, MemosKeptKeeps DEF UnchangedButRun
<1>22. LedgerInv'
  BY <1>3, <1>9, <1>10 DEF DeskInv, LedgerInv
<1> QED BY <1>11, <1>12, <1>13, <1>19, <1>21, <1>22 DEF DeskInv

\* The facts about one MemoFinish that its proofs use: memo, proposal and status it writes.
Finishes(r, i, status, m, p) ==
  /\ runs[r].phase = "writing" /\ i = runs[r].memo /\ i \in 1 .. Len(memos)
  /\ memos[i].status = "pending" /\ memos[i].job = runs[r].job
  /\ status \in {"degraded", "failed", "succeeded"}
  /\ m \in Memo /\ m.status = status /\ m.opp = memos[i].opp /\ m.job = memos[i].job
  /\ m.thesis = memos[i].thesis /\ m.at = memos[i].at
  /\ p \in Proposal /\ p.thesis = m.thesis
  /\ p.action = proposals[i].action /\ p.status = proposals[i].status
  /\ p.ready <=> m.status = "succeeded" /\ p.used > 0
  /\ memos' = [memos EXCEPT ![i] = m] /\ proposals' = [proposals EXCEPT ![i] = p]
  /\ ledger' = [ledger EXCEPT ![runs[r].job] = JobStatus(status)]

LEMMA MemoFinishes ==
  ASSUME DeskInv, NEW r \in Runner, MemoFinish(r)
  PROVE \E i, status, m, p : Finishes(r, i, status, m, p)
<1>1. PICK i : i = runs[r].memo
  OBVIOUS
<1>2. PICK status \in Generated :
        /\ memos' = [memos EXCEPT ![i].status = status]
        /\ proposals' = [proposals EXCEPT ![i] =
             Applied(@, build_decision_proposal(runs[r].batches, status, memos[i].thesis))]
        /\ ledger' = [ledger EXCEPT ![runs[r].job] = JobStatus(status)]
  BY <1>1 DEF MemoFinish
<1>3. status \in {"degraded", "failed", "succeeded"}
  BY DEF Generated
<1>4. runs[r].phase = "writing" /\ RunOK(runs[r])
  BY DEF MemoFinish, DeskInv, RunInv
<1>5. i \in 1 .. Len(memos) /\ memos[i].status = "pending" /\ memos[i].job = runs[r].job
      /\ runs[r].batches \in Seq(Batch)
  BY <1>1, <1>4 DEF RunOK
<1>6. memos[i] \in Memo /\ proposals[i] \in Proposal
  BY <1>5 DEF DeskInv, DeskShape, PackageInv
<1>7. PICK m : m = [memos[i] EXCEPT !.status = status]
  OBVIOUS
<1>8. m \in Memo /\ m.status = status /\ m.opp = memos[i].opp /\ m.job = memos[i].job
      /\ m.thesis = memos[i].thesis /\ m.at = memos[i].at
  BY <1>3, <1>6, <1>7 DEF Memo
<1>9. PICK b : b = build_decision_proposal(runs[r].batches, status, memos[i].thesis)
  OBVIOUS
<1>10. b \in Proposal /\ b.thesis = memos[i].thesis /\ (b.ready <=> status = "succeeded" /\ b.used > 0)
  <2>1. memos[i].thesis \in Nat
    BY <1>6 DEF Memo
  <2> QED BY <1>5, <1>9, <2>1, BuiltProposal
<1>11. PICK p : p = Applied(proposals[i], b)
  OBVIOUS
<1>12. p \in Proposal /\ p.thesis = m.thesis
       /\ p.action = proposals[i].action /\ p.status = proposals[i].status
       /\ (p.ready <=> m.status = "succeeded" /\ p.used > 0)
  BY <1>6, <1>8, <1>10, <1>11 DEF Applied, Proposal
<1>13. memos' = [memos EXCEPT ![i] = m] /\ proposals' = [proposals EXCEPT ![i] = p]
  BY <1>2, <1>7, <1>9, <1>11
<1>14. Finishes(r, i, status, m, p)
  BY <1>1, <1>2, <1>3, <1>4, <1>5, <1>8, <1>12, <1>13 DEF Finishes
<1> QED BY <1>14

LEMMA MemoFinishKeeps == ASSUME DeskInv, NEW r \in Runner, MemoFinish(r) PROVE DeskInv'
<1>1. PICK i, status, m, p : Finishes(r, i, status, m, p)
  BY MemoFinishes
<1>2. UNCHANGED <<arq, clock, deaths, thesisVars>> /\ UnchangedButRun
      /\ runs' = [runs EXCEPT ![r] = Resting]
  BY DEF MemoFinish
<1>3. UNCHANGED theses
  BY <1>2 DEF thesisVars
<1>4. Len(memos) \in Nat /\ Len(proposals) = Len(memos)
      /\ memos \in Seq(Memo) /\ proposals \in Seq(Proposal)
  BY DEF DeskInv, DeskShape, PackageInv
<1>5. /\ memos' \in Seq(Memo) /\ Len(memos') = Len(memos)
      /\ \A k \in 1 .. Len(memos) : memos'[k] = IF k = i THEN m ELSE memos[k]
  BY <1>1, <1>4 DEF Finishes
<1>6. /\ proposals' \in Seq(Proposal) /\ Len(proposals') = Len(memos)
      /\ \A k \in 1 .. Len(memos) : proposals'[k] = IF k = i THEN p ELSE proposals[k]
  BY <1>1, <1>4 DEF Finishes
<1>7. runs[r].job \in Job
  BY <1>1 DEF Finishes, DeskInv, RunInv, RunOK
<1>8. DeskShape'
  <2>1. ledger' \in [Job -> {"queued", "running", "failed", "succeeded"}]
    BY <1>1 DEF Finishes, DeskInv, DeskShape, JobStatus
  <2> QED BY <1>2, <1>5, <1>6, <2>1 DEF DeskInv, DeskShape, UnchangedButRun, personVars
<1>9. PackageInv'
  <2> SUFFICES ASSUME NEW k \in 1 .. Len(memos)
               PROVE /\ memos'[k].thesis \in 1 .. Len(theses) /\ memos'[k].at <= clock
                     /\ proposals'[k].thesis = memos'[k].thesis
                     /\ proposals'[k].ready <=> memos'[k].status = "succeeded" /\ proposals'[k].used > 0
    BY <1>2, <1>3, <1>5, <1>6 DEF PackageInv
  <2>1. CASE k = i
    BY <1>1, <1>5, <1>6, <2>1 DEF Finishes, DeskInv, PackageInv
  <2>2. CASE k # i
    BY <1>5, <1>6, <2>2 DEF DeskInv, PackageInv
  <2> QED BY <2>1, <2>2
<1>10. MemosKept
  BY <1>1, <1>4, <1>5 DEF Finishes, MemosKept
<1>11. CallInv' /\ EventInv'
  BY <1>2, <1>5, <1>10, MemosKeptKeeps DEF UnchangedButRun
<1>12. \A s \in Runner : runs'[s] = IF s = r THEN Resting ELSE runs[s]
  BY <1>2 DEF DeskInv, RunInv
<1>13. \A s \in Runner : RunOK(runs[s])'
  <2> SUFFICES ASSUME NEW s \in Runner, s # r PROVE RunOK(runs[s])'
    BY <1>12 DEF RunOK, Resting
  <2>1. RunOK(runs[s]) /\ runs'[s] = runs[s]
    BY <1>12 DEF DeskInv, RunInv
  <2>2. runs[s].phase = "writing" => runs[s].memo # i
    BY <1>1 DEF Finishes, DeskInv, RunInv
  <2> QED BY <1>2, <1>3, <1>4, <1>5, <2>1, <2>2 DEF RunOK
<1>14. RunInv'
  BY <1>2, <1>12, <1>13 DEF DeskInv, RunInv, Resting
<1>15. LedgerInv'
  <2> SUFFICES ASSUME NEW j \in Job, ledger'[j] = "succeeded"
               PROVE \E k \in 1 .. Len(memos) : memos'[k].status = "succeeded" /\ memos'[k].job = j
    BY <1>5 DEF LedgerInv
  <2>1. CASE j = runs[r].job
    <3>1. status = "succeeded"
      BY <1>1, <1>7, <2>1 DEF Finishes, DeskInv, DeskShape, JobStatus
    <3> QED BY <1>1, <1>5, <2>1, <3>1 DEF Finishes
  <2>2. CASE j # runs[r].job
    <3>1. ledger[j] = "succeeded"
      BY <1>1, <2>2 DEF Finishes, DeskInv, DeskShape
    <3>2. PICK k \in 1 .. Len(memos) : memos[k].status = "succeeded" /\ memos[k].job = j
      BY <3>1 DEF DeskInv, LedgerInv
    <3> QED BY <1>1, <1>5, <3>2 DEF Finishes
  <2> QED BY <2>1, <2>2
<1>16. ThesisInv'
  BY <1>2, ThesisFrame DEF DeskInv
<1> QED BY <1>8, <1>9, <1>11, <1>14, <1>15, <1>16 DEF DeskInv

(***************************************************************************)
(* Decisions: what they leave alone, then one lemma per step.              *)
(***************************************************************************)
LEMMA CallFrame ==
  ASSUME DeskInv, UnchangedButCall
  PROVE ThesisInv' /\ RunInv' /\ LedgerInv' /\ UNCHANGED <<memos, theses, clock>>
        /\ (UNCHANGED proposals => PackageInv')
<1> USE DEF UnchangedButCall, DeskInv
<1>1. ThesisInv' /\ UNCHANGED <<memos, theses, clock>>
  BY ThesisFrame DEF thesisVars
<1>2. RunInv' /\ LedgerInv' /\ (UNCHANGED proposals => PackageInv')
  BY <1>1 DEF RunInv, RunOK, LedgerInv, PackageInv
<1> QED BY <1>1, <1>2

\* A request that is answered with an event that exists, or refused.
LEMMA ReplyKeeps ==
  ASSUME DeskInv, UnchangedButCall, NEW c \in Caller, NEW q, NEW e \in 0 .. Len(events), Reply(c, q, e),
         UNCHANGED <<stage, proposals, events>>, asks' \in [Opp -> Nat],
         \/ UNCHANGED calls
         \/ calls' = [calls EXCEPT ![c] = Waiting]
  PROVE DeskInv'
<1>1. ThesisInv' /\ RunInv' /\ LedgerInv' /\ PackageInv' /\ UNCHANGED <<memos, theses, clock>>
  BY CallFrame
<1>2. DeskShape'
  BY DEF DeskInv, DeskShape, UnchangedButCall, personVars
<1>3. EventInv'
  <2>1. DOMAIN reply' = Caller /\ \A d \in Caller : reply'[d].event \in 0 .. Len(events)
    BY DEF Reply, DeskInv, EventInv
  <2> QED BY <1>1, <2>1 DEF DeskInv, EventInv
<1>4. CallInv'
  <2>1. DOMAIN calls' = Caller /\ \A d \in Caller : calls'[d] \in {calls[d], Waiting}
    BY DEF DeskInv, CallInv
  <2>2. Waiting.phase = "idle"
    BY DEF Waiting
  <2>3. \A d \in Caller : CallOK(calls[d])'
    BY <1>1, <2>1, <2>2 DEF DeskInv, CallInv, CallOK
  <2> QED BY <2>1, <2>2, <2>3 DEF DeskInv, CallInv
<1> QED BY <1>1, <1>2, <1>3, <1>4 DEF DeskInv

\* A request that goes on to its next phase: a deciding one holds the row lock.
LEMMA CallMovesKeeps ==
  ASSUME DeskInv, UnchangedButCall, NEW c \in Caller, NEW q, CallOK(q),
         calls' = [calls EXCEPT ![c] = q], q.phase = "deciding" => ~Locked(q.opp),
         UNCHANGED <<stage, proposals, events, reply>>, asks' \in [Opp -> Nat]
  PROVE DeskInv'
<1>1. ThesisInv' /\ RunInv' /\ LedgerInv' /\ PackageInv' /\ UNCHANGED <<memos, theses, clock>>
  BY CallFrame
<1>2. DOMAIN calls' = Caller /\ \A d \in Caller : calls'[d] = IF d = c THEN q ELSE calls[d]
  BY DEF DeskInv, CallInv
<1>3. \A d \in Caller : CallOK(calls[d])'
  BY <1>1, <1>2 DEF CallOK, DeskInv, CallInv
<1>4. q.phase = "deciding" => \A d \in Caller : calls[d].phase = "deciding" => calls[d].opp # q.opp
  BY DEF Locked
<1>5. CallInv'
  BY <1>2, <1>3, <1>4 DEF DeskInv, CallInv
<1>6. DeskShape'
  BY DEF DeskInv, DeskShape, UnchangedButCall, personVars
<1>7. EventInv'
  BY <1>1 DEF DeskInv, EventInv
<1> QED BY <1>1, <1>5, <1>6, <1>7 DEF DeskInv

LEMMA DecideArriveKeeps == ASSUME DeskInv, NEW c \in Caller, DecideArrive(c) PROVE DeskInv'
<1>1. PICK q \in [who : Founder, opp : Opp, key : IdemKey, action : DecisionAction] :
        /\ asks[q.opp] > 0 /\ asks' = [asks EXCEPT ![q.opp] = @ - 1]
        /\ \/ /\ calls' = [calls EXCEPT ![c] = [phase |-> "arrived", who |-> q.who, opp |-> q.opp,
                                               key |-> q.key, action |-> q.action]]
              /\ UNCHANGED reply
           \/ Reply(c, q, 0) /\ UNCHANGED calls
        /\ UnchangedButCall /\ UNCHANGED <<stage, proposals, events>>
  BY DEF DecideArrive
<1>2. asks' \in [Opp -> Nat] /\ 0 \in 0 .. Len(events)
  BY <1>1 DEF DeskInv, DeskShape
<1>3. CASE Reply(c, q, 0) /\ UNCHANGED calls
  BY <1>1, <1>2, <1>3, ReplyKeeps
<1>4. PICK k : k = [phase |-> "arrived", who |-> q.who, opp |-> q.opp, key |-> q.key,
                    action |-> q.action]
  OBVIOUS
<1>5. CallOK(k) /\ k.phase # "deciding"
  BY <1>4 DEF CallOK
<1>6. CASE calls' = [calls EXCEPT ![c] = k] /\ UNCHANGED reply
  BY <1>1, <1>2, <1>5, <1>6, CallMovesKeeps
<1> QED BY <1>1, <1>3, <1>4, <1>6

LEMMA DecideReadKeeps == ASSUME DeskInv, NEW c \in Caller, DecideRead(c) PROVE DeskInv'
<1>1. PICK q :
        /\ q = calls[c] /\ q.phase = "arrived" /\ ~Locked(q.opp)
        /\ \/ \E e \in Recorded(q.key) : Answered(c, q, IF Same(e, q) THEN e ELSE 0)
           \/ Recorded(q.key) = {} /\ (~Allowed(q) \/ Citable(q.opp) = {}) /\ Answered(c, q, 0)
           \/ Recorded(q.key) = {} /\ Allowed(q) /\ \E i \in Citable(q.opp) : Decides(c, q, i)
        /\ UnchangedButCall /\ UNCHANGED <<stage, proposals, events, asks>>
  BY DEF DecideRead
<1>2. asks' \in [Opp -> Nat]
  BY <1>1 DEF DeskInv, DeskShape
<1>3. DOMAIN events = 1 .. Len(events) /\ DOMAIN memos = 1 .. Len(memos)
      /\ Len(events) \in Nat /\ Len(memos) \in Nat
  BY DEF DeskInv, DeskShape
<1>4. ASSUME NEW e \in 0 .. Len(events), Answered(c, q, e) PROVE DeskInv'
  BY <1>1, <1>2, <1>4, ReplyKeeps DEF Answered
<1>5. CASE \E e \in Recorded(q.key) : Answered(c, q, IF Same(e, q) THEN e ELSE 0)
  <2>1. PICK e \in 0 .. Len(events) : Answered(c, q, e)
    BY <1>3, <1>5 DEF Recorded
  <2> QED BY <1>4, <2>1
<1>6. CASE Answered(c, q, 0)
  <2>1. 0 \in 0 .. Len(events)
    BY <1>3
  <2> QED BY <1>4, <1>6, <2>1
<1>7. ASSUME Recorded(q.key) = {}, NEW i \in Citable(q.opp), Decides(c, q, i) PROVE DeskInv'
  <2>1. PICK k : k = [phase |-> "deciding", who |-> q.who, opp |-> q.opp, key |-> q.key,
                      action |-> q.action, memo |-> i, proposals |-> Newest(q.opp, DOMAIN memos)]
    OBVIOUS
  <2>2. i \in 1 .. Len(memos) /\ memos[i].status = "succeeded" /\ memos[i].opp = q.opp
    BY <1>3 DEF Citable, Newest, Validated
  <2>3. Newest(q.opp, DOMAIN memos) \subseteq {x \in 1 .. Len(memos) : memos[x].opp = q.opp}
    BY <1>3 DEF Newest
  <2>4. \A e \in 1 .. Len(events) : events[e].key # q.key
    BY <1>3, <1>7 DEF Recorded
  <2>5. q.opp \in Opp /\ q.key \in IdemKey /\ q.action \in DecisionAction
    BY <1>1 DEF DeskInv, CallInv, CallOK
  <2>6. CallOK(k) /\ k.opp = q.opp
    BY <2>1, <2>2, <2>3, <2>4, <2>5 DEF CallOK
  <2>7. calls' = [calls EXCEPT ![c] = k] /\ UNCHANGED reply
    BY <1>7, <2>1 DEF Decides
  <2> QED BY <1>1, <1>2, <2>6, <2>7, CallMovesKeeps
<1> QED BY <1>1, <1>5, <1>6, <1>7

\* A merge moves links between persons: memos, decisions and requests stay.
LEMMA MergeKeeps ==
  ASSUME DeskInv, NEW p \in Founder, NEW s \in Founder, Merge(p, s) PROVE DeskInv'
<1>1. link' \in [Opp -> Founder] /\ merged' \subseteq Founder /\ merges' \in Nat
  BY DEF Merge, DeskInv, DeskShape
<1>2. DeskShape'
  BY <1>1 DEF Merge, DeskInv, DeskShape
<1>3. ThesisInv' /\ UNCHANGED theses
  BY ThesisFrame DEF Merge, DeskInv, thesisVars
<1>4. PackageInv' /\ RunInv' /\ CallInv'
  BY <1>3 DEF Merge, DeskInv, PackageInv, RunInv, RunOK, CallInv, CallOK
<1>5. EventInv' /\ LedgerInv'
  BY DEF Merge, DeskInv, EventInv, LedgerInv
<1> QED BY <1>2, <1>3, <1>4, <1>5 DEF DeskInv

LEMMA DecideConflictKeeps == ASSUME DeskInv, NEW c \in Caller, DecideConflict(c) PROVE DeskInv'
<1>1. 0 \in 0 .. Len(events) /\ asks' \in [Opp -> Nat]
  BY DEF DeskInv, DeskShape, DecideConflict
<1> QED BY <1>1, ReplyKeeps DEF DecideConflict, Answered

LEMMA DecideCommitKeeps == ASSUME DeskInv, NEW c \in Caller, DecideCommit(c) PROVE DeskInv'
<1> DEFINE new == [opp |-> calls[c].opp, key |-> calls[c].key, action |-> calls[c].action,
                   memo |-> calls[c].memo, thesis |-> memos[calls[c].memo].thesis]
<1>1. CallOK(calls[c]) /\ calls[c].phase = "deciding"
  BY DEF DecideCommit, DeskInv, CallInv
<1>2. /\ calls[c].opp \in Opp /\ calls[c].key \in IdemKey /\ calls[c].action \in DecisionAction
      /\ calls[c].memo \in 1 .. Len(memos)
      /\ memos[calls[c].memo].status = "succeeded" /\ memos[calls[c].memo].opp = calls[c].opp
      /\ calls[c].proposals \subseteq {i \in 1 .. Len(memos) : memos[i].opp = calls[c].opp}
  BY <1>1 DEF CallOK
<1>3. events \in Seq(Event) /\ Len(events) \in Nat /\ DOMAIN events = 1 .. Len(events)
      /\ memos \in Seq(Memo) /\ proposals \in Seq(Proposal) /\ Len(proposals) = Len(memos)
      /\ DOMAIN proposals = 1 .. Len(memos) /\ Len(memos) \in Nat
  BY DEF DeskInv, DeskShape, PackageInv
<1>4. UnchangedButCall /\ UNCHANGED asks /\ UNCHANGED <<memos, theses, clock>>
      /\ ThesisInv' /\ RunInv' /\ LedgerInv'
  BY CallFrame DEF DecideCommit
<1>5. PICK ev : ev = new
  OBVIOUS
<1>6. /\ ev \in Event /\ ev.opp = calls[c].opp /\ ev.key = calls[c].key
      /\ ev.memo = calls[c].memo /\ ev.thesis = memos[calls[c].memo].thesis
  <2>0. memos[calls[c].memo] \in Memo
    BY <1>2, <1>3
  <2>1. memos[calls[c].memo].thesis \in Nat
    BY <2>0 DEF Memo
  <2>2. calls[c].memo \in Nat
    BY <1>2, <1>3
  <2> QED BY <1>2, <1>5, <2>1, <2>2 DEF Event
<1>7. events' = Append(events, ev)
  BY <1>5 DEF DecideCommit
<1>8. /\ events' \in Seq(Event) /\ Len(events') = Len(events) + 1
      /\ events'[Len(events) + 1] = ev
      /\ \A e \in 1 .. Len(events) : events'[e] = events[e]
  BY <1>3, <1>6, <1>7
<1>9. \A e \in 1 .. Len(events') : e \in 1 .. Len(events) \/ e = Len(events) + 1
  BY <1>3, <1>8
<1>10. \A e \in 1 .. Len(events) : events[e].key # calls[c].key
  BY <1>3 DEF DecideCommit, Recorded
<1>11. /\ DOMAIN proposals' = 1 .. Len(memos)
       /\ \A i \in 1 .. Len(memos) : proposals'[i] =
            IF i \notin calls[c].proposals THEN proposals[i]
            ELSE [proposals[i] EXCEPT
                   !.status = IF Proposed[calls[c].action] # proposals[i].action
                              THEN "overridden" ELSE "approved",
                   !.action = Proposed[calls[c].action]]
  BY <1>3 DEF DecideCommit
<1>12. Proposed[calls[c].action] \in Batch \cup {"decline"}
  BY <1>2 DEF Proposed, DecisionAction, Batch
<1>13. \A i \in 1 .. Len(memos) :
         /\ proposals'[i] \in Proposal /\ proposals'[i].thesis = proposals[i].thesis
         /\ proposals'[i].ready = proposals[i].ready /\ proposals'[i].used = proposals[i].used
  <2> SUFFICES ASSUME NEW i \in 1 .. Len(memos)
               PROVE /\ proposals'[i] \in Proposal /\ proposals'[i].thesis = proposals[i].thesis
                     /\ proposals'[i].ready = proposals[i].ready
                     /\ proposals'[i].used = proposals[i].used
    OBVIOUS
  <2>1. proposals[i] \in Proposal
    BY <1>3
  <2>2. CASE i \notin calls[c].proposals
    BY <1>11, <2>1, <2>2
  <2>3. CASE i \in calls[c].proposals
    <3>1. PICK a, t : /\ a = Proposed[calls[c].action]
                      /\ t = IF a # proposals[i].action THEN "overridden" ELSE "approved"
      OBVIOUS
    <3>2. proposals'[i] = [proposals[i] EXCEPT !.status = t, !.action = a]
      BY <1>11, <2>3, <3>1
    <3>3. a \in Batch \cup {"decline"} /\ t \in {"draft", "approved", "overridden"}
      BY <1>12, <3>1
    <3> QED BY <2>1, <3>2, <3>3 DEF Proposal
  <2> QED BY <2>2, <2>3
<1>14. proposals' \in Seq(Proposal) /\ Len(proposals') = Len(memos)
  <2>1. proposals' = [i \in 1 .. Len(memos) |-> proposals'[i]]
    BY <1>3 DEF DecideCommit
  <2> QED BY <1>3, <1>13, <2>1, SMTT(30)
<1>15. stage' \in [Opp -> STAGES]
  <2>1. decision_state_for_action[calls[c].action] \in STAGES
    BY <1>2 DEF decision_state_for_action, DecisionAction, STAGES
  <2> QED BY <1>2, <2>1 DEF DecideCommit, DeskInv, DeskShape
<1>16. DeskShape'
  BY <1>4, <1>8, <1>14, <1>15 DEF DeskInv, DeskShape, UnchangedButCall, personVars
<1>17. PackageInv'
  BY <1>4, <1>13, <1>14 DEF DeskInv, PackageInv
<1>18. /\ DOMAIN calls' = Caller /\ DOMAIN reply' = Caller
       /\ \A d \in Caller : calls'[d] = IF d = c THEN Waiting ELSE calls[d]
       /\ \A d \in Caller : reply'[d].event \in 0 .. Len(events')
  <2>1. DOMAIN calls = Caller /\ DOMAIN reply = Caller
        /\ \A d \in Caller : reply[d].event \in 0 .. Len(events)
    BY DEF DeskInv, CallInv, EventInv
  <2>2. calls' = [calls EXCEPT ![c] = Waiting]
    BY DEF DecideCommit, Answered
  <2>3. PICK a : a = [who |-> calls[c].who, opp |-> calls[c].opp, key |-> calls[c].key,
                      action |-> calls[c].action, event |-> Len(events) + 1]
    OBVIOUS
  <2>4. reply' = [reply EXCEPT ![c] = a]
    BY <2>3 DEF DecideCommit, Answered, Reply
  <2>5. a.event = Len(events) + 1
    BY <2>3
  <2> QED BY <1>3, <1>8, <2>1, <2>2, <2>4, <2>5
<1>19. \A d \in Caller : CallOK(calls[d])'
  <2> SUFFICES ASSUME NEW d \in Caller, d # c, calls[d].phase = "deciding" PROVE CallOK(calls[d])'
    BY <1>18 DEF CallOK, Waiting, DeskInv, CallInv
  <2>1. CallOK(calls[d]) /\ calls'[d] = calls[d] /\ calls[d].opp # calls[c].opp
    BY <1>1, <1>18 DEF DeskInv, CallInv
  <2>2. \A e \in 1 .. Len(events') : events'[e].key = calls[d].key => events'[e].opp # calls[d].opp
    BY <1>6, <1>8, <1>9, <2>1 DEF CallOK
  <2> QED BY <1>4, <2>1, <2>2 DEF CallOK
<1>20. CallInv'
  BY <1>18, <1>19 DEF CallInv, Waiting, DeskInv
<1>21. EventInv'
  <2>1. \A e \in 1 .. Len(events') :
          /\ events'[e].memo \in 1 .. Len(memos)
          /\ memos[events'[e].memo].status = "succeeded"
          /\ memos[events'[e].memo].opp = events'[e].opp
          /\ events'[e].thesis = memos[events'[e].memo].thesis
    BY <1>2, <1>6, <1>8, <1>9 DEF DeskInv, EventInv
  <2>2. \A e, f \in 1 .. Len(events') : events'[e].key = events'[f].key => e = f
    BY <1>6, <1>8, <1>9, <1>10, SMTT(30) DEF DeskInv, EventInv
  <2> QED BY <1>4, <1>18, <2>1, <2>2 DEF EventInv
<1> QED BY <1>4, <1>16, <1>17, <1>20, <1>21 DEF DeskInv

LEMMA DeskStepKeeps == DeskInv /\ [DeskStep]_deskAll => DeskInv'
<1>1. DeskInv /\ DeskNext => DeskInv'
  BY ResearchKeeps, MemoTakeKeeps, MemoReadKeeps, MemoErrorKeeps, MemoPendKeeps, MemoFinishKeeps,
     MemoDiesKeeps, MergeKeeps, DecideArriveKeeps, DecideReadKeeps, DecideCommitKeeps,
     DecideConflictKeeps
  DEF DeskNext
<1>2. DeskInv /\ ThesisNext /\ UNCHANGED deskVars => DeskInv'
  BY ThesisStepKeepsDesk
<1>3. DeskInv /\ UNCHANGED deskAll => DeskInv'
  BY ThesisStepKeepsDesk DEF deskAll
<1> QED BY <1>1, <1>2, <1>3 DEF DeskStep

LEMMA DeskInvariant == DeskSpec => []DeskInv
<1> DEFINE Start == /\ ThesisInit /\ DeskInit
                    /\ saves \in Nat /\ rescores \in Nat /\ arrivals \in Nat /\ deaths \in Nat
                    /\ merges \in Nat
                    /\ researches \in [Opp -> Nat] /\ asks \in [Opp -> Nat] /\ arq \in [Job -> Nat]
<1>1. Start => DeskInv
  BY ThesisStart, DeskStart
<1>2. DeskSpec => Start /\ [][DeskStep]_deskAll
  BY DEF DeskSpec, DeskStep, deskAll
<1> HIDE DEF Start
<1> QED BY <1>1, <1>2, DeskStepKeeps, PTL

\* What runs and requests in flight hold on to exists: a memo has its proposal, a stored, a
\* pinned and a scored thesis version exists and exactly the newest is active.
THEOREM DeskTypeCorrect == DeskSpec => [](DeskTypeOK /\ ThesisTypeOK)
<1>1. DeskInv => DeskTypeOK
  <2> SUFFICES ASSUME DeskInv PROVE DeskTypeOK
    OBVIOUS
  <2> USE DEF DeskInv
  <2>1. DOMAIN memos = 1 .. Len(memos) /\ DOMAIN proposals = 1 .. Len(memos)
        /\ DOMAIN events = 1 .. Len(events) /\ Version = 1 .. Len(theses) /\ Len(events) \in Nat
    BY DEF DeskShape, PackageInv, ThesisInv, Version
  <2>2. \A i \in 1 .. Len(memos) : memos[i] \in Memo /\ proposals[i] \in Proposal
    BY DEF DeskShape, PackageInv
  <2>3. \A i \in DOMAIN memos :
          memos[i].status \in {"pending", "failed", "degraded", "succeeded"}
          /\ memos[i].thesis \in Version /\ memos[i].at <= clock
    BY <2>1, <2>2 DEF PackageInv, Memo
  <2>4. \A i \in DOMAIN proposals :
          proposals[i].action \in Batch \cup {"decline"}
          /\ proposals[i].status \in {"draft", "approved", "overridden"}
    BY <2>1, <2>2 DEF Proposal
  <2>5. \A r \in Runner : runs[r].phase = "writing" => memos[runs[r].memo].status = "pending"
    BY DEF RunInv, RunOK
  <2>6. \A c \in Caller : reply[c].event \in DOMAIN events \cup {0}
                          /\ (calls[c].phase = "deciding" => calls[c].memo \in Validated)
    BY <2>1 DEF EventInv, CallInv, CallOK, Validated
  <2> QED BY <2>1, <2>3, <2>4, <2>5, <2>6 DEF DeskTypeOK, DeskShape
<1>2. DeskInv => ThesisTypeOK
  <2> SUFFICES ASSUME DeskInv PROVE ThesisTypeOK
    OBVIOUS
  <2> USE DEF DeskInv, ThesisInv
  <2>1. Version = 1 .. Len(theses) /\ Len(theses) \in Nat
    BY DEF Version
  <2>2. \A v \in Version : theses[v] \in Stored
    BY <2>1
  <2>3. Active = {v \in Version : v = Len(theses)}
    BY <2>1 DEF Active
  <2>4. \A v \in Version : theses[v].mandate \in Mandate
    BY <2>2 DEF Stored
  <2>5. pin \in [Opp -> Version \cup {Unpinned}]
    BY <2>1 DEF Unpinned
  <2>6. \A o \in Opp : fit[o].version \in Version \cup {0} /\ evidence[o] \in Seq(Fact)
    BY <2>1
  <2> QED BY <2>3, <2>4, <2>5, <2>6 DEF ThesisTypeOK
<1> QED BY <1>1, <1>2, DeskInvariant, PTL

\* The rows are numbered from 1, and every memo has its proposal.
LEMMA DeskDomains ==
  ASSUME DeskInv
  PROVE /\ DOMAIN memos = 1 .. Len(memos) /\ DOMAIN proposals = 1 .. Len(memos)
        /\ DOMAIN events = 1 .. Len(events)
<1>1. memos \in Seq(Memo) /\ proposals \in Seq(Proposal) /\ events \in Seq(Event)
      /\ Len(proposals) = Len(memos)
  BY DEF DeskInv, DeskShape, PackageInv
<1> QED BY <1>1

\* record_candidate_decision: every decision cites a memo of its own opportunity that
\* passed validation, whatever jobs, deaths and requests overlap.
THEOREM CitedMemoValidated == DeskSpec => []DecisionCitesValidatedMemo
<1>1. DeskInv => DecisionCitesValidatedMemo
  BY DeskDomains DEF DeskInv, EventInv, DecisionCitesValidatedMemo, Validated
<1> QED BY <1>1, DeskInvariant, PTL

\* generate_memo_job: a proposal is ready exactly when its memo was validated and its axes
\* were assessed.
THEOREM ReadyIffValidated == DeskSpec => []ReadyMeansValidated
<1>1. DeskInv => ReadyMeansValidated
  BY DeskDomains DEF DeskInv, PackageInv, ReadyMeansValidated
<1> QED BY <1>1, DeskInvariant, PTL

\* generate_memo_job and record_candidate_decision: a memo, its proposal and the decisions
\* that cite them name one thesis version, however many versions are saved meanwhile.
THEOREM PackageKeepsThesis == DeskSpec => []OneThesisPerPackage
<1>1. DeskInv => OneThesisPerPackage
  BY DeskDomains DEF DeskInv, PackageInv, EventInv, OneThesisPerPackage
<1> QED BY <1>1, DeskInvariant, PTL

\* finish_job in generate_memo_job: a job that the ledger calls succeeded left a validated
\* memo of its own.
THEOREM SuccessLeavesMemo == DeskSpec => []LedgerTellsTruth
<1>1. DeskInv => LedgerTellsTruth
  BY DeskDomains DEF DeskInv, LedgerInv, LedgerTellsTruth, Validated
<1> QED BY <1>1, DeskInvariant, PTL

\* score_thesis_alignment, for every mandate the API accepts and every set of observations:
\* nothing unknown counts as failed, and a broken hard constraint caps the score.
THEOREM NothingUnknownFails == DeskSpec => []UnknownIsNotFailed
<1>1. ThesisInit => UnknownIsNotFailed
  BY DEF ThesisInit, UnknownIsNotFailed
<1>2. DeskStep \/ UNCHANGED deskAll => ThesisNext \/ UNCHANGED fit
  BY DEF DeskStep, DeskNext, deskAll, thesisVars, Research, MemoTake, MemoRead, MemoError, MemoPend,
         MemoFinish, MemoDies, Merge, DecideArrive, DecideRead, DecideCommit, DecideConflict,
         UnchangedButCall
<1>3. DeskInv /\ UnknownIsNotFailed /\ [DeskStep]_deskAll => UnknownIsNotFailed'
  BY <1>2, FitKeeps DEF DeskInv
<1>4. DeskSpec => ThesisInit /\ [][DeskStep]_deskAll
  BY DEF DeskSpec, DeskStep, deskAll
<1> QED BY <1>1, <1>3, <1>4, DeskInvariant, PTL

(***************************************************************************)
(* Action properties.                                                      *)
(***************************************************************************)
\* A decided proposal is changed by a later decision on its own opportunity only: the memo
\* job that saves the proposal it created before leaves action and status as they are.
THEOREM DecisionsStand == DeskSpec => DecidedProposalStands
<1> DEFINE Untouched(i) ==
             proposals'[i].action = proposals[i].action /\ proposals'[i].status = proposals[i].status
           Stands == \A i \in DOMAIN proposals :
             /\ proposals[i].status # "draft"
             /\ <<proposals'[i].action, proposals'[i].status>>
                # <<proposals[i].action, proposals[i].status>>
             => Len(events') > Len(events) /\ events'[Len(events')].opp = memos[i].opp
<1>1. (\A i \in DOMAIN proposals : Untouched(i)) => Stands
  OBVIOUS
<1>2. UNCHANGED proposals => Stands
  BY <1>1
<1>3. ASSUME DeskInv, NEW r \in Runner, MemoPend(r) PROVE Stands
  <2>1. PICK p : proposals' = Append(proposals, p)
    BY <1>3 DEF MemoPend
  <2>2. proposals \in Seq(Proposal)
    BY <1>3 DEF DeskInv, DeskShape
  <2>3. \A i \in DOMAIN proposals : proposals'[i] = proposals[i]
    BY <2>1, <2>2
  <2> QED BY <1>1, <2>3
<1>4. ASSUME DeskInv, NEW r \in Runner, MemoFinish(r) PROVE Stands
  <2>1. PICK i, status, m, p : Finishes(r, i, status, m, p)
    BY <1>4, MemoFinishes
  <2>2. \A k \in DOMAIN proposals : proposals'[k] = IF k = i THEN p ELSE proposals[k]
    BY <2>1 DEF Finishes
  <2> QED BY <1>1, <2>1, <2>2 DEF Finishes
<1>5. ASSUME DeskInv, NEW c \in Caller, DecideCommit(c) PROVE Stands
  <2>1. CallOK(calls[c]) /\ calls[c].phase = "deciding"
    BY <1>5 DEF DecideCommit, DeskInv, CallInv
  <2>2. \A i \in DOMAIN proposals : i \notin calls[c].proposals => proposals'[i] = proposals[i]
    BY <1>5 DEF DecideCommit
  <2>3. \A i \in calls[c].proposals : memos[i].opp = calls[c].opp
    BY <2>1 DEF CallOK
  <2>4. PICK ev : ev.opp = calls[c].opp /\ events' = Append(events, ev)
    BY <1>5 DEF DecideCommit
  <2>5. events \in Seq(Event) /\ Len(events) \in Nat
    BY <1>5 DEF DeskInv, DeskShape
  <2>6. Len(events') > Len(events) /\ events'[Len(events')].opp = calls[c].opp
    BY <2>4, <2>5
  <2> QED BY <2>2, <2>3, <2>6
<1>6. DeskInv /\ DeskStep => Stands
  BY <1>2, <1>3, <1>4, <1>5
  DEF DeskStep, DeskNext, deskVars, Research, MemoTake, MemoRead, MemoError, MemoDies, Merge,
      DecideArrive, DecideRead, DecideConflict
<1>7. UNCHANGED deskAll => UNCHANGED <<proposals, events>>
  BY DEF deskAll, deskVars
<1>8. DeskInv /\ [DeskStep]_deskAll => [Stands]_<<proposals, events>>
  BY <1>6, <1>7
<1>9. DeskSpec => [][DeskStep]_deskAll
  BY DEF DeskSpec, DeskStep, deskAll
<1> HIDE DEF Stands
<1>10. DeskSpec => [][Stands]_<<proposals, events>>
  BY <1>8, <1>9, DeskInvariant, PTL
<1> QED BY <1>10 DEF DecidedProposalStands, Stands

\* "Persist an idempotent, lifecycle-validated human VC decision": a request whose key is
\* recorded gets the recorded event if it asks for the same of the founder there is now, and
\* is refused otherwise.  The request that meets the unique constraint is refused rightly
\* because of the row lock, whoever was merged while it waited for that lock.
THEOREM KeysAnswered == DeskSpec => RetriesAnswered
<1> DEFINE Right(e, a) == IF Same(e, a) THEN a.event = e \/ (a.event = 0 /\ ~Linked(a))
                                       ELSE a.event = 0
           Answers == \A c \in Caller : reply'[c] # reply[c] =>
             \A e \in DOMAIN events : events[e].key = reply'[c].key => Right(e, reply'[c])
<1>1. UNCHANGED reply => Answers
  OBVIOUS
<1>2. ASSUME DeskInv, NEW c \in Caller, NEW q, NEW n, Reply(c, q, n),
             \A e \in DOMAIN events : events[e].key = q.key =>
               IF Same(e, q) THEN n = e \/ (n = 0 /\ ~Linked(q)) ELSE n = 0
      PROVE Answers
  <2>1. PICK a : a = [who |-> q.who, opp |-> q.opp, key |-> q.key, action |-> q.action, event |-> n]
    OBVIOUS
  <2>2. reply' = [reply EXCEPT ![c] = a]
    BY <1>2, <2>1 DEF Reply
  <2>3. \A d \in Caller : reply'[d] # reply[d] => d = c /\ reply'[d] = a
    BY <1>2, <2>2 DEF DeskInv, EventInv
  <2>4. (\A e \in DOMAIN events : Same(e, a) <=> Same(e, q)) /\ (Linked(a) <=> Linked(q))
    BY <2>1 DEF Same, Linked
  <2>5. \A e \in DOMAIN events : events[e].key = a.key => Right(e, a)
    BY <1>2, <2>1, <2>4
  <2> QED BY <2>3, <2>5
<1>3. ASSUME DeskInv, NEW c \in Caller, DecideRead(c) PROVE Answers
  <2>1. PICK q :
          \/ \E e \in Recorded(q.key) : Reply(c, q, IF Same(e, q) THEN e ELSE 0)
          \/ Recorded(q.key) = {} /\ Reply(c, q, 0)
          \/ UNCHANGED reply
    BY <1>3 DEF DecideRead, Answered, Decides
  <2>2. CASE \E e \in Recorded(q.key) : Reply(c, q, IF Same(e, q) THEN e ELSE 0)
    <3>1. PICK e \in Recorded(q.key) : Reply(c, q, IF Same(e, q) THEN e ELSE 0)
      BY <2>2
    <3>2. DOMAIN events = 1 .. Len(events)
      BY <1>3 DEF DeskInv, DeskShape
    <3>3. e \in DOMAIN events /\ events[e].key = q.key
      BY <3>1 DEF Recorded
    <3>4. \A f \in DOMAIN events : events[f].key = q.key => f = e
      BY <1>3, <3>2, <3>3 DEF DeskInv, EventInv
    <3> QED BY <1>2, <1>3, <3>1, <3>4
  <2>3. CASE Recorded(q.key) = {} /\ Reply(c, q, 0)
    BY <1>2, <1>3, <2>3 DEF Recorded
  <2> QED BY <1>1, <2>1, <2>2, <2>3
<1>4. ASSUME DeskInv, NEW c \in Caller, DecideArrive(c) PROVE Answers
  <2>1. PICK q : UNCHANGED reply \/ (~Linked(q) /\ Reply(c, q, 0))
    BY <1>4 DEF DecideArrive
  <2> QED BY <1>1, <1>2, <1>4, <2>1
<1>5. ASSUME DeskInv, NEW c \in Caller, DecideCommit(c) PROVE Answers
  <2>1. PICK q, n : Reply(c, q, n) /\ \A e \in DOMAIN events : events[e].key # q.key
    BY <1>5 DEF DecideCommit, Answered, Recorded
  <2> QED BY <1>2, <1>5, <2>1
<1>6. ASSUME DeskInv, NEW c \in Caller, DecideConflict(c) PROVE Answers
  <2>1. CallOK(calls[c]) /\ calls[c].phase = "deciding" /\ Reply(c, calls[c], 0)
    BY <1>6 DEF DecideConflict, Answered, DeskInv, CallInv
  <2>2. DOMAIN events = 1 .. Len(events)
    BY <1>6 DEF DeskInv, DeskShape
  <2>3. \A e \in DOMAIN events : events[e].key = calls[c].key => ~Same(e, calls[c])
    BY <2>1, <2>2, SMTT(30) DEF CallOK, Same
  <2> QED BY <1>2, <1>6, <2>1, <2>3
<1>7. DeskInv /\ DeskStep => Answers
  BY <1>1, <1>3, <1>4, <1>5, <1>6
  DEF DeskStep, DeskNext, deskVars, Research, MemoTake, MemoRead, MemoError, MemoPend, MemoFinish,
      MemoDies, UnchangedButRun, Merge
<1>8. UNCHANGED deskAll => UNCHANGED <<reply, events>>
  BY DEF deskAll, deskVars
<1>9. DeskInv /\ [DeskStep]_deskAll => [Answers]_<<reply, events>>
  BY <1>7, <1>8
<1>10. DeskSpec => [][DeskStep]_deskAll
  BY DEF DeskSpec, DeskStep, deskAll
<1> HIDE DEF Answers
<1>11. DeskSpec => [][Answers]_<<reply, events>>
  BY <1>9, <1>10, DeskInvariant, PTL
<1> QED BY <1>11 DEF RetriesAnswered, Answers
=============================================================================
