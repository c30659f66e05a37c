------------------------------- MODULE Thesis -------------------------------
(***************************************************************************)
(* Investment theses (backend/app/api/routes/theses.py) and the            *)
(* deterministic thesis score (backend/app/scoring/thesis.py).             *)
(*                                                                         *)
(* A save inserts a new version, makes it the active one, scores every     *)
(* candidate and pins the version to the candidate's latest opportunity,   *)
(* all in one transaction; a rescore does the scoring with the version it  *)
(* found active when it began.  One candidate per opportunity here.        *)
(***************************************************************************)
EXTENDS Integers, Sequences, FiniteSets

CONSTANTS
  Opp,       \* opportunities, each with its candidate
  Editor,    \* requests to the thesis API in flight
  Mandate,   \* mandates a request may carry (validate_thesis accepts them)
  Fact       \* what an observation can tell: [about : kind, value]

VARIABLES
  theses,    \* theses[v]: version v, [mandate, is_active]
  edits,     \* edits[x]: a request to the thesis API
  pin,       \* pin[o]: thesis_version of the opportunity, or Unpinned
  evidence,  \* evidence[o]: observations about the candidate, newest first
  fit,       \* fit[o]: the candidate's latest thesis score snapshot
  saves, rescores, arrivals   \* requests and observations still to come (model bounds)

thesisVars == <<theses, edits, pin, evidence, fit, saves, rescores, arrivals>>

Unpinned == 0
Unscored == [version |-> 0]
Idle == [phase |-> "idle"]

Version == DOMAIN theses
Active == {v \in Version : theses[v].is_active}

(***************************************************************************)
(* score_thesis_alignment.  Check sizes and weights are small naturals.    *)
(***************************************************************************)
Criterion == {"stage", "sector", "geography", "check_size"}

\* ThesisRequest.validate_thesis; checks is the set of check sizes from minimum to maximum.
validate_thesis(m) ==
  /\ m.stages # {} /\ m.sectors # {} /\ m.regions # {} /\ m.checks # {}
  /\ m.sectors \cap m.excluded = {}
  /\ m.weights \in [Criterion -> Nat] /\ \E c \in Criterion : m.weights[c] > 0
ASSUME MandateAssumption == \A m \in Mandate : validate_thesis(m)

About(seen, kind) == SelectSeq(seen, LAMBDA f : f.about = kind)
Values(seen, kind) == {About(seen, kind)[i].value : i \in DOMAIN About(seen, kind)}

\* _STAGE_PATTERNS, in the order in which they are tried.
StageOrder == <<"series-b", "seed", "pre-seed">>

\* _detect_stage: the first pattern found in all the texts.
Stages(seen) ==
  {s \in Values(seen, "stage") :
     \A i, j \in DOMAIN StageOrder :
       StageOrder[j] = s /\ i < j => StageOrder[i] \notin Values(seen, "stage")}

\* _detect_requested_check: the newest observation that has a number.
Checks(seen) ==
  IF About(seen, "check") = <<>> THEN {} ELSE {About(seen, "check")[1].value}

\* How the four criteria come out for mandate m.
Status(m, seen) ==
  LET sectors == Values(seen, "sector")
      regions == Values(seen, "region")
      Judge(known, ok) == IF ~known THEN "unknown" ELSE IF ok THEN "matched" ELSE "failed"
  IN [stage |-> Judge(Stages(seen) # {}, Stages(seen) \subseteq m.stages),
      sector |-> Judge(sectors # {},
                       sectors \cap m.excluded = {} /\ sectors \cap m.sectors # {}),
      geography |-> Judge("global" \in m.regions \/ regions # {},
                          "global" \in m.regions \/ regions \cap m.regions # {}),
      check_size |-> Judge(Checks(seen) # {}, \A c \in Checks(seen) : c \in m.checks)]

\* hard_eligible.
Eligible(m, seen) ==
  /\ Status(m, seen).stage # "failed"
  /\ Values(seen, "sector") \cap m.excluded = {}

\* Twice the points of a status.
Points == [matched |-> 2, unknown |-> 1, failed |-> 0]

Weighted(m, of) == of["stage"] * m.weights["stage"] + of["sector"] * m.weights["sector"]
  + of["geography"] * m.weights["geography"] + of["check_size"] * m.weights["check_size"]

\* Mutant: only what is known earns points.
Score_known(m, seen) ==
  LET status == Status(m, seen)
      points == [c \in Criterion |-> IF status[c] = "matched" THEN 2 ELSE 0]
      of == 2 * Weighted(m, [c \in Criterion |-> 1])
  IN [points |-> Weighted(m, points), of |-> of]

\* The weighted points, capped at 0.35 for a candidate who is not eligible.
Score(m, seen) ==
  LET status == Status(m, seen)
      points == Weighted(m, [c \in Criterion |-> Points[status[c]]])
      of == 2 * Weighted(m, [c \in Criterion |-> 1])
  IN IF ~Eligible(m, seen) /\ 100 * points > 35 * of
     THEN [points |-> 35, of |-> 100] ELSE [points |-> points, of |-> of]

\* score_all_candidates: the snapshots appended for version v.
Scored(v, m) ==
  [o \in Opp |-> [version |-> v, score |-> Score(m, evidence[o]),
                  hard_eligible |-> Eligible(m, evidence[o]),
                  status |-> Status(m, evidence[o])]]

(***************************************************************************)
(* save_active_thesis.                                                     *)
(***************************************************************************)
\* The version number is the count of the versions so far, plus one.
SaveCount(x, m) ==
  /\ edits[x] = Idle /\ saves > 0
  /\ edits' = [edits EXCEPT ![x] = [phase |-> "save", version |-> Len(theses) + 1, mandate |-> m]]
  /\ saves' = saves - 1
  /\ UNCHANGED <<theses, pin, evidence, fit, rescores, arrivals>>

\* Mutant: the versions before stay active.
SaveCommit_all_active(x) ==
  LET v == edits[x].version IN
  /\ edits[x].phase = "save" /\ v \notin Version
  /\ theses' = Append(theses, [mandate |-> edits[x].mandate, is_active |-> TRUE])
  /\ fit' = Scored(v, edits[x].mandate)
  /\ pin' = [o \in Opp |-> v]
  /\ edits' = [edits EXCEPT ![x] = Idle]
  /\ UNCHANGED <<evidence, saves, rescores, arrivals>>

\* The UPDATE locks the active row until the commit, so saves follow each other.
SaveCommit(x) ==
  LET v == edits[x].version IN
  /\ edits[x].phase = "save" /\ v \notin Version
  /\ theses' = Append([i \in Version |-> [theses[i] EXCEPT !.is_active = FALSE]],
                      [mandate |-> edits[x].mandate, is_active |-> TRUE])
  /\ fit' = Scored(v, edits[x].mandate)
  /\ pin' = [o \in Opp |-> v]
  /\ edits' = [edits EXCEPT ![x] = Idle]
  /\ UNCHANGED <<evidence, saves, rescores, arrivals>>

\* The version is taken: the unique constraint raises and nothing is written.
SaveConflict(x) ==
  /\ edits[x].phase = "save" /\ edits[x].version \in Version
  /\ edits' = [edits EXCEPT ![x] = Idle]
  /\ UNCHANGED <<theses, pin, evidence, fit, saves, rescores, arrivals>>

(***************************************************************************)
(* rescore_active_thesis: a read of the active version, a read of the      *)
(* opportunities, a commit.  Only an opportunity that was read with        *)
(* another version is written.                                             *)
(***************************************************************************)
RescoreRead(x) ==
  /\ edits[x] = Idle /\ rescores > 0
  /\ \E v \in Active : edits' = [edits EXCEPT ![x] = [phase |-> "rescore", version |-> v]]
  /\ rescores' = rescores - 1
  /\ UNCHANGED <<theses, pin, evidence, fit, saves, arrivals>>

RescoreLoad(x) ==
  /\ edits[x].phase = "rescore"
  /\ edits' = [edits EXCEPT ![x] = [phase |-> "score", version |-> edits[x].version, loaded |-> pin]]
  /\ UNCHANGED <<theses, pin, evidence, fit, saves, rescores, arrivals>>

RescoreCommit(x) ==
  LET v == edits[x].version IN
  /\ edits[x].phase = "score"
  /\ fit' = Scored(v, theses[v].mandate)
  /\ pin' = [o \in Opp |-> IF edits[x].loaded[o] = v THEN pin[o] ELSE v]
  /\ edits' = [edits EXCEPT ![x] = Idle]
  /\ UNCHANGED <<theses, evidence, saves, rescores, arrivals>>

\* Collection and research add observations.
Observe(o, f) ==
  /\ arrivals > 0
  /\ evidence' = [evidence EXCEPT ![o] = <<f>> \o @]
  /\ arrivals' = arrivals - 1
  /\ UNCHANGED <<theses, edits, pin, fit, saves, rescores>>

ThesisNext ==
  \/ \E x \in Editor :
       \/ \E m \in Mandate : SaveCount(x, m)
       \/ SaveCommit(x) \/ SaveConflict(x)
       \/ RescoreRead(x) \/ RescoreLoad(x) \/ RescoreCommit(x)
  \/ \E o \in Opp, f \in Fact : Observe(o, f)

ThesisInit ==
  /\ theses = <<>> /\ edits = [x \in Editor |-> Idle]
  /\ pin = [o \in Opp |-> Unpinned]
  /\ evidence = [o \in Opp |-> <<>>] /\ fit = [o \in Opp |-> Unscored]

(***************************************************************************)
(* Properties.                                                             *)
(***************************************************************************)
\* A stored version, a pinned version and the version of a score exist, whatever saves
\* and rescores overlap, and exactly the newest version is active.
ThesisTypeOK ==
  /\ \A v \in Version : theses[v].mandate \in Mandate
  /\ Active = {v \in Version : v = Len(theses)}
  /\ pin \in [Opp -> Version \cup {Unpinned}]
  /\ \A o \in Opp : fit[o].version \in Version \cup {0} /\ evidence[o] \in Seq(Fact)
  /\ saves \in Nat /\ rescores \in Nat /\ arrivals \in Nat

\* "Score thesis fit without treating missing evidence as a negative signal"
\* (scoring/thesis.py:161): a candidate of whom nothing contradicts the mandate is
\* eligible and scores at least one half, whatever the weights and however little is
\* known; a candidate who breaks a hard constraint never scores above 0.35.
UnknownIsNotFailed ==
  \A o \in Opp : fit[o] # Unscored =>
    /\ (\A c \in Criterion : fit[o].status[c] # "failed") =>
         fit[o].hard_eligible /\ 2 * fit[o].score.points >= fit[o].score.of
    /\ ~fit[o].hard_eligible => 100 * fit[o].score.points <= 35 * fit[o].score.of
=============================================================================
