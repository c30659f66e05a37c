-------------------------- MODULE LifecycleContract --------------------------
(***************************************************************************)
(* The versioned deal lifecycle (backend/app/lifecycle.py, "unified-v2"):  *)
(* its stages, its transition relation and the meaning of a human          *)
(* decision.  Constant definitions only; every module about opportunities  *)
(* extends this one.                                                       *)
(***************************************************************************)
EXTENDS Naturals, Sequences

\* A row that has not been inserted yet has no stage.
Absent == "absent"

\* lifecycle.py: the `transitions` field of each LifecycleDefinition.
TRANSITIONS ==
  [ discovered    |-> {"interesting", "closed"},
    interesting   |-> {"investigating", "closed"},
    investigating |-> {"contacted", "received", "closed"},
    contacted     |-> {"received", "closed"},
    received      |-> {"triage", "closed"},
    triage        |-> {"screening", "closed"},
    screening     |-> {"diligence", "closed"},
    diligence     |-> {"memo_ready", "closed"},
    memo_ready    |-> {"hold", "approved", "closed"},
    hold          |-> {"approved", "closed"},
    approved      |-> {},
    closed        |-> {} ]

STAGES == {"discovered", "interesting", "investigating", "contacted",
           "received", "triage", "screening", "diligence",
           "memo_ready", "hold", "approved", "closed"}

Terminal == {"approved", "closed"}

\* Mutant: any known stage is accepted.
is_valid_transition_known(prior, new) == new \in STAGES

is_valid_transition(prior, new) == prior = new \/ new \in TRANSITIONS[prior]

\* The two actors that move an opportunity, and the audit row of a move.
Worker == "pipeline:auto"
Human  == "vc-ui:unattributed"
DecisionEvent == [prior : STAGES, new : STAGES, actor : {Worker, Human}]

\* candidates.py: decision_state_for_action.
DecisionAction == {"proceed", "hold", "decline"}
decision_state_for_action ==
  [proceed |-> "approved", hold |-> "hold", decline |-> "closed"]

\* Stages an opportunity can only hold after its memo succeeded.
Decided == {"hold", "approved"}
=============================================================================
