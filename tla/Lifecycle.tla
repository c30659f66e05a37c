----------------------------- MODULE Lifecycle -----------------------------
(***************************************************************************)
(* What the lifecycle promises an observer of the opportunities table: an  *)
(* opportunity appears at the entry stage of its lane and from then on     *)
(* only ever follows an edge of TRANSITIONS.  Nothing is said of workers,  *)
(* queues, budgets or locks; module Pipeline is shown to implement this    *)
(* for the inbound opportunities.                                          *)
(***************************************************************************)
EXTENDS LifecycleContract

CONSTANTS Deal,      \* the opportunities observed
          Entry      \* the stage at which they are created

VARIABLE stage       \* lifecycle_state of each deal, Absent before creation

Init == stage = [d \in Deal |-> Absent]

\* A deal stands still, is created, or follows one edge.
Follows(from, to) ==
  \/ to = from
  \/ from = Absent /\ to = Entry
  \/ from \in STAGES /\ to \in TRANSITIONS[from]

\* One database transaction may move several deals.
Next == /\ stage' \in [Deal -> STAGES \cup {Absent}]
        /\ \A d \in Deal : Follows(stage[d], stage'[d])

Spec == Init /\ [][Next]_stage
=============================================================================
