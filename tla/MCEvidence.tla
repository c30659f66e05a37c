----------------------------- MODULE MCEvidence -----------------------------
(* Instances of Evidence for TLC. *)
EXTENDS Evidence, TLC

CONSTANTS w1, r1, r2, p1, p2

Says(a, pr, v) == [account |-> a, predicate |-> pr, value |-> v, deal |-> NoDeal]

\* Accounts 1 and 2 share an address, 2 and 3 a name; 1 goes by another name.
MCFact == {Says(1, "name", "z"), Says(1, "strong", "y"), Says(2, "name", "x"),
           Says(2, "strong", "y"), Says(3, "name", "x")}

MCSource == (1 :> "github") @@ (2 :> "producthunt") @@ (3 :> "github")

Interchangeable == Permutations({r1, r2}) \cup Permutations({p1, p2})
=============================================================================
