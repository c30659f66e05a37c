----------------------------- MODULE MCPipeline -----------------------------
(* Instances of Pipeline for TLC. *)
EXTENDS Pipeline, TLC

CONSTANTS p1, t1, t2, s1

\* Which jobs people queue by hand: none, or memos (the "generate memo" button).
NoRequest(j)  == FALSE
MemoRequest(j) == j[1] = "generate_memo"

OneFounder == [o \in Opp |-> p1]
=============================================================================
