-------------------------- MODULE MCCollectQueue --------------------------
(* Instances of CollectQueue for TLC. *)
EXTENDS CollectQueue, TLC

CONSTANTS r1, r2, crawl, d1, d2

\* Two research requests (Tavily, high lane, each with a JobRun of its own) and a deep
\* collection whose computed priority moves between two lanes.
TaskPriority == (r1 :> {100}) @@ (r2 :> {100}) @@ (crawl :> {5, 10})
TaskRequests == (r1 :> 1) @@ (r2 :> 1) @@ (crawl :> 2)
=============================================================================
