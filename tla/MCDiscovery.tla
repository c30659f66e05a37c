----------------------------- MODULE MCDiscovery -----------------------------
(* Instances of Discovery for TLC. *)
EXTENDS Discovery, TLC

CONSTANTS first, second, crawl, d1, d2, c1, c2, e1, e2

\* Two hours of one query; the first finds a founder worth a deep collection.
MCPriority == (first :> {50}) @@ (second :> {50}) @@ (crawl :> {5})
MCRequests == (first :> 2) @@ (second :> 1) @@ (crawl :> 0)
MCDeep == (first :> {crawl}) @@ (second :> {})

Interchangeable == Permutations({c1, c2}) \cup Permutations({e1, e2})
=============================================================================
