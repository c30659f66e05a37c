-------------------------- MODULE MCInboundDelivery --------------------------
(* Instances of InboundDelivery for TLC. *)
EXTENDS InboundDelivery, TLC

CONSTANTS a, b, c, d1, d2, x1, x2

\* a and b carry the same key, c another one; all are the same founder's.
MCKeyOf == (a :> "k1") @@ (b :> "k1") @@ (c :> "k2")
MCEmailOf == [r \in Request |-> "founder"]

Interchangeable == Permutations({d1, d2}) \cup Permutations({x1, x2})
=============================================================================
