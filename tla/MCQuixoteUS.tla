----------------------------- MODULE MCQuixoteUS -----------------------------
(* Instances of QuixoteUS for TLC. *)
EXTENDS QuixoteUS, TLC

CONSTANTS p1, p2, w1, w2

Symmetric == Permutations({p1, p2}) \cup Permutations({w1, w2})
=============================================================================
