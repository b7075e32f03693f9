----------------------------- MODULE MCDevLock -----------------------------
(* Instances of DevLock for TLC. *)
EXTENDS DevLock, TLC

CONSTANTS p1, p2, p3

MCProcs == {p1, p2, p3}
Symmetry == Permutations(MCProcs)

=============================================================================
