-------------------------- MODULE MCDevCoordinator --------------------------
(* Instances of DevCoordinator for TLC. *)
EXTENDS DevCoordinator

CONSTANTS c1, r1

One == {c1}
OneCaller == {r1}

=============================================================================
