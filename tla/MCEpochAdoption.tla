-------------------------- MODULE MCEpochAdoption --------------------------
(* Instances of EpochAdoption for TLC. *)
EXTENDS EpochAdoption

MCIds == 1 .. 4

=============================================================================
