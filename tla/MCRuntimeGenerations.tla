------------------------ MODULE MCRuntimeGenerations ------------------------
(* Instances of RuntimeGenerations for TLC. *)
EXTENDS RuntimeGenerations

CONSTANTS a, b, c

MCIds == {a, b, c}

\* Ids are interchangeable: they are taken in one order.
MCSpec ==
    /\ Init
    /\ [][Next /\ idOf'[1] \in {None, a} /\ idOf'[2] \in {None, a, b}]_vars
    /\ Fairness
=============================================================================
