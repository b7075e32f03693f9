---------------------------- MODULE MCStateStore ----------------------------
(* Instances of StateStore for TLC. *)
EXTENDS StateStore, TLC

CONSTANTS p1, p2, k1, k2, e1

TwoStores == {p1, p2}
TwoKeys == {k1, k2}
OneEvent == {e1}
TwoVersions == 1 .. 2

\* A state is its version and a number that tells apart every sequence of
\* events, and the versions that reduced them.
InitialState(v) == <<v, v>>
ReduceState(v, s, i) == <<v, (v + 1) * s[2] + 1>>
UpgradeState(v, s) == <<v, 10 * s[2]>>

\* The schemas of the versions have no state in common, or every state.
OwnSchema(v, s) == s # None /\ s[1] = v
AnySchema(v, s) == s # None

\* The processes, and the keys, are interchangeable.
Symmetry == Permutations(TwoStores) \cup Permutations(TwoKeys)
=============================================================================
