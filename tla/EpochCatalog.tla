---------------------------- MODULE EpochCatalog ----------------------------
(***************************************************************************)
(* What the epoch store promises its callers: a catalogue of available     *)
(* epochs, one of them active, and leases.  An epoch that is active or     *)
(* leased stays available.                                                 *)
(***************************************************************************)
CONSTANTS Ids, None

VARIABLES
    active,     \* the epoch new work starts from
    available,  \* the epochs that can be leased
    leased      \* the epochs some caller holds

vars == <<active, available, leased>>

Init == active = None /\ available = {} /\ leased = {}

Add(i) ==
    /\ i \notin available
    /\ available' = available \cup {i}
    /\ UNCHANGED <<active, leased>>

Activate(i) ==
    /\ i \in available
    /\ active' = i
    /\ UNCHANGED <<available, leased>>

Remove(i) ==
    /\ i \in available /\ i # active /\ i \notin leased
    /\ available' = available \ {i}
    /\ UNCHANGED <<active, leased>>

Lease(i) ==
    /\ i \in available
    /\ leased' = leased \cup {i}
    /\ UNCHANGED <<active, available>>

Return(i) ==
    /\ i \in leased
    /\ leased' = leased \ {i}
    /\ UNCHANGED <<active, available>>

\* A restart forgets the leases and nothing else.
Restart ==
    /\ leased' = {}
    /\ UNCHANGED <<active, available>>

Next ==
    \/ \E i \in Ids : Add(i) \/ Activate(i) \/ Remove(i) \/ Lease(i) \/ Return(i)
    \/ Restart

Spec == Init /\ [][Next]_vars

=============================================================================
