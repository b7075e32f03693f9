---------------------------- MODULE MCEpochStore ----------------------------
(* Instances of EpochStore for TLC. *)
EXTENDS EpochStore, TLC

CONSTANTS s1, s2, l1, l2

TwoIds == 1 .. 2
FourIds == 1 .. 4
TwoStores == {s1, s2}
OneStore == {s1}
TwoLeases == {l1, l2}
OneLease == {l1}
\* The stores, and the references, are interchangeable.
Symmetry == Permutations(TwoStores) \cup Permutations(TwoLeases)

\* Without power failures, what they would leave decides nothing.
MemoryView == <<dir, meta, catalog, active, roots, gnawed, staging, sweep, refs, lease, holder, op,
                faults>>

\* A recoverStaging begins while another store is publishing what it removes, one
\* at a time, and half-removes just that.  Begun earlier, or with the other, it
\* removes the same; of what nobody publishes, that #verifyStaging fails later is all
\* that is seen.
Taken == {<<t, op[t].id>> : t \in {u \in Stores : op[u].pc \in {"verify", "take"}}}
Recovering(s) == op[s].pc # "recover" /\ op'[s].pc = "recover"
LeaseSpec ==
    /\ Init
    /\ [][/\ Next
          /\ \A s \in Stores : Recovering(s) => Taken \cap roots # {}
          /\ gnawed' \subseteq gnawed \cup Taken]_vars

=============================================================================
