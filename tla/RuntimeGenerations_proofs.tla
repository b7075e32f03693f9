---------------------- MODULE RuntimeGenerations_proofs ----------------------
(***************************************************************************)
(* For any ids, runs, retention and failures: what is committed is on disk *)
(* as it was prepared, what is leased or active is kept, and close()       *)
(* leaves nothing behind.                                                  *)
(*                                                                         *)
(* CommittedWhole needs to know whose directory is under generations/<id>: *)
(* a candidate that is between its move and its removal owns it (Owned),   *)
(* so that the path it removes is its own.  CloseLeavesNothing needs what  *)
(* close() has already waited for at each of its stages (Drained).         *)
(* Its second half needs which directories a failed removal can have       *)
(* reached (Untorn).  RetentionKeeps needs what a prune has left since it  *)
(* decided: enough newer inactive generations that are not marked (Spared).*)
(***************************************************************************)
EXTENDS RuntimeGenerations, FiniteSetTheorems, FunctionTheorems,
        WellFoundedInduction, TLAPS

\* Stages in which the directory of a candidate is generations/<id>.
Owning == {"reading", "prepared", "withdrawing", "aborting", "closing"}

Owned ==
    /\ \A s \in Sequences : at[s] \in Owning => disk[idOf[s]] = s
    /\ \A i \in Ids : committed[i] # 0 =>
         /\ disk[i] = committed[i]
         /\ at[committed[i]] = "committed" /\ idOf[committed[i]] = i
    /\ \A s \in Sequences : s > newest => at[s] = "none"

Kept ==
    /\ \A l \in Leases : lease[l] # None => committed[lease[l]] # 0 /\ lease[l] \notin pruning
    /\ active # None => committed[active] # 0
    /\ \A i \in Ids : committed[i] # 0 =>
         active # None /\ (i # active => committed[i] < committed[active])
    /\ \A i \in pruning : committed[i] # 0 /\ i # active
    /\ pruning # {} => tail > 0

\* Stages that close() waits for, and the one of what it removes itself.
Awaitable == {"validating", "guarding", "moving", "reading", "withdrawing"}

Drained ==
    /\ closing \in {"draining", "removing", "waiting", "closed"} => init # "running"
    /\ closing = "draining" => \A s \in Sequences : at[s] \in Awaitable => s \in awaited
    /\ closing \in {"removing", "waiting", "closed"} =>
         \A s \in Sequences : at[s] \notin Awaitable \cup {"prepared"}
    /\ closing \in {"waiting", "closed"} =>
         /\ \A s \in Sequences : at[s] # "closing"
         /\ faults = MaxFaults => ~stagingRoot /\ staged = {}
    /\ faults = MaxFaults => \A i \in Ids : disk[i] # 0 =>
         \/ committed[i] = disk[i]
         \/ at[disk[i]] \in Owning /\ idOf[disk[i]] = i

IInv == TypeOK /\ Owned /\ Kept /\ Drained

USE BoundsAssumption

\* The invariant holds at the start.
LEMMA InitInv == Init => IInv
  <1> SUFFICES ASSUME Init PROVE IInv
    OBVIOUS
  <1> USE DEF Init
  <1>a. newest \in 0 .. MaxSequence /\ faults \in 0 .. MaxFaults /\ tail \in Nat /\ ticket \in Nat
    OBVIOUS
  <1>b. at \in [Sequences -> Stages] /\ idOf \in [Sequences -> Ids \cup {None}]
    BY DEF Stages
  <1>c. committed \in [Ids -> 0 .. MaxSequence] /\ disk \in [Ids -> 0 .. MaxSequence]
    OBVIOUS
  <1>1. TypeOK
    BY <1>a, <1>b, <1>c DEF TypeOK
  <1>2. Owned /\ Kept /\ Drained
    BY DEF Owned, Kept, Drained, Owning, Awaitable, Sequences
  <1> QED BY <1>1, <1>2 DEF IInv

\* What a removal of generations/<id> does, whether it succeeds or fails.
LEMMA RemovalFacts ==
  ASSUME TypeOK, NEW i \in Ids, RemoveGeneration(i)
  PROVE  /\ disk' \in [Ids -> 0 .. MaxSequence] /\ torn' \subseteq Ids
         /\ \A j \in Ids : j # i => disk'[j] = disk[j]
         /\ disk'[i] \in {0, disk[i]}
         /\ faults' \in 0 .. MaxFaults
         /\ faults' = MaxFaults => faults = MaxFaults /\ disk'[i] = 0
  BY DEF RemoveGeneration, Fault, TypeOK

\* What a removal of a staging directory does.
LEMMA DiscardFacts ==
  ASSUME TypeOK, NEW s \in Sequences, RemoveStaged(s)
  PROVE  /\ staged' \subseteq staged
         /\ faults' \in 0 .. MaxFaults
         /\ faults' = MaxFaults => faults = MaxFaults
  BY DEF RemoveStaged, Fault, TypeOK

LEMMA InitializeInv ==
  ASSUME IInv, Initialize PROVE IInv'
  <1> USE DEF IInv, Initialize, files, records, published, closer
  <1>1. TypeOK'
    BY DEF TypeOK, Sequences, Stages, InFlight
  <1>2. Owned'
    BY DEF TypeOK, Sequences, Stages, InFlight, Owned, Owning
  <1>3. Kept'
    BY DEF TypeOK, Sequences, Stages, InFlight, Kept
  <1>4. Drained'
    BY DEF TypeOK, Sequences, Stages, InFlight, Owned, Drained, Owning, Awaitable, closed
  <1> QED BY <1>1, <1>2, <1>3, <1>4

LEMMA InitializedInv ==
  ASSUME IInv, Initialized PROVE IInv'
  <1> USE DEF IInv, Initialized, files, records, published, closer
  <1>1. TypeOK'
    BY DEF TypeOK, Sequences, Stages, InFlight
  <1>2. Owned'
    BY DEF TypeOK, Sequences, Stages, InFlight, Owned, Owning
  <1>3. Kept'
    BY DEF TypeOK, Sequences, Stages, InFlight, Kept
  <1>4. Drained'
    BY DEF TypeOK, Sequences, Stages, InFlight, Owned, Drained, Owning, Awaitable, closed
  <1> QED BY <1>1, <1>2, <1>3, <1>4

LEMMA BeginInv ==
  ASSUME IInv, NEW i \in Ids, Begin(i) PROVE IInv'
  <1> USE DEF IInv, Begin, files, records, published, closer
  <1>1. TypeOK'
    BY DEF TypeOK, Sequences, Stages, InFlight
  <1>2. Owned'
    BY DEF TypeOK, Sequences, Stages, InFlight, Owned, Owning
  <1>3. Kept'
    BY DEF TypeOK, Sequences, Stages, InFlight, Kept
  <1>4. Drained'
    BY DEF TypeOK, Sequences, Stages, InFlight, Owned, Drained, Owning, Awaitable, closed
  <1> QED BY <1>1, <1>2, <1>3, <1>4

LEMMA BegunInv ==
  ASSUME IInv, NEW s \in Sequences, Begun(s) PROVE IInv'
  <1> USE DEF IInv, Begun, files, records, published, closer
  <1>1. TypeOK'
    BY DEF TypeOK, Sequences, Stages, InFlight
  <1>2. Owned'
    BY DEF TypeOK, Sequences, Stages, InFlight, Owned, Owning
  <1>3. Kept'
    BY DEF TypeOK, Sequences, Stages, InFlight, Kept
  <1>4. Drained'
    <2>1. CASE stagingRoot
      BY <2>1 DEF TypeOK, Sequences, Owned, Drained, Owning, Awaitable
    <2>2. CASE ~stagingRoot
      <3>1. \A t \in Sequences : at'[t] = IF t = s THEN "none" ELSE at[t]
        BY <2>2 DEF TypeOK
      <3>2. UNCHANGED <<init, closing, awaited, stagingRoot, staged, disk, committed, idOf, faults>>
        BY <2>2
      <3>3. at[s] = "making"
        OBVIOUS
      <3> HIDE DEF Begun
      <3> QED BY <3>1, <3>2, <3>3 DEF TypeOK, Sequences, Drained, Owning, Awaitable
    <2> QED BY <2>1, <2>2
  <1> QED BY <1>1, <1>2, <1>3, <1>4

LEMMA PrepareInv ==
  ASSUME IInv, NEW s \in Sequences, Prepare(s) PROVE IInv'
  <1> USE DEF IInv, Prepare, Current, files, records, published, closer
  <1>1. TypeOK'
    BY DEF TypeOK, Sequences, Stages, InFlight
  <1>2. Owned'
    BY DEF TypeOK, Sequences, Stages, InFlight, Owned, Owning
  <1>3. Kept'
    BY DEF TypeOK, Sequences, Stages, InFlight, Kept
  <1>4. Drained'
    BY DEF TypeOK, Sequences, Stages, InFlight, Owned, Drained, Owning, Awaitable, closed
  <1> QED BY <1>1, <1>2, <1>3, <1>4

LEMMA ValidatedInv ==
  ASSUME IInv, NEW s \in Sequences, Validated(s) PROVE IInv'
  <1> USE DEF IInv, Validated, Refuse, Fails, files, records, published, closer
  <1>0. staged' \subseteq staged /\ faults' \in 0 .. MaxFaults /\ (faults' = MaxFaults => faults = MaxFaults)
    BY DiscardFacts DEF TypeOK
  <1>1. TypeOK'
    BY <1>0 DEF TypeOK, Sequences, Stages, InFlight
  <1>2. Owned'
    BY DEF TypeOK, Sequences, Stages, InFlight, Owned, Owning
  <1>3. Kept'
    BY DEF TypeOK, Sequences, Stages, InFlight, Kept
  <1>4. Drained'
    BY <1>0 DEF TypeOK, Sequences, Stages, InFlight, Owned, Drained, Owning, Awaitable, closed, RemoveStaged
  <1> QED BY <1>1, <1>2, <1>3, <1>4

LEMMA GuardedInv ==
  ASSUME IInv, NEW s \in Sequences, Guarded(s) PROVE IInv'
  <1> USE DEF IInv, Guarded, Refuse, Fails, Current, files, records, published, closer
  <1>0. staged' \subseteq staged /\ faults' \in 0 .. MaxFaults /\ (faults' = MaxFaults => faults = MaxFaults)
    BY DiscardFacts DEF TypeOK
  <1>1. TypeOK'
    BY <1>0 DEF TypeOK, Sequences, Stages, InFlight
  <1>2. Owned'
    BY DEF TypeOK, Sequences, Stages, InFlight, Owned, Owning
  <1>3. Kept'
    BY DEF TypeOK, Sequences, Stages, InFlight, Kept
  <1>4. Drained'
    BY <1>0 DEF TypeOK, Sequences, Stages, InFlight, Owned, Drained, Owning, Awaitable, closed, RemoveStaged
  <1> QED BY <1>1, <1>2, <1>3, <1>4

LEMMA RenamedInv ==
  ASSUME IInv, NEW s \in Sequences, Renamed(s) PROVE IInv'
  <1> USE DEF IInv, files, records, published, closer
  <1>1. CASE s \in staged /\ disk[idOf[s]] = 0
    <2> USE <1>1 DEF Renamed
    <2>c. s \in 0 .. MaxSequence
      BY DEF Sequences
    <2>d. staged' = staged \ {s} /\ disk' = [disk EXCEPT ![idOf[s]] = s]
      OBVIOUS
    <2>e. staged \subseteq Sequences /\ disk \in [Ids -> 0 .. MaxSequence]
      BY DEF TypeOK
    <2>a. disk' \in [Ids -> 0 .. MaxSequence] /\ staged' \subseteq Sequences
      BY <2>c, <2>d, <2>e
    <2>b. at' \in [Sequences -> Stages] /\ \A t \in Sequences : at'[t] # "none" => idOf[t] \in Ids
      BY DEF TypeOK, Stages, InFlight
    <2>1. TypeOK'
      BY <2>a, <2>b DEF TypeOK
    <2>2. Owned'
      BY DEF TypeOK, Sequences, Stages, InFlight, Owned, Owning
    <2>3. Kept'
      BY DEF TypeOK, Kept
    <2>4. Drained'
      BY DEF TypeOK, Sequences, Stages, InFlight, Owned, Drained, Owning, Awaitable
    <2> QED BY <2>1, <2>2, <2>3, <2>4
  <1>2. CASE ~(s \in staged /\ disk[idOf[s]] = 0)
    <2>0. /\ staged' \subseteq staged /\ faults' \in 0 .. MaxFaults
          /\ faults' = MaxFaults => faults = MaxFaults
      BY <1>2, DiscardFacts DEF Renamed, Refuse
    <2> USE <1>2 DEF Renamed, Refuse, Fails
    <2>1. TypeOK'
      BY <2>0 DEF TypeOK, Sequences, Stages, InFlight
    <2>2. Owned'
      BY DEF TypeOK, Sequences, Stages, InFlight, Owned, Owning
    <2>3. Kept'
      BY DEF TypeOK, Kept
    <2>4. Drained'
      BY <2>0 DEF TypeOK, Sequences, Stages, InFlight, Owned, Drained, Owning, Awaitable
    <2> QED BY <2>1, <2>2, <2>3, <2>4
  <1> QED BY <1>1, <1>2

LEMMA RereadInv ==
  ASSUME IInv, NEW s \in Sequences, Reread(s) PROVE IInv'
  <1> USE DEF IInv, Reread, Current, Fails, files, records, published, closer
  <1>1. TypeOK'
    BY DEF TypeOK, Sequences, Stages, InFlight
  <1>2. Owned'
    BY DEF TypeOK, Sequences, Stages, InFlight, Owned, Owning
  <1>3. Kept'
    BY DEF TypeOK, Sequences, Stages, InFlight, Kept
  <1>4. Drained'
    BY DEF TypeOK, Sequences, Stages, InFlight, Owned, Drained, Owning, Awaitable, closed
  <1> QED BY <1>1, <1>2, <1>3, <1>4

LEMMA WithdrawnInv ==
  ASSUME IInv, NEW s \in Sequences, Withdrawn(s) PROVE IInv'
  <1> USE DEF IInv, Withdrawn, files, records, published, closer
  <1> idOf[s] \in Ids
    BY DEF TypeOK
  <1>0. /\ disk' \in [Ids -> 0 .. MaxSequence] /\ torn' \subseteq Ids /\ faults' \in 0 .. MaxFaults
        /\ \A j \in Ids : j # idOf[s] => disk'[j] = disk[j]
        /\ disk'[idOf[s]] \in {0, disk[idOf[s]]}
        /\ faults' = MaxFaults => faults = MaxFaults /\ disk'[idOf[s]] = 0
    BY RemovalFacts DEF TypeOK
  <1>1. TypeOK'
    BY <1>0 DEF TypeOK, Sequences, Stages, InFlight
  <1>2. Owned'
    BY <1>0 DEF TypeOK, Sequences, Stages, InFlight, Owned, Owning
  <1>3. Kept'
    BY DEF TypeOK, Sequences, Stages, InFlight, Kept
  <1>4. Drained'
    BY <1>0 DEF TypeOK, Sequences, Stages, InFlight, Owned, Drained, Owning, Awaitable, closed
  <1> QED BY <1>1, <1>2, <1>3, <1>4

\* What a commit takes the place of: nothing, and nothing newer is committed.
LEMMA CommitsNewest ==
  ASSUME IInv, NEW s \in Sequences, Commit(s)
  PROVE  /\ idOf[s] \in Ids /\ committed[idOf[s]] = 0
         /\ committed' \in [Ids -> 0 .. MaxSequence]
         /\ \A i \in Ids : committed'[i] = IF i = idOf[s] THEN s ELSE committed[i]
         /\ \A i \in Ids : committed[i] < s
  <1> USE DEF IInv, Commit
  <1>1. idOf[s] \in Ids /\ committed[idOf[s]] = 0
    BY DEF TypeOK, Owned, Owning, Sequences
  <1>2. ASSUME NEW i \in Ids PROVE committed[i] < s
    <2>1. committed[i] \in 0 .. MaxSequence /\ newest \in 0 .. MaxSequence /\ s \in 1 .. MaxSequence
      BY DEF TypeOK, Sequences
    <2>2. committed[i] # 0 => at[committed[i]] = "committed"
      BY DEF Owned
    <2>3. committed[i] # 0 => committed[i] <= newest
      BY <2>1, <2>2 DEF Owned, Sequences
    <2> QED BY <2>1, <2>2, <2>3
  <1>3. /\ committed' \in [Ids -> 0 .. MaxSequence]
        /\ \A i \in Ids : committed'[i] = IF i = idOf[s] THEN s ELSE committed[i]
    BY <1>1 DEF TypeOK, Sequences
  <1> QED BY <1>1, <1>2, <1>3

LEMMA CommitInv ==
  ASSUME IInv, NEW s \in Sequences, Commit(s) PROVE IInv'
  <1> USE DEF IInv, Commit, files, records, published, closer
  <1>0. /\ idOf[s] \in Ids /\ committed[idOf[s]] = 0
        /\ \A i \in Ids : committed[i] < s
    BY CommitsNewest DEF IInv
  <1>1. TypeOK'
    BY DEF TypeOK, Sequences, Stages, InFlight
  <1>2. Owned'
    BY DEF TypeOK, Sequences, Stages, InFlight, Owned, Owning
  <1>3. Kept'
    BY <1>0 DEF TypeOK, Sequences, Stages, InFlight, Kept, Owned, Owning
  <1>4. Drained'
    BY DEF TypeOK, Sequences, Stages, InFlight, Owned, Drained, Owning, Awaitable, closed
  <1> QED BY <1>1, <1>2, <1>3, <1>4

LEMMA AbortInv ==
  ASSUME IInv, NEW s \in Sequences, Abort(s) PROVE IInv'
  <1> USE DEF IInv, Abort, Fails, files, records, published, closer
  <1>1. TypeOK'
    BY DEF TypeOK, Sequences, Stages, InFlight
  <1>2. Owned'
    BY DEF TypeOK, Sequences, Stages, InFlight, Owned, Owning
  <1>3. Kept'
    BY DEF TypeOK, Sequences, Stages, InFlight, Kept
  <1>4. Drained'
    BY DEF TypeOK, Sequences, Stages, InFlight, Owned, Drained, Owning, Awaitable, closed
  <1> QED BY <1>1, <1>2, <1>3, <1>4

LEMMA FailInv ==
  ASSUME IInv, NEW s \in Sequences, Fail(s) PROVE IInv'
  <1> USE DEF IInv, Fail, files, records, published, closer
  <1>1. TypeOK'
    BY DEF TypeOK, Sequences, Stages, InFlight
  <1>2. Owned'
    BY DEF TypeOK, Sequences, Stages, InFlight, Owned, Owning
  <1>3. Kept'
    BY DEF TypeOK, Sequences, Stages, InFlight, Kept
  <1>4. Drained'
    BY DEF TypeOK, Sequences, Stages, InFlight, Owned, Drained, Owning, Awaitable, closed
  <1> QED BY <1>1, <1>2, <1>3, <1>4

LEMMA DiscardedInv ==
  ASSUME IInv, NEW s \in Sequences, Discarded(s) PROVE IInv'
  <1> USE DEF IInv, Discarded, files, records, published, closer
  <1>0. staged' \subseteq staged /\ faults' \in 0 .. MaxFaults /\ (faults' = MaxFaults => faults = MaxFaults)
    BY DiscardFacts DEF TypeOK
  <1>1. TypeOK'
    BY <1>0 DEF TypeOK, Sequences, Stages, InFlight
  <1>2. Owned'
    BY DEF TypeOK, Sequences, Stages, InFlight, Owned, Owning
  <1>3. Kept'
    BY DEF TypeOK, Sequences, Stages, InFlight, Kept
  <1>4. Drained'
    BY <1>0 DEF TypeOK, Sequences, Stages, InFlight, Owned, Drained, Owning, Awaitable, closed
  <1> QED BY <1>1, <1>2, <1>3, <1>4

LEMMA LeaseInv ==
  ASSUME IInv, NEW l \in Leases, NEW i \in Ids, Lease(l, i) PROVE IInv'
  <1> USE DEF IInv, Lease, files, records, published, closer
  <1>1. TypeOK'
    BY DEF TypeOK, Sequences, Stages, InFlight
  <1>2. Owned'
    BY DEF TypeOK, Sequences, Stages, InFlight, Owned, Owning
  <1>3. Kept'
    BY DEF TypeOK, Sequences, Stages, InFlight, Kept
  <1>4. Drained'
    BY DEF TypeOK, Sequences, Stages, InFlight, Owned, Drained, Owning, Awaitable, closed
  <1> QED BY <1>1, <1>2, <1>3, <1>4

LEMMA ReleaseInv ==
  ASSUME IInv, NEW l \in Leases, Release(l) PROVE IInv'
  <1> USE DEF IInv, Release, files, records, published, closer
  <1>1. TypeOK'
    BY DEF TypeOK, Sequences, Stages, InFlight
  <1>2. Owned'
    BY DEF TypeOK, Sequences, Stages, InFlight, Owned, Owning
  <1>3. Kept'
    BY DEF TypeOK, Sequences, Stages, InFlight, Kept
  <1>4. Drained'
    BY DEF TypeOK, Sequences, Stages, InFlight, Owned, Drained, Owning, Awaitable, closed
  <1> QED BY <1>1, <1>2, <1>3, <1>4

LEMMA PruneInv ==
  ASSUME IInv, Prune PROVE IInv'
  <1> USE DEF IInv, Prune, PruneEnds, files, records, published, closer
  <1>0. \A j \in Unretained : ~\E l \in Leases : lease[l] = j
    <2> TAKE j \in Unretained
    <2>1. IsFiniteSet({l \in Leases : lease[l] = j})
      BY FS_Subset
    <2>2. Cardinality({l \in Leases : lease[l] = j}) = 0
      BY DEF Unretained, References
    <2> QED BY <2>1, <2>2, FS_EmptySet
  <1>1. TypeOK'
    BY DEF TypeOK, Sequences, Stages, InFlight, Unretained, Inactive
  <1>2. Owned'
    BY DEF TypeOK, Sequences, Stages, InFlight, Owned, Owning
  <1>3. Kept'
    BY <1>0 DEF TypeOK, Sequences, Stages, InFlight, Kept, Unretained, Inactive
  <1>4. Drained'
    BY DEF TypeOK, Sequences, Stages, InFlight, Owned, Drained, Owning, Awaitable, closed
  <1> QED BY <1>1, <1>2, <1>3, <1>4

LEMMA PrunedInv ==
  ASSUME IInv, NEW i \in Ids, Pruned(i) PROVE IInv'
  <1> USE DEF IInv, Pruned, PruneEnds, files, records, published, closer
  <1> i \in Ids
    OBVIOUS
  <1>0. /\ disk' \in [Ids -> 0 .. MaxSequence] /\ torn' \subseteq Ids /\ faults' \in 0 .. MaxFaults
        /\ \A j \in Ids : j # i => disk'[j] = disk[j]
        /\ disk'[i] \in {0, disk[i]}
        /\ faults' = MaxFaults => faults = MaxFaults /\ disk'[i] = 0
    BY RemovalFacts DEF TypeOK
  <1>1. TypeOK'
    <2>1. committed' \in [Ids -> 0 .. MaxSequence] /\ pruning' \subseteq Ids
      BY <1>0 DEF TypeOK
    <2>2. tail' \in Nat /\ ticket' \in Nat
      BY DEF TypeOK, Kept
    <2> QED BY <1>0, <2>1, <2>2 DEF TypeOK
  <1>2. Owned'
    BY <1>0 DEF TypeOK, Sequences, Stages, InFlight, Owned, Owning, Kept
  <1>3. Kept'
    BY <1>0 DEF TypeOK, Sequences, Stages, InFlight, Kept
  <1>4. Drained'
    BY <1>0 DEF TypeOK, Sequences, Stages, InFlight, Owned, Drained, Owning, Awaitable, closed
  <1> QED BY <1>1, <1>2, <1>3, <1>4

LEMMA CloseInv ==
  ASSUME IInv, Close PROVE IInv'
  <1> USE DEF IInv, Close, files, records, published, closer
  <1>1. TypeOK'
    BY DEF TypeOK, Sequences, Stages, InFlight
  <1>2. Owned'
    BY DEF TypeOK, Sequences, Stages, InFlight, Owned, Owning
  <1>3. Kept'
    BY DEF TypeOK, Sequences, Stages, InFlight, Kept
  <1>4. Drained'
    BY DEF TypeOK, Sequences, Stages, InFlight, Owned, Drained, Owning, Awaitable, closed
  <1> QED BY <1>1, <1>2, <1>3, <1>4

LEMMA CloseDrainsInv ==
  ASSUME IInv, CloseDrains PROVE IInv'
  <1> USE DEF IInv, CloseDrains, files, records, published, closer
  <1>1. TypeOK'
    BY DEF TypeOK, Sequences, Stages, InFlight
  <1>2. Owned'
    BY DEF TypeOK, Sequences, Stages, InFlight, Owned, Owning
  <1>3. Kept'
    BY DEF TypeOK, Sequences, Stages, InFlight, Kept
  <1>4. Drained'
    BY DEF TypeOK, Sequences, Stages, InFlight, Owned, Drained, Owning, Awaitable, closed
  <1> QED BY <1>1, <1>2, <1>3, <1>4

LEMMA CloseRemovesInv ==
  ASSUME IInv, CloseRemoves PROVE IInv'
  <1> USE DEF IInv, CloseRemoves, files, records, published, closer
  <1>1. TypeOK'
    BY DEF TypeOK, Sequences, Stages, InFlight
  <1>2. Owned'
    BY DEF TypeOK, Sequences, Stages, InFlight, Owned, Owning
  <1>3. Kept'
    BY DEF TypeOK, Sequences, Stages, InFlight, Kept
  <1>4. Drained'
    BY DEF TypeOK, Sequences, Stages, InFlight, Owned, Drained, Owning, Awaitable, closed
  <1> QED BY <1>1, <1>2, <1>3, <1>4

LEMMA CloseStagingInv ==
  ASSUME IInv, CloseStaging PROVE IInv'
  <1> USE DEF IInv, CloseStaging, Fault, files, records, published, closer
  <1>1. TypeOK'
    <2>1. faults' \in 0 .. MaxFaults
      BY DEF TypeOK
    <2>2. stagingRoot' \in BOOLEAN /\ staged' \subseteq Sequences
      BY DEF TypeOK
    <2> QED BY <2>1, <2>2 DEF TypeOK
  <1>2. Owned'
    BY DEF TypeOK, Sequences, Stages, InFlight, Owned, Owning
  <1>3. Kept'
    BY DEF TypeOK, Sequences, Stages, InFlight, Kept
  <1>4. Drained'
    BY DEF TypeOK, Sequences, Stages, InFlight, Owned, Drained, Owning, Awaitable, closed
  <1> QED BY <1>1, <1>2, <1>3, <1>4

LEMMA ClosedInv ==
  ASSUME IInv, Closed PROVE IInv'
  <1> USE DEF IInv, Closed, files, records, published, closer
  <1>1. TypeOK'
    BY DEF TypeOK, Sequences, Stages, InFlight
  <1>2. Owned'
    BY DEF TypeOK, Sequences, Stages, InFlight, Owned, Owning
  <1>3. Kept'
    BY DEF TypeOK, Sequences, Stages, InFlight, Kept
  <1>4. Drained'
    BY DEF TypeOK, Sequences, Stages, InFlight, Owned, Drained, Owning, Awaitable, closed
  <1> QED BY <1>1, <1>2, <1>3, <1>4

\* Every step keeps the invariant.
LEMMA NextInv == IInv /\ [Next]_vars => IInv'
  <1> SUFFICES ASSUME IInv, [Next]_vars PROVE IInv'
    OBVIOUS
  <1>1. CASE Initialize \/ Initialized
    BY <1>1, InitializeInv, InitializedInv
  <1>2. CASE \E i \in Ids : Begin(i)
    BY <1>2, BeginInv
  <1>3. CASE \E s \in Sequences : Prepare(s) \/ Commit(s) \/ Abort(s) \/ Fail(s)
    BY <1>3, PrepareInv, CommitInv, AbortInv, FailInv
  <1>4. CASE \E s \in Sequences : Settles(s)
    BY <1>4, BegunInv, ValidatedInv, GuardedInv, RenamedInv, RereadInv, WithdrawnInv,
       DiscardedInv DEF Settles
  <1>5. CASE \E l \in Leases : Release(l) \/ \E i \in Ids : Lease(l, i)
    BY <1>5, LeaseInv, ReleaseInv
  <1>6. CASE Cleans
    <2>1. \A i \in Ids : Pruned(i) => IInv'
      BY PrunedInv
    <2> QED BY <1>6, <2>1, PruneInv DEF Cleans
  <1>7. CASE Close \/ Closes
    BY <1>7, CloseInv, CloseDrainsInv, CloseRemovesInv, CloseStagingInv, ClosedInv DEF Closes
  <1>8. CASE UNCHANGED vars
    BY <1>8 DEF vars, files, records, published, closer, IInv, TypeOK, Owned, Kept, Drained
  <1> QED BY <1>1, <1>2, <1>3, <1>4, <1>5, <1>6, <1>7, <1>8 DEF Next

\* The inductive invariant: who owns the directory of each id, what is leased and
\* active, and what close() has waited for.
THEOREM Invariance == Spec => []IInv
  BY InitInv, NextInv, PTL DEF Spec

\* The types of #candidates, #committed, the storage root and close() hold for any
\* constants.
THEOREM TypeCorrect == Spec => []TypeOK
  <1>1. IInv => TypeOK
    BY DEF IInv
  <1> QED BY <1>1, Invariance, PTL

-----------------------------------------------------------------------------
(* What a failed removal has reached: never a candidate between its move and   *)
(* its commit, nor the active generation.                                      *)

Untorn ==
    /\ \A i \in torn : disk[i] # 0
    /\ \A s \in Sequences : at[s] \in {"reading", "prepared"} => idOf[s] \notin torn
    /\ active \notin torn

\* A removal reaches one directory.
LEMMA RemovalTears ==
  ASSUME TypeOK, NEW i \in Ids, RemoveGeneration(i), \A j \in torn : disk[j] # 0
  PROVE  /\ torn' \subseteq torn \cup {i}
         /\ \A j \in torn' : disk'[j] # 0
  BY DEF RemoveGeneration, TypeOK

\* Every step keeps it: a removal is of a directory whose candidate is given up, or
\* of a generation that is not active.
LEMMA UntornStep == IInv /\ Untorn /\ [Next]_vars => Untorn'
  <1> SUFFICES ASSUME IInv, Untorn, [Next]_vars PROVE Untorn'
    OBVIOUS
  <1> USE DEF Untorn, files, records, published
  <1>t. /\ at \in [Sequences -> Stages] /\ idOf \in [Sequences -> Ids \cup {None}]
        /\ \A s \in Sequences : at[s] # "none" => idOf[s] \in Ids
        /\ disk \in [Ids -> 0 .. MaxSequence] /\ torn \subseteq Ids /\ TypeOK
    BY DEF IInv, TypeOK
  <1>1. CASE Initialize \/ Initialized
    BY <1>1 DEF Initialize, Initialized
  <1>2. ASSUME NEW i \in Ids, Begin(i) PROVE Untorn'
    <2>1. \A s \in Sequences : at'[s] \in {"reading", "prepared"} =>
             at[s] = at'[s] /\ idOf'[s] = idOf[s]
      BY <1>t, <1>2 DEF Begin, IInv, Owned, Sequences
    <2> QED BY <1>2, <2>1 DEF Begin
  <1>3. ASSUME NEW s \in Sequences, Prepare(s) \/ Abort(s) \/ Fail(s) PROVE Untorn'
    BY <1>t, <1>3 DEF Prepare, Abort, Fail, Fails
  <1>4. ASSUME NEW s \in Sequences, Commit(s) PROVE Untorn'
    BY <1>t, <1>4 DEF Commit
  <1>5. ASSUME NEW s \in Sequences, Begun(s) \/ Validated(s) \/ Guarded(s) PROVE Untorn'
    BY <1>t, <1>5 DEF Begun, Validated, Guarded, Refuse, Fails
  <1>6. ASSUME NEW s \in Sequences, Renamed(s) PROVE Untorn'
    <2>1. CASE s \in staged /\ disk[idOf[s]] = 0
      <3>1. /\ idOf[s] \in Ids /\ idOf[s] \notin torn /\ s # 0
            /\ disk' = [disk EXCEPT ![idOf[s]] = s] /\ at' = [at EXCEPT ![s] = "reading"]
            /\ UNCHANGED <<torn, idOf, active>>
        BY <1>t, <1>6, <2>1 DEF Renamed, Sequences
      <3> QED BY <1>t, <3>1
    <2>2. CASE ~(s \in staged /\ disk[idOf[s]] = 0)
      BY <1>t, <1>6, <2>2 DEF Renamed, Refuse, Fails
    <2> QED BY <2>1, <2>2
  <1>7. ASSUME NEW s \in Sequences, Reread(s) \/ Discarded(s) PROVE Untorn'
    BY <1>t, <1>7 DEF Reread, Discarded, Fails
  <1>8. ASSUME NEW s \in Sequences, Withdrawn(s) PROVE Untorn'
    <2>1. /\ at[s] \in Owning /\ idOf[s] \in Ids /\ at' = [at EXCEPT ![s] = "over"]
          /\ RemoveGeneration(idOf[s]) /\ UNCHANGED <<idOf, active, committed>>
      BY <1>t, <1>8 DEF Withdrawn, Owning
    <2>2. torn' \subseteq torn \cup {idOf[s]} /\ \A j \in torn' : disk'[j] # 0
      BY <1>t, <2>1, RemovalTears
    <2>3. \A t \in Sequences : at'[t] \in {"reading", "prepared"} =>
             at[t] = at'[t] /\ idOf[t] # idOf[s]
      BY <1>t, <2>1 DEF IInv, Owned, Owning
    <2>4. active # idOf[s]
      <3>1. active # None => committed[active] # 0 /\ active \in Ids
        BY DEF IInv, Kept, TypeOK
      <3>2. active = idOf[s] => disk[idOf[s]] = s /\ at[disk[idOf[s]]] = "committed"
        BY <2>1, <3>1 DEF IInv, Owned
      <3> QED BY <2>1, <3>2 DEF Owning
    <2> QED BY <2>1, <2>2, <2>3, <2>4
  <1>9. CASE \E l \in Leases : Release(l) \/ \E i \in Ids : Lease(l, i)
    BY <1>9 DEF Release, Lease
  <1>10. CASE Prune
    BY <1>10 DEF Prune
  <1>11. ASSUME NEW i \in Ids, Pruned(i) PROVE Untorn'
    <2>1. /\ i # active /\ committed[i] # 0 /\ RemoveGeneration(i)
          /\ UNCHANGED <<idOf, at, active>>
      BY <1>11 DEF Pruned, IInv, Kept
    <2>2. torn' \subseteq torn \cup {i} /\ \A j \in torn' : disk'[j] # 0
      BY <1>t, <2>1, RemovalTears
    <2>3. ASSUME NEW s \in Sequences, at[s] \in {"reading", "prepared"} PROVE idOf[s] # i
      BY <2>1, <2>3 DEF IInv, Owned, Owning
    <2> QED BY <2>1, <2>2, <2>3
  <1>12. CASE Close \/ CloseDrains \/ CloseStaging \/ Closed
    BY <1>12 DEF Close, CloseDrains, CloseStaging, Closed
  <1>13. CASE CloseRemoves
    BY <1>t, <1>13 DEF CloseRemoves
  <1>14. CASE UNCHANGED vars
    BY <1>14 DEF vars
  <1> QED BY <1>1, <1>2, <1>3, <1>4, <1>5, <1>6, <1>7, <1>8, <1>9, <1>10, <1>11, <1>12,
             <1>13, <1>14 DEF Next, Settles, Cleans, Closes

LEMMA NeverTorn == Spec => []Untorn
  <1>1. Init => Untorn
    BY DEF Init, Untorn
  <1> QED BY <1>1, UntornStep, Invariance, PTL DEF Spec

\* Whatever prepares, aborts, fails and prunes concurrently, a committed or
\* prepared generation has its own directory on disk, and no removal, complete or
\* failed, has reached what is prepared or active.
THEOREM CommittedAlwaysWhole == Spec => []CommittedWhole
  <1>1. IInv /\ Untorn => CommittedWhole
    BY DEF IInv, Owned, Kept, Owning, CommittedWhole, Untorn
  <1> QED BY <1>1, Invariance, NeverTorn, PTL

\* No prune marks a leased generation or the active one, and nothing committed is
\* newer than the active one.
THEOREM LeasedAlwaysKept == Spec => []LeasedKept
  <1>1. IInv => LeasedKept
    BY DEF IInv, Kept, LeasedKept, Inactive
  <1> QED BY <1>1, Invariance, PTL

\* What close() leaves was left by a removal that failed, or is being removed by an
\* abort().
THEOREM NothingIsLeft == Spec => []CloseLeavesNothing
  <1>1. ASSUME IInv, closing = "closed", faults = MaxFaults PROVE CloseLeavesNothing
    <2>1. staged = {}
      BY <1>1 DEF IInv, Drained
    <2>2. ASSUME NEW i \in Ids, disk[i] # committed[i]
          PROVE  \E s \in Sequences : at[s] = "aborting" /\ idOf[s] = i
      <3>1. disk[i] # 0 /\ disk[i] \in Sequences
        BY <1>1, <2>2 DEF IInv, TypeOK, Owned, Sequences
      <3>2. at[disk[i]] \in Owning /\ idOf[disk[i]] = i
        BY <1>1, <2>2, <3>1 DEF IInv, Drained
      <3>3. at[disk[i]] = "aborting"
        BY <1>1, <3>1, <3>2 DEF IInv, Drained, Owning, Awaitable
      <3> QED BY <3>1, <3>2, <3>3
    <2> QED BY <2>1, <2>2 DEF CloseLeavesNothing
  <1>2. IInv => CloseLeavesNothing
    BY <1>1 DEF CloseLeavesNothing
  <1> QED BY <1>2, Invariance, PTL

-----------------------------------------------------------------------------
(* What a prune leaves.  RetentionKeeps is not inductive: a prune removes the  *)
(* marked generations one by one, and commits go on meanwhile.  Spared is: for *)
(* each marked generation, enough newer inactive ones are not marked.          *)

SparedFor(i) == {j \in Inactive : j \notin pruning /\ committed[j] > committed[i]}
Spared == \A i \in pruning : Cardinality(SparedFor(i)) >= RetainInactive

FinitelyMany == IsFiniteSet(Inactive)

\* The inactive generations are finitely many, whatever Ids is: their sequences
\* are different.
LEMMA FiniteInactive == IInv => FinitelyMany
  <1> SUFFICES ASSUME IInv PROVE IsFiniteSet(Inactive)
    BY DEF FinitelyMany
  <1> DEFINE f == [i \in Inactive |-> committed[i]]
  <1>1. \A i \in Inactive : i \in Ids /\ committed[i] \in 1 .. MaxSequence /\ idOf[committed[i]] = i
    BY DEF IInv, TypeOK, Owned, Inactive
  <1>2. f \in [Inactive -> 1 .. MaxSequence]
    BY <1>1
  <1>3. \A i, j \in Inactive : f[i] = f[j] => i = j
    BY <1>1
  <1>4. f \in Injection(Inactive, 1 .. MaxSequence)
    <2> HIDE DEF f
    <2> QED BY <1>2, <1>3, Fun_IsInj
  <1>5. IsFiniteSet(1 .. MaxSequence)
    BY FS_Interval
  <1> QED BY <1>4, <1>5, FS_Injection

LEMMA FiniteNext == IInv' => FinitelyMany'
  BY FiniteInactive, PTL

\* A larger finite set has at least as many elements.
LEMMA AtLeast ==
  ASSUME NEW A, NEW B, A \subseteq B, IsFiniteSet(B), Cardinality(A) >= RetainInactive
  PROVE  Cardinality(B) >= RetainInactive
  <1>1. A \in SUBSET B
    OBVIOUS
  <1>2. Cardinality(A) <= Cardinality(B) /\ IsFiniteSet(A)
    BY <1>1, FS_Subset
  <1>3. Cardinality(A) \in Nat /\ Cardinality(B) \in Nat
    BY <1>2, FS_CardinalityType
  <1> QED BY <1>2, <1>3

\* Of the generations that a set names, one is the newest.
LEMMA NewestOf ==
  ASSUME TypeOK, NEW U \in SUBSET Ids, U # {}
  PROVE  \E k \in U : \A j \in U : committed[j] <= committed[k]
  <1> DEFINE Behind == {MaxSequence - committed[j] : j \in U}
             R == {p \in Nat \X Nat : p[1] < p[2]}
  <1>1. \A j \in U : committed[j] \in 0 .. MaxSequence
    BY DEF TypeOK
  <1>2. Behind \in SUBSET Nat /\ Behind # {}
    BY <1>1
  <1>3. IsWellFoundedOn(R, Nat)
    BY NatLessThanWellFounded DEF OpToRel
  <1>4. PICK x \in Behind : \A y \in Behind : ~(<<y, x>> \in R)
    <2> HIDE DEF R, Behind
    <2> QED BY <1>2, <1>3, WFMin
  <1>5. PICK k \in U : x = MaxSequence - committed[k]
    BY <1>4
  <1>6. ASSUME NEW j \in U PROVE committed[j] <= committed[k]
    <2>1. ~(<<MaxSequence - committed[j], x>> \in R)
      <3>1. MaxSequence - committed[j] \in Behind
        OBVIOUS
      <3> HIDE DEF R, Behind
      <3> QED BY <1>4, <3>1
    <2>2. MaxSequence - committed[j] \in Nat /\ x \in Nat
      BY <1>1, <1>5
    <2>3. ~(MaxSequence - committed[j] < x)
      <3> HIDE DEF Behind
      <3> QED BY <2>1, <2>2
    <2> QED BY <1>1, <1>5, <2>3
  <1> QED BY <1>6

\* #prune leaves, for each generation it marks, RetainInactive newer ones: those
\* that are newer than the newest it marks.
LEMMA PruneSpares ==
  ASSUME IInv, Prune PROVE Spared'
  <1>1. /\ pruning' = Unretained /\ Inactive' = Inactive /\ committed' = committed
        /\ TypeOK /\ IsFiniteSet(Inactive)
    BY FiniteInactive DEF Prune, Inactive, IInv, FinitelyMany
  <1>2. ASSUME NEW i \in Unretained
        PROVE  Cardinality({j \in Inactive : j \notin Unretained /\ committed[j] > committed[i]})
                  >= RetainInactive
    <2> DEFINE S == {j \in Inactive : j \notin Unretained /\ committed[j] > committed[i]}
    <2>1. Unretained \in SUBSET Ids /\ Unretained # {}
      BY DEF Unretained, Inactive
    <2>2. PICK k \in Unretained : \A j \in Unretained : committed[j] <= committed[k]
      BY <1>1, <2>1, NewestOf
    <2>3. NewerInactive(k) \subseteq S
      <3>1. \A j \in Ids : committed[j] \in Int
        BY <1>1 DEF TypeOK
      <3>2. i \in Ids /\ k \in Ids /\ committed[i] <= committed[k]
        BY <2>1, <2>2
      <3>3. \A j \in Inactive : j \in Ids
        BY DEF Inactive
      <3> QED BY <2>2, <3>1, <3>2, <3>3 DEF NewerInactive
    <2>4. Cardinality(NewerInactive(k)) >= RetainInactive
      BY DEF Unretained
    <2>5. IsFiniteSet(S)
      <3>1. S \in SUBSET Inactive
        OBVIOUS
      <3> HIDE DEF S
      <3> QED BY <1>1, <3>1, FS_Subset
    <2> HIDE DEF S
    <2>6. Cardinality(S) >= RetainInactive
      BY <2>3, <2>4, <2>5, AtLeast
    <2> QED BY <2>6 DEF S
  <1>3. ASSUME NEW i \in Unretained
        PROVE  SparedFor(i)' = {j \in Inactive : j \notin Unretained /\ committed[j] > committed[i]}
    BY <1>1 DEF SparedFor
  <1> QED BY <1>1, <1>2, <1>3 DEF Spared

\* A step that marks nothing keeps what is spared, when inactive generations that
\* are not marked stay so.
LEMMA StaysSpared ==
  ASSUME IInv, IInv', Spared, pruning' \subseteq pruning,
         \A j \in Inactive : j \notin pruning =>
            j \in Inactive' /\ j \notin pruning' /\ committed'[j] = committed[j],
         \A i \in pruning' : committed'[i] = committed[i]
  PROVE  Spared'
  <1> SUFFICES ASSUME NEW i \in pruning' PROVE Cardinality(SparedFor(i)') >= RetainInactive
    BY DEF Spared
  <1>1. SparedFor(i) \subseteq SparedFor(i)'
    BY DEF SparedFor
  <1>2. IsFiniteSet(SparedFor(i)')
    <2>1. IsFiniteSet(Inactive')
      BY FiniteNext DEF FinitelyMany
    <2>2. SparedFor(i)' \in SUBSET Inactive'
      BY DEF SparedFor
    <2> QED BY <2>1, <2>2, FS_Subset
  <1>3. Cardinality(SparedFor(i)) >= RetainInactive
    BY DEF Spared
  <1> QED BY <1>1, <1>2, <1>3, AtLeast

\* A removal takes the generation it was marked for, or nothing.
LEMMA PrunesMarked ==
  ASSUME IInv, NEW i \in Ids, Pruned(i)
  PROVE  /\ i \in Inactive /\ i \in pruning /\ pruning' = pruning \ {i} /\ active' = active
         /\ committed'[i] \in {0, committed[i]}
         /\ \A j \in Ids : j # i => committed'[j] = committed[j]
  <1> USE DEF IInv, Pruned
  <1>1. i \in Inactive
    BY DEF Kept, Inactive
  <1>2. committed \in [Ids -> 0 .. MaxSequence]
    BY DEF TypeOK
  <1>3. /\ committed'[i] \in {0, committed[i]}
        /\ \A j \in Ids : j # i => committed'[j] = committed[j]
    BY <1>2
  <1> QED BY <1>1, <1>3 DEF published

\* Only a commit and a prune change what is published and marked.
LEMMA PublishedChanges ==
  ASSUME [Next]_vars
  PROVE  \/ UNCHANGED <<committed, pruning, active>> \/ Prune
         \/ \E i \in Ids : Pruned(i)
         \/ \E s \in Sequences : Commit(s)
  <1> USE DEF published
  <1>1. CASE Initialize \/ Initialized
    BY <1>1 DEF Initialize, Initialized
  <1>2. CASE \E i \in Ids : Begin(i)
    BY <1>2 DEF Begin
  <1>3. CASE \E s \in Sequences : Prepare(s) \/ Commit(s) \/ Abort(s) \/ Fail(s)
    BY <1>3 DEF Prepare, Abort, Fail
  <1>4. CASE \E s \in Sequences : Settles(s)
    BY <1>4 DEF Settles, Begun, Validated, Guarded, Renamed, Reread, Withdrawn, Discarded
  <1>5. CASE \E l \in Leases : Release(l) \/ \E i \in Ids : Lease(l, i)
    BY <1>5 DEF Release, Lease
  <1>6. CASE Cleans
    BY <1>6 DEF Cleans
  <1>7. CASE Close \/ Closes
    BY <1>7 DEF Close, Closes, CloseDrains, CloseRemoves, CloseStaging, Closed
  <1>8. CASE UNCHANGED vars
    BY <1>8 DEF vars
  <1> QED BY <1>1, <1>2, <1>3, <1>4, <1>5, <1>6, <1>7, <1>8 DEF Next

\* Every step keeps what is spared.
LEMMA SparedStep == IInv /\ Spared /\ [Next]_vars => Spared'
  <1> SUFFICES ASSUME IInv, Spared, [Next]_vars PROVE Spared'
    OBVIOUS
  <1>0. IInv'
    BY NextInv
  <1>1. CASE Prune
    BY <1>1, PruneSpares
  <1>2. ASSUME NEW i \in Ids, Pruned(i) PROVE Spared'
    <2>1. /\ i \in pruning /\ pruning' = pruning \ {i} /\ active' = active
          /\ \A j \in Ids : j # i => committed'[j] = committed[j]
      BY <1>2, PrunesMarked
    <2>2. pruning \subseteq Ids
      BY DEF IInv, TypeOK
    <2>3. \A j \in Inactive : j \notin pruning =>
             j \in Inactive' /\ j \notin pruning' /\ committed'[j] = committed[j]
      BY <2>1 DEF Inactive
    <2>4. \A j \in pruning' : committed'[j] = committed[j]
      BY <2>1, <2>2
    <2> QED BY <1>0, <2>1, <2>3, <2>4, StaysSpared
  <1>3. ASSUME NEW s \in Sequences, Commit(s) PROVE Spared'
    <2>1. /\ idOf[s] \in Ids /\ committed[idOf[s]] = 0
          /\ \A i \in Ids : committed'[i] = IF i = idOf[s] THEN s ELSE committed[i]
          /\ pruning' = pruning /\ active' = idOf[s]
      BY <1>3, CommitsNewest DEF Commit
    <2>2. \A j \in pruning : j \in Ids /\ committed[j] # 0
      BY DEF IInv, TypeOK, Kept
    <2>3. \A j \in Inactive : j \notin pruning =>
             j \in Inactive' /\ j \notin pruning' /\ committed'[j] = committed[j]
      BY <2>1 DEF Inactive
    <2>4. \A j \in pruning' : committed'[j] = committed[j]
      BY <2>1, <2>2
    <2> QED BY <1>0, <2>1, <2>3, <2>4, StaysSpared
  <1>4. CASE UNCHANGED <<committed, pruning, active>>
    BY <1>0, <1>4, StaysSpared DEF Inactive
  <1>5. \/ UNCHANGED <<committed, pruning, active>> \/ Prune
        \/ \E i \in Ids : Pruned(i)
        \/ \E s \in Sequences : Commit(s)
    BY PublishedChanges
  <1> QED BY <1>1, <1>2, <1>3, <1>4, <1>5

\* Only its own prune makes a committed generation lose files.
LEMMA TornByPrune ==
  ASSUME IInv, [Next]_vars, NEW i \in Ids, committed[i] # 0, i \in torn', i \notin torn
  PROVE  Pruned(i)
  <1> USE DEF files, RemoveStaged
  <1>1. CASE Initialize \/ Initialized \/ \E j \in Ids : Begin(j)
    BY <1>1 DEF Initialize, Initialized, Begin
  <1>2. CASE \E s \in Sequences : Prepare(s) \/ Commit(s) \/ Abort(s) \/ Fail(s)
    BY <1>2 DEF Prepare, Commit, Abort, Fail
  <1>3. ASSUME NEW s \in Sequences, Settles(s) PROVE FALSE
    <2>1. Withdrawn(s)
      BY <1>3 DEF Settles, Begun, Validated, Guarded, Renamed, Reread, Discarded
    <2>2. at[s] \in Owning /\ RemoveGeneration(idOf[s])
      BY <2>1 DEF Withdrawn, Owning
    <2>3. i = idOf[s]
      BY <2>2 DEF RemoveGeneration
    <2> QED BY <2>2, <2>3 DEF IInv, Owned, Owning
  <1>4. CASE \E l \in Leases : Release(l) \/ \E j \in Ids : Lease(l, j)
    BY <1>4 DEF Release, Lease
  <1>5. CASE Prune
    BY <1>5 DEF Prune
  <1>6. ASSUME NEW j \in Ids, Pruned(j) PROVE i = j
    BY <1>6 DEF Pruned, RemoveGeneration
  <1>7. CASE Close \/ Closes
    BY <1>7 DEF Close, Closes, CloseDrains, CloseRemoves, CloseStaging, Closed
  <1>8. CASE UNCHANGED vars
    BY <1>8 DEF vars
  <1> QED BY <1>1, <1>2, <1>3, <1>4, <1>5, <1>6, <1>7, <1>8 DEF Next, Cleans

\* The retention: a commit is newer than all that is committed and replaces none,
\* and a prune takes an inactive generation that nobody leases, or some of its files,
\* with RetainInactive newer ones left, whatever commits, leases and failed removals
\* come between its decision and its removals.
THEOREM RetentionAlwaysKeeps == Spec => RetentionKeeps
  <1> DEFINE Taken(i) == committed[i] # 0 /\ (committed'[i] # committed[i] \/ i \in torn' \ torn)
             Spares(i) == /\ committed'[i] \in {0, committed[i]}
                          /\ i \in Inactive /\ \A l \in Leases : lease[l] # i
                          /\ Cardinality(NewerInactive(i)) >= RetainInactive
             Keeps == \A i \in Ids :
                        /\ committed[i] = 0 /\ committed'[i] # 0 =>
                             \A j \in Ids : committed[j] < committed'[i]
                        /\ Taken(i) => Spares(i)
  <1>1. Init => Spared
    BY DEF Init, Spared
  <1>2. ASSUME IInv, Spared, [Next]_vars PROVE Keeps
    <2>0. ASSUME NEW i \in Ids, Pruned(i) PROVE Spares(i)
      <3>1. /\ i \in Inactive /\ i \in pruning /\ committed'[i] \in {0, committed[i]}
        BY <1>2, <2>0, PrunesMarked
      <3>2. Cardinality(NewerInactive(i)) >= RetainInactive
        <4>1. SparedFor(i) \subseteq NewerInactive(i)
          BY DEF SparedFor, NewerInactive
        <4>2. IsFiniteSet(NewerInactive(i))
          <5>1. NewerInactive(i) \in SUBSET Inactive
            BY DEF NewerInactive
          <5> QED BY <1>2, <5>1, FiniteInactive, FS_Subset DEF FinitelyMany
        <4>3. Cardinality(SparedFor(i)) >= RetainInactive
          BY <1>2, <3>1 DEF Spared
        <4> QED BY <4>1, <4>2, <4>3, AtLeast
      <3>3. \A l \in Leases : lease[l] # i
        BY <1>2, <3>1 DEF IInv, Kept, TypeOK
      <3> QED BY <3>1, <3>2, <3>3
    <2>1. CASE UNCHANGED <<committed, pruning, active>> \/ Prune
      <3>1. committed' = committed
        BY <2>1 DEF Prune
      <3>2. \A i \in Ids : Taken(i) => Pruned(i)
        BY <1>2, <3>1, TornByPrune
      <3> QED BY <2>0, <3>1, <3>2
    <2>2. ASSUME NEW s \in Sequences, Commit(s) PROVE Keeps
      <3>1. /\ committed[idOf[s]] = 0 /\ \A i \in Ids : committed[i] < s
            /\ \A i \in Ids : committed'[i] = IF i = idOf[s] THEN s ELSE committed[i]
        BY <1>2, <2>2, CommitsNewest
      <3>2. torn' = torn
        BY <2>2 DEF Commit, files
      <3> QED BY <3>1, <3>2
    <2>3. ASSUME NEW i \in Ids, Pruned(i) PROVE Keeps
      <3>1. /\ committed[i] # 0 /\ i \in pruning
            /\ \A j \in Ids : j # i => committed'[j] = committed[j]
        BY <1>2, <2>3, PrunesMarked DEF Inactive
      <3>2. \A j \in Ids : j \in torn' \ torn => j = i
        BY <2>3 DEF Pruned, RemoveGeneration
      <3> QED BY <2>0, <2>3, <3>1, <3>2
    <2>4. \/ UNCHANGED <<committed, pruning, active>> \/ Prune
          \/ \E i \in Ids : Pruned(i)
          \/ \E s \in Sequences : Commit(s)
      BY <1>2, PublishedChanges
    <2> QED BY <2>1, <2>2, <2>3, <2>4
  <1>3. IInv /\ Spared /\ [Next]_vars => [Keeps]_vars
    BY <1>2
  <1>4. RetentionKeeps <=> [][Keeps]_vars
    BY DEF RetentionKeeps
  <1> HIDE DEF Keeps
  <1>5. Spec => []Spared
    BY <1>1, SparedStep, Invariance, PTL DEF Spec
  <1> QED BY <1>3, <1>4, <1>5, Invariance, PTL DEF Spec
=============================================================================
