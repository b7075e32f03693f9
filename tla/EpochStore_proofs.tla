-------------------------- MODULE EpochStore_proofs --------------------------
(***************************************************************************)
(* For every number of epochs, stores and references, and for any I/O      *)
(* failures, kills and power failures: the counters agree with the         *)
(* references, no call touches an epoch that is referenced, the retention  *)
(* pass keeps the newest epochs and deletes the others from the outside    *)
(* in, and a publication that reports success is synced; as long as the    *)
(* machine keeps its power, the active epoch has its metadata and its      *)
(* directory and the store implements the catalogue; and if one store      *)
(* publishes one epoch after another, so it has after a power failure      *)
(* that leaves the directory epochs.                                       *)
(*                                                                         *)
(* The invariant says who has the permit (Permitted), that a reference     *)
(* being released has its store to itself (Releasing) and its epoch is     *)
(* available (LeasedAvailable), and that whoever removes files under the   *)
(* permit does so for epochs that nobody refers to (Unleased).  On it rest *)
(* an invariant of the files, what each call has written, synced, undone   *)
(* or still to delete (FilesInv), and one of the disk, what                *)
(* active-epoch.json may name after a power failure (DiskInv).             *)
(***************************************************************************)
EXTENDS EpochStore, FiniteSetTheorems, WellFoundedInduction, TLAPS

\* The steps between the move of a publication and its commit or roll back, all
\* those of a publication, and those under the permit.
Moved == {"sync", "activate", "record", "recordSync", "commit", "rollback"}
Publishing == Moved \cup {"verify", "take", "commitSync", "drop"}
UnderPermit == Moved \cup {"take", "commitSync", "retain", "delete"}

Permitted ==
    \A s \in Stores :
        /\ op[s].pc \in UnderPermit <=> holder = s
        /\ op[s].pc \in Publishing => op[s].id \in Ids

Releasing ==
    /\ \A l \in Leases : lease[l].state = "releasing" => At(lease[l].store, "release")
    /\ \A l, m \in Leases :
         /\ lease[l].state = "releasing" /\ lease[m].state = "releasing"
         /\ lease[l].store = lease[m].store
         => l = m

LeasedAvailable ==
    \A l \in Leases : lease[l].state # "free" => dir[lease[l].id] # "absent" /\ meta[lease[l].id]

Unleased ==
    \A s \in Stores :
        /\ op[s].pc \in Moved => refs[op[s].id] = 0
        /\ op[s].pc = "delete" => \A w \in op[s].todo : refs[w[1]] = 0 /\ w[1] # active

StoreTyped == FilesTyped /\ DisksTyped /\ MemoryTyped /\ CallsTyped

IInv == StoreTyped /\ Permitted /\ Releasing /\ LeaseCounts /\ LeasedAvailable /\ Unleased

-----------------------------------------------------------------------------
(* What a counter says of the references *)

LEMMA RefsFinite ==
  ASSUME NEW i \in Ids PROVE IsFiniteSet(Refs(i)) /\ Cardinality(Refs(i)) \in Nat
  <1>1. Refs(i) \subseteq Leases
    BY DEF Refs
  <1> QED BY <1>1, LeasesAssumption, FS_Subset, FS_CardinalityType

\* An epoch whose counter is zero has no reference, and conversely.
LEMMA NoReference ==
  ASSUME StoreTyped, LeaseCounts, NEW i \in Ids
  PROVE  refs[i] = 0 <=> \A l \in Leases : lease[l].state = "free" \/ lease[l].id # i
  <1>1. refs[i] = 0 <=> Refs(i) = {}
    BY RefsFinite, FS_EmptySet DEF LeaseCounts
  <1> QED BY <1>1 DEF Refs

\* Granting a reference adds it to those of its epoch, ...
LEMMA GrantCounts ==
  ASSUME StoreTyped, LeaseCounts, NEW s \in Stores, NEW l \in Leases, NEW i \in Ids,
         lease[l].state = "free", Grant(s, l, i)
  PROVE  LeaseCounts'
  <1>1. Refs(i)' = Refs(i) \cup {l} /\ l \notin Refs(i)
    BY DEF Refs, Grant, StoreTyped, MemoryTyped
  <1>2. \A j \in Ids \ {i} : Refs(j)' = Refs(j)
    BY DEF Refs, Grant, StoreTyped, MemoryTyped
  <1>3. Cardinality(Refs(i)') = Cardinality(Refs(i)) + 1
    BY <1>1, RefsFinite, FS_AddElement
  <1>4. refs'[i] = refs[i] + 1 /\ \A j \in Ids \ {i} : refs'[j] = refs[j]
    BY DEF Grant, StoreTyped, MemoryTyped
  <1> QED BY <1>2, <1>3, <1>4 DEF LeaseCounts

\* ... and releasing one takes it away.
LEMMA ReleaseCounts ==
  ASSUME StoreTyped, LeaseCounts, NEW l \in Leases, Release(l)
  PROVE  LeaseCounts'
  <1>1. PICK i \in Ids : i = lease[l].id
    BY DEF Release, StoreTyped, MemoryTyped, FreeLease
  <1>2. /\ lease'[l].state = "free" /\ lease[l].state = "releasing"
        /\ \A m \in Leases \ {l} : lease'[m] = lease[m]
    BY DEF Release, StoreTyped, MemoryTyped, FreeLease
  <1>3. Refs(i)' = Refs(i) \ {l} /\ l \in Refs(i)
    BY <1>1, <1>2 DEF Refs
  <1>4. \A j \in Ids \ {i} : Refs(j)' = Refs(j)
    BY <1>1, <1>2 DEF Refs
  <1>5. Cardinality(Refs(i)') = Cardinality(Refs(i)) - 1
    BY <1>3, RefsFinite, FS_RemoveElement
  <1>6. refs[i] = Cardinality(Refs(i)) /\ refs[i] \in Nat \ {0}
    BY <1>3, NoReference DEF LeaseCounts, Refs, StoreTyped, MemoryTyped
  <1>7. \/ refs[i] = 1 /\ refs' = [refs EXCEPT ![i] = 0]
        \/ refs[i] # 1 /\ refs' = [refs EXCEPT ![i] = IF @ > 1 THEN @ - 1 ELSE @]
    BY <1>1 DEF Release
  <1>8. refs'[i] = refs[i] - 1 /\ \A j \in Ids \ {i} : refs'[j] = refs[j]
    BY <1>6, <1>7 DEF StoreTyped, MemoryTyped
  <1> QED BY <1>4, <1>5, <1>6, <1>8 DEF LeaseCounts

-----------------------------------------------------------------------------
(* The steps, one lemma per action *)

\* What writing or removing the metadata of an epoch leaves of the others'.
LEMMA SetMetaTyped ==
  ASSUME meta \in [Ids -> BOOLEAN], metaDisk \in [Ids -> SUBSET BOOLEAN],
         NEW i \in Ids, NEW v \in BOOLEAN, SetMeta(i, v)
  PROVE  /\ meta' \in [Ids -> BOOLEAN] /\ metaDisk' \in [Ids -> SUBSET BOOLEAN]
         /\ \A j \in Ids \ {i} : meta'[j] <=> meta[j]
         /\ meta'[i] <=> v
  <1>1. meta' = [meta EXCEPT ![i] = v] /\ metaDisk' = [metaDisk EXCEPT ![i] = @ \cup {v}]
    BY DEF SetMeta
  <1> QED BY <1>1

\* A step of one store that does not touch the references leaves the releases of
\* the others alone.
LEMMA ReleasingKept ==
  ASSUME StoreTyped, Releasing, NEW s \in Stores, op[s].pc # "release", lease' = lease,
         \A t \in Stores \ {s} : op'[t] = op[t]
  PROVE  Releasing'
  <1>1. \A l \in Leases : lease[l].state # "free" => lease[l].store \in Stores
    BY DEF StoreTyped, MemoryTyped, FreeLease
  <1> QED BY <1>1 DEF Releasing, At

\* CreateStaging keeps the invariant.
LEMMA CreateStagingKeeps ==
  ASSUME IInv, NEW s \in Stores, NEW i \in Ids, CreateStaging(s, i)
  PROVE  IInv'
  <1> USE IdsAssumption, BoundsAssumption DEF IInv, StoreTyped, Moved, Publishing, UnderPermit, CreateStaging
  <1>1. /\ FilesTyped' /\ DisksTyped' /\ CallsTyped' /\ Permitted'
        /\ Releasing' /\ LeaseCounts' /\ LeasedAvailable' /\ Unleased'
    BY DEF FilesTyped, DisksTyped, CallsTyped, Permitted, Releasing, LeaseCounts,
           LeasedAvailable, Unleased, Refs, At, files, memory
  <1>2. MemoryTyped'
    BY DEF FilesTyped, MemoryTyped, CallsTyped, At, memory
  <1> QED BY <1>1, <1>2

\* CloseStaging keeps the invariant.
LEMMA CloseStagingKeeps ==
  ASSUME IInv, NEW s \in Stores, NEW i \in Ids, CloseStaging(s, i)
  PROVE  IInv'
  <1> USE IdsAssumption, BoundsAssumption DEF IInv, StoreTyped, Moved, Publishing, UnderPermit, CloseStaging, Gone
  <1>1. /\ FilesTyped' /\ DisksTyped' /\ CallsTyped' /\ Permitted'
        /\ Releasing' /\ LeaseCounts' /\ LeasedAvailable' /\ Unleased'
    BY DEF FilesTyped, DisksTyped, CallsTyped, Permitted, Releasing, LeaseCounts,
           LeasedAvailable, Unleased, Refs, At, files, memory
  <1>2. MemoryTyped'
    BY DEF FilesTyped, MemoryTyped, CallsTyped, At, memory
  <1> QED BY <1>1, <1>2

\* BeginPublish keeps the invariant.
LEMMA BeginPublishKeeps ==
  ASSUME IInv, NEW s \in Stores, NEW i \in Ids, BeginPublish(s, i)
  PROVE  IInv'
  <1> USE IdsAssumption, BoundsAssumption DEF IInv, StoreTyped, Moved, Publishing, UnderPermit, BeginPublish
  <1>1. FilesTyped' /\ DisksTyped' /\ LeaseCounts' /\ LeasedAvailable'
    BY DEF FilesTyped, DisksTyped, LeaseCounts, LeasedAvailable, Refs, files, memory
  <1>2. MemoryTyped'
    BY DEF FilesTyped, MemoryTyped, CallsTyped, At, Idle, memory
  <1>3. CallsTyped'
    BY DEF MemoryTyped, CallsTyped, At, Idle, Steps, Resources
  <1>4. Permitted'
    BY DEF MemoryTyped, CallsTyped, Permitted, At, Idle
  <1>5. Releasing'
    BY DEF MemoryTyped, CallsTyped, Permitted, Releasing, At, Idle, memory
  <1>6. Unleased'
    BY DEF FilesTyped, MemoryTyped, CallsTyped, Permitted, Unleased, At, Idle, files, memory
  <1> QED BY <1>1, <1>2, <1>3, <1>4, <1>5, <1>6

\* RecoverStaging keeps the invariant.
LEMMA RecoverStagingKeeps ==
  ASSUME IInv, NEW s \in Stores, RecoverStaging(s)
  PROVE  IInv'
  <1> USE IdsAssumption, BoundsAssumption DEF IInv, StoreTyped, Moved, Publishing, UnderPermit, RecoverStaging
  <1>1. FilesTyped' /\ DisksTyped' /\ MemoryTyped' /\ LeaseCounts' /\ LeasedAvailable'
    BY DEF FilesTyped, DisksTyped, MemoryTyped, LeaseCounts, LeasedAvailable, Refs, files, memory
  <1>2. CallsTyped'
    BY DEF CallsTyped, At, Goto, Steps
  <1>3. Permitted'
    BY DEF CallsTyped, Permitted, At, Goto
  <1>4. Releasing'
    <2>1. op[s].pc # "release" /\ lease' = lease
      BY DEF At, memory
    <2>2. \A t \in Stores \ {s} : op'[t] = op[t]
      BY DEF CallsTyped, Goto
    <2> QED BY <2>1, <2>2, ReleasingKept
  <1>5. Unleased'
    BY DEF CallsTyped, Permitted, Unleased, At, Goto, files, memory
  <1> QED BY <1>1, <1>2, <1>3, <1>4, <1>5

\* TearRoot keeps the invariant.
LEMMA TearRootKeeps ==
  ASSUME IInv, NEW s \in Stores, NEW r \in sweep[s], TearRoot(s, r)
  PROVE  IInv'
  <1>1. UNCHANGED <<files, roots, staging, memory, holder, op, faults>>
    BY DEF TearRoot
  <1> QED BY <1>1 DEF IInv, StoreTyped, FilesTyped, DisksTyped, MemoryTyped, CallsTyped, Permitted,
                      Releasing, LeaseCounts, LeasedAvailable, Unleased, Refs, At, files, memory

\* RemoveRoot keeps the invariant.
LEMMA RemoveRootKeeps ==
  ASSUME IInv, NEW s \in Stores, NEW r \in sweep[s], RemoveRoot(s, r)
  PROVE  IInv'
  <1> USE IdsAssumption, BoundsAssumption DEF IInv, StoreTyped, Moved, Publishing, UnderPermit
  <1>1. UNCHANGED <<files, staging, memory, holder>> /\ roots' \subseteq roots
    BY DEF RemoveRoot, Gone
  <1>2. faults' \in 0 .. MaxFaults
    BY DEF RemoveRoot, Fault, NoFault, CallsTyped
  <1>3. \/ op' = op
        \/ op[s].pc = "recover" /\ op' = [op EXCEPT ![s] = Idle]
    BY DEF RemoveRoot, At, CallsTyped
  <1>4. FilesTyped' /\ DisksTyped' /\ MemoryTyped' /\ LeaseCounts' /\ LeasedAvailable'
    BY <1>1 DEF FilesTyped, DisksTyped, MemoryTyped, LeaseCounts, LeasedAvailable, Refs, files, memory
  <1>5. CallsTyped'
    <2>1. Idle \in [pc : Steps, id : Ids \cup {None}, todo : SUBSET (Ids \X Resources), clean : BOOLEAN]
      BY DEF Idle, Steps
    <2>2. PICK v \in [pc : Steps, id : Ids \cup {None}, todo : SUBSET (Ids \X Resources), clean : BOOLEAN] :
            op' = [op EXCEPT ![s] = v] \/ op' = op
      BY <1>3, <2>1
    <2> QED BY <1>1, <1>2, <2>2 DEF CallsTyped
  <1>6. Permitted'
    BY <1>1, <1>3 DEF CallsTyped, Permitted, Idle
  <1>7. Releasing'
    BY <1>1, <1>3, ReleasingKept DEF CallsTyped, Releasing, At, memory
  <1>8. Unleased'
    BY <1>1, <1>3 DEF CallsTyped, Permitted, Unleased, Idle, files, memory
  <1> QED BY <1>4, <1>5, <1>6, <1>7, <1>8

\* EndRecovery keeps the invariant.
LEMMA EndRecoveryKeeps ==
  ASSUME IInv, NEW s \in Stores, EndRecovery(s)
  PROVE  IInv'
  <1> USE IdsAssumption, BoundsAssumption DEF IInv, StoreTyped, Moved, Publishing, UnderPermit, EndRecovery
  <1>1. FilesTyped' /\ DisksTyped' /\ MemoryTyped' /\ LeaseCounts' /\ LeasedAvailable'
    BY DEF FilesTyped, DisksTyped, MemoryTyped, LeaseCounts, LeasedAvailable, Refs, files, stages, memory
  <1>2. CallsTyped'
    BY DEF CallsTyped, At, Goto, Steps
  <1>3. Permitted'
    BY DEF CallsTyped, Permitted, At, Goto
  <1>4. Releasing'
    <2>1. op[s].pc # "release" /\ lease' = lease
      BY DEF At, memory
    <2>2. \A t \in Stores \ {s} : op'[t] = op[t]
      BY DEF CallsTyped, Goto
    <2> QED BY <2>1, <2>2, ReleasingKept
  <1>5. Unleased'
    BY DEF CallsTyped, Permitted, Unleased, At, Goto, files, memory
  <1> QED BY <1>1, <1>2, <1>3, <1>4, <1>5

\* Verify keeps the invariant.
LEMMA VerifyKeeps ==
  ASSUME IInv, NEW s \in Stores, Verify(s)
  PROVE  IInv'
  <1> USE IdsAssumption, BoundsAssumption DEF IInv, StoreTyped, Moved, Publishing, UnderPermit, Verify
  <1>1. FilesTyped' /\ DisksTyped' /\ MemoryTyped' /\ LeaseCounts' /\ LeasedAvailable'
    BY DEF FilesTyped, DisksTyped, MemoryTyped, LeaseCounts, LeasedAvailable, Refs, files,
           stages, memory
  <1>2. CallsTyped'
    BY DEF MemoryTyped, CallsTyped, At, Goto, Steps, Resources
  <1>3. Permitted'
    BY DEF MemoryTyped, CallsTyped, Permitted, At, Goto
  <1>4. Releasing'
    <2>1. op[s].pc # "release" /\ lease' = lease
      BY DEF At, memory
    <2>2. \A t \in Stores \ {s} : op'[t] = op[t]
      BY DEF CallsTyped, Goto
    <2> QED BY <2>1, <2>2, ReleasingKept
  <1>5. Unleased'
    BY DEF FilesTyped, MemoryTyped, CallsTyped, Permitted, Unleased, At, Goto, files, stages,
           memory
  <1> QED BY <1>1, <1>2, <1>3, <1>4, <1>5

\* Take keeps the invariant.
LEMMA TakeKeeps ==
  ASSUME IInv, NEW s \in Stores, Take(s)
  PROVE  IInv'
  <1> USE IdsAssumption, BoundsAssumption DEF IInv, StoreTyped, Moved, Publishing, UnderPermit, Take, Gone
  <1>1. LeaseCounts'
    BY DEF LeaseCounts, Refs, FailUnmoved, files, memory
  <1>2. FilesTyped'
    BY DEF FilesTyped, CallsTyped, Permitted, At, Goto, Fault, NoFault, SetDir, FailUnmoved,
           DirStates, Placed, files
  <1>3. DisksTyped'
    <2>1. op[s].id \in Ids /\ {"whole"} \in SUBSET DirStates /\ Placed \in SUBSET DirStates
      BY DEF Permitted, At, DirStates, Placed
    <2>2. \/ UNCHANGED dirDisk
          \/ \E D \in SUBSET DirStates : dirDisk' = [dirDisk EXCEPT ![op[s].id] = @ \cup D]
      BY <2>1 DEF FailUnmoved, files
    <2>3. UNCHANGED <<metaDisk, activeDisk>>
      BY DEF FailUnmoved, files
    <2> QED BY <2>1, <2>2, <2>3 DEF DisksTyped
  <1>4. MemoryTyped'
    BY DEF FilesTyped, MemoryTyped, CallsTyped, At, Goto, Fault, NoFault, FailUnmoved, memory
  <1>5. CallsTyped'
    <2>1. \E pc \in Steps : op' = [op EXCEPT ![s].pc = pc]
      BY DEF Goto, FailUnmoved, Steps
    <2>2. holder' \in Stores \cup {None} /\ faults' \in 0 .. MaxFaults
      BY DEF FailUnmoved, Fault, NoFault, CallsTyped
    <2> QED BY <2>1, <2>2 DEF CallsTyped
  <1>6. Permitted'
    BY DEF MemoryTyped, CallsTyped, Permitted, At, Goto, Fault, NoFault, FailUnmoved
  <1>7. Releasing'
    <2>1. op[s].pc # "release" /\ lease' = lease
      BY DEF At, memory
    <2>2. \A t \in Stores \ {s} : op'[t] = op[t]
      BY DEF CallsTyped, Goto, FailUnmoved
    <2> QED BY <2>1, <2>2, ReleasingKept
  <1>8. LeasedAvailable'
    BY DEF FilesTyped, MemoryTyped, CallsTyped, Permitted, LeasedAvailable, At, Goto, Fault,
           NoFault, Idle, FreeLease, SetDir, FailUnmoved, Steps, DirStates, Placed, Resources, files,
           memory
  <1>9. Unleased'
    <2>1. dir[op[s].id] = "absent" => refs[op[s].id] = 0
      BY NoReference DEF LeasedAvailable, Permitted, At
    <2>2. \A t \in Stores \ {s} : op'[t] = op[t]
      BY DEF Goto, FailUnmoved, CallsTyped
    <2>3. \/ dir[op[s].id] = "absent" /\ op'[s].pc = "sync" /\ op'[s].id = op[s].id
          \/ op'[s].pc = "drop"
      BY DEF Goto, FailUnmoved, CallsTyped
    <2>4. refs' = refs /\ active' = active
      BY DEF files, memory, FailUnmoved
    <2> QED BY <2>1, <2>2, <2>3, <2>4 DEF Unleased
  <1> QED BY <1>1, <1>2, <1>3, <1>4, <1>5, <1>6, <1>7, <1>8, <1>9

\* SyncEpochs keeps the invariant.
LEMMA SyncEpochsKeeps ==
  ASSUME IInv, NEW s \in Stores, SyncEpochs(s)
  PROVE  IInv'
  <1> USE IdsAssumption, BoundsAssumption DEF IInv, StoreTyped, Moved, Publishing, UnderPermit, SyncEpochs
  <1>1. FilesTyped' /\ MemoryTyped' /\ LeaseCounts' /\ LeasedAvailable'
    BY DEF FilesTyped, MemoryTyped, LeaseCounts, LeasedAvailable, Refs, stages, memory
  <1>2. DisksTyped'
    BY DEF FilesTyped, DisksTyped, CallsTyped, Permitted, At, Goto, Fault, NoFault, SyncedDirs,
           BeginRollback, Unpublished, DirStates
  <1>3. CallsTyped'
    <2>1. op[s].id \in Ids
      BY DEF Permitted, At
    <2>2. {op[s].id} \X Unpublished \in SUBSET (Ids \X Resources)
      BY <2>1 DEF Unpublished, Resources
    <2>3. PICK todo \in SUBSET (Ids \X Resources) :
            \/ op' = [op EXCEPT ![s].pc = "activate"]
            \/ op' = [op EXCEPT ![s].pc = "rollback", ![s].todo = todo]
      BY <2>2 DEF Goto, BeginRollback
    <2> QED BY <2>3 DEF CallsTyped, Fault, NoFault, Steps
  <1>4. Permitted'
    BY DEF MemoryTyped, CallsTyped, Permitted, At, Goto, Fault, NoFault, BeginRollback,
           Unpublished
  <1>5. Releasing'
    <2>1. op[s].pc # "release" /\ lease' = lease
      BY DEF At, memory
    <2>2. \A t \in Stores \ {s} : op'[t] = op[t]
      BY DEF CallsTyped, Goto, BeginRollback
    <2> QED BY <2>1, <2>2, ReleasingKept
  <1>6. Unleased'
    BY DEF FilesTyped, MemoryTyped, CallsTyped, Permitted, Unleased, At, Goto, Fault, NoFault,
           BeginRollback, Unpublished, stages, memory
  <1> QED BY <1>1, <1>2, <1>3, <1>4, <1>5, <1>6

\* Activate keeps the invariant.
LEMMA ActivateKeeps ==
  ASSUME IInv, NEW s \in Stores, Activate(s)
  PROVE  IInv'
  <1> USE IdsAssumption, BoundsAssumption DEF IInv, StoreTyped, Moved, Publishing, UnderPermit, Activate
  <1>1. DisksTyped' /\ MemoryTyped' /\ LeaseCounts' /\ LeasedAvailable'
    BY DEF DisksTyped, MemoryTyped, LeaseCounts, LeasedAvailable, Refs, stages, memory
  <1>2. FilesTyped'
    BY DEF FilesTyped, CallsTyped, Permitted, At, Goto, Fault, NoFault, BeginRollback,
           Unpublished, DirStates
  <1>3. CallsTyped'
    <2>1. op[s].id \in Ids
      BY DEF Permitted, At
    <2>2. {op[s].id} \X Unpublished \in SUBSET (Ids \X Resources)
      BY <2>1 DEF Unpublished, Resources
    <2>3. PICK todo \in SUBSET (Ids \X Resources) :
            \/ op' = [op EXCEPT ![s].pc = "record"]
            \/ op' = [op EXCEPT ![s].pc = "rollback", ![s].todo = todo]
      BY <2>2 DEF Goto, BeginRollback
    <2>4. holder' = holder /\ faults' \in 0 .. MaxFaults
      BY DEF Fault, NoFault, CallsTyped
    <2> QED BY <2>3, <2>4 DEF CallsTyped, Steps
  <1>4. Permitted'
    BY DEF MemoryTyped, CallsTyped, Permitted, At, Goto, Fault, NoFault, BeginRollback,
           Unpublished
  <1>5. Releasing'
    <2>1. op[s].pc # "release" /\ lease' = lease
      BY DEF At, memory
    <2>2. \A t \in Stores \ {s} : op'[t] = op[t]
      BY DEF CallsTyped, Goto, BeginRollback
    <2> QED BY <2>1, <2>2, ReleasingKept
  <1>6. Unleased'
    BY DEF FilesTyped, MemoryTyped, CallsTyped, Permitted, Unleased, At, Goto, Fault, NoFault,
           BeginRollback, Unpublished, stages, memory
  <1> QED BY <1>1, <1>2, <1>3, <1>4, <1>5, <1>6

\* Record keeps the invariant.
LEMMA RecordKeeps ==
  ASSUME IInv, NEW s \in Stores, Record(s)
  PROVE  IInv'
  <1> DEFINE i == op[s].id
  <1> USE IdsAssumption, BoundsAssumption DEF IInv, StoreTyped, Moved, Publishing, UnderPermit
  <1>1. /\ op[s].pc = "record"
        /\ \/ NoFault /\ op' = [op EXCEPT ![s].pc = "recordSync"]
           \/ Fault /\ op' = [op EXCEPT ![s].pc = "rollback", ![s].todo = {i} \X Resources]
    BY DEF Record, At, Goto, BeginRollback
  <1>2. faults' \in 0 .. MaxFaults
    BY <1>1 DEF Fault, NoFault, CallsTyped
  <1>3. i \in Ids
    BY <1>1 DEF Permitted
  <1>4. \/ SetMeta(i, TRUE) /\ dirDisk' = SyncedDirs
        \/ UNCHANGED <<meta, metaDisk, dirDisk>>
    BY DEF Record
  <1>5. UNCHANGED <<dir, catalog, active, activeDisk, roots, staging, refs, lease, holder>>
    BY DEF Record, stages, memory
  <1>6. /\ meta' \in [Ids -> BOOLEAN] /\ metaDisk' \in [Ids -> SUBSET BOOLEAN]
        /\ \A j \in Ids : meta[j] => meta'[j]
    <2>1. CASE SetMeta(i, TRUE)
      BY <1>3, <2>1, SetMetaTyped DEF FilesTyped, DisksTyped
    <2>2. CASE UNCHANGED <<meta, metaDisk>>
      BY <2>2 DEF FilesTyped, DisksTyped
    <2> QED BY <1>4, <2>1, <2>2
  <1>7. dirDisk' \in [Ids -> SUBSET DirStates]
    <2>1. SyncedDirs \in [Ids -> SUBSET DirStates]
      BY DEF SyncedDirs, FilesTyped, DisksTyped, DirStates
    <2> QED BY <1>4, <2>1 DEF DisksTyped
  <1>8. /\ op'[s].pc \in {"recordSync", "rollback"} /\ op'[s].id = i
        /\ \A t \in Stores \ {s} : op'[t] = op[t]
    BY <1>1 DEF CallsTyped
  <1>9. {i} \X Resources \in SUBSET (Ids \X Resources)
    BY <1>3
  <1> HIDE DEF i
  <1>10. FilesTyped' /\ DisksTyped'
    BY <1>5, <1>6, <1>7 DEF FilesTyped, DisksTyped
  <1>11. MemoryTyped'
    BY <1>5 DEF MemoryTyped
  <1>12. CallsTyped'
    <2>1. PICK todo \in SUBSET (Ids \X Resources) :
            \/ op' = [op EXCEPT ![s].pc = "recordSync"]
            \/ op' = [op EXCEPT ![s].pc = "rollback", ![s].todo = todo]
      BY <1>1, <1>9
    <2> QED BY <1>2, <1>5, <2>1 DEF CallsTyped, Steps
  <1>13. Permitted'
    BY <1>1, <1>3, <1>5, <1>8 DEF Permitted
  <1>14. Releasing'
    BY <1>1, <1>5, <1>8 DEF Releasing, At, MemoryTyped, FreeLease
  <1>15. LeaseCounts'
    BY <1>5 DEF LeaseCounts, Refs
  <1>16. LeasedAvailable'
    <2>1. \A l \in Leases : lease[l].state # "free" => lease[l].id \in Ids
      BY DEF MemoryTyped, FreeLease
    <2>2. \A l \in Leases : lease[l].state # "free" => meta'[lease[l].id]
      BY <1>6, <2>1 DEF LeasedAvailable
    <2> QED BY <1>5, <2>2 DEF LeasedAvailable
  <1>17. Unleased'
    <2>1. refs[i] = 0
      BY <1>1 DEF Unleased, i
    <2> QED BY <1>5, <1>8, <2>1 DEF Unleased
  <1> QED BY <1>10, <1>11, <1>12, <1>13, <1>14, <1>15, <1>16, <1>17

\* RecordSync keeps the invariant.
LEMMA RecordSyncKeeps ==
  ASSUME IInv, NEW s \in Stores, RecordSync(s)
  PROVE  IInv'
  <1> USE IdsAssumption, BoundsAssumption DEF IInv, StoreTyped, Moved, Publishing, UnderPermit, RecordSync
  <1>1. FilesTyped' /\ MemoryTyped' /\ LeaseCounts' /\ LeasedAvailable'
    BY DEF FilesTyped, MemoryTyped, LeaseCounts, LeasedAvailable, Refs, stages, memory
  <1>2. DisksTyped'
    BY DEF FilesTyped, DisksTyped, CallsTyped, Permitted, At, Goto, Fault, NoFault, SyncedMeta,
           BeginRollback, DirStates, Resources
  <1>3. CallsTyped'
    <2>1. op[s].id \in Ids
      BY DEF Permitted, At
    <2>2. {op[s].id} \X Resources \in SUBSET (Ids \X Resources)
      BY <2>1
    <2>3. PICK todo \in SUBSET (Ids \X Resources) :
            \/ op' = [op EXCEPT ![s].pc = "commit"]
            \/ op' = [op EXCEPT ![s].pc = "rollback", ![s].todo = todo]
      BY <2>2 DEF Goto, BeginRollback
    <2> QED BY <2>3 DEF CallsTyped, Fault, NoFault, Steps
  <1>4. Permitted'
    BY DEF MemoryTyped, CallsTyped, Permitted, At, Goto, Fault, NoFault, BeginRollback,
           Resources
  <1>5. Releasing'
    <2>1. op[s].pc # "release" /\ lease' = lease
      BY DEF At, memory
    <2>2. \A t \in Stores \ {s} : op'[t] = op[t]
      BY DEF CallsTyped, Goto, BeginRollback
    <2> QED BY <2>1, <2>2, ReleasingKept
  <1>6. Unleased'
    BY DEF FilesTyped, MemoryTyped, CallsTyped, Permitted, Unleased, At, Goto, Fault, NoFault,
           BeginRollback, Resources, stages, memory
  <1> QED BY <1>1, <1>2, <1>3, <1>4, <1>5, <1>6

\* Commit keeps the invariant.
LEMMA CommitKeeps ==
  ASSUME IInv, NEW s \in Stores, Commit(s)
  PROVE  IInv'
  <1> USE IdsAssumption, BoundsAssumption DEF IInv, StoreTyped, Moved, Publishing, UnderPermit, Commit
  <1>1. MemoryTyped' /\ LeaseCounts' /\ LeasedAvailable'
    BY DEF MemoryTyped, LeaseCounts, LeasedAvailable, Refs, stages, memory
  <1>2. FilesTyped'
    BY DEF FilesTyped, CallsTyped, Permitted, At, Goto, Fault, NoFault, BeginRollback,
           DirStates, Resources
  <1>3. DisksTyped'
    BY DEF FilesTyped, DisksTyped, CallsTyped, Permitted, At, Goto, Fault, NoFault,
           BeginRollback, DirStates, Resources
  <1>4. CallsTyped'
    BY DEF MemoryTyped, CallsTyped, At, Goto, Fault, NoFault, BeginRollback, Steps, Resources
  <1>5. Permitted'
    BY DEF MemoryTyped, CallsTyped, Permitted, At, Goto, Fault, NoFault, BeginRollback,
           Resources
  <1>6. Releasing'
    <2>1. op[s].pc # "release" /\ lease' = lease
      BY DEF At, memory
    <2>2. \A t \in Stores \ {s} : op'[t] = op[t]
      BY DEF CallsTyped, Goto, BeginRollback
    <2> QED BY <2>1, <2>2, ReleasingKept
  <1>7. Unleased'
    BY DEF FilesTyped, MemoryTyped, CallsTyped, Permitted, Unleased, At, Goto, Fault, NoFault,
           BeginRollback, Resources, stages, memory
  <1> QED BY <1>1, <1>2, <1>3, <1>4, <1>5, <1>6, <1>7

\* CommitSync keeps the invariant.
LEMMA CommitSyncKeeps ==
  ASSUME IInv, NEW s \in Stores, CommitSync(s)
  PROVE  IInv'
  <1> USE IdsAssumption, BoundsAssumption DEF IInv, StoreTyped, Moved, Publishing, UnderPermit, CommitSync
  <1>1. FilesTyped' /\ MemoryTyped' /\ LeaseCounts' /\ LeasedAvailable'
    BY DEF FilesTyped, MemoryTyped, LeaseCounts, LeasedAvailable, Refs, stages, memory
  <1>2. DisksTyped'
    BY DEF FilesTyped, DisksTyped, CallsTyped, Permitted, At, Goto, Fault, NoFault, DirStates
  <1>3. CallsTyped'
    BY DEF MemoryTyped, CallsTyped, At, Goto, Fault, NoFault, Steps, Resources
  <1>4. Permitted'
    BY DEF MemoryTyped, CallsTyped, Permitted, At, Goto, Fault, NoFault
  <1>5. Releasing'
    <2>1. op[s].pc # "release" /\ lease' = lease
      BY DEF At, memory
    <2>2. \A t \in Stores \ {s} : op'[t] = op[t]
      BY DEF CallsTyped, Goto
    <2> QED BY <2>1, <2>2, ReleasingKept
  <1>6. Unleased'
    BY DEF FilesTyped, MemoryTyped, CallsTyped, Permitted, Unleased, At, Goto, Fault, NoFault,
           stages, memory
  <1> QED BY <1>1, <1>2, <1>3, <1>4, <1>5, <1>6

\* UndoDir keeps the invariant.
LEMMA UndoDirKeeps ==
  ASSUME IInv, NEW s \in Stores, UndoDir(s)
  PROVE  IInv'
  <1> USE IdsAssumption, BoundsAssumption DEF IInv, StoreTyped, Moved, Publishing, UnderPermit, UndoDir
  <1>1. MemoryTyped' /\ LeaseCounts'
    BY DEF MemoryTyped, LeaseCounts, Refs, stages, memory
  <1>2. FilesTyped'
    BY DEF FilesTyped, CallsTyped, Permitted, At, Fault, NoFault, SetDir, Compensated,
           CompensationFailed, DirStates
  <1>3. DisksTyped'
    <2>1. op[s].id \in Ids /\ SyncedDirs \in [Ids -> SUBSET DirStates]
      BY DEF Permitted, At, SyncedDirs, FilesTyped, DisksTyped, DirStates
    <2>2. dirDisk' \in [Ids -> SUBSET DirStates]
      <3>1. CASE dirDisk' = [SyncedDirs EXCEPT ![op[s].id] = {"absent"}]
        BY <2>1, <3>1 DEF DirStates
      <3>2. CASE \E v \in DirStates : SetDir(op[s].id, v)
        <4>1. PICK v \in DirStates : dirDisk' = [dirDisk EXCEPT ![op[s].id] = @ \cup {v}]
          BY <3>2 DEF SetDir
        <4> QED BY <2>1, <4>1 DEF DisksTyped
      <3>3. dir[op[s].id] \in DirStates /\ {"torn", "absent"} \subseteq DirStates
        BY <2>1 DEF FilesTyped, DirStates
      <3> QED BY <3>1, <3>2, <3>3
    <2> QED BY <2>2 DEF DisksTyped
  <1>4. CallsTyped'
    BY DEF MemoryTyped, CallsTyped, At, Fault, NoFault, Compensated, CompensationFailed, Steps,
           Resources
  <1>5. Permitted'
    BY DEF MemoryTyped, CallsTyped, Permitted, At, Fault, NoFault, Compensated,
           CompensationFailed
  <1>6. Releasing'
    <2>1. op[s].pc # "release" /\ lease' = lease
      BY DEF At, memory
    <2>2. \A t \in Stores \ {s} : op'[t] = op[t]
      BY DEF CallsTyped, Compensated, CompensationFailed
    <2> QED BY <2>1, <2>2, ReleasingKept
  <1>7. LeasedAvailable'
    <2>1. \A l \in Leases : lease[l].state # "free" => lease[l].id # op[s].id
      BY NoReference DEF Unleased, Permitted, At
    <2>2. \A j \in Ids \ {op[s].id} : dir'[j] = dir[j]
      BY DEF SetDir, FilesTyped
    <2>3. \A l \in Leases : lease[l].state # "free" => lease[l].id \in Ids
      BY DEF MemoryTyped, FreeLease
    <2> QED BY <2>1, <2>2, <2>3 DEF LeasedAvailable, memory
  <1>8. Unleased'
    BY DEF FilesTyped, MemoryTyped, CallsTyped, Permitted, Unleased, At, Fault, NoFault,
           Compensated, CompensationFailed, stages, memory
  <1> QED BY <1>1, <1>2, <1>3, <1>4, <1>5, <1>6, <1>7, <1>8

\* UndoMeta keeps the invariant.
LEMMA UndoMetaKeeps ==
  ASSUME IInv, NEW s \in Stores, UndoMeta(s)
  PROVE  IInv'
  <1> DEFINE i == op[s].id
  <1> USE IdsAssumption, BoundsAssumption DEF IInv, StoreTyped, Moved, Publishing, UnderPermit
  <1>1. /\ op[s].pc = "rollback" /\ <<i, "meta">> \in op[s].todo
        /\ \/ NoFault /\ op' = [op EXCEPT ![s].todo = @ \ {<<i, "meta">>}]
           \/ Fault /\ op' = [op EXCEPT ![s].todo = @ \ {<<i, "meta">>}, ![s].clean = FALSE]
    BY DEF UndoMeta, At, Compensated, CompensationFailed
  <1>2. faults' \in 0 .. MaxFaults
    BY <1>1 DEF Fault, NoFault, CallsTyped
  <1>3. i \in Ids
    BY <1>1 DEF Permitted
  <1>4. \/ meta' = [meta EXCEPT ![i] = FALSE] /\ metaDisk' = [SyncedMeta EXCEPT ![i] = {FALSE}]
        \/ SetMeta(i, FALSE)
        \/ UNCHANGED <<meta, metaDisk>>
    BY DEF UndoMeta
  <1>5. UNCHANGED <<dir, catalog, active, dirDisk, activeDisk, roots, staging, refs, lease, holder>>
    BY DEF UndoMeta, stages, memory
  <1>6. /\ meta' \in [Ids -> BOOLEAN] /\ metaDisk' \in [Ids -> SUBSET BOOLEAN]
        /\ \A j \in Ids \ {i} : meta'[j] <=> meta[j]
    <2>1. CASE meta' = [meta EXCEPT ![i] = FALSE] /\ metaDisk' = [SyncedMeta EXCEPT ![i] = {FALSE}]
      <3>1. SyncedMeta \in [Ids -> SUBSET BOOLEAN]
        BY DEF SyncedMeta, FilesTyped
      <3> QED BY <1>3, <2>1, <3>1 DEF FilesTyped
    <2>2. CASE SetMeta(i, FALSE)
      BY <1>3, <2>2, SetMetaTyped DEF FilesTyped, DisksTyped
    <2>3. CASE UNCHANGED <<meta, metaDisk>>
      BY <2>3 DEF FilesTyped, DisksTyped
    <2> QED BY <1>4, <2>1, <2>2, <2>3
  <1>7. refs[i] = 0
    BY <1>1 DEF Unleased
  <1>8. \A l \in Leases : lease[l].state # "free" => lease[l].id \in Ids \ {i}
    <2>1. \A l \in Leases : lease[l].state # "free" => lease[l].id \in Ids
      BY DEF MemoryTyped, FreeLease
    <2> QED BY <1>3, <1>7, <2>1, NoReference
  <1>9. /\ op'[s].pc = "rollback" /\ op'[s].id = i
        /\ \A t \in Stores \ {s} : op'[t] = op[t]
    BY <1>1 DEF CallsTyped
  <1> HIDE DEF i
  <1>10. FilesTyped' /\ DisksTyped'
    BY <1>5, <1>6 DEF FilesTyped, DisksTyped
  <1>11. MemoryTyped'
    BY <1>5 DEF MemoryTyped
  <1>12. CallsTyped'
    BY <1>1, <1>2, <1>5 DEF CallsTyped
  <1>13. Permitted'
    BY <1>1, <1>3, <1>5, <1>9 DEF Permitted
  <1>14. Releasing'
    BY <1>1, <1>5, <1>9 DEF Releasing, At, MemoryTyped, FreeLease
  <1>15. LeaseCounts'
    BY <1>5 DEF LeaseCounts, Refs
  <1>16. LeasedAvailable'
    BY <1>5, <1>6, <1>8 DEF LeasedAvailable
  <1>17. Unleased'
    BY <1>5, <1>7, <1>9 DEF Unleased
  <1> QED BY <1>10, <1>11, <1>12, <1>13, <1>14, <1>15, <1>16, <1>17

\* UndoCatalog keeps the invariant.
LEMMA UndoCatalogKeeps ==
  ASSUME IInv, NEW s \in Stores, UndoCatalog(s)
  PROVE  IInv'
  <1> USE IdsAssumption, BoundsAssumption DEF IInv, StoreTyped, Moved, Publishing, UnderPermit, UndoCatalog
  <1>1. DisksTyped' /\ MemoryTyped' /\ LeaseCounts' /\ LeasedAvailable'
    BY DEF DisksTyped, MemoryTyped, LeaseCounts, LeasedAvailable, Refs, stages, memory
  <1>2. FilesTyped'
    BY DEF FilesTyped, CallsTyped, Permitted, At, Fault, NoFault, Compensated,
           CompensationFailed, DirStates
  <1>3. CallsTyped'
    <2>1. \E todo \in SUBSET (Ids \X Resources) :
            \/ op' = [op EXCEPT ![s].todo = todo]
            \/ op' = [op EXCEPT ![s].todo = todo, ![s].clean = FALSE]
      BY DEF Compensated, CompensationFailed, CallsTyped
    <2>2. holder' = holder /\ faults' \in 0 .. MaxFaults
      BY DEF Fault, NoFault, CallsTyped
    <2> QED BY <2>1, <2>2 DEF CallsTyped
  <1>4. Permitted'
    BY DEF MemoryTyped, CallsTyped, Permitted, At, Fault, NoFault, Compensated,
           CompensationFailed
  <1>5. Releasing'
    <2>1. op[s].pc # "release" /\ lease' = lease
      BY DEF At, memory
    <2>2. \A t \in Stores \ {s} : op'[t] = op[t]
      BY DEF CallsTyped, Compensated, CompensationFailed
    <2> QED BY <2>1, <2>2, ReleasingKept
  <1>6. Unleased'
    BY DEF FilesTyped, MemoryTyped, CallsTyped, Permitted, Unleased, At, Fault, NoFault,
           Compensated, CompensationFailed, stages, memory
  <1> QED BY <1>1, <1>2, <1>3, <1>4, <1>5, <1>6

\* EndRollback keeps the invariant.
LEMMA EndRollbackKeeps ==
  ASSUME IInv, NEW s \in Stores, EndRollback(s)
  PROVE  IInv'
  <1> USE IdsAssumption, BoundsAssumption DEF IInv, StoreTyped, Moved, Publishing, UnderPermit, EndRollback
  <1>1. FilesTyped' /\ DisksTyped' /\ MemoryTyped' /\ LeaseCounts' /\ LeasedAvailable'
    BY DEF FilesTyped, DisksTyped, MemoryTyped, LeaseCounts, LeasedAvailable, Refs, files,
           stages, memory
  <1>2. CallsTyped'
    BY DEF MemoryTyped, CallsTyped, At, Goto, Idle, Steps, Resources, files, stages, memory
  <1>3. Permitted'
    BY DEF MemoryTyped, CallsTyped, Permitted, At, Goto
  <1>4. Releasing'
    BY DEF MemoryTyped, CallsTyped, Permitted, Releasing, At, Goto, memory
  <1>5. Unleased'
    BY DEF FilesTyped, MemoryTyped, CallsTyped, Permitted, Unleased, At, Goto, files, stages,
           memory
  <1> QED BY <1>1, <1>2, <1>3, <1>4, <1>5

\* Drop keeps the invariant.
LEMMA DropKeeps ==
  ASSUME IInv, NEW s \in Stores, Drop(s)
  PROVE  IInv'
  <1> USE IdsAssumption, BoundsAssumption DEF IInv, StoreTyped, Moved, Publishing, UnderPermit, Drop, Gone
  <1>1. FilesTyped' /\ DisksTyped' /\ LeaseCounts' /\ LeasedAvailable'
    BY DEF FilesTyped, DisksTyped, LeaseCounts, LeasedAvailable, Refs, files, memory
  <1>2. MemoryTyped'
    BY DEF FilesTyped, MemoryTyped, CallsTyped, At, Idle, memory
  <1>3. CallsTyped'
    BY DEF MemoryTyped, CallsTyped, At, Idle, Steps, Resources
  <1>4. Permitted'
    BY DEF MemoryTyped, CallsTyped, Permitted, At, Idle
  <1>5. Releasing'
    BY DEF MemoryTyped, CallsTyped, Permitted, Releasing, At, Idle, memory
  <1>6. Unleased'
    BY DEF FilesTyped, MemoryTyped, CallsTyped, Permitted, Unleased, At, Idle, files, memory
  <1> QED BY <1>1, <1>2, <1>3, <1>4, <1>5, <1>6

\* Acquire keeps the invariant.
LEMMA AcquireKeeps ==
  ASSUME IInv, NEW s \in Stores, NEW l \in Leases, NEW i \in Ids, Acquire(s, l, i)
  PROVE  IInv'
  <1> USE IdsAssumption, BoundsAssumption DEF IInv, StoreTyped, Moved, Publishing, UnderPermit, Acquire
  <1>1. FilesTyped' /\ DisksTyped' /\ CallsTyped' /\ Permitted'
    BY DEF FilesTyped, DisksTyped, CallsTyped, Permitted, Grant, files, stages
  <1>2. MemoryTyped'
    BY DEF FilesTyped, MemoryTyped, CallsTyped, At, Grant, stages
  <1>3. Releasing'
    BY DEF MemoryTyped, CallsTyped, Permitted, Releasing, At, Grant
  <1>4. LeaseCounts'
    BY GrantCounts DEF At
  <1>5. LeasedAvailable'
    BY DEF FilesTyped, MemoryTyped, CallsTyped, Permitted, LeasedAvailable, At, Grant, files,
           stages
  <1>6. Unleased'
    BY DEF FilesTyped, MemoryTyped, CallsTyped, Permitted, Unleased, At, Grant, files, stages
  <1> QED BY <1>1, <1>2, <1>3, <1>4, <1>5, <1>6

\* AcquireActive keeps the invariant.
LEMMA AcquireActiveKeeps ==
  ASSUME IInv, NEW s \in Stores, NEW l \in Leases, AcquireActive(s, l)
  PROVE  IInv'
  <1> USE IdsAssumption, BoundsAssumption DEF IInv, StoreTyped, Moved, Publishing, UnderPermit, AcquireActive
  <1>1. FilesTyped' /\ DisksTyped' /\ CallsTyped' /\ Permitted'
    BY DEF FilesTyped, DisksTyped, CallsTyped, Permitted, Grant, files, stages
  <1>2. MemoryTyped'
    BY DEF FilesTyped, MemoryTyped, CallsTyped, At, Grant, stages
  <1>3. Releasing'
    BY DEF MemoryTyped, CallsTyped, Permitted, Releasing, At, Grant
  <1>4. LeaseCounts'
    <2>1. active \in Ids
      BY DEF FilesTyped
    <2> QED BY <2>1, GrantCounts DEF At
  <1>5. LeasedAvailable'
    BY DEF FilesTyped, DisksTyped, MemoryTyped, CallsTyped, Permitted, Releasing, LeaseCounts,
           LeasedAvailable, Unleased, At, Idle, FreeLease, Grant, ReadableActive, Refs, Steps,
           DirStates, Resources, files, stages
  <1>6. Unleased'
    BY DEF FilesTyped, MemoryTyped, CallsTyped, Permitted, Unleased, At, Grant, files, stages
  <1> QED BY <1>1, <1>2, <1>3, <1>4, <1>5, <1>6

\* CloseLease keeps the invariant.
LEMMA CloseLeaseKeeps ==
  ASSUME IInv, NEW l \in Leases, CloseLease(l)
  PROVE  IInv'
  <1> USE IdsAssumption, BoundsAssumption DEF IInv, StoreTyped, Moved, Publishing, UnderPermit, CloseLease
  <1>1. FilesTyped' /\ DisksTyped' /\ CallsTyped' /\ Permitted' /\ Unleased'
    BY DEF FilesTyped, DisksTyped, CallsTyped, Permitted, Unleased, files, stages
  <1>2. MemoryTyped'
    BY DEF FilesTyped, MemoryTyped, CallsTyped, At, FreeLease, stages, memory
  <1>3. Releasing'
    BY DEF MemoryTyped, CallsTyped, Releasing, At, FreeLease, memory
  <1>4. LeaseCounts'
    BY DEF LeaseCounts, Refs
  <1>5. LeasedAvailable'
    BY DEF FilesTyped, MemoryTyped, CallsTyped, Permitted, LeasedAvailable, files, stages
  <1> QED BY <1>1, <1>2, <1>3, <1>4, <1>5

\* BeginRelease keeps the invariant.
LEMMA BeginReleaseKeeps ==
  ASSUME IInv, NEW l \in Leases, BeginRelease(l)
  PROVE  IInv'
  <1> USE IdsAssumption, BoundsAssumption DEF IInv, StoreTyped, Moved, Publishing, UnderPermit, BeginRelease
  <1>1. FilesTyped' /\ DisksTyped'
    BY DEF FilesTyped, DisksTyped, files, stages
  <1>2. MemoryTyped'
    BY DEF FilesTyped, MemoryTyped, CallsTyped, At, Goto, FreeLease, stages, memory
  <1>3. CallsTyped'
    <2>1. lease[l].store \in Stores
      BY DEF MemoryTyped, FreeLease
    <2> QED BY <2>1 DEF CallsTyped, Goto, Steps
  <1>4. Permitted'
    BY DEF MemoryTyped, CallsTyped, Permitted, At, Goto
  <1>5. Releasing'
    BY DEF MemoryTyped, CallsTyped, Releasing, At, Goto, FreeLease, memory
  <1>6. LeaseCounts'
    BY DEF LeaseCounts, Refs
  <1>7. LeasedAvailable'
    BY DEF FilesTyped, MemoryTyped, CallsTyped, Permitted, LeasedAvailable, At, Goto, files,
           stages
  <1>8. Unleased'
    BY DEF FilesTyped, MemoryTyped, CallsTyped, Permitted, Unleased, At, Goto, files, stages
  <1> QED BY <1>1, <1>2, <1>3, <1>4, <1>5, <1>6, <1>7, <1>8

\* Release keeps the invariant.
LEMMA ReleaseKeeps ==
  ASSUME IInv, NEW l \in Leases, Release(l)
  PROVE  IInv'
  <1> USE IdsAssumption, BoundsAssumption DEF IInv, StoreTyped, Moved, Publishing, UnderPermit, Release
  <1>1. FilesTyped' /\ DisksTyped'
    BY DEF FilesTyped, DisksTyped, files, stages
  <1>2. MemoryTyped'
    BY DEF FilesTyped, MemoryTyped, CallsTyped, Goto, FreeLease, stages
  <1>3. CallsTyped'
    <2>1. lease[l].store \in Stores
      BY DEF MemoryTyped, FreeLease
    <2>2. holder' \in Stores \cup {None}
      BY <2>1 DEF CallsTyped
    <2>3. \E pc \in Steps : op' = [op EXCEPT ![lease[l].store].pc = pc]
      BY DEF Goto, Steps
    <2> QED BY <2>1, <2>2, <2>3 DEF CallsTyped
  <1>4. Permitted'
    BY DEF MemoryTyped, CallsTyped, Permitted, Goto, FreeLease
  <1>5. Releasing'
    BY DEF MemoryTyped, CallsTyped, Releasing, At, Goto, FreeLease, memory
  <1>6. LeaseCounts'
    BY ReleaseCounts
  <1>7. LeasedAvailable'
    <2>1. \A m \in Leases : lease'[m].state # "free" => lease'[m] = lease[m]
      BY DEF MemoryTyped, FreeLease
    <2> QED BY <2>1 DEF LeasedAvailable, files
  <1>8. Unleased'
    <2>1. lease[l].store \in Stores /\ lease[l].id \in Ids
      BY DEF MemoryTyped, FreeLease
    <2>2. \A j \in Ids : refs[j] = 0 => refs'[j] = 0
      BY <2>1 DEF MemoryTyped
    <2>3. \A t \in Stores : op'[t] = op[t] \/ op'[t].pc \in {"idle", "retain"}
      BY <2>1 DEF CallsTyped, Goto
    <2>4. active' = active
      BY DEF files
    <2>5. \A t \in Stores : \A w \in op[t].todo : w[1] \in Ids
      BY DEF CallsTyped
    <2> QED BY <2>2, <2>3, <2>4, <2>5 DEF Unleased, Permitted
  <1> QED BY <1>1, <1>2, <1>3, <1>4, <1>5, <1>6, <1>7, <1>8

\* BeginCleanup keeps the invariant.
LEMMA BeginCleanupKeeps ==
  ASSUME IInv, NEW s \in Stores, BeginCleanup(s)
  PROVE  IInv'
  <1> USE IdsAssumption, BoundsAssumption DEF IInv, StoreTyped, Moved, Publishing, UnderPermit, BeginCleanup
  <1>1. FilesTyped' /\ DisksTyped' /\ MemoryTyped' /\ LeaseCounts' /\ LeasedAvailable'
    BY DEF FilesTyped, DisksTyped, MemoryTyped, LeaseCounts, LeasedAvailable, Refs, files,
           stages, memory
  <1>2. CallsTyped'
    BY DEF MemoryTyped, CallsTyped, At, Goto, Steps, Resources
  <1>3. Permitted'
    BY DEF MemoryTyped, CallsTyped, Permitted, At, Goto
  <1>4. Releasing'
    BY DEF MemoryTyped, CallsTyped, Permitted, Releasing, At, Goto, memory
  <1>5. Unleased'
    BY DEF FilesTyped, MemoryTyped, CallsTyped, Permitted, Unleased, At, Goto, files, stages,
           memory
  <1> QED BY <1>1, <1>2, <1>3, <1>4, <1>5

\* SelectVictims keeps the invariant.
LEMMA SelectVictimsKeeps ==
  ASSUME IInv, NEW s \in Stores, SelectVictims(s)
  PROVE  IInv'
  <1> USE IdsAssumption, BoundsAssumption DEF IInv, StoreTyped, Moved, Publishing, UnderPermit, SelectVictims
  <1>1. FilesTyped' /\ DisksTyped' /\ MemoryTyped' /\ LeaseCounts' /\ LeasedAvailable'
    BY DEF FilesTyped, DisksTyped, MemoryTyped, LeaseCounts, LeasedAvailable, Refs, files,
           stages, memory
  <1>2. CallsTyped'
    <2>1. Victims \X {"catalog"} \in SUBSET (Ids \X Resources)
      BY DEF Victims, Unprotected, Resources
    <2>2. op' \in [Stores -> [pc : Steps, id : Ids \cup {None}, todo : SUBSET (Ids \X Resources), clean : BOOLEAN]]
      <3>1. CASE op' = [op EXCEPT ![s].pc = "delete", ![s].todo = Victims \X {"catalog"}]
        <4>1. PICK todo \in SUBSET (Ids \X Resources) : op' = [op EXCEPT ![s].pc = "delete", ![s].todo = todo]
          BY <2>1, <3>1
        <4> QED BY <4>1 DEF CallsTyped, Steps
      <3>2. CASE EndRetention(s)
        BY <3>2 DEF CallsTyped, Steps, EndRetention, Idle
      <3> QED BY <3>1, <3>2
    <2>3. holder' \in Stores \cup {None}
      BY DEF CallsTyped, EndRetention
    <2>4. faults' \in 0 .. MaxFaults
      BY DEF CallsTyped, Fault, NoFault
    <2> QED BY <2>2, <2>3, <2>4 DEF CallsTyped
  <1>3. Permitted'
    BY DEF MemoryTyped, CallsTyped, Permitted, At, Fault, NoFault, Idle, EndRetention,
           Unprotected, Victims
  <1>4. Releasing'
    <2>1. op[s].pc # "release" /\ lease' = lease
      BY DEF At, memory
    <2>2. \A t \in Stores \ {s} : op'[t] = op[t]
      BY DEF CallsTyped, EndRetention
    <2> QED BY <2>1, <2>2, ReleasingKept
  <1>5. Unleased'
    <2>1. \A w \in Victims \X {"catalog"} : refs[w[1]] = 0 /\ w[1] # active
      BY DEF Victims, Unprotected
    <2>2. \A t \in Stores \ {s} : op'[t] = op[t]
      BY DEF EndRetention, CallsTyped
    <2>3. \/ op'[s].pc = "delete" /\ op'[s].todo = Victims \X {"catalog"}
          \/ op'[s].pc \in {"idle", "drop"}
      BY DEF EndRetention, CallsTyped, Idle
    <2>4. refs' = refs /\ active' = active
      BY DEF files, memory
    <2> QED BY <2>1, <2>2, <2>3, <2>4 DEF Unleased
  <1> QED BY <1>1, <1>2, <1>3, <1>4, <1>5

\* DeleteCatalog keeps the invariant.
LEMMA DeleteCatalogKeeps ==
  ASSUME IInv, NEW s \in Stores, NEW i \in Ids, DeleteCatalog(s, i)
  PROVE  IInv'
  <1> USE IdsAssumption, BoundsAssumption DEF IInv, StoreTyped, Moved, Publishing, UnderPermit, DeleteCatalog
  <1>1. DisksTyped' /\ MemoryTyped' /\ LeaseCounts' /\ LeasedAvailable'
    BY DEF DisksTyped, MemoryTyped, LeaseCounts, LeasedAvailable, Refs, stages, memory
  <1>2. FilesTyped'
    BY DEF FilesTyped, CallsTyped, Permitted, At, Fault, NoFault, Deleted, DeletionFailed,
           DirStates
  <1>3. CallsTyped'
    BY DEF MemoryTyped, CallsTyped, At, Fault, NoFault, Deleted, DeletionFailed, Steps,
           Resources
  <1>4. Permitted'
    BY DEF MemoryTyped, CallsTyped, Permitted, At, Fault, NoFault, Deleted, DeletionFailed
  <1>5. Releasing'
    <2>1. op[s].pc # "release" /\ lease' = lease
      BY DEF At, memory
    <2>2. \A t \in Stores \ {s} : op'[t] = op[t]
      BY DEF CallsTyped, Deleted, DeletionFailed
    <2> QED BY <2>1, <2>2, ReleasingKept
  <1>6. Unleased'
    BY DEF FilesTyped, MemoryTyped, CallsTyped, Permitted, Unleased, At, Fault, NoFault,
           Deleted, DeletionFailed, stages, memory
  <1> QED BY <1>1, <1>2, <1>3, <1>4, <1>5, <1>6

\* TearDir keeps the invariant.
LEMMA TearDirKeeps ==
  ASSUME IInv, NEW s \in Stores, NEW i \in Ids, TearDir(s, i)
  PROVE  IInv'
  <1> USE IdsAssumption, BoundsAssumption DEF IInv, StoreTyped, Moved, Publishing, UnderPermit, TearDir
  <1>1. MemoryTyped' /\ CallsTyped' /\ Permitted' /\ Releasing' /\ LeaseCounts' /\ Unleased'
    BY DEF MemoryTyped, CallsTyped, Permitted, Releasing, LeaseCounts, Unleased, Refs, At,
           stages, memory
  <1>2. FilesTyped'
    BY DEF FilesTyped, CallsTyped, Permitted, At, SetDir, DirStates
  <1>3. DisksTyped'
    BY DEF FilesTyped, DisksTyped, CallsTyped, Permitted, At, SetDir, DirStates
  <1>4. LeasedAvailable'
    BY DEF FilesTyped, MemoryTyped, CallsTyped, Permitted, LeasedAvailable, At, SetDir, stages,
           memory
  <1> QED BY <1>1, <1>2, <1>3, <1>4

\* DeleteDir keeps the invariant.
LEMMA DeleteDirKeeps ==
  ASSUME IInv, NEW s \in Stores, NEW i \in Ids, DeleteDir(s, i)
  PROVE  IInv'
  <1> USE IdsAssumption, BoundsAssumption DEF IInv, StoreTyped, Moved, Publishing, UnderPermit, DeleteDir
  <1>1. MemoryTyped' /\ LeaseCounts'
    BY DEF MemoryTyped, LeaseCounts, Refs, stages, memory
  <1>2. FilesTyped'
    BY DEF FilesTyped, CallsTyped, Permitted, At, Fault, NoFault, SetDir, Deleted,
           DeletionFailed, DirStates
  <1>3. DisksTyped'
    BY DEF FilesTyped, DisksTyped, MemoryTyped, CallsTyped, Permitted, At, Fault, NoFault,
           Idle, FreeLease, SetDir, Deleted, DeletionFailed, Steps, DirStates, Resources,
           files, stages, memory
  <1>4. CallsTyped'
    <2>1. (op[s].todo \ {<<i, "dir">>}) \cup {<<i, "meta">>} \in SUBSET (Ids \X Resources)
      BY DEF CallsTyped, Resources
    <2>2. PICK todo \in SUBSET (Ids \X Resources) :
            \/ op' = [op EXCEPT ![s].todo = todo]
            \/ op' = [op EXCEPT ![s].todo = todo, ![s].clean = FALSE]
      BY <2>1 DEF Deleted, DeletionFailed, CallsTyped
    <2> QED BY <2>2 DEF CallsTyped, Fault, NoFault
  <1>5. Permitted'
    BY DEF MemoryTyped, CallsTyped, Permitted, At, Fault, NoFault, Deleted, DeletionFailed
  <1>6. Releasing'
    <2>1. op[s].pc # "release" /\ lease' = lease
      BY DEF At, memory
    <2>2. \A t \in Stores \ {s} : op'[t] = op[t]
      BY DEF CallsTyped, Deleted, DeletionFailed
    <2> QED BY <2>1, <2>2, ReleasingKept
  <1>7. LeasedAvailable'
    <2>1. \A l \in Leases : lease[l].state # "free" => lease[l].id # i
      BY NoReference DEF Unleased, At
    <2>2. \A j \in Ids \ {i} : dir'[j] = dir[j]
      BY DEF SetDir, FilesTyped
    <2>3. \A l \in Leases : lease[l].state # "free" => lease[l].id \in Ids
      BY DEF MemoryTyped, FreeLease
    <2> QED BY <2>1, <2>2, <2>3 DEF LeasedAvailable, memory
  <1>8. Unleased'
    BY DEF FilesTyped, MemoryTyped, CallsTyped, Permitted, Unleased, At, Fault, NoFault,
           Deleted, DeletionFailed, stages, memory
  <1> QED BY <1>1, <1>2, <1>3, <1>4, <1>5, <1>6, <1>7, <1>8

\* DeleteMeta keeps the invariant.
LEMMA DeleteMetaKeeps ==
  ASSUME IInv, NEW s \in Stores, NEW i \in Ids, DeleteMeta(s, i)
  PROVE  IInv'
  <1> USE IdsAssumption, BoundsAssumption DEF IInv, StoreTyped, Moved, Publishing, UnderPermit
  <1>1. /\ op[s].pc = "delete" /\ <<i, "meta">> \in op[s].todo
        /\ \/ NoFault /\ op' = [op EXCEPT ![s].todo = (@ \ {<<i, "meta">>}) \cup {}]
           \/ Fault /\ op' = [op EXCEPT ![s].todo = @ \ {<<i, "meta">>}, ![s].clean = FALSE]
    BY DEF DeleteMeta, At, Deleted, DeletionFailed
  <1>2. faults' \in 0 .. MaxFaults
    BY <1>1 DEF Fault, NoFault, CallsTyped
  <1>3. SetMeta(i, FALSE) \/ UNCHANGED <<meta, metaDisk>>
    BY DEF DeleteMeta
  <1>4. UNCHANGED <<dir, catalog, active, dirDisk, activeDisk, roots, staging, refs, lease, holder>>
    BY DEF DeleteMeta, stages, memory
  <1>5. /\ meta' \in [Ids -> BOOLEAN] /\ metaDisk' \in [Ids -> SUBSET BOOLEAN]
        /\ \A j \in Ids \ {i} : meta'[j] <=> meta[j]
    BY <1>3, SetMetaTyped DEF FilesTyped, DisksTyped
  <1>6. refs[i] = 0
    BY <1>1 DEF Unleased
  <1>7. \A l \in Leases : lease[l].state # "free" => lease[l].id \in Ids \ {i}
    BY <1>6, NoReference DEF MemoryTyped, FreeLease
  <1>8. /\ op'[s].pc = "delete" /\ op'[s].id = op[s].id /\ op'[s].todo \subseteq op[s].todo
        /\ \A t \in Stores \ {s} : op'[t] = op[t]
    BY <1>1 DEF CallsTyped
  <1>9. FilesTyped' /\ DisksTyped'
    BY <1>4, <1>5 DEF FilesTyped, DisksTyped
  <1>10. MemoryTyped'
    BY <1>4 DEF MemoryTyped
  <1>11. CallsTyped'
    BY <1>1, <1>2, <1>4 DEF CallsTyped
  <1>12. Permitted'
    BY <1>1, <1>4, <1>8 DEF Permitted
  <1>13. Releasing'
    BY <1>1, <1>4, <1>8 DEF Releasing, At, MemoryTyped, FreeLease
  <1>14. LeaseCounts'
    BY <1>4 DEF LeaseCounts, Refs
  <1>15. LeasedAvailable'
    BY <1>4, <1>5, <1>7 DEF LeasedAvailable
  <1>16. Unleased'
    BY <1>1, <1>4, <1>8 DEF Unleased
  <1> QED BY <1>9, <1>10, <1>11, <1>12, <1>13, <1>14, <1>15, <1>16

\* EndCleanup keeps the invariant.
LEMMA EndCleanupKeeps ==
  ASSUME IInv, NEW s \in Stores, EndCleanup(s)
  PROVE  IInv'
  <1> USE IdsAssumption, BoundsAssumption DEF IInv, StoreTyped, Moved, Publishing, UnderPermit, EndCleanup
  <1>1. FilesTyped' /\ DisksTyped' /\ MemoryTyped' /\ LeaseCounts' /\ LeasedAvailable'
    BY DEF FilesTyped, DisksTyped, MemoryTyped, LeaseCounts, LeasedAvailable, Refs, files,
           stages, memory
  <1>2. CallsTyped'
    BY DEF MemoryTyped, CallsTyped, At, Idle, EndRetention, Steps, Resources
  <1>3. Permitted'
    BY DEF MemoryTyped, CallsTyped, Permitted, At, Idle, EndRetention
  <1>4. Releasing'
    BY DEF MemoryTyped, CallsTyped, Permitted, Releasing, At, Idle, EndRetention, memory
  <1>5. Unleased'
    BY DEF FilesTyped, MemoryTyped, CallsTyped, Permitted, Unleased, At, Idle, EndRetention,
           files, stages, memory
  <1> QED BY <1>1, <1>2, <1>3, <1>4, <1>5

\* Crash keeps the invariant.
LEMMA CrashKeeps ==
  ASSUME IInv, Crash
  PROVE  IInv'
  <1> USE IdsAssumption, BoundsAssumption DEF IInv, StoreTyped, Moved, Publishing, UnderPermit, Crash
  <1>1. FilesTyped' /\ DisksTyped'
    BY DEF FilesTyped, DisksTyped, files
  <1>2. MemoryTyped'
    BY DEF FilesTyped, MemoryTyped, CallsTyped, Fault, Idle, FreeLease, ForgetMemory
  <1>3. CallsTyped'
    BY DEF MemoryTyped, CallsTyped, Fault, Idle, FreeLease, ForgetMemory, Steps, Resources
  <1>4. Permitted'
    BY DEF MemoryTyped, CallsTyped, Permitted, Fault, Idle, FreeLease, ForgetMemory
  <1>5. Releasing'
    BY DEF MemoryTyped, CallsTyped, Permitted, Releasing, Fault, Idle, FreeLease, ForgetMemory
  <1>6. LeaseCounts'
    <2>1. \A j \in Ids : Refs(j)' = {}
      BY DEF Refs, ForgetMemory, FreeLease
    <2>2. \A j \in Ids : refs'[j] = 0
      BY DEF ForgetMemory
    <2> QED BY <2>1, <2>2, FS_EmptySet DEF LeaseCounts
  <1>7. LeasedAvailable'
    BY DEF FilesTyped, MemoryTyped, CallsTyped, Permitted, LeasedAvailable, Fault, Idle,
           FreeLease, ForgetMemory, files
  <1>8. Unleased'
    BY DEF FilesTyped, MemoryTyped, CallsTyped, Permitted, Unleased, Fault, Idle, FreeLease,
           ForgetMemory, files
  <1> QED BY <1>1, <1>2, <1>3, <1>4, <1>5, <1>6, <1>7, <1>8

\* PowerLoss keeps the invariant.
LEMMA PowerLossKeeps ==
  ASSUME IInv, PowerLoss
  PROVE  IInv'
  <1> USE IdsAssumption, BoundsAssumption DEF IInv, StoreTyped, Moved, Publishing, UnderPermit, PowerLoss
  <1>1. FilesTyped'
    <2>1. dir' \in [Ids -> DirStates] /\ meta' \in [Ids -> BOOLEAN] /\ catalog' \subseteq Ids
      BY DEF FilesTyped, DirStates
    <2>2. active' \in Ids \cup {None}
      BY DEF DisksTyped
    <2> QED BY <2>1, <2>2 DEF FilesTyped
  <1>2. DisksTyped'
    BY <1>1 DEF FilesTyped, DisksTyped
  <1>3. MemoryTyped'
    BY DEF FilesTyped, MemoryTyped, CallsTyped, Fault, Idle, FreeLease, ForgetMemory
  <1>4. CallsTyped'
    BY DEF MemoryTyped, CallsTyped, Fault, Idle, FreeLease, ForgetMemory, Steps, Resources
  <1>5. Permitted'
    BY DEF MemoryTyped, CallsTyped, Permitted, Fault, Idle, FreeLease, ForgetMemory
  <1>6. Releasing'
    BY DEF MemoryTyped, CallsTyped, Permitted, Releasing, Fault, Idle, FreeLease, ForgetMemory
  <1>7. LeaseCounts'
    <2>1. \A j \in Ids : Refs(j)' = {}
      BY DEF Refs, ForgetMemory, FreeLease
    <2>2. \A j \in Ids : refs'[j] = 0
      BY DEF ForgetMemory
    <2> QED BY <2>1, <2>2, FS_EmptySet DEF LeaseCounts
  <1>8. LeasedAvailable'
    BY DEF FilesTyped, MemoryTyped, CallsTyped, Permitted, LeasedAvailable, Fault, Idle,
           FreeLease, ForgetMemory, DirStates
  <1>9. Unleased'
    BY DEF FilesTyped, MemoryTyped, CallsTyped, Permitted, Unleased, Fault, Idle, FreeLease,
           ForgetMemory
  <1> QED BY <1>1, <1>2, <1>3, <1>4, <1>5, <1>6, <1>7, <1>8, <1>9

-----------------------------------------------------------------------------
(* The invariant *)

\* Initially there is nothing.
LEMMA InitInv == Init => IInv
  <1> SUFFICES ASSUME Init PROVE IInv
    OBVIOUS
  <1>1. StoreTyped
    BY IdsAssumption, BoundsAssumption
       DEF Init, StoreTyped, FilesTyped, DisksTyped, MemoryTyped, CallsTyped, DirStates, Steps, Idle
  <1>2. Permitted /\ Unleased
    BY IdsAssumption DEF Init, Permitted, Unleased, Moved, Publishing, UnderPermit, Idle
  <1>3. Releasing /\ LeasedAvailable
    BY DEF Init, Releasing, LeasedAvailable, FreeLease
  <1>4. LeaseCounts
    <2>1. \A i \in Ids : Refs(i) = {} /\ refs[i] = 0
      BY DEF Init, Refs, FreeLease
    <2> QED BY <2>1, FS_EmptySet DEF LeaseCounts
  <1> QED BY <1>1, <1>2, <1>3, <1>4 DEF IInv

\* Every step keeps the invariant.
LEMMA NextInv == IInv /\ [Next]_vars => IInv'
  <1> SUFFICES ASSUME IInv, [Next]_vars PROVE IInv'
    OBVIOUS
  <1>1. ASSUME NEW s \in Stores, Call(s) PROVE IInv'
    BY <1>1, CreateStagingKeeps, CloseStagingKeeps, BeginPublishKeeps, RecoverStagingKeeps,
       BeginCleanupKeeps, AcquireActiveKeeps, AcquireKeeps DEF Call
  <1>2. ASSUME NEW s \in Stores, StoreStep(s) PROVE IInv'
    BY <1>2, VerifyKeeps, TakeKeeps, SyncEpochsKeeps, ActivateKeeps, RecordKeeps, RecordSyncKeeps,
       CommitKeeps, CommitSyncKeeps, UndoDirKeeps, UndoMetaKeeps, UndoCatalogKeeps,
       EndRollbackKeeps, DropKeeps, SelectVictimsKeeps, EndCleanupKeeps, DeleteCatalogKeeps,
       DeleteDirKeeps, DeleteMetaKeeps, EndRecoveryKeeps, RemoveRootKeeps DEF StoreStep
  <1>3. ASSUME NEW s \in Stores, (\E i \in Ids : TearDir(s, i)) \/ \E r \in sweep[s] : TearRoot(s, r)
        PROVE  IInv'
    BY <1>3, TearDirKeeps, TearRootKeeps
  <1>4. ASSUME NEW l \in Leases, CloseLease(l) \/ BeginRelease(l) \/ Release(l) PROVE IInv'
    BY <1>4, CloseLeaseKeeps, BeginReleaseKeeps, ReleaseKeeps
  <1>5. CASE Crash \/ PowerLoss
    BY <1>5, CrashKeeps, PowerLossKeeps
  <1>6. CASE UNCHANGED vars
    BY <1>6 DEF vars, files, stages, memory, IInv, StoreTyped, FilesTyped, DisksTyped, MemoryTyped,
                CallsTyped, Permitted, Releasing, At, LeaseCounts, Refs, LeasedAvailable, Unleased
  <1> QED BY <1>1, <1>2, <1>3, <1>4, <1>5, <1>6 DEF Next

LEMMA Invariance == Spec => []IInv
  BY InitInv, NextInv, PTL DEF Spec

-----------------------------------------------------------------------------
(* The properties *)

\* What recoverStaging removes are staging roots, and a power failure takes no
\* more than an epoch with it.
LEMMA RecoveryStep == IInv /\ RecoveryTyped /\ [Next]_vars => RecoveryTyped'
  <1> SUFFICES ASSUME IInv, RecoveryTyped, [Next]_vars PROVE RecoveryTyped'
    OBVIOUS
  <1> USE DEF RecoveryTyped
  <1>1. roots \subseteq Stores \X Ids /\ active \in Ids \cup {None}
    BY DEF IInv, StoreTyped, MemoryTyped, FilesTyped
  <1>2. ASSUME NEW r, Gone(r)
        PROVE  gnawed' \subseteq Stores \X Ids /\ sweep' \in [Stores -> SUBSET (Stores \X Ids)]
    BY <1>2 DEF Gone
  <1>3. ASSUME NEW s \in Stores, Call(s) PROVE RecoveryTyped'
    <2>1. CASE \E i \in Ids : CloseStaging(s, i)
      BY <1>2, <2>1 DEF CloseStaging
    <2>2. CASE RecoverStaging(s)
      BY <1>1, <2>2 DEF RecoverStaging
    <2>3. CASE \E i \in Ids : CreateStaging(s, i) \/ BeginPublish(s, i)
      BY <2>3 DEF CreateStaging, BeginPublish
    <2>4. CASE BeginCleanup(s) \/ \E l \in Leases : AcquireActive(s, l) \/ \E i \in Ids : Acquire(s, l, i)
      BY <2>4 DEF BeginCleanup, AcquireActive, Acquire, Grant, stages
    <2> QED BY <1>3, <2>1, <2>2, <2>3, <2>4 DEF Call
  <1>4. ASSUME NEW s \in Stores, StoreStep(s) PROVE RecoveryTyped'
    <2>1. CASE Take(s)
      BY <1>2, <2>1 DEF Take, FailUnmoved
    <2>2. CASE CommitSync(s)
      BY <2>2 DEF CommitSync
    <2>3. CASE Drop(s)
      BY <1>2, <2>3 DEF Drop
    <2>4. ASSUME NEW r \in sweep[s], RemoveRoot(s, r) PROVE RecoveryTyped'
      <3>1. UNCHANGED <<rooted, lost>>
        BY <2>4 DEF RemoveRoot
      <3>2. CASE Gone(r)
        BY <1>2, <3>1, <3>2
      <3>3. CASE sweep' = [sweep EXCEPT ![s] = @ \ {r}] /\ UNCHANGED gnawed
        BY <3>1, <3>3
      <3> QED BY <2>4, <3>2, <3>3 DEF RemoveRoot
    <2>5. CASE \/ Verify(s) \/ SyncEpochs(s) \/ Activate(s) \/ Record(s) \/ RecordSync(s) \/ Commit(s)
               \/ UndoDir(s) \/ UndoMeta(s) \/ UndoCatalog(s)
      BY <2>5 DEF Verify, SyncEpochs, Activate, Record, RecordSync, Commit, UndoDir, UndoMeta, UndoCatalog,
                  stages
    <2>6. CASE \/ EndRollback(s) \/ SelectVictims(s) \/ EndCleanup(s) \/ EndRecovery(s)
               \/ \E i \in Ids : DeleteCatalog(s, i) \/ DeleteDir(s, i) \/ DeleteMeta(s, i)
      BY <2>6 DEF EndRollback, SelectVictims, EndCleanup, EndRecovery, DeleteCatalog, DeleteDir, DeleteMeta,
                  stages
    <2> QED BY <1>4, <2>1, <2>2, <2>3, <2>4, <2>5, <2>6 DEF StoreStep
  <1>5. ASSUME NEW s \in Stores, (\E i \in Ids : TearDir(s, i)) \/ \E r \in sweep[s] : TearRoot(s, r)
        PROVE  RecoveryTyped'
    BY <1>5 DEF TearDir, TearRoot, stages
  <1>6. ASSUME NEW l \in Leases, CloseLease(l) \/ BeginRelease(l) \/ Release(l) PROVE RecoveryTyped'
    BY <1>6 DEF CloseLease, BeginRelease, Release, stages
  <1>7. CASE Crash
    BY <1>7 DEF Crash, ForgetMemory
  <1>8. CASE PowerLoss
    <2>1. active' \in Ids \cup {None}
      BY <1>8 DEF PowerLoss, IInv, StoreTyped, DisksTyped
    <2> QED BY <1>8, <2>1 DEF PowerLoss, ForgetMemory
  <1>9. CASE UNCHANGED vars
    BY <1>9 DEF vars, stages
  <1> QED BY <1>3, <1>4, <1>5, <1>6, <1>7, <1>8, <1>9 DEF Next

\* The state keeps its types.
THEOREM TypeCorrect == Spec => []TypeOK
  <1>1. Init => RecoveryTyped
    BY DEF Init, RecoveryTyped
  <1>2. IInv /\ RecoveryTyped => TypeOK
    BY DEF IInv, StoreTyped, TypeOK
  <1> QED BY <1>1, <1>2, Invariance, RecoveryStep, PTL DEF Spec

\* The counters of the process and the references that callers hold never
\* disagree, through whichever store and whatever fails.
THEOREM CountsAgree == Spec => []LeaseCounts
  BY Invariance, PTL DEF IInv

\* No call that only begins touches a file.
LEMMA CallFiles == ASSUME NEW t \in Stores, Call(t) PROVE UNCHANGED files
  <1>1. ASSUME NEW i \in Ids, CreateStaging(t, i) \/ CloseStaging(t, i) \/ BeginPublish(t, i)
        PROVE  UNCHANGED files
    BY <1>1 DEF CreateStaging, CloseStaging, BeginPublish
  <1>2. CASE RecoverStaging(t) \/ BeginCleanup(t)
    BY <1>2 DEF RecoverStaging, BeginCleanup
  <1>3. ASSUME NEW l \in Leases, AcquireActive(t, l) \/ \E i \in Ids : Acquire(t, l, i)
        PROVE  UNCHANGED files
    BY <1>3 DEF AcquireActive, Acquire, Grant
  <1> QED BY <1>1, <1>2, <1>3 DEF Call

\* What a step leaves alone: the files of every epoch that is referred to,
\* unless the machine lost power and the references with it.
LEMMA ReferredUntouched ==
  ASSUME IInv, Next, NEW j \in Ids, refs[j] # 0
  PROVE  \/ \A l \in Leases : lease'[l].state = "free"
         \/ dir'[j] = dir[j] /\ meta'[j] = meta[j] /\ (j \in catalog <=> j \in catalog')
  <1> DEFINE Same == dir'[j] = dir[j] /\ meta'[j] = meta[j] /\ (j \in catalog <=> j \in catalog')
  <1> USE IdsAssumption DEF IInv, StoreTyped, At, Moved, Publishing
  <1>1. ASSUME NEW s \in Stores, Call(s) PROVE Same
    BY <1>1, CallFiles DEF files
  <1>2. ASSUME NEW s \in Stores, StoreStep(s) PROVE Same
    <2>1. CASE Take(s)
      <3>1. dir[op[s].id] = "absent" => op[s].id # j
        BY <2>1, NoReference DEF LeasedAvailable, Permitted, Take
      <3> QED BY <2>1, <3>1 DEF Take, SetDir, FailUnmoved, files, FilesTyped
    <2>2. CASE Activate(s)
      BY <2>2 DEF Activate, Unleased
    <2>3. CASE Record(s)
      <3>1. op[s].id # j
        BY <2>3 DEF Record, Unleased
      <3>2. meta' = [meta EXCEPT ![op[s].id] = TRUE] \/ meta' = meta
        BY <2>3 DEF Record, SetMeta
      <3> QED BY <2>3, <3>1, <3>2 DEF Record, FilesTyped
    <2>4. CASE UndoDir(s)
      BY <2>4 DEF UndoDir, SetDir, Unleased, FilesTyped
    <2>5. CASE UndoMeta(s)
      <3>1. op[s].id # j
        BY <2>5 DEF UndoMeta, Unleased
      <3>2. meta' = [meta EXCEPT ![op[s].id] = FALSE] \/ meta' = meta
        BY <2>5 DEF UndoMeta, SetMeta
      <3> QED BY <2>5, <3>1, <3>2 DEF UndoMeta, FilesTyped
    <2>6. CASE UndoCatalog(s)
      BY <2>6 DEF UndoCatalog, Unleased
    <2>7. CASE \E i \in Ids : DeleteCatalog(s, i)
      BY <2>7 DEF DeleteCatalog, Unleased
    <2>8. CASE \E i \in Ids : DeleteDir(s, i)
      BY <2>8 DEF DeleteDir, SetDir, Unleased, FilesTyped
    <2>9. ASSUME NEW i \in Ids, DeleteMeta(s, i) PROVE Same
      <3>1. i # j
        BY <2>9 DEF DeleteMeta, Unleased
      <3>2. meta' = [meta EXCEPT ![i] = FALSE] \/ meta' = meta
        BY <2>9 DEF DeleteMeta, SetMeta
      <3> QED BY <2>9, <3>1, <3>2 DEF DeleteMeta, FilesTyped
    <2>10. CASE Verify(s) \/ EndRollback(s) \/ Drop(s) \/ SelectVictims(s) \/ EndCleanup(s)
      BY <2>10 DEF Verify, EndRollback, Drop, SelectVictims, EndCleanup, files
    <2>11. CASE SyncEpochs(s) \/ RecordSync(s) \/ Commit(s) \/ CommitSync(s)
      BY <2>11 DEF SyncEpochs, RecordSync, Commit, CommitSync
    <2>12. CASE EndRecovery(s) \/ \E r \in sweep[s] : RemoveRoot(s, r)
      BY <2>12 DEF EndRecovery, RemoveRoot, files
    <2> QED BY <1>2, <2>12, <2>1, <2>2, <2>3, <2>4, <2>5, <2>6, <2>7, <2>8, <2>9, <2>10, <2>11 DEF StoreStep
  <1>3. ASSUME NEW s \in Stores, NEW i \in Ids, TearDir(s, i) PROVE Same
    BY <1>3 DEF TearDir, SetDir, Unleased, FilesTyped
  <1>4. ASSUME NEW l \in Leases, CloseLease(l) \/ BeginRelease(l) \/ Release(l) PROVE Same
    BY <1>4 DEF CloseLease, BeginRelease, Release, files
  <1>5. CASE Crash \/ PowerLoss
    BY <1>5 DEF Crash, PowerLoss, ForgetMemory, FreeLease
  <1>6. ASSUME NEW s \in Stores, NEW r \in sweep[s], TearRoot(s, r) PROVE Same
    BY <1>6 DEF TearRoot, files
  <1> QED BY <1>1, <1>2, <1>3, <1>4, <1>5, <1>6 DEF Next

\* While a reference is held, through whichever store, no publication, no
\* compensation and no retention pass touches what it refers to.
THEOREM ReferencesProtect == Spec => LeaseProtects
  <1> DEFINE A == \A l \in Leases :
                    LET i == lease[l].id IN
                    lease[l].state # "free" /\ lease'[l].state # "free" =>
                        /\ dir'[i] = dir[i] /\ meta'[i] = meta[i]
                        /\ i \in catalog <=> i \in catalog'
  <1>1. IInv /\ [Next]_vars => [A]_vars
    <2> SUFFICES ASSUME IInv, Next PROVE A
      OBVIOUS
    <2> SUFFICES ASSUME NEW l \in Leases, lease[l].state # "free", lease'[l].state # "free"
                 PROVE  /\ dir'[lease[l].id] = dir[lease[l].id] /\ meta'[lease[l].id] = meta[lease[l].id]
                        /\ lease[l].id \in catalog <=> lease[l].id \in catalog'
      OBVIOUS
    <2>1. lease[l].id \in Ids
      BY DEF IInv, StoreTyped, MemoryTyped, FreeLease
    <2>2. refs[lease[l].id] # 0
      BY <2>1, NoReference DEF IInv
    <2> QED BY <2>1, <2>2, ReferredUntouched
  <1> QED BY <1>1, Invariance, PTL DEF Spec, LeaseProtects

-----------------------------------------------------------------------------
(* The active epoch, as long as the machine keeps its power *)

\* No call that begins changes what was lost.
LEMMA CallKeepsLost ==
  ASSUME NEW s \in Stores, Call(s)
  PROVE  lost' = lost
  <1>1. ASSUME NEW i \in Ids, CreateStaging(s, i) \/ CloseStaging(s, i) \/ BeginPublish(s, i)
        PROVE  lost' = lost
    BY <1>1 DEF CreateStaging, CloseStaging, BeginPublish
  <1>2. CASE RecoverStaging(s) \/ BeginCleanup(s)
    BY <1>2 DEF RecoverStaging, BeginCleanup, stages
  <1>3. CASE \E l \in Leases : AcquireActive(s, l) \/ \E i \in Ids : Acquire(s, l, i)
    BY <1>3 DEF AcquireActive, Acquire, Grant, stages
  <1> QED BY <1>1, <1>2, <1>3 DEF Call

\* Only a power failure takes epochs with it, and the next publication that is
\* synced puts an end to that.
LEMMA LostStep ==
  ASSUME Next, ~PowerLoss
  PROVE  \/ lost' = lost
         \/ lost' = None /\ \E s \in Stores : CommitSync(s)
  <1>1. ASSUME NEW s \in Stores, Call(s) PROVE lost' = lost
    BY <1>1, CallKeepsLost
  <1>2. ASSUME NEW s \in Stores, StoreStep(s) 
        PROVE  lost' = lost \/ (lost' = None /\ CommitSync(s))
    <2>1. CASE Take(s) \/ Drop(s) \/ \E r \in sweep[s] : RemoveRoot(s, r)
      BY <2>1 DEF Take, Drop, RemoveRoot
    <2>2. CASE CommitSync(s)
      BY <2>2 DEF CommitSync
    <2>3. CASE \/ Verify(s) \/ SyncEpochs(s) \/ Activate(s) \/ Record(s) \/ RecordSync(s) \/ Commit(s)
               \/ UndoDir(s) \/ UndoMeta(s) \/ UndoCatalog(s)
      BY <2>3 DEF Verify, SyncEpochs, Activate, Record, RecordSync, Commit, UndoDir, UndoMeta, UndoCatalog,
                  stages
    <2>4. CASE \/ EndRollback(s) \/ SelectVictims(s) \/ EndCleanup(s) \/ EndRecovery(s)
               \/ \E i \in Ids : DeleteCatalog(s, i) \/ DeleteDir(s, i) \/ DeleteMeta(s, i)
      BY <2>4 DEF EndRollback, SelectVictims, EndCleanup, EndRecovery, DeleteCatalog, DeleteDir, DeleteMeta,
                  stages
    <2> QED BY <1>2, <2>1, <2>2, <2>3, <2>4 DEF StoreStep
  <1>3. ASSUME NEW s \in Stores, (\E i \in Ids : TearDir(s, i)) \/ \E r \in sweep[s] : TearRoot(s, r)
        PROVE  lost' = lost
    BY <1>3 DEF TearDir, TearRoot, stages
  <1>4. ASSUME NEW l \in Leases, CloseLease(l) \/ BeginRelease(l) \/ Release(l) PROVE lost' = lost
    BY <1>4 DEF CloseLease, BeginRelease, Release, stages
  <1>5. CASE Crash
    BY <1>5 DEF Crash
  <1> QED BY <1>1, <1>2, <1>3, <1>4, <1>5 DEF Next

\* What is being published is not active yet, and is complete as far as it got.
Unfinished ==
    \A s \in Stores :
        /\ op[s].pc \in Moved => active # op[s].id
        /\ op[s].pc \in Moved \ {"rollback"} => dir[op[s].id] \in Placed
        /\ op[s].pc \in {"recordSync", "commit"} => meta[op[s].id]

\* The active epoch has its metadata, and its directory is in place.
ActivePlaced == active # None => meta[active] /\ dir[active] \in Placed

ActiveInv == IInv /\ ActivePlaced /\ Unfinished /\ lost = None

\* Only one call has files in hand at a time.
LEMMA OneAtATime ==
  ASSUME IInv, NEW s \in Stores, NEW t \in Stores,
         op[s].pc \in UnderPermit, op[t].pc \in UnderPermit
  PROVE  s = t
  BY DEF IInv, Permitted

\* A step that touches neither directories, metadata nor the active epoch, and
\* takes a publication no further than it could check, keeps both.
Quiet ==
    /\ UNCHANGED <<dir, meta, active>>
    /\ \A t \in Stores :
         op'[t].pc \in Moved =>
             /\ op[t].pc \in Moved /\ op'[t].id = op[t].id
             /\ op'[t].pc # "rollback" => op[t].pc # "rollback"
             /\ op'[t].pc \in {"recordSync", "commit"} => op[t].pc \in {"recordSync", "commit"}

LEMMA QuietStep == ActiveInv /\ Quiet => ActivePlaced' /\ Unfinished'
  BY DEF ActiveInv, Quiet, ActivePlaced, Unfinished, Moved

\* Every step but a power failure keeps the active epoch readable.
LEMMA ActiveStep ==
  ASSUME ActiveInv, Next, ~PowerFailures
  PROVE  ActivePlaced' /\ Unfinished'
  <1> USE IdsAssumption DEF ActiveInv, IInv, StoreTyped, CallsTyped, At, Goto, Moved
  <1>1. ASSUME NEW s \in Stores, Call(s) PROVE Quiet
    <2>1. UNCHANGED files
      BY <1>1, CallFiles
    <2>2. \A t \in Stores : op'[t] = op[t] \/ op'[t].pc \in {"verify", "retain", "recover"}
      <3>1. ASSUME NEW i \in Ids, BeginPublish(s, i)
            PROVE  \A t \in Stores : op'[t] = op[t] \/ op'[t].pc = "verify"
        BY <3>1 DEF BeginPublish, Idle
      <3>2. CASE RecoverStaging(s) \/ BeginCleanup(s)
        BY <3>2 DEF RecoverStaging, BeginCleanup
      <3> QED BY <1>1, <3>1, <3>2 DEF Call, CreateStaging, CloseStaging, AcquireActive, Acquire, Grant
    <2> QED BY <2>1, <2>2 DEF files, Quiet
  <1>2. ASSUME NEW s \in Stores, StoreStep(s) PROVE ActivePlaced' /\ Unfinished'
    <2>1. CASE Verify(s) \/ EndRollback(s) \/ Drop(s) \/ SelectVictims(s) \/ EndCleanup(s)
      <3>1. Quiet
        BY <2>1 DEF Verify, EndRollback, Drop, SelectVictims, EndRetention, EndCleanup, files, Idle, Quiet
      <3> QED BY <3>1, QuietStep
    <2>2. CASE SyncEpochs(s) \/ Activate(s) \/ RecordSync(s) \/ CommitSync(s) \/ UndoCatalog(s)
      <3>1. CASE SyncEpochs(s) \/ Activate(s) 
        <4>1. Quiet
          BY <3>1 DEF SyncEpochs, Activate, BeginRollback, Quiet
        <4> QED BY <4>1, QuietStep
      <3>2. CASE RecordSync(s) \/ CommitSync(s) \/ UndoCatalog(s)
        <4>1. Quiet
          BY <3>2 DEF RecordSync, CommitSync, UndoCatalog, BeginRollback, Compensated,
                      CompensationFailed, Quiet
        <4> QED BY <4>1, QuietStep
      <3> QED BY <2>2, <3>1, <3>2
    <2>3. CASE \E i \in Ids : DeleteCatalog(s, i)
      <3>1. Quiet
        BY <2>3 DEF DeleteCatalog, Deleted, DeletionFailed, Quiet
      <3> QED BY <3>1, QuietStep
    <2>4. CASE Take(s)
      <3>1. op[s].pc = "take" /\ op[s].id \in Ids
        BY <2>4 DEF Take, Permitted, Publishing
      <3>2. \A t \in Stores \ {s} : op'[t] = op[t] /\ op[t].pc \notin Moved
        BY <2>4, <3>1, OneAtATime DEF Take, FailUnmoved, UnderPermit
      <3>3. CASE dir[op[s].id] = "absent" /\ (\E v \in Placed : dir' = [dir EXCEPT ![op[s].id] = v]) /\ op' = [op EXCEPT ![s].pc = "sync"]
        <4>1. op'[s].pc = "sync" /\ op'[s].id = op[s].id /\ dir'[op[s].id] \in Placed
          BY <3>1, <3>3 DEF SetDir, FilesTyped
        <4>2. active # op[s].id /\ UNCHANGED <<meta, active>>
          BY <2>4, <3>1, <3>3 DEF Take, ActivePlaced, FailUnmoved, files, Placed
        <4>3. active # None => dir'[active] \in Placed
          BY <3>1, <3>3, <4>2 DEF SetDir, FilesTyped, ActivePlaced
        <4> QED BY <3>2, <4>1, <4>2, <4>3 DEF ActivePlaced, Unfinished
      <3>4. CASE op' = [op EXCEPT ![s].pc = "drop"] /\ UNCHANGED files
        <4>1. Quiet
          BY <3>4 DEF Quiet, files
        <4> QED BY <4>1, QuietStep
      <3> QED BY <2>4, <3>3, <3>4 DEF Take, FailUnmoved, Placed, files
    <2>5. CASE Record(s)
      <3>1. /\ op[s].pc = "record"
            /\ \/ SetMeta(op[s].id, TRUE) /\ op' = [op EXCEPT ![s].pc = "recordSync"]
               \/ /\ UNCHANGED meta
                  /\ op' = [op EXCEPT ![s].pc = "rollback", ![s].todo = {op[s].id} \X Resources]
        BY <2>5 DEF Record, BeginRollback
      <3>2. op[s].id \in Ids
        BY <3>1 DEF Permitted, Publishing
      <3>3. \A t \in Stores \ {s} : op'[t] = op[t] /\ op[t].pc \notin Moved
        BY <3>1, OneAtATime DEF UnderPermit
      <3>4. UNCHANGED <<dir, active>>
        BY <2>5 DEF Record
      <3>5. CASE SetMeta(op[s].id, TRUE) /\ op' = [op EXCEPT ![s].pc = "recordSync"]
        <4>1. \A j \in Ids : meta[j] => meta'[j]
          <5>1. meta' = [meta EXCEPT ![op[s].id] = TRUE]
            BY <3>5 DEF SetMeta
          <5> QED BY <5>1 DEF FilesTyped
        <4>2. meta'[op[s].id]
          BY <3>2, <3>5, SetMetaTyped DEF FilesTyped, DisksTyped
        <4>3. op'[s].id = op[s].id /\ op'[s].pc = "recordSync"
          BY <3>5
        <4>4. ActivePlaced'
          <5>1. active # None => meta[active] /\ dir[active] \in Placed /\ active \in Ids
            BY DEF ActivePlaced, FilesTyped
          <5> QED BY <3>4, <4>1, <5>1 DEF ActivePlaced
        <4> QED BY <3>1, <3>3, <3>4, <4>2, <4>3, <4>4 DEF Unfinished
      <3>6. CASE UNCHANGED meta /\ op' = [op EXCEPT ![s].pc = "rollback", ![s].todo = {op[s].id} \X Resources]
        <4>1. Quiet
          BY <3>1, <3>4, <3>6 DEF Quiet
        <4> QED BY <4>1, QuietStep
      <3> QED BY <3>1, <3>5, <3>6
    <2>6. CASE Commit(s)
      <3>1. op[s].pc = "commit" /\ op[s].id \in Ids
        BY <2>6 DEF Commit, Permitted, Publishing
      <3>2. \A t \in Stores \ {s} : op'[t] = op[t] /\ op[t].pc \notin Moved
        BY <2>6, <3>1, OneAtATime DEF Commit, BeginRollback, UnderPermit
      <3>3. UNCHANGED <<dir, meta>>
        BY <2>6 DEF Commit
      <3>4. \/ op'[s].pc = "commitSync" /\ active' = op[s].id
            \/ op'[s].pc = "rollback" /\ op'[s].id = op[s].id /\ active' = active
        BY <2>6 DEF Commit, BeginRollback
      <3> QED BY <3>1, <3>2, <3>3, <3>4 DEF ActivePlaced, Unfinished
    <2>7. CASE UndoDir(s)
      <3>1. op[s].pc = "rollback" /\ op[s].id \in Ids /\ active # op[s].id
        BY <2>7 DEF UndoDir, Permitted, Publishing, Unfinished
      <3>2. \A t \in Stores \ {s} : op'[t] = op[t] /\ op[t].pc \notin Moved
        BY <2>7, <3>1, OneAtATime DEF UndoDir, Compensated, CompensationFailed, UnderPermit
      <3>3. op'[s].pc = "rollback" /\ op'[s].id = op[s].id /\ UNCHANGED <<meta, active>>
        BY <2>7, <3>1 DEF UndoDir, Compensated, CompensationFailed
      <3>4. \A j \in Ids \ {op[s].id} : dir'[j] = dir[j]
        BY <2>7, <3>1 DEF UndoDir, SetDir, FilesTyped
      <3> QED BY <3>1, <3>2, <3>3, <3>4 DEF ActivePlaced, Unfinished, FilesTyped
    <2>8. CASE UndoMeta(s)
      <3>1. op[s].pc = "rollback" /\ op[s].id \in Ids /\ active # op[s].id
        BY <2>8 DEF UndoMeta, Permitted, Publishing, Unfinished
      <3>2. \/ op' = [op EXCEPT ![s].todo = @ \ {<<op[s].id, "meta">>}]
            \/ op' = [op EXCEPT ![s].todo = @ \ {<<op[s].id, "meta">>}, ![s].clean = FALSE]
        BY <2>8 DEF UndoMeta, Compensated, CompensationFailed
      <3>3. \A t \in Stores \ {s} : op'[t] = op[t] /\ op[t].pc \notin Moved
        BY <3>1, <3>2, OneAtATime DEF UnderPermit
      <3>4. op'[s].pc = "rollback" /\ op'[s].id = op[s].id
        BY <3>1, <3>2
      <3>5. UNCHANGED <<dir, active>>
        BY <2>8 DEF UndoMeta
      <3>6. meta' = [meta EXCEPT ![op[s].id] = FALSE] \/ meta' = meta
        BY <2>8 DEF UndoMeta, SetMeta
      <3>7. \A j \in Ids \ {op[s].id} : meta'[j] <=> meta[j]
        BY <3>6 DEF FilesTyped
      <3> QED BY <3>1, <3>3, <3>4, <3>5, <3>7 DEF ActivePlaced, Unfinished, FilesTyped
    <2>9. ASSUME NEW i \in Ids, DeleteDir(s, i) PROVE ActivePlaced' /\ Unfinished'
      <3>1. op[s].pc = "delete" /\ op'[s].pc = "delete" /\ active # i
        BY <2>9 DEF DeleteDir, Deleted, DeletionFailed, Unleased
      <3>2. \A t \in Stores : op'[t].pc \notin Moved
        BY <2>9, <3>1, OneAtATime DEF DeleteDir, Deleted, DeletionFailed, UnderPermit
      <3>3. UNCHANGED <<meta, active>> /\ \A j \in Ids \ {i} : dir'[j] = dir[j]
        BY <2>9 DEF DeleteDir, SetDir, FilesTyped
      <3> QED BY <3>1, <3>2, <3>3 DEF ActivePlaced, Unfinished, FilesTyped
    <2>10. ASSUME NEW i \in Ids, DeleteMeta(s, i) PROVE ActivePlaced' /\ Unfinished'
      <3>1. /\ op[s].pc = "delete" /\ <<i, "meta">> \in op[s].todo
            /\ \/ op' = [op EXCEPT ![s].todo = (@ \ {<<i, "meta">>}) \cup {}]
               \/ op' = [op EXCEPT ![s].todo = @ \ {<<i, "meta">>}, ![s].clean = FALSE]
        BY <2>10 DEF DeleteMeta, Deleted, DeletionFailed
      <3>2. active # i
        BY <3>1 DEF Unleased
      <3>3. \A t \in Stores : op'[t].pc \notin Moved
        BY <3>1, OneAtATime DEF UnderPermit
      <3>4. UNCHANGED <<dir, active>>
        BY <2>10 DEF DeleteMeta
      <3>5. meta' = [meta EXCEPT ![i] = FALSE] \/ meta' = meta
        BY <2>10 DEF DeleteMeta, SetMeta
      <3>6. \A j \in Ids \ {i} : meta'[j] <=> meta[j]
        BY <3>5 DEF FilesTyped
      <3> QED BY <3>2, <3>3, <3>4, <3>6 DEF ActivePlaced, Unfinished, FilesTyped
    <2>11. CASE EndRecovery(s) \/ \E r \in sweep[s] : RemoveRoot(s, r)
      <3>1. Quiet
        BY <2>11 DEF EndRecovery, RemoveRoot, files, Idle, Quiet
      <3> QED BY <3>1, QuietStep
    <2> QED BY <1>2, <2>1, <2>2, <2>3, <2>4, <2>5, <2>6, <2>7, <2>8, <2>9, <2>10, <2>11 DEF StoreStep
  <1>3. ASSUME NEW s \in Stores, NEW i \in Ids, TearDir(s, i) PROVE ActivePlaced' /\ Unfinished'
    <2>1. op[s].pc = "delete" /\ active # i
      BY <1>3 DEF TearDir, Unleased
    <2>2. op' = op /\ \A t \in Stores : op[t].pc \notin Moved
      BY <1>3, <2>1, OneAtATime DEF TearDir, UnderPermit
    <2>3. UNCHANGED <<meta, active>> /\ \A j \in Ids \ {i} : dir'[j] = dir[j]
      BY <1>3 DEF TearDir, SetDir, FilesTyped
    <2> QED BY <2>1, <2>2, <2>3 DEF ActivePlaced, Unfinished, FilesTyped
  <1>4. ASSUME NEW l \in Leases, CloseLease(l) \/ BeginRelease(l) \/ Release(l) PROVE Quiet
    <2>1. lease[l].state # "free" => lease[l].store \in Stores
      BY DEF MemoryTyped, FreeLease
    <2> QED BY <1>4, <2>1 DEF CloseLease, BeginRelease, Release, files, FreeLease, Quiet
  <1>5. CASE Crash
    BY <1>5, QuietStep DEF Crash, ForgetMemory, files, Idle, Quiet
  <1>6. ~PowerLoss
    BY DEF PowerLoss
  <1>7. ASSUME NEW s \in Stores, NEW r \in sweep[s], TearRoot(s, r) PROVE Quiet
    BY <1>7 DEF TearRoot, files, Quiet
  <1> QED BY <1>1, <1>2, <1>3, <1>4, <1>5, <1>6, <1>7, QuietStep DEF Next

LEMMA ActiveInvariance == ASSUME ~PowerFailures PROVE Spec => []ActiveInv
  <1>1. Init => ActiveInv
    BY InitInv DEF Init, ActiveInv, ActivePlaced, Unfinished, Moved, Idle
  <1>2. ActiveInv /\ [Next]_vars => ActiveInv'
    <2>1. ActiveInv /\ UNCHANGED vars => ActiveInv'
      BY NextInv DEF ActiveInv, ActivePlaced, Unfinished, vars, files, stages
    <2>2. ActiveInv /\ Next => lost' = None
      BY LostStep DEF ActiveInv, PowerLoss
    <2> QED BY <2>1, <2>2, ActiveStep, NextInv DEF ActiveInv
  <1> QED BY <1>1, <1>2, PTL DEF Spec

\* Whatever I/O operation fails and wherever the process is killed, in any number
\* of publications, rollbacks, recoveries of staging roots and retention passes of
\* any number of stores, active-epoch.json names an epoch whose directory and
\* metadata are in place; nothing is ever lost with epochs.
THEOREM ActiveAlwaysReadable == ASSUME ~PowerFailures PROVE Spec => [](ActiveIntact /\ lost = None)
  <1>1. ActiveInv => ActiveIntact /\ lost = None
    BY DEF ActiveInv, ActivePlaced, ActiveIntact
  <1> QED BY <1>1, ActiveInvariance, PTL

-----------------------------------------------------------------------------
(* The catalogue *)

\* A step that leaves the active epoch, the references and every other epoch
\* alone adds or removes one epoch at most.
LEMMA OneChanged ==
  ASSUME StoreTyped, NEW i \in Ids, UNCHANGED <<active, refs>>,
         \A j \in Ids \ {i} : j \in Available <=> j \in Available',
         i \in Available /\ i \notin Available' => i # active /\ refs[i] = 0
  PROVE  [Catalog!Next]_(Catalog!vars)
  <1>1. Available \subseteq Ids /\ Available' \subseteq Ids
    BY DEF Available
  <1>2. CASE i \in Available <=> i \in Available'
    <2>1. Available' = Available
      BY <1>1, <1>2
    <2> QED BY <2>1 DEF Catalog!vars
  <1>3. CASE i \notin Available /\ i \in Available'
    <2>1. Available' = Available \cup {i}
      BY <1>1, <1>3
    <2>2. Catalog!Add(i)
      BY <1>3, <2>1 DEF Catalog!Add
    <2> QED BY <2>2 DEF Catalog!Next
  <1>4. CASE i \in Available /\ i \notin Available'
    <2>1. Available' = Available \ {i}
      BY <1>1, <1>4
    <2>2. i \notin {j \in Ids : refs[j] > 0}
      BY <1>4
    <2>3. Catalog!Remove(i)
      BY <1>4, <2>1, <2>2 DEF Catalog!Remove
    <2> QED BY <2>3 DEF Catalog!Next
  <1> QED BY <1>2, <1>3, <1>4

\* Every step but a power failure is a step of the catalogue, or none.
LEMMA CatalogStep ==
  ASSUME ActiveInv, Next, ~PowerFailures
  PROVE  [Catalog!Next]_(Catalog!vars)
  <1> USE IdsAssumption DEF ActiveInv, IInv, StoreTyped, At, Moved
  <1>0. ASSUME UNCHANGED <<dir, meta, active, refs>> PROVE [Catalog!Next]_(Catalog!vars)
    BY <1>0 DEF Catalog!vars, Available
  <1>1. ASSUME NEW s \in Stores, Call(s) PROVE [Catalog!Next]_(Catalog!vars)
    <2>1. ASSUME NEW l \in Leases, NEW i \in Ids, i \in Available, Grant(s, l, i)
          PROVE  [Catalog!Next]_(Catalog!vars)
      <3>1. UNCHANGED <<active, Available>>
        BY <2>1 DEF Grant, files, Available
      <3>2. {j \in Ids : refs'[j] > 0} = {j \in Ids : refs[j] > 0} \cup {i}
        BY <2>1 DEF Grant, MemoryTyped
      <3>3. Catalog!Lease(i)
        BY <2>1, <3>1, <3>2 DEF Catalog!Lease
      <3> QED BY <3>3 DEF Catalog!Next
    <2>2. ASSUME NEW l \in Leases, AcquireActive(s, l) PROVE [Catalog!Next]_(Catalog!vars)
      <3>1. active \in Ids /\ active \in Available
        BY <2>2 DEF AcquireActive, ReadableActive, FilesTyped, Available
      <3> QED BY <2>1, <2>2, <3>1 DEF AcquireActive
    <2>3. ASSUME NEW l \in Leases, NEW i \in Ids, Acquire(s, l, i) PROVE [Catalog!Next]_(Catalog!vars)
      BY <2>1, <2>3 DEF Acquire, Available
    <2>4. CASE RecoverStaging(s) \/ BeginCleanup(s)
      BY <1>0, <1>1, <2>4, CallFiles DEF RecoverStaging, BeginCleanup, files, memory
    <2>5. ASSUME NEW i \in Ids, CreateStaging(s, i) \/ CloseStaging(s, i) \/ BeginPublish(s, i)
          PROVE  [Catalog!Next]_(Catalog!vars)
      BY <1>0, <1>1, <2>5, CallFiles DEF CreateStaging, CloseStaging, BeginPublish, files, memory
    <2> QED BY <1>1, <2>2, <2>3, <2>4, <2>5 DEF Call
  <1>2. ASSUME NEW s \in Stores, StoreStep(s) PROVE [Catalog!Next]_(Catalog!vars)
    <2>1. CASE Verify(s) \/ EndRollback(s) \/ Drop(s) \/ SelectVictims(s) \/ EndCleanup(s)
      BY <1>0, <2>1 DEF Verify, EndRollback, Drop, SelectVictims, EndCleanup, files, memory
    <2>2. CASE SyncEpochs(s) \/ Activate(s) \/ RecordSync(s) \/ CommitSync(s) \/ UndoCatalog(s)
               \/ \E i \in Ids : DeleteCatalog(s, i)
      BY <1>0, <2>2 DEF SyncEpochs, Activate, RecordSync, CommitSync, UndoCatalog, DeleteCatalog, memory
    <2>3. CASE Take(s)
      <3>1. op[s].id \in Ids
        BY <2>3 DEF Take, Permitted, Publishing
      <3>2. CASE /\ dir[op[s].id] = "absent" /\ UNCHANGED <<meta, active>>
                 /\ \E v \in Placed : dir' = [dir EXCEPT ![op[s].id] = v]
        <4>1. \A j \in Ids \ {op[s].id} : j \in Available <=> j \in Available'
          BY <3>1, <3>2 DEF Available, FilesTyped
        <4>2. op[s].id \notin Available
          BY <3>2 DEF Available
        <4> QED BY <2>3, <3>1, <3>2, <4>1, <4>2, OneChanged DEF Take, memory
      <3> QED BY <1>0, <2>3, <3>2 DEF Take, FailUnmoved, files, memory, Placed
    <2>4. CASE Record(s)
      <3>1. /\ op[s].pc = "record"
            /\ SetMeta(op[s].id, TRUE) \/ UNCHANGED meta
            /\ UNCHANGED <<dir, active, refs>>
        BY <2>4 DEF Record, memory
      <3>2. op[s].id \in Ids
        BY <3>1 DEF Permitted, Publishing
      <3>3. meta' = [meta EXCEPT ![op[s].id] = TRUE] \/ meta' = meta
        BY <3>1 DEF SetMeta
      <3>4. \A j \in Ids \ {op[s].id} : j \in Available <=> j \in Available'
        BY <3>1, <3>3 DEF Available, FilesTyped
      <3>5. op[s].id \in Available => op[s].id \in Available'
        BY <3>1, <3>2, <3>3 DEF Available, FilesTyped
      <3> QED BY <3>1, <3>2, <3>4, <3>5, OneChanged
    <2>5. CASE Commit(s)
      <3>1. op[s].id \in Available
        BY <2>5 DEF Commit, Unfinished, Permitted, Publishing, Available, Placed
      <3>2. UNCHANGED <<Available, refs>>
        BY <2>5 DEF Commit, Available, memory
      <3>3. CASE active' = op[s].id
        <4>1. Catalog!Activate(op[s].id)
          BY <3>1, <3>2, <3>3 DEF Catalog!Activate
        <4> QED BY <3>1, <4>1 DEF Catalog!Next, Available
      <3>4. CASE active' = active
        BY <3>2, <3>4 DEF Catalog!vars
      <3> QED BY <2>5, <3>3, <3>4 DEF Commit
    <2>6. CASE UndoDir(s)
      <3>1. op[s].id \in Ids /\ active # op[s].id /\ refs[op[s].id] = 0
        BY <2>6 DEF UndoDir, Permitted, Publishing, Unfinished, Unleased
      <3>2. UNCHANGED <<meta, active, refs>> /\ \A j \in Ids \ {op[s].id} : dir'[j] = dir[j]
        BY <2>6 DEF UndoDir, SetDir, FilesTyped, memory
      <3>3. \A j \in Ids \ {op[s].id} : j \in Available <=> j \in Available'
        BY <3>2 DEF Available
      <3> QED BY <3>1, <3>2, <3>3, OneChanged
    <2>7. CASE UndoMeta(s)
      <3>1. op[s].id \in Ids /\ active # op[s].id /\ refs[op[s].id] = 0
        BY <2>7 DEF UndoMeta, Permitted, Publishing, Unfinished, Unleased
      <3>2. UNCHANGED <<dir, active, refs>>
        BY <2>7 DEF UndoMeta, memory
      <3>3. meta' = [meta EXCEPT ![op[s].id] = FALSE] \/ meta' = meta
        BY <2>7 DEF UndoMeta, SetMeta
      <3>4. \A j \in Ids \ {op[s].id} : j \in Available <=> j \in Available'
        BY <3>2, <3>3 DEF Available, FilesTyped
      <3> QED BY <3>1, <3>2, <3>4, OneChanged
    <2>8. ASSUME NEW i \in Ids, DeleteDir(s, i) PROVE [Catalog!Next]_(Catalog!vars)
      <3>1. active # i /\ refs[i] = 0
        BY <2>8 DEF DeleteDir, Unleased
      <3>2. UNCHANGED <<meta, active, refs>> /\ \A j \in Ids \ {i} : dir'[j] = dir[j]
        BY <2>8 DEF DeleteDir, SetDir, FilesTyped, memory
      <3>3. \A j \in Ids \ {i} : j \in Available <=> j \in Available'
        BY <3>2 DEF Available
      <3> QED BY <3>1, <3>2, <3>3, OneChanged
    <2>9. ASSUME NEW i \in Ids, DeleteMeta(s, i) PROVE [Catalog!Next]_(Catalog!vars)
      <3>1. active # i /\ refs[i] = 0
        BY <2>9 DEF DeleteMeta, Unleased
      <3>2. UNCHANGED <<dir, active, refs>>
        BY <2>9 DEF DeleteMeta, memory
      <3>3. meta' = [meta EXCEPT ![i] = FALSE] \/ meta' = meta
        BY <2>9 DEF DeleteMeta, SetMeta
      <3>4. \A j \in Ids \ {i} : j \in Available <=> j \in Available'
        BY <3>2, <3>3 DEF Available, FilesTyped
      <3> QED BY <3>1, <3>2, <3>4, OneChanged
    <2>10. CASE EndRecovery(s) \/ \E r \in sweep[s] : RemoveRoot(s, r)
      BY <1>0, <2>10 DEF EndRecovery, RemoveRoot, files, memory
    <2> QED BY <1>2, <2>1, <2>2, <2>3, <2>4, <2>5, <2>6, <2>7, <2>8, <2>9, <2>10 DEF StoreStep
  <1>3. ASSUME NEW s \in Stores, NEW i \in Ids, TearDir(s, i) PROVE [Catalog!Next]_(Catalog!vars)
    <2>1. UNCHANGED <<meta, active, refs>> /\ \A j \in Ids : dir[j] # "absent" <=> dir'[j] # "absent"
      BY <1>3 DEF TearDir, SetDir, FilesTyped, memory, Placed
    <2>2. UNCHANGED Available
      BY <2>1 DEF Available
    <2> QED BY <2>1, <2>2 DEF Catalog!vars
  <1>4. ASSUME NEW l \in Leases, CloseLease(l) \/ BeginRelease(l) PROVE [Catalog!Next]_(Catalog!vars)
    BY <1>0, <1>4 DEF CloseLease, BeginRelease, files
  <1>5. ASSUME NEW l \in Leases, Release(l) PROVE [Catalog!Next]_(Catalog!vars)
    <2>1. UNCHANGED <<active, Available>>
      BY <1>5 DEF Release, files, Available
    <2>2. PICK i \in Ids : i = lease[l].id
      <3>1. lease[l].state # "free" => lease[l].id \in Ids
        BY DEF MemoryTyped, FreeLease
      <3> QED BY <1>5, <3>1 DEF Release
    <2>3. refs[i] # 0
      BY <1>5, <2>2, NoReference DEF Release
    <2>4. refs \in [Ids -> Nat] /\ refs[i] > 0
      BY <2>2, <2>3 DEF MemoryTyped
    <2>5. CASE refs' = [refs EXCEPT ![i] = 0]
      <3>1. {j \in Ids : refs'[j] > 0} = {j \in Ids : refs[j] > 0} \ {i}
        BY <2>4, <2>5
      <3>2. Catalog!Return(i)
        BY <2>1, <2>4, <3>1 DEF Catalog!Return
      <3> QED BY <3>2 DEF Catalog!Next
    <2>6. CASE refs[i] # 1 /\ refs' = [refs EXCEPT ![i] = IF @ > 1 THEN @ - 1 ELSE @]
      <3>1. \A j \in Ids : refs'[j] > 0 <=> refs[j] > 0
        BY <2>4, <2>6
      <3>2. {j \in Ids : refs'[j] > 0} = {j \in Ids : refs[j] > 0}
        BY <3>1
      <3> QED BY <2>1, <3>2 DEF Catalog!vars
    <2> QED BY <1>5, <2>2, <2>5, <2>6 DEF Release
  <1>6. CASE Crash
    <2>1. UNCHANGED <<active, Available>>
      BY <1>6 DEF Crash, files, Available
    <2>2. {j \in Ids : refs'[j] > 0} = {}
      BY <1>6 DEF Crash, ForgetMemory
    <2>3. Catalog!Restart
      BY <2>1, <2>2 DEF Catalog!Restart
    <2> QED BY <2>3 DEF Catalog!Next
  <1>7. ~PowerLoss
    BY DEF PowerLoss
  <1>8. ASSUME NEW s \in Stores, NEW r \in sweep[s], TearRoot(s, r) PROVE [Catalog!Next]_(Catalog!vars)
    BY <1>0, <1>8 DEF TearRoot, files, memory
  <1> QED BY <1>1, <1>2, <1>3, <1>4, <1>5, <1>6, <1>7, <1>8 DEF Next

\* As long as the machine keeps its power, the store implements the catalogue:
\* an epoch that is active or referred to stays available, a lease is granted
\* only for an available epoch, and a kill forgets the leases and nothing else.
THEOREM StoreImplementsCatalog == ASSUME ~PowerFailures PROVE Spec => ImplementsCatalog
  <1>1. Init => Catalog!Init
    <2> SUFFICES ASSUME Init PROVE Catalog!Init
      OBVIOUS
    <2>1. Available = {} /\ {i \in Ids : refs[i] > 0} = {}
      BY DEF Init, Available
    <2> QED BY <2>1 DEF Init, Catalog!Init
  <1>2. ActiveInv /\ [Next]_vars => [Catalog!Next]_(Catalog!vars)
    <2>1. UNCHANGED vars => UNCHANGED Catalog!vars
      BY DEF vars, files, memory, Catalog!vars, Available
    <2> QED BY <2>1, CatalogStep
  <1> QED BY <1>1, <1>2, ActiveInvariance, PTL DEF Spec, ImplementsCatalog, Catalog!Spec
-----------------------------------------------------------------------------
(* Counting epochs *)

\* A set of numbers has a least one.
LEMMA LeastNumber ==
  ASSUME NEW S \in SUBSET Nat, S # {}
  PROVE  \E x \in S : \A y \in S : x <= y
  <1> DEFINE R == {p \in Nat \X Nat : p[1] < p[2]}
  <1>1. IsWellFoundedOn(R, Nat)
    BY NatLessThanWellFounded DEF OpToRel
  <1>2. \E x \in S : \A y \in S : ~(<<y, x>> \in R)
    <2> HIDE DEF R
    <2> QED BY <1>1, WFMin
  <1>3. ASSUME NEW x \in S, NEW y \in S, ~(<<y, x>> \in R)
        PROVE  x <= y
    <2>1. <<y, x>> \in Nat \X Nat /\ <<y, x>>[1] = y /\ <<y, x>>[2] = x
      OBVIOUS
    <2> QED BY <1>3, <2>1
  <1> QED BY <1>2, <1>3

\* There are fewer epochs newer than a newer one.
LEMMA FewerNewer ==
  ASSUME NEW U \in SUBSET Int, IsFiniteSet(U), NEW m \in Int, NEW v \in U, v > m
  PROVE  /\ Cardinality({j \in U : j > v}) \in Nat /\ Cardinality({j \in U : j > m}) \in Nat
         /\ Cardinality({j \in U : j > v}) < Cardinality({j \in U : j > m})
  <1> DEFINE A == {j \in U : j > v}
             B == {j \in U : j > m}
  <1>1. /\ IsFiniteSet(A) /\ Cardinality(A) \in Nat
        /\ IsFiniteSet(B) /\ Cardinality(B) \in Nat
    <2>1. A \in SUBSET U /\ B \in SUBSET U
      OBVIOUS
    <2> HIDE DEF A, B
    <2> QED BY <2>1, FS_Subset, FS_CardinalityType
  <1>2. A \cup {v} \in SUBSET B /\ v \notin A
    <2>1. v \in Int /\ \A j \in U : j \in Int /\ (j > v => j > m)
      OBVIOUS
    <2>2. v \notin A
      BY <2>1
    <2>3. v \in B
      OBVIOUS
    <2>4. A \subseteq B
      BY <2>1, Zenon
    <2> QED BY <2>2, <2>3, <2>4
  <1> HIDE DEF A, B
  <1>3. Cardinality(A \cup {v}) = Cardinality(A) + 1
    BY <1>1, <1>2, FS_AddElement
  <1>4. Cardinality(A \cup {v}) <= Cardinality(B)
    BY <1>1, <1>2, FS_Subset
  <1>5. Cardinality(A) < Cardinality(B)
    BY <1>1, <1>3, <1>4
  <1> QED BY <1>1, <1>5 DEF A, B

\* Of some of finitely many epochs one is the newest.
LEMMA Newest ==
  ASSUME NEW U \in SUBSET Int, IsFiniteSet(U), NEW V \in SUBSET U, V # {}
  PROVE  \E m \in V : \A v \in V : ~(v > m)
  <1> DEFINE Count(m) == Cardinality({j \in U : j > m})
             S == {Count(m) : m \in V}
  <1>1. \A m \in V : Count(m) \in Nat
    <2>1. ASSUME NEW m \in V PROVE Count(m) \in Nat
      <3>1. {j \in U : j > m} \in SUBSET U
        OBVIOUS
      <3> QED BY <3>1, FS_Subset, FS_CardinalityType
    <2> QED BY <2>1
  <1>2. S \in SUBSET Nat /\ S # {}
    BY <1>1
  <1>3. PICK m \in V : \A v \in V : Count(m) <= Count(v)
    <2>1. PICK x \in S : \A y \in S : x <= y
      <3> HIDE DEF S
      <3> QED BY <1>2, LeastNumber
    <2>2. PICK m \in V : x = Count(m)
      BY <2>1
    <2>3. ASSUME NEW v \in V PROVE Count(m) <= Count(v)
      BY <2>1, <2>2
    <2> QED BY <2>3
  <1>4. ASSUME NEW v \in V, v > m PROVE FALSE
    <2>1. v \in U /\ m \in Int
      OBVIOUS
    <2>2. Count(v) < Count(m) /\ Count(v) \in Nat /\ Count(m) \in Nat
      BY <1>4, <2>1, FewerNewer
    <2>3. Count(m) <= Count(v)
      BY <1>3
    <2> HIDE DEF Count
    <2> QED BY <2>2, <2>3
  <1> QED BY <1>4

\* Of a larger set of epochs more are newer.
LEMMA MoreKept ==
  ASSUME NEW A, NEW B, A \subseteq B, IsFiniteSet(B), NEW n \in Nat, Cardinality(A) >= n
  PROVE  Cardinality(B) >= n
  <1>1. A \in SUBSET B
    OBVIOUS
  <1>2. Cardinality(A) <= Cardinality(B) /\ IsFiniteSet(A)
    BY <1>1, FS_Subset
  <1>3. Cardinality(A) \in Nat /\ Cardinality(B) \in Nat
    BY <1>2, FS_CardinalityType
  <1> QED BY <1>2, <1>3

\* Whatever the retention pass chooses to delete, the Retain epochs that it does
\* not choose are newer.
LEMMA VictimsOlder ==
  ASSUME NEW U \in SUBSET Int, IsFiniteSet(U), NEW R \in Nat,
         NEW V, V = {i \in U : Cardinality({j \in U : j > i}) >= R}, NEW i \in V
  PROVE  Cardinality({j \in U : j > i /\ j \notin V}) >= R
  <1>1. V \in SUBSET U /\ V # {}
    OBVIOUS
  <1>2. PICK m \in V : \A v \in V : ~(v > m)
    BY <1>1, Newest, Zenon
  <1> DEFINE A == {j \in U : j > m}
             B == {j \in U : j > i /\ j \notin V}
  <1>3. Cardinality(A) >= R
    OBVIOUS
  <1>4. A \subseteq B
    <2>1. m \in Int /\ i \in Int /\ ~(i > m)
      BY <1>2
    <2>2. \A j \in U : j > m => j > i /\ j \notin V
      BY <1>2, <2>1
    <2> QED BY <2>2
  <1>5. IsFiniteSet(B)
    <2>1. B \in SUBSET U
      OBVIOUS
    <2> HIDE DEF B
    <2> QED BY <2>1, FS_Subset
  <1> HIDE DEF A, B
  <1>6. Cardinality(B) >= R
    BY <1>3, <1>4, <1>5, MoreKept
  <1> QED BY <1>6 DEF B

-----------------------------------------------------------------------------
(* The files in the course of a call *)

\* No call is about an epoch unless it publishes one.
Anonymous(s) == op[s].pc \in {"idle", "release", "recover"} => op[s].id = None

\* What a publication has written and synced so far.
Written(s) ==
    LET i == op[s].id IN
    /\ op[s].pc \in {"sync", "activate", "record", "recordSync", "commit", "commitSync"} => dir[i] \in Placed
    /\ op[s].pc \in {"activate", "record", "recordSync", "commit", "commitSync"} => dirDisk[i] \subseteq Placed
    /\ op[s].pc \in {"recordSync", "commit", "commitSync"} => meta[i]
    /\ op[s].pc \in {"commit", "commitSync"} => metaDisk[i] = {TRUE}
    /\ op[s].pc = "commitSync" => active = i

\* What the compensations that succeeded have removed, for good.
Compensating(s) ==
    LET i == op[s].id IN
    op[s].pc = "rollback" /\ op[s].clean =>
        /\ <<i, "dir">> \in op[s].todo \/ dirDisk[i] = {"absent"}
        /\ <<i, "meta">> \in op[s].todo \/ metaDisk[i] = {FALSE}

\* The publication that runs a retention pass is active, and synced.
Published(s) ==
    LET i == op[s].id IN
    op[s].pc \in {"retain", "delete"} /\ i # None =>
        /\ active = i /\ activeDisk = {i} /\ rooted
        /\ dirDisk[i] \subseteq Placed /\ metaDisk[i] = {TRUE}

\* The epochs newer than i that a retention pass keeps.
Kept(s, i) == {j \in Unprotected : j > i /\ \A w \in op[s].todo : w[1] # j}

\* What is being deleted has enough newer epochs that are kept, and goes in order.
Retiring(s) ==
    op[s].pc = "delete" =>
        /\ \A w \in op[s].todo : Cardinality(Kept(s, w[1])) >= Retain
        /\ \A i \in Ids : <<i, "dir">> \in op[s].todo => i \notin catalog
        /\ \A i \in Ids : <<i, "meta">> \in op[s].todo => i \notin catalog /\ dir[i] = "absent"

\* What the call of a store relies on.
Works(s) == Anonymous(s) /\ Written(s) /\ Compensating(s) /\ Published(s) /\ Retiring(s)

\* The epochs whose metadata a power failure may leave: as many as were published.
Listed == {i \in Ids : TRUE \in metaDisk[i]}
ListedFinite == IsFiniteSet(Listed) /\ \A i \in Ids : meta[i] => TRUE \in metaDisk[i]

\* The invariant of the files: no permit is needed to state it, and power may fail.
FilesInv == ListedFinite /\ \A s \in Stores : Works(s)

\* Where a step of a store leaves its call.
Now(s, pc, todo, clean) ==
    /\ op'[s].pc = pc /\ op'[s].id = op[s].id /\ op'[s].todo = todo /\ op'[s].clean = clean
    /\ \A t \in Stores \ {s} : op'[t] = op[t]

\* A step that advances leaves the rest of the call, ...
LEMMA GotoNow ==
  ASSUME CallsTyped, NEW s \in Stores, NEW pc, Goto(s, pc)
  PROVE  Now(s, pc, op[s].todo, op[s].clean)
  BY DEF CallsTyped, Goto, Now

\* ... a failed publication has its compensations to do, ...
LEMMA RollbackNow ==
  ASSUME CallsTyped, NEW s \in Stores, NEW resources, BeginRollback(s, resources)
  PROVE  Now(s, "rollback", {op[s].id} \X resources, op[s].clean)
  <1>1. ASSUME NEW todo, op' = [op EXCEPT ![s].pc = "rollback", ![s].todo = todo]
        PROVE  Now(s, "rollback", todo, op[s].clean)
    BY <1>1 DEF CallsTyped, Now
  <1> QED BY <1>1 DEF BeginRollback

\* ... of which the next succeeds, ...
LEMMA CompensatedNow ==
  ASSUME CallsTyped, NEW s \in Stores, NEW w, Compensated(s, w)
  PROVE  Now(s, op[s].pc, op[s].todo \ {w}, op[s].clean)
  BY DEF CallsTyped, Compensated, Now

\* ... or fails; ...
LEMMA CompensationFailedNow ==
  ASSUME CallsTyped, NEW s \in Stores, NEW w, CompensationFailed(s, w)
  PROVE  Now(s, op[s].pc, op[s].todo \ {w}, FALSE)
  BY DEF CallsTyped, CompensationFailed, Now

\* ... so does the next deletion of a retention pass, ...
LEMMA DeletedNow ==
  ASSUME CallsTyped, NEW s \in Stores, NEW w, NEW next, Deleted(s, w, next)
  PROVE  Now(s, op[s].pc, (op[s].todo \ {w}) \cup next, op[s].clean)
  BY DEF CallsTyped, Deleted, Now

\* ... that may fail as well, ...
LEMMA DeletionFailedNow ==
  ASSUME CallsTyped, NEW s \in Stores, NEW w, DeletionFailed(s, w)
  PROVE  Now(s, op[s].pc, op[s].todo \ {w}, FALSE)
  BY DEF CallsTyped, DeletionFailed, Now

\* ... and at whose end a publication removes its staging root.
LEMMA EndRetentionNow ==
  ASSUME CallsTyped, NEW s \in Stores, EndRetention(s)
  PROVE  /\ \/ op'[s].pc = "drop" /\ op'[s].id = op[s].id
            \/ (op'[s].pc = "idle" /\ op'[s].id = None)
         /\ \A t \in Stores \ {s} : op'[t] = op[t]
  BY DEF CallsTyped, EndRetention, Idle

\* What writing or removing the metadata of an epoch leaves on the disk.
LEMMA SetMetaDisk ==
  ASSUME FilesTyped, DisksTyped, NEW i \in Ids, NEW v \in BOOLEAN, SetMeta(i, v)
  PROVE  /\ metaDisk'[i] = metaDisk[i] \cup {v} /\ \A j \in Ids \ {i} : metaDisk'[j] = metaDisk[j]
         /\ \A j \in Ids \ {i} : meta'[j] <=> meta[j]
         /\ meta'[i] <=> v
  <1>1. meta' = [meta EXCEPT ![i] = v] /\ metaDisk' = [metaDisk EXCEPT ![i] = @ \cup {v}]
    BY DEF SetMeta
  <1>2. metaDisk'[i] = metaDisk[i] \cup {v} /\ \A j \in Ids \ {i} : metaDisk'[j] = metaDisk[j]
    BY <1>1 DEF DisksTyped
  <1>3. (\A j \in Ids \ {i} : meta'[j] <=> meta[j]) /\ (meta'[i] <=> v)
    BY SetMetaTyped DEF FilesTyped, DisksTyped
  <1> QED BY <1>2, <1>3

\* A sync of the directory of epochs leaves a complete epoch in no doubt.
LEMMA SyncedWhole ==
  ASSUME NEW i \in Ids, dir[i] \in Placed, dirDisk' = SyncedDirs
  PROVE  dirDisk'[i] \subseteq Placed
  BY DEF SyncedDirs, Placed

\* A sync of the metadata leaves what can be seen.
LEMMA SyncedListed ==
  ASSUME NEW i \in Ids, metaDisk' = SyncedMeta
  PROVE  metaDisk'[i] = {meta[i]}
  BY DEF SyncedMeta

\* The metadata that may be left are finitely many: while they are untouched, ...
LEMMA ListedKept ==
  ASSUME ListedFinite, UNCHANGED <<meta, metaDisk>>
  PROVE  ListedFinite'
  BY DEF ListedFinite, Listed

\* ... when those of an epoch are written or removed, ...
LEMMA ListedSet ==
  ASSUME FilesTyped, DisksTyped, ListedFinite, NEW i \in Ids, NEW v \in BOOLEAN, SetMeta(i, v)
  PROVE  ListedFinite' /\ Listed' \subseteq Listed \cup {i} /\ (~v => Listed' = Listed)
  <1>1. /\ metaDisk'[i] = metaDisk[i] \cup {v} /\ \A j \in Ids \ {i} : metaDisk'[j] = metaDisk[j]
        /\ \A j \in Ids \ {i} : meta'[j] <=> meta[j]
        /\ meta'[i] <=> v
    BY SetMetaDisk
  <1>2. Listed' \subseteq Listed \cup {i}
    BY <1>1 DEF Listed
  <1>3. IsFiniteSet(Listed')
    <2>1. IsFiniteSet(Listed \cup {i}) /\ Listed' \in SUBSET (Listed \cup {i})
      BY <1>2, FS_AddElement DEF ListedFinite
    <2> QED BY <2>1, FS_Subset
  <1>4. \A j \in Ids : meta'[j] => TRUE \in metaDisk'[j]
    <2>1. meta'[i] => TRUE \in metaDisk'[i]
      BY <1>1, Zenon
    <2>2. \A j \in Ids \ {i} : meta'[j] => TRUE \in metaDisk'[j]
      BY <1>1, Zenon DEF ListedFinite
    <2> QED BY <2>1, <2>2
  <1>5. ~v => Listed' = Listed
    <2> SUFFICES ASSUME ~v PROVE Listed' = Listed
      OBVIOUS
    <2>1. TRUE \in metaDisk'[i] <=> TRUE \in metaDisk[i]
      BY <1>1
    <2> QED BY <1>1, <2>1 DEF Listed
  <1> QED BY <1>2, <1>3, <1>4, <1>5 DEF ListedFinite

\* ... when a sync leaves only those that can be seen.
LEMMA ListedSynced ==
  ASSUME FilesTyped, ListedFinite, meta' = meta,
         \A j \in Ids : metaDisk'[j] = {meta[j]}
  PROVE  ListedFinite' /\ Listed' \subseteq Listed
  <1>1. \A j \in Ids : TRUE \in metaDisk'[j] => meta[j]
    BY Zenon DEF FilesTyped
  <1>2. Listed' \in SUBSET Listed
    BY <1>1 DEF Listed, ListedFinite
  <1>3. IsFiniteSet(Listed')
    BY <1>2, FS_Subset DEF ListedFinite
  <1>4. \A j \in Ids : meta'[j] => TRUE \in metaDisk'[j]
    BY Zenon DEF FilesTyped
  <1> QED BY <1>2, <1>3, <1>4 DEF ListedFinite


\* ... or those of an epoch are removed and synced.
LEMMA ListedErased ==
  ASSUME FilesTyped, ListedFinite, NEW i \in Ids, meta' = [meta EXCEPT ![i] = FALSE],
         metaDisk' = [SyncedMeta EXCEPT ![i] = {FALSE}]
  PROVE  ListedFinite' /\ Listed' \subseteq Listed
  <1>1. metaDisk'[i] = {FALSE} /\ \A j \in Ids \ {i} : metaDisk'[j] = {meta[j]}
    BY DEF SyncedMeta
  <1>2. ~meta'[i] /\ \A j \in Ids \ {i} : meta'[j] = meta[j]
    BY Zenon DEF FilesTyped
  <1>3. \A j \in Ids : TRUE \in metaDisk'[j] => j # i /\ meta[j]
    <2>1. TRUE \notin metaDisk'[i]
      BY <1>1, Zenon
    <2>2. \A j \in Ids \ {i} : TRUE \in metaDisk'[j] => meta[j]
      BY <1>1, Zenon
    <2> QED BY <2>1, <2>2
  <1>4. Listed' \in SUBSET Listed
    BY <1>3 DEF Listed, ListedFinite
  <1>5. IsFiniteSet(Listed')
    BY <1>4, FS_Subset DEF ListedFinite
  <1>6. \A j \in Ids : meta'[j] => TRUE \in metaDisk'[j]
    <2>1. \A j \in Ids \ {i} : meta'[j] => TRUE \in metaDisk'[j]
      BY <1>1, <1>2, Zenon DEF FilesTyped
    <2> QED BY <1>2, <2>1
  <1> QED BY <1>4, <1>5, <1>6 DEF ListedFinite

-----------------------------------------------------------------------------
(* One step of a store, and what the others see of it *)

\* A call outside the permit relies on no file.
LEMMA Idling ==
  ASSUME NEW t \in Stores, op'[t] = op[t], op[t].pc \notin UnderPermit, Works(t)
  PROVE  Works(t)'
  BY DEF Works, Anonymous, Written, Compensating, Published, Retiring, UnderPermit, Moved

\* Nor does a call that has not begun to move, or whose part is over.
LEMMA Outside ==
  ASSUME NEW s \in Stores,
         op'[s].pc \in {"verify", "take", "drop"} \/ (op'[s].pc = "idle" /\ op'[s].id = None)
  PROVE  Works(s)'
  BY DEF Works, Anonymous, Written, Compensating, Published, Retiring

\* A step under the permit leaves the calls of the other stores where they are.
LEMMA Elsewhere ==
  ASSUME IInv, IInv', NEW s \in Stores, \A t \in Stores : Works(t),
         op[s].pc \in UnderPermit \/ op'[s].pc \in UnderPermit,
         \A t \in Stores \ {s} : op'[t] = op[t],
         Works(s)'
  PROVE  \A t \in Stores : Works(t)'
  <1> SUFFICES ASSUME NEW t \in Stores, t # s PROVE Works(t)'
    OBVIOUS
  <1>1. op'[t] = op[t]
    OBVIOUS
  <1>2. op[t].pc \notin UnderPermit
    BY <1>1 DEF IInv, Permitted
  <1> QED BY <1>1, <1>2, Idling

\* A step that touches no file and no counter takes nothing from any call.
LEMMA StillWorks ==
  ASSUME NEW t \in Stores, Works(t), UNCHANGED <<files, rooted, refs>>, op'[t] = op[t]
  PROVE  Works(t)'
  <1>1. Anonymous(t)' /\ Written(t)' /\ Compensating(t)' /\ Published(t)'
    BY DEF Works, Anonymous, Written, Compensating, Published, files
  <1>2. Unprotected' = Unprotected
    BY DEF Unprotected, files
  <1>3. \A i \in Ids : Kept(t, i)' = Kept(t, i)
    BY <1>2 DEF Kept
  <1>4. Retiring(t)'
    <2>1. \A w \in op[t].todo : Kept(t, w[1])' = Kept(t, w[1])
      BY <1>2 DEF Kept
    <2> QED BY <2>1 DEF Works, Retiring, files
  <1> QED BY <1>1, <1>4 DEF Works

\* A publication under way is as far as what it has written and synced, ...
LEMMA MovedWorks ==
  ASSUME NEW s \in Stores,
         op'[s].pc \in {"sync", "activate", "record", "recordSync", "commit", "commitSync"},
         Written(s)'
  PROVE  Works(s)'
  BY DEF Works, Anonymous, Compensating, Published, Retiring

\* ... and one that begins its compensations has them all to do.
LEMMA RollbackWorks ==
  ASSUME CallsTyped, NEW s \in Stores, NEW resources, {"dir", "meta"} \subseteq resources,
         BeginRollback(s, resources)
  PROVE  Works(s)' /\ \A t \in Stores \ {s} : op'[t] = op[t]
  <1>1. Now(s, "rollback", {op[s].id} \X resources, op[s].clean)
    BY RollbackNow
  <1>2. op'[s].pc = "rollback" /\ op'[s].id = op[s].id /\ op'[s].todo = {op[s].id} \X resources
    BY <1>1 DEF Now
  <1>3. <<op'[s].id, "dir">> \in op'[s].todo /\ <<op'[s].id, "meta">> \in op'[s].todo
    BY <1>2
  <1>4. Works(s)'
    BY <1>2, <1>3 DEF Works, Anonymous, Written, Compensating, Published, Retiring
  <1> QED BY <1>1, <1>4 DEF Now

\* Every roll back removes the directory and the metadata.
LEMMA UnpublishedResources == {"dir", "meta"} \subseteq Unpublished /\ {"dir", "meta"} \subseteq Resources
  BY DEF Unpublished, Resources

\* Take keeps what the calls rely on.
LEMMA TakeWorks ==
  ASSUME IInv, IInv', FilesInv, NEW s \in Stores, Take(s)
  PROVE  FilesInv'
  <1> USE DEF IInv, StoreTyped
  <1>1. op[s].pc = "take" /\ op[s].id \in Ids
    BY DEF Take, At, Permitted, Publishing
  <1>2. PICK pc \in {"sync", "drop"} :
          /\ Goto(s, pc)
          /\ pc = "sync" => \E v \in Placed : dir' = [dir EXCEPT ![op[s].id] = v]
    BY DEF Take, FailUnmoved, Placed
  <1>3. Now(s, pc, op[s].todo, op[s].clean)
    BY <1>2, GotoNow
  <1>4. Works(s)'
    <2>1. CASE pc = "sync"
      <3>1. dir'[op[s].id] \in Placed
        BY <1>1, <1>2, <2>1 DEF FilesTyped
      <3>2. Written(s)'
        BY <1>3, <2>1, <3>1 DEF Written, Now
      <3> QED BY <1>3, <2>1, <3>2, MovedWorks DEF Now
    <2>2. CASE pc = "drop"
      BY <1>3, <2>2, Outside DEF Now
    <2> QED BY <2>1, <2>2
  <1>5. \A t \in Stores : Works(t)'
    BY <1>1, <1>3, <1>4, Elsewhere DEF Now, UnderPermit, FilesInv
  <1>6. UNCHANGED <<meta, metaDisk>>
    BY DEF Take, FailUnmoved, files
  <1> QED BY <1>5, <1>6, ListedKept DEF FilesInv

\* SyncEpochs keeps what the calls rely on.
LEMMA SyncEpochsWorks ==
  ASSUME IInv, IInv', FilesInv, NEW s \in Stores, SyncEpochs(s)
  PROVE  FilesInv'
  <1> USE DEF IInv, StoreTyped
  <1>1. op[s].pc = "sync" /\ op[s].id \in Ids
    BY DEF SyncEpochs, At, Permitted, Publishing, Moved
  <1>2. UNCHANGED <<dir, meta, metaDisk>>
    BY DEF SyncEpochs
  <1>3. Works(s)' /\ \A t \in Stores \ {s} : op'[t] = op[t]
    <2>1. CASE dirDisk' = SyncedDirs /\ Goto(s, "activate")
      <3>1. Now(s, "activate", op[s].todo, op[s].clean)
        BY <2>1, GotoNow
      <3>2. dir[op[s].id] \in Placed
        BY <1>1 DEF FilesInv, Works, Written
      <3>3. dirDisk'[op[s].id] \subseteq Placed
        BY <1>1, <2>1, <3>2, SyncedWhole
      <3>4. Written(s)'
        BY <1>2, <3>1, <3>2, <3>3 DEF Written, Now
      <3> QED BY <3>1, <3>4, MovedWorks DEF Now
    <2>2. CASE BeginRollback(s, Unpublished)
      BY <2>2, RollbackWorks, UnpublishedResources
    <2> QED BY <2>1, <2>2 DEF SyncEpochs
  <1>4. \A t \in Stores : Works(t)'
    BY <1>1, <1>3, Elsewhere DEF UnderPermit, Moved, FilesInv
  <1> QED BY <1>2, <1>4, ListedKept DEF FilesInv

\* Activate keeps what the calls rely on.
LEMMA ActivateWorks ==
  ASSUME IInv, IInv', FilesInv, NEW s \in Stores, Activate(s)
  PROVE  FilesInv'
  <1> USE DEF IInv, StoreTyped
  <1>1. op[s].pc = "activate"
    BY DEF Activate, At
  <1>2. UNCHANGED <<dir, meta, dirDisk, metaDisk>>
    BY DEF Activate
  <1>3. Works(s)' /\ \A t \in Stores \ {s} : op'[t] = op[t]
    <2>1. CASE Goto(s, "record")
      <3>1. Now(s, "record", op[s].todo, op[s].clean)
        BY <2>1, GotoNow
      <3>2. Written(s)'
        BY <1>1, <1>2, <3>1 DEF Written, Now, FilesInv, Works
      <3> QED BY <3>1, <3>2, MovedWorks DEF Now
    <2>2. CASE BeginRollback(s, Unpublished)
      BY <2>2, RollbackWorks, UnpublishedResources
    <2> QED BY <2>1, <2>2 DEF Activate
  <1>4. \A t \in Stores : Works(t)'
    BY <1>1, <1>3, Elsewhere DEF UnderPermit, Moved, FilesInv
  <1> QED BY <1>2, <1>4, ListedKept DEF FilesInv

\* Record keeps what the calls rely on.
LEMMA RecordWorks ==
  ASSUME IInv, IInv', FilesInv, NEW s \in Stores, Record(s)
  PROVE  FilesInv'
  <1> USE DEF IInv, StoreTyped
  <1> DEFINE i == op[s].id
  <1>1. op[s].pc = "record" /\ i \in Ids
    BY DEF Record, At, Permitted, Publishing, Moved
  <1>2. UNCHANGED dir
    BY DEF Record
  <1>3. Works(s)' /\ \A t \in Stores \ {s} : op'[t] = op[t]
    <2>1. CASE SetMeta(i, TRUE) /\ dirDisk' = SyncedDirs /\ Goto(s, "recordSync")
      <3>1. Now(s, "recordSync", op[s].todo, op[s].clean)
        BY <2>1, GotoNow
      <3>2. dir[i] \in Placed
        BY <1>1 DEF FilesInv, Works, Written
      <3>3. dirDisk'[i] \subseteq Placed
        BY <1>1, <2>1, <3>2, SyncedWhole
      <3>4. meta'[i]
        BY <1>1, <2>1, SetMetaDisk
      <3>5. Written(s)'
        BY <1>2, <3>1, <3>2, <3>3, <3>4 DEF Written, Now
      <3> QED BY <3>1, <3>5, MovedWorks DEF Now
    <2>2. CASE BeginRollback(s, Resources)
      BY <2>2, RollbackWorks, UnpublishedResources
    <2> QED BY <2>1, <2>2 DEF Record
  <1>4. \A t \in Stores : Works(t)'
    BY <1>1, <1>3, Elsewhere DEF UnderPermit, Moved, FilesInv
  <1>5. ListedFinite'
    <2>1. SetMeta(i, TRUE) \/ UNCHANGED <<meta, metaDisk>>
      BY DEF Record
    <2> QED BY <1>1, <2>1, ListedKept, ListedSet DEF FilesInv
  <1> QED BY <1>4, <1>5 DEF FilesInv

\* RecordSync keeps what the calls rely on.
LEMMA RecordSyncWorks ==
  ASSUME IInv, IInv', FilesInv, NEW s \in Stores, RecordSync(s)
  PROVE  FilesInv'
  <1> USE DEF IInv, StoreTyped
  <1> DEFINE i == op[s].id
  <1>1. op[s].pc = "recordSync" /\ i \in Ids
    BY DEF RecordSync, At, Permitted, Publishing, Moved
  <1>2. UNCHANGED <<dir, dirDisk, meta>>
    BY DEF RecordSync
  <1>3. Works(s)' /\ \A t \in Stores \ {s} : op'[t] = op[t]
    <2>1. CASE metaDisk' = SyncedMeta /\ Goto(s, "commit")
      <3>1. Now(s, "commit", op[s].todo, op[s].clean)
        BY <2>1, GotoNow
      <3>2. dir[i] \in Placed /\ dirDisk[i] \subseteq Placed /\ meta[i]
        BY <1>1 DEF FilesInv, Works, Written
      <3>3. metaDisk'[i] = {TRUE}
        <4>1. metaDisk'[i] = {meta[i]} /\ meta[i] \in BOOLEAN
          BY <1>1, <2>1, SyncedListed DEF FilesTyped
        <4>2. meta[i] = TRUE
          BY <3>2, <4>1, Zenon
        <4> QED BY <4>1, <4>2, Zenon
      <3>4. Written(s)'
        BY <1>2, <3>1, <3>2, <3>3 DEF Written, Now
      <3> QED BY <3>1, <3>4, MovedWorks DEF Now
    <2>2. CASE BeginRollback(s, Resources)
      BY <2>2, RollbackWorks, UnpublishedResources
    <2> QED BY <2>1, <2>2 DEF RecordSync
  <1>4. \A t \in Stores : Works(t)'
    BY <1>1, <1>3, Elsewhere DEF UnderPermit, Moved, FilesInv
  <1>5. ListedFinite'
    <2>1. CASE metaDisk' = SyncedMeta
      <3>1. \A j \in Ids : metaDisk'[j] = {meta[j]}
        BY <2>1, SyncedListed
      <3>2. meta' = meta /\ FilesTyped /\ ListedFinite
        BY <1>2 DEF FilesInv
      <3> QED BY <3>1, <3>2, ListedSynced, Zenon
    <2>2. CASE UNCHANGED metaDisk
      BY <1>2, <2>2, ListedKept DEF FilesInv
    <2> QED BY <2>1, <2>2 DEF RecordSync
  <1> QED BY <1>4, <1>5 DEF FilesInv

\* Commit keeps what the calls rely on.
LEMMA CommitWorks ==
  ASSUME IInv, IInv', FilesInv, NEW s \in Stores, Commit(s)
  PROVE  FilesInv'
  <1> USE DEF IInv, StoreTyped
  <1>1. op[s].pc = "commit"
    BY DEF Commit, At
  <1>2. UNCHANGED <<dir, dirDisk, meta, metaDisk>>
    BY DEF Commit
  <1>3. Works(s)' /\ \A t \in Stores \ {s} : op'[t] = op[t]
    <2>1. CASE active' = op[s].id /\ Goto(s, "commitSync")
      <3>1. Now(s, "commitSync", op[s].todo, op[s].clean)
        BY <2>1, GotoNow
      <3>2. Written(s)'
        BY <1>1, <1>2, <2>1, <3>1 DEF Written, Now, FilesInv, Works
      <3> QED BY <3>1, <3>2, MovedWorks DEF Now
    <2>2. CASE BeginRollback(s, Resources)
      BY <2>2, RollbackWorks, UnpublishedResources
    <2> QED BY <2>1, <2>2 DEF Commit
  <1>4. \A t \in Stores : Works(t)'
    BY <1>1, <1>3, Elsewhere DEF UnderPermit, Moved, FilesInv
  <1> QED BY <1>2, <1>4, ListedKept DEF FilesInv

\* CommitSync keeps what the calls rely on.
LEMMA CommitSyncWorks ==
  ASSUME IInv, IInv', FilesInv, NEW s \in Stores, CommitSync(s)
  PROVE  FilesInv'
  <1> USE DEF IInv, StoreTyped
  <1>1. op[s].pc = "commitSync"
    BY DEF CommitSync, At
  <1>2. UNCHANGED <<dirDisk, active, meta, metaDisk>>
    BY DEF CommitSync
  <1>3. Works(s)' /\ \A t \in Stores \ {s} : op'[t] = op[t]
    <2>1. CASE activeDisk' = {active} /\ rooted' /\ Goto(s, "retain")
      <3>1. Now(s, "retain", op[s].todo, op[s].clean)
        BY <2>1, GotoNow
      <3>2. Published(s)'
        BY <1>1, <1>2, <2>1, <3>1 DEF Written, Now, FilesInv, Works, Published
      <3>3. Works(s)'
        BY <3>1, <3>2 DEF Works, Anonymous, Written, Compensating, Retiring, Now
      <3> QED BY <3>1, <3>3 DEF Now
    <2>2. CASE Goto(s, "drop")
      <3>1. Now(s, "drop", op[s].todo, op[s].clean)
        BY <2>2, GotoNow
      <3> QED BY <3>1, Outside DEF Now
    <2> QED BY <2>1, <2>2 DEF CommitSync
  <1>4. \A t \in Stores : Works(t)'
    BY <1>1, <1>3, Elsewhere DEF UnderPermit, FilesInv
  <1> QED BY <1>2, <1>4, ListedKept DEF FilesInv

\* A compensation that fails leaves its publication unclean, and one that succeeds
\* has removed what it was for.
LEMMA UndoneWorks ==
  ASSUME CallsTyped, NEW s \in Stores, op[s].pc = "rollback", Compensating(s),
         NEW r, NEW clean,
         Now(s, "rollback", op[s].todo \ {<<op[s].id, r>>}, clean),
         clean => /\ op[s].clean
                  /\ r = "dir" \/ dirDisk'[op[s].id] = dirDisk[op[s].id]
                  /\ r = "dir" => dirDisk'[op[s].id] = {"absent"}
                  /\ r = "meta" \/ metaDisk'[op[s].id] = metaDisk[op[s].id]
                  /\ r = "meta" => metaDisk'[op[s].id] = {FALSE}
  PROVE  Works(s)'
  <1> DEFINE i == op[s].id
  <1>1. op'[s].pc = "rollback" /\ op'[s].id = i /\ op'[s].todo = op[s].todo \ {<<i, r>>}
        /\ op'[s].clean = clean
    BY DEF Now
  <1>2. Compensating(s)'
    <2> SUFFICES ASSUME clean
                 PROVE  /\ <<i, "dir">> \in op'[s].todo \/ dirDisk'[i] = {"absent"}
                        /\ <<i, "meta">> \in op'[s].todo \/ metaDisk'[i] = {FALSE}
      BY <1>1 DEF Compensating
    <2>1. /\ <<i, "dir">> \in op[s].todo \/ dirDisk[i] = {"absent"}
          /\ <<i, "meta">> \in op[s].todo \/ metaDisk[i] = {FALSE}
      BY DEF Compensating
    <2>2. <<i, "dir">> \in op[s].todo /\ r # "dir" => <<i, "dir">> \in op'[s].todo
      BY <1>1
    <2>3. <<i, "meta">> \in op[s].todo /\ r # "meta" => <<i, "meta">> \in op'[s].todo
      BY <1>1
    <2> QED BY <2>1, <2>2, <2>3, Zenon
  <1> QED BY <1>1, <1>2 DEF Works, Anonymous, Written, Published, Retiring

\* UndoDir keeps what the calls rely on.
LEMMA UndoDirWorks ==
  ASSUME IInv, IInv', FilesInv, NEW s \in Stores, UndoDir(s)
  PROVE  FilesInv'
  <1> USE DEF IInv, StoreTyped
  <1> DEFINE i == op[s].id
  <1>1. op[s].pc = "rollback" /\ i \in Ids
    BY DEF UndoDir, At, Permitted, Publishing, Moved
  <1>2. UNCHANGED <<meta, metaDisk>>
    BY DEF UndoDir
  <1>3. Compensating(s)
    BY DEF FilesInv, Works
  <1>4. PICK clean :
          /\ Now(s, "rollback", op[s].todo \ {<<i, "dir">>}, clean)
          /\ clean => op[s].clean /\ dirDisk'[i] = {"absent"}
    <2>1. CASE dirDisk' = [SyncedDirs EXCEPT ![i] = {"absent"}] /\ Compensated(s, <<i, "dir">>)
      <3>1. dirDisk'[i] = {"absent"}
        BY <1>1, <2>1 DEF SyncedDirs
      <3> QED BY <1>1, <2>1, <3>1, CompensatedNow
    <2>2. CASE CompensationFailed(s, <<i, "dir">>)
      BY <1>1, <2>2, CompensationFailedNow
    <2> QED BY <2>1, <2>2 DEF UndoDir
  <1>5. Works(s)'
    BY <1>1, <1>2, <1>3, <1>4, UndoneWorks
  <1>6. \A t \in Stores : Works(t)'
    BY <1>1, <1>4, <1>5, Elsewhere DEF UnderPermit, Moved, FilesInv, Now
  <1> QED BY <1>2, <1>6, ListedKept DEF FilesInv

\* UndoMeta keeps what the calls rely on.
LEMMA UndoMetaWorks ==
  ASSUME IInv, IInv', FilesInv, NEW s \in Stores, UndoMeta(s)
  PROVE  FilesInv'
  <1> USE DEF IInv, StoreTyped
  <1> DEFINE i == op[s].id
  <1>1. op[s].pc = "rollback" /\ i \in Ids
    BY DEF UndoMeta, At, Permitted, Publishing, Moved
  <1>2. UNCHANGED dirDisk
    BY DEF UndoMeta
  <1>3. Compensating(s)
    BY DEF FilesInv, Works
  <1>4. \/ /\ meta' = [meta EXCEPT ![i] = FALSE]
           /\ metaDisk' = [SyncedMeta EXCEPT ![i] = {FALSE}]
           /\ Compensated(s, <<i, "meta">>)
        \/ /\ UNCHANGED <<meta, metaDisk>> \/ SetMeta(i, FALSE)
           /\ CompensationFailed(s, <<i, "meta">>)
    BY DEF UndoMeta
  <1>5. PICK clean :
          /\ Now(s, "rollback", op[s].todo \ {<<i, "meta">>}, clean)
          /\ clean => op[s].clean /\ metaDisk'[i] = {FALSE}
    <2>1. CASE metaDisk' = [SyncedMeta EXCEPT ![i] = {FALSE}] /\ Compensated(s, <<i, "meta">>)
      <3>1. metaDisk'[i] = {FALSE}
        BY <1>1, <2>1 DEF SyncedMeta
      <3>2. Now(s, "rollback", op[s].todo \ {<<i, "meta">>}, op[s].clean)
        BY <1>1, <2>1, CompensatedNow
      <3> QED BY <3>1, <3>2
    <2>2. CASE CompensationFailed(s, <<i, "meta">>)
      BY <1>1, <2>2, CompensationFailedNow
    <2> QED BY <1>4, <2>1, <2>2
  <1>6. Works(s)'
    BY <1>1, <1>2, <1>3, <1>5, UndoneWorks
  <1>7. \A t \in Stores : Works(t)'
    BY <1>1, <1>5, <1>6, Elsewhere DEF UnderPermit, Moved, FilesInv, Now
  <1>8. ListedFinite'
    <2>1. CASE UNCHANGED <<meta, metaDisk>>
      BY <2>1, ListedKept DEF FilesInv
    <2>2. CASE SetMeta(i, FALSE)
      BY <1>1, <2>2, ListedSet DEF FilesInv
    <2>3. CASE meta' = [meta EXCEPT ![i] = FALSE] /\ metaDisk' = [SyncedMeta EXCEPT ![i] = {FALSE}]
      BY <1>1, <2>3, ListedErased DEF FilesInv
    <2> QED BY <1>4, <2>1, <2>2, <2>3
  <1> QED BY <1>7, <1>8 DEF FilesInv

\* UndoCatalog keeps what the calls rely on.
LEMMA UndoCatalogWorks ==
  ASSUME IInv, IInv', FilesInv, NEW s \in Stores, UndoCatalog(s)
  PROVE  FilesInv'
  <1> USE DEF IInv, StoreTyped
  <1> DEFINE i == op[s].id
  <1>1. op[s].pc = "rollback"
    BY DEF UndoCatalog, At
  <1>2. UNCHANGED <<dirDisk, meta, metaDisk>>
    BY DEF UndoCatalog
  <1>3. Compensating(s)
    BY DEF FilesInv, Works
  <1>4. PICK clean :
          /\ Now(s, "rollback", op[s].todo \ {<<i, "catalog">>}, clean)
          /\ clean => op[s].clean
    <2>1. CASE Compensated(s, <<i, "catalog">>)
      <3>1. Now(s, "rollback", op[s].todo \ {<<i, "catalog">>}, op[s].clean)
        BY <1>1, <2>1, CompensatedNow
      <3> QED BY <3>1
    <2>2. CASE CompensationFailed(s, <<i, "catalog">>)
      BY <1>1, <2>2, CompensationFailedNow
    <2> QED BY <2>1, <2>2 DEF UndoCatalog
  <1>5. Works(s)'
    BY <1>1, <1>2, <1>3, <1>4, UndoneWorks
  <1>6. \A t \in Stores : Works(t)'
    BY <1>1, <1>4, <1>5, Elsewhere DEF UnderPermit, Moved, FilesInv, Now
  <1> QED BY <1>2, <1>6, ListedKept DEF FilesInv

\* Of a retention pass about to delete, or one that has done so, nothing else is asked.
LEMMA EndRetentionWorks ==
  ASSUME CallsTyped, NEW s \in Stores, EndRetention(s)
  PROVE  Works(s)' /\ \A t \in Stores \ {s} : op'[t] = op[t]
  BY EndRetentionNow, Outside

\* EndRollback keeps what the calls rely on.
LEMMA EndRollbackWorks ==
  ASSUME IInv, IInv', FilesInv, NEW s \in Stores, EndRollback(s)
  PROVE  FilesInv'
  <1> USE DEF IInv, StoreTyped
  <1>1. op[s].pc = "rollback" /\ UNCHANGED <<meta, metaDisk>>
    BY DEF EndRollback, At, files
  <1>2. Now(s, "drop", op[s].todo, op[s].clean)
    BY GotoNow DEF EndRollback
  <1>3. Works(s)'
    BY <1>2, Outside DEF Now
  <1>4. \A t \in Stores : Works(t)'
    BY <1>1, <1>2, <1>3, Elsewhere DEF UnderPermit, Moved, FilesInv, Now
  <1> QED BY <1>1, <1>4, ListedKept DEF FilesInv

\* EndCleanup keeps what the calls rely on.
LEMMA EndCleanupWorks ==
  ASSUME IInv, IInv', FilesInv, NEW s \in Stores, EndCleanup(s)
  PROVE  FilesInv'
  <1> USE DEF IInv, StoreTyped
  <1>1. op[s].pc = "delete" /\ UNCHANGED <<meta, metaDisk>>
    BY DEF EndCleanup, At, files
  <1>2. Works(s)' /\ \A t \in Stores \ {s} : op'[t] = op[t]
    BY EndRetentionWorks DEF EndCleanup
  <1>3. \A t \in Stores : Works(t)'
    BY <1>1, <1>2, Elsewhere DEF UnderPermit, FilesInv
  <1> QED BY <1>1, <1>3, ListedKept DEF FilesInv

\* The epochs that nobody protects are finitely many.
LEMMA UnprotectedFinite ==
  ASSUME ListedFinite
  PROVE  Unprotected \in SUBSET Int /\ IsFiniteSet(Unprotected)
  <1>1. Unprotected \in SUBSET Listed
    BY DEF ListedFinite, Listed, Unprotected
  <1>2. IsFiniteSet(Unprotected)
    BY <1>1, FS_Subset DEF ListedFinite
  <1> QED BY <1>2, IdsAssumption DEF Unprotected

\* SelectVictims keeps what the calls rely on.
LEMMA SelectVictimsWorks ==
  ASSUME IInv, IInv', FilesInv, NEW s \in Stores, SelectVictims(s)
  PROVE  FilesInv'
  <1> USE DEF IInv, StoreTyped
  <1>1. op[s].pc = "retain" /\ UNCHANGED <<files, rooted, refs>>
    BY DEF SelectVictims, At, stages, memory
  <1>2. Works(s)' /\ \A t \in Stores \ {s} : op'[t] = op[t]
    <2>1. CASE op' = [op EXCEPT ![s].pc = "delete", ![s].todo = Victims \X {"catalog"}]
      <3>1. ASSUME NEW todo, op' = [op EXCEPT ![s].pc = "delete", ![s].todo = todo]
            PROVE  Now(s, "delete", todo, op[s].clean)
        BY <3>1 DEF CallsTyped, Now
      <3>2. Now(s, "delete", Victims \X {"catalog"}, op[s].clean)
        BY <2>1, <3>1
      <3>3. op'[s].pc = "delete" /\ op'[s].id = op[s].id /\ op'[s].todo = Victims \X {"catalog"}
        BY <3>2 DEF Now
      <3>4. Published(s)'
        BY <1>1, <3>3 DEF FilesInv, Works, Published, files
      <3>5. Unprotected' = Unprotected
        BY <1>1 DEF Unprotected, files
      <3>6. ASSUME NEW w \in op'[s].todo PROVE Cardinality(Kept(s, w[1])') >= Retain
        <4>1. w[1] \in Victims
          BY <3>3
        <4>2. Unprotected \in SUBSET Int /\ IsFiniteSet(Unprotected)
          BY UnprotectedFinite DEF FilesInv
        <4>3. Cardinality({j \in Unprotected : j > w[1] /\ j \notin Victims}) >= Retain
          BY <4>1, <4>2, VictimsOlder, BoundsAssumption, Zenon DEF Victims
        <4>4. \A j \in Unprotected : j \notin Victims => \A x \in op'[s].todo : x[1] # j
          BY <3>3
        <4>5. {j \in Unprotected : j > w[1] /\ j \notin Victims} \subseteq Kept(s, w[1])'
          BY <3>5, <4>4 DEF Kept
        <4>6. IsFiniteSet(Kept(s, w[1])')
          <5>1. Kept(s, w[1])' \in SUBSET Unprotected
            BY <3>5 DEF Kept
          <5> QED BY <4>2, <5>1, FS_Subset
        <4> HIDE DEF Kept
        <4> QED BY <4>3, <4>5, <4>6, MoreKept, BoundsAssumption
      <3>7. Retiring(s)'
        BY <3>3, <3>6 DEF Retiring
      <3>8. Works(s)'
        BY <3>3, <3>4, <3>7 DEF Works, Anonymous, Written, Compensating
      <3> QED BY <3>2, <3>8 DEF Now
    <2>2. CASE EndRetention(s)
      BY <2>2, EndRetentionWorks
    <2> QED BY <2>1, <2>2 DEF SelectVictims
  <1>3. \A t \in Stores : Works(t)'
    BY <1>1, <1>2, Elsewhere DEF UnderPermit, FilesInv
  <1> QED BY <1>1, <1>3, ListedKept DEF FilesInv, files

\* A deletion keeps the counts of the epochs that are kept, as long as it puts no
\* epoch on its list and unlists none but those on it.
LEMMA DeletingWorks ==
  ASSUME ListedFinite, ListedFinite', NEW s \in Stores, op[s].pc = "delete", Published(s), Retiring(s),
         op'[s].pc = "delete", op'[s].id = op[s].id, UNCHANGED <<active, refs, activeDisk, rooted>>,
         op[s].id # None =>
             dirDisk'[op[s].id] = dirDisk[op[s].id] /\ metaDisk'[op[s].id] = metaDisk[op[s].id],
         \A w \in op'[s].todo : \E x \in op[s].todo : x[1] = w[1],
         \A j \in Ids : meta[j] => meta'[j] \/ \E x \in op[s].todo : x[1] = j,
         \A i \in Ids : <<i, "dir">> \in op'[s].todo => i \notin catalog',
         \A i \in Ids : <<i, "meta">> \in op'[s].todo => i \notin catalog' /\ dir'[i] = "absent"
  PROVE  Works(s)'
  <1>1. Published(s)'
    BY DEF Published
  <1>2. ASSUME NEW w \in op'[s].todo PROVE Cardinality(Kept(s, w[1])') >= Retain
    <2>1. PICK x \in op[s].todo : x[1] = w[1]
      OBVIOUS
    <2>2. Cardinality(Kept(s, x[1])) >= Retain
      BY DEF Retiring
    <2>3. Kept(s, x[1]) \subseteq Kept(s, w[1])'
      BY <2>1 DEF Kept, Unprotected
    <2>4. IsFiniteSet(Kept(s, w[1])')
      <3>1. Kept(s, w[1])' \in SUBSET Unprotected'
        BY DEF Kept
      <3>2. IsFiniteSet(Unprotected')
        <4>1. Unprotected' \in SUBSET Listed'
          BY DEF ListedFinite, Listed, Unprotected
        <4> QED BY <4>1, FS_Subset DEF ListedFinite
      <3> QED BY <3>1, <3>2, FS_Subset
    <2> HIDE DEF Kept
    <2> QED BY <2>2, <2>3, <2>4, MoreKept, BoundsAssumption
  <1>3. Retiring(s)'
    BY <1>2 DEF Retiring
  <1> QED BY <1>1, <1>3 DEF Works, Anonymous, Written, Compensating

\* What is left to do when a part of an epoch has been deleted, or could not be.
LEMMA DeleteNow ==
  ASSUME CallsTyped, NEW s \in Stores, op[s].pc = "delete", NEW w \in op[s].todo, NEW next,
         Deleted(s, w, next) \/ DeletionFailed(s, w), \A x \in next : x[1] = w[1]
  PROVE  /\ op'[s].pc = "delete" /\ op'[s].id = op[s].id /\ \A t \in Stores \ {s} : op'[t] = op[t]
         /\ \A y \in op'[s].todo : \E x \in op[s].todo : x[1] = y[1]
  <1>1. CASE Deleted(s, w, next)
    <2>1. Now(s, "delete", (op[s].todo \ {w}) \cup next, op[s].clean)
      BY <1>1, DeletedNow
    <2>2. \A y \in op'[s].todo : y \in op[s].todo \/ y \in next
      BY <2>1 DEF Now
    <2> QED BY <2>1, <2>2, Zenon DEF Now
  <1>2. CASE DeletionFailed(s, w)
    <2>1. Now(s, "delete", op[s].todo \ {w}, FALSE)
      BY <1>2, DeletionFailedNow
    <2>2. \A y \in op'[s].todo : y \in op[s].todo
      BY <2>1 DEF Now
    <2> QED BY <2>1, <2>2, Zenon DEF Now
  <1> QED BY <1>1, <1>2

\* What is on a list to delete is not the active epoch.
LEMMA OthersDeleted ==
  ASSUME IInv, FilesInv, NEW s \in Stores, op[s].pc = "delete", NEW w \in op[s].todo
  PROVE  /\ ListedFinite /\ Published(s) /\ Retiring(s)
         /\ w[1] # active /\ (op[s].id # None => op[s].id = active) /\ refs[w[1]] = 0
  BY DEF IInv, Unleased, FilesInv, Works, Published

\* DeleteCatalog keeps what the calls rely on.
LEMMA DeleteCatalogWorks ==
  ASSUME IInv, IInv', FilesInv, NEW s \in Stores, NEW i \in Ids, DeleteCatalog(s, i)
  PROVE  FilesInv'
  <1>0. CallsTyped
    BY DEF IInv, StoreTyped
  <1>1. op[s].pc = "delete" /\ <<i, "catalog">> \in op[s].todo
    BY DEF DeleteCatalog, At
  <1>2. UNCHANGED <<dir, dirDisk, meta, metaDisk, active, activeDisk, rooted, refs>>
    BY DEF DeleteCatalog, stages, memory
  <1>3. /\ Deleted(s, <<i, "catalog">>, {<<i, "dir">>}) \/ DeletionFailed(s, <<i, "catalog">>)
        /\ catalog' \subseteq catalog
    BY DEF DeleteCatalog
  <1>4. /\ op'[s].pc = "delete" /\ op'[s].id = op[s].id /\ \A t \in Stores \ {s} : op'[t] = op[t]
        /\ \A w \in op'[s].todo : \E x \in op[s].todo : x[1] = w[1]
    <2> DEFINE v == <<i, "catalog">>
               next == {<<i, "dir">>}
    <2>1. \A x \in next : x[1] = v[1]
      OBVIOUS
    <2>2. op[s].pc = "delete" /\ v \in op[s].todo /\ (Deleted(s, v, next) \/ DeletionFailed(s, v))
      BY <1>1, <1>3
    <2> HIDE DEF v, next
    <2> QED BY <1>0, <2>1, <2>2, DeleteNow, Zenon
  <1>5. \A j \in Ids : <<j, "dir">> \in op'[s].todo => j \notin catalog'
    <2>1. CASE catalog' = catalog \ {i} /\ Deleted(s, <<i, "catalog">>, {<<i, "dir">>})
      <3>1. op'[s].todo = (op[s].todo \ {<<i, "catalog">>}) \cup {<<i, "dir">>}
        BY <1>0, <2>1, DeletedNow DEF Now
      <3>2. \A j \in Ids : <<j, "dir">> \in op[s].todo => j \notin catalog
        BY <1>1 DEF FilesInv, Works, Retiring
      <3>3. \A j \in Ids : <<j, "dir">> = <<i, "dir">> => j = i
        OBVIOUS
      <3> QED BY <2>1, <3>1, <3>2, <3>3
    <2>2. CASE DeletionFailed(s, <<i, "catalog">>)
      <3>1. op'[s].todo = op[s].todo \ {<<i, "catalog">>}
        BY <1>0, <2>2, DeletionFailedNow DEF Now
      <3>2. \A j \in Ids : <<j, "dir">> \in op[s].todo => j \notin catalog
        BY <1>1 DEF FilesInv, Works, Retiring
      <3> QED BY <1>3, <3>1, <3>2
    <2> QED BY <2>1, <2>2 DEF DeleteCatalog
  <1>6. \A j \in Ids : <<j, "meta">> \in op'[s].todo => j \notin catalog' /\ dir'[j] = "absent"
    <2>1. \A j \in Ids : <<j, "meta">> \in op'[s].todo => <<j, "meta">> \in op[s].todo
      <3>1. CASE Deleted(s, <<i, "catalog">>, {<<i, "dir">>})
        <4>1. op'[s].todo = (op[s].todo \ {<<i, "catalog">>}) \cup {<<i, "dir">>}
          BY <1>0, <3>1, DeletedNow DEF Now
        <4>2. \A j \in Ids : <<j, "meta">> # <<i, "dir">>
          OBVIOUS
        <4> QED BY <4>1, <4>2
      <3>2. CASE DeletionFailed(s, <<i, "catalog">>)
        BY <1>0, <3>2, DeletionFailedNow DEF Now
      <3> QED BY <1>3, <3>1, <3>2
    <2> QED BY <1>1, <1>2, <1>3, <2>1 DEF FilesInv, Works, Retiring
  <1>7. ListedFinite /\ ListedFinite'
    BY <1>2, ListedKept DEF FilesInv
  <1>8. Works(s)'
    <2>1. Published(s) /\ Retiring(s)
      BY DEF FilesInv, Works
    <2> QED BY <1>1, <1>2, <1>4, <1>5, <1>6, <1>7, <2>1, DeletingWorks
  <1>9. \A t \in Stores : Works(t)'
    BY <1>1, <1>4, <1>8, Elsewhere DEF UnderPermit, FilesInv
  <1> QED BY <1>7, <1>9 DEF FilesInv

\* TearDir keeps what the calls rely on.
LEMMA TearDirWorks ==
  ASSUME IInv, IInv', FilesInv, NEW s \in Stores, NEW i \in Ids, TearDir(s, i)
  PROVE  FilesInv'
  <1>1. op[s].pc = "delete" /\ <<i, "dir">> \in op[s].todo /\ dir[i] \in Placed
    BY DEF TearDir, At
  <1>2. UNCHANGED <<catalog, meta, metaDisk, active, activeDisk, rooted, refs, op>>
    BY DEF TearDir, stages, memory
  <1>3. \A j \in Ids \ {i} : dir'[j] = dir[j] /\ dirDisk'[j] = dirDisk[j]
    BY DEF TearDir, SetDir, IInv, StoreTyped, FilesTyped, DisksTyped
  <1>4. ListedFinite /\ ListedFinite' /\ Published(s) /\ Retiring(s)
    BY <1>2, ListedKept DEF FilesInv, Works
  <1>5. i # active
    BY <1>1 DEF IInv, Unleased
  <1>6. op[s].id # None => op[s].id \in Ids \ {i}
    BY <1>1, <1>4, <1>5 DEF Published, IInv, StoreTyped, FilesTyped
  <1>7. \A j \in Ids : <<j, "meta">> \in op[s].todo => j \notin catalog /\ dir'[j] = "absent"
    BY <1>1, <1>3, <1>4 DEF Retiring, Placed
  <1>8. Works(s)'
    BY <1>1, <1>2, <1>3, <1>4, <1>6, <1>7, DeletingWorks DEF Retiring
  <1>9. \A t \in Stores : Works(t)'
    BY <1>1, <1>2, <1>8, Elsewhere DEF UnderPermit, FilesInv
  <1> QED BY <1>4, <1>9 DEF FilesInv

\* DeleteDir keeps what the calls rely on.
LEMMA DeleteDirWorks ==
  ASSUME IInv, IInv', FilesInv, NEW s \in Stores, NEW i \in Ids, DeleteDir(s, i)
  PROVE  FilesInv'
  <1>0. CallsTyped
    BY DEF IInv, StoreTyped
  <1>1. op[s].pc = "delete" /\ <<i, "dir">> \in op[s].todo
    BY DEF DeleteDir, At
  <1>2. UNCHANGED <<catalog, meta, metaDisk, active, activeDisk, rooted, refs>>
    BY DEF DeleteDir, stages, memory
  <1>3. \A j \in Ids \ {i} : dir'[j] = dir[j] /\ dirDisk'[j] = dirDisk[j]
    BY DEF DeleteDir, SetDir, IInv, StoreTyped, FilesTyped, DisksTyped
  <1>4. ListedFinite /\ ListedFinite' /\ Published(s) /\ Retiring(s)
    BY <1>2, ListedKept DEF FilesInv, Works
  <1>5. i # active
    BY <1>1 DEF IInv, Unleased
  <1>6. op[s].id # None => op[s].id \in Ids \ {i}
    BY <1>1, <1>4, <1>5 DEF Published, IInv, StoreTyped, FilesTyped
  <1>7. \/ /\ dir'[i] = "absent"
           /\ Deleted(s, <<i, "dir">>, {<<i, "meta">>})
        \/ /\ dir' = dir
           /\ DeletionFailed(s, <<i, "dir">>)
    BY DEF DeleteDir, SetDir, IInv, StoreTyped, FilesTyped
  <1>8. /\ op'[s].pc = "delete" /\ op'[s].id = op[s].id /\ \A t \in Stores \ {s} : op'[t] = op[t]
        /\ \A y \in op'[s].todo : \E x \in op[s].todo : x[1] = y[1]
    <2> DEFINE v == <<i, "dir">>
               next == {<<i, "meta">>}
    <2>1. \A x \in next : x[1] = v[1]
      OBVIOUS
    <2>2. op[s].pc = "delete" /\ v \in op[s].todo /\ (Deleted(s, v, next) \/ DeletionFailed(s, v))
      BY <1>1, <1>7
    <2> HIDE DEF v, next
    <2> QED BY <1>0, <2>1, <2>2, DeleteNow, Zenon
  <1>9. /\ \A j \in Ids : <<j, "dir">> \in op'[s].todo => j \notin catalog'
        /\ \A j \in Ids : <<j, "meta">> \in op'[s].todo => j \notin catalog' /\ dir'[j] = "absent"
    <2>1. i \notin catalog
      BY <1>1, <1>4 DEF Retiring
    <2>2. /\ \A j \in Ids : <<j, "dir">> \in op[s].todo => j \notin catalog
          /\ \A j \in Ids : <<j, "meta">> \in op[s].todo => j \notin catalog /\ dir[j] = "absent"
      BY <1>1, <1>4 DEF Retiring
    <2>3. CASE dir'[i] = "absent" /\ Deleted(s, <<i, "dir">>, {<<i, "meta">>})
      <3>1. op'[s].todo = (op[s].todo \ {<<i, "dir">>}) \cup {<<i, "meta">>}
        BY <1>0, <2>3, DeletedNow DEF Now
      <3>2. \A j \in Ids : <<j, "dir">> \in op'[s].todo => <<j, "dir">> \in op[s].todo
        BY <3>1
      <3>3. \A j \in Ids \ {i} : <<j, "meta">> \in op'[s].todo => <<j, "meta">> \in op[s].todo
        BY <3>1
      <3> QED BY <1>2, <1>3, <2>1, <2>2, <2>3, <3>2, <3>3
    <2>4. CASE dir' = dir /\ DeletionFailed(s, <<i, "dir">>)
      <3>1. op'[s].todo = op[s].todo \ {<<i, "dir">>}
        BY <1>0, <2>4, DeletionFailedNow DEF Now
      <3> QED BY <1>2, <2>2, <2>4, <3>1
    <2> QED BY <1>7, <2>3, <2>4
  <1>10. Works(s)'
    BY <1>1, <1>2, <1>3, <1>4, <1>6, <1>8, <1>9, DeletingWorks
  <1>11. \A t \in Stores : Works(t)'
    BY <1>1, <1>8, <1>10, Elsewhere DEF UnderPermit, FilesInv
  <1> QED BY <1>4, <1>11 DEF FilesInv

\* DeleteMeta keeps what the calls rely on.
LEMMA DeleteMetaWorks ==
  ASSUME IInv, IInv', FilesInv, NEW s \in Stores, NEW i \in Ids, DeleteMeta(s, i)
  PROVE  FilesInv'
  <1>0. CallsTyped /\ FilesTyped /\ DisksTyped
    BY DEF IInv, StoreTyped
  <1>1. op[s].pc = "delete" /\ <<i, "meta">> \in op[s].todo
    BY DEF DeleteMeta, At
  <1>2. UNCHANGED <<dir, catalog, active, dirDisk, activeDisk, rooted, refs>>
    BY DEF DeleteMeta, stages, memory
  <1>3. \/ SetMeta(i, FALSE) /\ Deleted(s, <<i, "meta">>, {})
        \/ UNCHANGED <<meta, metaDisk>> /\ DeletionFailed(s, <<i, "meta">>)
    BY DEF DeleteMeta
  <1>4. ListedFinite /\ ListedFinite' /\ Published(s) /\ Retiring(s)
    <2>1. CASE SetMeta(i, FALSE)
      BY <1>0, <2>1, ListedSet DEF FilesInv, Works
    <2>2. CASE UNCHANGED <<meta, metaDisk>>
      BY <2>2, ListedKept DEF FilesInv, Works
    <2> QED BY <1>3, <2>1, <2>2
  <1>5. i # active
    BY <1>1 DEF IInv, Unleased
  <1>6. op[s].id # None => op[s].id \in Ids \ {i}
    BY <1>0, <1>1, <1>4, <1>5 DEF Published, FilesTyped
  <1>7. (\A j \in Ids \ {i} : metaDisk'[j] = metaDisk[j]) /\ (\A j \in Ids \ {i} : meta[j] => meta'[j])
    <2>1. CASE SetMeta(i, FALSE)
      BY <1>0, <2>1, SetMetaDisk
    <2>2. CASE UNCHANGED <<meta, metaDisk>>
      BY <2>2
    <2> QED BY <1>3, <2>1, <2>2
  <1>8. /\ op'[s].pc = "delete" /\ op'[s].id = op[s].id /\ \A t \in Stores \ {s} : op'[t] = op[t]
        /\ \A y \in op'[s].todo : \E x \in op[s].todo : x[1] = y[1]
    <2> DEFINE v == <<i, "meta">>
               next == {}
    <2>1. \A x \in next : x[1] = v[1]
      OBVIOUS
    <2>2. op[s].pc = "delete" /\ v \in op[s].todo /\ (Deleted(s, v, next) \/ DeletionFailed(s, v))
      BY <1>1, <1>3
    <2> HIDE DEF v, next
    <2> QED BY <1>0, <2>1, <2>2, DeleteNow, Zenon
  <1>9. op'[s].todo \subseteq op[s].todo
    <2>1. CASE Deleted(s, <<i, "meta">>, {})
      BY <1>0, <2>1, DeletedNow DEF Now
    <2>2. CASE DeletionFailed(s, <<i, "meta">>)
      BY <1>0, <2>2, DeletionFailedNow DEF Now
    <2> QED BY <1>3, <2>1, <2>2
  <1>10. \E x \in op[s].todo : x[1] = i
    <2>1. <<i, "meta">>[1] = i
      OBVIOUS
    <2> QED BY <1>1, <2>1
  <1>11. \A j \in Ids : meta[j] => meta'[j] \/ \E x \in op[s].todo : x[1] = j
    BY <1>7, <1>10
  <1>12. /\ \A j \in Ids : <<j, "dir">> \in op'[s].todo => j \notin catalog'
         /\ \A j \in Ids : <<j, "meta">> \in op'[s].todo => j \notin catalog' /\ dir'[j] = "absent"
    BY <1>1, <1>2, <1>4, <1>9 DEF Retiring
  <1>13. Works(s)'
    BY <1>1, <1>2, <1>4, <1>6, <1>7, <1>8, <1>11, <1>12, DeletingWorks
  <1>14. \A t \in Stores : Works(t)'
    BY <1>1, <1>8, <1>13, Elsewhere DEF UnderPermit, FilesInv
  <1> QED BY <1>4, <1>14 DEF FilesInv

\* As long as no store has the permit, what the calls rely on is nothing.
LEMMA NobodyWorks ==
  ASSUME IInv, FilesInv, holder = None, op' = op
  PROVE  \A t \in Stores : Works(t)'
  <1>1. \A t \in Stores : op[t].pc \notin UnderPermit
    BY IdsAssumption DEF IInv, Permitted
  <1> QED BY <1>1, Idling DEF FilesInv

\* Acquire and AcquireActive keep what the calls rely on.
LEMMA GrantWorks ==
  ASSUME IInv, FilesInv, NEW s \in Stores, NEW l \in Leases, NEW i, holder = None, Grant(s, l, i)
  PROVE  FilesInv'
  BY NobodyWorks, ListedKept DEF Grant, files, FilesInv

\* Release keeps what the calls rely on.
LEMMA ReleaseWorks ==
  ASSUME IInv, FilesInv, NEW l \in Leases, Release(l)
  PROVE  FilesInv'
  <1>1. PICK s \in Stores : s = lease[l].store
    BY DEF Release, IInv, StoreTyped, MemoryTyped, FreeLease
  <1>2. op[s].pc = "release" /\ op[s].id = None
    BY <1>1 DEF Release, IInv, Releasing, At, FilesInv, Works, Anonymous
  <1>3. \A t \in Stores : op[t].pc \notin UnderPermit
    BY IdsAssumption DEF Release, IInv, Permitted
  <1>4. PICK pc \in {"retain", "idle"} : Goto(s, pc)
    BY <1>1 DEF Release
  <1>5. Now(s, pc, op[s].todo, op[s].clean)
    BY <1>4, GotoNow DEF IInv, StoreTyped
  <1>6. Works(s)'
    BY <1>2, <1>5 DEF Now, Works, Anonymous, Written, Compensating, Published, Retiring
  <1>7. \A t \in Stores \ {s} : Works(t)'
    BY <1>3, <1>5, Idling DEF Now, FilesInv
  <1>8. UNCHANGED <<meta, metaDisk>>
    BY DEF Release, files
  <1> QED BY <1>6, <1>7, <1>8, ListedKept DEF FilesInv

\* A step of one store on no file and no counter keeps what the others rely on.
LEMMA QuietWorks ==
  ASSUME FilesInv, UNCHANGED <<files, rooted, refs>>, NEW s \in Stores,
         \A t \in Stores \ {s} : op'[t] = op[t],
         Works(s)'
  PROVE  FilesInv'
  <1>1. \A t \in Stores \ {s} : Works(t)'
    BY StillWorks DEF FilesInv
  <1>2. ListedFinite'
    BY ListedKept DEF FilesInv, files
  <1> QED BY <1>1, <1>2 DEF FilesInv

\* The calls that begin, and the steps of a publication outside the permit, keep
\* what the calls rely on.
LEMMA CallWorks ==
  ASSUME IInv, FilesInv, NEW s \in Stores, Call(s)
  PROVE  FilesInv'
  <1>0. CallsTyped
    BY DEF IInv, StoreTyped
  <1>1. ASSUME UNCHANGED <<files, rooted, memory, op>> PROVE FilesInv'
    <2>1. \A t \in Stores : Works(t)'
      BY <1>1, StillWorks DEF FilesInv, memory
    <2> QED BY <1>1, <2>1, ListedKept DEF FilesInv, files
  <1>2. CASE \E i \in Ids : CreateStaging(s, i) \/ CloseStaging(s, i)
    BY <1>1, <1>2 DEF CreateStaging, CloseStaging
  <1>7. CASE RecoverStaging(s)
    <2>1. op[s].pc = "idle" /\ op[s].id = None
      BY <1>7 DEF RecoverStaging, At, FilesInv, Works, Anonymous
    <2>2. Now(s, "recover", op[s].todo, op[s].clean)
      BY <1>0, <1>7, GotoNow DEF RecoverStaging
    <2>3. Works(s)'
      BY <2>1, <2>2 DEF Now, Works, Anonymous, Written, Compensating, Published, Retiring
    <2> QED BY <1>7, <2>2, <2>3, QuietWorks DEF RecoverStaging, Now, memory
  <1>3. ASSUME NEW i \in Ids, BeginPublish(s, i) PROVE FilesInv'
    <2>1. op'[s].pc = "verify" /\ \A t \in Stores \ {s} : op'[t] = op[t]
      BY <1>0, <1>3 DEF BeginPublish, CallsTyped, Idle
    <2>2. Works(s)'
      BY <2>1, Outside
    <2> QED BY <1>3, <2>1, <2>2, QuietWorks DEF BeginPublish, memory
  <1>4. CASE BeginCleanup(s)
    <2>1. op[s].pc = "idle" /\ op[s].id = None
      BY <1>4 DEF BeginCleanup, At, FilesInv, Works, Anonymous
    <2>2. Now(s, "retain", op[s].todo, op[s].clean)
      BY <1>0, <1>4, GotoNow DEF BeginCleanup
    <2>3. Works(s)'
      BY <2>1, <2>2 DEF Now, Works, Anonymous, Written, Compensating, Published, Retiring
    <2> QED BY <1>4, <2>2, <2>3, QuietWorks DEF BeginCleanup, Now, stages, memory
  <1>5. ASSUME NEW l \in Leases, AcquireActive(s, l) PROVE FilesInv'
    BY <1>5, GrantWorks DEF AcquireActive
  <1>6. ASSUME NEW l \in Leases, NEW i \in Ids, Acquire(s, l, i) PROVE FilesInv'
    BY <1>6, GrantWorks DEF Acquire
  <1> QED BY <1>2, <1>3, <1>4, <1>5, <1>6, <1>7 DEF Call

\* Verify and Drop keep what the calls rely on.
LEMMA VerifyDropWorks ==
  ASSUME IInv, FilesInv, NEW s \in Stores, Verify(s) \/ Drop(s)
  PROVE  FilesInv'
  <1>1. CallsTyped
    BY DEF IInv, StoreTyped
  <1>2. /\ op'[s].pc \in {"take", "drop"} \/ (op'[s].pc = "idle" /\ op'[s].id = None)
        /\ \A t \in Stores \ {s} : op'[t] = op[t]
    BY <1>1 DEF Verify, Drop, Goto, CallsTyped, Idle
  <1>3. Works(s)'
    BY <1>2, Outside
  <1>4. UNCHANGED <<files, rooted, refs>>
    BY DEF Verify, Drop, stages, memory
  <1> QED BY <1>2, <1>3, <1>4, QuietWorks

\* RemoveRoot and EndRecovery keep what the calls rely on, ...
LEMMA RecoveryWorks ==
  ASSUME IInv, FilesInv, NEW s \in Stores, EndRecovery(s) \/ \E r \in sweep[s] : RemoveRoot(s, r)
  PROVE  FilesInv'
  <1>1. CallsTyped
    BY DEF IInv, StoreTyped
  <1>2. op[s].pc = "recover" => op[s].id = None
    BY DEF FilesInv, Works, Anonymous
  <1>3. /\ op' = op \/ (op'[s].pc = "idle" /\ op'[s].id = None)
        /\ \A t \in Stores \ {s} : op'[t] = op[t]
    BY <1>1, <1>2 DEF EndRecovery, RemoveRoot, At, Goto, CallsTyped, Idle
  <1>4. UNCHANGED <<files, rooted, refs>>
    BY DEF EndRecovery, RemoveRoot, stages, memory
  <1>5. Works(s)'
    <2>1. CASE op' = op
      BY <1>4, <2>1, StillWorks DEF FilesInv
    <2>2. CASE op'[s].pc = "idle" /\ op'[s].id = None
      BY <2>2, Outside
    <2> QED BY <1>3, <2>1, <2>2
  <1> QED BY <1>3, <1>4, <1>5, QuietWorks

\* ... and TearRoot as well.
LEMMA TearRootWorks ==
  ASSUME FilesInv, NEW s \in Stores, NEW r \in sweep[s], TearRoot(s, r)
  PROVE  FilesInv'
  <1>1. UNCHANGED <<files, rooted, refs, op>>
    BY DEF TearRoot, memory
  <1>2. \A t \in Stores : Works(t)'
    BY <1>1, StillWorks DEF FilesInv
  <1> QED BY <1>1, <1>2, ListedKept DEF FilesInv, files

\* CloseLease and BeginRelease keep what the calls rely on.
LEMMA LeaseWorks ==
  ASSUME IInv, FilesInv, NEW l \in Leases, CloseLease(l) \/ BeginRelease(l)
  PROVE  FilesInv'
  <1>0. CallsTyped
    BY DEF IInv, StoreTyped
  <1>1. UNCHANGED <<files, rooted, refs>>
    BY DEF CloseLease, BeginRelease, stages
  <1>2. CASE CloseLease(l)
    <2>1. \A t \in Stores : Works(t)'
      BY <1>1, <1>2, StillWorks DEF FilesInv, CloseLease
    <2> QED BY <1>1, <2>1, ListedKept DEF FilesInv, files
  <1>3. CASE BeginRelease(l)
    <2>1. PICK s \in Stores : s = lease[l].store
      BY <1>3 DEF BeginRelease, IInv, StoreTyped, MemoryTyped, FreeLease
    <2>2. op[s].pc = "idle" /\ op[s].id = None
      BY <1>3, <2>1 DEF BeginRelease, At, FilesInv, Works, Anonymous
    <2>3. Now(s, "release", op[s].todo, op[s].clean)
      BY <1>0, <1>3, <2>1, GotoNow DEF BeginRelease
    <2>4. Works(s)'
      BY <2>2, <2>3 DEF Now, Works, Anonymous, Written, Compensating, Published, Retiring
    <2> QED BY <1>1, <2>3, <2>4, QuietWorks DEF Now
  <1> QED BY <1>2, <1>3

\* After a kill or a power failure no call relies on anything.
LEMMA ForgottenWorks ==
  ASSUME ForgetMemory
  PROVE  \A t \in Stores : Works(t)'
  <1> SUFFICES ASSUME NEW t \in Stores PROVE Works(t)'
    OBVIOUS
  <1>1. op'[t].pc = "idle" /\ op'[t].id = None
    BY DEF ForgetMemory, Idle
  <1> QED BY <1>1, Outside

\* A kill keeps the invariant of the files, ...
LEMMA CrashWorks ==
  ASSUME FilesInv, Crash
  PROVE  FilesInv'
  BY ForgottenWorks, ListedKept DEF FilesInv, Crash, files

\* ... and so does a power failure.
LEMMA PowerLossWorks ==
  ASSUME IInv, FilesInv, PowerLoss
  PROVE  FilesInv'
  <1>1. meta' \in [Ids -> BOOLEAN] /\ \A i \in Ids : meta'[i] = TRUE => TRUE \in metaDisk[i]
    BY DEF PowerLoss
  <1>2. metaDisk' = [i \in Ids |-> {meta'[i]}]
    BY DEF PowerLoss
  <1>3. \A i \in Ids : metaDisk'[i] = {meta'[i]}
    BY <1>2
  <1>4. \A i \in Ids : TRUE \in metaDisk'[i] => TRUE \in metaDisk[i]
    <2>1. \A i \in Ids : TRUE \in metaDisk'[i] => meta'[i] = TRUE
      BY <1>3, Zenon
    <2> QED BY <1>1, <2>1, Zenon
  <1>5. Listed' \in SUBSET Listed
    BY <1>4 DEF Listed
  <1>6. IsFiniteSet(Listed')
    BY <1>5, FS_Subset DEF FilesInv, ListedFinite
  <1>7. \A i \in Ids : meta'[i] => TRUE \in metaDisk'[i]
    BY <1>1, <1>3, Zenon
  <1>8. \A t \in Stores : Works(t)'
    BY ForgottenWorks DEF PowerLoss
  <1> QED BY <1>6, <1>7, <1>8 DEF FilesInv, ListedFinite

\* Every step does, ...
LEMMA FilesStep == IInv /\ IInv' /\ FilesInv /\ [Next]_vars => FilesInv'
  <1> SUFFICES ASSUME IInv, IInv', FilesInv, [Next]_vars PROVE FilesInv'
    OBVIOUS
  <1>1. CASE Next
    <2>1. ASSUME NEW s \in Stores, Call(s) PROVE FilesInv'
      BY <2>1, CallWorks
    <2>2. ASSUME NEW s \in Stores, StoreStep(s) PROVE FilesInv'
      BY <2>2, VerifyDropWorks, TakeWorks, SyncEpochsWorks, ActivateWorks, RecordWorks,
         RecordSyncWorks, CommitWorks, CommitSyncWorks, UndoDirWorks, UndoMetaWorks,
         UndoCatalogWorks, EndRollbackWorks, SelectVictimsWorks, EndCleanupWorks,
         DeleteCatalogWorks, DeleteDirWorks, DeleteMetaWorks, RecoveryWorks DEF StoreStep
    <2> QED BY <1>1, <2>1, <2>2, TearDirWorks, LeaseWorks, ReleaseWorks, CrashWorks,
               PowerLossWorks, TearRootWorks DEF Next
  <1>2. CASE UNCHANGED vars
    <2>1. \A t \in Stores : Works(t)'
      BY <1>2, StillWorks DEF FilesInv, vars, stages, memory
    <2> QED BY <1>2, <2>1, ListedKept DEF FilesInv, vars, files
  <1> QED BY <1>1, <1>2

\* ... it holds at first, ...
LEMMA FilesInit == Init => FilesInv
  <1> SUFFICES ASSUME Init PROVE FilesInv
    OBVIOUS
  <1>1. Listed = {}
    BY DEF Init, Listed
  <1>2. ListedFinite
    BY <1>1, FS_EmptySet DEF Init, ListedFinite
  <1>3. ASSUME NEW s \in Stores PROVE Works(s)
    <2>1. op[s].pc = "idle" /\ op[s].id = None
      BY DEF Init, Idle
    <2> QED BY <2>1 DEF Works, Anonymous, Written, Compensating, Published, Retiring
  <1> QED BY <1>2, <1>3 DEF FilesInv

\* ... and so it always holds.
LEMMA FilesInvariance == Spec => []FilesInv
  <1>1. IInv /\ IInv' /\ FilesInv /\ [Next]_vars => FilesInv'
    BY FilesStep
  <1> QED BY <1>1, FilesInit, Invariance, PTL DEF Spec

-----------------------------------------------------------------------------
(* What the retention pass deletes, and in which order *)

\* While a store deletes, the only directory and the only metadata that a step of
\* any store removes are those next on its list.
LEMMA NextDeleted ==
  ASSUME IInv, Next, NEW s \in Stores, op[s].pc = "delete", holder' = s, NEW i \in Ids
  PROVE  /\ dir'[i] = dir[i] \/ <<i, "dir">> \in op[s].todo
         /\ meta'[i] = meta[i] \/ <<i, "meta">> \in op[s].todo
  <1> USE DEF IInv, StoreTyped, At
  <1>1. ASSUME UNCHANGED <<dir, meta>>
        PROVE  dir'[i] = dir[i] /\ meta'[i] = meta[i]
    BY <1>1
  <1>2. ASSUME NEW t \in Stores, op[t].pc \in UnderPermit PROVE t = s
    BY <1>2, OneAtATime DEF UnderPermit
  <1>3. ASSUME NEW t \in Stores, Call(t) PROVE UNCHANGED <<dir, meta>>
    BY <1>3, CallFiles DEF files
  <1>4. ASSUME NEW t \in Stores, StoreStep(t)
        PROVE  \/ UNCHANGED <<dir, meta>>
               \/ \E j \in Ids : DeleteDir(t, j) \/ DeleteMeta(t, j)
    <2>1. CASE Take(t) \/ Record(t) \/ UndoDir(t) \/ UndoMeta(t)
      <3>1. op[t].pc \in {"take", "record", "rollback"}
        BY <2>1 DEF Take, Record, UndoDir, UndoMeta
      <3> QED BY <1>2, <3>1 DEF UnderPermit, Moved
    <2>2. CASE Verify(t) \/ SyncEpochs(t) \/ Activate(t) \/ RecordSync(t) \/ Commit(t) \/ CommitSync(t)
               \/ UndoCatalog(t) \/ EndRollback(t) \/ Drop(t) \/ SelectVictims(t) \/ EndCleanup(t)
               \/ EndRecovery(t) \/ (\E j \in Ids : DeleteCatalog(t, j)) \/ \E r \in sweep[t] : RemoveRoot(t, r)
      BY <2>2 DEF Verify, SyncEpochs, Activate, RecordSync, Commit, CommitSync, UndoCatalog,
                  EndRollback, Drop, SelectVictims, EndCleanup, DeleteCatalog, EndRecovery, RemoveRoot,
                  files
    <2> QED BY <1>4, <2>1, <2>2 DEF StoreStep
  <1>5. ASSUME NEW t \in Stores, NEW j \in Ids, DeleteDir(t, j) \/ TearDir(t, j)
        PROVE  (dir'[i] = dir[i] \/ <<i, "dir">> \in op[s].todo) /\ meta'[i] = meta[i]
    <2>1. op[t].pc = "delete" /\ <<j, "dir">> \in op[t].todo /\ meta' = meta
      BY <1>5 DEF DeleteDir, TearDir
    <2>2. t = s
      BY <1>2, <2>1 DEF UnderPermit
    <2>3. i # j => dir'[i] = dir[i]
      BY <1>5 DEF DeleteDir, TearDir, SetDir, FilesTyped
    <2> QED BY <2>1, <2>2, <2>3
  <1>6. ASSUME NEW t \in Stores, NEW j \in Ids, DeleteMeta(t, j)
        PROVE  dir'[i] = dir[i] /\ (meta'[i] = meta[i] \/ <<i, "meta">> \in op[s].todo)
    <2>1. op[t].pc = "delete" /\ <<j, "meta">> \in op[t].todo /\ dir' = dir
      BY <1>6 DEF DeleteMeta
    <2>2. t = s
      BY <1>2, <2>1 DEF UnderPermit
    <2>3. meta' = [meta EXCEPT ![j] = FALSE] \/ meta' = meta
      BY <1>6 DEF DeleteMeta, SetMeta
    <2>4. i # j => meta'[i] = meta[i]
      BY <2>3 DEF FilesTyped
    <2> QED BY <2>1, <2>2, <2>4
  <1>7. ASSUME NEW l \in Leases, CloseLease(l) \/ BeginRelease(l) \/ Release(l) PROVE UNCHANGED <<dir, meta>>
    BY <1>7 DEF CloseLease, BeginRelease, Release, files
  <1>8. CASE Crash
    BY <1>1, <1>8 DEF Crash, files
  <1>9. ~PowerLoss
    BY IdsAssumption DEF PowerLoss, ForgetMemory
  <1>10. ASSUME NEW t \in Stores, NEW r \in sweep[t], TearRoot(t, r) PROVE UNCHANGED <<dir, meta>>
    BY <1>10 DEF TearRoot, files
  <1> QED BY <1>1, <1>3, <1>4, <1>5, <1>6, <1>7, <1>8, <1>9, <1>10 DEF Next

\* In whatever order the deletions of a retention pass go, and whatever other
\* stores do meanwhile: what it deletes is neither active nor referred to, and
\* Retain newer epochs that are neither are there, and stay.
THEOREM NewestKept == Spec => RetentionKeepsNewest
  <1> DEFINE A == \A s \in Stores, i \in Ids :
                    At(s, "delete") /\ holder' = s /\ dir'[i] # dir[i] =>
                        /\ i # active /\ refs[i] = 0
                        /\ Cardinality({j \in Unprotected : j > i}) >= Retain
  <1>1. IInv /\ FilesInv /\ [Next]_vars => [A]_vars
    <2> SUFFICES ASSUME IInv, FilesInv, Next, NEW s \in Stores, NEW i \in Ids,
                        At(s, "delete"), holder' = s, dir'[i] # dir[i]
                 PROVE  /\ i # active /\ refs[i] = 0
                        /\ Cardinality({j \in Unprotected : j > i}) >= Retain
      OBVIOUS
    <2>1. op[s].pc = "delete" /\ <<i, "dir">> \in op[s].todo
      BY NextDeleted DEF At
    <2>2. i # active /\ refs[i] = 0
      <3>1. <<i, "dir">>[1] = i
        OBVIOUS
      <3> QED BY <2>1, <3>1, OthersDeleted
    <2>3. Cardinality({j \in Unprotected : j > i}) >= Retain
      <3> DEFINE B == {j \in Unprotected : j > i}
      <3>1. Cardinality(Kept(s, i)) >= Retain
        <4>1. <<i, "dir">>[1] = i
          OBVIOUS
        <4> QED BY <2>1, <4>1 DEF FilesInv, Works, Retiring
      <3>2. Kept(s, i) \subseteq B
        BY DEF Kept
      <3>3. IsFiniteSet(B)
        <4>1. B \in SUBSET Unprotected
          OBVIOUS
        <4>2. IsFiniteSet(Unprotected)
          BY UnprotectedFinite DEF FilesInv
        <4> QED BY <4>1, <4>2, FS_Subset
      <3> HIDE DEF B
      <3>4. Cardinality(B) >= Retain
        BY <3>1, <3>2, <3>3, MoreKept, BoundsAssumption
      <3> QED BY <3>4 DEF B
    <2> QED BY <2>2, <2>3
  <1> QED BY <1>1, Invariance, FilesInvariance, PTL DEF Spec, RetentionKeepsNewest

\* Whatever fails in between, an epoch loses its directory only after its catalog,
\* and its metadata only after both, so that what is left of it is listed.
THEOREM DeletedOutsideIn == Spec => DeletionOrder
  <1> DEFINE A == \A s \in Stores, i \in Ids :
                    At(s, "delete") /\ holder' = s =>
                        /\ dir'[i] # dir[i] => i \notin catalog
                        /\ meta'[i] # meta[i] => dir[i] = "absent" /\ i \notin catalog
  <1>1. IInv /\ FilesInv /\ [Next]_vars => [A]_vars
    <2> SUFFICES ASSUME IInv, FilesInv, Next, NEW s \in Stores, NEW i \in Ids,
                        At(s, "delete"), holder' = s
                 PROVE  /\ dir'[i] # dir[i] => i \notin catalog
                        /\ meta'[i] # meta[i] => dir[i] = "absent" /\ i \notin catalog
      OBVIOUS
    <2>1. op[s].pc = "delete" /\ Retiring(s)
      BY DEF At, FilesInv, Works
    <2>2. dir'[i] = dir[i] \/ <<i, "dir">> \in op[s].todo
      BY <2>1, NextDeleted
    <2>3. meta'[i] = meta[i] \/ <<i, "meta">> \in op[s].todo
      BY <2>1, NextDeleted
    <2> QED BY <2>1, <2>2, <2>3 DEF Retiring
  <1> QED BY <1>1, Invariance, FilesInvariance, PTL DEF Spec, DeletionOrder

\* From the retention pass on, which only a publication whose syncs all succeeded
\* reaches, its epoch survives a power failure: whatever happens at the same time
\* in other stores, its directory, its metadata and active-epoch.json are synced.
THEOREM SuccessDurable == Spec => []SuccessIsDurable
  <1>1. FilesInv => SuccessIsDurable
    BY DEF FilesInv, Works, Published, SuccessIsDurable
  <1> QED BY <1>1, FilesInvariance, PTL

-----------------------------------------------------------------------------
(* Power failures *)

\* One store publishes one epoch after another, each created after those on disk,
\* and no more attempts fail than the retention pass keeps epochs.
Orderly ==
    /\ \A s, t \in Stores : s = t
    /\ MaxStaged <= 1 /\ ClockForward
    /\ MaxFaults <= Retain

\* The epochs of which something can be seen, or that active-epoch.json may name.
OnDisk(j) == dir[j] # "absent" \/ meta[j] \/ j \in activeDisk

\* Those that a power failure may leave listed and newer than a, ...
Newer(a) == {j \in Listed : j > a}

\* ... and the steps at which a failure would leave one more of them.
InDoubt == {"recordSync", "commit", "commitSync"}

\* Until it is committed, nothing names what is being published.
Uncommitted == Moved \cup {"verify", "take"}

\* What is staged, or being published, is newer than what can be seen.
Staged(s) ==
    /\ \A i, j \in staging[s] : i = j
    /\ \A i \in staging[s], j \in Ids : OnDisk(j) => j < i
    /\ op[s].id # None => staging[s] = {}
    /\ op[s].pc \in Publishing \ {"drop"} => \A j \in Ids : OnDisk(j) => j <= op[s].id

\* Whatever active-epoch.json may name after a power failure is synced, unless a power
\* failure took epochs, and no newer than what it names now.
ActiveSafe ==
    /\ active \in activeDisk
    /\ \A a \in activeDisk \ {None} : active # None /\ a <= active
    /\ \A a \in activeDisk \ {None, lost} :
         /\ dir[a] \in Placed /\ meta[a]
         /\ dirDisk[a] \subseteq Placed /\ metaDisk[a] = {TRUE}

\* What is removed or rewritten is nothing that active-epoch.json may name.
Sparing(s) ==
    /\ op[s].pc \in Uncommitted => op[s].id \notin activeDisk
    /\ op[s].pc = "delete" => \A w \in op[s].todo : w[1] \notin activeDisk
    /\ op[s].pc \in {"commit", "commitSync"} => \A j \in Listed : j <= op[s].id

\* Every listed epoch newer than one that active-epoch.json may name is there because
\* of a failure, or is being published.
FewNewer(s) ==
    \A a \in activeDisk \ {None} :
        Cardinality(Newer(a)) <= faults + (IF op[s].pc \in InDoubt THEN 1 ELSE 0)

\* The invariant of the disk.
DiskInv == ActiveSafe /\ \A s \in Stores : Staged(s) /\ Sparing(s) /\ FewNewer(s)

\* The order of what is staged is kept by a step that shows nothing new, and stages nothing new.
LEMMA StagedKept ==
  ASSUME NEW s \in Stores, Staged(s), staging'[s] \subseteq staging[s],
         \A j \in Ids : OnDisk(j)' => OnDisk(j),
         op'[s].id \in {op[s].id, None},
         op'[s].pc \in Publishing \ {"drop"} => op[s].pc \in Publishing \ {"drop"} /\ op'[s].id = op[s].id
  PROVE  Staged(s)'
  <1>1. \A i, j \in staging'[s] : i = j
    BY DEF Staged
  <1>2. \A i \in staging'[s], j \in Ids : OnDisk(j)' => j < i
    BY DEF Staged
  <1>3. op'[s].id # None => staging'[s] = {}
    BY DEF Staged
  <1>4. op'[s].pc \in Publishing \ {"drop"} => \A j \in Ids : OnDisk(j)' => j <= op'[s].id
    BY DEF Staged
  <1> QED BY <1>1, <1>2, <1>3, <1>4 DEF Staged

\* What active-epoch.json may name stays safe if it is left alone.
LEMMA ActiveSafeKept ==
  ASSUME ActiveSafe, UNCHANGED <<active, lost>>, active \in activeDisk', activeDisk' \subseteq activeDisk,
         \A a \in activeDisk \ {None, lost} :
             dir'[a] \in Placed /\ meta'[a] /\ dirDisk'[a] \subseteq Placed /\ metaDisk'[a] = {TRUE}
  PROVE  ActiveSafe'
  BY DEF ActiveSafe

\* A call goes on to spare it if its list gets no longer, and it lists nothing new.
LEMMA SparingKept ==
  ASSUME NEW s \in Stores, Sparing(s), activeDisk' \subseteq activeDisk, Listed' \subseteq Listed,
         op'[s].pc \in Uncommitted => op[s].pc \in Uncommitted /\ op'[s].id = op[s].id,
         op'[s].pc = "delete" =>
             /\ op[s].pc = "delete"
             /\ \A w \in op'[s].todo : \E x \in op[s].todo : x[1] = w[1],
         op'[s].pc \in {"commit", "commitSync"} =>
             op[s].pc \in {"commit", "commitSync"} /\ op'[s].id = op[s].id
  PROVE  Sparing(s)'
  BY DEF Sparing

\* No more epochs are newer, and no less failures excuse them.
LEMMA FewNewerKept ==
  ASSUME ListedFinite, NEW s \in Stores, FewNewer(s), faults \in Nat, faults' \in Nat,
         activeDisk' \subseteq activeDisk, Listed' \subseteq Listed,
         \/ faults' = faults /\ (op[s].pc \in InDoubt => op'[s].pc \in InDoubt)
         \/ faults' = faults + 1
  PROVE  FewNewer(s)'
  <1> SUFFICES ASSUME NEW a \in activeDisk' \ {None}
               PROVE  Cardinality(Newer(a)') <= faults' + (IF op'[s].pc \in InDoubt THEN 1 ELSE 0)
    BY DEF FewNewer
  <1> DEFINE d == IF op[s].pc \in InDoubt THEN 1 ELSE 0
             e == IF op'[s].pc \in InDoubt THEN 1 ELSE 0
  <1>1. Cardinality(Newer(a)) <= faults + d
    BY DEF FewNewer
  <1>2. Newer(a)' \in SUBSET Newer(a) /\ Newer(a) \in SUBSET Listed
    BY DEF Newer
  <1>3. IsFiniteSet(Newer(a))
    BY <1>2, FS_Subset DEF ListedFinite
  <1>4. /\ Cardinality(Newer(a)') <= Cardinality(Newer(a))
        /\ Cardinality(Newer(a)') \in Nat /\ Cardinality(Newer(a)) \in Nat
    BY <1>2, <1>3, FS_Subset, FS_CardinalityType
  <1>5. faults + d <= faults' + e /\ faults + d \in Nat /\ faults' + e \in Nat
    <2>1. d \in {0, 1} /\ e \in {0, 1}
      OBVIOUS
    <2>2. (faults' = faults /\ (d = 1 => e = 1)) \/ faults' = faults + 1
      OBVIOUS
    <2>3. ASSUME NEW m \in Nat, NEW n \in Nat, NEW x \in {0, 1}, NEW y \in {0, 1},
                 (n = m /\ (x = 1 => y = 1)) \/ n = m + 1
          PROVE  m + x <= n + y /\ m + x \in Nat /\ n + y \in Nat
      BY <2>3
    <2> HIDE DEF d, e
    <2> QED BY <2>1, <2>2, <2>3, Zenon
  <1> HIDE DEF d, e
  <1>6. Cardinality(Newer(a)') <= faults' + e
    BY <1>1, <1>4, <1>5
  <1> QED BY <1>6 DEF e

\* A step that spares what active-epoch.json may name, ...
Spared ==
    \A a \in activeDisk \ {None, lost} :
        dir'[a] \in Placed /\ meta'[a] /\ dirDisk'[a] \subseteq Placed /\ metaDisk'[a] = {TRUE}

\* ... and one that takes a call no further than its publication or its deletions
\* were, and leaves nothing in doubt unless it fails.
Onward(s) ==
    /\ op'[s].id \in {op[s].id, None}
    /\ op'[s].pc \in Publishing \ {"drop"} => op[s].pc \in Publishing \ {"drop"} /\ op'[s].id = op[s].id
    /\ op'[s].pc \in Uncommitted => op[s].pc \in Uncommitted
    /\ op'[s].pc = "delete" =>
         /\ op[s].pc = "delete"
         /\ \A w \in op'[s].todo : \E x \in op[s].todo : x[1] = w[1]
    /\ op'[s].pc \in {"commit", "commitSync"} => op[s].pc \in {"commit", "commitSync"}
    /\ \/ faults' = faults /\ (op[s].pc \in InDoubt => op'[s].pc \in InDoubt)
       \/ faults' = faults + 1

\* Such a step keeps the invariant, if it adds nothing that can be seen or be listed.
LEMMA MildStep ==
  ASSUME IInv, IInv', FilesInv, DiskInv, Orderly, NEW s \in Stores,
         UNCHANGED <<active, activeDisk, lost>>, Spared, Onward(s), staging'[s] \subseteq staging[s],
         \A j \in Ids : OnDisk(j)' => OnDisk(j),
         Listed' \subseteq Listed
  PROVE  DiskInv'
  <1>1. ActiveSafe'
    BY ActiveSafeKept DEF DiskInv, ActiveSafe, Spared
  <1>2. Staged(s)'
    BY StagedKept DEF DiskInv, Onward
  <1>3. Sparing(s)'
    <2>1. \A pc \in Uncommitted \cup {"commit", "commitSync"} : pc \in Publishing \ {"drop"}
      BY DEF Publishing, Uncommitted, Moved
    <2> QED BY <2>1, SparingKept DEF DiskInv, Onward
  <1>4. FewNewer(s)'
    <2>1. faults \in Nat /\ faults' \in Nat
      BY BoundsAssumption DEF IInv, StoreTyped, CallsTyped
    <2> QED BY <2>1, FewNewerKept DEF DiskInv, Onward, FilesInv
  <1>5. \A t \in Stores : t = s
    BY DEF Orderly
  <1> QED BY <1>1, <1>2, <1>3, <1>4, <1>5 DEF DiskInv

\* It does if it touches no file, ...
LEMMA UntouchedStep ==
  ASSUME IInv, IInv', FilesInv, DiskInv, Orderly, NEW s \in Stores,
         UNCHANGED <<dir, meta, active, dirDisk, metaDisk, activeDisk, lost>>, Onward(s),
         staging'[s] \subseteq staging[s]
  PROVE  DiskInv'
  <1>1. Spared
    BY DEF DiskInv, ActiveSafe, Spared
  <1>2. (\A j \in Ids : OnDisk(j)' => OnDisk(j)) /\ Listed' \subseteq Listed
    BY DEF OnDisk, Listed
  <1> QED BY <1>1, <1>2, MildStep

\* ... only the directory of an epoch that active-epoch.json cannot name, ...
LEMMA DirSpared ==
  ASSUME IInv, DiskInv, NEW i \in Ids, i \notin activeDisk, UNCHANGED <<meta, metaDisk>>,
         \A j \in Ids \ {i} : dir'[j] = dir[j],
         \A j \in Ids \ {i} : dirDisk'[j] = dirDisk[j] \/ (dir[j] \in Placed => dirDisk'[j] \subseteq Placed)
  PROVE  Spared
  <1>1. \A a \in activeDisk \ {None, lost} : a \in Ids \ {i}
    BY DEF IInv, StoreTyped, DisksTyped
  <1> QED BY <1>1 DEF DiskInv, ActiveSafe, Spared

\* ... or only its metadata.
LEMMA MetaSpared ==
  ASSUME IInv, DiskInv, NEW i \in Ids, i \notin activeDisk, UNCHANGED dir,
         \A j \in Ids \ {i} : meta[j] => meta'[j],
         \A j \in Ids \ {i} : metaDisk'[j] = metaDisk[j] \/ metaDisk'[j] = {meta[j]},
         \A j \in Ids \ {i} : dirDisk'[j] = dirDisk[j] \/ (dir[j] \in Placed => dirDisk'[j] \subseteq Placed)
  PROVE  Spared
  <1> SUFFICES ASSUME NEW a \in activeDisk \ {None, lost}
               PROVE  dir'[a] \in Placed /\ meta'[a] /\ dirDisk'[a] \subseteq Placed /\ metaDisk'[a] = {TRUE}
    BY DEF Spared
  <1>1. a \in Ids \ {i}
    BY DEF IInv, StoreTyped, DisksTyped
  <1>2. dir[a] \in Placed /\ meta[a] /\ dirDisk[a] \subseteq Placed /\ metaDisk[a] = {TRUE}
    BY DEF DiskInv, ActiveSafe
  <1>3. metaDisk'[a] = {TRUE}
    <2>1. meta[a] = TRUE
      BY <1>1, <1>2, Zenon DEF IInv, StoreTyped, FilesTyped
    <2> QED BY <1>1, <1>2, <2>1
  <1> QED BY <1>1, <1>2, <1>3

\* Where a step of the only store leaves its call.
LEMMA NowOnward ==
  ASSUME NEW s \in Stores, NEW pc, NEW todo, NEW clean, Now(s, pc, todo, clean),
         pc \in Publishing \ {"drop"} => op[s].pc \in Publishing \ {"drop"},
         pc \in Uncommitted => op[s].pc \in Uncommitted,
         pc # "delete",
         pc \in {"commit", "commitSync"} => op[s].pc \in {"commit", "commitSync"},
         \/ faults' = faults /\ (op[s].pc \in InDoubt => pc \in InDoubt)
         \/ faults' = faults + 1
  PROVE  Onward(s)
  BY DEF Now, Onward

\* A failure that starts the compensations, or ends a call, keeps the invariant.
LEMMA FailOnward ==
  ASSUME CallsTyped, NEW s \in Stores, op[s].pc \in Publishing \ {"drop"}, Fault,
         NEW resources,
         (BeginRollback(s, resources) /\ op[s].pc \in Moved) \/ Goto(s, "drop")
  PROVE  Onward(s)
  <1>1. faults' = faults + 1
    BY DEF Fault
  <1>2. CASE BeginRollback(s, resources) /\ op[s].pc \in Moved
    <2>1. Now(s, "rollback", {op[s].id} \X resources, op[s].clean)
      BY <1>2, RollbackNow
    <2> QED BY <1>1, <1>2, <2>1, NowOnward DEF Publishing, Uncommitted
  <1>3. CASE Goto(s, "drop")
    <2>1. Now(s, "drop", op[s].todo, op[s].clean)
      BY <1>3, GotoNow
    <2> QED BY <1>1, <2>1, NowOnward DEF Publishing, Uncommitted, Moved
  <1> QED BY <1>2, <1>3

\* So does the end of a retention pass, whether it failed or not.
LEMMA EndRetentionOnward ==
  ASSUME CallsTyped, NEW s \in Stores, op[s].pc \in {"retain", "delete"}, EndRetention(s),
         faults' = faults \/ faults' = faults + 1
  PROVE  Onward(s)
  BY EndRetentionNow DEF Onward, Publishing, Uncommitted, Moved, InDoubt

\* CreateStaging keeps the invariant: the epoch it stages is the only one, and newer
\* than those that can be seen.
LEMMA CreateStagingSafe ==
  ASSUME IInv, IInv', FilesInv, DiskInv, Orderly, NEW s \in Stores, NEW i \in Ids, CreateStaging(s, i)
  PROVE  DiskInv'
  <1>1. UNCHANGED <<dir, meta, active, dirDisk, metaDisk, activeDisk, lost, op, faults>>
    BY DEF CreateStaging, files
  <1>2. staging[s] = {}
    <2> SUFFICES ASSUME NEW j \in staging[s] PROVE FALSE
      OBVIOUS
    <2>1. staging[s] = {j}
      BY DEF DiskInv, Staged
    <2>2. Cardinality(staging[s]) = 1
      BY <2>1, FS_Singleton
    <2> QED BY <2>2, BoundsAssumption DEF CreateStaging, Orderly
  <1>3. staging'[s] = {i}
    BY <1>2 DEF CreateStaging, IInv, StoreTyped, MemoryTyped
  <1>4. op[s].pc = "idle" /\ \A j \in Ids : OnDisk(j) => j < i
    BY IdsAssumption DEF CreateStaging, At, Orderly, OnDisk
  <1>5. Staged(s)'
    <2>1. op[s].id = None
      BY <1>4 DEF FilesInv, Works, Anonymous
    <2> QED BY <1>1, <1>3, <1>4, <2>1 DEF Staged, OnDisk, Publishing, Uncommitted, Moved
  <1>6. ActiveSafe' /\ Sparing(s)' /\ FewNewer(s)'
    BY <1>1 DEF DiskInv, ActiveSafe, Sparing, FewNewer, Newer, Listed
  <1> QED BY <1>5, <1>6 DEF DiskInv, Orderly

\* BeginPublish keeps the invariant: what it publishes was staged.
LEMMA BeginPublishSafe ==
  ASSUME IInv, IInv', FilesInv, DiskInv, Orderly, NEW s \in Stores, NEW i \in Ids, BeginPublish(s, i)
  PROVE  DiskInv'
  <1>1. UNCHANGED <<dir, meta, active, dirDisk, metaDisk, activeDisk, lost, faults>>
    BY DEF BeginPublish, files
  <1>2. op[s].pc = "idle" /\ op'[s].pc = "verify" /\ op'[s].id = i
    BY DEF BeginPublish, At, Idle, IInv, StoreTyped, CallsTyped
  <1>3. staging'[s] = {}
    BY DEF BeginPublish, IInv, StoreTyped, MemoryTyped, DiskInv, Staged
  <1>4. \A j \in Ids : OnDisk(j) => j < i
    BY DEF BeginPublish, DiskInv, Staged
  <1>5. Staged(s)'
    <2>1. \A j \in Ids : OnDisk(j)' => j <= i
      BY <1>1, <1>4, IdsAssumption DEF OnDisk
    <2> QED BY <1>2, <1>3, <2>1 DEF Staged
  <1>6. ActiveSafe'
    BY <1>1 DEF DiskInv, ActiveSafe
  <1>7. Sparing(s)'
    <2>1. i \notin activeDisk
      BY <1>4, IdsAssumption DEF OnDisk
    <2> QED BY <1>1, <1>2, <2>1 DEF Sparing, Uncommitted, Moved
  <1>8. FewNewer(s)'
    <2>1. faults \in Nat
      BY BoundsAssumption DEF IInv, StoreTyped, CallsTyped
    <2> QED BY <1>1, <1>2, <2>1, FewNewerKept DEF DiskInv, FilesInv, InDoubt, Listed
  <1> QED BY <1>5, <1>6, <1>7, <1>8 DEF DiskInv, Orderly

\* The other calls that begin keep the invariant.
LEMMA CallSafe ==
  ASSUME IInv, IInv', FilesInv, DiskInv, Orderly, NEW s \in Stores, Call(s)
  PROVE  DiskInv'
  <1>1. UNCHANGED <<dir, meta, active, dirDisk, metaDisk, activeDisk, lost>>
    BY CallKeepsLost, CallFiles DEF files
  <1>2. ASSUME UNCHANGED <<op, faults>> PROVE Onward(s)
    BY <1>2 DEF Onward
  <1>3. ASSUME NEW i \in Ids, CloseStaging(s, i) PROVE DiskInv'
    <2>1. staging'[s] \subseteq staging[s]
      BY <1>3 DEF CloseStaging, IInv, StoreTyped, MemoryTyped
    <2> QED BY <1>1, <1>2, <1>3, <2>1, UntouchedStep DEF CloseStaging
  <1>4. CASE RecoverStaging(s)
    <2>1. Now(s, "recover", op[s].todo, op[s].clean)
      BY <1>4, GotoNow DEF RecoverStaging, IInv, StoreTyped
    <2>2. op[s].pc = "idle" /\ UNCHANGED <<staging, faults>>
      BY <1>4 DEF RecoverStaging, At
    <2>3. Onward(s)
      BY <2>1, <2>2, NowOnward DEF Publishing, Uncommitted, Moved, InDoubt
    <2> QED BY <1>1, <2>2, <2>3, UntouchedStep
  <1>5. CASE BeginCleanup(s)
    <2>1. Now(s, "retain", op[s].todo, op[s].clean)
      BY <1>5, GotoNow DEF BeginCleanup, IInv, StoreTyped
    <2>2. op[s].pc = "idle" /\ UNCHANGED <<staging, faults>>
      BY <1>5 DEF BeginCleanup, At, stages
    <2>3. Onward(s)
      BY <2>1, <2>2, NowOnward DEF Publishing, Uncommitted, Moved, InDoubt
    <2> QED BY <1>1, <2>2, <2>3, UntouchedStep
  <1>6. ASSUME NEW l \in Leases, NEW i, Grant(s, l, i) PROVE DiskInv'
    BY <1>1, <1>2, <1>6, UntouchedStep DEF Grant, stages
  <1>7. ASSUME NEW l \in Leases, AcquireActive(s, l) \/ \E i \in Ids : Acquire(s, l, i) PROVE DiskInv'
    BY <1>6, <1>7 DEF AcquireActive, Acquire
  <1> QED BY <1>3, <1>4, <1>5, <1>7, CreateStagingSafe, BeginPublishSafe DEF Call

\* The steps on references keep the invariant.
LEMMA LeaseSafe ==
  ASSUME IInv, IInv', FilesInv, DiskInv, Orderly, NEW l \in Leases,
         CloseLease(l) \/ BeginRelease(l) \/ Release(l)
  PROVE  DiskInv'
  <1>1. UNCHANGED <<dir, meta, active, dirDisk, metaDisk, activeDisk, lost, staging, faults>>
    BY DEF CloseLease, BeginRelease, Release, files, stages
  <1>2. PICK s \in Stores : s = lease[l].store
    BY DEF CloseLease, BeginRelease, Release, IInv, StoreTyped, MemoryTyped, FreeLease
  <1>3. CASE CloseLease(l)
    <2>1. Onward(s)
      BY <1>1, <1>3 DEF CloseLease, Onward
    <2> QED BY <1>1, <2>1, UntouchedStep
  <1>4. CASE BeginRelease(l) \/ Release(l)
    <2>1. op[s].pc \in {"idle", "release"}
      BY <1>2, <1>4 DEF BeginRelease, Release, IInv, Releasing, At
    <2>2. PICK pc \in {"release", "retain", "idle"} : Goto(s, pc)
      BY <1>2, <1>4 DEF BeginRelease, Release
    <2>3. Now(s, pc, op[s].todo, op[s].clean)
      BY <2>2, GotoNow DEF IInv, StoreTyped
    <2>4. Onward(s)
      BY <1>1, <2>1, <2>3, NowOnward DEF Publishing, Uncommitted, Moved, InDoubt
    <2> QED BY <1>1, <2>4, UntouchedStep
  <1> QED BY <1>3, <1>4

\* What recoverStaging removes is in no epoch.
LEMMA RecoverySafe ==
  ASSUME IInv, IInv', FilesInv, DiskInv, Orderly, NEW s \in Stores,
         EndRecovery(s) \/ \E r \in sweep[s] : TearRoot(s, r) \/ RemoveRoot(s, r)
  PROVE  DiskInv'
  <1>1. UNCHANGED <<dir, meta, active, dirDisk, metaDisk, activeDisk, lost, staging>>
    BY DEF EndRecovery, TearRoot, RemoveRoot, files, stages
  <1>2. CallsTyped
    BY DEF IInv, StoreTyped
  <1>3. CASE EndRecovery(s)
    <2>1. op[s].pc = "recover" /\ Now(s, "idle", op[s].todo, op[s].clean) /\ faults' = faults
      BY <1>2, <1>3, GotoNow DEF EndRecovery, At
    <2>2. Onward(s)
      BY <2>1, NowOnward DEF Publishing, Uncommitted, Moved, InDoubt
    <2> QED BY <1>1, <2>2, UntouchedStep
  <1>4. CASE \E r \in sweep[s] : TearRoot(s, r) \/ RemoveRoot(s, r)
    <2>1. \/ UNCHANGED <<op, faults>>
          \/ faults' = faults + 1 /\ op' = [op EXCEPT ![s] = IF At(s, "recover") THEN Idle ELSE @]
      BY <1>4 DEF TearRoot, RemoveRoot, NoFault, Fault
    <2>2. CASE UNCHANGED <<op, faults>>
      <3>1. Onward(s)
        BY <2>2 DEF Onward
      <3> QED BY <1>1, <3>1, UntouchedStep
    <2>3. CASE faults' = faults + 1 /\ op' = [op EXCEPT ![s] = IF At(s, "recover") THEN Idle ELSE @]
      <3>1. op'[s] = op[s] \/ (op'[s].pc = "idle" /\ op'[s].id = None)
        BY <1>2, <2>3 DEF CallsTyped, Idle
      <3>2. Onward(s)
        BY <2>3, <3>1 DEF Onward, Publishing, Uncommitted, Moved
      <3> QED BY <1>1, <3>2, UntouchedStep
    <2> QED BY <2>1, <2>2, <2>3
  <1> QED BY <1>3, <1>4

\* Verify, Drop, EndRollback and EndCleanup keep the invariant.
LEMMA QuietSafe ==
  ASSUME IInv, IInv', FilesInv, DiskInv, Orderly, NEW s \in Stores,
         Verify(s) \/ Drop(s) \/ EndRollback(s) \/ EndCleanup(s)
  PROVE  DiskInv'
  <1>1. UNCHANGED <<dir, meta, active, dirDisk, metaDisk, activeDisk, lost, staging, faults>>
    BY DEF Verify, Drop, EndRollback, EndCleanup, files, stages
  <1>2. CallsTyped
    BY DEF IInv, StoreTyped
  <1>3. CASE Verify(s) \/ EndRollback(s)
    <2>1. op[s].pc \in {"verify", "rollback"}
      BY <1>3 DEF Verify, EndRollback, At
    <2>2. PICK pc \in {"take", "drop"} : Goto(s, pc)
      BY <1>3 DEF Verify, EndRollback
    <2>3. Now(s, pc, op[s].todo, op[s].clean)
      BY <1>2, <2>2, GotoNow
    <2>4. Onward(s)
      BY <1>1, <2>1, <2>2, <2>3, NowOnward DEF Publishing, Uncommitted, Moved, InDoubt
    <2> QED BY <1>1, <2>4, UntouchedStep
  <1>4. CASE Drop(s)
    <2>1. op[s].pc = "drop" /\ op'[s].pc = "idle" /\ op'[s].id = None
      BY <1>2, <1>4 DEF Drop, At, CallsTyped, Idle
    <2>2. Onward(s)
      BY <1>1, <2>1 DEF Onward, Publishing, Uncommitted, Moved, InDoubt
    <2> QED BY <1>1, <2>2, UntouchedStep
  <1>5. CASE EndCleanup(s)
    <2>1. op[s].pc = "delete"
      BY <1>5 DEF EndCleanup, At
    <2>2. Onward(s)
      BY <1>1, <1>2, <1>5, <2>1, EndRetentionOnward DEF EndCleanup
    <2> QED BY <1>1, <2>2, UntouchedStep
  <1> QED BY <1>3, <1>4, <1>5

\* Take keeps the invariant: what it moves was not there, so nothing names it.
LEMMA TakeSafe ==
  ASSUME IInv, IInv', FilesInv, DiskInv, Orderly, NEW s \in Stores, Take(s)
  PROVE  DiskInv'
  <1> DEFINE i == op[s].id
  <1>1. op[s].pc = "take" /\ i \in Ids /\ CallsTyped
    BY DEF Take, At, IInv, Permitted, Publishing, StoreTyped
  <1>2. UNCHANGED <<meta, active, metaDisk, activeDisk, lost, staging>>
    BY DEF Take, FailUnmoved, files
  <1>3. ASSUME NEW v, NEW w, dir' = [dir EXCEPT ![i] = v], dirDisk' = [dirDisk EXCEPT ![i] = @ \cup w],
               Goto(s, "sync"), NoFault
        PROVE  DiskInv'
    <2>1. Now(s, "sync", op[s].todo, op[s].clean)
      BY <1>1, <1>3, GotoNow
    <2>2. i \notin activeDisk
      BY <1>1 DEF DiskInv, Sparing, Uncommitted
    <2>4. \A j \in Ids \ {i} : dir'[j] = dir[j] /\ dirDisk'[j] = dirDisk[j]
      BY <1>3 DEF IInv, StoreTyped, FilesTyped, DisksTyped
    <2>5. ActiveSafe'
      <3>1. Spared
        BY <1>1, <1>2, <2>2, <2>4, DirSpared
      <3> QED BY <1>2, <3>1, ActiveSafeKept DEF DiskInv, ActiveSafe, Spared
    <2>6. Staged(s)'
      <3>1. i # None /\ staging'[s] = {}
        BY <1>1, <1>2, IdsAssumption DEF DiskInv, Staged
      <3>2. \A j \in Ids : OnDisk(j)' => j = i \/ OnDisk(j)
        BY <1>2, <2>4 DEF OnDisk
      <3>3. \A j \in Ids : OnDisk(j) => j <= i
        BY <1>1 DEF DiskInv, Staged, Publishing
      <3>4. \A j \in Ids : OnDisk(j)' => j <= i
        BY <1>1, <3>2, <3>3, IdsAssumption
      <3> QED BY <2>1, <3>1, <3>4 DEF Staged, Now
    <2>7. Sparing(s)'
      BY <1>2, <2>1, <2>2 DEF Sparing, Now
    <2>8. FewNewer(s)'
      <3>1. faults \in Nat /\ faults' = faults
        BY <1>3, BoundsAssumption DEF NoFault, IInv, StoreTyped, CallsTyped
      <3> QED BY <1>1, <1>2, <3>1, FewNewerKept DEF DiskInv, FilesInv, InDoubt, Listed
    <2> QED BY <2>5, <2>6, <2>7, <2>8 DEF DiskInv, Orderly
  <1>4. CASE FailUnmoved(s) /\ (NoFault \/ Fault)
    <2>1. Now(s, "drop", op[s].todo, op[s].clean)
      BY <1>1, <1>4, GotoNow DEF FailUnmoved
    <2>2. Onward(s)
      BY <1>1, <1>4, <2>1, NowOnward DEF NoFault, Fault, Publishing, Uncommitted, Moved, InDoubt
    <2>3. UNCHANGED <<dir, dirDisk>>
      BY <1>4 DEF FailUnmoved, files
    <2> QED BY <1>2, <2>2, <2>3, UntouchedStep
  <1> QED BY <1>3, <1>4 DEF Take

\* A failed step of a publication that has moved keeps the invariant.
LEMMA RollbackSafe ==
  ASSUME IInv, IInv', FilesInv, DiskInv, Orderly, NEW s \in Stores, op[s].pc \in Moved,
         NEW resources, Fault, BeginRollback(s, resources),
         UNCHANGED <<dir, meta, active, dirDisk, metaDisk, activeDisk, lost, staging>>
  PROVE  DiskInv'
  <1>1. Onward(s)
    BY FailOnward DEF Publishing, Uncommitted, Moved, IInv, StoreTyped
  <1> QED BY <1>1, UntouchedStep

\* SyncEpochs keeps the invariant.
LEMMA SyncEpochsSafe ==
  ASSUME IInv, IInv', FilesInv, DiskInv, Orderly, NEW s \in Stores, SyncEpochs(s)
  PROVE  DiskInv'
  <1>1. op[s].pc = "sync" /\ op[s].id \in Ids /\ CallsTyped
    BY DEF SyncEpochs, At, IInv, Permitted, Publishing, Uncommitted, Moved, StoreTyped
  <1>2. UNCHANGED <<dir, meta, active, metaDisk, activeDisk, lost, staging>>
    BY DEF SyncEpochs, stages
  <1>3. CASE NoFault /\ dirDisk' = SyncedDirs /\ Goto(s, "activate")
    <2>1. Now(s, "activate", op[s].todo, op[s].clean)
      BY <1>1, <1>3, GotoNow
    <2>2. Onward(s)
      BY <1>1, <1>3, <2>1, NowOnward DEF NoFault, Publishing, Uncommitted, Moved, InDoubt
    <2>3. op[s].id \notin activeDisk
      BY <1>1 DEF DiskInv, Sparing, Uncommitted, Moved
    <2>4. Spared
      BY <1>1, <1>2, <1>3, <2>3, DirSpared, SyncedWhole
    <2>5. (\A j \in Ids : OnDisk(j)' => OnDisk(j)) /\ Listed' \subseteq Listed
      BY <1>2 DEF OnDisk, Listed
    <2> QED BY <1>2, <2>2, <2>4, <2>5, MildStep
  <1>4. CASE Fault /\ UNCHANGED dirDisk /\ BeginRollback(s, Unpublished)
    BY <1>1, <1>2, <1>4, RollbackSafe DEF Uncommitted, Moved
  <1> QED BY <1>3, <1>4 DEF SyncEpochs

\* Activate keeps the invariant.
LEMMA ActivateSafe ==
  ASSUME IInv, IInv', FilesInv, DiskInv, Orderly, NEW s \in Stores, Activate(s)
  PROVE  DiskInv'
  <1>1. op[s].pc = "activate" /\ CallsTyped
    BY DEF Activate, At, IInv, StoreTyped
  <1>2. UNCHANGED <<dir, meta, active, dirDisk, metaDisk, activeDisk, lost, staging>>
    BY DEF Activate, stages
  <1>3. CASE NoFault /\ Goto(s, "record")
    <2>1. Now(s, "record", op[s].todo, op[s].clean)
      BY <1>1, <1>3, GotoNow
    <2>2. Onward(s)
      BY <1>1, <1>3, <2>1, NowOnward DEF NoFault, Publishing, Uncommitted, Moved, InDoubt
    <2> QED BY <1>2, <2>2, UntouchedStep
  <1>4. CASE Fault /\ BeginRollback(s, Unpublished)
    BY <1>1, <1>2, <1>4, RollbackSafe DEF Uncommitted, Moved
  <1> QED BY <1>3, <1>4 DEF Activate

\* Record keeps the invariant: what it lists is newer than what may be named, and in doubt.
LEMMA RecordSafe ==
  ASSUME IInv, IInv', FilesInv, DiskInv, Orderly, NEW s \in Stores, Record(s)
  PROVE  DiskInv'
  <1> DEFINE i == op[s].id
  <1>1. op[s].pc = "record" /\ i \in Ids /\ CallsTyped /\ FilesTyped /\ DisksTyped
    BY DEF Record, At, IInv, Permitted, Publishing, Uncommitted, Moved, StoreTyped
  <1>2. UNCHANGED <<dir, active, activeDisk, lost, staging>>
    BY DEF Record, stages
  <1>3. CASE NoFault /\ SetMeta(i, TRUE) /\ dirDisk' = SyncedDirs /\ Goto(s, "recordSync")
    <2>1. Now(s, "recordSync", op[s].todo, op[s].clean)
      BY <1>1, <1>3, GotoNow
    <2>2. i \notin activeDisk
      BY <1>1 DEF DiskInv, Sparing, Uncommitted, Moved
    <2>3. /\ \A j \in Ids \ {i} : metaDisk'[j] = metaDisk[j]
          /\ \A j \in Ids \ {i} : meta'[j] <=> meta[j]
      BY <1>1, <1>3, SetMetaDisk
    <2>4. Spared
      <3>1. \A j \in Ids : dir[j] \in Placed => dirDisk'[j] \subseteq Placed
        BY <1>3, SyncedWhole
      <3> QED BY <1>1, <1>2, <2>2, <2>3, <3>1, MetaSpared
    <2>5. ActiveSafe'
      BY <1>2, <2>4, ActiveSafeKept DEF DiskInv, ActiveSafe, Spared
    <2>6. Staged(s)'
      <3>1. dir[i] \in Placed
        BY <1>1 DEF FilesInv, Works, Written
      <3>2. \A j \in Ids : OnDisk(j)' => OnDisk(j)
        BY <1>1, <1>2, <2>3, <3>1 DEF OnDisk, Placed
      <3> QED BY <1>1, <1>2, <2>1, <3>2, StagedKept DEF DiskInv, Now, Publishing, Uncommitted, Moved
    <2>7. Sparing(s)'
      BY <1>2, <2>1, <2>2 DEF Sparing, Now
    <2>8. FewNewer(s)'
      <3>1. Listed' \subseteq Listed \cup {i}
        BY <1>1, <1>3, ListedSet DEF FilesInv
      <3> SUFFICES ASSUME NEW a \in activeDisk \ {None}
                   PROVE  Cardinality(Newer(a)') <= faults + 1
        BY <1>2, <1>3, <2>1 DEF FewNewer, Now, InDoubt, NoFault
      <3>2. IsFiniteSet(Newer(a)) /\ Cardinality(Newer(a)) \in Nat
        <4>1. Newer(a) \in SUBSET Listed
          BY DEF Newer
        <4> QED BY <4>1, FS_Subset, FS_CardinalityType DEF FilesInv, ListedFinite
      <3>3. Newer(a)' \in SUBSET (Newer(a) \cup {i})
        BY <3>1 DEF Newer
      <3>4. Cardinality(Newer(a)) <= faults
        <4>1. Cardinality(Newer(a)) <= faults + 0
          BY <1>1 DEF DiskInv, FewNewer, InDoubt
        <4> QED BY <4>1, BoundsAssumption DEF IInv, StoreTyped, CallsTyped
      <3>5. IsFiniteSet(Newer(a) \cup {i}) /\ Cardinality(Newer(a) \cup {i}) <= Cardinality(Newer(a)) + 1
        BY <3>2, FS_AddElement
      <3>6. /\ Cardinality(Newer(a)') <= Cardinality(Newer(a) \cup {i})
            /\ Cardinality(Newer(a)') \in Nat /\ Cardinality(Newer(a) \cup {i}) \in Nat
        BY <3>3, <3>5, FS_Subset, FS_CardinalityType
      <3>7. faults \in Nat
        BY BoundsAssumption DEF IInv, StoreTyped, CallsTyped
      <3> QED BY <3>2, <3>4, <3>5, <3>6, <3>7
    <2> QED BY <2>5, <2>6, <2>7, <2>8 DEF DiskInv, Orderly
  <1>4. CASE Fault /\ BeginRollback(s, Resources) /\ UNCHANGED <<meta, metaDisk, dirDisk>>
    BY <1>1, <1>2, <1>4, RollbackSafe DEF Uncommitted, Moved
  <1> QED BY <1>3, <1>4 DEF Record

\* Once a publication is about to be committed, nothing listed is newer.
LEMMA NoneNewer ==
  ASSUME NEW s \in Stores, Sparing(s), op[s].pc \in {"commit", "commitSync"}, op[s].id \in Ids
  PROVE  \A j \in Listed : ~(j > op[s].id)
  <1>1. \A j \in Listed : j \in Int /\ j <= op[s].id
    BY IdsAssumption DEF Sparing, Listed
  <1>2. op[s].id \in Int
    BY IdsAssumption
  <1> QED BY <1>1, <1>2

\* RecordSync keeps the invariant: what is listed then can be seen.
LEMMA RecordSyncSafe ==
  ASSUME IInv, IInv', FilesInv, DiskInv, Orderly, NEW s \in Stores, RecordSync(s)
  PROVE  DiskInv'
  <1> DEFINE i == op[s].id
  <1>1. op[s].pc = "recordSync" /\ i \in Ids /\ CallsTyped /\ FilesTyped
    BY DEF RecordSync, At, IInv, Permitted, Publishing, Uncommitted, Moved, StoreTyped
  <1>2. UNCHANGED <<dir, meta, active, dirDisk, activeDisk, lost, staging>>
    BY DEF RecordSync, stages
  <1>3. CASE NoFault /\ metaDisk' = SyncedMeta /\ Goto(s, "commit")
    <2>1. Now(s, "commit", op[s].todo, op[s].clean)
      BY <1>1, <1>3, GotoNow
    <2>2. i \notin activeDisk
      BY <1>1 DEF DiskInv, Sparing, Uncommitted, Moved
    <2>3. \A j \in Ids : metaDisk'[j] = {meta[j]}
      BY <1>3, SyncedListed
    <2>4. Listed' \subseteq Listed
      BY <1>1, <1>2, <2>3, ListedSynced DEF FilesInv
    <2>5. ActiveSafe'
      <3>1. Spared
        BY <1>1, <1>2, <2>2, <2>3, MetaSpared
      <3> QED BY <1>2, <3>1, ActiveSafeKept DEF DiskInv, ActiveSafe, Spared
    <2>6. Staged(s)'
      <3>1. \A j \in Ids : OnDisk(j)' => OnDisk(j)
        BY <1>2 DEF OnDisk
      <3> QED BY <1>1, <1>2, <2>1, <3>1, StagedKept DEF DiskInv, Now, Publishing, Uncommitted, Moved
    <2>7. Sparing(s)'
      <3>1. \A j \in Listed' : j \in Ids /\ meta[j]
        <4>1. \A j \in Ids : TRUE \in metaDisk'[j] => meta[j]
          BY <1>1, <2>3, Zenon DEF FilesTyped
        <4> QED BY <4>1 DEF Listed
      <3>2. \A j \in Listed' : j <= i
        BY <1>1, <3>1 DEF DiskInv, Staged, OnDisk, Publishing, Uncommitted, Moved
      <3> QED BY <1>2, <2>1, <2>2, <3>2 DEF Sparing, Now
    <2>8. FewNewer(s)'
      <3>1. faults \in Nat /\ faults' = faults /\ op'[s].pc = "commit"
        BY <1>3, <2>1, BoundsAssumption DEF NoFault, IInv, StoreTyped, CallsTyped, Now
      <3> QED BY <1>2, <2>4, <3>1, FewNewerKept DEF DiskInv, FilesInv, InDoubt
    <2> QED BY <2>5, <2>6, <2>7, <2>8 DEF DiskInv, Orderly
  <1>4. CASE Fault /\ UNCHANGED metaDisk /\ BeginRollback(s, Resources)
    BY <1>1, <1>2, <1>4, RollbackSafe DEF Uncommitted, Moved
  <1> QED BY <1>3, <1>4 DEF RecordSync

\* Commit keeps the invariant: what it names is synced, and nothing listed is newer.
LEMMA CommitSafe ==
  ASSUME IInv, IInv', FilesInv, DiskInv, Orderly, NEW s \in Stores, Commit(s)
  PROVE  DiskInv'
  <1> DEFINE i == op[s].id
  <1>1. op[s].pc = "commit" /\ i \in Ids /\ i # None /\ CallsTyped
    BY IdsAssumption DEF Commit, At, IInv, Permitted, Publishing, Uncommitted, Moved, StoreTyped
  <1>2. UNCHANGED <<dir, meta, dirDisk, metaDisk, lost, staging>>
    BY DEF Commit, stages
  <1>3. CASE NoFault /\ active' = i /\ activeDisk' = activeDisk \cup {i} /\ Goto(s, "commitSync")
    <2>1. Now(s, "commitSync", op[s].todo, op[s].clean)
      BY <1>1, <1>3, GotoNow
    <2>2. dir[i] \in Placed /\ dirDisk[i] \subseteq Placed /\ meta[i] /\ metaDisk[i] = {TRUE}
      BY <1>1 DEF FilesInv, Works, Written
    <2>3. ActiveSafe'
      <3>1. \A a \in activeDisk \ {None} : a \in Ids /\ OnDisk(a)
        BY DEF OnDisk, IInv, StoreTyped, DisksTyped
      <3>2. \A a \in activeDisk \ {None} : a <= i
        BY <1>1, <3>1 DEF DiskInv, Staged, Publishing, Uncommitted, Moved
      <3>3. i <= i
        BY <1>1, IdsAssumption
      <3> QED BY <1>1, <1>2, <1>3, <2>2, <3>2, <3>3 DEF DiskInv, ActiveSafe
    <2>4. Staged(s)'
      <3>1. \A j \in Ids : OnDisk(j)' => OnDisk(j)
        BY <1>2, <1>3, <2>2 DEF OnDisk, Placed
      <3> QED BY <1>1, <1>2, <2>1, <3>1, StagedKept DEF DiskInv, Now, Publishing, Uncommitted, Moved
    <2>5. Sparing(s)'
      <3>1. \A j \in Listed' : j <= i
        BY <1>1, <1>2 DEF DiskInv, Sparing, Listed
      <3> QED BY <2>1, <3>1 DEF Sparing, Now, Uncommitted, Moved
    <2>6. FewNewer(s)'
      <3> SUFFICES ASSUME NEW a \in (activeDisk \cup {i}) \ {None}
                   PROVE  Cardinality(Newer(a)') <= faults + 1
        BY <1>3, <2>1 DEF FewNewer, Now, InDoubt, NoFault
      <3>1. Newer(a)' = Newer(a)
        BY <1>2 DEF Newer, Listed
      <3>2. faults \in Nat
        BY BoundsAssumption DEF IInv, StoreTyped, CallsTyped
      <3>3. CASE a = i
        <4>1. \A j \in Listed : ~(j > i)
          BY <1>1, NoneNewer DEF DiskInv
        <4>2. Newer(a) = {}
          BY <3>3, <4>1 DEF Newer
        <4>3. Cardinality(Newer(a)) = 0
          BY <4>2, FS_EmptySet
        <4> QED BY <3>1, <3>2, <4>3
      <3>4. CASE a \in activeDisk
        BY <1>1, <3>1, <3>4 DEF DiskInv, FewNewer, InDoubt
      <3> QED BY <3>3, <3>4
    <2> QED BY <2>3, <2>4, <2>5, <2>6 DEF DiskInv, Orderly
  <1>4. CASE Fault /\ BeginRollback(s, Resources) /\ UNCHANGED <<active, activeDisk>>
    BY <1>1, <1>2, <1>4, RollbackSafe DEF Uncommitted, Moved
  <1> QED BY <1>3, <1>4 DEF Commit

\* CommitSync keeps the invariant.
LEMMA CommitSyncSafe ==
  ASSUME IInv, IInv', FilesInv, DiskInv, Orderly, NEW s \in Stores, CommitSync(s)
  PROVE  DiskInv'
  <1> DEFINE i == op[s].id
  <1>1. op[s].pc = "commitSync" /\ i \in Ids /\ CallsTyped
    BY DEF CommitSync, At, IInv, Permitted, Publishing, StoreTyped
  <1>2. UNCHANGED <<dir, meta, active, dirDisk, metaDisk, staging>>
    BY DEF CommitSync
  <1>3. CASE NoFault /\ activeDisk' = {active} /\ lost' = None /\ Goto(s, "retain")
    <2>1. Now(s, "retain", op[s].todo, op[s].clean)
      BY <1>1, <1>3, GotoNow
    <2>2. active = i /\ active \in activeDisk
      BY <1>1 DEF FilesInv, Works, Written, DiskInv, ActiveSafe
    <2>3. ActiveSafe'
      <3>1. dir[i] \in Placed /\ dirDisk[i] \subseteq Placed /\ meta[i] /\ metaDisk[i] = {TRUE}
        BY <1>1 DEF FilesInv, Works, Written
      <3>2. i # None /\ i <= i
        BY <1>1, IdsAssumption
      <3> QED BY <1>2, <1>3, <2>2, <3>1, <3>2 DEF ActiveSafe
    <2>4. Staged(s)'
      <3>1. \A j \in Ids : OnDisk(j)' => OnDisk(j)
        BY <1>2, <1>3, <2>2 DEF OnDisk
      <3> QED BY <1>1, <1>2, <2>1, <3>1, StagedKept DEF DiskInv, Now, Publishing, Uncommitted, Moved
    <2>5. Sparing(s)'
      BY <2>1 DEF Sparing, Now, Uncommitted, Moved
    <2>6. FewNewer(s)'
      <3> SUFFICES ASSUME NEW a \in {active} \ {None}
                   PROVE  Cardinality(Newer(a)') <= faults + 0
        BY <1>3, <2>1 DEF FewNewer, Now, InDoubt, NoFault
      <3>1. \A j \in Listed : ~(j > a)
        BY <1>1, <2>2, NoneNewer DEF DiskInv
      <3>2. Newer(a)' = {}
        BY <1>2, <3>1 DEF Newer, Listed
      <3>3. Cardinality(Newer(a)') = 0
        BY <3>2, FS_EmptySet
      <3>4. faults \in Nat
        BY BoundsAssumption DEF IInv, StoreTyped, CallsTyped
      <3> QED BY <3>3, <3>4
    <2> QED BY <2>3, <2>4, <2>5, <2>6 DEF DiskInv, Orderly
  <1>4. CASE Fault /\ UNCHANGED <<activeDisk, lost>> /\ Goto(s, "drop")
    <2>1. Onward(s)
      BY <1>1, <1>4, FailOnward DEF Publishing
    <2> QED BY <1>2, <1>4, <2>1, UntouchedStep
  <1> QED BY <1>3, <1>4 DEF CommitSync

\* A compensation takes its call nowhere else.
LEMMA UndoneOnward ==
  ASSUME CallsTyped, NEW s \in Stores, op[s].pc = "rollback", NEW w,
         (NoFault /\ Compensated(s, w)) \/ (Fault /\ CompensationFailed(s, w))
  PROVE  /\ Onward(s)
         /\ op'[s].pc = "rollback" /\ op'[s].id = op[s].id
  <1>1. \E todo, clean : Now(s, "rollback", todo, clean)
    BY CompensatedNow, CompensationFailedNow
  <1>2. faults' = faults \/ faults' = faults + 1
    BY DEF NoFault, Fault
  <1>3. Onward(s)
    BY <1>1, <1>2, NowOnward DEF InDoubt
  <1> QED BY <1>1, <1>3 DEF Now

\* UndoDir keeps the invariant: nothing names what it removes.
LEMMA UndoDirSafe ==
  ASSUME IInv, IInv', FilesInv, DiskInv, Orderly, NEW s \in Stores, UndoDir(s)
  PROVE  DiskInv'
  <1> DEFINE i == op[s].id
  <1>1. op[s].pc = "rollback" /\ i \in Ids /\ CallsTyped
    BY DEF UndoDir, At, IInv, Permitted, Publishing, Uncommitted, Moved, StoreTyped
  <1>2. UNCHANGED <<meta, active, metaDisk, activeDisk, lost, staging>>
    BY DEF UndoDir, stages
  <1>3. Onward(s) /\ op'[s].pc = "rollback" /\ op'[s].id = i
    BY <1>1, UndoneOnward DEF UndoDir
  <1>4. i \notin activeDisk
    BY <1>1 DEF DiskInv, Sparing, Uncommitted, Moved
  <1>5. /\ \A j \in Ids \ {i} : dir'[j] = dir[j]
        /\ \A j \in Ids \ {i} : dirDisk'[j] = dirDisk[j] \/ (dir[j] \in Placed => dirDisk'[j] \subseteq Placed)
    <2>1. CASE dir' = [dir EXCEPT ![i] = "absent"] /\ dirDisk' = [SyncedDirs EXCEPT ![i] = {"absent"}]
      <3>1. \A j \in Ids \ {i} : dir'[j] = dir[j]
        BY <2>1 DEF IInv, StoreTyped, FilesTyped
      <3>2. \A j \in Ids \ {i} : dirDisk'[j] = SyncedDirs[j]
        BY <2>1 DEF SyncedDirs
      <3>3. \A j \in Ids : dir[j] \in Placed => SyncedDirs[j] \subseteq Placed
        BY DEF SyncedDirs, Placed
      <3> QED BY <3>1, <3>2, <3>3
    <2>2. ASSUME NEW v, SetDir(i, v)
          PROVE  \A j \in Ids \ {i} : dir'[j] = dir[j] /\ dirDisk'[j] = dirDisk[j]
      BY <2>2 DEF SetDir, IInv, StoreTyped, FilesTyped, DisksTyped
    <2> QED BY <2>1, <2>2 DEF UndoDir
  <1>6. ActiveSafe'
    <2>1. Spared
      BY <1>1, <1>2, <1>4, <1>5, DirSpared
    <2> QED BY <1>2, <2>1, ActiveSafeKept DEF DiskInv, ActiveSafe, Spared
  <1>7. Staged(s)'
    <2>1. i # None /\ staging'[s] = {}
      BY <1>1, <1>2, IdsAssumption DEF DiskInv, Staged
    <2>2. \A j \in Ids : OnDisk(j)' => j = i \/ OnDisk(j)
      BY <1>2, <1>5 DEF OnDisk
    <2>3. \A j \in Ids : OnDisk(j) => j <= i
      BY <1>1 DEF DiskInv, Staged, Publishing, Uncommitted, Moved
    <2>4. \A j \in Ids : OnDisk(j)' => j <= i
      BY <1>1, <2>2, <2>3, IdsAssumption
    <2> QED BY <1>3, <2>1, <2>4 DEF Staged
  <1>8. Sparing(s)'
    BY <1>2, <1>3, <1>4 DEF Sparing
  <1>9. FewNewer(s)'
    <2>1. faults \in Nat /\ faults' \in Nat
      BY BoundsAssumption DEF IInv, StoreTyped, CallsTyped
    <2> QED BY <1>2, <1>3, <2>1, FewNewerKept DEF DiskInv, FilesInv, Onward, Listed
  <1> QED BY <1>6, <1>7, <1>8, <1>9 DEF DiskInv, Orderly

\* UndoMeta keeps the invariant: nothing names what it removes.
LEMMA UndoMetaSafe ==
  ASSUME IInv, IInv', FilesInv, DiskInv, Orderly, NEW s \in Stores, UndoMeta(s)
  PROVE  DiskInv'
  <1> DEFINE i == op[s].id
  <1>1. op[s].pc = "rollback" /\ i \in Ids /\ CallsTyped /\ FilesTyped /\ DisksTyped
    BY DEF UndoMeta, At, IInv, Permitted, Publishing, Uncommitted, Moved, StoreTyped
  <1>2. UNCHANGED <<dir, active, dirDisk, activeDisk, lost, staging>>
    BY DEF UndoMeta, stages
  <1>3. Onward(s)
    <2>1. (NoFault /\ Compensated(s, <<i, "meta">>)) \/ (Fault /\ CompensationFailed(s, <<i, "meta">>))
      BY DEF UndoMeta
    <2> QED BY <1>1, <2>1, UndoneOnward
  <1>4. i \notin activeDisk
    BY <1>1 DEF DiskInv, Sparing, Uncommitted, Moved
  <1>5. \/ meta' = [meta EXCEPT ![i] = FALSE] /\ metaDisk' = [SyncedMeta EXCEPT ![i] = {FALSE}]
        \/ UNCHANGED <<meta, metaDisk>>
        \/ SetMeta(i, FALSE)
    BY DEF UndoMeta
  <1>6. /\ \A j \in Ids \ {i} : meta'[j] <=> meta[j]
        /\ meta'[i] => meta[i]
        /\ \A j \in Ids \ {i} : metaDisk'[j] = metaDisk[j] \/ metaDisk'[j] = {meta[j]}
        /\ Listed' \subseteq Listed
    <2>1. CASE meta' = [meta EXCEPT ![i] = FALSE] /\ metaDisk' = [SyncedMeta EXCEPT ![i] = {FALSE}]
      <3>1. (\A j \in Ids \ {i} : meta'[j] <=> meta[j]) /\ ~meta'[i]
        BY <1>1, <2>1, Zenon DEF FilesTyped
      <3>2. \A j \in Ids \ {i} : metaDisk'[j] = {meta[j]}
        BY <2>1 DEF SyncedMeta
      <3>3. Listed' \subseteq Listed
        BY <1>1, <2>1, ListedErased DEF FilesInv
      <3> QED BY <3>1, <3>2, <3>3
    <2>2. CASE UNCHANGED <<meta, metaDisk>>
      BY <2>2 DEF Listed
    <2>3. CASE SetMeta(i, FALSE)
      <3>1. /\ \A j \in Ids \ {i} : metaDisk'[j] = metaDisk[j]
            /\ \A j \in Ids \ {i} : meta'[j] <=> meta[j]
            /\ ~meta'[i]
        BY <1>1, <2>3, SetMetaDisk
      <3>2. Listed' \subseteq Listed
        BY <1>1, <2>3, ListedSet DEF FilesInv
      <3> QED BY <3>1, <3>2
    <2> QED BY <1>5, <2>1, <2>2, <2>3
  <1>7. Spared
    BY <1>1, <1>2, <1>4, <1>6, MetaSpared
  <1>8. \A j \in Ids : OnDisk(j)' => OnDisk(j)
    BY <1>2, <1>6 DEF OnDisk
  <1> QED BY <1>2, <1>3, <1>6, <1>7, <1>8, MildStep

\* UndoCatalog keeps the invariant.
LEMMA UndoCatalogSafe ==
  ASSUME IInv, IInv', FilesInv, DiskInv, Orderly, NEW s \in Stores, UndoCatalog(s)
  PROVE  DiskInv'
  <1>1. UNCHANGED <<dir, meta, active, dirDisk, metaDisk, activeDisk, lost, staging>>
    BY DEF UndoCatalog, stages
  <1>2. op[s].pc = "rollback" /\ CallsTyped
    BY DEF UndoCatalog, At, IInv, StoreTyped
  <1>3. Onward(s)
    BY <1>2, UndoneOnward DEF UndoCatalog
  <1> QED BY <1>1, <1>3, UntouchedStep

\* What active-epoch.json may name is never so old that the retention pass chooses it.
LEMMA VictimsSpared ==
  ASSUME IInv, FilesInv, DiskInv, Orderly, NEW s \in Stores, op[s].pc = "retain", ReadableActive
  PROVE  \A i \in Victims : i \notin activeDisk
  <1> SUFFICES ASSUME NEW a \in Victims, a \in activeDisk PROVE FALSE
    OBVIOUS
  <1> DEFINE U == {j \in Unprotected : j > a}
  <1>1. a \in Ids /\ a # None /\ a # active /\ Cardinality(U) >= Retain
    BY IdsAssumption DEF Victims, Unprotected
  <1>2. active # None /\ a <= active /\ active \in activeDisk /\ active \in Ids
    <2>1. a \in activeDisk \ {None}
      BY <1>1
    <2>2. active # None /\ a <= active /\ active \in activeDisk
      BY <2>1 DEF DiskInv, ActiveSafe
    <2> QED BY <2>2 DEF IInv, StoreTyped, FilesTyped
  <1>3. active > a
    BY <1>1, <1>2, IdsAssumption
  <1>4. active \in Listed /\ active \notin U
    BY <1>2 DEF ReadableActive, FilesInv, ListedFinite, Listed, Unprotected
  <1>5. U \cup {active} \in SUBSET Newer(a)
    BY <1>3, <1>4 DEF Newer, FilesInv, ListedFinite, Listed, Unprotected
  <1>6. IsFiniteSet(Newer(a))
    <2>1. Newer(a) \in SUBSET Listed
      BY DEF Newer
    <2> QED BY <2>1, FS_Subset DEF FilesInv, ListedFinite
  <1>7. IsFiniteSet(U)
    <2>1. U \in SUBSET Newer(a)
      BY <1>5
    <2> HIDE DEF U
    <2> QED BY <1>6, <2>1, FS_Subset
  <1> HIDE DEF U
  <1>8. Cardinality(U \cup {active}) = Cardinality(U) + 1
    BY <1>4, <1>7, FS_AddElement
  <1>9. Cardinality(U \cup {active}) <= Cardinality(Newer(a))
    BY <1>5, <1>6, FS_Subset
  <1>10. Cardinality(Newer(a)) <= faults + 0
    BY <1>1 DEF DiskInv, FewNewer, InDoubt
  <1>11. faults \in 0 .. MaxFaults /\ MaxFaults <= Retain /\ Retain \in Nat /\ MaxFaults \in Nat
    BY BoundsAssumption DEF IInv, StoreTyped, CallsTyped, Orderly
  <1>12. Cardinality(U) \in Nat /\ Cardinality(Newer(a)) \in Nat
    BY <1>6, <1>7, FS_CardinalityType
  <1> QED BY <1>1, <1>8, <1>9, <1>10, <1>11, <1>12

\* SelectVictims keeps the invariant.
LEMMA SelectVictimsSafe ==
  ASSUME IInv, IInv', FilesInv, DiskInv, Orderly, NEW s \in Stores, SelectVictims(s)
  PROVE  DiskInv'
  <1>1. op[s].pc = "retain" /\ CallsTyped
    BY DEF SelectVictims, At, IInv, StoreTyped
  <1>2. UNCHANGED <<dir, meta, active, dirDisk, metaDisk, activeDisk, lost, staging>>
    BY DEF SelectVictims, files, stages
  <1>3. CASE ReadableActive /\ NoFault /\ op' = [op EXCEPT ![s].pc = "delete", ![s].todo = Victims \X {"catalog"}]
    <2>1. ASSUME NEW todo, op' = [op EXCEPT ![s].pc = "delete", ![s].todo = todo]
          PROVE  Now(s, "delete", todo, op[s].clean)
      BY <1>1, <2>1 DEF CallsTyped, Now
    <2>2. Now(s, "delete", Victims \X {"catalog"}, op[s].clean)
      BY <1>3, <2>1
    <2>3. op'[s].pc = "delete" /\ op'[s].id = op[s].id /\ op'[s].todo = Victims \X {"catalog"}
      BY <2>2 DEF Now
    <2>4. ActiveSafe'
      BY <1>2 DEF DiskInv, ActiveSafe
    <2>5. Staged(s)'
      <3>1. \A j \in Ids : OnDisk(j)' => OnDisk(j)
        BY <1>2 DEF OnDisk
      <3> QED BY <1>2, <2>3, <3>1, StagedKept DEF DiskInv, Publishing, Uncommitted, Moved
    <2>6. Sparing(s)'
      <3>1. \A w \in op'[s].todo : w[1] \notin activeDisk
        <4>1. \A w \in op'[s].todo : w[1] \in Victims
          BY <2>3
        <4> QED BY <1>1, <1>3, <4>1, VictimsSpared
      <3> QED BY <1>2, <2>3, <3>1 DEF Sparing, Uncommitted, Moved
    <2>7. FewNewer(s)'
      <3>1. faults \in Nat /\ faults' = faults
        BY <1>3, BoundsAssumption DEF NoFault, IInv, StoreTyped, CallsTyped
      <3> QED BY <1>1, <1>2, <3>1, FewNewerKept DEF DiskInv, FilesInv, InDoubt, Listed
    <2> QED BY <2>4, <2>5, <2>6, <2>7 DEF DiskInv, Orderly
  <1>4. CASE EndRetention(s) /\ (NoFault \/ Fault)
    <2>1. Onward(s)
      BY <1>1, <1>4, EndRetentionOnward DEF NoFault, Fault
    <2> QED BY <1>2, <2>1, UntouchedStep
  <1> QED BY <1>3, <1>4 DEF SelectVictims

\* A deletion puts no other epoch on its list.
LEMMA DeletingOnward ==
  ASSUME CallsTyped, NEW s \in Stores, op[s].pc = "delete", NEW w \in op[s].todo, NEW next,
         (NoFault /\ Deleted(s, w, next)) \/ (Fault /\ DeletionFailed(s, w)), \A x \in next : x[1] = w[1]
  PROVE  Onward(s)
  <1>1. /\ op'[s].pc = "delete" /\ op'[s].id = op[s].id
        /\ \A y \in op'[s].todo : \E x \in op[s].todo : x[1] = y[1]
    BY DeleteNow, Zenon
  <1>2. faults' = faults \/ faults' = faults + 1
    BY DEF NoFault, Fault
  <1> QED BY <1>1, <1>2 DEF Onward, Publishing, Uncommitted, Moved, InDoubt

\* DeleteCatalog keeps the invariant.
LEMMA DeleteCatalogSafe ==
  ASSUME IInv, IInv', FilesInv, DiskInv, Orderly, NEW s \in Stores, NEW i \in Ids, DeleteCatalog(s, i)
  PROVE  DiskInv'
  <1>1. UNCHANGED <<dir, meta, active, dirDisk, metaDisk, activeDisk, lost, staging>>
    BY DEF DeleteCatalog, stages
  <1>2. Onward(s)
    <2> DEFINE v == <<i, "catalog">>
               next == {<<i, "dir">>}
    <2>1. \A x \in next : x[1] = v[1]
      OBVIOUS
    <2>2. /\ op[s].pc = "delete" /\ v \in op[s].todo
          /\ (NoFault /\ Deleted(s, v, next)) \/ (Fault /\ DeletionFailed(s, v))
      BY DEF DeleteCatalog, At
    <2>3. CallsTyped
      BY DEF IInv, StoreTyped
    <2> HIDE DEF v, next
    <2> QED BY <2>1, <2>2, <2>3, DeletingOnward, Zenon
  <1> QED BY <1>1, <1>2, UntouchedStep

\* TearDir and DeleteDir keep the invariant: nothing names what they remove.
LEMMA DeleteDirSafe ==
  ASSUME IInv, IInv', FilesInv, DiskInv, Orderly, NEW s \in Stores, NEW i \in Ids,
         TearDir(s, i) \/ DeleteDir(s, i)
  PROVE  DiskInv'
  <1>1. op[s].pc = "delete" /\ <<i, "dir">> \in op[s].todo /\ CallsTyped
    BY DEF TearDir, DeleteDir, At, IInv, StoreTyped
  <1>2. UNCHANGED <<meta, active, metaDisk, activeDisk, lost, staging>>
    BY DEF TearDir, DeleteDir, stages
  <1>3. Onward(s)
    <2>1. CASE TearDir(s, i)
      BY <1>1, <2>1 DEF TearDir, Onward
    <2>2. CASE DeleteDir(s, i)
      <3> DEFINE v == <<i, "dir">>
                 next == {<<i, "meta">>}
      <3>1. \A x \in next : x[1] = v[1]
        OBVIOUS
      <3>2. v \in op[s].todo /\ ((NoFault /\ Deleted(s, v, next)) \/ (Fault /\ DeletionFailed(s, v)))
        BY <1>1, <2>2 DEF DeleteDir
      <3> HIDE DEF v, next
      <3> QED BY <1>1, <3>1, <3>2, DeletingOnward, Zenon
    <2> QED BY <2>1, <2>2
  <1>4. i \notin activeDisk
    <2>1. <<i, "dir">>[1] = i
      OBVIOUS
    <2> QED BY <1>1, <2>1 DEF DiskInv, Sparing
  <1>5. \A j \in Ids \ {i} : dir'[j] = dir[j] /\ dirDisk'[j] = dirDisk[j]
    BY DEF TearDir, DeleteDir, SetDir, IInv, StoreTyped, FilesTyped, DisksTyped
  <1>6. dir'[i] # "absent" => dir[i] # "absent"
    BY DEF TearDir, DeleteDir, SetDir, Placed, IInv, StoreTyped, FilesTyped
  <1>7. Spared
    BY <1>2, <1>4, <1>5, DirSpared
  <1>8. (\A j \in Ids : OnDisk(j)' => OnDisk(j)) /\ Listed' \subseteq Listed
    BY <1>2, <1>5, <1>6 DEF OnDisk, Listed
  <1> QED BY <1>2, <1>3, <1>7, <1>8, MildStep

\* DeleteMeta keeps the invariant: nothing names what it removes.
LEMMA DeleteMetaSafe ==
  ASSUME IInv, IInv', FilesInv, DiskInv, Orderly, NEW s \in Stores, NEW i \in Ids, DeleteMeta(s, i)
  PROVE  DiskInv'
  <1>1. op[s].pc = "delete" /\ <<i, "meta">> \in op[s].todo /\ CallsTyped /\ FilesTyped /\ DisksTyped
    BY DEF DeleteMeta, At, IInv, StoreTyped
  <1>2. UNCHANGED <<dir, active, dirDisk, activeDisk, lost, staging>>
    BY DEF DeleteMeta, stages
  <1>3. Onward(s)
    <2> DEFINE v == <<i, "meta">>
               next == {}
    <2>1. \A x \in next : x[1] = v[1]
      OBVIOUS
    <2>2. v \in op[s].todo /\ ((NoFault /\ Deleted(s, v, next)) \/ (Fault /\ DeletionFailed(s, v)))
      BY <1>1 DEF DeleteMeta
    <2> HIDE DEF v, next
    <2> QED BY <1>1, <2>1, <2>2, DeletingOnward, Zenon
  <1>4. i \notin activeDisk
    <2>1. <<i, "meta">>[1] = i
      OBVIOUS
    <2> QED BY <1>1, <2>1 DEF DiskInv, Sparing
  <1>5. /\ \A j \in Ids \ {i} : meta'[j] <=> meta[j]
        /\ meta'[i] => meta[i]
        /\ \A j \in Ids \ {i} : metaDisk'[j] = metaDisk[j]
        /\ Listed' \subseteq Listed
    <2>1. CASE UNCHANGED <<meta, metaDisk>>
      BY <2>1 DEF Listed
    <2>2. CASE SetMeta(i, FALSE)
      <3>1. /\ \A j \in Ids \ {i} : metaDisk'[j] = metaDisk[j]
            /\ \A j \in Ids \ {i} : meta'[j] <=> meta[j]
            /\ ~meta'[i]
        BY <1>1, <2>2, SetMetaDisk
      <3>2. Listed' \subseteq Listed
        BY <1>1, <2>2, ListedSet DEF FilesInv
      <3> QED BY <3>1, <3>2
    <2> QED BY <2>1, <2>2 DEF DeleteMeta
  <1>6. Spared
    BY <1>2, <1>4, <1>5, MetaSpared
  <1>7. \A j \in Ids : OnDisk(j)' => OnDisk(j)
    BY <1>2, <1>5 DEF OnDisk
  <1> QED BY <1>2, <1>3, <1>5, <1>6, <1>7, MildStep

\* A kill keeps the invariant: it counts as a failure.
LEMMA CrashSafe ==
  ASSUME IInv, IInv', FilesInv, DiskInv, Orderly, Crash
  PROVE  DiskInv'
  <1>1. UNCHANGED <<dir, meta, active, dirDisk, metaDisk, activeDisk, lost>>
    BY DEF Crash, files
  <1>2. ASSUME NEW s \in Stores PROVE DiskInv'
    <2>1. op'[s].pc = "idle" /\ op'[s].id = None /\ staging'[s] = {} /\ faults' = faults + 1
      BY DEF Crash, ForgetMemory, Idle, Fault
    <2>2. Onward(s)
      BY <2>1 DEF Onward, Publishing, Uncommitted, Moved
    <2> QED BY <1>1, <2>1, <2>2, UntouchedStep
  <1>3. ActiveSafe'
    BY <1>1 DEF DiskInv, ActiveSafe
  <1> QED BY <1>2, <1>3 DEF DiskInv

\* A power failure keeps the invariant: whatever it leaves was safe.
LEMMA PowerLossSafely ==
  ASSUME IInv, IInv', FilesInv, DiskInv, Orderly, PowerLoss
  PROVE  DiskInv'
  <1> DEFINE Left == /\ \A i \in Ids : dir'[i] \in dirDisk[i] /\ meta'[i] \in metaDisk[i]
                     /\ lost' = lost
             Taken == (\A i \in Ids : meta'[i] = FALSE) /\ lost' = active'
  <1>1. /\ \A i \in Ids : dirDisk'[i] = {dir'[i]}
        /\ active' \in activeDisk /\ activeDisk' = {active'}
        /\ faults' = faults + 1
    BY DEF PowerLoss, Fault
  <1>2. \A i \in Ids : metaDisk'[i] = {meta'[i]}
    <2>1. metaDisk' = [i \in Ids |-> {meta'[i]}]
      BY DEF PowerLoss
    <2> QED BY <2>1
  <1>6. Left \/ Taken
    BY DEF PowerLoss
  <1>7. \A a \in activeDisk' \ {None} : active' # None /\ a <= active' /\ a = active' /\ a \in Ids /\ a \in activeDisk
    <2>1. \A a \in activeDisk' \ {None} : a = active' /\ a \in Ids /\ a \in activeDisk
      BY <1>1 DEF IInv, StoreTyped, DisksTyped
    <2>2. \A i \in Ids : i <= i
      BY IdsAssumption
    <2> QED BY <2>1, <2>2
  <1>3. ActiveSafe'
    <2> SUFFICES ASSUME NEW a \in activeDisk' \ {None, lost'}
                 PROVE  /\ dir'[a] \in Placed /\ meta'[a]
                        /\ dirDisk'[a] \subseteq Placed /\ metaDisk'[a] = {TRUE}
      BY <1>1, <1>7 DEF ActiveSafe
    <2>1. Left /\ a \in activeDisk \ {None, lost} /\ a \in Ids
      BY <1>6, <1>7
    <2>2. dirDisk[a] \subseteq Placed /\ metaDisk[a] = {TRUE}
      BY <2>1 DEF DiskInv, ActiveSafe
    <2>3. dir'[a] \in Placed /\ dirDisk'[a] \subseteq Placed
      BY <1>1, <2>1, <2>2
    <2>4. meta'[a] = TRUE /\ metaDisk'[a] = {meta'[a]}
      <3>1. meta'[a] \in {TRUE}
        BY <2>1, <2>2
      <3> QED BY <1>2, <2>1, <3>1
    <2>5. meta'[a] /\ metaDisk'[a] = {TRUE}
      BY <2>4, Zenon
    <2> QED BY <2>3, <2>5
  <1>4. Listed' \subseteq Listed
    <2>1. \A i \in Ids : TRUE \in metaDisk'[i] => TRUE \in metaDisk[i]
      <3> SUFFICES ASSUME NEW i \in Ids, TRUE \in {meta'[i]} PROVE TRUE \in metaDisk[i]
        BY <1>2
      <3>1. meta'[i] = TRUE
        OBVIOUS
      <3>2. meta'[i] \in metaDisk[i]
        BY <1>6, <3>1
      <3> QED BY <3>1, <3>2
    <2> QED BY <2>1 DEF Listed
  <1>5. ASSUME NEW s \in Stores PROVE Staged(s)' /\ Sparing(s)' /\ FewNewer(s)'
    <2>1. op'[s].pc = "idle" /\ op'[s].id = None /\ staging'[s] = {}
      BY DEF PowerLoss, ForgetMemory, Idle
    <2>2. Staged(s)' /\ Sparing(s)'
      BY <2>1 DEF Staged, Sparing, Publishing, Uncommitted, Moved
    <2>3. FewNewer(s)'
      <3>1. faults \in Nat /\ faults' \in Nat
        BY BoundsAssumption DEF IInv, StoreTyped, CallsTyped
      <3>2. activeDisk' \subseteq activeDisk
        BY <1>1
      <3> QED BY <1>1, <1>4, <3>1, <3>2, FewNewerKept DEF DiskInv, FilesInv
    <2> QED BY <2>2, <2>3
  <1> QED BY <1>3, <1>5 DEF DiskInv

\* Every step keeps the invariant of the disk, ...
LEMMA DiskStep ==
  ASSUME IInv, IInv', FilesInv, DiskInv, Orderly, [Next]_vars
  PROVE  DiskInv'
  <1>1. CASE Next
    <2>1. ASSUME NEW s \in Stores, StoreStep(s) PROVE DiskInv'
      BY <2>1, QuietSafe, RecoverySafe, TakeSafe, SyncEpochsSafe, ActivateSafe, RecordSafe, RecordSyncSafe,
         CommitSafe, CommitSyncSafe, UndoDirSafe, UndoMetaSafe, UndoCatalogSafe,
         SelectVictimsSafe, DeleteCatalogSafe, DeleteDirSafe, DeleteMetaSafe DEF StoreStep
    <2> QED BY <1>1, <2>1, CallSafe, RecoverySafe, DeleteDirSafe, LeaseSafe, CrashSafe, PowerLossSafely DEF Next
  <1>2. CASE UNCHANGED vars
    <2>1. UNCHANGED <<dir, meta, active, dirDisk, metaDisk, activeDisk, lost, staging, op, faults>>
      BY <1>2 DEF vars, files, stages
    <2>2. ActiveSafe'
      BY <2>1 DEF DiskInv, ActiveSafe
    <2>3. \A s \in Stores : Staged(s)' /\ Sparing(s)'
      BY <2>1 DEF DiskInv, Staged, Sparing, OnDisk, Listed
    <2>4. \A s \in Stores : FewNewer(s)'
      BY <2>1 DEF DiskInv, FewNewer, Newer, Listed
    <2> QED BY <2>2, <2>3, <2>4 DEF DiskInv
  <1> QED BY <1>1, <1>2

\* ... it holds at first, ...
LEMMA DiskInit == Init => DiskInv
  <1> SUFFICES ASSUME Init PROVE DiskInv
    OBVIOUS
  <1>1. ActiveSafe
    BY DEF Init, ActiveSafe
  <1>2. ASSUME NEW s \in Stores PROVE Staged(s) /\ Sparing(s) /\ FewNewer(s)
    <2>1. op[s].pc = "idle" /\ op[s].id = None /\ staging[s] = {} /\ activeDisk = {None}
      BY DEF Init, Idle
    <2>2. Staged(s) /\ Sparing(s)
      BY <2>1 DEF Staged, Sparing, Publishing, Uncommitted, Moved
    <2>3. FewNewer(s)
      BY <2>1 DEF FewNewer
    <2> QED BY <2>2, <2>3
  <1> QED BY <1>1, <1>2 DEF DiskInv

\* ... and so it always holds.
LEMMA DiskInvariance == ASSUME Orderly PROVE Spec => []DiskInv
  <1>1. IInv /\ IInv' /\ FilesInv /\ DiskInv /\ [Next]_vars => DiskInv'
    BY DiskStep
  <1> QED BY <1>1, DiskInit, Invariance, FilesInvariance, PTL DEF Spec

\* A power failure at any moment of any number of publications, rollbacks, retention
\* passes and restarts leaves an active epoch with its metadata and its directory, if
\* it leaves the directory epochs: whatever active-epoch.json may then name is synced, and the
\* retention pass spares it.
THEOREM PowerLossLeavesActive == ASSUME Orderly PROVE Spec => []PowerLossSafe
  <1>1. DiskInv => PowerLossSafe
    BY DEF DiskInv, ActiveSafe, PowerLossSafe
  <1> QED BY <1>1, DiskInvariance, PTL

\* Nor does it then leave, at any moment, an active-epoch.json that names an epoch
\* without its metadata or its directory; when it took epochs, that is so again
\* once another epoch is activated.
THEOREM ActiveReadableAfterPowerLoss == ASSUME Orderly PROVE Spec => []ActiveIntact
  <1>1. DiskInv => ActiveIntact
    BY DEF DiskInv, ActiveSafe, ActiveIntact, ReadableActive
  <1> QED BY <1>1, DiskInvariance, PTL

\* A publication that failed, and whose compensations all succeeded, has left nothing
\* of its epoch, neither to see nor for a power failure to bring back, and
\* active-epoch.json does not name it, nor could it after a power failure.
THEOREM FailedPublicationLeavesNothing == ASSUME Orderly PROVE Spec => []RollbackComplete
  <1>1. IInv /\ FilesInv /\ DiskInv => RollbackComplete
    <2> SUFFICES ASSUME IInv, FilesInv, DiskInv, NEW s \in Stores,
                        At(s, "rollback"), op[s].todo = {}, op[s].clean
                 PROVE  /\ active # op[s].id /\ op[s].id \notin activeDisk
                        /\ dirDisk[op[s].id] = {"absent"} /\ metaDisk[op[s].id] = {FALSE}
      BY DEF RollbackComplete
    <2>1. dirDisk[op[s].id] = {"absent"} /\ metaDisk[op[s].id] = {FALSE}
      BY DEF At, FilesInv, Works, Compensating
    <2>2. op[s].id \notin activeDisk /\ active \in activeDisk
      BY DEF At, DiskInv, Sparing, ActiveSafe, Uncommitted, Moved
    <2> QED BY <2>1, <2>2
  <1> QED BY <1>1, Invariance, FilesInvariance, DiskInvariance, PTL

=============================================================================
