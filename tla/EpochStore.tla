----------------------------- MODULE EpochStore -----------------------------
(***************************************************************************)
(* The artifact epoch store of the development server: dev/epoch-store.ts. *)
(*                                                                         *)
(* Every EpochStore of a process serialises its own calls (#transitions,   *)
(* here: op[s] is idle) and takes one process-wide permit per project      *)
(* (#leaseTransitions, here: holder) around everything that touches the    *)
(* epochs, except staging.  A call that awaits is one action per await, so *)
(* that the process can be killed, or the machine lose power, between any  *)
(* two of them.                                                            *)
(*                                                                         *)
(* Simplifications, all on data:                                           *)
(*  - an epoch is its id; ids are numbered in the order of (createdAt, id) *)
(*    that compareNewestFirst sorts by, so "newer" is ">";                 *)
(*  - a store has at most one staging root per id at a time, and a staging *)
(*    root that outlives its record (a kill, a failed removal) is dropped  *)
(*    from the model: only recoverStaging would look at it again;          *)
(*  - an atomic JSON file is present or absent, never torn (it is renamed  *)
(*    from a synced temporary); a directory tree can be torn, because      *)
(*    rm -r removes it entry by entry;                                     *)
(*  - createStagingEpoch's checks of the options, which change no state.   *)
(***************************************************************************)
EXTENDS Integers, FiniteSets

CONSTANTS
    Ids,          \* epoch ids, as numbers: the larger, the newer
    Stores,       \* the EpochStore instances of one process over one project
    Leases,       \* the EpochReference objects that callers may hold
    None,         \* no epoch, or no store
    Retain,       \* unreferenced epochs kept by the retention pass (5 in the code)
    MaxStaged,    \* bound: staging roots a store has open at a time
    MaxFaults,    \* bound: I/O failures, kills and power failures together
    PowerFailures,\* whether the machine may lose power
    ClockForward  \* whether an epoch is always created newer than those on disk

ASSUME IdsAssumption == Ids \subseteq Int /\ None \notin Ids /\ None \notin Stores
ASSUME LeasesAssumption == IsFiniteSet(Leases)
ASSUME BoundsAssumption == {Retain, MaxStaged, MaxFaults} \subseteq Nat /\ {PowerFailures, ClockForward} \subseteq BOOLEAN

VARIABLES
    (* What a reader of the file system sees *)
    dir,        \* epochs/<id>
    meta,       \* epochs/.metadata/<id>.json exists
    catalog,    \* ids whose native-playground sidecar exists
    active,     \* the id in active-epoch.json
    roots,      \* <<store, id>>: the staging root of that store for that id exists
    gnawed,     \* those that a recoverStaging has begun to remove
    rooted,     \* the entry epochs of .agent-bundle is synced
    (* What a power failure may leave of it: the set of possible contents *)
    dirDisk, metaDisk, activeDisk,
    (* Memory of the process *)
    staging,    \* #staging: the ids each store may still publish
    sweep,      \* the staging roots that recoverStaging of each store is removing
    refs,       \* epochReferenceCounts
    lease,      \* the EpochReference objects
    holder,     \* the store that has the process-wide lease permit
    op,         \* the call each store is executing under its #transitions permit
    faults,     \* how many I/O failures, kills and power failures there were (bounded)
    lost        \* history: what active-epoch.json named when a power failure took epochs

files  == <<dir, meta, catalog, active, dirDisk, metaDisk, activeDisk>>
stages == <<roots, gnawed, staging, sweep, rooted, lost>>
memory == <<refs, lease>>
vars   == <<files, stages, memory, holder, op, faults>>

\* A damaged tree was put into place while a recoverStaging was removing it.
Placed == {"whole", "damaged"}
DirStates == {"absent", "torn"} \cup Placed
Resources == {"catalog", "dir", "meta"}

\* The steps of a publication (verify .. drop), a release waiting for the lease
\* permit, the retention pass, which a publication, the last release of an epoch
\* and cleanup() run, and recoverStaging.
Steps == {"idle", "recover", "verify", "take", "sync", "activate", "record", "recordSync",
          "commit", "commitSync", "rollback", "drop", "release", "retain", "delete"}

Idle == [pc |-> "idle", id |-> None, todo |-> {}, clean |-> TRUE]
FreeLease == [state |-> "free", id |-> None, store |-> None]

At(s, pc) == op[s].pc = pc

\* A store waiting for, or owning, the permit advances to another step.
Goto(s, pc) == op' = [op EXCEPT ![s].pc = pc]

\* The next file-system call fails, within the bound.
Fault   == faults < MaxFaults /\ faults' = faults + 1
NoFault == UNCHANGED faults

\* fsync of the epochs directory: the entries are as they are now, while the
\* contents of a torn or damaged tree stay in doubt.
SyncedDirs == [i \in Ids |-> IF dir[i] = "torn" THEN dirDisk[i] \ {"absent"}
                            ELSE IF dir[i] = "damaged" THEN Placed
                            ELSE {dir[i]}]
\* fsync of the .metadata directory.
SyncedMeta == [i \in Ids |-> {meta[i]}]

SetDir(i, v) ==
    /\ dir' = [dir EXCEPT ![i] = v]
    /\ dirDisk' = [dirDisk EXCEPT ![i] = @ \cup {v}]
SetMeta(i, v) ==
    /\ meta' = [meta EXCEPT ![i] = v]
    /\ metaDisk' = [metaDisk EXCEPT ![i] = @ \cup {v}]

\* #readActiveEpoch: no active epoch, or one with its metadata, its directory
\* and its manifest, which a torn or damaged tree may still have.
ReadableActive == active # None => meta[active] /\ dir[active] # "absent"
WholeActive == active # None => meta[active] /\ dir[active] = "whole"

\* A staging root is gone, and nothing is left of it to remove.
Gone(r) ==
    /\ roots' = roots \ {r}
    /\ gnawed' = gnawed \ {r}
    /\ sweep' = [s \in Stores |-> sweep[s] \ {r}]

Init ==
    /\ dir = [i \in Ids |-> "absent"]
    /\ meta = [i \in Ids |-> FALSE]
    /\ catalog = {}
    /\ active = None
    /\ dirDisk = [i \in Ids |-> {"absent"}]
    /\ metaDisk = [i \in Ids |-> {FALSE}]
    /\ activeDisk = {None}
    /\ roots = {} /\ gnawed = {} /\ sweep = [s \in Stores |-> {}]
    /\ rooted = FALSE /\ lost = None
    /\ staging = [s \in Stores |-> {}]
    /\ refs = [i \in Ids |-> 0]
    /\ lease = [l \in Leases |-> FreeLease]
    /\ holder = None
    /\ op = [s \in Stores |-> Idle]
    /\ faults = 0

-----------------------------------------------------------------------------
(* Staging *)

\* createStagingEpoch: a marked directory of its own, and a record of it.  The
\* epoch was stamped just before, with the wall clock.
CreateStaging(s, i) ==
    /\ At(s, "idle") /\ i \notin staging[s]
    /\ Cardinality(staging[s]) < MaxStaged
    /\ ClockForward => \A j \in Ids : dir[j] # "absent" \/ meta[j] \/ j \in activeDisk => i > j
    /\ staging' = [staging EXCEPT ![s] = @ \cup {i}]
    /\ roots' = roots \cup {<<s, i>>}
    /\ UNCHANGED <<files, gnawed, sweep, rooted, lost, memory, holder, op, faults>>

\* EpochStagingHandle.close: drops the record, then the directory.
CloseStaging(s, i) ==
    /\ At(s, "idle") /\ i \in staging[s]
    /\ staging' = [staging EXCEPT ![s] = @ \ {i}]
    /\ Gone(<<s, i>>)
    /\ UNCHANGED <<files, rooted, lost, memory, holder, op, faults>>

\* recoverStaging: removes every staging directory, of whatever store, without
\* the lease permit; the records stay.
RecoverStaging(s) ==
    /\ At(s, "idle")
    /\ sweep' = [sweep EXCEPT ![s] = @ \cup roots]
    /\ Goto(s, "recover")
    /\ UNCHANGED <<files, roots, gnawed, staging, rooted, lost, memory, holder, faults>>

\* rm -r of one of them, entry by entry, concurrently with the others.
TearRoot(s, r) ==
    /\ r \in sweep[s]
    /\ gnawed' = gnawed \cup {r}
    /\ UNCHANGED <<files, roots, staging, sweep, rooted, lost, memory, holder, op, faults>>

\* A removal that fails ends the call at once, and the others go on.
RemoveRoot(s, r) ==
    /\ r \in sweep[s]
    /\ \/ NoFault /\ Gone(r) /\ UNCHANGED op
       \/ /\ Fault
          /\ sweep' = [sweep EXCEPT ![s] = @ \ {r}]
          /\ op' = [op EXCEPT ![s] = IF At(s, "recover") THEN Idle ELSE @]
          /\ UNCHANGED <<roots, gnawed>>
    /\ UNCHANGED <<files, staging, rooted, lost, memory, holder>>

EndRecovery(s) ==
    /\ At(s, "recover") /\ sweep[s] = {}
    /\ Goto(s, "idle")
    /\ UNCHANGED <<files, stages, memory, holder, faults>>

-----------------------------------------------------------------------------
(* Publication: #publishStaging and #publishVerifiedStaging *)

\* publish: the record goes first, so a handle publishes at most once.
BeginPublish(s, i) ==
    /\ At(s, "idle") /\ i \in staging[s]
    /\ staging' = [staging EXCEPT ![s] = @ \ {i}]
    /\ op' = [op EXCEPT ![s] = [Idle EXCEPT !.pc = "verify", !.id = i]]
    /\ UNCHANGED <<files, roots, gnawed, sweep, rooted, lost, memory, holder, faults>>

\* The caller's validation and #verifyStaging pass, then the permit is taken;
\* or one of them fails (the staging root may be gone).
Verify(s) ==
    /\ At(s, "verify")
    /\ \/ /\ <<s, op[s].id>> \in roots /\ holder = None
          /\ holder' = s
          /\ Goto(s, "take")
       \/ Goto(s, "drop") /\ UNCHANGED holder
    /\ UNCHANGED <<files, stages, memory, faults>>

\* Mutant: the permit is kept when the attempt fails before the move.
FailHoldingPermit(s) ==
    /\ Goto(s, "drop")
    /\ UNCHANGED <<files, roots, gnawed, sweep, holder>>

\* The attempt fails before anything moved: nothing to compensate.
FailUnmoved(s) ==
    /\ holder' = None
    /\ Goto(s, "drop")
    /\ UNCHANGED <<files, roots, gnawed, sweep>>

\* An existing directory is refused; otherwise sync the staged tree, remove the
\* marker and rename the root into place.  A root that is being removed may miss
\* what these steps need, or only what they do not look at.
Take(s) ==
    LET i == op[s].id
        r == <<s, i>> IN
    /\ At(s, "take")
    /\ \/ /\ dir[i] = "absent" /\ r \in roots
          /\ dir' = [dir EXCEPT ![i] = IF r \in gnawed THEN "damaged" ELSE "whole"]
          /\ dirDisk' = [dirDisk EXCEPT ![i] = @ \cup IF r \in gnawed THEN Placed ELSE {"whole"}]
          /\ Gone(r)
          /\ Goto(s, "sync")
          /\ NoFault
          /\ UNCHANGED <<meta, catalog, active, metaDisk, activeDisk, holder>>
       \/ /\ dir[i] # "absent" \/ r \notin roots \/ r \in gnawed
          /\ NoFault
          /\ FailUnmoved(s)
       \/ Fault /\ FailUnmoved(s)
    /\ UNCHANGED <<staging, rooted, lost, memory>>

\* Mutant: the metadata is not compensated.
RollbackKeepsMeta(s, resources) ==
    op' = [op EXCEPT ![s].pc = "rollback", ![s].todo = {op[s].id} \X (resources \ {"meta"})]

\* After the move a failure starts the compensations: the directory, the
\* metadata and, once the publisher has returned its receipt, the catalog.
BeginRollback(s, resources) ==
    op' = [op EXCEPT ![s].pc = "rollback", ![s].todo = {op[s].id} \X resources]
Unpublished == {"dir", "meta"}

SyncEpochs(s) ==
    /\ At(s, "sync")
    /\ \/ NoFault /\ dirDisk' = SyncedDirs /\ Goto(s, "activate")
       \/ Fault /\ UNCHANGED dirDisk /\ BeginRollback(s, Unpublished)
    /\ UNCHANGED <<dir, meta, catalog, active, metaDisk, activeDisk, stages, memory, holder>>

\* beforeActivate: ArtifactService, the one caller, always passes a publisher
\* that stores its catalog and returns a receipt for it.  When that fails it may
\* leave the catalog behind.
Activate(s) ==
    LET i == op[s].id IN
    /\ At(s, "activate")
    /\ \/ /\ NoFault
          /\ catalog' = catalog \cup {i}
          /\ Goto(s, "record")
       \/ /\ Fault
          /\ catalog' \in {catalog, catalog \cup {i}}
          /\ BeginRollback(s, Unpublished)
    /\ UNCHANGED <<dir, meta, active, dirDisk, metaDisk, activeDisk, stages, memory, holder>>

\* #writeEpochMetadata up to its rename: it syncs the epochs directory, that
\* holds .metadata, first.
Record(s) ==
    LET i == op[s].id IN
    /\ At(s, "record")
    /\ \/ /\ NoFault
          /\ SetMeta(i, TRUE)
          /\ dirDisk' = SyncedDirs
          /\ Goto(s, "recordSync")
       \/ /\ Fault
          /\ BeginRollback(s, Resources)
          /\ UNCHANGED <<meta, metaDisk, dirDisk>>
    /\ UNCHANGED <<dir, catalog, active, activeDisk, stages, memory, holder>>

\* Mutant: the metadata directory is not synced before the commit.
RecordUnsynced(s) ==
    /\ At(s, "recordSync")
    /\ Goto(s, "commit")
    /\ UNCHANGED <<files, stages, memory, holder, faults>>

RecordSync(s) ==
    /\ At(s, "recordSync")
    /\ \/ NoFault /\ metaDisk' = SyncedMeta /\ Goto(s, "commit")
       \/ Fault /\ UNCHANGED metaDisk /\ BeginRollback(s, Resources)
    /\ UNCHANGED <<dir, meta, catalog, active, dirDisk, activeDisk, stages, memory, holder>>

\* #writeActiveMetadata up to its rename, which commits the publication.
Commit(s) ==
    LET i == op[s].id IN
    /\ At(s, "commit")
    /\ \/ /\ NoFault
          /\ active' = i
          /\ activeDisk' = activeDisk \cup {i}
          /\ Goto(s, "commitSync")
       \/ /\ Fault
          /\ BeginRollback(s, Resources)
          /\ UNCHANGED <<active, activeDisk>>
    /\ UNCHANGED <<dir, meta, catalog, dirDisk, metaDisk, stages, memory, holder>>

\* Mutant: the directory of active-epoch.json is not synced.
CommitUnsynced(s) ==
    /\ At(s, "commitSync")
    /\ Goto(s, "retain")
    /\ UNCHANGED <<files, stages, memory, holder, faults>>

\* Mutant: a failed sync rolls the publication back although it is committed.
CommitRollsBack(s) ==
    /\ At(s, "commitSync")
    /\ \/ NoFault /\ activeDisk' = {active} /\ Goto(s, "retain")
       \/ Fault /\ UNCHANGED activeDisk /\ BeginRollback(s, Resources)
    /\ UNCHANGED <<dir, meta, catalog, active, dirDisk, metaDisk, stages, memory, holder>>

\* The directory of active-epoch.json, which is that of epochs, is synced; a failure is reported as
\* EpochPostCommitDurabilityError and skips the retention pass.
CommitSync(s) ==
    /\ At(s, "commitSync")
    /\ \/ /\ NoFault
          /\ activeDisk' = {active}
          /\ rooted' = TRUE /\ lost' = None
          /\ Goto(s, "retain")
          /\ UNCHANGED holder
       \/ /\ Fault
          /\ UNCHANGED <<activeDisk, rooted, lost>>
          /\ holder' = None
          /\ Goto(s, "drop")
    /\ UNCHANGED <<dir, meta, catalog, active, dirDisk, metaDisk, roots, gnawed, staging, sweep, memory>>

\* One compensation: the path is removed and its parent synced.  Its failure
\* may leave the path, or its removal unsynced, and is aggregated.
Compensated(s, w) == op' = [op EXCEPT ![s].todo = @ \ {w}]
CompensationFailed(s, w) == op' = [op EXCEPT ![s].todo = @ \ {w}, ![s].clean = FALSE]

UndoDir(s) ==
    LET i == op[s].id IN
    /\ At(s, "rollback") /\ <<i, "dir">> \in op[s].todo
    /\ \/ /\ NoFault
          /\ dir' = [dir EXCEPT ![i] = "absent"]
          /\ dirDisk' = [SyncedDirs EXCEPT ![i] = {"absent"}]
          /\ Compensated(s, <<i, "dir">>)
       \/ /\ Fault
          /\ \E v \in {dir[i], "torn", "absent"} : SetDir(i, v)
          /\ CompensationFailed(s, <<i, "dir">>)
    /\ UNCHANGED <<meta, catalog, active, metaDisk, activeDisk, stages, memory, holder>>

UndoMeta(s) ==
    LET i == op[s].id IN
    /\ At(s, "rollback") /\ <<i, "meta">> \in op[s].todo
    /\ \/ /\ NoFault
          /\ meta' = [meta EXCEPT ![i] = FALSE]
          /\ metaDisk' = [SyncedMeta EXCEPT ![i] = {FALSE}]
          /\ Compensated(s, <<i, "meta">>)
       \/ /\ Fault
          /\ \/ UNCHANGED <<meta, metaDisk>>
             \/ SetMeta(i, FALSE)
          /\ CompensationFailed(s, <<i, "meta">>)
    /\ UNCHANGED <<dir, catalog, active, dirDisk, activeDisk, stages, memory, holder>>

\* receipt.rollback(): a failure, before or after the removal of the catalog.
UndoCatalog(s) ==
    LET i == op[s].id IN
    /\ At(s, "rollback") /\ <<i, "catalog">> \in op[s].todo
    /\ \/ NoFault /\ catalog' = catalog \ {i} /\ Compensated(s, <<i, "catalog">>)
       \/ Fault /\ catalog' \in {catalog, catalog \ {i}} /\ CompensationFailed(s, <<i, "catalog">>)
    /\ UNCHANGED <<dir, meta, active, dirDisk, metaDisk, activeDisk, stages, memory, holder>>

EndRollback(s) ==
    /\ At(s, "rollback") /\ op[s].todo = {}
    /\ holder' = None
    /\ Goto(s, "drop")
    /\ UNCHANGED <<files, stages, memory, faults>>

\* Whatever the outcome, the staging root is removed, outside the lease permit,
\* and the call settles.
Drop(s) ==
    /\ At(s, "drop")
    /\ op' = [op EXCEPT ![s] = Idle]
    /\ Gone(<<s, op[s].id>>)
    /\ UNCHANGED <<files, staging, rooted, lost, memory, holder, faults>>

-----------------------------------------------------------------------------
(* Leases *)

Refs(i) == {l \in Leases : lease[l].state # "free" /\ lease[l].id = i}

Grant(s, l, i) ==
    /\ refs' = [refs EXCEPT ![i] = @ + 1]
    /\ lease' = [lease EXCEPT ![l] = [state |-> "open", id |-> i, store |-> s]]
    /\ UNCHANGED <<files, stages, holder, op, faults>>

\* acquireEpochReference: the directory and the metadata must exist.  Both
\* permits are held throughout and nothing is written: one step.
Acquire(s, l, i) ==
    /\ At(s, "idle") /\ holder = None
    /\ lease[l].state = "free"
    /\ dir[i] # "absent" /\ meta[i]
    /\ Grant(s, l, i)

\* acquireActiveEpochReference
AcquireActive(s, l) ==
    /\ At(s, "idle") /\ holder = None
    /\ lease[l].state = "free"
    /\ active # None /\ ReadableActive
    /\ Grant(s, l, active)

\* EpochReference.close: memoised, so that only the first call starts a release.
CloseLease(l) ==
    /\ lease[l].state = "open"
    /\ lease' = [lease EXCEPT ![l].state = "closing"]
    /\ UNCHANGED <<files, stages, refs, holder, op, faults>>

\* releaseEpochReference takes #transitions first, and waits for the lease
\* permit with it.
BeginRelease(l) ==
    LET s == lease[l].store IN
    /\ lease[l].state = "closing"
    /\ At(s, "idle")
    /\ lease' = [lease EXCEPT ![l].state = "releasing"]
    /\ Goto(s, "release")
    /\ UNCHANGED <<files, stages, refs, holder, faults>>

\* The last release of an epoch deletes its counter and runs the retention pass
\* under the same two permits.
Release(l) ==
    LET i == lease[l].id
        s == lease[l].store IN
    /\ lease[l].state = "releasing"
    /\ holder = None
    /\ lease' = [lease EXCEPT ![l] = FreeLease]
    /\ \/ /\ refs[i] = 1
          /\ refs' = [refs EXCEPT ![i] = 0]
          /\ holder' = s
          /\ Goto(s, "retain")
       \/ /\ refs[i] # 1
          /\ refs' = [refs EXCEPT ![i] = IF @ > 1 THEN @ - 1 ELSE @]
          /\ Goto(s, "idle")
          /\ UNCHANGED holder
    /\ UNCHANGED <<files, stages, faults>>

-----------------------------------------------------------------------------
(* Retention: #cleanupUnderLease *)

\* cleanup()
BeginCleanup(s) ==
    /\ At(s, "idle") /\ holder = None
    /\ holder' = s
    /\ Goto(s, "retain")
    /\ UNCHANGED <<files, stages, memory, faults>>

\* Mutants: the retention pass forgets the leases, or the active epoch.
IgnoringLeases == {i \in Ids : meta[i] /\ i # active}
IgnoringActive == {i \in Ids : meta[i] /\ refs[i] = 0}

\* Epochs with metadata, neither active nor leased; the newest Retain of them
\* are kept and the others deleted.
Unprotected == {i \in Ids : meta[i] /\ i # active /\ refs[i] = 0}
\* Mutant: the order is reversed, and the oldest are kept.
NewestVictims == {i \in Unprotected : Cardinality({j \in Unprotected : j < i}) >= Retain}
Victims == {i \in Unprotected : Cardinality({j \in Unprotected : j > i}) >= Retain}

\* A publication then removes its staging root; another call is over.
EndRetention(s) ==
    /\ holder' = None
    /\ op' = [op EXCEPT ![s] = IF @.id = None THEN Idle ELSE [@ EXCEPT !.pc = "drop"]]

\* Mutant: the deletion starts with the directory.
SelectDirs(s) ==
    /\ At(s, "retain") /\ ReadableActive
    /\ op' = [op EXCEPT ![s].pc = "delete", ![s].todo = Victims \X {"dir"}]
    /\ UNCHANGED <<files, stages, memory, holder, faults>>

\* Reads the active epoch and all metadata, and chooses what to delete; an
\* unreadable active epoch or a failed read deletes nothing.
SelectVictims(s) ==
    /\ At(s, "retain")
    /\ \/ /\ ReadableActive
          /\ NoFault
          /\ op' = [op EXCEPT ![s].pc = "delete", ![s].todo = Victims \X {"catalog"}]
          /\ UNCHANGED holder
       \/ ~WholeActive /\ NoFault /\ EndRetention(s)
       \/ Fault /\ EndRetention(s)
    /\ UNCHANGED <<files, stages, memory>>

\* The deletions of different epochs run concurrently; of one epoch, in order:
\* the catalog, then the directory, then the metadata.  A failed deletion ends
\* that epoch's, and is reported after all the others.
Deleted(s, w, next) == op' = [op EXCEPT ![s].todo = (@ \ {w}) \cup next]
DeletionFailed(s, w) == op' = [op EXCEPT ![s].todo = @ \ {w}, ![s].clean = FALSE]

DeleteCatalog(s, i) ==
    LET w == <<i, "catalog">> IN
    /\ At(s, "delete") /\ w \in op[s].todo
    /\ \/ NoFault /\ catalog' = catalog \ {i} /\ Deleted(s, w, {<<i, "dir">>})
       \/ Fault /\ UNCHANGED catalog /\ DeletionFailed(s, w)
    /\ UNCHANGED <<dir, meta, active, dirDisk, metaDisk, activeDisk, stages, memory, holder>>

\* rm -r: a failure, or a kill, half-way leaves the tree torn.
TearDir(s, i) ==
    /\ At(s, "delete") /\ <<i, "dir">> \in op[s].todo
    /\ dir[i] \in Placed
    /\ SetDir(i, "torn")
    /\ UNCHANGED <<meta, catalog, active, metaDisk, activeDisk, stages, memory, holder, op, faults>>

DeleteDir(s, i) ==
    LET w == <<i, "dir">> IN
    /\ At(s, "delete") /\ w \in op[s].todo
    /\ \/ NoFault /\ SetDir(i, "absent") /\ Deleted(s, w, {<<i, "meta">>})
       \/ Fault /\ UNCHANGED <<dir, dirDisk>> /\ DeletionFailed(s, w)
    /\ UNCHANGED <<meta, catalog, active, metaDisk, activeDisk, stages, memory, holder>>

DeleteMeta(s, i) ==
    LET w == <<i, "meta">> IN
    /\ At(s, "delete") /\ w \in op[s].todo
    /\ \/ NoFault /\ SetMeta(i, FALSE) /\ Deleted(s, w, {})
       \/ Fault /\ UNCHANGED <<meta, metaDisk>> /\ DeletionFailed(s, w)
    /\ UNCHANGED <<dir, catalog, active, dirDisk, activeDisk, stages, memory, holder>>

EndCleanup(s) ==
    /\ At(s, "delete") /\ op[s].todo = {}
    /\ EndRetention(s)
    /\ UNCHANGED <<files, stages, memory, faults>>

-----------------------------------------------------------------------------
(* Failures of the process and of the machine *)

ForgetMemory ==
    /\ staging' = [s \in Stores |-> {}]
    /\ refs' = [i \in Ids |-> 0]
    /\ lease' = [l \in Leases |-> FreeLease]
    /\ holder' = None
    /\ op' = [s \in Stores |-> Idle]
    /\ roots' = {} /\ gnawed' = {} /\ sweep' = [s \in Stores |-> {}]

\* The process is killed: the file system keeps what it was last told.
Crash ==
    /\ Fault
    /\ ForgetMemory
    /\ UNCHANGED <<files, rooted, lost>>

\* The machine loses power: each entry that was not synced is found in any of
\* the contents it had since it last was; that of epochs with all it holds.
PowerLoss ==
    /\ PowerFailures
    /\ Fault
    /\ ForgetMemory
    /\ active' \in activeDisk
    /\ \/ /\ dir' \in {d \in [Ids -> DirStates] : \A i \in Ids : d[i] \in dirDisk[i]}
          /\ meta' \in {m \in [Ids -> BOOLEAN] : \A i \in Ids : m[i] \in metaDisk[i]}
          /\ rooted' = TRUE
          /\ UNCHANGED <<catalog, lost>>
       \/ /\ ~rooted
          /\ dir' = [i \in Ids |-> "absent"] /\ meta' = [i \in Ids |-> FALSE]
          /\ catalog' = {} /\ lost' = active'
          /\ UNCHANGED rooted
    /\ dirDisk' = [i \in Ids |-> {dir'[i]}]
    /\ metaDisk' = [i \in Ids |-> {meta'[i]}]
    /\ activeDisk' = {active'}

\* The steps that finish a call in progress.
StoreStep(s) ==
    \/ Verify(s) \/ Take(s) \/ SyncEpochs(s) \/ Activate(s) \/ Record(s) \/ RecordSync(s)
    \/ Commit(s) \/ CommitSync(s) \/ UndoDir(s) \/ UndoMeta(s) \/ UndoCatalog(s)
    \/ EndRollback(s) \/ Drop(s) \/ SelectVictims(s) \/ EndCleanup(s) \/ EndRecovery(s)
    \/ \E r \in sweep[s] : RemoveRoot(s, r)
    \/ \E i \in Ids : DeleteCatalog(s, i) \/ DeleteDir(s, i) \/ DeleteMeta(s, i)

Call(s) ==
    \/ \E i \in Ids : CreateStaging(s, i) \/ CloseStaging(s, i) \/ BeginPublish(s, i)
    \/ RecoverStaging(s) \/ BeginCleanup(s)
    \/ \E l \in Leases : AcquireActive(s, l) \/ \E i \in Ids : Acquire(s, l, i)

Next ==
    \/ \E s \in Stores : Call(s) \/ StoreStep(s)
    \/ \E s \in Stores : (\E i \in Ids : TearDir(s, i)) \/ \E r \in sweep[s] : TearRoot(s, r)
    \/ \E l \in Leases : CloseLease(l) \/ BeginRelease(l) \/ Release(l)
    \/ Crash \/ PowerLoss

\* A call in progress continues, and the permits are handed out in order of
\* arrival, so a call that waits for one gets it.
Fairness ==
    /\ \A s \in Stores : SF_vars(Verify(s)) /\ WF_vars(StoreStep(s))
    /\ \A l \in Leases : SF_vars(BeginRelease(l)) /\ SF_vars(Release(l))

Spec == Init /\ [][Next]_vars
FairSpec == Spec /\ Fairness

-----------------------------------------------------------------------------
(* Properties *)

FilesTyped ==
    /\ dir \in [Ids -> DirStates] /\ meta \in [Ids -> BOOLEAN]
    /\ catalog \subseteq Ids /\ active \in Ids \cup {None}
DisksTyped ==
    /\ dirDisk \in [Ids -> SUBSET DirStates] /\ metaDisk \in [Ids -> SUBSET BOOLEAN]
    /\ activeDisk \subseteq Ids \cup {None}
MemoryTyped ==
    /\ roots \subseteq Stores \X Ids
    /\ staging \in [Stores -> SUBSET Ids]
    /\ refs \in [Ids -> Nat]
    /\ lease \in [Leases -> {FreeLease} \cup
                    [state : {"open", "closing", "releasing"}, id : Ids, store : Stores]]
CallsTyped ==
    /\ holder \in Stores \cup {None}
    /\ op \in [Stores -> [pc : Steps, id : Ids \cup {None}, todo : SUBSET (Ids \X Resources), clean : BOOLEAN]]
    /\ faults \in 0 .. MaxFaults
RecoveryTyped ==
    /\ gnawed \subseteq Stores \X Ids
    /\ sweep \in [Stores -> SUBSET (Stores \X Ids)]
    /\ rooted \in BOOLEAN /\ lost \in Ids \cup {None}
TypeOK == FilesTyped /\ DisksTyped /\ MemoryTyped /\ CallsTyped /\ RecoveryTyped

\* Whatever fails and wherever the process is killed, active-epoch.json names
\* an epoch whose metadata and directory exist, so that #readActiveEpoch answers
\* and does not throw EPOCH_METADATA_INVALID.  Not so when a power failure has
\* taken the whole of epochs, until the next publication that succeeds; and what
\* a recoverStaging had removed of the staged tree is missing.
ActiveIntact == active \notin {None, lost} => meta[active] /\ dir[active] \in Placed

\* The process-wide counter of an epoch is the number of EpochReferences held on
\* it, through whichever store, counting those whose release still waits.
LeaseCounts == \A i \in Ids : refs[i] = Cardinality(Refs(i))

\* While a reference is held, no call of any store, rollback or deletion
\* touches the directory, the metadata or the catalog of its epoch.
LeaseProtects ==
    [][\A l \in Leases :
         LET i == lease[l].id IN
         lease[l].state # "free" /\ lease'[l].state # "free" =>
             /\ dir'[i] = dir[i] /\ meta'[i] = meta[i]
             /\ i \in catalog <=> i \in catalog']_vars

\* What the retention pass deletes is neither active nor leased, and at least
\* Retain newer epochs that are neither stay behind.
RetentionKeepsNewest ==
    [][\A s \in Stores, i \in Ids :
         At(s, "delete") /\ holder' = s /\ dir'[i] # dir[i] =>
             /\ i # active /\ refs[i] = 0
             /\ Cardinality({j \in Unprotected : j > i}) >= Retain]_vars

\* An epoch is torn down from the outside in, so that what a failed deletion
\* leaves is still listed and the deletion retried: the directory goes only
\* after the catalog, and the metadata after both.
DeletionOrder ==
    [][\A s \in Stores, i \in Ids :
         At(s, "delete") /\ holder' = s =>
             /\ dir'[i] # dir[i] => i \notin catalog
             /\ meta'[i] # meta[i] => dir[i] = "absent" /\ i \notin catalog]_vars

\* A publication that failed before its commit and whose compensations all
\* succeeded leaves no directory and no metadata, not even after a power
\* failure, so that the id can be published again.
RollbackComplete ==
    \A s \in Stores :
        LET i == op[s].id IN
        At(s, "rollback") /\ op[s].todo = {} /\ op[s].clean =>
            /\ active # i /\ i \notin activeDisk
            /\ dirDisk[i] = {"absent"} /\ metaDisk[i] = {FALSE}

\* A power failure at any moment leaves an active epoch that can be read, if it
\* leaves the directory epochs, as long as the clock never steps back and at most
\* Retain publications were interrupted or left unsynced before: each of those may
\* list an epoch newer than the one the disk still names, and the retention pass
\* keeps Retain.
PowerLossSafe ==
    \A a \in activeDisk \ {None, lost} : dirDisk[a] \subseteq Placed /\ metaDisk[a] = {TRUE}

\* From the retention pass on a publication can only report success or
\* EpochPostCommitCleanupError: its epoch is active and would survive a power
\* failure, and so would the directory epochs.
SuccessIsDurable ==
    \A s \in Stores :
        op[s].pc \in {"retain", "delete"} /\ op[s].id # None =>
            /\ activeDisk = {op[s].id} /\ rooted
            /\ dirDisk[op[s].id] \subseteq Placed /\ metaDisk[op[s].id] = {TRUE}

\* The store implements the catalogue of EpochCatalog, where an active or leased
\* epoch is never withdrawn: an epoch is available when it can be leased.
Available == {i \in Ids : dir[i] # "absent" /\ meta[i]}
Catalog == INSTANCE EpochCatalog WITH available <- Available,
                                      leased <- {i \in Ids : refs[i] > 0}
ImplementsCatalog == Catalog!Spec

\* Every call settles, and every release that was asked for happens: no call keeps
\* the process-wide permit, whatever fails under it.
CallsSettle ==
    /\ \A s \in Stores : ~At(s, "idle") ~> At(s, "idle")
    /\ \A l \in Leases : lease[l].state = "closing" ~> lease[l].state = "free"

=============================================================================
