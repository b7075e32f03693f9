# A verification development for agent-bundle

agent-bundle compiles agent plugins (skills, hooks, MCP servers) for several
hosts. Most of it is a sequential transformation of configuration into files,
which tests cover well. The part that is hard to test is the **development
server** (`packages/agent-bundle/src/dev`): it rebuilds on every change while
hosts and the workbench read earlier results, it survives kills and power
failures, and it shares a project directory with other processes. The same holds
of the **state kernel** of the runtime that plugins ship with
(`packages/rsc-runtime/src/state`): several processes, of several versions, on
one database. This development models these two in TLA+, checks them with TLC and
proves the central facts with TLAPS.

Paths below are relative to `packages/agent-bundle/src` unless they begin with
`packages/` or `docs/`.

## 1. Inventory

| Component | State it keeps | Operations | What is hard | What makes it correct |
|---|---|---|---|---|
| **Artifact epoch store** `dev/epoch-store.ts` | epoch directories, their metadata, the native-playground catalog, `active-epoch.json`; staging records; process-wide reference counters and lease permit | `createStagingEpoch`, `publish`, handle `close`, `acquireEpochReference`, `acquireActiveEpochReference`, reference `close`, `cleanup`, `recoverStaging` | a publication is a dozen file-system steps with compensations; several stores of a process share counters; retention deletes what nobody uses | the active epoch is always readable; leased epochs are never touched; success is durable |
| **Project lock** `dev/dev-lock.ts`, `core/owner-lock.ts`, `core/durable-fs.ts` | `dev.lock`, `dev.lock.recovery`, the server URL record | `acquireDevLock`, `publishServerUrl`, `close` | stale locks, contenders racing to recover, read-then-remove on files | one writer; no residue; acquisition settles |
| **Epoch adoption policy** `dev/epoch-adoption-policy.ts` | current epoch and its lease, pending candidate, sequence | `seed`, `artifact.available`, the drain, `close` | every await lets newer candidates or `close` in | the advertised epoch is leased; nothing obsolete is adopted |
| **Coordinator and watcher** `dev/coordinator.ts`, `dev/watcher.ts` | lock handle, watcher, running build, queued follow-up, session, closing promise | `start`, `rebuild`, watcher flush, `close` | startup raced by `close`, coalescing of builds, a watcher that waits for a build that waits for a close | builds under the lock; fresh answers; everyone answered |
| **Event hub** `dev/events.ts` | sequence, 256 retained events, subscriptions, a dispatch queue | `publish`, `subscribe`, `unsubscribe` | listeners that publish, subscribe or throw while events are dispatched; gaps | each listener sees each event once, in order, or a gap |
| **Runtime generations** `dev/runtime-generation-store.ts` | candidates, prepared and committed generations, references, the chain of cleanups | `begin`, `prepare`, `commit`, `abort`, `fail`, `lease`, `close` | concurrent preparations under one id, cleanups that outlive the call that asked for them, pruning against leases | what is committed is whole; a leased generation stays; the excess goes |
| Runtime controller `dev/runtime-controller.ts` | one runtime session and its provider | start with timeout, reload, reconcile, stop | a start that succeeds after its timeout | a late session is stopped |
| Artifact service and native playground `dev/artifacts`, `dev/playground` | catalog snapshots | `build`, catalog publication with a receipt | part of the store's publication | see the store |
| Package build service `dev/package-build-service.ts` | last published provenance | `build` | may throw outside its own `try` | a failure warns only |
| Workbench server and host routes `dev/workbench-server.ts`, `dev/host-mcp-routes.ts` | one MCP session per epoch, in-flight counters | HTTP requests | an epoch deleted between adoption and use | drift is reported, never served |
| **Host install manager** `dev/host-install-manager.ts` | generations of the installed bundle, pointers and copies of its entries, the manifest of what is published, backups | sync of an epoch into a host, `close` | a dozen file operations per sync, any of which may fail, also in the rollback | what `attached()` names is what the host has; no pointer dangles or is forgotten |
| MCP tasks `mcp-tasks.ts` | a bounded table of tasks with time to live | create, result, cancel, list | cancel against settle, eviction | a task ends in one status |
| **RSC state kernel** `packages/rsc-runtime/src/state` | head, journal, pruned keys and definition version in one database; open stores and pending opens of each process | open with upgrade, dispatch, reset, compact, read, change cursors, close | retries with a key after a migration or a compaction, conditional commits, an older version that goes on writing | a key takes effect once; a retry gets its answer; no lost update; the database opens again |
| Compiler, adapters, installers, evaluation runner, workbench UI, scaffolder, markdown stream | files, or a browser's state | command line, rendering | data, not interleaving | outside this development |

How they interact: the watcher calls `rebuild()` of the coordinator, which holds
the project lock, prepares the project and calls the artifact service; that
stages an epoch and publishes it in the store, and the coordinator publishes
`artifact.available` on the event hub. The adoption policy hears the event,
leases the epoch from the store and points hosts at it, and the host install
manager syncs it into the hosts that were asked for, one epoch after the other.
Any lease that is the last of its epoch starts a retention pass when it is
returned. The runtime controller prepares, commits and leases generations of the
runtime in a store of their own. The state kernel is used by the running
plugins, not by the server.

## 2. Modules

| Module | Models | Abstracted |
|---|---|---|
| `EpochStore` | the store, one action per await; kills and power failures between any two | ids are numbers in the order `compareNewestFirst` sorts by; JSON files are present or absent; a directory is absent, whole, torn by a removal, or damaged (put into place while a recovery was removing it) |
| `EpochCatalog` | what the store promises: available, active and leased epochs | everything that is not visible to a caller |
| `DevLock` | acquisition, recovery gate, URL record and close, one action per access to a shared file, each of which may fail | private candidate files; records that do not parse |
| `EpochAdoption` | the policy, composed with the catalogue that the store implements | contract evaluation is a verdict; listeners' own work |
| `DevCoordinator` | coordinators of one project, each in a process of its own, with their watchers and the signatures they compare | the lock is its owner; sources are a version number, which is their signature too; status and events |
| `EventHub` | the hub, as frames of the call stack: the loops in progress and the listeners they have called | an event is its number; failure reports |
| `RuntimeGenerations` | the generation store, one await at a time, with its initialization, candidates, leases, prunes and close | what a validation looks at is one outcome; of the controller, the calls it makes |
| `StateLedger` | what the state store promises: a history in which a key is at most once, and what is still told of it | everything but the history, the keys and the answers |
| `StateStore` | the sqlite driver and the journal: processes with their open stores, transactions, kills | states and events are model values, the reducer and the migrations constants |
| `HostInstall` | the syncs of one host, one file operation at a time, with failures in the publication and in its rollback | the hosts' own installers are one outcome, the application server one or copies that come late; of `installBundle`, what it replaces, leaves and refuses; entries are names |
| `*_proofs` | the theorems | |
| `MC*` | instances for TLC | |

State and code. In `EpochStore`, `dir`, `meta`, `catalog` and `active` are what a
reader of the file system sees; `dirDisk`, `metaDisk` and `activeDisk` are the
*sets* of contents a power failure may leave (an entry is certain only once its
directory was synced), and `rooted` tells whether `epochs` itself was, in
`.agent-bundle`; `sweep` is what a `recoverStaging` is still removing and
`gnawed` the staging roots it has begun with, `lost` the history of a power
failure that took `epochs`; `staging`, `refs`, `lease` and `holder` are the
store's maps and the shared permit, and `op[s]` is the call a store runs under
its own permit. In `DevLock`, `pc[p]` is where `acquireDevLock` or `close` is and
`seen`, `gseen` what it read before; `removeIfOwned` is two steps, because it is
two calls. `kept` is the history of the removals that failed. In `EpochAdoption`,
`drain` is the await that the loop is at. In `DevCoordinator`, `build`, `queue`
and `call` are the running build, the deferred follow-up and the promises of the
callers; `dirty`, `flush` and `signed` are the watcher's `#paths`, the flush in
progress and `#signatures`; `phase` and `closing` are the awaits of `start()` and
`close()`; `acquiring` and `recovering` are the promises that `start()` has given
up waiting for but that go on. In `EventHub`, the hub is synchronous and its
listeners may call it back, so its state includes the stack of its own loops: a
frame is a loop in progress or a listener it has called. In `RuntimeGenerations`,
the record of a candidate holds the await its `prepare()` is at, `staged` and
`disk` what is on disk, `torn` what a failed removal has left of it, `tail` the
cleanups scheduled and `closing` where `close()` is. In `StateStore`, one action is one transaction: sqlite runs them
one at a time, and a process that is killed in one leaves nothing of it; what a
caller knows from earlier transactions (`expectedRevision`, a key whose answer
was lost) is a variable. In `HostInstall`, `pc` is the file operation the running
sync is at and `job` its local variables; `queue` is the chain `#pending` and
`late` the epoch whose `plugin/install` was given up while the application server
went on.

`EpochStore`, `EpochAdoption` and `DevCoordinator` are not composed into one
module: `EpochAdoption` uses the abstract catalogue, and the run `epoch_store`
shows that the store implements it; `DevCoordinator` uses an atomic lock, and
`DevLock` shows (under the condition below) that the protocol provides one.

## 3. Runs

| Run | Question | Instance | Distinct states |
|---|---|---|---|
| `epoch_store` | Do leases, publication, retention and recovery of two stores implement the catalogue? | 2 stores, 2 leases, 2 epochs, `Retain = 0`, 1 fault, no power failure | 1,300,738 |
| `epoch_durability` | What do failures, kills and power failures leave? | 1 store, 1 lease, 4 epochs, `Retain = 2`, 2 faults | 155,663 |
| `dev_lock` | Is there one writer, and does everyone settle? | 3 processes, kills anywhere, 2 failing file operations, `GateRace = FALSE` | 137,581 |
| `epoch_adoption` | Is the advertised epoch always leased, and never obsolete? | 4 epochs | 44 thousand |
| `dev_coordinator` | Are builds under the lock, answers fresh, calls answered, changes built, closes complete? | 1 coordinator, 1 caller besides the watcher, 2 changes, repeated events, failing stats | 215,288 |
| `event_hub` | Do listeners that publish, subscribe, unsubscribe and throw disturb each other? | 3 subscriptions, 4 events, a history of 2 | 2.4 million |
| `runtime_generations` | Is what is committed whole, what is leased kept, the excess pruned, and nothing left by close()? | 3 candidates, 3 ids, 1 lease, 1 generation retained, 2 prunes at a time, 1 fault | 776,715 |
| `state_store` | Do retries, conditional commits, upgrades and compactions of two processes implement the ledger, and does the database always open again? | 2 processes, 2 versions, 2 keys, an event and a reset, 3 revisions | 353,960 |
| `host_install` | Whatever step of a sync fails, is the host what the manager says? | 3 epochs, 3 entries (2 directories), 2 syncs waiting, what an earlier session left, 3 faults | 4,389,294 |

The other three runs are those of section 4.

### Properties

* `EpochStore`: `LeaseProtects`, `ImplementsCatalog` (the refinement),
  `ActiveIntact`, `RollbackComplete`, `PowerLossSafe`, `SuccessIsDurable`,
  `RetentionKeepsNewest`, `DeletionOrder`, and the liveness property
  `CallsSettle`.
* `DevLock`: `OwnerHasLock` (which implies `SingleWriter`), `CleanExit`,
  `AcquireSettles`, `CloseSettles`.
* `EpochAdoption`: `AdvertisedLeased`, `LeasesAccounted`, `NeverObsolete`,
  `CandidateTaken`.
* `DevCoordinator`: `BuildsUnderLock`, `FreshAnswers`, `CloseLeavesNothing`,
  `CallsAnswered`, `ChangesBuilt`, `CloseSettles`.
* `EventHub`: `NeverReentered`, `Ordered`, `CaughtUp`, `LiveNeverMissed`.
* `RuntimeGenerations`: `CommittedWhole`, `LeasedKept`, `CloseLeavesNothing`,
  `RetentionKeeps` and the liveness property `ExcessPruned`.
* `StateStore`: `Reopens`, `RetryRecognised`, `ClosedLeavesNothing`,
  `ConditionalOnSeen` and `ImplementsLedger` (the refinement).
* `HostInstall`: `AttachedIntact`, `PointersLead`, `PointersKnown`.

Each module also has a type invariant, which is not a property of a run: it is
proved where there are proofs. For every property there is a mutant in
`PROJECT.json`: a plausible mistake in a definition of the model that makes TLC
find the property violated in the same run.

### Bounds, and why they are enough

* `MaxFaults` of `EpochStore` counts I/O failures, kills and power failures
  together. Two let a compensation fail while it compensates, and let a restart
  follow a failure; one, in `epoch_store`, lets any step of either store fail, or
  the process be killed, while the other store is at any step of its own.
* `Retain` is 5 in the code. It is 0 in `epoch_store`, so that everything that
  is not active or leased is deleted at once, and 2 in `epoch_durability`, so
  that retention chooses. `PowerLossSafe` depends on it: with more than
  `Retain` interrupted publications, or with epochs created by a clock that
  stepped back, the retention pass may delete the epoch that the disk still
  names (TLC finds both when `MaxFaults = Retain + 1`, or `ClockForward` is
  `FALSE`). The run states the strongest bound that holds.
* `MaxStaged = 1`: stores, not handles of a store, race for an id.
* Three processes are the least with which a recovery, a second contender and a
  new owner exist together. Two failing file operations let a rollback fail after
  what it rolls back, and a close fail again when it is tried again;
  `dev_lock_gate` needs none.
* Two changes, with a caller besides the watcher, let a change come before,
  during and after a build, while another is delivered and while a follow-up is
  queued for both.
* Four events against a history of two let events be dropped before and during
  a replay; three subscriptions let a listener subscribe inside a dispatch while
  another one waits its turn. The depth of the stack is not bounded otherwise.
* Three candidates let one commit while another is being prepared and a third
  supersedes both; `MaxTail = 2` lets a release ask for a prune
  while another one is queued or removes, and a prune that finds nothing to do is
  like one that was not scheduled.
* Three revisions let a key be committed, migrated and compacted away before it
  is retried, with two versions. `Accepts` says which states a schema accepts: in
  `state_store` those of its own version, in `state_upgrade` any. An upgrade
  whose migrated states the new schema refuses fails with nothing changed.
* In `host_install`, the three epochs drop, bring back and add an entry, a
  directory and a file among them. Three faults let a publication fail, its
  rollback fail too, and the sync of a later epoch fail over what that left. The
  session begins on nothing or on any epoch that an earlier one left.
* In `epoch_store`, a `recoverStaging` begins while another store publishes a
  staging root that exists, and half-removes only such a root (`LeaseSpec`). One that
  begins earlier, or beside another, removes the same roots; of a root that nobody
  publishes, all that is seen later is that `#verifyStaging` fails, and it may fail
  anyway. `epoch_durability` has no such restriction.
* `epoch_store` uses a view without the `*Disk` variables, which decide nothing
  when there is no power failure, and symmetry of stores and of leases; it
  checks no liveness.

### Fairness

* `EpochStore`: a call in progress continues (weak fairness). The permits are
  handed out in order of arrival, so a call that waits for one gets it: strong
  fairness of the steps that take a permit.
* `DevLock`: a process that is not killed continues what it awaits.
* `EpochAdoption`: the event loop runs what an await resolves to; a contract run
  and a lease settle.
* `DevCoordinator`: what a build awaits settles, and so do the two releases and
  each step of a flush (the debounce, the stat, the delivery).
  Nothing is assumed of the acquisition of the lock, the recovery of the store
  and the readiness of the watcher: `CloseSettles` holds even if they hang,
  which is the purpose of the code's race against `#startupClosed`.
* `RuntimeGenerations`: what a preparation, a cleanup and close() await settles.
* `StateStore` and `HostInstall` state no liveness: each of their calls is a
  sequence without a wait for another one, but for the queue of syncs.

`CHECK_DEADLOCK FALSE` is set everywhere: epochs, changes and faults are
bounded, and a project may be closed for good.

## 4. Where code and documents disagree

Each has a run whose one property states what the document, comment or test
says, and which TLC finds violated.

| Run | Property | What happens |
|---|---|---|
| `dev_lock_gate` | `SingleWriter` | The holder of the recovery gate is killed. Two contenders read the gate and judge its owner dead; one removes it and creates its own; the other removes *that* one. Both are inside, and two processes own the lock. Every other run excludes exactly this (`GateRace = FALSE`: no gate is abandoned with two contenders left to find it). |
| `event_replay` | `ReplayComplete` | `subscribe()` replays by iterating the live history array. A listener that publishes from its own replay, with a full history, shifts that array under the loop: a retained event is skipped, without a gap, while the next one is delivered. |
| `state_upgrade` | `Reopens` | A process has the store open with version 1. Another one opens it with version 2, which migrates it. The first goes on committing, because `#commit` never looks at the schema version again and its own schema accepts the migrated state; its record is reduced by the old reducer. The next open replays it with the new one, finds another state than the head and refuses the database as corrupt. |

`LiveNeverMissed`, and `Reopens` in `state_store` where a schema refuses the
states of other versions, state what the code does guarantee beside the last two.

Some more are visible in the models, as exceptions the properties name, and have
no run:

* `EpochStore`: the entry `epochs` of `.agent-bundle` is made at
  `epoch-store.ts:378` and synced only at `:911`, after `active-epoch.json` was
  renamed into the same directory. A power failure during the first publication
  may keep the file and lose all of `epochs`: the active epoch then has neither
  metadata nor directory until a publication succeeds (`lost`, which
  `ActiveIntact` and `PowerLossSafe` except). `recoverStaging` removes the staging
  roots of all stores path by path, without the lease permit (`:464-473`), so that
  a publication of another store that is past `#verifyStaging` (`:603`) may rename
  a half-removed tree into place (`:643`) and activate it. Such a directory is
  `damaged`; `ActiveIntact` and `PowerLossSafe` allow it, so "in place" in these
  properties does not mean that every file is there. It takes a recovery that
  overlaps a publication: of two stores of one process, or of a coordinator that
  was closed during its recovery (`coordinator.ts:395`) and whose successor
  publishes, or the removals that go on after one of them has failed.
* `DevLock`: the gate is removed in a `finally` (`dev-lock.ts:369`, `:478`). If that
  removal fails, the gate names a process that lives, and everybody who needs it
  waits in `:264-268` as long as that process lives: every acquisition that finds
  a stale lock, and that process's own close when it is tried again. `Stuck` is the
  exception of `AcquireSettles` and `CloseSettles`, and the only one. A failed
  rollback of a published lock (`:203-209`) leaves `dev.lock` to a process that has
  no handle; a URL record stays when the lock is gone as it is checked
  (`:333`), until the close.
* `DevCoordinator`: the watcher records the signature of a changed file before it
  delivers the change (`watcher.ts:168`), and `rebuild()` refuses a delivery while
  the initial build runs (`coordinator.ts:285`): the change is not built, and a
  repeated event of it is skipped (`watcher.ts:166`). A stat that fails drops all
  the paths of its flush (`watcher.ts:55-57`, `:152`, `:161`). `ChangesBuilt` excepts
  these two. `close()` gives up a startup
  that is in `recoverStaging` and releases the lock while the recovery goes on
  (`coordinator.ts:395`). A watcher-driven rebuild that rejects makes
  `ProjectWatcher.#close` reject before it closes the file watcher
  (`watcher.ts:208`), the watcher that `CloseLeavesNothing` calls `leaked`.
* `StateStore`: a retry of a `reset` without a seed, after an upgrade that changed
  the initial state, is refused as another call with the same key, because the
  seed it stands for is another one by then; `RetryRecognised` excepts it.
* `RuntimeGenerations`: an inactive generation whose removal fails in a prune
  (`runtime-generation-store.ts:786-788`) stays committed, and `lease()` (`:474`)
  gives it with some of its files gone. `CommittedWhole` says *whole* of what is
  active or prepared only, and `ExcessPruned` excepts what a failed removal left.
* `HostInstall`: a `plugin/install` request that is given up after 30 seconds or with
  its connection (`codex-app-server.ts:55`, `:82-85`) may still be executing: its
  copies land on what the rollback has put back (`host-install-manager.ts:444-466`),
  and the host has a mixture until a sync that begins later succeeds
  (`unrepaired`). `close()` leaves the installation of Cursor as it is, and the
  first install of a later session is refused if it finds pointers there, because
  `replaceInstalledTree` does not reach through a link (`receipt.ts:495-510`), so
  that every sync of that session fails. The model has this; no property says that
  a sync succeeds. Moreover, after a rollback that failed, or a failed refresh by the
  application server over an epoch that has no generation (`unrepaired`), the
  host has a mixture until the next success. `canRepublishPrevious` and the catch
  of `#syncHost` ask whether a generation exists, not whether it is whole
  (`host-install-manager.ts:414`, `:710`), so that one torn by a failed removal is
  published again with some of its entries; `AttachedIntact` excepts it. When a
  sync fails in two steps, or `publishDirectoryPointer` fails after its rename
  because the directory moved aside cannot be removed, the pointer is not among
  the `published` that the rollback removes, while its generation is removed
  (`twice`): it dangles until a later sync publishes that entry.

## 5. Proofs

All theorems hold for every value of the constants, from the named assumptions
of the modules (`None` is not an epoch, process or coordinator; bounds are
naturals; the references to epochs are finitely many).

* `EpochStore_proofs`: `TypeCorrect`, `CountsAgree`, `ReferencesProtect`,
  `ActiveAlwaysReadable`, `StoreImplementsCatalog`. `LeaseProtects` follows from
  an invariant that says who has the permit (`Permitted`), that a reference being
  released has its store to itself (`Releasing`), that what is referred to is
  available (`LeasedAvailable`), and that whoever removes files under the permit
  does so for epochs whose counter is zero (`Unleased`); the counter is zero only
  without references because `LeaseCounts` is part of it, which is an argument on
  the cardinality of sets of references (`GrantCounts`, `ReleaseCounts`).
  `ActiveAlwaysReadable` adds `Unfinished`: what is being published is not the
  active epoch, so that its compensations cannot hurt it, and has its directory
  and its metadata in place before it becomes active. That nothing is missing in
  that directory is not claimed (section 4): a `recoverStaging` needs no permit.
  The same invariant gives the refinement: a step changes the availability of one
  epoch at most (`OneChanged`). Both name the condition that the machine keeps
  its power, `~PowerFailures`; kills and I/O failures at any step are covered.
* The same module, on deletions and power failures. Without a condition:
  `NewestKept` (`RetentionKeepsNewest`), `DeletedOutsideIn` (`DeletionOrder`) and
  `SuccessDurable` (`SuccessIsDurable`). They rest on `FilesInv`, which says of
  each call at each await what it has written, what of that is synced, and what
  is left to undo or to delete; that an epoch chosen for deletion has `Retain`
  newer ones is counted when the pass chooses and kept until it has deleted.
  Under `Orderly`: `PowerLossLeavesActive` (`PowerLossSafe`),
  `ActiveReadableAfterPowerLoss` (`ActiveIntact` with power failures) and
  `FailedPublicationLeavesNothing` (`RollbackComplete`). `DiskInv` adds which
  epochs the disk may still name as active, that those are whole on disk too, and
  that every listed epoch newer than one of them is either in doubt or was paid
  for by a failure (`FewNewer`): at most `MaxFaults <= Retain` of them, so that
  the retention pass, which spares the `Retain` newest, does not choose what the
  disk may name. What a power failure that took all of `epochs` leaves (`lost`)
  is excepted in both `PowerLossSafe` and `ActiveIntact`, and in `DiskInv`, until
  the next publication succeeds; `SuccessDurable` says that a successful one has
  made the entry `epochs` durable as well. `Orderly` is what that count needs:
  one store with one staged epoch at a time, a clock that goes forward,
  `MaxFaults <= Retain`. Each is needed: TLC finds `PowerLossSafe` violated in
  `epoch_durability` with `MaxStaged = 2`, with `Retain = 0` or with three
  faults.
* `EpochAdoption_proofs`: `TypeCorrect`, `LeasesNeverLost`,
  `AdvertisedAlwaysLeased`, `ObsoleteNeverAdopted`. `AdvertisedLeased` is not
  inductive. `IInv` adds the account of the leases (every lease is the current
  one, the drain's, or the one being released), that a leased epoch stays
  available, and what the drain holds at each of its awaits.
* `DevLock_proofs`: `LockNamesOwner`, `MutualExclusion`, `LeavesNothing`,
  `TypeCorrect`, for any number of processes and with pid reuse. The argument:
  a removal is safe because what was read before it cannot have changed. For the
  lock, because whoever removes it holds the gate and a stale lock is never
  re-created by a dead process; for a dead process's gate, because nobody else
  is alive to replace it. The last point is where the assumption
  `~GateRace` enters, and the theorems name it. File operations may fail at any
  step and any number of times: `LeavesNothing` then leaves a refused process the
  lock or the gate whose removal failed (`kept`), a closed one nothing.
* `DevCoordinator_proofs`: `BuildsNeverOverlap`, `AnswersAreFresh`,
  `NothingIsLeft`, `TypeCorrect`. `IInv` has three parts: builds and the answers
  of their callers (`BuildInv`), the owner of the lock and its handle
  (`Owning`), and at which moments of startup and shutdown a build, a queue and
  a handle exist together (`Staged`).
* `RuntimeGenerations_proofs`: `CommittedAlwaysWhole`, `LeasedAlwaysKept`,
  `NothingIsLeft`, `TypeCorrect`. Directories are named by the candidate's id and
  several candidates may have one id, so the invariant says who owns the
  directory under an id at each stage: at most one candidate of an id is past its
  rename, and whoever removes a directory owns it or has been withdrawn.
  `RetentionAlwaysKeeps` (`RetentionKeeps`) needs one fact more. A prune chooses
  its victims at once but removes them across awaits, while leases and commits go
  on, so that what was counted is another set by then. `Spared` says what stays
  true: of every marked generation, `RetainInactive` newer inactive ones are not
  marked. A marked one that a failing removal tears was chosen in the same way.
  They may be leased or superseded meanwhile, but not marked before it.
* `StateStore_proofs`: `AtMostOnce`, `RetriesRecognised`, `NoStoreLeft`,
  `ConditionalAlways`, `TypeCorrect`. The invariant relates the four places that
  tell the history: the journal, the pruned keys, the head and the ghost of all
  effects. A key is in the journal or pruned, never both and never twice.
* The same module, on what is read from the journal: `StoryAlways`,
  `AlwaysReopens` (`Reopens`) and `LedgerImplemented` (`ImplementsLedger`, step by
  step: every transaction is a step of the ledger or leaves it alone). `Story` has
  three parts: of which version each entry of the history is (`Told`), that no two
  share a key, the reserved ones included (`Named`), and that the retained records
  are the last stretch of the history, from its beginning or from a compaction,
  each with its result brought to the version of now (`Retained`); `Reduced` says
  that each event's state is what the reducer of its version makes of the state
  before. Replaying such a stretch yields its last state (`ReplayTells`), and
  several migrations in turn are one (`MigratedTwice`).
  `AlwaysReopens` and `LedgerImplemented` assume `OwnSchemas`: no state is accepted
  by the schemas of two versions. It cannot be dropped, as the run `state_upgrade`
  shows; `state_store` satisfies it. A program meets it when each version's state
  carries its number or a field that the other schemas refuse.
* `HostInstall_proofs`: `AttachedAlwaysIntact`, `PointersAlwaysLead`,
  `PointersAlwaysKnown`, `TypeCorrect`. The three properties speak of moments
  between syncs or of single pointers; `IInv` says what holds at each step of a
  sync and of its rollback. `Reconciled` fixes what is still to be removed,
  published or put back; `ManifestRight` and `GenerationsRight` which epoch the
  manifest names and which generations can exist; `PointersRight` to which
  generation a pointer may lead at each step, and who will remove it;
  `EntriesRight` where each entry of the attached epoch is: in the bundle, or in
  the backup from which it comes back. `Ordered` is needed because a generation
  that failed can be told from the attached one only as epochs are asked for in
  order. The history variables mark what the theorems claim nothing of: the
  entries after a rollback that failed or a late copy of the application server,
  until a sync that began after it succeeds (`unrepaired`), and the pointers after
  a sync that failed twice (`twice`).
* `EventHub_proofs`: `ListenersNeverReentered`, `DeliveryOrdered`,
  `EveryoneCaughtUp`, `LiveEventsNeverMissed`, `TypeCorrect`, for any depth of
  nested calls. The properties speak of subscriptions, but what makes them true
  is on the call stack: loops and listeners alternate on it, there is one
  dispatch and one replay per subscription that replays (`Nested`, `Called`,
  `Replayed`); what the dispatch has still to take begins after the last event it
  took (`Dispatched`), a replay queues what is published meanwhile and after its
  last event (`Queues`), it has retained events left as long as it lacks one and
  nothing new is published (`ReplayRight`), and whoever the dispatch has passed
  has the event (`LiveRight`). `NeverReentered` follows: a second call of a
  listener would have to come from a second dispatch or a second replay of its
  subscription.

What a recursive function computes (`Migrated`, the replay of a journal) is
established in these modules without the library's induction theorems, which no
installed prover can instantiate: by the least number at which the claim would
fail, which exists by `NatLessThanWellFounded` (`LeastNumber` in
`StateStore_proofs`).

### Only model-checked

Liveness properties (`CallsSettle`, `AcquireSettles`, `CloseSettles`,
`CandidateTaken`, `CallsAnswered`, `ChangesBuilt`, `ExcessPruned`): the prover
handles neither fairness nor `ENABLED`. The three properties of section 4 are
false as stated, so nothing is proved of them but the conditions under which the
code does keep `SingleWriter` (`~GateRace`) and `Reopens` (`OwnSchemas`). What
several stores, or several staged epochs of one, leave after a power failure is
neither: `PowerLossSafe` does not hold there.
Liveness when a dead process's pid is reused is neither checked nor promised: a
pid probe cannot tell, and the acquisition is refused or waits.

## 6. Not modelled

* The content of builds: what the compiler, the adapters and the package build
  produce. They are steps that succeed, fail or throw.
* An epoch whose directory was only partly removed stays listed and can be leased
  by its id until a later pass deletes the rest. The model has these states (a
  directory may be torn) and states no property against them.
* Other syncs of `.agent-bundle` than that of `active-epoch.json` (the publication of
  `dev.lock`, of a server URL): they may make `epochs` durable earlier, and nothing
  orders them before a publication.
* `listEpochs`, `readActiveEpoch`, `discoverDevServerUrl`: they only read.
* The published status and the events of the coordinator: they report the attempt
  and decide nothing.
* The stable bundle beside the project that a host installs from, and the Windows
  junctions of the install manager; more than one host: the hosts of a manager
  are synced one after the other and share nothing.
* In `HostInstall`, a session that begins with the very epoch which an earlier one
  has left, and what may stay in the host beside the entries of the attached
  epoch and the pointers (files that a failed first install or a failed request
  of the application server has copied).
* In `StateStore`, the schema checks of a replay on the baseline and on what the
  reducers return (`journal.ts:315-327`, `:376-384`): they change nothing
  under `OwnSchemas`, nor in `state_upgrade`, where every schema accepts every state.
* The memory driver of the state kernel: one process, no file, no upgrade of an
  open store; `inspect()` only reads.
* The runtime controller, MCP tasks and the host routes: sequential around the
  stores modelled here, as far as they were read; a start that succeeds after its
  timeout is the one hazard among them listed without a property.
* The compiler, the adapters, the installers, the evaluation runner, the user
  interface, the scaffolder and the markdown stream, with the reasons in
  `PROJECT.json`; everything under `repos/`, which is vendored.

## 7. Order of work

The most important behaviour first: the store with its catalogue; the lock; the
adoption policy on the catalogue; the coordinator with its watcher; the event
hub; the runtime generations; the state kernel with its ledger; the host
installs. What would come next: the runtime controller's start against its
timeout, over `RuntimeGenerations`; `McpTasks`, cancel against settle, eviction
and expiry at the bound; and the host routes over the catalogue and the policy.
