------------------------- MODULE RuntimeGenerations -------------------------
(***************************************************************************)
(* The generations of a development runtime: dev/runtime-generation-store. *)
(*                                                                         *)
(* A provider begins a candidate, fills its staging directory, prepares it *)
(* (validation, manifest, the move to generations/<id>, validation again), *)
(* and commits it in one synchronous step, or aborts it.  Runs lease       *)
(* committed generations; a chain of cleanups prunes the inactive ones     *)
(* beyond the newest RetainInactive.  All of it is one event loop: a step  *)
(* is what happens between two awaits, and a file operation takes effect   *)
(* in the step that ends its await.                                        *)
(*                                                                         *)
(* Candidates are known by their sequence, #newestSequence at their        *)
(* begin().  A removal ends with the directory gone, or fails and leaves   *)
(* it, with some of its files perhaps.  Files and digests are one outcome  *)
(* of a validation.                                                        *)
(***************************************************************************)
EXTENDS Integers, FiniteSets

CONSTANTS
    Ids,            \* ids a provider gives; an id may be given again
    Leases,         \* callers of lease()
    None,
    RetainInactive, \* retainInactive
    MaxSequence,    \* bound: candidates begun
    MaxTail,        \* bound: cleanups queued when a lease is released
    MaxFaults       \* bound: removals that fail

ASSUME BoundsAssumption ==
    /\ None \notin Ids /\ IsFiniteSet(Leases)
    /\ RetainInactive \in Nat /\ MaxSequence \in Nat /\ MaxTail \in Nat /\ MaxFaults \in Nat

Sequences == 1 .. MaxSequence

VARIABLES
    init,           \* #initialized and #initialization
    newest,         \* #newestSequence
    (* #candidates and #prepared, by sequence *)
    idOf,           \* the id of the candidate
    at,             \* where begin, prepare, commit or abort left it
    failed,         \* record.state = 'failed'
    discards,       \* candidates whose fail() removes the staging directory
    (* storageRoot *)
    stagingRoot,    \* the staging directory exists
    staged,         \* candidates with a directory in it
    disk,           \* generations/<id>: the candidate moved there, or 0
    torn,           \* ids under which a failed removal has left something
    (* #committed *)
    committed,      \* id -> sequence of the committed generation, or 0
    pruning,        \* ids with record.pruning
    lease,          \* what each caller has leased
    active,         \* #activeId
    tail,           \* prunes in the #cleanupTail chain, the running one first
    (* close() *)
    closing,        \* its stage
    awaited,        \* the preparations and aborts it waits for
    ticket,         \* the prunes of #cleanupTail it waits for
    faults

files     == <<stagingRoot, staged, disk, torn>>
records   == <<newest, idOf, at, failed, discards>>
published == <<committed, pruning, lease, active>>
closer    == <<closing, awaited, ticket>>
vars      == <<init, records, files, published, tail, closer, faults>>

closed == closing # "open"

\* record.references
References(i) == Cardinality({l \in Leases : lease[l] = i})

\* #assertCurrent
Current(s) == ~closed /\ s = newest /\ ~failed[s]

\* What prepare() works on, with its promise in #preparing, and what abort()
\* removes, with its promise in #terminalCleanups.
InFlight == {"validating", "guarding", "moving", "reading", "withdrawing",
             "aborting"}

Stages == InFlight \cup {"none", "making", "staging", "prepared", "committed",
                         "closing", "over"}

Init ==
    /\ init = "none"
    /\ newest = 0
    /\ idOf = [s \in Sequences |-> None]
    /\ at = [s \in Sequences |-> "none"]
    /\ failed = [s \in Sequences |-> FALSE]
    /\ discards = {}
    /\ stagingRoot = FALSE /\ staged = {}
    /\ disk = [i \in Ids |-> 0]
    /\ torn = {}
    /\ committed = [i \in Ids |-> 0]
    /\ pruning = {}
    /\ lease = [l \in Leases |-> None]
    /\ active = None
    /\ tail = 0
    /\ closing = "open" /\ awaited = {} /\ ticket = 0
    /\ faults = MaxFaults

\* A removal may fail, within the bound.
Fault == faults > 0 /\ faults' = faults - 1

\* #remove of generations/<id>, whoever's directory is there.
RemoveGeneration(i) ==
    \/ /\ disk' = [disk EXCEPT ![i] = 0]
       /\ torn' = torn \ {i}
       /\ UNCHANGED faults
    \/ /\ Fault
       /\ torn' = torn \cup ({i} \cap {j \in Ids : disk[j] # 0})
       /\ UNCHANGED disk

-----------------------------------------------------------------------------
(* #initialize: what an earlier process left is removed *)

Initialize ==
    /\ ~closed /\ init = "none"
    /\ init' = "running"
    /\ UNCHANGED <<records, files, published, tail, closer, faults>>

\* After a failure the next call initializes again.
Initialized ==
    /\ init = "running"
    /\ \/ init' = "done" /\ stagingRoot' = TRUE
       \/ init' = "none" /\ UNCHANGED stagingRoot
    /\ UNCHANGED <<records, staged, disk, torn, published, tail, closer, faults>>

-----------------------------------------------------------------------------
(* Candidates *)

\* begin: an id that is not committed takes the next sequence.
Begin(i) ==
    /\ ~closed /\ init = "done"
    /\ committed[i] = 0
    /\ newest < MaxSequence
    /\ newest' = newest + 1
    /\ idOf' = [idOf EXCEPT ![newest + 1] = i]
    /\ at' = [at EXCEPT ![newest + 1] = "making"]
    /\ UNCHANGED <<init, failed, discards, files, published, tail, closer, faults>>

\* The mkdir is not recursive: without the staging root there is no candidate.
Begun(s) ==
    /\ at[s] = "making"
    /\ IF stagingRoot
       THEN at' = [at EXCEPT ![s] = "staging"] /\ staged' = staged \cup {s}
       ELSE at' = [at EXCEPT ![s] = "none"] /\ UNCHANGED staged
    /\ UNCHANGED <<init, newest, idOf, failed, discards, stagingRoot, disk, torn,
                   published, tail, closer, faults>>

Prepare(s) ==
    /\ at[s] = "staging" /\ Current(s)
    /\ at' = [at EXCEPT ![s] = "validating"]
    /\ UNCHANGED <<init, newest, idOf, failed, discards, files, published, tail,
                   closer, faults>>

\* #removeNeverPublic of a candidate's staging directory.
RemoveStaged(s) ==
    \/ staged' = staged \ {s} /\ UNCHANGED faults
    \/ Fault /\ UNCHANGED staged

\* The catch of #prepareCandidate fails the record and removes the staging
\* directory before the move, the generation's directory after it.  Nobody but
\* close(), which waits for it, sees the first of these removals, so it is over
\* in the same step.
Fails(s, stage) ==
    /\ at' = [at EXCEPT ![s] = stage]
    /\ failed' = [failed EXCEPT ![s] = TRUE]

Refuse(s) == Fails(s, "over") /\ RemoveStaged(s)

\* Mutant: the cleanup removes generations/<id> whether the candidate moved or not.
ValidatedRemoves(s) ==
    /\ at[s] = "validating"
    /\ \/ /\ s \in staged /\ disk[idOf[s]] = 0
          /\ at' = [at EXCEPT ![s] = "guarding"]
          /\ UNCHANGED failed
       \/ Fails(s, "withdrawing")
    /\ UNCHANGED <<init, newest, idOf, discards, files, published, tail, closer, faults>>

\* Files and metadata are valid, the manifest is written, and the destination is
\* free; or one of these fails.
Validated(s) ==
    /\ at[s] = "validating"
    /\ \/ /\ s \in staged /\ disk[idOf[s]] = 0
          /\ at' = [at EXCEPT ![s] = "guarding"]
          /\ UNCHANGED <<failed, staged, faults>>
       \/ Refuse(s)
    /\ UNCHANGED <<init, newest, idOf, discards, stagingRoot, disk, torn, published,
                   tail, closer>>

\* guard.wait is over: guard.check and #assertCurrent, and the rename begins.
Guarded(s) ==
    /\ at[s] = "guarding"
    /\ \/ /\ Current(s)
          /\ at' = [at EXCEPT ![s] = "moving"]
          /\ UNCHANGED <<failed, staged, faults>>
       \/ Refuse(s)
    /\ UNCHANGED <<init, newest, idOf, discards, stagingRoot, disk, torn, published,
                   tail, closer>>

\* A rename needs its source, and no directory with files at its destination.
Renamed(s) ==
    /\ at[s] = "moving"
    /\ IF s \in staged /\ disk[idOf[s]] = 0
       THEN /\ staged' = staged \ {s}
            /\ disk' = [disk EXCEPT ![idOf[s]] = s]
            /\ at' = [at EXCEPT ![s] = "reading"]
            /\ UNCHANGED <<failed, faults>>
       ELSE Refuse(s) /\ UNCHANGED disk
    /\ UNCHANGED <<init, newest, idOf, discards, stagingRoot, torn, published, tail,
                   closer>>

\* #readGeneration, the guard again and #assertCurrent: the activation is prepared.
Reread(s) ==
    /\ at[s] = "reading"
    /\ \/ /\ disk[idOf[s]] = s /\ Current(s)
          /\ at' = [at EXCEPT ![s] = "prepared"]
          /\ UNCHANGED failed
       \/ Fails(s, "withdrawing")
    /\ UNCHANGED <<init, newest, idOf, discards, files, published, tail, closer, faults>>

\* #removeNeverPublic of a generation, by prepare() or abort(), or #removeWithFailure
\* of it by close().
Withdrawn(s) ==
    /\ at[s] \in {"withdrawing", "aborting", "closing"}
    /\ at' = [at EXCEPT ![s] = "over"]
    /\ RemoveGeneration(idOf[s])
    /\ UNCHANGED <<init, newest, idOf, failed, discards, stagingRoot, staged,
                   published, tail, closer>>

\* Mutant: it is not asked whether the candidate is the newest.
CommitAny(s) ==
    /\ ~closed /\ at[s] = "prepared"
    /\ at' = [at EXCEPT ![s] = "committed"]
    /\ committed' = [committed EXCEPT ![idOf[s]] = s]
    /\ active' = idOf[s]
    /\ tail' = tail + 1
    /\ UNCHANGED <<init, newest, idOf, failed, discards, files, pruning, lease, closer, faults>>

\* commit, if canCommit: the newest candidate only.  The microtask of
\* #requestCleanup runs before anything else does, so it is part of the step.
Commit(s) ==
    /\ ~closed /\ at[s] = "prepared" /\ s = newest
    /\ at' = [at EXCEPT ![s] = "committed"]
    /\ committed' = [committed EXCEPT ![idOf[s]] = s]
    /\ active' = idOf[s]
    /\ tail' = tail + 1
    /\ UNCHANGED <<init, newest, idOf, failed, discards, files, pruning, lease, closer, faults>>

Abort(s) ==
    /\ at[s] = "prepared"
    /\ Fails(s, "aborting")
    /\ UNCHANGED <<init, newest, idOf, discards, files, published, tail, closer, faults>>

\* fail: whatever the candidate does, but not once it is prepared or committed.
\* The removal of a directory that is gone does nothing.
Fail(s) ==
    /\ at[s] \notin {"none", "making", "prepared", "committed"}
    /\ ~failed[s]
    /\ failed' = [failed EXCEPT ![s] = TRUE]
    /\ discards' = discards \cup ({s} \cap staged)
    /\ UNCHANGED <<init, newest, idOf, at, files, published, tail, closer, faults>>

Discarded(s) ==
    /\ s \in discards
    /\ discards' = discards \ {s}
    /\ RemoveStaged(s)
    /\ UNCHANGED <<init, newest, idOf, at, failed, stagingRoot, disk, torn, published,
                   tail, closer>>

-----------------------------------------------------------------------------
(* Leases and cleanup *)

\* Mutant: leases a generation that a prune has marked.
LeaseMarked(l, i) ==
    /\ ~closed /\ init = "done"
    /\ lease[l] = None
    /\ committed[i] # 0
    /\ lease' = [lease EXCEPT ![l] = i]
    /\ UNCHANGED <<init, records, files, committed, pruning, active, tail, closer, faults>>

\* lease, of the active generation or by id.
Lease(l, i) ==
    /\ ~closed /\ init = "done"
    /\ lease[l] = None
    /\ committed[i] # 0 /\ i \notin pruning
    /\ lease' = [lease EXCEPT ![l] = i]
    /\ UNCHANGED <<init, records, files, committed, pruning, active, tail, closer, faults>>

\* Mutant: the cleanup is left to the next commit.
ReleaseQuietly(l) ==
    /\ lease[l] # None
    /\ tail < MaxTail
    /\ lease' = [lease EXCEPT ![l] = None]
    /\ UNCHANGED <<init, records, files, committed, pruning, active, tail, closer, faults>>

\* release queues a cleanup, also after close().
Release(l) ==
    /\ lease[l] # None
    /\ tail < MaxTail
    /\ lease' = [lease EXCEPT ![l] = None]
    /\ tail' = tail + 1
    /\ UNCHANGED <<init, records, files, committed, pruning, active, closer, faults>>

Inactive == {i \in Ids : committed[i] # 0 /\ i # active}
NewerInactive(i) == {j \in Inactive : committed[j] > committed[i]}

\* #prune: what is beyond the newest RetainInactive and not leased is marked at
\* once, and removed one by one.
Unretained ==
    {i \in Inactive : Cardinality(NewerInactive(i)) >= RetainInactive /\ References(i) = 0}

PruneEnds ==
    /\ tail' = tail - 1
    /\ ticket' = IF ticket > 0 THEN ticket - 1 ELSE 0

Prune ==
    /\ tail > 0 /\ pruning = {}
    /\ pruning' = Unretained
    /\ IF Unretained = {} THEN PruneEnds ELSE UNCHANGED <<tail, ticket>>
    /\ UNCHANGED <<init, records, files, committed, lease, active, closing,
                   awaited, faults>>

\* The newest first.  A generation whose removal fails stays committed and can be
\* leased again, with what the removal has left of it.
Pruned(i) ==
    /\ i \in pruning
    /\ \A j \in pruning : committed[j] <= committed[i]
    /\ pruning' = pruning \ {i}
    /\ RemoveGeneration(i)
    /\ committed' = [committed EXCEPT ![i] = IF disk'[i] = 0 THEN 0 ELSE @]
    /\ IF pruning' = {} THEN PruneEnds ELSE UNCHANGED <<tail, ticket>>
    /\ UNCHANGED <<init, records, stagingRoot, staged, lease, active, closing,
                   awaited>>

-----------------------------------------------------------------------------
(* close() *)

Close ==
    /\ closing = "open"
    /\ closing' = "initializing"
    /\ UNCHANGED <<init, records, files, published, tail, awaited, ticket, faults>>

\* Mutant: nothing is awaited.
CloseAwaitsNothing ==
    /\ closing = "initializing" /\ init # "running"
    /\ closing' = "draining"
    /\ awaited' = {}
    /\ UNCHANGED <<init, records, files, published, tail, ticket, faults>>

\* What is in flight when initialization has settled is awaited.
CloseDrains ==
    /\ closing = "initializing" /\ init # "running"
    /\ closing' = "draining"
    /\ awaited' = {s \in Sequences : at[s] \in InFlight}
    /\ UNCHANGED <<init, records, files, published, tail, ticket, faults>>

\* What is prepared then is nobody's any more.
CloseRemoves ==
    /\ closing = "draining"
    /\ \A s \in awaited : at[s] \notin InFlight
    /\ closing' = "removing" /\ awaited' = {}
    /\ at' = [s \in Sequences |-> IF at[s] = "prepared" THEN "closing" ELSE at[s]]
    /\ failed' = [s \in Sequences |-> failed[s] \/ at[s] = "prepared"]
    /\ UNCHANGED <<init, newest, idOf, discards, files, published, tail, ticket, faults>>

\* The staging root goes, and the prunes queued by then are awaited; a cleanup that
\* was requested before has been queued by its microtask.
CloseStaging ==
    /\ closing = "removing"
    /\ \A s \in Sequences : at[s] # "closing"
    /\ closing' = "waiting"
    /\ \/ stagingRoot' = FALSE /\ staged' = {} /\ UNCHANGED faults
       \/ Fault /\ UNCHANGED <<stagingRoot, staged>>
    /\ ticket' = tail
    /\ UNCHANGED <<init, records, disk, torn, published, tail, awaited>>

Closed ==
    /\ closing = "waiting" /\ ticket = 0
    /\ closing' = "closed"
    /\ UNCHANGED <<init, records, files, published, tail, awaited, ticket, faults>>

-----------------------------------------------------------------------------
(* What goes on by itself, and what a provider or a run asks for *)

Settles(s) ==
    \/ Begun(s) \/ Validated(s) \/ Guarded(s) \/ Renamed(s) \/ Reread(s)
    \/ Withdrawn(s) \/ Discarded(s)

Cleans == Prune \/ \E i \in Ids : Pruned(i)

Closes == CloseDrains \/ CloseRemoves \/ CloseStaging \/ Closed

Next ==
    \/ Initialize \/ Initialized
    \/ \E i \in Ids : Begin(i)
    \/ \E s \in Sequences : Prepare(s) \/ Commit(s) \/ Abort(s) \/ Fail(s) \/ Settles(s)
    \/ \E l \in Leases : Release(l) \/ \E i \in Ids : Lease(l, i)
    \/ Cleans
    \/ Close \/ Closes

Spec == Init /\ [][Next]_vars

\* File operations settle, a provider's guard too, and the event loop runs what
\* is due; nobody has to call anything.
Fairness ==
    /\ WF_vars(Initialized)
    /\ WF_vars(\E s \in Sequences : Settles(s))
    /\ WF_vars(Cleans)
    /\ WF_vars(Closes)

FairSpec == Spec /\ Fairness

-----------------------------------------------------------------------------
(* Properties *)

TypeOK ==
    /\ init \in {"none", "running", "done"}
    /\ newest \in 0 .. MaxSequence
    /\ idOf \in [Sequences -> Ids \cup {None}]
    /\ \A s \in Sequences : at[s] # "none" => idOf[s] \in Ids
    /\ at \in [Sequences -> Stages]
    /\ failed \in [Sequences -> BOOLEAN]
    /\ discards \subseteq Sequences
    /\ stagingRoot \in BOOLEAN /\ staged \subseteq Sequences
    /\ disk \in [Ids -> 0 .. MaxSequence]
    /\ torn \subseteq Ids
    /\ committed \in [Ids -> 0 .. MaxSequence]
    /\ pruning \subseteq Ids
    /\ lease \in [Leases -> Ids \cup {None}]
    /\ active \in Ids \cup {None}
    /\ tail \in Nat
    /\ closing \in {"open", "initializing", "draining", "removing", "waiting",
                    "closed"}
    /\ awaited \subseteq Sequences /\ ticket \in Nat
    /\ faults \in 0 .. MaxFaults

\* What is committed, and what is prepared to be, has its own directory on disk:
\* neither the cleanup of another candidate with its id nor fail(), abort() or a
\* prune of another generation replaces it.  What is prepared and what is active is
\* also whole, as prepare() left it.  An inactive generation whose removal failed in
\* #prune is not: it stays committed, and lease() gives it, without the files that
\* the removal reached.
CommittedWhole ==
    /\ \A i \in Ids : committed[i] # 0 => disk[i] = committed[i]
    /\ \A s \in Sequences : at[s] = "prepared" => disk[idOf[s]] = s /\ idOf[s] \notin torn
    /\ active \notin torn
    /\ \A i \in pruning : committed[i] # 0

\* A leased generation is committed and no prune has marked it, and the active
\* generation is the newest one committed and never marked: lease() and #prune
\* decide in one turn, whatever the removals that go on meanwhile do.
LeasedKept ==
    /\ \A l \in Leases : lease[l] # None => committed[lease[l]] # 0 /\ lease[l] \notin pruning
    /\ active # None => committed[active] # 0 /\ active \notin pruning
    /\ \A i \in Inactive : committed[i] < committed[active]

\* A commit never replaces a generation and never goes back to an older one, and
\* a committed generation is removed, or loses files to a removal that fails, only
\* when it is inactive, nobody leases it, and RetainInactive newer ones are left.
RetentionKeeps ==
    [][\A i \in Ids :
         /\ committed[i] = 0 /\ committed'[i] # 0 => \A j \in Ids : committed[j] < committed'[i]
         /\ committed[i] # 0 /\ (committed'[i] # committed[i] \/ i \in torn' \ torn) =>
              /\ committed'[i] \in {0, committed[i]}
              /\ i \in Inactive /\ \A l \in Leases : lease[l] # i
              /\ Cardinality(NewerInactive(i)) >= RetainInactive]_vars

\* A close() leaves neither staging directories nor generations that were never
\* committed, unless a removal failed, or abort() was called while close() waited
\* and still removes its generation.
CloseLeavesNothing ==
    closing = "closed" /\ faults = MaxFaults =>
        /\ staged = {}
        /\ \A i \in Ids : disk[i] # committed[i] =>
             \E s \in Sequences : at[s] = "aborting" /\ idOf[s] = i

\* Storage is bounded: generations beyond the retained ones and not leased are
\* pruned, unless their removal fails, also when the cleanup was asked for just
\* before close() or by a release after it.
ExcessPruned == Unretained # {} ~> Unretained \subseteq torn
=============================================================================
