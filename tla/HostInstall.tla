----------------------------- MODULE HostInstall -----------------------------
(***************************************************************************)
(* The development install of a bundle into one host:                      *)
(* dev/host-install-manager.                                               *)
(*                                                                         *)
(* Syncs are asked for as epochs are adopted and run one after the other.  *)
(* A sync copies its epoch to a generation beside the installed bundle and *)
(* publishes its top-level entries one by one: a directory as a pointer    *)
(* into the generation, a file as a copy.  What it published before is     *)
(* removed or moved to a backup first, a manifest tells the next sync what *)
(* there is, and a failure at any step starts a rollback that may fail     *)
(* too.  A host with an application server (Codex) installs by itself      *)
(* instead, from the stable bundle.                                        *)
(*                                                                         *)
(* Entries are numbers in the order of their names; a name is a directory  *)
(* in every epoch or a file in every epoch.  The session begins on a host  *)
(* without the bundle, or with what an earlier session that ended between  *)
(* two syncs has left; its own epochs are newer.  The hosts' own installers *)
(* and the application server are external.  A removal or a rename that    *)
(* fails has changed nothing, but for the outcomes PublishFails names.     *)
(***************************************************************************)
EXTENDS Naturals, Sequences, FiniteSets

CONSTANTS
    Epochs,       \* in the order they are built in
    Entries,      \* the names of top-level entries
    Dirs,         \* those that are directories
    Contents,     \* the entries of each epoch
    AppServer,    \* the host has an application server, sometimes
    None,
    MaxQueue,     \* bound: syncs that wait or run
    MaxFaults     \* bound: file operations and requests that fail

ASSUME HostAssumption ==
    /\ Entries \subseteq Nat /\ Dirs \subseteq Entries
    /\ Contents \in [Epochs -> SUBSET Entries]
    /\ Epochs \subseteq Nat \ {0}
    /\ None \notin Epochs \cup {0} \cup ({"copy", "pointer"} \X Epochs)
    /\ AppServer \in BOOLEAN /\ MaxQueue \in Nat /\ MaxFaults \in Nat

VARIABLES
    dest,       \* the installed bundle: what is under each name
    generation, \* DEV_INSTALL_STATE/generations/<epoch>
    manifest,   \* published.json: the epoch whose entries are published
    backup,     \* rollback-<uuid>: the entries moved aside
    installed,  \* InstalledDevHost.epochId, 0 for the empty one
    queue,      \* the syncs of #pending that have not ended
    newest,     \* the epoch asked for last
    pc,         \* where the running one is
    job,        \* its local state
    closing,    \* close()
    earlier,    \* the epoch that an earlier session published and left, None if none
    late,       \* the first epoch whose plugin/install was given up while the application
                \* server went on; 0 once it has ended, None when a sync has begun since
    faults,     \* failures left
    unrepaired, \* history: a failure or a late copy that nothing has repaired since
    twice       \* history: a sync failed in two steps, or in one that had taken effect

bundle == <<dest, generation, manifest, backup>>
session == <<newest, closing, earlier, late>>
calls == <<queue, session>>
vars == <<bundle, installed, calls, pc, job, faults, unrepaired, twice>>

Copy(e) == <<"copy", e>>
Pointer(e) == <<"pointer", e>>
Nothing == [x \in Entries |-> None]
First(S) == {x \in S : \A y \in S : x <= y}
Idle == [direct |-> FALSE, previous |-> None, republish |-> FALSE, backs |-> FALSE,
         todo |-> {}, done |-> {}]

Epoch == Head(queue)
Before == IF job.previous = None THEN {} ELSE Contents[job.previous]

\* Mutant: the difference of the entries is taken the wrong way round.
StaleSwapped == Contents[Epoch] \ Before

Stale == Before \ Contents[Epoch]

\* Under a name that is a directory there is a pointer, or a copy.
Published(e, x) == IF x \in Dirs THEN Pointer(e) ELSE Copy(e)
IsPointer(v) == \E e \in Epochs : v = Pointer(e)

\* What an earlier session has left: e is published, by the manager or by the
\* application server, or there is nothing.
Left(e) ==
    /\ manifest = e /\ earlier = e
    /\ generation \in [Epochs -> {"none", "part", "whole"}]
    /\ IF e = None
       THEN dest = Nothing /\ \A f \in Epochs : generation[f] = "none"
       ELSE /\ \A f \in Epochs : generation[f] # "none" => f <= e
            /\ \/ /\ dest = [x \in Entries |-> IF x \in Contents[e] THEN Published(e, x) ELSE None]
                  /\ generation[e] = "whole"
               \/ /\ dest = [x \in Entries |-> IF x \in Contents[e] THEN Copy(e) ELSE None]
                  /\ AppServer /\ generation[e] # "part"

Init ==
    /\ \E e \in Epochs \cup {None} : Left(e)
    /\ backup = Nothing
    /\ installed = None
    /\ queue = <<>> /\ newest = 0 /\ closing = "open" /\ late = None
    /\ pc = "rest" /\ job = Idle
    /\ faults = MaxFaults /\ unrepaired = FALSE /\ twice = FALSE

\* The step fails and has changed nothing; the sync goes on at c.
FailsTo(c, todo) ==
    /\ faults > 0 /\ faults' = faults - 1
    /\ pc' = c /\ job' = [job EXCEPT !.todo = todo]

Goes(c, todo) ==
    /\ pc' = c /\ job' = [job EXCEPT !.todo = todo]
    /\ UNCHANGED faults

\* The sync ends, and reports on dev.host.sync whether it succeeded.
Ends ==
    /\ pc' = "rest" /\ job' = Idle
    /\ queue' = Tail(queue)
    /\ UNCHANGED session

----------------------------------------------------------------------------
(* Calls and the chain of syncs.                                           *)

\* An epoch is adopted after those before it, and may be announced again.
Sync(e) ==
    /\ closing = "open" /\ Len(queue) < MaxQueue
    /\ e >= newest /\ newest' = e
    /\ earlier # None => e > earlier
    /\ queue' = Append(queue, e)
    /\ UNCHANGED <<bundle, installed, pc, job, closing, earlier, late, faults, unrepaired, twice>>

\* The epoch cannot be leased, the bundle not be prepared, or it is installed.
Skip ==
    /\ pc = "rest" /\ queue # <<>>
    /\ Ends
    /\ UNCHANGED <<bundle, installed, faults, unrepaired, twice>>

Begin ==
    /\ pc = "rest" /\ queue # <<>> /\ installed # Epoch
    /\ pc' = IF installed = None THEN "install" ELSE "start"
    /\ UNCHANGED <<bundle, installed, calls, job, faults, unrepaired, twice>>

\* replaceInstalledTree: what it owns of the names in S is replaced or removed.
\* It refuses to reach through a pointer, or to overwrite what it does not own.
Fresh == [x \in Entries |-> IF x \in Contents[Epoch] THEN Copy(Epoch) ELSE None]
Replaces(S) ==
    /\ S # {} => \A x \in S \cup Contents[Epoch] : ~IsPointer(dest[x])
    /\ dest' = [x \in Entries |-> IF x \in S THEN Fresh[x] ELSE dest[x]]

\* installBundle: it replaces what there is and leaves the manager's own state, or
\* it fails before, or half-way; or the host's own installer starts afresh.
Install ==
    /\ pc = "install"
    /\ \/ /\ \E S \in SUBSET Entries :
                /\ Replaces(S)
                /\ \/ /\ Contents[Epoch] \subseteq S
                      /\ installed' = 0 /\ pc' = "start"
                      /\ UNCHANGED <<job, calls>>
                   \/ Ends /\ UNCHANGED installed
          /\ UNCHANGED <<manifest, generation>>
       \/ /\ dest' = Fresh /\ manifest' = None /\ earlier' = None
          /\ generation' = [e \in Epochs |-> "none"]
          /\ installed' = 0 /\ pc' = "start"
          /\ UNCHANGED <<job, queue, newest, closing, late>>
    /\ UNCHANGED <<backup, faults, unrepaired, twice>>

\* readPublishedEntries, entryNames, and whether the application server answers.
Start ==
    /\ pc = "start"
    /\ \E direct \in {TRUE, ~AppServer} :
          /\ job' = [job EXCEPT !.previous = manifest, !.direct = direct]
          /\ pc' = IF direct THEN "generate" ELSE "reconcile"
    /\ late' = IF late = 0 THEN None ELSE late
    /\ UNCHANGED <<bundle, installed, queue, newest, closing, earlier, faults, unrepaired, twice>>

\* installGeneration
Generate ==
    /\ pc = "generate"
    /\ \/ generation' = [generation EXCEPT ![Epoch] = "whole"] /\ Goes("reconcile", {})
       \/ generation' = [generation EXCEPT ![Epoch] = "part"] /\ FailsTo("undo", {})
    /\ UNCHANGED <<dest, manifest, backup, installed, calls, unrepaired, twice>>

----------------------------------------------------------------------------
(* reconcilePublishedEntries.                                              *)

\* Can the previous epoch be published again from its generation; otherwise its
\* entries are backed up.
Reconcile ==
    /\ pc = "reconcile"
    /\ backup' = Nothing
    /\ LET republish == job.previous # None /\ generation[job.previous] # "none"
           victims == IF republish \/ ~job.direct THEN Stale ELSE Before
       IN  \/ /\ job' = [job EXCEPT !.republish = republish, !.todo = victims,
                                    !.backs = ~republish /\ victims # {}]
              /\ pc' = "clear"
              /\ UNCHANGED faults
           \/ FailsTo("undo", {})
    /\ UNCHANGED <<dest, generation, manifest, installed, calls, unrepaired, twice>>

\* Mutant: what was published is removed only if it was moved to the backup.
RollbackBacked == IF job.backs THEN job.done ELSE {}

\* The catch: what was published under a name that was not, or was moved to the
\* backup, is removed.
RollbackTodo == {x \in job.done : job.backs \/ x \notin Before}

\* The stale entries are removed, or the entries backed up.
Clear ==
    /\ pc = "clear"
    /\ IF job.todo = {}
       THEN /\ Goes(IF job.direct THEN "publish" ELSE "write",
                    IF job.direct THEN Contents[Epoch] ELSE {})
            /\ UNCHANGED <<dest, backup>>
       ELSE \E x \in First(job.todo) :
            \/ /\ dest' = [dest EXCEPT ![x] = None]
               /\ backup' = IF job.backs THEN [backup EXCEPT ![x] = dest[x]] ELSE backup
               /\ Goes("clear", job.todo \ {x})
            \/ FailsTo("discard", RollbackTodo) /\ UNCHANGED <<dest, backup>>
    /\ UNCHANGED <<generation, manifest, installed, calls, unrepaired, twice>>

\* publishDirectoryPointer and publishFile.  A directory that is no pointer is
\* moved aside and removed when the pointer is there: that removal may fail, or
\* the rename and the one that would undo it.
MovedAside(x) == x \in Dirs /\ dest[x] # None /\ dest[x][1] = "copy"

PublishFails(e, x) ==
    \E v \in {dest[x]} \cup IF MovedAside(x) THEN {Pointer(e), None} ELSE {} :
        dest' = [dest EXCEPT ![x] = v]

PublishEntry ==
    /\ pc = "publish" /\ job.todo # {}
    /\ \E x \in First(job.todo) :
       \/ /\ dest' = [dest EXCEPT ![x] = Published(Epoch, x)]
          /\ job' = [job EXCEPT !.todo = @ \ {x}, !.done = @ \cup {x}]
          /\ UNCHANGED <<pc, faults, twice>>
       \/ /\ FailsTo("discard", RollbackTodo)
          /\ PublishFails(Epoch, x)
          /\ twice' = (twice \/ dest'[x] # dest[x])
    /\ UNCHANGED <<generation, manifest, backup, installed, calls, unrepaired>>

EntriesPublished ==
    /\ pc = "publish" /\ job.todo = {}
    /\ Goes("write", {})
    /\ UNCHANGED <<bundle, installed, calls, unrepaired, twice>>

\* A success repairs what is under the names, unless the application server may
\* have written there since the sync began.
Repairs == unrepaired' = (unrepaired /\ late # None)

\* The installed epoch changes, and the generations of other epochs than this and
\* the one before are to be pruned.
Succeeds(c) ==
    /\ installed' = Epoch /\ Repairs
    /\ Goes(c, {e \in Epochs : generation[e] # "none"} \ {installed, Epoch})

\* writePublishedEntries.  A direct publication is over then, and its backup is
\* removed.
WriteManifest ==
    /\ pc = "write"
    /\ \/ /\ manifest' = Epoch
          /\ IF job.direct
             THEN Succeeds("prune") /\ backup' = Nothing
             ELSE Goes("refresh", {}) /\ UNCHANGED <<backup, installed, unrepaired>>
       \/ /\ FailsTo("discard", RollbackTodo)
          /\ UNCHANGED <<manifest, backup, installed, unrepaired>>
    /\ UNCHANGED <<dest, generation, calls, twice>>

\* plugin/install, external: the application server copies the entries of the
\* epoch, or fails after some of them; or the answer is late or the connection
\* lost, and it goes on.
Refresh ==
    /\ pc = "refresh"
    /\ \E S \in SUBSET Contents[Epoch] :
          /\ dest' = [x \in Entries |-> IF x \in S THEN Copy(Epoch) ELSE dest[x]]
          /\ \/ /\ S = Contents[Epoch]
                /\ installed' = Epoch /\ Repairs
                /\ backup' = Nothing
                /\ Ends /\ UNCHANGED faults
             \/ /\ FailsTo("discard", RollbackTodo)
                /\ unrepaired' = (unrepaired \/ ~job.republish)
                /\ late' \in {late, IF late \in Epochs THEN late ELSE Epoch}
                /\ UNCHANGED <<installed, backup, queue, newest, closing, earlier>>
    /\ UNCHANGED <<generation, manifest, twice>>

\* It copies what the stable bundle has by then, whatever the manager does.
LateCopy ==
    /\ late \in Epochs
    /\ \E e \in Epochs : late <= e /\ e <= newest /\
          \E x \in Contents[e] : dest' = [dest EXCEPT ![x] = Copy(e)]
    /\ unrepaired' = TRUE
    /\ UNCHANGED <<generation, manifest, backup, installed, calls, pc, job, faults, twice>>

LateEnds ==
    /\ late \in Epochs /\ late' = 0
    /\ UNCHANGED <<bundle, installed, queue, newest, closing, earlier, pc, job, faults,
                   unrepaired, twice>>

\* pruneGenerations.  A failure is reported as one of the sync, which stays
\* installed.
Prune ==
    /\ pc = "prune"
    /\ IF job.todo = {}
       THEN Ends /\ UNCHANGED <<generation, faults>>
       ELSE \E e \in job.todo :
              \/ /\ generation' = [generation EXCEPT ![e] = "none"]
                 /\ Goes("prune", job.todo \ {e}) /\ UNCHANGED calls
              \/ /\ generation' = [generation EXCEPT ![e] = "part"]
                 /\ faults > 0 /\ faults' = faults - 1
                 /\ Ends
    /\ UNCHANGED <<dest, manifest, backup, installed, unrepaired, twice>>

----------------------------------------------------------------------------
(* The rollback, and what the sync itself does after a failure.            *)

\* The rollback fails too (AggregateError).
FailsAgain(c) ==
    /\ FailsTo(c, {})
    /\ unrepaired' = TRUE /\ twice' = TRUE

\* readdir of a generation: a torn one has some of its entries.
Listings(e) == IF generation[e] = "whole" THEN {Contents[e]} ELSE SUBSET Contents[e]

Discard ==
    /\ pc = "discard"
    /\ IF job.todo # {}
       THEN \E x \in First(job.todo) :
            \/ /\ dest' = [dest EXCEPT ![x] = None]
               /\ Goes("discard", job.todo \ {x}) /\ UNCHANGED <<unrepaired, twice>>
            \/ FailsAgain("undo") /\ UNCHANGED dest
       ELSE /\ \E S \in IF job.republish THEN Listings(job.previous)
                       ELSE {{x \in Entries : backup[x] # None}} : Goes("restore", S)
            /\ UNCHANGED <<dest, unrepaired, twice>>
    /\ UNCHANGED <<generation, manifest, backup, installed, calls>>

\* Mutant: the entries in the backup are not moved back.
RestoreNothing ==
    /\ pc = "restore"
    /\ IF job.todo # {} /\ job.republish
       THEN \E x \in First(job.todo) :
            /\ dest' = [dest EXCEPT ![x] = Published(job.previous, x)]
            /\ Goes("restore", job.todo \ {x})
       ELSE Goes("unwrite", {}) /\ UNCHANGED dest
    /\ UNCHANGED <<generation, manifest, backup, installed, calls, unrepaired, twice>>

\* The previous epoch is published again, or its entries moved back.
Restore ==
    /\ pc = "restore"
    /\ IF job.todo # {}
       THEN \E x \in First(job.todo) :
            \/ /\ dest' = [dest EXCEPT ![x] = IF job.republish THEN Published(job.previous, x)
                                                              ELSE backup[x]]
               /\ Goes("restore", job.todo \ {x}) /\ UNCHANGED <<unrepaired, twice>>
            \/ /\ FailsAgain("undo")
               /\ IF job.republish THEN PublishFails(job.previous, x) ELSE UNCHANGED dest
       ELSE Goes("unwrite", {}) /\ UNCHANGED <<dest, unrepaired, twice>>
    /\ UNCHANGED <<generation, manifest, backup, installed, calls>>

\* The manifest of before comes back, if the new one was written, and the backup
\* is removed.
Unwrite ==
    /\ pc = "unwrite"
    /\ \/ /\ manifest' = IF manifest = Epoch THEN job.previous ELSE manifest
          /\ backup' = Nothing
          /\ Goes("undo", {}) /\ UNCHANGED <<unrepaired, twice>>
       \/ FailsAgain("undo") /\ UNCHANGED <<manifest, backup>>
    /\ UNCHANGED <<dest, generation, installed, calls>>

\* The catch of #syncHost: the installed epoch is published again, if it still
\* has its generation.
Undo ==
    /\ pc = "undo"
    /\ IF installed \in Epochs /\ generation[installed] # "none"
       THEN \E S \in Listings(installed) : Goes("repoint", S)
       ELSE Goes("drop", {})
    /\ UNCHANGED <<bundle, installed, calls, unrepaired, twice>>

Repoint ==
    /\ pc = "repoint"
    /\ IF job.todo # {}
       THEN \E x \in First(job.todo) :
            \/ /\ dest' = [dest EXCEPT ![x] = Published(installed, x)]
               /\ Goes("repoint", job.todo \ {x})
               /\ UNCHANGED <<calls, unrepaired, twice>>
            \/ /\ faults > 0 /\ faults' = faults - 1
               /\ unrepaired' = TRUE /\ twice' = TRUE
               /\ PublishFails(installed, x)
               /\ Ends
       ELSE Goes("drop", {}) /\ UNCHANGED <<dest, calls, unrepaired, twice>>
    /\ UNCHANGED <<generation, manifest, backup, installed>>

\* The generation that failed is removed, and the failure reported.
Drop ==
    /\ pc = "drop"
    /\ \/ generation' = [generation EXCEPT ![Epoch] = "none"] /\ UNCHANGED <<faults, twice>>
       \/ /\ faults > 0 /\ faults' = faults - 1 /\ twice' = TRUE
          /\ generation' = [generation EXCEPT ![Epoch] = IF @ = "none" THEN @ ELSE "part"]
    /\ Ends
    /\ UNCHANGED <<dest, manifest, backup, installed, unrepaired>>

----------------------------------------------------------------------------
(* close()                                                                 *)

Close ==
    /\ closing = "open" /\ closing' = "waiting"
    /\ UNCHANGED <<bundle, installed, queue, newest, earlier, late, pc, job, faults,
                   unrepaired, twice>>

\* Every sync of the chain has ended: uninstallBundle, external, removes the
\* bundle or fails.
Uninstall ==
    /\ closing = "waiting" /\ queue = <<>>
    /\ closing' = "closed"
    /\ \/ /\ dest' = Nothing /\ manifest' = None /\ backup' = Nothing
          /\ generation' = [e \in Epochs |-> "none"]
       \/ UNCHANGED bundle
    /\ UNCHANGED <<installed, queue, newest, earlier, late, pc, job, faults, unrepaired, twice>>

Step ==
    \/ Skip \/ Begin \/ Install \/ Start \/ Generate
    \/ Reconcile \/ Clear \/ PublishEntry \/ EntriesPublished \/ WriteManifest
    \/ Refresh \/ LateCopy \/ LateEnds \/ Prune
    \/ Discard \/ Restore \/ Unwrite \/ Undo \/ Repoint \/ Drop
    \/ Uninstall

Next == (\E e \in Epochs : Sync(e)) \/ Close \/ Step

Spec == Init /\ [][Next]_vars

----------------------------------------------------------------------------
(* Properties                                                              *)

Contexts == {"rest", "install", "start", "generate", "reconcile", "clear", "publish", "write",
             "refresh", "prune", "discard", "restore", "unwrite", "undo", "repoint", "drop"}
Values == {None} \cup ({"copy", "pointer"} \X Epochs)

TypeOK ==
    /\ dest \in [Entries -> Values] /\ backup \in [Entries -> Values]
    /\ generation \in [Epochs -> {"none", "part", "whole"}]
    /\ manifest \in Epochs \cup {None}
    /\ installed \in Epochs \cup {None, 0}
    /\ queue \in Seq(Epochs) /\ newest \in Epochs \cup {0}
    /\ pc \in Contexts /\ pc # "rest" => queue # <<>>
    /\ closing \in {"open", "waiting", "closed"}
    /\ earlier \in Epochs \cup {None} /\ late \in Epochs \cup {0, None}
    /\ faults \in 0..MaxFaults
    /\ unrepaired \in BOOLEAN /\ twice \in BOOLEAN

\* "A failed direct publication restores removed manager-owned entries and rolls
\* pointers back": whatever step of a sync failed, the epoch that attached()
\* names is the one whose entries and manifest the host has.  Not so after a
\* failed rollback, or a failed refresh by the application server over an epoch
\* that has no generation, until "the next successful epoch re-syncs"; nor when
\* the server has copied on after the request was given up, until a sync that
\* begins after its end succeeds; nor when a sync of that epoch had failed before
\* and left a torn generation of it.
AttachedIntact ==
    (/\ pc = "rest" /\ closing # "closed" /\ ~unrepaired
     /\ installed \in Epochs /\ generation[installed] # "part") =>
        /\ manifest = installed
        /\ \A x \in Contents[installed] : dest[x] \in {Pointer(installed), Copy(installed)}

\* A host that reads the bundle at any moment, also in the middle of a sync or of
\* its rollback, finds a whole generation behind every pointer.
PointersLead ==
    ~twice => \A x \in Entries, e \in Epochs : dest[x] = Pointer(e) => generation[e] = "whole"

\* What a sync publishes is known to the next one, which removes it when it has
\* become stale: no pointer is left that the manifest does not name.
PointersKnown ==
    pc = "rest" /\ ~twice => \A x \in Entries, e \in Epochs :
        dest[x] = Pointer(e) => manifest # None /\ x \in Contents[manifest]
=============================================================================
