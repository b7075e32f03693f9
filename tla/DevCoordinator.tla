--------------------------- MODULE DevCoordinator ---------------------------
(***************************************************************************)
(* The development coordinator, dev/coordinator.ts, with the project       *)
(* watcher that feeds it, dev/watcher.ts: startup under the project lock,  *)
(* one build at a time with one coalesced follow-up, and shutdown.         *)
(* Coordinators are those of one project, each in a process of its own.    *)
(*                                                                         *)
(* The project lock is abstracted to its owner (DevLock is its protocol),  *)
(* the sources of the project to a version number, a build to the version  *)
(* it prepared from, and the watched paths to one whose signature is that  *)
(* version; the flushes that wait for the running one are one.  Left out:  *)
(* the published status and events, which report the attempt, and the      *)
(* diagnostics engine, which is only closed.                               *)
(***************************************************************************)
EXTENDS Integers

CONSTANTS
    Coordinators,
    Callers,        \* callers of rebuild(), besides start() and the watcher
    None,           \* nobody has the lock
    MaxSource       \* bound: changes of the sources

ASSUME NoneAssumption == None \notin Coordinators
ASSUME CallersAssumption == {"start", "watcher"} \cap Callers = {}
ASSUME MaxSourceAssumption == MaxSource \in Nat

VARIABLES
    lock,       \* whose the project lock is
    source,     \* the version of the sources
    phase,      \* where start() is; "started" is #session being set
    acquiring,  \* acquireDevLock, which start() may have given up
    recovering, \* recoverStaging, which start() may have given up
    cancelled,  \* #startupClosed has failed
    handle,     \* #lock and #lockClosePromise
    watcher,    \* #watcher and #watcherClosePromise
    dirty,      \* the watcher has recorded paths: #paths
    flush,      \* #flushTail: a flush has taken the paths; the signature it read
    signed,     \* the last recorded signature: #signatures
    dropped,    \* history: the last flush failed, and no event has come since
    build,      \* #currentBuild
    queue,      \* #queued: who shares its deferred
    call,       \* the last rebuild() of every caller
    attempted,  \* the version that the last build prepared
    closing     \* #closing and #closePromise

world   == <<lock, source>>
startup == <<phase, acquiring, recovering, cancelled>>
changes == <<dirty, flush, signed, dropped>>
owned   == <<handle, watcher, changes>>
builds  == <<build, queue, call, attempted>>
vars    == <<world, startup, owned, builds, closing>>

Requesters == Callers \cup {"start", "watcher"}
Blocked == {"locking", "recovering", "reading", "watching"}
Phases == Blocked \cup {"new", "building", "started", "cleanup", "failed"}

\* A build has a step, the callers it will answer, and the version of the
\* sources when it began; it may be a follow-up.
Builds == [at : {"none", "prepare", "check", "artifact", "package"}, for : SUBSET Requesters,
           follows : BOOLEAN, from : 0 .. MaxSource]
NoBuild == [at |-> "none", for |-> {}, follows |-> FALSE, from |-> 0]
NewBuild(rs, follows) ==
    [at |-> "prepare", for |-> rs, follows |-> follows, from |-> source]

\* No signature has been read, or recorded.
Unsigned == -1
Signatures == {Unsigned} \cup 0 .. MaxSource
NoFlush == [queued |-> FALSE, read |-> Unsigned]

\* A call waits for a build, or was answered by one that prepared some version.
Outcomes == {"succeeded", "failed", "rejected"}
Calls == [Requesters -> [state : {"idle", "running", "queued"} \cup Outcomes,
                         asked : 0 .. MaxSource, got : 0 .. MaxSource]]
NoCall == [state |-> "idle", asked |-> 0, got |-> 0]

Set(f, c, v) == [f EXCEPT ![c] = v]

Init ==
    /\ lock = None /\ source = 0
    /\ phase = [c \in Coordinators |-> "new"]
    /\ acquiring = [c \in Coordinators |-> FALSE]
    /\ recovering = [c \in Coordinators |-> FALSE]
    /\ cancelled = [c \in Coordinators |-> FALSE]
    /\ handle = [c \in Coordinators |-> "none"]
    /\ watcher = [c \in Coordinators |-> "none"]
    /\ dirty = [c \in Coordinators |-> FALSE]
    /\ flush = [c \in Coordinators |-> NoFlush]
    /\ signed = [c \in Coordinators |-> Unsigned]
    /\ dropped = [c \in Coordinators |-> FALSE]
    /\ build = [c \in Coordinators |-> NoBuild]
    /\ queue = [c \in Coordinators |-> {}]
    /\ call = [c \in Coordinators |-> [r \in Requesters |-> NoCall]]
    /\ attempted = [c \in Coordinators |-> 0]
    /\ closing = [c \in Coordinators |-> "open"]

-----------------------------------------------------------------------------
(* rebuild *)

\* #startBuild, for everyone in rs.
StartBuild(c, rs) == build' = Set(build, c, NewBuild(rs, FALSE))

Asked(calls, r, state) == [calls EXCEPT ![r] = [state |-> state, asked |-> source, got |-> 0]]
\* Only a success keeps the versions.
Answered(calls, rs, outcome, version) ==
    [r \in Requesters |->
        IF r \notin rs THEN calls[r]
        ELSE IF outcome = "succeeded"
        THEN [state |-> outcome, asked |-> calls[r].asked, got |-> version]
        ELSE [state |-> outcome, asked |-> 0, got |-> 0]]
Started(calls, rs) ==
    [r \in Requesters |-> IF r \in rs THEN [calls[r] EXCEPT !.state = "running"] ELSE calls[r]]
Waiting(c, r) == call[c][r].state \in {"running", "queued"}

\* Mutant: a call during a build shares that build.
SharesBuild(c, r) ==
    IF phase[c] # "started" \/ closing[c] # "open"
    THEN /\ call' = Set(call, c, Answered(call[c], {r}, "failed", 0))
         /\ UNCHANGED <<build, queue>>
    ELSE /\ call' = Set(call, c, Asked(call[c], r, "running"))
         /\ build' = IF build[c] = NoBuild
                     THEN Set(build, c, NewBuild({r}, FALSE))
                     ELSE [build EXCEPT ![c].for = @ \cup {r}]
         /\ UNCHANGED queue

\* #rebuild: refused unless the session is up and not closing; it starts a
\* build, or joins the one follow-up of the build that runs.
Rebuild(c, r) ==
    IF phase[c] # "started" \/ closing[c] # "open"
    THEN /\ call' = Set(call, c, Answered(call[c], {r}, "failed", 0))
         /\ UNCHANGED <<build, queue>>
    ELSE IF build[c] = NoBuild
    THEN /\ call' = Set(call, c, Asked(call[c], r, "running"))
         /\ StartBuild(c, {r})
         /\ UNCHANGED queue
    ELSE /\ call' = Set(call, c, Asked(call[c], r, "queued"))
         /\ queue' = [queue EXCEPT ![c] = @ \cup {r}]
         /\ UNCHANGED build

CallRebuild(c, r) ==
    /\ ~Waiting(c, r)
    /\ Rebuild(c, r)
    /\ UNCHANGED <<world, startup, owned, attempted, closing>>

-----------------------------------------------------------------------------
(* The watcher *)

\* A source file changes.  Until the watcher is ready it may miss it.
Change ==
    /\ source < MaxSource
    /\ source' = source + 1
    /\ dirty' \in [Coordinators -> BOOLEAN]
    /\ \A c \in Coordinators :
         IF watcher[c] = "live" THEN (dirty[c] \/ phase[c] # "watching") => dirty'[c]
                                ELSE dirty'[c] = dirty[c]
    /\ dropped' = [c \in Coordinators |-> dropped[c] /\ (dirty'[c] = dirty[c])]
    /\ UNCHANGED <<lock, startup, handle, watcher, flush, signed, builds, closing>>

\* #record: an event repeats, of a path that is as it was.
Repeat(c) ==
    /\ watcher[c] = "live" /\ ~dirty[c]
    /\ dirty' = Set(dirty, c, TRUE)
    /\ dropped' = Set(dropped, c, FALSE)
    /\ UNCHANGED <<world, startup, handle, watcher, flush, signed, builds, closing>>

\* Mutant: a flush during a delivery drops its paths.
DropsPaths(c) ==
    /\ watcher[c] = "live" /\ dirty[c]
    /\ dirty' = Set(dirty, c, FALSE)
    /\ flush' = [flush EXCEPT ![c].queued = @ \/ ~Waiting(c, "watcher")]
    /\ UNCHANGED <<world, startup, handle, watcher, signed, dropped, builds, closing>>

\* flush takes the recorded paths, and queues behind the flush that runs.
Flush(c) ==
    /\ watcher[c] = "live" /\ dirty[c]
    /\ dirty' = Set(dirty, c, FALSE)
    /\ flush' = [flush EXCEPT ![c].queued = TRUE]
    /\ UNCHANGED <<world, startup, handle, watcher, signed, dropped, builds, closing>>

\* #flushPaths begins by reading the signatures.  When that fails the flush
\* rejects, and the paths it has taken are gone.
ReadSignature(c) ==
    /\ flush[c].queued /\ flush[c].read = Unsigned /\ ~Waiting(c, "watcher")
    /\ \/ /\ flush' = Set(flush, c, [queued |-> FALSE, read |-> source])
          /\ dropped' = Set(dropped, c, FALSE)
       \/ /\ flush' = Set(flush, c, NoFlush)
          /\ dropped' = Set(dropped, c, TRUE)
    /\ UNCHANGED <<world, startup, handle, watcher, dirty, signed, builds, closing>>

\* It skips what is as it was recorded, records the rest, then calls rebuild()
\* and awaits its result, which is not looked at: also a refusal leaves the
\* signature recorded.
Deliver(c) ==
    /\ flush[c].read # Unsigned /\ ~Waiting(c, "watcher")
    /\ flush' = [flush EXCEPT ![c].read = Unsigned]
    /\ signed' = Set(signed, c, flush[c].read)
    /\ IF flush[c].read = signed[c] THEN UNCHANGED <<build, queue, call>>
                                    ELSE Rebuild(c, "watcher")
    /\ UNCHANGED <<world, startup, handle, watcher, dirty, dropped, attempted, closing>>

-----------------------------------------------------------------------------
(* #performBuild *)

\* A build settles: its callers are answered, those of a follow-up never by a
\* rejection.
Answer(c, outcome) == IF outcome = "rejected" /\ build[c].follows THEN "failed" ELSE outcome
\* Mutant: the follow-up is left in the queue.
FinishIdle(c, outcome) ==
    /\ build' = Set(build, c, NoBuild)
    /\ call' = Set(call, c, Answered(call[c], build[c].for, Answer(c, outcome), attempted'[c]))
    /\ UNCHANGED queue

\* #drainQueuedBuild starts the next follow-up.
Finish(c, outcome) ==
    /\ build' = Set(build, c, IF queue[c] = {} THEN NoBuild
                              ELSE NewBuild(queue[c], TRUE))
    /\ queue' = Set(queue, c, {})
    /\ call' = Set(call, c, Started(
                 Answered(call[c], build[c].for, Answer(c, outcome), attempted'[c]), queue[c]))

\* The version that the build began at matters only for its preparation.
Advance(c, at) ==
    /\ build' = Set(build, c, [at |-> at, for |-> build[c].for,
                                follows |-> build[c].follows, from |-> 0])
    /\ UNCHANGED <<queue, call>>

\* The project is prepared, from sources that may change meanwhile: it covers a
\* version that is not older than the build.  The initial build may be given one
\* prepared before.
Prepare(c) ==
    /\ build[c].at = "prepare"
    /\ \E v \in 0 .. source :
         /\ v < build[c].from => "start" \in build[c].for
         /\ attempted' = Set(attempted, c, v)
    /\ Advance(c, "check") \/ Finish(c, "failed")
    /\ UNCHANGED <<world, startup, owned, closing>>

\* The hook for the prepared project, then lint.
Check(c) ==
    /\ build[c].at = "check"
    /\ UNCHANGED attempted
    /\ Advance(c, "artifact") \/ Finish(c, "failed")
    /\ UNCHANGED <<world, startup, owned, closing>>

\* ArtifactService.build stages an epoch and publishes it.
Artifact(c) ==
    /\ build[c].at = "artifact"
    /\ UNCHANGED attempted
    /\ Advance(c, "package") \/ Finish(c, "failed")
    /\ UNCHANGED <<world, startup, owned, closing>>

\* The package build only warns, unless it throws: then rebuild() rejects.
Package(c) ==
    /\ build[c].at = "package"
    /\ UNCHANGED attempted
    /\ Finish(c, "succeeded") \/ Finish(c, "rejected")
    /\ UNCHANGED <<world, startup, owned, closing>>

-----------------------------------------------------------------------------
(* start *)

Start(c) ==
    /\ phase[c] = "new" /\ closing[c] = "open"
    /\ phase' = Set(phase, c, "locking")
    /\ acquiring' = Set(acquiring, c, TRUE)
    /\ UNCHANGED <<world, recovering, cancelled, owned, builds, closing>>

\* Mutant: a lock that comes after close() is kept.
KeepsLateLock(c) ==
    /\ acquiring[c]
    /\ acquiring' = Set(acquiring, c, FALSE)
    /\ \/ /\ lock = None
          /\ lock' = c
          /\ handle' = Set(handle, c, "held")
          /\ IF phase[c] = "locking" /\ ~cancelled[c]
             THEN /\ phase' = Set(phase, c, "recovering")
                  /\ recovering' = Set(recovering, c, TRUE)
             ELSE UNCHANGED <<phase, recovering>>
       \/ /\ phase' = IF phase[c] = "locking" THEN Set(phase, c, "cleanup") ELSE phase
          /\ UNCHANGED <<lock, handle, recovering>>
    /\ UNCHANGED <<source, cancelled, watcher, changes, builds, closing>>

\* The acquisition is granted the lock, or rejected.  start() goes on with
\* recoverStaging, unless close() won the race: then the lock is released.
AcquireLock(c) ==
    /\ acquiring[c]
    /\ acquiring' = Set(acquiring, c, FALSE)
    /\ \/ /\ lock = None
          /\ lock' = c
          /\ IF phase[c] = "locking" /\ ~cancelled[c]
             THEN /\ handle' = Set(handle, c, "held")
                  /\ phase' = Set(phase, c, "recovering")
                  /\ recovering' = Set(recovering, c, TRUE)
             ELSE /\ handle' = Set(handle, c, "closing")
                  /\ UNCHANGED <<phase, recovering>>
       \/ /\ phase' = IF phase[c] = "locking" THEN Set(phase, c, "cleanup") ELSE phase
          /\ UNCHANGED <<lock, handle, recovering>>
    /\ UNCHANGED <<source, cancelled, watcher, changes, builds, closing>>

\* recoverStaging settles; nobody may be waiting for it any more.
Recovered(c) ==
    /\ recovering[c]
    /\ recovering' = Set(recovering, c, FALSE)
    /\ IF phase[c] = "recovering" /\ ~cancelled[c]
       THEN \E next \in {"reading", "cleanup"} : phase' = Set(phase, c, next)
       ELSE UNCHANGED phase
    /\ UNCHANGED <<world, acquiring, cancelled, owned, builds, closing>>

\* readActiveEpoch and the ignore rules; the watcher is created.
Read(c) ==
    /\ phase[c] = "reading" /\ ~cancelled[c]
    /\ \/ phase' = Set(phase, c, "watching") /\ watcher' = Set(watcher, c, "live")
       \/ phase' = Set(phase, c, "cleanup") /\ UNCHANGED watcher
    /\ UNCHANGED <<world, acquiring, recovering, cancelled, handle, changes, builds, closing>>

\* The watcher is ready, and the initial rebuild begins.
Ready(c) ==
    /\ phase[c] = "watching" /\ ~cancelled[c]
    /\ \/ /\ phase' = Set(phase, c, "building")
          /\ call' = Set(call, c, Asked(call[c], "start", "running"))
          /\ StartBuild(c, {"start"})
       \/ /\ phase' = Set(phase, c, "cleanup")
          /\ UNCHANGED <<call, build>>
    /\ UNCHANGED <<world, acquiring, recovering, cancelled, owned, queue, attempted, closing>>

\* The initial rebuild has answered: the session is up, whatever the outcome,
\* unless it rejected.
Initial(c) ==
    /\ phase[c] = "building" /\ ~Waiting(c, "start")
    /\ phase' = Set(phase, c, IF call[c]["start"].state = "rejected" THEN "cleanup" ELSE "started")
    /\ UNCHANGED <<world, acquiring, recovering, cancelled, owned, builds, closing>>

\* The close signal wins the race against the step that start() awaits.
Cancel(c) ==
    /\ phase[c] \in Blocked /\ cancelled[c]
    /\ phase' = Set(phase, c, "cleanup")
    /\ UNCHANGED <<world, acquiring, recovering, cancelled, owned, builds, closing>>

-----------------------------------------------------------------------------
(* Releasing the watcher and the lock; each is asked for once *)

Releases(c) ==
    /\ watcher' = IF watcher[c] = "live" THEN Set(watcher, c, "closing") ELSE watcher
    /\ dirty' = IF watcher[c] = "live" THEN Set(dirty, c, FALSE) ELSE dirty
    /\ UNCHANGED <<flush, signed, dropped>>
    /\ handle' = IF handle[c] = "held" THEN Set(handle, c, "closing") ELSE handle
Released(c) == watcher[c] \in {"none", "closed", "leaked"} /\ handle[c] \in {"none", "closed", "leaked"}

\* ProjectWatcher.close awaits the flushes, then the last delivery, and rejects
\* with it before it has closed the file watcher; it is not tried again.
CloseWatcher(c) ==
    /\ watcher[c] = "closing" /\ flush[c] = NoFlush /\ ~Waiting(c, "watcher")
    /\ watcher' = Set(watcher, c, IF call[c]["watcher"].state = "rejected" THEN "leaked"
                                                                         ELSE "closed")
    /\ UNCHANGED <<world, startup, handle, changes, builds, closing>>

\* lock.close(), which may fail; it is not tried again.
CloseLock(c) ==
    /\ handle[c] = "closing"
    /\ \/ handle' = Set(handle, c, "closed") /\ lock' = None
       \/ handle' = Set(handle, c, "leaked") /\ UNCHANGED lock
    /\ UNCHANGED <<source, startup, watcher, changes, builds, closing>>

\* A failed start() releases what it has, then rejects.
Cleanup(c) ==
    /\ phase[c] = "cleanup"
    /\ Releases(c)
    /\ phase' = IF Released(c) THEN Set(phase, c, "failed") ELSE phase
    /\ UNCHANGED <<world, acquiring, recovering, cancelled, builds, closing>>

-----------------------------------------------------------------------------
(* close *)

\* Mutant: close() releases what it owns without waiting for the build.
ClosesEarly(c) ==
    /\ closing[c] = "open"
    /\ call' = Set(call, c, Answered(call[c], queue[c], "failed", 0))
    /\ queue' = Set(queue, c, {})
    /\ closing' = Set(closing, c, "nothing")
    /\ cancelled' = Set(cancelled, c, TRUE)
    /\ Releases(c)
    /\ UNCHANGED <<world, phase, acquiring, recovering, build, attempted>>

\* Mutant: a blocked startup is not cancelled.
ClosesWaiting(c) ==
    /\ closing[c] = "open"
    /\ call' = Set(call, c, Answered(call[c], queue[c], "failed", 0))
    /\ queue' = Set(queue, c, {})
    /\ closing' = Set(closing, c, IF build[c] # NoBuild THEN "build"
                                  ELSE IF phase[c] # "new" THEN "start" ELSE "nothing")
    /\ UNCHANGED <<world, startup, owned, build, attempted>>

\* close(): refuses what is queued, cancels a startup that has not reached its
\* build, and awaits the build or the startup.
Close(c) ==
    /\ closing[c] = "open"
    /\ call' = Set(call, c, Answered(call[c], queue[c], "failed", 0))
    /\ queue' = Set(queue, c, {})
    /\ closing' = Set(closing, c, IF build[c] # NoBuild THEN "build"
                                  ELSE IF phase[c] # "new" THEN "start" ELSE "nothing")
    /\ IF build[c] = NoBuild /\ phase[c] \notin {"new", "started"}
       THEN cancelled' = Set(cancelled, c, TRUE) /\ Releases(c)
       ELSE UNCHANGED <<cancelled, owned>>
    /\ UNCHANGED <<world, phase, acquiring, recovering, build, attempted>>

\* What close() waited for has settled; it releases the rest.
CloseReleases(c) ==
    /\ \/ closing[c] = "build" /\ build[c] = NoBuild
       \/ closing[c] = "start" /\ phase[c] \in {"started", "failed"}
       \/ closing[c] = "nothing"
    /\ closing' = Set(closing, c, "releasing")
    /\ Releases(c)
    /\ UNCHANGED <<world, startup, builds>>

Closed(c) ==
    /\ closing[c] = "releasing" /\ Released(c)
    /\ closing' = Set(closing, c, "closed")
    /\ UNCHANGED <<world, startup, owned, builds>>

FlushStep(c) == Flush(c) \/ ReadSignature(c) \/ Deliver(c)
BuildStep(c) == Prepare(c) \/ Check(c) \/ Artifact(c) \/ Package(c)
StartStep(c) == Initial(c) \/ Cancel(c) \/ Cleanup(c)
CloseStep(c) == CloseWatcher(c) \/ CloseLock(c) \/ CloseReleases(c) \/ Closed(c)

Next ==
    \/ Change
    \/ \E c \in Coordinators :
         \/ Start(c) \/ AcquireLock(c) \/ Recovered(c) \/ Read(c) \/ Ready(c)
         \/ BuildStep(c) \/ StartStep(c) \/ CloseStep(c)
         \/ Repeat(c) \/ FlushStep(c) \/ Close(c)
         \/ \E r \in Callers : CallRebuild(c, r)

\* What the build awaits settles, and so do the flushes, whose timer fires and
\* whose stats answer, and the releases; nothing is assumed of
\* the lock, the recovery and the readiness of the watcher, which may hang.
Fairness ==
    \A c \in Coordinators :
        WF_vars(BuildStep(c)) /\ WF_vars(StartStep(c)) /\ WF_vars(Flush(c))
          /\ WF_vars(ReadSignature(c) \/ Deliver(c))
          /\ WF_vars(CloseWatcher(c)) /\ WF_vars(CloseLock(c))
          /\ WF_vars(CloseReleases(c) \/ Closed(c))

Spec == Init /\ [][Next]_vars
FairSpec == Spec /\ Fairness

-----------------------------------------------------------------------------
(* Properties *)

TypeOK ==
    /\ lock \in Coordinators \cup {None} /\ source \in 0 .. MaxSource
    /\ phase \in [Coordinators -> Phases]
    /\ acquiring \in [Coordinators -> BOOLEAN] /\ recovering \in [Coordinators -> BOOLEAN]
    /\ cancelled \in [Coordinators -> BOOLEAN]
    /\ handle \in [Coordinators -> {"none", "held", "closing", "closed", "leaked"}]
    /\ watcher \in [Coordinators -> {"none", "live", "closing", "closed", "leaked"}]
    /\ dirty \in [Coordinators -> BOOLEAN] /\ dropped \in [Coordinators -> BOOLEAN]
    /\ flush \in [Coordinators -> [queued : BOOLEAN, read : Signatures]]
    /\ signed \in [Coordinators -> Signatures]
    /\ build \in [Coordinators -> Builds]
    /\ queue \in [Coordinators -> SUBSET Requesters]
    /\ call \in [Coordinators -> Calls]
    /\ attempted \in [Coordinators -> 0 .. MaxSource]
    /\ closing \in [Coordinators -> {"open", "build", "start", "nothing", "releasing", "closed"}]
    /\ \A c \in Coordinators, r \in Requesters :
         /\ r \in build[c].for <=> call[c][r].state = "running"
         /\ r \in queue[c] <=> call[c][r].state = "queued"

\* "No overlapping publications occur": whoever builds has the project lock,
\* until the build has settled, also when it is closed meanwhile.
BuildsUnderLock == \A c \in Coordinators : build[c] # NoBuild => lock = c

\* A successful answer covers the sources as they were when rebuild() was
\* called: a call that comes during a build is answered by the follow-up.
FreshAnswers ==
    \A c \in Coordinators, r \in Callers \cup {"watcher"} :
        call[c][r].state = "succeeded" => call[c][r].got >= call[c][r].asked

\* "close() leaves no watcher, child, engine, or lock": but for a watcher or a
\* lock whose own close failed, and a lock acquired after close() had given up
\* on it, which is then released.
CloseLeavesNothing ==
    \A c \in Coordinators :
        closing[c] = "closed" =>
            /\ build[c] = NoBuild /\ watcher[c] \in {"none", "closed", "leaked"}
            /\ lock = c => handle[c] \in {"leaked", "closing"}

\* Every rebuild() is answered, by a build or by close().
CallsAnswered ==
    \A c \in Coordinators, r \in Requesters : Waiting(c, r) ~> ~Waiting(c, r)

\* A change that the watcher has recorded is built, unless the coordinator is
\* closed first.  Three exceptions: a flush has failed to read the signature and
\* no event has come since; startup failed; its flush ran before the session was up, when
\* rebuild() refuses, and as the signature was recorded all the same a repeated
\* event of that change does not help either.
ChangesBuilt ==
    \A c \in Coordinators, v \in 1 .. MaxSource :
        watcher[c] = "live" /\ dirty[c] /\ source = v /\ signed[c] # v
            ~> \/ attempted[c] >= v
               \/ closing[c] # "open"
               \/ dropped[c]
               \/ phase[c] # "started" /\ (signed[c] >= v \/ phase[c] \in {"cleanup", "failed"})

\* close() settles at any moment of startup and of a build, even if the lock,
\* the recovery or the watcher never answers.
CloseSettles == \A c \in Coordinators : closing[c] # "open" ~> closing[c] = "closed"

=============================================================================
