------------------------------ MODULE DevLock ------------------------------
(***************************************************************************)
(* The project lock of the development server: dev/dev-lock.ts, on the     *)
(* acquisition loop of core/owner-lock.ts and the publication of           *)
(* core/durable-fs.ts.                                                     *)
(*                                                                         *)
(* dev.lock names its owner (pid and nonce) and is published by hard link, *)
(* so it is either absent or complete.  A contender that finds the owner   *)
(* dead takes the recovery gate dev.lock.recovery, a file of the same      *)
(* kind, rechecks and removes the stale lock under it, and tries again; an *)
(* owner closes under the same gate.                                       *)
(*                                                                         *)
(* A process stands for one acquireDevLock call and the DevLock it may     *)
(* return, and for the contents it writes (its nonce).  Each access to a   *)
(* file is a step of its own: removeIfOwned, in particular, reads in one   *)
(* and removes in another.  Each of them may fail: an acquisition is then  *)
(* refused and a close rejects, after rolling back what they can, and what *)
(* a failed removal leaves names a living process.  Left out: the private  *)
(* candidate files, which no other process reads, and records that do not  *)
(* parse.                                                                  *)
(***************************************************************************)
EXTENDS Integers

CONSTANTS
    Procs,      \* acquisitions
    None,       \* no file
    PidReuse,   \* whether the pid of a dead process may be another's by now
    GateRace,   \* whether a gate may be abandoned with two processes left to find it
    MaxFaults   \* bound: file operations that fail

ASSUME NoneAssumption == None \notin Procs
ASSUME FaultAssumption == MaxFaults \in Nat
ASSUME SwitchAssumption == {PidReuse, GateRace} \subseteq BOOLEAN

VARIABLES
    lock,   \* whose contents dev.lock has
    gate,   \* whose contents dev.lock.recovery has
    urls,   \* the processes whose server URL record exists
    pc,     \* what each process does next; "dead" when it was killed
    goal,   \* the call under way or the last one, and whether it has failed
    seen,   \* the contents of dev.lock it acts on
    gseen,  \* the contents of dev.lock.recovery it acts on
    published,  \* the processes whose #owner has its URL
    faults, \* the operations that may still fail
    kept    \* history: the processes that failed to remove their own record, by record

shared == <<lock, gate, urls>>
local  == <<pc, goal, seen, gseen>>
failures == <<faults, kept>>
vars   == <<shared, local, published, failures>>

OwnerSteps  == {"owner", "urlLink", "urlCheck"}
GateSteps   == {"gate", "gateJudge", "gateClear", "gateRemove"}
WorkSteps   == {"gateSync", "recheck", "clear", "remove", "clearUrl"}
InsideSteps == WorkSteps \cup {"leave", "leaveRemove"}
Steps == OwnerSteps \cup GateSteps \cup InsideSteps
           \cup {"create", "sync", "judge", "undo", "undoRemove", "refused", "closed", "dead"}

Goals == {"acquire", "refuse", "close", "closeFailed"}

\* The processes that exist.
alive == {p \in Procs : pc[p] # "dead"}

At(p, step) == pc[p] = step
Goto(p, step) == pc' = [pc EXCEPT ![p] = step]

\* isProcessAlive on the recorded pid: a dead owner's pid may have been reused.
MayBeAlive(q) == q \in alive \/ PidReuse
MayBeDead(q)  == q \notin alive

\* The process holds a DevLock and has not begun to close it.
Owner(p) == pc[p] \in OwnerSteps /\ goal[p] = "acquire"

Init ==
    /\ lock = None /\ gate = None /\ urls = {}
    /\ pc = [p \in Procs |-> "create"]
    /\ goal = [p \in Procs |-> "acquire"]
    /\ seen = [p \in Procs |-> None]
    /\ gseen = [p \in Procs |-> None]
    /\ published = {} /\ faults = MaxFaults /\ kept = [lock |-> {}, gate |-> {}]

\* A file operation fails, within the bound.
Fault == faults > 0 /\ faults' = faults - 1

\* The call that the process is in has failed: what is left of it is to clean up.
Fails(p) == goal' = [goal EXCEPT ![p] = IF @ = "acquire" THEN "refuse"
                                        ELSE IF @ = "close" THEN "closeFailed" ELSE @]

\* A failed acquisition throws; the handle of a failed close can be closed again.
Rejects(p) ==
    /\ Fails(p)
    /\ Goto(p, IF goal[p] \in {"acquire", "refuse"} THEN "refused" ELSE "owner")
    /\ seen' = [seen EXCEPT ![p] = None] /\ gseen' = [gseen EXCEPT ![p] = None]

\* A file of the process, if it still is its own, stays because a removal failed.
KeepsLock(p) == kept' = [kept EXCEPT !.lock = @ \cup ({p} \cap {lock})]
KeepsGate(p) == kept' = [kept EXCEPT !.gate = @ \cup ({p} \cap {gate})]

-----------------------------------------------------------------------------
(* acquireDevLock *)

\* The exclusive create: a hard link, which fails if the file exists.  A failure
\* before the link leaves nothing.
Create(p) ==
    /\ At(p, "create")
    /\ \/ lock = None /\ lock' = p /\ Goto(p, "sync") /\ UNCHANGED faults
       \/ lock # None /\ UNCHANGED <<lock, faults>> /\ Goto(p, "judge")
       \/ Fault /\ UNCHANGED lock /\ Goto(p, "refused")
    /\ UNCHANGED <<gate, urls, goal, seen, gseen, published, kept>>

\* Mutant: a failed sync leaves the published lock behind.
SyncLeaking(p) ==
    /\ At(p, "sync")
    /\ \/ Goto(p, "owner") /\ UNCHANGED faults
       \/ Goto(p, "refused") /\ Fault
    /\ UNCHANGED <<shared, goal, seen, gseen, published, kept>>

\* The directory is synced and the candidate removed; a failure of either
\* unpublishes the lock and is thrown.
Sync(p) ==
    /\ At(p, "sync")
    /\ \/ Goto(p, "owner") /\ UNCHANGED faults
       \/ Goto(p, "undo") /\ Fault
    /\ UNCHANGED <<shared, goal, seen, gseen, published, kept>>

\* removeIfOwned of its own lock: the read, then the removal.
Undo(p) ==
    /\ At(p, "undo")
    /\ Goto(p, IF lock = p THEN "undoRemove" ELSE "refused")
    /\ UNCHANGED <<shared, goal, seen, gseen, published, failures>>

UndoRemove(p) ==
    /\ At(p, "undoRemove")
    /\ lock' = None
    /\ Goto(p, "refused")
    /\ UNCHANGED <<gate, urls, goal, seen, gseen, published, failures>>

\* A rollback that fails leaves the lock to the process, which holds no DevLock.
UndoFails(p) ==
    /\ pc[p] \in {"undo", "undoRemove"}
    /\ Fault /\ KeepsLock(p)
    /\ Goto(p, "refused")
    /\ UNCHANGED <<shared, goal, seen, gseen, published>>

\* onContention: try again if the lock is gone, fail with DEV_LOCK_HELD if its
\* owner is alive, go and recover it otherwise.
Judge(p) ==
    /\ At(p, "judge")
    /\ \/ lock = None /\ Goto(p, "create") /\ UNCHANGED <<seen, faults>>
       \/ lock # None /\ MayBeAlive(lock) /\ Goto(p, "refused") /\ UNCHANGED <<seen, faults>>
       \/ /\ lock # None /\ MayBeDead(lock)
          /\ Goto(p, "gate") /\ seen' = [seen EXCEPT ![p] = lock]
          /\ UNCHANGED faults
       \/ Fault /\ Goto(p, "refused") /\ UNCHANGED seen
    /\ UNCHANGED <<shared, goal, gseen, published, kept>>

-----------------------------------------------------------------------------
(* acquireRecoveryGate *)

\* The exclusive create of the gate.
EnterGate(p) ==
    /\ At(p, "gate")
    /\ \/ gate = None /\ gate' = p /\ Goto(p, "gateSync")
       \/ gate # None /\ UNCHANGED gate /\ Goto(p, "gateJudge")
    /\ UNCHANGED <<lock, urls, goal, seen, gseen, published, failures>>

\* Mutants: the gate of a living holder is removed too, or no gate ever is.
JudgeGateImpatient(p) ==
    /\ At(p, "gateJudge")
    /\ \/ gate = None /\ Goto(p, "gate") /\ UNCHANGED gseen
       \/ gate # None /\ Goto(p, "gateClear") /\ gseen' = [gseen EXCEPT ![p] = gate]
    /\ UNCHANGED <<shared, goal, seen, published, failures>>
JudgeGateWaiting(p) ==
    /\ At(p, "gateJudge")
    /\ Goto(p, "gate")
    /\ UNCHANGED <<shared, goal, seen, gseen, published, failures>>

\* A live holder is waited for, whatever it does; the gate of a dead one is removed.
JudgeGate(p) ==
    /\ At(p, "gateJudge")
    /\ \/ gate = None /\ Goto(p, "gate") /\ UNCHANGED gseen
       \/ gate # None /\ MayBeAlive(gate) /\ Goto(p, "gate") /\ UNCHANGED gseen
       \/ gate # None /\ MayBeDead(gate) /\ Goto(p, "gateClear")
          /\ gseen' = [gseen EXCEPT ![p] = gate]
    /\ UNCHANGED <<shared, goal, seen, published, failures>>

ClearGate(p) ==
    /\ At(p, "gateClear")
    /\ Goto(p, IF gate = gseen[p] THEN "gateRemove" ELSE "gate")
    /\ gseen' = [gseen EXCEPT ![p] = None]
    /\ UNCHANGED <<shared, goal, seen, published, failures>>

RemoveGate(p) ==
    /\ At(p, "gateRemove")
    /\ gate' = None
    /\ Goto(p, "gate")
    /\ UNCHANGED <<lock, urls, goal, seen, gseen, published, failures>>

\* The loop ends with an error when the candidate cannot be written or the gate not
\* read or removed.  A gate of its own that an earlier close left goes when only
\* the candidate could not be removed: the rollback then reads its own contents.
GateFails(p) ==
    /\ pc[p] \in GateSteps
    /\ Fault /\ Rejects(p)
    /\ gate' \in {gate} \cup (IF At(p, "gate") /\ gate = p THEN {None} ELSE {})
    /\ UNCHANGED <<lock, urls, published, kept>>

-----------------------------------------------------------------------------
(* Under the gate *)

ToLeave(p) == Goto(p, "leave") /\ seen' = [seen EXCEPT ![p] = None]

\* With the gate in place, recovery rechecks the lock; a close goes straight to
\* removal.
SyncGate(p) ==
    /\ At(p, "gateSync")
    /\ Goto(p, IF goal[p] = "acquire" THEN "recheck" ELSE "clear")
    /\ UNCHANGED <<shared, goal, seen, gseen, published, failures>>

\* Recovery goes on only if the lock is still the one it judged, and its owner
\* still dead.
Recheck(p) ==
    /\ At(p, "recheck")
    /\ \/ (lock # seen[p] \/ MayBeAlive(seen[p])) /\ ToLeave(p)
       \/ lock = seen[p] /\ MayBeDead(seen[p]) /\ Goto(p, "clear") /\ UNCHANGED seen
    /\ UNCHANGED <<shared, goal, gseen, published, failures>>

\* removeIfOwned(dev.lock): the read, then the removal.
Clear(p) ==
    /\ At(p, "clear")
    /\ Goto(p, IF lock = seen[p] THEN "remove" ELSE "clearUrl")
    /\ UNCHANGED <<shared, goal, seen, gseen, published, failures>>

Remove(p) ==
    /\ At(p, "remove")
    /\ lock' = None
    /\ Goto(p, "clearUrl")
    /\ UNCHANGED <<gate, urls, goal, seen, gseen, published, failures>>

ClearUrl(p) ==
    /\ At(p, "clearUrl")
    /\ urls' = urls \ {seen[p]}
    /\ ToLeave(p)
    /\ UNCHANGED <<lock, gate, goal, gseen, published, failures>>

\* Mutant: what failed under the gate does not give it back.
InsideFailsHolding(p) ==
    /\ pc[p] \in WorkSteps
    /\ Fault /\ Rejects(p)
    /\ UNCHANGED <<shared, published, kept>>

\* The gate's directory or candidate, or a read or removal under the gate, fails:
\* the gate is given back and the error thrown.
InsideFails(p) ==
    /\ pc[p] \in WorkSteps
    /\ Fault /\ Fails(p) /\ ToLeave(p)
    /\ UNCHANGED <<shared, gseen, published, kept>>

\* What follows the gate.
Left(p) ==
    CASE goal[p] = "acquire"     -> "create"
      [] goal[p] = "refuse"      -> "refused"
      [] goal[p] = "closeFailed" -> "owner"
      [] goal[p] = "close"       -> "closed"

\* finally: removeIfOwned of its own gate.
Leave(p) ==
    /\ At(p, "leave")
    /\ Goto(p, IF gate = p THEN "leaveRemove" ELSE Left(p))
    /\ UNCHANGED <<shared, goal, seen, gseen, published, failures>>

LeaveRemove(p) ==
    /\ At(p, "leaveRemove")
    /\ gate' = None
    /\ Goto(p, Left(p))
    /\ UNCHANGED <<lock, urls, goal, seen, gseen, published, failures>>

\* The removal of the gate fails, and its error is the call's: the gate stays, in
\* the name of a living process.
LeaveFails(p) ==
    /\ pc[p] \in {"leave", "leaveRemove"}
    /\ Fault /\ KeepsGate(p) /\ Rejects(p)
    /\ UNCHANGED <<shared, published>>

-----------------------------------------------------------------------------
(* The DevLock handle *)

\* publishServerUrl: checks the lock, links the URL record, checks again and
\* withdraws the record if another lock is there instead.  A close that failed
\* does not prevent it.
PublishUrl(p) ==
    /\ At(p, "owner") /\ p \notin published
    /\ lock = p
    /\ Goto(p, "urlLink")
    /\ UNCHANGED <<shared, goal, seen, gseen, published, failures>>

\* A failure leaves the record or not, as its rollback succeeds or fails.
LinkUrl(p) ==
    /\ At(p, "urlLink")
    /\ \/ urls' = urls \cup {p} /\ Goto(p, "urlCheck") /\ UNCHANGED faults
       \/ Fault /\ urls' \in {urls \ {p}, urls \cup {p}} /\ Goto(p, "owner")
    /\ UNCHANGED <<lock, gate, goal, seen, gseen, published, kept>>

\* The record also stays when dev.lock is gone (the read throws), or when this
\* read or the removal fails.
CheckUrl(p) ==
    /\ At(p, "urlCheck")
    /\ \/ /\ urls' = IF lock \in {p, None} THEN urls ELSE urls \ {p}
          /\ published' = IF lock = p THEN published \cup {p} ELSE published
          /\ UNCHANGED faults
       \/ Fault /\ UNCHANGED <<urls, published>>
    /\ Goto(p, "owner")
    /\ UNCHANGED <<lock, gate, goal, seen, gseen, kept>>

\* close(): waits for a URL publication, then takes the gate.
Close(p) ==
    /\ At(p, "owner")
    /\ goal' = [goal EXCEPT ![p] = "close"]
    /\ seen' = [seen EXCEPT ![p] = p]
    /\ Goto(p, "gate")
    /\ UNCHANGED <<shared, gseen, published, failures>>

\* The process is killed, and its files stay.
Crash(p) ==
    /\ p \in alive
    /\ gate = p => GateRace \/ \A q, r \in alive \ {p} : q = r
    /\ pc' = [pc EXCEPT ![p] = "dead"]
    /\ goal' = [goal EXCEPT ![p] = "acquire"]
    /\ seen' = [seen EXCEPT ![p] = None]
    /\ gseen' = [gseen EXCEPT ![p] = None]
    /\ published' = published \ {p}
    /\ UNCHANGED <<shared, failures>>

Acquiring(p) == Create(p) \/ Sync(p) \/ Undo(p) \/ UndoRemove(p) \/ Judge(p)
AtGate(p) == EnterGate(p) \/ JudgeGate(p) \/ ClearGate(p) \/ RemoveGate(p)
Inside(p) ==
    \/ SyncGate(p) \/ Recheck(p) \/ Clear(p) \/ Remove(p) \/ ClearUrl(p)
    \/ Leave(p) \/ LeaveRemove(p)
Failing(p) == UndoFails(p) \/ GateFails(p) \/ InsideFails(p) \/ LeaveFails(p)

Next ==
    \E p \in Procs :
        \/ Acquiring(p) \/ AtGate(p) \/ Inside(p) \/ Failing(p)
        \/ PublishUrl(p) \/ LinkUrl(p) \/ CheckUrl(p) \/ Close(p)
        \/ Crash(p)

\* A process that is not killed goes on with what it awaits.
Fairness == \A p \in Procs : WF_vars(Acquiring(p) \/ AtGate(p) \/ Inside(p))

Spec == Init /\ [][Next]_vars
FairSpec == Spec /\ Fairness

-----------------------------------------------------------------------------
(* Properties *)

TypeOK ==
    /\ lock \in Procs \cup {None} /\ gate \in Procs \cup {None}
    /\ urls \subseteq Procs
    /\ pc \in [Procs -> Steps] /\ goal \in [Procs -> Goals]
    /\ seen \in [Procs -> Procs \cup {None}] /\ gseen \in [Procs -> Procs \cup {None}]
    /\ \A p \in Procs : pc[p] \in GateSteps \cup WorkSteps => seen[p] # None
    /\ published \subseteq Procs /\ faults \in 0 .. MaxFaults
    /\ kept \in [lock : SUBSET Procs, gate : SUBSET Procs]

\* acquireDevLock "acquires the single writer lock for one project's development
\* epoch store": no two living processes hold it at a time.
SingleWriter == \A p, q \in Procs : Owner(p) /\ Owner(q) => p = q

\* The file names the process that holds the lock, so that every contender and
\* every client that reads it finds that process, and nobody recovers its lock.
OwnerHasLock == \A p \in Procs : Owner(p) => lock = p

\* A process that has closed its lock leaves nothing behind, whatever failed in the
\* closes before: no lock, no gate and no URL record of its own.  One that was
\* refused leaves at most the lock or the gate that it failed to remove.
CleanExit ==
    \A p \in Procs :
        /\ pc[p] = "closed" => lock # p /\ gate # p /\ p \notin urls
        /\ pc[p] = "refused" =>
             /\ lock # p \/ p \in kept.lock
             /\ gate # p \/ p \in kept.gate
             /\ p \notin urls

\* The process waits for a gate whose removal failed in a process that lives, itself
\* perhaps: nobody removes it while that process lives.
Stuck(p) ==
    /\ pc[p] \in {"gate", "gateJudge"}
    /\ gate \in alive /\ pc[gate] \notin InsideSteps /\ gate \in kept.gate

\* Every acquisition settles: it gets the lock or is refused, also when it
\* finds a lock, or a gate, whose owner was killed; unless it waits for ever for a
\* gate that a living process has left behind.
AcquireSettles ==
    \A p \in Procs :
        At(p, "create") ~> (pc[p] \in OwnerSteps \cup {"refused", "dead"} \/ []Stuck(p))

\* A close settles, and either succeeds or can be tried again, with the same
\* exception; the gate it waits for may be the one its own first attempt left.
CloseSettles ==
    \A p \in Procs :
        goal[p] = "close" ~> (pc[p] \in {"closed", "owner", "dead"} \/ []Stuck(p))

=============================================================================
