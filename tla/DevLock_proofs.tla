--------------------------- MODULE DevLock_proofs ---------------------------
(***************************************************************************)
(* For every number of processes, kills, failed file operations and reused *)
(* pids: two processes never hold the project lock at a time, dev.lock     *)
(* names its holder, and a process that gives up leaves nothing behind but *)
(* what it failed to remove; provided that no gate is abandoned with two   *)
(* processes left to find it (without that, the lock is not exclusive: see *)
(* the run that sets GateRace).                                            *)
(*                                                                         *)
(* The properties are not inductive.  A removal is safe because what was   *)
(* read before it cannot have changed since: the lock, because whoever     *)
(* removes it holds the gate; the gate of a dead process, because nobody   *)
(* else is alive to replace it.                                            *)
(***************************************************************************)
EXTENDS DevLock, TLAPS

Dead(q) == q # None /\ q \notin alive

Types ==
    /\ lock \in Procs \cup {None} /\ gate \in Procs \cup {None}
    /\ urls \subseteq Procs
    /\ pc \in [Procs -> Steps] /\ goal \in [Procs -> Goals]
    /\ seen \in [Procs -> Procs \cup {None}] /\ gseen \in [Procs -> Procs \cup {None}]
    /\ published \subseteq Procs /\ faults \in 0 .. MaxFaults
    /\ kept \in [lock : SUBSET Procs, gate : SUBSET Procs]

\* The process has failed to remove its gate, and is refused or has its handle back.
GateKept(p) ==
    /\ p \in kept.gate
    /\ \/ pc[p] = "refused"
       \/ pc[p] \in OwnerSteps \cup GateSteps /\ goal[p] \in {"close", "closeFailed"}

\* The gate is held by whoever is inside or has failed to leave, and a dead holder's
\* gate is found by one process at most.
GateInv ==
    /\ Dead(gate) => \A p, q \in alive : p = q
    /\ \A p \in Procs :
         /\ pc[p] \in InsideSteps => gate = p
         /\ gate = p => pc[p] \in InsideSteps \cup {"dead"} \/ GateKept(p)
         /\ pc[p] = "gateClear" => Dead(gseen[p])
         /\ pc[p] = "gateRemove" => Dead(gate)

\* What a process that goes for a stale lock has seen, and one that closes its
\* own.
SeenInv ==
    \A p \in Procs :
        /\ pc[p] = "recheck" => goal[p] = "acquire"
        /\ pc[p] \in GateSteps \cup WorkSteps =>
             \/ goal[p] = "acquire" /\ Dead(seen[p])
             \/ goal[p] = "close" /\ seen[p] = p
        /\ pc[p] = "remove" => lock = seen[p]

\* The process has published its lock, and not yet withdrawn it.
Publisher(p) == pc[p] \in {"sync", "undo", "undoRemove"} \cup OwnerSteps
\* A close is under way, or has failed.
Closing(p) ==
    \/ goal[p] = "close" /\ pc[p] \in GateSteps \cup WorkSteps
    \/ goal[p] = "closeFailed" /\ pc[p] \in OwnerSteps \cup {"leave", "leaveRemove"}

LockInv ==
    \A p \in Procs :
        /\ Publisher(p) /\ goal[p] = "acquire" => lock = p
        /\ pc[p] \in {"create", "judge", "sync", "undo", "undoRemove"} => goal[p] = "acquire"
        /\ pc[p] \in OwnerSteps => goal[p] \in {"acquire", "closeFailed"}
        /\ lock = p => \/ Publisher(p) /\ goal[p] = "acquire"
                       \/ Closing(p) \/ pc[p] = "dead"
                       \/ pc[p] = "refused" /\ p \in kept.lock
        /\ pc[p] = "clearUrl" => lock # p
        /\ p \in urls => \/ pc[p] \in OwnerSteps /\ goal[p] = "acquire"
                         \/ Closing(p) \/ pc[p] = "dead"

IInv == Types /\ GateInv /\ SeenInv /\ LockInv

\* The invariant holds at the start.
LEMMA InitInv == Init => IInv
  BY NoneAssumption, FaultAssumption
     DEF Init, IInv, Types, GateInv, SeenInv, LockInv, Dead, alive, Publisher, Closing, GateKept,
         Steps, Goals, OwnerSteps, GateSteps, WorkSteps, InsideSteps

\* Every step keeps the invariant: what every action does to the types, to the
\* gate, to what was seen and to the lock.
LEMMA NextInv == ~GateRace /\ IInv /\ [Next]_vars => IInv'
  <1> SUFFICES ASSUME ~GateRace, IInv, [Next]_vars PROVE IInv'
    OBVIOUS
  <1> USE NoneAssumption, FaultAssumption
      DEF IInv, shared, failures, At, Goto, ToLeave, Steps, Goals, OwnerSteps, GateSteps,
          WorkSteps, InsideSteps
  <1>1. ASSUME NEW p \in Procs, Create(p) PROVE IInv'
    <2>1. Types'
      BY <1>1 DEF Create, Types, Fault
    <2>2. GateInv'
      BY <1>1 DEF Create, Types, GateInv, GateKept, LockInv, SeenInv, Dead, alive, Fault
    <2>3. SeenInv'
      BY <1>1 DEF Create, Types, GateInv, SeenInv, LockInv, Publisher, Dead, alive, Fault
    <2>4. LockInv'
      BY <1>1 DEF Create, Types, GateInv, SeenInv, LockInv, Publisher, Closing, Dead, alive, Fault
    <2> QED BY <2>1, <2>2, <2>3, <2>4
  <1>2. ASSUME NEW p \in Procs, Sync(p) PROVE IInv'
    <2>1. Types'
      BY <1>2 DEF Sync, Types, Fault
    <2>2. GateInv'
      BY <1>2 DEF Sync, Types, GateInv, GateKept, LockInv, SeenInv, Dead, alive, Fault
    <2>3. SeenInv'
      BY <1>2 DEF Sync, Types, GateInv, SeenInv, LockInv, Publisher, Dead, alive, Fault
    <2>4. LockInv'
      BY <1>2 DEF Sync, Types, GateInv, SeenInv, LockInv, Publisher, Closing, Dead, alive, Fault
    <2> QED BY <2>1, <2>2, <2>3, <2>4
  <1>3. ASSUME NEW p \in Procs, Undo(p) PROVE IInv'
    <2>1. Types'
      BY <1>3 DEF Undo, Types
    <2>2. GateInv'
      BY <1>3 DEF Undo, Types, GateInv, GateKept, LockInv, SeenInv, Dead, alive
    <2>3. SeenInv'
      BY <1>3 DEF Undo, Types, GateInv, SeenInv, LockInv, Publisher, Dead, alive
    <2>4. LockInv'
      BY <1>3 DEF Undo, Types, GateInv, SeenInv, LockInv, Publisher, Closing, Dead, alive
    <2> QED BY <2>1, <2>2, <2>3, <2>4
  <1>4. ASSUME NEW p \in Procs, UndoRemove(p) PROVE IInv'
    <2>1. Types'
      BY <1>4 DEF UndoRemove, Types
    <2>2. GateInv'
      BY <1>4 DEF UndoRemove, Types, GateInv, GateKept, LockInv, SeenInv, Dead, alive
    <2>3. SeenInv'
      BY <1>4 DEF UndoRemove, Types, GateInv, SeenInv, LockInv, Publisher, Dead, alive
    <2>4. LockInv'
      BY <1>4 DEF UndoRemove, Types, GateInv, SeenInv, LockInv, Publisher, Closing, Dead, alive
    <2> QED BY <2>1, <2>2, <2>3, <2>4
  <1>5. ASSUME NEW p \in Procs, Judge(p) PROVE IInv'
    <2>1. Types'
      BY <1>5 DEF Judge, Types, MayBeAlive, MayBeDead, Fault
    <2>2. GateInv'
      BY <1>5 DEF Judge, Types, GateInv, GateKept, LockInv, SeenInv, Dead, alive, MayBeAlive, MayBeDead, Fault
    <2>3. SeenInv'
      BY <1>5 DEF Judge, Types, GateInv, SeenInv, LockInv, Publisher, Dead, alive, MayBeAlive, MayBeDead, Fault
    <2>4. LockInv'
      BY <1>5 DEF Judge, Types, GateInv, SeenInv, LockInv, Publisher, Closing, Dead, alive, MayBeAlive, MayBeDead, Fault
    <2> QED BY <2>1, <2>2, <2>3, <2>4
  <1>6. ASSUME NEW p \in Procs, EnterGate(p) PROVE IInv'
    <2>1. Types'
      BY <1>6 DEF EnterGate, Types
    <2>2. GateInv'
      BY <1>6 DEF EnterGate, Types, GateInv, GateKept, LockInv, SeenInv, Dead, alive
    <2>3. SeenInv'
      BY <1>6 DEF EnterGate, Types, GateInv, SeenInv, LockInv, Publisher, Dead, alive
    <2>4. LockInv'
      BY <1>6 DEF EnterGate, Types, GateInv, SeenInv, LockInv, Publisher, Closing, Dead, alive
    <2> QED BY <2>1, <2>2, <2>3, <2>4
  <1>7. ASSUME NEW p \in Procs, JudgeGate(p) PROVE IInv'
    <2>1. Types'
      BY <1>7 DEF JudgeGate, Types, MayBeAlive, MayBeDead
    <2>2. GateInv'
      BY <1>7 DEF JudgeGate, Types, GateInv, GateKept, LockInv, SeenInv, Dead, alive, MayBeAlive, MayBeDead
    <2>3. SeenInv'
      BY <1>7 DEF JudgeGate, Types, GateInv, SeenInv, LockInv, Publisher, Dead, alive, MayBeAlive, MayBeDead
    <2>4. LockInv'
      BY <1>7 DEF JudgeGate, Types, GateInv, SeenInv, LockInv, Publisher, Closing, Dead, alive, MayBeAlive, MayBeDead
    <2> QED BY <2>1, <2>2, <2>3, <2>4
  <1>8. ASSUME NEW p \in Procs, ClearGate(p) PROVE IInv'
    <2>1. Types'
      BY <1>8 DEF ClearGate, Types
    <2>2. GateInv'
      BY <1>8 DEF ClearGate, Types, GateInv, GateKept, LockInv, SeenInv, Dead, alive
    <2>3. SeenInv'
      BY <1>8 DEF ClearGate, Types, GateInv, SeenInv, LockInv, Publisher, Dead, alive
    <2>4. LockInv'
      BY <1>8 DEF ClearGate, Types, GateInv, SeenInv, LockInv, Publisher, Closing, Dead, alive
    <2> QED BY <2>1, <2>2, <2>3, <2>4
  <1>9. ASSUME NEW p \in Procs, RemoveGate(p) PROVE IInv'
    <2>1. Types'
      BY <1>9 DEF RemoveGate, Types
    <2>2. GateInv'
      BY <1>9 DEF RemoveGate, Types, GateInv, GateKept, LockInv, SeenInv, Dead, alive
    <2>3. SeenInv'
      BY <1>9 DEF RemoveGate, Types, GateInv, SeenInv, LockInv, Publisher, Dead, alive
    <2>4. LockInv'
      BY <1>9 DEF RemoveGate, Types, GateInv, SeenInv, LockInv, Publisher, Closing, Dead, alive
    <2> QED BY <2>1, <2>2, <2>3, <2>4
  <1>10. ASSUME NEW p \in Procs, SyncGate(p) PROVE IInv'
    <2>1. Types'
      BY <1>10 DEF SyncGate, Types
    <2>2. GateInv'
      BY <1>10 DEF SyncGate, Types, GateInv, GateKept, LockInv, SeenInv, Dead, alive
    <2>3. SeenInv'
      BY <1>10 DEF SyncGate, Types, GateInv, SeenInv, LockInv, Publisher, Dead, alive
    <2>4. LockInv'
      BY <1>10 DEF SyncGate, Types, GateInv, SeenInv, LockInv, Publisher, Closing, Dead, alive
    <2> QED BY <2>1, <2>2, <2>3, <2>4
  <1>11. ASSUME NEW p \in Procs, Recheck(p) PROVE IInv'
    <2>1. Types'
      BY <1>11 DEF Recheck, Types, MayBeAlive, MayBeDead
    <2>2. GateInv'
      BY <1>11 DEF Recheck, Types, GateInv, GateKept, LockInv, SeenInv, Dead, alive, MayBeAlive, MayBeDead
    <2>3. SeenInv'
      BY <1>11 DEF Recheck, Types, GateInv, SeenInv, LockInv, Publisher, Dead, alive, MayBeAlive, MayBeDead
    <2>4. LockInv'
      BY <1>11 DEF Recheck, Types, GateInv, SeenInv, LockInv, Publisher, Closing, Dead, alive, MayBeAlive, MayBeDead
    <2> QED BY <2>1, <2>2, <2>3, <2>4
  <1>12. ASSUME NEW p \in Procs, Clear(p) PROVE IInv'
    <2>1. Types'
      BY <1>12 DEF Clear, Types
    <2>2. GateInv'
      BY <1>12 DEF Clear, Types, GateInv, GateKept, LockInv, SeenInv, Dead, alive
    <2>3. SeenInv'
      BY <1>12 DEF Clear, Types, GateInv, SeenInv, LockInv, Publisher, Dead, alive
    <2>4. LockInv'
      BY <1>12 DEF Clear, Types, GateInv, SeenInv, LockInv, Publisher, Closing, Dead, alive
    <2> QED BY <2>1, <2>2, <2>3, <2>4
  <1>13. ASSUME NEW p \in Procs, Remove(p) PROVE IInv'
    <2>1. Types'
      BY <1>13 DEF Remove, Types
    <2>2. GateInv'
      BY <1>13 DEF Remove, Types, GateInv, GateKept, LockInv, SeenInv, Dead, alive
    <2>3. SeenInv'
      BY <1>13 DEF Remove, Types, GateInv, SeenInv, LockInv, Publisher, Dead, alive
    <2>4. LockInv'
      BY <1>13 DEF Remove, Types, GateInv, SeenInv, LockInv, Publisher, Closing, Dead, alive
    <2> QED BY <2>1, <2>2, <2>3, <2>4
  <1>14. ASSUME NEW p \in Procs, ClearUrl(p) PROVE IInv'
    <2>1. Types'
      BY <1>14 DEF ClearUrl, Types
    <2>2. GateInv'
      BY <1>14 DEF ClearUrl, Types, GateInv, GateKept, LockInv, SeenInv, Dead, alive
    <2>3. SeenInv'
      BY <1>14 DEF ClearUrl, Types, GateInv, SeenInv, LockInv, Publisher, Dead, alive
    <2>4. LockInv'
      BY <1>14 DEF ClearUrl, Types, GateInv, SeenInv, LockInv, Publisher, Closing, Dead, alive
    <2> QED BY <2>1, <2>2, <2>3, <2>4
  <1>15. ASSUME NEW p \in Procs, Leave(p) PROVE IInv'
    <2>1. Types'
      BY <1>15 DEF Leave, Types, Left
    <2>2. GateInv'
      BY <1>15 DEF Leave, Types, GateInv, GateKept, LockInv, SeenInv, Dead, alive, Left
    <2>3. SeenInv'
      BY <1>15 DEF Leave, Types, GateInv, SeenInv, LockInv, Publisher, Dead, alive, Left
    <2>4. LockInv'
      BY <1>15 DEF Leave, Types, GateInv, SeenInv, LockInv, Publisher, Closing, Dead, alive, Left
    <2> QED BY <2>1, <2>2, <2>3, <2>4
  <1>16. ASSUME NEW p \in Procs, LeaveRemove(p) PROVE IInv'
    <2>1. Types'
      BY <1>16 DEF LeaveRemove, Types, Left
    <2>2. GateInv'
      BY <1>16 DEF LeaveRemove, Types, GateInv, GateKept, LockInv, SeenInv, Dead, alive, Left
    <2>3. SeenInv'
      BY <1>16 DEF LeaveRemove, Types, GateInv, SeenInv, LockInv, Publisher, Dead, alive, Left
    <2>4. LockInv'
      BY <1>16 DEF LeaveRemove, Types, GateInv, SeenInv, LockInv, Publisher, Closing, Dead, alive, Left
    <2> QED BY <2>1, <2>2, <2>3, <2>4
  <1>17. ASSUME NEW p \in Procs, UndoFails(p) PROVE IInv'
    <2>1. Types'
      BY <1>17 DEF UndoFails, Types, Fault, KeepsLock
    <2>2. GateInv'
      BY <1>17 DEF UndoFails, Types, GateInv, GateKept, LockInv, SeenInv, Dead, alive, Fault, KeepsLock
    <2>3. SeenInv'
      BY <1>17 DEF UndoFails, Types, GateInv, SeenInv, LockInv, Publisher, Dead, alive, Fault, KeepsLock
    <2>4. LockInv'
      <3>1. /\ kept.lock \subseteq kept'.lock /\ (lock = p => p \in kept'.lock)
            /\ pc' = [pc EXCEPT ![p] = "refused"] /\ pc[p] \in {"undo", "undoRemove"}
            /\ UNCHANGED <<lock, urls, goal>>
        BY <1>17 DEF UndoFails, KeepsLock, Types
      <3> QED BY <3>1 DEF Types, LockInv, Publisher, Closing
    <2> QED BY <2>1, <2>2, <2>3, <2>4
  <1>18. ASSUME NEW p \in Procs, GateFails(p) PROVE IInv'
    <2>1. Types'
      BY <1>18 DEF GateFails, Types, Fault, Rejects, Fails
    <2>2. GateInv'
      BY <1>18 DEF GateFails, Types, GateInv, GateKept, LockInv, SeenInv, Dead, alive, Fault, Rejects, Fails
    <2>3. SeenInv'
      BY <1>18 DEF GateFails, Types, GateInv, SeenInv, LockInv, Publisher, Dead, alive, Fault, Rejects, Fails
    <2>4. LockInv'
      BY <1>18 DEF GateFails, Types, GateInv, SeenInv, LockInv, Publisher, Closing, Dead, alive, Fault, Rejects, Fails
    <2> QED BY <2>1, <2>2, <2>3, <2>4
  <1>19. ASSUME NEW p \in Procs, InsideFails(p) PROVE IInv'
    <2>1. Types'
      BY <1>19 DEF InsideFails, Types, Fault, Fails
    <2>2. GateInv'
      BY <1>19 DEF InsideFails, Types, GateInv, GateKept, LockInv, SeenInv, Dead, alive, Fault, Fails
    <2>3. SeenInv'
      BY <1>19 DEF InsideFails, Types, GateInv, SeenInv, LockInv, Publisher, Dead, alive, Fault, Fails
    <2>4. LockInv'
      BY <1>19 DEF InsideFails, Types, GateInv, SeenInv, LockInv, Publisher, Closing, Dead, alive, Fault, Fails
    <2> QED BY <2>1, <2>2, <2>3, <2>4
  <1>20. ASSUME NEW p \in Procs, LeaveFails(p) PROVE IInv'
    <2>1. Types'
      BY <1>20 DEF LeaveFails, Types, Fault, Rejects, Fails, KeepsGate
    <2>2. GateInv'
      <3>1. /\ kept.gate \subseteq kept'.gate /\ (gate = p => p \in kept'.gate)
            /\ pc[p] \in {"leave", "leaveRemove"} /\ UNCHANGED gate
            /\ \/ pc' = [pc EXCEPT ![p] = "refused"]
               \/ /\ pc' = [pc EXCEPT ![p] = "owner"]
                  /\ goal[p] \in {"close", "closeFailed"}
            /\ goal' = [goal EXCEPT ![p] = IF @ = "acquire" THEN "refuse"
                                          ELSE IF @ = "close" THEN "closeFailed" ELSE @]
            /\ gseen' = [gseen EXCEPT ![p] = None]
        BY <1>20 DEF LeaveFails, Rejects, Fails, KeepsGate, Types
      <3> QED BY <3>1 DEF Types, GateInv, GateKept, Dead, alive
    <2>3. SeenInv'
      BY <1>20 DEF LeaveFails, Types, GateInv, SeenInv, LockInv, Publisher, Dead, alive, Fault, Rejects, Fails, KeepsGate
    <2>4. LockInv'
      BY <1>20 DEF LeaveFails, Types, GateInv, SeenInv, LockInv, Publisher, Closing, Dead, alive, Fault, Rejects, Fails, KeepsGate
    <2> QED BY <2>1, <2>2, <2>3, <2>4
  <1>21. ASSUME NEW p \in Procs, PublishUrl(p) PROVE IInv'
    <2>1. Types'
      BY <1>21 DEF PublishUrl, Types
    <2>2. GateInv'
      BY <1>21 DEF PublishUrl, Types, GateInv, GateKept, LockInv, SeenInv, Dead, alive
    <2>3. SeenInv'
      BY <1>21 DEF PublishUrl, Types, GateInv, SeenInv, LockInv, Publisher, Dead, alive
    <2>4. LockInv'
      BY <1>21 DEF PublishUrl, Types, GateInv, SeenInv, LockInv, Publisher, Closing, Dead, alive
    <2> QED BY <2>1, <2>2, <2>3, <2>4
  <1>22. ASSUME NEW p \in Procs, LinkUrl(p) PROVE IInv'
    <2>1. Types'
      BY <1>22 DEF LinkUrl, Types, Fault
    <2>2. GateInv'
      BY <1>22 DEF LinkUrl, Types, GateInv, GateKept, LockInv, SeenInv, Dead, alive, Fault
    <2>3. SeenInv'
      BY <1>22 DEF LinkUrl, Types, GateInv, SeenInv, LockInv, Publisher, Dead, alive, Fault
    <2>4. LockInv'
      BY <1>22 DEF LinkUrl, Types, GateInv, SeenInv, LockInv, Publisher, Closing, Dead, alive, Fault
    <2> QED BY <2>1, <2>2, <2>3, <2>4
  <1>23. ASSUME NEW p \in Procs, CheckUrl(p) PROVE IInv'
    <2>1. Types'
      BY <1>23 DEF CheckUrl, Types, Fault
    <2>2. GateInv'
      BY <1>23 DEF CheckUrl, Types, GateInv, GateKept, LockInv, SeenInv, Dead, alive, Fault
    <2>3. SeenInv'
      BY <1>23 DEF CheckUrl, Types, GateInv, SeenInv, LockInv, Publisher, Dead, alive, Fault
    <2>4. LockInv'
      BY <1>23 DEF CheckUrl, Types, GateInv, SeenInv, LockInv, Publisher, Closing, Dead, alive, Fault
    <2> QED BY <2>1, <2>2, <2>3, <2>4
  <1>24. ASSUME NEW p \in Procs, Close(p) PROVE IInv'
    <2>1. Types'
      BY <1>24 DEF Close, Types
    <2>2. GateInv'
      BY <1>24 DEF Close, Types, GateInv, GateKept, LockInv, SeenInv, Dead, alive
    <2>3. SeenInv'
      BY <1>24 DEF Close, Types, GateInv, SeenInv, LockInv, Publisher, Dead, alive
    <2>4. LockInv'
      BY <1>24 DEF Close, Types, GateInv, SeenInv, LockInv, Publisher, Closing, Dead, alive
    <2> QED BY <2>1, <2>2, <2>3, <2>4
  <1>25. ASSUME NEW p \in Procs, Crash(p) PROVE IInv'
    <2>1. Types'
      BY <1>25 DEF Crash, Types
    <2>2. GateInv'
      BY <1>25 DEF Crash, Types, GateInv, GateKept, LockInv, SeenInv, Dead, alive
    <2>3. SeenInv'
      BY <1>25 DEF Crash, Types, GateInv, SeenInv, LockInv, Publisher, Dead, alive
    <2>4. LockInv'
      BY <1>25 DEF Crash, Types, GateInv, SeenInv, LockInv, Publisher, Closing, Dead, alive
    <2> QED BY <2>1, <2>2, <2>3, <2>4
  <1>26. CASE UNCHANGED vars
    BY <1>26 DEF vars, local, Types, GateInv, GateKept, SeenInv, LockInv, Publisher, Closing, Dead, alive
  <1> QED
    BY <1>1, <1>2, <1>3, <1>4, <1>5, <1>6, <1>7, <1>8, <1>9, <1>10, <1>11, <1>12,
       <1>13, <1>14, <1>15, <1>16, <1>17, <1>18, <1>19, <1>20, <1>21, <1>22, <1>23,
       <1>24, <1>25, <1>26
    DEF Next, Acquiring, AtGate, Inside, Failing

\* The invariant holds in every reachable state.
LEMMA Invariance == ~GateRace => (Spec => []IInv)
  <1> SUFFICES ASSUME ~GateRace PROVE Spec => []IInv
    OBVIOUS
  <1>1. IInv /\ [Next]_vars => IInv'
    BY NextInv
  <1> QED BY <1>1, InitInv, PTL DEF Spec

\* The state keeps its types, and whoever goes for a lock has seen one.
THEOREM TypeCorrect == ~GateRace => (Spec => []TypeOK)
  <1>1. IInv => TypeOK
    BY NoneAssumption DEF IInv, Types, SeenInv, TypeOK, Dead, GateSteps, WorkSteps
  <1> QED BY <1>1, Invariance, PTL

\* dev.lock names the process that holds the lock, so nobody recovers the lock
\* of a living owner, and every contender is referred to it.
THEOREM LockNamesOwner == ~GateRace => (Spec => []OwnerHasLock)
  <1>1. IInv => OwnerHasLock
    BY DEF IInv, LockInv, OwnerHasLock, Owner, Publisher
  <1> QED BY <1>1, Invariance, PTL

\* The single writer lock: two living processes never hold it at a time.
THEOREM MutualExclusion == ~GateRace => (Spec => []SingleWriter)
  <1>1. OwnerHasLock => SingleWriter
    BY DEF OwnerHasLock, SingleWriter
  <1> QED BY <1>1, LockNamesOwner, PTL

\* A process that has closed its lock leaves neither a lock nor a gate nor a URL
\* record of its own, whatever failed before, and a refused one at most the lock or
\* the gate whose removal failed.
THEOREM LeavesNothing == ~GateRace => (Spec => []CleanExit)
  <1> USE DEF OwnerSteps, GateSteps, WorkSteps, InsideSteps
  <1>1. ASSUME IInv, NEW p \in Procs, pc[p] \in {"refused", "closed"}
        PROVE  /\ lock = p => pc[p] = "refused" /\ p \in kept.lock
               /\ gate = p => pc[p] = "refused" /\ p \in kept.gate
               /\ p \notin urls
    <2>1. ~Closing(p) /\ ~Publisher(p)
      BY <1>1 DEF Closing, Publisher
    <2>2. gate = p => pc[p] = "refused" /\ p \in kept.gate
      BY <1>1 DEF IInv, GateInv, GateKept
    <2> QED BY <1>1, <2>1, <2>2 DEF IInv, LockInv
  <1>2. ASSUME IInv PROVE CleanExit
    <2> SUFFICES ASSUME NEW p \in Procs
                 PROVE  /\ pc[p] = "closed" => lock # p /\ gate # p /\ p \notin urls
                        /\ pc[p] = "refused" =>
                             /\ lock # p \/ p \in kept.lock
                             /\ gate # p \/ p \in kept.gate
                             /\ p \notin urls
      BY Zenon DEF CleanExit
    <2>1. pc[p] \in {"refused", "closed"} =>
             /\ lock = p => pc[p] = "refused" /\ p \in kept.lock
             /\ gate = p => pc[p] = "refused" /\ p \in kept.gate
             /\ p \notin urls
      BY <1>1, <1>2
    <2> QED BY <2>1
  <1> QED BY <1>2, Invariance, PTL

=============================================================================
