----------------------- MODULE DevCoordinator_proofs -----------------------
(***************************************************************************)
(* For every number of coordinators, callers and changes: builds happen    *)
(* only under the project lock, a successful answer is never older than    *)
(* its question, and close() leaves nothing behind.                        *)
(*                                                                         *)
(* The invariant has three parts: what the builds, their queue and their   *)
(* callers' answers are to each other (BuildInv); whose the lock is        *)
(* (Owning); and at which moments of startup and shutdown a build, a queue *)
(* and a handle of the lock exist together (Staged).                       *)
(***************************************************************************)
EXTENDS DevCoordinator, TLAPS

Types ==
    /\ lock \in Coordinators \cup {None} /\ source \in 0 .. MaxSource
    /\ phase \in [Coordinators -> Phases]
    /\ acquiring \in [Coordinators -> BOOLEAN] /\ recovering \in [Coordinators -> BOOLEAN]
    /\ cancelled \in [Coordinators -> BOOLEAN]
    /\ handle \in [Coordinators -> {"none", "held", "closing", "closed", "leaked"}]
    /\ watcher \in [Coordinators -> {"none", "live", "closing", "closed", "leaked"}]
    /\ dirty \in [Coordinators -> BOOLEAN]
    /\ closing \in [Coordinators -> {"open", "build", "start", "nothing", "releasing", "closed"}]
Watched ==
    /\ flush \in [Coordinators -> [queued : BOOLEAN, read : Signatures]]
    /\ signed \in [Coordinators -> Signatures]
    /\ dropped \in [Coordinators -> BOOLEAN]

\* The callers of the running build and of the queue are those that wait for
\* them; the build has prepared what its callers asked about.
BuildTypes ==
    /\ build \in [Coordinators -> Builds]
    /\ queue \in [Coordinators -> SUBSET Requesters]
    /\ call \in [Coordinators -> Calls]
    /\ attempted \in [Coordinators -> 0 .. MaxSource]
BuildOk(c) ==
    /\ build[c].at = "none" <=> build[c].for = {}
    /\ build[c].for = {} => build[c] = NoBuild
    /\ "start" \in build[c].for => build[c].for = {"start"}
    /\ "start" \notin queue[c]
CallOk(c, r) ==
    /\ r \in build[c].for <=> call[c][r].state = "running"
    /\ r \in queue[c] <=> call[c][r].state = "queued"
    /\ call[c][r].asked <= source
    /\ r # "start" =>
         /\ r \in build[c].for =>
              IF build[c].at = "prepare" THEN build[c].from >= call[c][r].asked
                                         ELSE attempted[c] >= call[c][r].asked
         /\ call[c][r].state = "succeeded" => call[c][r].got >= call[c][r].asked
BuildInv ==
    /\ BuildTypes
    /\ \A c \in Coordinators : BuildOk(c)
    /\ \A c \in Coordinators, r \in Requesters : CallOk(c, r)

\* The handle of the lock and its owner.
Owning ==
    \A c \in Coordinators :
        /\ handle[c] \in {"held", "closing", "leaked"} <=> lock = c
        /\ acquiring[c] => handle[c] = "none" /\ phase[c] \in {"locking", "cleanup", "failed"}
        /\ phase[c] = "new" => handle[c] = "none"

\* How far startup and shutdown let a build, its queue and its resources go.
Staged ==
    \A c \in Coordinators :
        /\ phase[c] \in {"recovering", "reading", "watching"} /\ ~cancelled[c] => handle[c] = "held"
        /\ phase[c] \in {"building", "started"} /\ closing[c] = "open" => handle[c] = "held"
        /\ phase[c] \in Blocked /\ closing[c] # "open" => cancelled[c]
        /\ build[c].for # {} =>
             /\ handle[c] = "held"
             /\ phase[c] \in {"building", "started"} /\ closing[c] \in {"open", "build"}
        /\ queue[c] # {} => build[c].for # {} /\ phase[c] = "started"
        /\ phase[c] = "building" /\ build[c].for # {} => build[c].for = {"start"}
        /\ closing[c] \in {"releasing", "closed"} => watcher[c] # "live" /\ handle[c] # "held"
        /\ closing[c] = "closed" => watcher[c] # "closing"

IInv == Types /\ Watched /\ BuildInv /\ Owning /\ Staged

-----------------------------------------------------------------------------
(* What the operators on calls do *)

\* The given callers are answered, and nothing else changes.
LEMMA AnsweredCalls ==
  ASSUME NEW calls \in Calls, NEW rs \in SUBSET Requesters,
         NEW outcome \in Outcomes, NEW v \in 0 .. MaxSource
  PROVE  /\ Answered(calls, rs, outcome, v) \in Calls
         /\ \A r \in Requesters : LET a == Answered(calls, rs, outcome, v)[r] IN
              /\ r \notin rs => a = calls[r]
              /\ r \in rs =>
                   /\ a.state = outcome /\ a.asked \in {0, calls[r].asked}
                   /\ outcome = "succeeded" => a.got = v /\ a.asked = calls[r].asked
  <1>1. 0 \in 0 .. MaxSource
    BY MaxSourceAssumption
  <1>2. \A r \in Requesters :
          /\ calls[r].asked \in 0 .. MaxSource
          /\ r \in rs /\ outcome = "succeeded" =>
               Answered(calls, rs, outcome, v)[r] =
                 [state |-> outcome, asked |-> calls[r].asked, got |-> v]
          /\ r \in rs /\ outcome # "succeeded" =>
               Answered(calls, rs, outcome, v)[r] = [state |-> outcome, asked |-> 0, got |-> 0]
          /\ r \notin rs => Answered(calls, rs, outcome, v)[r] = calls[r]
    BY DEF Answered, Calls
  <1>3. Answered(calls, rs, outcome, v) \in Calls
    BY <1>1, <1>2 DEF Answered, Calls
  <1>4. ASSUME NEW r \in Requesters
        PROVE  LET a == Answered(calls, rs, outcome, v)[r] IN
                 /\ r \notin rs => a = calls[r]
                 /\ r \in rs =>
                      /\ a.state = outcome /\ a.asked \in {0, calls[r].asked}
                      /\ outcome = "succeeded" => a.got = v /\ a.asked = calls[r].asked
    <2> DEFINE a == Answered(calls, rs, outcome, v)[r]
    <2>1. /\ r \in rs /\ outcome = "succeeded" =>
               a = [state |-> outcome, asked |-> calls[r].asked, got |-> v]
          /\ r \in rs /\ outcome # "succeeded" => a = [state |-> outcome, asked |-> 0, got |-> 0]
          /\ r \notin rs => a = calls[r]
      BY <1>2
    <2> HIDE DEF a
    <2>2. /\ r \notin rs => a = calls[r]
          /\ r \in rs =>
               /\ a.state = outcome /\ a.asked \in {0, calls[r].asked}
               /\ outcome = "succeeded" => a.got = v /\ a.asked = calls[r].asked
      BY <2>1
    <2> QED BY <2>2 DEF a
  <1> QED BY <1>3, <1>4

\* The given callers get a build, and nothing else changes.
LEMMA StartedCalls ==
  ASSUME NEW calls \in Calls, NEW rs \in SUBSET Requesters
  PROVE  /\ Started(calls, rs) \in Calls
         /\ \A r \in Requesters : LET a == Started(calls, rs)[r] IN
              /\ a.state = IF r \in rs THEN "running" ELSE calls[r].state
              /\ a.got = calls[r].got /\ a.asked = calls[r].asked
  BY DEF Started, Calls

\* The given caller asks about the present sources, and nothing else changes.
LEMMA AskedCalls ==
  ASSUME NEW calls \in Calls, NEW r \in Requesters, NEW state \in {"running", "queued"},
         Types
  PROVE  /\ Asked(calls, r, state) \in Calls
         /\ Asked(calls, r, state)[r].state = state
         /\ Asked(calls, r, state)[r].asked = source
         /\ \A q \in Requesters \ {r} : Asked(calls, r, state)[q] = calls[q]
  BY MaxSourceAssumption DEF Asked, Calls, Types

-----------------------------------------------------------------------------
(* What the steps of a build do *)

\* A call of rebuild() is refused, starts a build or joins the queue.
LEMMA RebuildKeeps ==
  ASSUME IInv, NEW c \in Coordinators, NEW r \in Requesters, r # "start", ~Waiting(c, r),
         Rebuild(c, r), UNCHANGED <<source, attempted>>
  PROVE  BuildInv'
  <1> USE DEF IInv, Set
  <1>1. call[c] \in Calls /\ {r} \in SUBSET Requesters /\ "failed" \in Outcomes /\ 0 \in 0 .. MaxSource
    BY MaxSourceAssumption DEF BuildInv, BuildTypes, Outcomes
  <1>2. CASE phase[c] # "started" \/ closing[c] # "open"
    <2> DEFINE next == Answered(call[c], {r}, "failed", 0)
    <2>1. call' = [call EXCEPT ![c] = next] /\ UNCHANGED <<build, queue>>
      BY <1>2 DEF Rebuild
    <2>2. /\ next \in Calls /\ next[r].state = "failed"
          /\ next[r].asked \in {0, call[c][r].asked}
      BY <1>1, AnsweredCalls
    <2>3. \A q \in Requesters \ {r} : next[q] = call[c][q]
      BY <1>1, AnsweredCalls
    <2> HIDE DEF next
    <2>4. call'[c] = next /\ \A d \in Coordinators \ {c} : call'[d] = call[d]
      BY <2>1 DEF BuildInv, BuildTypes
    <2>5. BuildTypes'
      BY <2>1, <2>2 DEF BuildInv, BuildTypes
    <2>6. 0 <= source /\ source' = source
      BY MaxSourceAssumption DEF Types
    <2> QED BY <2>1, <2>2, <2>3, <2>4, <2>5, <2>6 DEF BuildInv, BuildOk, CallOk, Waiting
  <1>3. CASE phase[c] = "started" /\ closing[c] = "open" /\ build[c] = NoBuild
    <2> DEFINE next == Asked(call[c], r, "running")
    <2>1. /\ call' = [call EXCEPT ![c] = next]
          /\ build' = [build EXCEPT ![c] = NewBuild({r}, FALSE)] /\ UNCHANGED queue
      BY <1>3 DEF Rebuild, StartBuild
    <2>2. /\ next \in Calls /\ next[r].state = "running" /\ next[r].asked = source
          /\ \A q \in Requesters \ {r} : next[q] = call[c][q]
      BY <1>1, AskedCalls
    <2> HIDE DEF next
    <2>3. /\ call'[c] = next /\ \A d \in Coordinators \ {c} : call'[d] = call[d]
          /\ build'[c].for = {r} /\ build'[c].at = "prepare" /\ build'[c].from = source
          /\ UNCHANGED <<queue, attempted>>
          /\ \A d \in Coordinators \ {c} : build'[d] = build[d]
      BY <2>1 DEF BuildInv, BuildTypes, NewBuild
    <2>4. NewBuild({r}, FALSE) \in Builds
      BY DEF Types, Builds, NewBuild
    <2>5. BuildTypes'
      BY <2>1, <2>2, <2>4 DEF BuildInv, BuildTypes
    <2>6. build[c].for = {} /\ source' = source /\ source \in Nat
      BY <1>3, MaxSourceAssumption DEF NoBuild, NewBuild, Types
    <2>7. \A d \in Coordinators : BuildOk(d)'
      <3>1. BuildOk(c)'
        BY <2>3 DEF BuildInv, BuildOk
      <3>2. \A d \in Coordinators \ {c} : BuildOk(d)'
        BY <2>3 DEF BuildInv, BuildOk
      <3> QED BY <3>1, <3>2
    <2>8. \A q \in Requesters : CallOk(c, q)'
      BY <2>2, <2>3, <2>6 DEF BuildInv, CallOk, Waiting
    <2>9. \A d \in Coordinators \ {c}, q \in Requesters : CallOk(d, q)'
      BY <2>1, <2>3, <2>6 DEF BuildInv, CallOk
    <2> QED BY <2>5, <2>7, <2>8, <2>9 DEF BuildInv
  <1>4. CASE phase[c] = "started" /\ closing[c] = "open" /\ build[c] # NoBuild
    <2> DEFINE next == Asked(call[c], r, "queued")
    <2>1. /\ call' = [call EXCEPT ![c] = next]
          /\ queue' = [queue EXCEPT ![c] = queue[c] \cup {r}] /\ UNCHANGED build
      BY <1>4 DEF Rebuild
    <2>2. /\ next \in Calls /\ next[r].state = "queued" /\ next[r].asked = source
          /\ \A q \in Requesters \ {r} : next[q] = call[c][q]
      BY <1>1, AskedCalls
    <2> HIDE DEF next
    <2>3. /\ call'[c] = next /\ \A d \in Coordinators \ {c} : call'[d] = call[d]
          /\ queue'[c] = queue[c] \cup {r}
          /\ \A d \in Coordinators \ {c} : queue'[d] = queue[d]
      BY <2>1 DEF BuildInv, BuildTypes
    <2>4. BuildTypes'
      BY <2>1, <2>2 DEF BuildInv, BuildTypes
    <2>5. source' = source /\ source \in Nat
      BY MaxSourceAssumption DEF Types
    <2> QED BY <2>1, <2>2, <2>3, <2>4, <2>5 DEF BuildInv, BuildOk, CallOk, Waiting
  <1> QED BY <1>2, <1>3, <1>4

\* A build settles, and the follow-up starts.
LEMMA FinishKeeps ==
  ASSUME IInv, NEW c \in Coordinators, NEW outcome \in Outcomes,
         build[c].for # {}, UNCHANGED source, attempted' \in [Coordinators -> 0 .. MaxSource],
         \A d \in Coordinators \ {c} : attempted'[d] = attempted[d],
         \A r \in build[c].for \ {"start"} : attempted'[c] >= call[c][r].asked,
         Finish(c, outcome)
  PROVE  BuildInv'
  <1> DEFINE answered == Answered(call[c], build[c].for, Answer(c, outcome), attempted'[c])
             next == Started(answered, queue[c])
  <1> USE DEF IInv, Set
  <1>1. /\ call[c] \in Calls /\ build[c].for \in SUBSET Requesters
        /\ queue[c] \in SUBSET Requesters /\ attempted'[c] \in 0 .. MaxSource
    BY DEF BuildInv, BuildTypes, Builds
  <1>0. Answer(c, outcome) \in Outcomes
    BY DEF Answer, Outcomes
  <1>2. /\ answered \in Calls
        /\ \A r \in Requesters :
             /\ r \notin build[c].for => answered[r] = call[c][r]
             /\ r \in build[c].for =>
                  /\ answered[r].state = Answer(c, outcome)
                  /\ answered[r].asked \in {0, call[c][r].asked}
                  /\ Answer(c, outcome) = "succeeded" =>
                       answered[r].got = attempted'[c] /\ answered[r].asked = call[c][r].asked
    <2> DEFINE o == Answer(c, outcome)  v == attempted'[c]
    <2>1. o \in Outcomes /\ v \in 0 .. MaxSource
      BY <1>0, <1>1
    <2> HIDE DEF o, v
    <2> DEFINE all == Answered(call[c], build[c].for, o, v)
    <2>2. all \in Calls
      BY <1>1, <2>1, AnsweredCalls
    <2>3. ASSUME NEW r \in Requesters
          PROVE  /\ r \notin build[c].for => all[r] = call[c][r]
                 /\ r \in build[c].for =>
                      /\ all[r].state = o /\ all[r].asked \in {0, call[c][r].asked}
                      /\ o = "succeeded" => all[r].got = v /\ all[r].asked = call[c][r].asked
      BY <1>1, <2>1, AnsweredCalls
    <2> QED BY <2>2, <2>3 DEF o, v
  <1>3. /\ next \in Calls
        /\ \A r \in Requesters :
             /\ next[r].state = IF r \in queue[c] THEN "running" ELSE answered[r].state
             /\ next[r].got = answered[r].got /\ next[r].asked = answered[r].asked
    BY <1>1, <1>2, StartedCalls
  <1>4. /\ call' = [call EXCEPT ![c] = next]
        /\ queue' = [queue EXCEPT ![c] = {}]
        /\ build' = [build EXCEPT ![c] = IF queue[c] = {} THEN NoBuild
                                         ELSE NewBuild(queue[c], TRUE)]
    BY DEF Finish
  <1> HIDE DEF answered, next
  <1>5. BuildTypes'
    <2>1. NoBuild \in Builds /\ NewBuild(queue[c], TRUE) \in Builds
      BY <1>1, MaxSourceAssumption DEF Builds, NoBuild, NewBuild, Types
    <2> QED BY <1>1, <1>3, <1>4, <2>1 DEF BuildInv, BuildTypes
  <1>6. \A d \in Coordinators : BuildOk(d)'
    BY <1>4 DEF BuildInv, BuildTypes, BuildOk, NoBuild, NewBuild
  <1>9. /\ call'[c] = next /\ queue'[c] = {} /\ build'[c].for = queue[c]
        /\ queue[c] # {} => build'[c].at = "prepare" /\ build'[c].from = source
        /\ 0 <= source /\ source' = source
    BY <1>4, MaxSourceAssumption DEF BuildInv, BuildTypes, Types, NoBuild, NewBuild
  <1>7. \A r \in Requesters : CallOk(c, r)'
    BY <1>0, <1>1, <1>2, <1>3, <1>9 DEF BuildInv, BuildOk, CallOk, Outcomes
  <1>8. \A d \in Coordinators \ {c}, r \in Requesters : CallOk(d, r)'
    BY <1>4 DEF BuildInv, BuildTypes, CallOk
  <1> QED BY <1>5, <1>6, <1>7, <1>8 DEF BuildInv

\* A build goes on to its next step.
LEMMA AdvanceKeeps ==
  ASSUME IInv, NEW c \in Coordinators, NEW at \in {"check", "artifact", "package"},
         build[c].for # {}, UNCHANGED source, attempted' \in [Coordinators -> 0 .. MaxSource],
         \A d \in Coordinators \ {c} : attempted'[d] = attempted[d],
         \A r \in build[c].for \ {"start"} : attempted'[c] >= call[c][r].asked,
         Advance(c, at)
  PROVE  BuildInv'
  <1> USE DEF IInv
  <1> DEFINE next == [at |-> at, for |-> build[c].for, follows |-> build[c].follows, from |-> 0]
  <1>1. build' = [build EXCEPT ![c] = next] /\ UNCHANGED <<queue, call>>
    BY DEF Advance, Set
  <1>2. next \in Builds /\ next.at = at /\ next.for = build[c].for
    BY MaxSourceAssumption DEF BuildInv, BuildTypes, Builds
  <1> HIDE DEF next
  <1>4. BuildTypes'
    BY <1>1, <1>2 DEF BuildInv, BuildTypes
  <1>5. /\ build'[c].at = at /\ build'[c].for = build[c].for
        /\ \A d \in Coordinators \ {c} : build'[d] = build[d]
    BY <1>1, <1>2 DEF BuildInv, BuildTypes
  <1>6. \A d \in Coordinators : BuildOk(d)'
    BY <1>1, <1>5 DEF BuildInv, BuildOk
  <1>7. \A r \in Requesters : CallOk(c, r)'
    BY <1>1, <1>5 DEF BuildInv, CallOk
  <1>8. \A d \in Coordinators \ {c}, r \in Requesters : CallOk(d, r)'
    BY <1>1, <1>5 DEF BuildInv, CallOk
  <1> QED BY <1>4, <1>6, <1>7, <1>8 DEF BuildInv

\* Steps that touch no build, and at most change the sources.
LEMMA OthersKeep ==
  ASSUME IInv, UNCHANGED builds, source \in Nat, source' \in Nat, source' >= source
  PROVE  BuildInv'
  <1>1. BuildTypes' /\ \A c \in Coordinators : BuildOk(c)'
    BY DEF IInv, BuildInv, BuildTypes, BuildOk, builds
  <1>2. \A c \in Coordinators, r \in Requesters : call[c][r].asked \in Nat
    BY MaxSourceAssumption DEF IInv, BuildInv, BuildTypes, Calls
  <1>3. \A c \in Coordinators, r \in Requesters : CallOk(c, r)'
    BY <1>2 DEF IInv, BuildInv, CallOk, builds
  <1> QED BY <1>1, <1>3 DEF BuildInv

\* The initial rebuild is the only build while start() runs.
LEMMA ReadyKeeps ==
  ASSUME IInv, NEW c \in Coordinators, Ready(c)
  PROVE  BuildInv'
  <1> USE DEF IInv, Set
  <1>1. CASE UNCHANGED <<call, build>>
    BY <1>1, OthersKeep, MaxSourceAssumption DEF Ready, builds, world, Types
  <1>2. CASE call' = Set(call, c, Asked(call[c], "start", "running")) /\ StartBuild(c, {"start"})
    <2> DEFINE next == Asked(call[c], "start", "running")
    <2>1. /\ call' = [call EXCEPT ![c] = next]
          /\ build' = [build EXCEPT ![c] = NewBuild({"start"}, FALSE)]
          /\ UNCHANGED <<source, queue, attempted>>
      BY <1>2 DEF Ready, StartBuild, world
    <2>2. build[c].for = {} /\ queue[c] = {} /\ source \in Nat /\ call[c] \in Calls
      BY <1>2, MaxSourceAssumption DEF Ready, Staged, Types, BuildInv, BuildTypes
    <2>3. /\ next \in Calls /\ next["start"].state = "running" /\ next["start"].asked = source
          /\ \A q \in Requesters \ {"start"} : next[q] = call[c][q]
      BY <2>2, AskedCalls DEF Requesters
    <2> HIDE DEF next
    <2>4. /\ call'[c] = next /\ \A d \in Coordinators \ {c} : call'[d] = call[d]
          /\ build'[c].for = {"start"} /\ build'[c].at = "prepare"
          /\ UNCHANGED <<source, queue, attempted>>
          /\ \A d \in Coordinators \ {c} : build'[d] = build[d]
      BY <2>1 DEF BuildInv, BuildTypes, NewBuild
    <2>5. NewBuild({"start"}, FALSE) \in Builds
      BY DEF Types, Builds, NewBuild, Requesters
    <2>6. BuildTypes'
      BY <2>1, <2>3, <2>5 DEF BuildInv, BuildTypes
    <2>7. \A d \in Coordinators : BuildOk(d)'
      <3>1. BuildOk(c)'
        BY <2>2, <2>4 DEF BuildInv, BuildOk
      <3>2. \A d \in Coordinators \ {c} : BuildOk(d)'
        BY <2>4 DEF BuildInv, BuildOk
      <3> QED BY <3>1, <3>2
    <2>8. \A q \in Requesters : CallOk(c, q)'
      BY <2>2, <2>3, <2>4 DEF BuildInv, CallOk
    <2>9. \A d \in Coordinators \ {c}, q \in Requesters : CallOk(d, q)'
      BY <2>1, <2>2, <2>4 DEF BuildInv, CallOk
    <2> QED BY <2>6, <2>7, <2>8, <2>9 DEF BuildInv
  <1> QED BY <1>1, <1>2 DEF Ready

\* close() answers the queue.
LEMMA CloseKeeps ==
  ASSUME IInv, NEW c \in Coordinators, Close(c)
  PROVE  BuildInv'
  <1> DEFINE next == Answered(call[c], queue[c], "failed", 0)
  <1> USE DEF IInv, Set
  <1>1. /\ call' = [call EXCEPT ![c] = next] /\ queue' = [queue EXCEPT ![c] = {}]
        /\ UNCHANGED <<source, build, attempted>>
    BY DEF Close, world
  <1>2. /\ call[c] \in Calls /\ queue[c] \in SUBSET Requesters
        /\ "failed" \in Outcomes /\ 0 \in 0 .. MaxSource
    BY MaxSourceAssumption DEF BuildInv, BuildTypes, Outcomes
  <1>3. /\ next \in Calls
        /\ \A r \in Requesters :
             /\ r \notin queue[c] => next[r] = call[c][r]
             /\ r \in queue[c] =>
                  next[r].state = "failed" /\ next[r].asked \in {0, call[c][r].asked}
    BY <1>2, AnsweredCalls
  <1> HIDE DEF next
  <1>4. /\ call'[c] = next /\ \A d \in Coordinators \ {c} : call'[d] = call[d]
        /\ queue'[c] = {} /\ \A d \in Coordinators \ {c} : queue'[d] = queue[d]
    BY <1>1 DEF BuildInv, BuildTypes
  <1>5. BuildTypes'
    BY <1>1, <1>3 DEF BuildInv, BuildTypes
  <1>6. \A d \in Coordinators : BuildOk(d)'
    BY <1>1, <1>4 DEF BuildInv, BuildOk
  <1>8. 0 <= source
    BY MaxSourceAssumption DEF Types
  <1>7. \A d \in Coordinators, r \in Requesters : CallOk(d, r)'
    BY <1>1, <1>3, <1>4, <1>8 DEF BuildInv, CallOk
  <1> QED BY <1>5, <1>6, <1>7 DEF BuildInv

\* What a build, and a call of rebuild(), make of the callers in hand.
Handed(c) ==
    /\ \A d \in Coordinators \ {c} : build'[d] = build[d] /\ queue'[d] = queue[d]
    /\ \/ build'[c].for = build[c].for /\ queue'[c] = queue[c]
       \/ build'[c].for = queue[c] /\ queue'[c] = {}
\* A step of a build keeps its callers, or hands over to those in the queue.
LEMMA BuildHands ==
  ASSUME IInv, NEW c \in Coordinators, NEW at, NEW outcome,
         Advance(c, at) \/ Finish(c, outcome)
  PROVE  Handed(c)
  <1> USE DEF IInv, BuildInv, BuildTypes, Builds, Handed
  <1>1. CASE Advance(c, at)
    BY <1>1 DEF Advance, Set
  <1>2. CASE Finish(c, outcome) /\ queue[c] = {}
    <2>1. build' = [build EXCEPT ![c] = NoBuild] /\ queue' = [queue EXCEPT ![c] = {}]
      BY <1>2 DEF Finish, Set
    <2> QED BY <1>2, <2>1 DEF NoBuild, NewBuild
  <1>3. CASE Finish(c, outcome) /\ queue[c] # {}
    <2>1. /\ build' = [build EXCEPT ![c] = NewBuild(queue[c], TRUE)]
          /\ queue' = [queue EXCEPT ![c] = {}]
      BY <1>3 DEF Finish, Set
    <2> QED BY <1>3, <2>1 DEF NewBuild
  <1> QED BY <1>1, <1>2, <1>3

Taken(c) ==
    /\ \A d \in Coordinators \ {c} : build'[d] = build[d] /\ queue'[d] = queue[d]
    /\ \/ build' = build /\ queue' = queue
       \/ /\ phase[c] = "started" /\ closing[c] = "open"
          /\ build'[c].for # {}
          /\ build[c].for = {} => queue'[c] = queue[c]
\* A call of rebuild() changes nothing, or is taken by a session that is up.
LEMMA RebuildTakes ==
  ASSUME IInv, NEW c \in Coordinators, NEW r \in Requesters, Rebuild(c, r)
  PROVE  Taken(c)
  <1> USE DEF IInv, BuildInv, BuildTypes, Builds, Taken
  <1>1. CASE phase[c] # "started" \/ closing[c] # "open"
    BY <1>1 DEF Rebuild
  <1>2. CASE phase[c] = "started" /\ closing[c] = "open" /\ build[c] = NoBuild
    <2>1. build' = [build EXCEPT ![c] = NewBuild({r}, FALSE)] /\ UNCHANGED queue
      BY <1>2 DEF Rebuild, StartBuild, Set
    <2> QED BY <1>2, <2>1 DEF NewBuild
  <1>3. CASE phase[c] = "started" /\ closing[c] = "open" /\ build[c] # NoBuild
    <2>1. UNCHANGED build /\ queue' = [queue EXCEPT ![c] = queue[c] \cup {r}]
      BY <1>3 DEF Rebuild, Set
    <2>2. build[c].for # {}
      BY <1>3 DEF BuildOk, NoBuild, NewBuild
    <2> QED BY <1>3, <2>1, <2>2
  <1> QED BY <1>1, <1>2, <1>3

-----------------------------------------------------------------------------
(* The invariant *)

\* The invariant holds at the start.
LEMMA InitInv == Init => IInv
  <1> SUFFICES ASSUME Init PROVE IInv
    OBVIOUS
  <1> USE NoneAssumption, MaxSourceAssumption DEF Init
  <1>1. NoBuild \in Builds /\ [r \in Requesters |-> NoCall] \in Calls
    BY DEF NoBuild, NewBuild, NoCall, Builds, Calls
  <1>2. Types /\ Watched
    BY DEF Types, Watched, Signatures, NoFlush, Unsigned, Phases
  <1>3. BuildInv
    BY <1>1 DEF BuildInv, BuildTypes, BuildOk, CallOk, NoBuild, NewBuild, NoCall
  <1>4. Owning /\ Staged
    BY DEF Owning, Staged, NoBuild, NewBuild, Blocked
  <1> QED BY <1>2, <1>3, <1>4 DEF IInv

\* Every step keeps the invariant.
LEMMA NextInv == IInv /\ [Next]_vars => IInv'
  <1> SUFFICES ASSUME IInv, [Next]_vars PROVE IInv'
    OBVIOUS
  <1> USE NoneAssumption, CallersAssumption, MaxSourceAssumption
      DEF IInv, world, startup, owned, changes, builds, Set
  <1>1. ASSUME NEW c \in Coordinators, Start(c) PROVE IInv'
    <2>1. Types'
      BY <1>1 DEF Start, Types, Phases, Blocked
    <2>2. BuildInv'
      BY <1>1, OthersKeep DEF Start, Types
    <2>3. Owning'
      BY <1>1 DEF Start, Types, Owning, Staged, Blocked
    <2>4. Staged'
      BY <1>1 DEF Start, Types, Owning, Staged, Blocked
    <2>9. Watched'
      BY <1>1 DEF Start, Watched
    <2> QED BY <2>1, <2>2, <2>3, <2>4, <2>9
  <1>2. ASSUME NEW c \in Coordinators, AcquireLock(c) PROVE IInv'
    <2>1. Types'
      BY <1>2 DEF AcquireLock, Types, Phases, Blocked
    <2>2. BuildInv'
      BY <1>2, OthersKeep DEF AcquireLock, Types
    <2>3. Owning'
      BY <1>2 DEF AcquireLock, Types, Owning, Staged, Blocked
    <2>4. Staged'
      BY <1>2 DEF AcquireLock, Types, Owning, Staged, Blocked
    <2>9. Watched'
      BY <1>2 DEF AcquireLock, Watched
    <2> QED BY <2>1, <2>2, <2>3, <2>4, <2>9
  <1>3. ASSUME NEW c \in Coordinators, Recovered(c) PROVE IInv'
    <2>1. Types'
      BY <1>3 DEF Recovered, Types, Phases, Blocked
    <2>2. BuildInv'
      BY <1>3, OthersKeep DEF Recovered, Types
    <2>3. Owning'
      BY <1>3 DEF Recovered, Types, Owning, Staged, Blocked
    <2>4. Staged'
      BY <1>3 DEF Recovered, Types, Owning, Staged, Blocked
    <2>9. Watched'
      BY <1>3 DEF Recovered, Watched
    <2> QED BY <2>1, <2>2, <2>3, <2>4, <2>9
  <1>4. ASSUME NEW c \in Coordinators, Read(c) PROVE IInv'
    <2>1. Types'
      BY <1>4 DEF Read, Types, Phases, Blocked
    <2>2. BuildInv'
      BY <1>4, OthersKeep DEF Read, Types
    <2>3. Owning'
      BY <1>4 DEF Read, Types, Owning, Staged, Blocked
    <2>4. Staged'
      BY <1>4 DEF Read, Types, Owning, Staged, Blocked
    <2>9. Watched'
      BY <1>4 DEF Read, Watched
    <2> QED BY <2>1, <2>2, <2>3, <2>4, <2>9
  <1>5. ASSUME NEW c \in Coordinators, Initial(c) PROVE IInv'
    <2>1. Types'
      BY <1>5 DEF Initial, Waiting, Types, Phases, Blocked
    <2>2. BuildInv'
      BY <1>5, OthersKeep DEF Initial, Waiting, Types
    <2>5. build[c].for = {}
      BY <1>5 DEF Initial, Waiting, Staged, BuildInv, CallOk, Requesters
    <2>3. Owning'
      BY <1>5 DEF Initial, Waiting, Types, Owning, Staged, Blocked
    <2>4. Staged'
      BY <1>5, <2>5 DEF Initial, Types, Owning, Staged, Blocked
    <2>9. Watched'
      BY <1>5 DEF Initial, Watched
    <2> QED BY <2>1, <2>2, <2>3, <2>4, <2>9
  <1>6. ASSUME NEW c \in Coordinators, Cancel(c) PROVE IInv'
    <2>1. Types'
      BY <1>6 DEF Cancel, Types, Phases, Blocked
    <2>2. BuildInv'
      BY <1>6, OthersKeep DEF Cancel, Types
    <2>3. Owning'
      BY <1>6 DEF Cancel, Types, Owning, Staged, Blocked
    <2>4. Staged'
      BY <1>6 DEF Cancel, Types, Owning, Staged, Blocked
    <2>9. Watched'
      BY <1>6 DEF Cancel, Watched
    <2> QED BY <2>1, <2>2, <2>3, <2>4, <2>9
  <1>7. ASSUME NEW c \in Coordinators, CloseWatcher(c) PROVE IInv'
    <2>1. Types'
      BY <1>7 DEF CloseWatcher, Waiting, Types, Phases, Blocked
    <2>2. BuildInv'
      BY <1>7, OthersKeep DEF CloseWatcher, Waiting, Types
    <2>3. Owning'
      BY <1>7 DEF CloseWatcher, Waiting, Types, Owning, Staged, Blocked
    <2>4. Staged'
      BY <1>7 DEF CloseWatcher, Waiting, Types, Owning, Staged, Blocked
    <2>9. Watched'
      BY <1>7 DEF CloseWatcher, Watched
    <2> QED BY <2>1, <2>2, <2>3, <2>4, <2>9
  <1>8. ASSUME NEW c \in Coordinators, CloseLock(c) PROVE IInv'
    <2>1. Types'
      BY <1>8 DEF CloseLock, Types, Phases, Blocked
    <2>2. BuildInv'
      BY <1>8, OthersKeep DEF CloseLock, Types
    <2>3. Owning'
      BY <1>8 DEF CloseLock, Types, Owning, Staged, Blocked
    <2>4. Staged'
      BY <1>8 DEF CloseLock, Types, Owning, Staged, Blocked
    <2>9. Watched'
      BY <1>8 DEF CloseLock, Watched
    <2> QED BY <2>1, <2>2, <2>3, <2>4, <2>9
  <1>9. ASSUME NEW c \in Coordinators, Cleanup(c) PROVE IInv'
    <2>1. Types'
      BY <1>9 DEF Cleanup, Releases, Released, Types, Phases, Blocked
    <2>2. BuildInv'
      BY <1>9, OthersKeep DEF Cleanup, Releases, Released, Types
    <2>3. Owning'
      BY <1>9 DEF Cleanup, Releases, Released, Types, Owning, Staged, Blocked
    <2>4. Staged'
      BY <1>9 DEF Cleanup, Releases, Released, Types, Owning, Staged, Blocked
    <2>9. Watched'
      BY <1>9 DEF Cleanup, Releases, Watched
    <2> QED BY <2>1, <2>2, <2>3, <2>4, <2>9
  <1>10. ASSUME NEW c \in Coordinators, CloseReleases(c) PROVE IInv'
    <2>1. Types'
      BY <1>10 DEF CloseReleases, Releases, NoBuild, NewBuild, Types, Phases, Blocked
    <2>2. BuildInv'
      BY <1>10, OthersKeep DEF CloseReleases, Releases, NoBuild, NewBuild, Types
    <2>3. Owning'
      BY <1>10 DEF CloseReleases, Releases, NoBuild, NewBuild, Types, Owning, Staged, Blocked
    <2>4. Staged'
      BY <1>10 DEF CloseReleases, Releases, NoBuild, NewBuild, Types, Owning, Staged, Blocked
    <2>9. Watched'
      BY <1>10 DEF CloseReleases, Releases, Watched
    <2> QED BY <2>1, <2>2, <2>3, <2>4, <2>9
  <1>11. ASSUME NEW c \in Coordinators, Closed(c) PROVE IInv'
    <2>1. Types'
      BY <1>11 DEF Closed, Released, Types, Phases, Blocked
    <2>2. BuildInv'
      BY <1>11, OthersKeep DEF Closed, Released, Types
    <2>3. Owning'
      BY <1>11 DEF Closed, Released, Types, Owning, Staged, Blocked
    <2>4. Staged'
      BY <1>11 DEF Closed, Released, Types, Owning, Staged, Blocked
    <2>9. Watched'
      BY <1>11 DEF Closed, Watched
    <2> QED BY <2>1, <2>2, <2>3, <2>4, <2>9
  <1>12. ASSUME NEW c \in Coordinators, Ready(c) PROVE IInv'
    <2>1. Types'
      BY <1>12 DEF Ready, StartBuild, Types, Phases, Blocked
    <2>2. BuildInv'
      BY <1>12, ReadyKeeps
    <2>3. Owning'
      BY <1>12 DEF Ready, StartBuild, NewBuild, Types, Owning, Staged, Blocked
    <2>4. Staged'
      BY <1>12 DEF Ready, StartBuild, NewBuild, BuildInv, BuildTypes, BuildOk, Types, Owning, Staged, Blocked
    <2>9. Watched'
      BY <1>12 DEF Ready, Watched
    <2> QED BY <2>1, <2>2, <2>3, <2>4, <2>9
  <1>13. ASSUME NEW c \in Coordinators, Close(c) PROVE IInv'
    <2>1. Types'
      BY <1>13 DEF Close, Releases, NoBuild, NewBuild, Types, Phases, Blocked
    <2>2. BuildInv'
      BY <1>13, CloseKeeps
    <2>5. /\ build[c] # NoBuild <=> build[c].for # {}
          /\ queue'[c] = {} /\ \A d \in Coordinators \ {c} : queue'[d] = queue[d]
      BY <1>13 DEF Close, BuildInv, BuildTypes, BuildOk, Builds, NoBuild, NewBuild
    <2>3. Owning'
      BY <1>13 DEF Close, Releases, NoBuild, NewBuild, Types, Owning, Staged, Blocked
    <2>4. Staged'
      <3>1. CASE build[c] = NoBuild /\ phase[c] \notin {"new", "started"}
        BY <1>13, <2>5, <3>1 DEF Close, Releases, Types, Owning, Staged, Blocked
      <3>2. CASE ~(build[c] = NoBuild /\ phase[c] \notin {"new", "started"})
        BY <1>13, <2>5, <3>2 DEF Close, owned, Types, Owning, Staged, Blocked
      <3> QED BY <3>1, <3>2
    <2>9. Watched'
      BY <1>13 DEF Close, Releases, Watched
    <2> QED BY <2>1, <2>2, <2>3, <2>4, <2>9
  <1>14. ASSUME NEW c \in Coordinators, Prepare(c) PROVE IInv'
    <2>1. Types'
      BY <1>14 DEF Prepare, Advance, Finish, NoBuild, NewBuild, Types, Phases, Blocked
    <2>2. BuildInv'
      <3>1. /\ build[c].for # {} /\ UNCHANGED source
            /\ attempted' \in [Coordinators -> 0 .. MaxSource]
            /\ \A d \in Coordinators \ {c} : attempted'[d] = attempted[d]
            /\ \A r \in build[c].for \ {"start"} : attempted'[c] >= call[c][r].asked
        <4>1. PICK v \in 0 .. source :
                /\ v < build[c].from => "start" \in build[c].for
                /\ attempted' = [attempted EXCEPT ![c] = v]
          BY <1>14 DEF Prepare, Set
        <4>2. build[c].for # {} /\ source' = source
          BY <1>14 DEF Prepare, world, BuildInv, BuildOk
        <4>3. /\ attempted' \in [Coordinators -> 0 .. MaxSource] /\ attempted'[c] = v
              /\ \A d \in Coordinators \ {c} : attempted'[d] = attempted[d]
          BY <4>1 DEF Types, BuildInv, BuildTypes
        <4>4. ASSUME NEW r \in build[c].for \ {"start"} PROVE attempted'[c] >= call[c][r].asked
          <5>1. r \in Requesters /\ call[c][r].asked \in Nat /\ build[c].from \in Nat
            BY MaxSourceAssumption DEF BuildInv, BuildTypes, Builds, Calls
          <5>2. build[c].from >= call[c][r].asked
            BY <1>14, <5>1 DEF Prepare, BuildInv, CallOk
          <5>3. v >= build[c].from /\ v \in Nat
            BY <4>1, <5>1, MaxSourceAssumption DEF BuildInv, BuildOk, Types
          <5> QED BY <4>3, <5>1, <5>2, <5>3
        <4> QED BY <4>2, <4>3, <4>4
      <3>2. CASE Advance(c, "check")
        BY <3>1, <3>2, AdvanceKeeps
      <3>3. CASE Finish(c, "failed")
        BY <3>1, <3>3, FinishKeeps DEF Outcomes
      <3> QED BY <1>14, <3>2, <3>3 DEF Prepare
    <2>5. build[c].for # {} /\ Handed(c)
      BY <1>14, BuildHands DEF Prepare, BuildInv, BuildOk
    <2>3. Owning'
      BY <1>14 DEF Prepare, Advance, Finish, NoBuild, NewBuild, Types, Owning, Staged, Blocked
    <2>4. Staged'
      BY <1>14, <2>5 DEF Prepare, Handed, BuildInv, BuildOk, Types, Owning, Staged, Blocked
    <2>9. Watched'
      BY <1>14 DEF Prepare, Watched
    <2> QED BY <2>1, <2>2, <2>3, <2>4, <2>9
  <1>15. ASSUME NEW c \in Coordinators, Check(c) PROVE IInv'
    <2>1. Types'
      BY <1>15 DEF Check, Advance, Finish, NoBuild, NewBuild, Types, Phases, Blocked
    <2>2. BuildInv'
      <3>1. /\ build[c].for # {} /\ UNCHANGED source
            /\ attempted' \in [Coordinators -> 0 .. MaxSource]
            /\ \A d \in Coordinators \ {c} : attempted'[d] = attempted[d]
            /\ \A r \in build[c].for \ {"start"} : attempted'[c] >= call[c][r].asked
        BY <1>15 DEF Check, Types, BuildInv, BuildTypes, BuildOk, CallOk, Builds
      <3>2. CASE Advance(c, "artifact")
        BY <3>1, <3>2, AdvanceKeeps
      <3>3. CASE Finish(c, "failed")
        BY <3>1, <3>3, FinishKeeps DEF Outcomes
      <3> QED BY <1>15, <3>2, <3>3 DEF Check
    <2>5. build[c].for # {} /\ Handed(c)
      BY <1>15, BuildHands DEF Check, BuildInv, BuildOk
    <2>3. Owning'
      BY <1>15 DEF Check, Advance, Finish, NoBuild, NewBuild, Types, Owning, Staged, Blocked
    <2>4. Staged'
      BY <1>15, <2>5 DEF Check, Handed, BuildInv, BuildOk, Types, Owning, Staged, Blocked
    <2>9. Watched'
      BY <1>15 DEF Check, Watched
    <2> QED BY <2>1, <2>2, <2>3, <2>4, <2>9
  <1>16. ASSUME NEW c \in Coordinators, Artifact(c) PROVE IInv'
    <2>1. Types'
      BY <1>16 DEF Artifact, Advance, Finish, NoBuild, NewBuild, Types, Phases, Blocked
    <2>2. BuildInv'
      <3>1. /\ build[c].for # {} /\ UNCHANGED source
            /\ attempted' \in [Coordinators -> 0 .. MaxSource]
            /\ \A d \in Coordinators \ {c} : attempted'[d] = attempted[d]
            /\ \A r \in build[c].for \ {"start"} : attempted'[c] >= call[c][r].asked
        BY <1>16 DEF Artifact, Types, BuildInv, BuildTypes, BuildOk, CallOk, Builds
      <3>2. CASE Advance(c, "package")
        BY <3>1, <3>2, AdvanceKeeps
      <3>3. CASE Finish(c, "failed")
        BY <3>1, <3>3, FinishKeeps DEF Outcomes
      <3> QED BY <1>16, <3>2, <3>3 DEF Artifact
    <2>5. build[c].for # {} /\ Handed(c)
      BY <1>16, BuildHands DEF Artifact, BuildInv, BuildOk
    <2>3. Owning'
      BY <1>16 DEF Artifact, Advance, Finish, NoBuild, NewBuild, Types, Owning, Staged, Blocked
    <2>4. Staged'
      BY <1>16, <2>5 DEF Artifact, Handed, BuildInv, BuildOk, Types, Owning, Staged, Blocked
    <2>9. Watched'
      BY <1>16 DEF Artifact, Watched
    <2> QED BY <2>1, <2>2, <2>3, <2>4, <2>9
  <1>17. ASSUME NEW c \in Coordinators, Package(c) PROVE IInv'
    <2>1. Types'
      BY <1>17 DEF Package, Finish, NoBuild, NewBuild, Types, Phases, Blocked
    <2>2. BuildInv'
      <3>1. /\ build[c].for # {} /\ UNCHANGED source
            /\ attempted' \in [Coordinators -> 0 .. MaxSource]
            /\ \A d \in Coordinators \ {c} : attempted'[d] = attempted[d]
            /\ \A r \in build[c].for \ {"start"} : attempted'[c] >= call[c][r].asked
        BY <1>17 DEF Package, Types, BuildInv, BuildTypes, BuildOk, CallOk, Builds
      <3>2. CASE Finish(c, "succeeded")
        BY <3>1, <3>2, FinishKeeps DEF Outcomes
      <3>3. CASE Finish(c, "rejected")
        BY <3>1, <3>3, FinishKeeps DEF Outcomes
      <3> QED BY <1>17, <3>2, <3>3 DEF Package
    <2>5. build[c].for # {} /\ Handed(c)
      BY <1>17, BuildHands DEF Package, BuildInv, BuildOk
    <2>3. Owning'
      BY <1>17 DEF Package, Finish, NoBuild, NewBuild, Types, Owning, Staged, Blocked
    <2>4. Staged'
      BY <1>17, <2>5 DEF Package, Handed, BuildInv, BuildOk, Types, Owning, Staged, Blocked
    <2>9. Watched'
      BY <1>17 DEF Package, Watched
    <2> QED BY <2>1, <2>2, <2>3, <2>4, <2>9
  <1>18. ASSUME NEW c \in Coordinators, Deliver(c) PROVE IInv'
    <2>1. Types'
      BY <1>18 DEF Deliver, Rebuild, StartBuild, NoBuild, NewBuild, Types, Phases, Blocked
    <2>0. /\ "watcher" \in Requesters /\ "watcher" # "start" /\ ~Waiting(c, "watcher")
          /\ UNCHANGED <<source, attempted>>
          /\ Rebuild(c, "watcher") \/ UNCHANGED <<build, queue, call>>
      BY <1>18 DEF Deliver, Requesters
    <2>2. BuildInv'
      <3>1. CASE Rebuild(c, "watcher")
        BY <2>0, <3>1, RebuildKeeps
      <3>2. CASE UNCHANGED <<build, queue, call>>
        BY <2>0, <3>2, OthersKeep DEF Types
      <3> QED BY <2>0, <3>1, <3>2
    <2>5. Taken(c)
      <3>1. CASE Rebuild(c, "watcher")
        BY <2>0, <3>1, RebuildTakes
      <3>2. CASE UNCHANGED <<build, queue, call>>
        BY <3>2 DEF Taken
      <3> QED BY <2>0, <3>1, <3>2
    <2>3. Owning'
      BY <1>18 DEF Deliver, Types, Owning
    <2>4. Staged'
      BY <1>18, <2>5 DEF Deliver, Taken, Types, Owning, Staged, Blocked
    <2>9. Watched'
      BY <1>18 DEF Deliver, Watched, Signatures, Unsigned
    <2> QED BY <2>1, <2>2, <2>3, <2>4, <2>9
  <1>22. ASSUME NEW c \in Coordinators, Repeat(c) PROVE IInv'
    <2>1. Types'
      BY <1>22 DEF Repeat, Types
    <2>2. BuildInv'
      BY <1>22, OthersKeep DEF Repeat, Types
    <2>3. Owning'
      BY <1>22 DEF Repeat, Owning
    <2>4. Staged'
      BY <1>22 DEF Repeat, Staged
    <2>9. Watched'
      BY <1>22 DEF Repeat, Watched
    <2> QED BY <2>1, <2>2, <2>3, <2>4, <2>9
  <1>23. ASSUME NEW c \in Coordinators, Flush(c) PROVE IInv'
    <2>1. Types'
      BY <1>23 DEF Flush, Types
    <2>2. BuildInv'
      BY <1>23, OthersKeep DEF Flush, Types
    <2>3. Owning'
      BY <1>23 DEF Flush, Owning
    <2>4. Staged'
      BY <1>23 DEF Flush, Staged
    <2>9. Watched'
      BY <1>23 DEF Flush, Watched
    <2> QED BY <2>1, <2>2, <2>3, <2>4, <2>9
  <1>24. ASSUME NEW c \in Coordinators, ReadSignature(c) PROVE IInv'
    <2>1. Types'
      BY <1>24 DEF ReadSignature, Types
    <2>2. BuildInv'
      BY <1>24, OthersKeep DEF ReadSignature, Types
    <2>3. Owning'
      BY <1>24 DEF ReadSignature, Owning
    <2>4. Staged'
      BY <1>24 DEF ReadSignature, Staged
    <2>9. Watched'
      <3>1. source \in Signatures /\ Unsigned \in Signatures
        BY DEF Types, Signatures
      <3>2. PICK read \in Signatures, lost \in BOOLEAN :
              /\ flush' = [flush EXCEPT ![c] = [queued |-> FALSE, read |-> read]]
              /\ dropped' = [dropped EXCEPT ![c] = lost] /\ UNCHANGED signed
        BY <1>24, <3>1 DEF ReadSignature, NoFlush
      <3> QED BY <3>2 DEF Watched
    <2> QED BY <2>1, <2>2, <2>3, <2>4, <2>9
  <1>19. ASSUME NEW c \in Coordinators, NEW r \in Callers, CallRebuild(c, r) PROVE IInv'
    <2>1. Types'
      BY <1>19 DEF CallRebuild, Rebuild, StartBuild, NoBuild, NewBuild, Types, Phases, Blocked
    <2>2. BuildInv'
      <3>1. /\ r \in Requesters /\ r # "start" /\ ~Waiting(c, r)
            /\ Rebuild(c, r) /\ UNCHANGED <<source, attempted>>
        BY <1>19 DEF CallRebuild, Requesters
      <3> QED BY <3>1, RebuildKeeps
    <2>5. Taken(c)
      BY <1>19, RebuildTakes DEF CallRebuild, Requesters
    <2>3. Owning'
      BY <1>19 DEF CallRebuild, Rebuild, StartBuild, NoBuild, NewBuild, Types, Owning, Staged, Blocked
    <2>4. Staged'
      BY <1>19, <2>5 DEF CallRebuild, Taken, Types, Owning, Staged, Blocked
    <2>9. Watched'
      BY <1>19 DEF CallRebuild, Watched
    <2> QED BY <2>1, <2>2, <2>3, <2>4, <2>9
  <1>20. ASSUME Change PROVE IInv'
    <2>1. Types'
      BY <1>20 DEF Change, Types, Phases, Blocked
    <2>2. BuildInv'
      BY <1>20, OthersKeep DEF Change, Types
    <2>3. Owning'
      BY <1>20 DEF Change, Types, Owning, Staged, Blocked
    <2>4. Staged'
      BY <1>20 DEF Change, Types, Owning, Staged, Blocked
    <2>9. Watched'
      BY <1>20 DEF Change, Types, Watched
    <2> QED BY <2>1, <2>2, <2>3, <2>4, <2>9
  <1>21. CASE UNCHANGED vars
    <2>1. BuildInv'
      BY <1>21, OthersKeep DEF vars, Types
    <2> QED BY <1>21, <2>1 DEF vars, Types, Watched, Owning, Staged
  <1> QED
    BY <1>1, <1>2, <1>3, <1>4, <1>5, <1>6, <1>7, <1>8, <1>9, <1>10, <1>11, <1>12, <1>13, <1>14, <1>15, <1>16, <1>17, <1>18, <1>19, <1>20, <1>21, <1>22, <1>23, <1>24
    DEF Next, FlushStep, BuildStep, StartStep, CloseStep

\* The invariant holds in every reachable state.
THEOREM Invariance == Spec => []IInv
  BY InitInv, NextInv, PTL DEF Spec

\* The state keeps its types, and the callers of the running build and of the
\* follow-up are exactly those that wait for them.
THEOREM TypeCorrect == Spec => []TypeOK
  <1>1. IInv => TypeOK
    BY DEF IInv, Types, Watched, BuildInv, BuildTypes, CallOk, TypeOK
  <1> QED BY <1>1, Invariance, PTL

\* Builds, and with them publications, happen only under the project lock, so
\* those of two processes never overlap, whatever is closed meanwhile.
THEOREM BuildsNeverOverlap == Spec => []BuildsUnderLock
  <1>1. IInv => BuildsUnderLock
    <2> SUFFICES ASSUME IInv, NEW c \in Coordinators, build[c] # NoBuild PROVE lock = c
      BY DEF BuildsUnderLock
    <2>1. build[c].for # {}
      BY DEF IInv, BuildInv, BuildTypes, BuildOk, Builds, NoBuild, NewBuild
    <2> QED BY <2>1 DEF IInv, Staged, Owning
  <1> QED BY <1>1, Invariance, PTL

\* rebuild() never answers success for sources older than the call: a call that
\* comes during a build is not answered by that build.
THEOREM AnswersAreFresh == Spec => []FreshAnswers
  <1>1. IInv => FreshAnswers
    BY CallersAssumption DEF IInv, BuildInv, CallOk, FreshAnswers, Requesters
  <1> QED BY <1>1, Invariance, PTL

\* When close() has settled there is no build, no watcher and no lock, but for
\* one that could not be released or came after close() had given up on it.
THEOREM NothingIsLeft == Spec => []CloseLeavesNothing
  <1>1. IInv => CloseLeavesNothing
    <2> SUFFICES ASSUME IInv, NEW c \in Coordinators, closing[c] = "closed"
                 PROVE  /\ build[c] = NoBuild /\ watcher[c] \in {"none", "closed", "leaked"}
                        /\ lock = c => handle[c] \in {"leaked", "closing"}
      BY DEF CloseLeavesNothing
    <2>1. build[c].for = {}
      BY DEF IInv, Staged
    <2>2. build[c] = NoBuild
      BY <2>1 DEF IInv, BuildInv, BuildTypes, BuildOk, Builds, NoBuild, NewBuild
    <2>3. watcher[c] \in {"none", "closed", "leaked"}
      BY DEF IInv, Types, Staged
    <2>4. lock = c => handle[c] \in {"leaked", "closing"}
      BY DEF IInv, Staged, Owning
    <2> QED BY <2>2, <2>3, <2>4
  <1> QED BY <1>1, Invariance, PTL

=============================================================================
