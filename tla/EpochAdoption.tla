--------------------------- MODULE EpochAdoption ---------------------------
(***************************************************************************)
(* Which epoch hosts are served: dev/epoch-adoption-policy.ts, over the    *)
(* catalogue that the epoch store implements (EpochCatalog).               *)
(*                                                                         *)
(* artifact.available makes an epoch the pending candidate.  One drain at  *)
(* a time takes the candidate, runs the contract matrix on it when the     *)
(* project declares one, leases it, checks that it is still the newest,    *)
(* publishes the verdict, adopts it and lets the previous lease go.  Each  *)
(* await of the drain is a step boundary, where new candidates and close() *)
(* come in.                                                                *)
(*                                                                         *)
(* A release that fails (its retention pass did) has released all the      *)
(* same, and the policy ignores the failure; the listeners' own work is    *)
(* not modelled.                                                           *)
(***************************************************************************)
EXTENDS Integers

CONSTANTS
    Ids,            \* epochs, in the order they are published
    None

ASSUME IdsAssumption == Ids \subseteq Nat /\ None \notin Ids

VARIABLES
    (* The store *)
    active, available,
    held,           \* how many leases the policy has on each epoch
    built,          \* the epoch published whose artifact.available is not out yet
    (* The policy *)
    observed, sequence, pending, current, currentLease, evaluation,
    (* #drain, and the #processing promise it settles *)
    drain,          \* "idle" is #processing undefined
    candidate,      \* the local of #drain
    mine,           \* the lease #drain holds for its candidate
    releasing,      \* the lease whose close #drain awaits
    (* close() *)
    closing

store   == <<active, available, held, built>>
policy  == <<observed, sequence, pending, current, currentLease, evaluation>>
drainer == <<drain, candidate, mine, releasing>>
vars    == <<store, policy, drainer, closing>>

\* A candidate is an epoch, whether contracts were declared when it came, and
\* its place in the order of arrival.
NoCandidate == [id |-> None, gated |-> FALSE, sequence |-> 0]
Candidates == {NoCandidate} \cup [id : Ids, gated : BOOLEAN, sequence : Nat \ {0}]

\* #latestEvaluation: undefined, or the verdict on an epoch.
NoEvaluation == [id |-> None, state |-> "none"]
Evaluations == {NoEvaluation} \cup [id : Ids, state : {"passed", "failed"}]

closed == closing # "open"
Superseded == closed \/ candidate.sequence # sequence

Catalog == INSTANCE EpochCatalog WITH leased <- {i \in Ids : held[i] > 0}

\* A server starts on a store that may have an active epoch of an earlier run.
Init ==
    /\ active \in {None} \cup Ids
    /\ available = {active} \ {None}
    /\ held = [i \in Ids |-> 0]
    /\ built = None
    /\ observed = FALSE /\ sequence = 0
    /\ pending = NoCandidate
    /\ current = None /\ currentLease = None
    /\ evaluation = NoEvaluation
    /\ drain = "idle"
    /\ candidate = NoCandidate
    /\ mine = None /\ releasing = None
    /\ closing = "open"

-----------------------------------------------------------------------------
(* The store and the coordinator *)

\* A build publishes a newer epoch; its event follows.
Build(i) ==
    /\ built = None
    /\ \A j \in available : i > j
    /\ active # None => i > active
    /\ available' = available \cup {i}
    /\ active' = i
    /\ built' = i
    /\ UNCHANGED <<held, policy, drainer, closing>>

\* The retention pass may delete whatever is neither active nor leased.
Retire(i) ==
    /\ UNCHANGED <<held, built, policy, drainer, closing>>
    /\ Catalog!Remove(i)

-----------------------------------------------------------------------------
(* Candidates *)

\* #consider and #schedule: the newest candidate replaces a pending one, and a
\* drain starts unless one is running.
Consider(i) ==
    /\ observed' = TRUE
    /\ sequence' = sequence + 1
    /\ \E gated \in BOOLEAN :
         pending' = [id |-> i, gated |-> gated, sequence |-> sequence + 1]
    /\ drain' = IF drain = "idle" THEN "look" ELSE drain
    /\ UNCHANGED <<current, currentLease, evaluation, candidate, mine, releasing, closing>>

\* artifact.available; a closed policy is not subscribed any more.
Available ==
    /\ built # None
    /\ built' = None
    /\ \/ ~closed /\ Consider(built)
       \/ closed /\ UNCHANGED <<policy, drainer, closing>>
    /\ UNCHANGED <<active, available, held>>

\* seed: the epoch that was active at the start, if nothing was observed yet.
Seed ==
    /\ active # None /\ ~closed /\ ~observed
    /\ Consider(active)
    /\ UNCHANGED store

-----------------------------------------------------------------------------
(* #drain *)

\* The head of the loop.
Look ==
    /\ drain = "look"
    /\ \/ /\ ~closed /\ pending # NoCandidate
          /\ candidate' = pending
          /\ pending' = NoCandidate
          /\ drain' = IF pending.gated THEN "run" ELSE "lease"
       \/ /\ closed \/ pending = NoCandidate
          /\ drain' = "returned"
          /\ candidate' = NoCandidate
          /\ UNCHANGED pending
    /\ UNCHANGED <<store, observed, sequence, current, currentLease, evaluation,
                   mine, releasing, closing>>

\* The contract matrix ends, passing or not (a runner that throws fails it).
Evaluated ==
    /\ drain = "run"
    /\ \/ Superseded /\ drain' = "look" /\ UNCHANGED evaluation
       \/ ~Superseded /\ drain' = "lease" /\ UNCHANGED evaluation
       \/ ~Superseded /\ drain' = "look"
          /\ evaluation' = [id |-> candidate.id, state |-> "failed"]
    /\ UNCHANGED <<store, observed, sequence, pending, current, currentLease,
                   candidate, mine, releasing, closing>>

\* The lease is granted or refused.  A candidate superseded meanwhile gives its
\* lease back at once.
Leased ==
    LET i == candidate.id IN
    /\ drain = "lease"
    /\ \/ /\ i \in available
          /\ held' = [held EXCEPT ![i] = @ + 1]
          /\ IF Superseded
             THEN drain' = "release" /\ releasing' = i /\ UNCHANGED mine
             ELSE drain' = "resume" /\ mine' = i /\ UNCHANGED releasing
       \/ /\ drain' = IF Superseded THEN "look" ELSE "resume"
          /\ UNCHANGED <<held, mine, releasing>>
    /\ UNCHANGED <<active, available, built, policy, candidate, closing>>

\* Mutants: the check after #acquireLease is missing; it forgets the lease; an
\* epoch is adopted although its lease was refused.
ResumeUnchecked ==
    /\ drain = "resume"
    /\ mine' = None
    /\ \/ /\ mine # None
          /\ evaluation' = IF candidate.gated THEN [id |-> candidate.id, state |-> "passed"]
                                              ELSE NoEvaluation
          /\ current' = candidate.id
          /\ currentLease' = mine
          /\ releasing' = currentLease
       \/ /\ mine = None
          /\ evaluation' = [id |-> candidate.id, state |-> "failed"]
          /\ UNCHANGED <<current, currentLease, releasing>>
    /\ drain' = IF releasing' = None THEN "look" ELSE "release"
    /\ UNCHANGED <<store, observed, sequence, pending, candidate, closing>>
ResumeForgetful ==
    /\ drain = "resume"
    /\ mine' = None
    /\ \/ Superseded /\ UNCHANGED <<current, currentLease, evaluation, releasing>>
       \/ /\ ~Superseded /\ mine # None
          /\ evaluation' = NoEvaluation
          /\ current' = candidate.id
          /\ currentLease' = mine
          /\ releasing' = currentLease
    /\ drain' = IF releasing' = None THEN "look" ELSE "release"
    /\ UNCHANGED <<store, observed, sequence, pending, candidate, closing>>
ResumeUnleased ==
    /\ drain = "resume"
    /\ mine' = None
    /\ \/ /\ Superseded
          /\ releasing' = mine
          /\ UNCHANGED <<current, currentLease, evaluation>>
       \/ /\ ~Superseded
          /\ evaluation' = NoEvaluation
          /\ current' = candidate.id
          /\ currentLease' = mine
          /\ releasing' = currentLease
    /\ drain' = IF releasing' = None THEN "look" ELSE "release"
    /\ UNCHANGED <<store, observed, sequence, pending, candidate, closing>>

\* #drain resumes after #acquireLease.  The candidate may have been superseded
\* in between: then it lets its lease go.  Otherwise it publishes the verdict
\* and, if it has the lease, adopts the epoch.
Resume ==
    /\ drain = "resume"
    /\ mine' = None
    /\ \/ /\ Superseded
          /\ releasing' = mine
          /\ UNCHANGED <<current, currentLease, evaluation>>
       \/ /\ ~Superseded /\ mine # None
          /\ evaluation' = IF candidate.gated THEN [id |-> candidate.id, state |-> "passed"]
                                              ELSE NoEvaluation
          /\ current' = candidate.id
          /\ currentLease' = mine
          /\ releasing' = currentLease
       \/ /\ ~Superseded /\ mine = None
          /\ evaluation' = [id |-> candidate.id, state |-> "failed"]
          /\ UNCHANGED <<current, currentLease, releasing>>
    /\ drain' = IF releasing' = None THEN "look" ELSE "release"
    /\ UNCHANGED <<store, observed, sequence, pending, candidate, closing>>

\* The store has released the lease that #drain let go.
Released ==
    /\ drain = "release"
    /\ held' = [held EXCEPT ![releasing] = @ - 1]
    /\ releasing' = None
    /\ drain' = "look"
    /\ UNCHANGED <<active, available, built, policy, candidate, mine, closing>>

\* Mutant: the completion handler does not look for work left behind.
HandoffIdle ==
    /\ drain = "returned"
    /\ drain' = "idle"
    /\ UNCHANGED <<store, policy, candidate, mine, releasing, closing>>

\* #drain's completion handler clears #processing, and restarts the drain for a
\* candidate that came after it had found the queue empty.
Handoff ==
    /\ drain = "returned"
    /\ drain' = IF ~closed /\ pending # NoCandidate THEN "look" ELSE "idle"
    /\ UNCHANGED <<store, policy, candidate, mine, releasing, closing>>

-----------------------------------------------------------------------------
(* close() *)

Close ==
    /\ closing = "open"
    /\ closing' = "waiting"
    /\ pending' = NoCandidate
    /\ UNCHANGED <<store, observed, sequence, current, currentLease, evaluation, drainer>>

\* The drain has ended: the lease on the adopted epoch is released.
FinishClose ==
    /\ closing = "waiting" /\ drain = "idle"
    /\ closing' = "done"
    /\ currentLease' = None
    /\ held' = IF currentLease = None THEN held ELSE [held EXCEPT ![currentLease] = @ - 1]
    /\ UNCHANGED <<active, available, built, observed, sequence, pending, current,
                   evaluation, drainer>>

DrainStep == Look \/ Evaluated \/ Leased \/ Resume \/ Released \/ Handoff

Next ==
    \/ \E i \in Ids : Build(i) \/ Retire(i)
    \/ Available \/ Seed
    \/ DrainStep
    \/ Close \/ FinishClose

\* The event loop runs what an await resolves to.
Fairness == WF_vars(DrainStep)

Spec == Init /\ [][Next]_vars
FairSpec == Spec /\ Fairness

-----------------------------------------------------------------------------
(* Properties *)

TypeOK ==
    /\ active \in Ids \cup {None} /\ available \subseteq Ids
    /\ held \in [Ids -> Nat] /\ built \in Ids \cup {None}
    /\ observed \in BOOLEAN /\ sequence \in Nat
    /\ pending \in Candidates /\ candidate \in Candidates
    /\ current \in Ids \cup {None} /\ currentLease \in Ids \cup {None}
    /\ evaluation \in Evaluations
    /\ drain \in {"idle", "look", "run", "lease", "resume", "release", "returned"}
    /\ mine \in Ids \cup {None} /\ releasing \in Ids \cup {None}
    /\ closing \in {"open", "waiting", "done"}

\* "There is never a moment where the advertised epoch is unleased": until the
\* policy has closed, the retention pass cannot take the epoch hosts are
\* pointed at.
AdvertisedLeased ==
    closing # "done" /\ current # None => held[current] > 0 /\ current \in available

\* "An obsolete candidate is never published or adopted": a verdict is
\* published, and an epoch adopted, only for the newest epoch considered, and
\* never by a closed policy.
NeverObsolete ==
    [][<<current, currentLease, evaluation>>' # <<current, currentLease, evaluation>>
         => \/ ~closed /\ candidate.sequence = sequence
            \/ closing' = "done"]_vars

\* The leases of the policy are those it will still close; after close() has
\* settled it has none.
Hand(lease, i) == IF lease = i THEN 1 ELSE 0
LeasesAccounted ==
    \A i \in Ids : held[i] = Hand(currentLease, i) + Hand(mine, i) + Hand(releasing, i)

\* A candidate never waits for the next build: it is taken up, replaced by a
\* newer one, or the policy closes.
CandidateTaken == pending # NoCandidate ~> pending = NoCandidate

=============================================================================
