------------------------ MODULE EpochAdoption_proofs ------------------------
(***************************************************************************)
(* For every set of epochs: the epoch that hosts are served is leased and  *)
(* available.                                                              *)
(*                                                                         *)
(* AdvertisedLeased is not inductive: it needs the account of the leases   *)
(* (LeasesAccounted), that a lease keeps its epoch available, that #drain  *)
(* holds a lease only while it looks at its candidate, and that the lease  *)
(* of the adopted epoch is the one kept.                                   *)
(***************************************************************************)
EXTENDS EpochAdoption, TLAPS

\* What #drain has in hand at each of its steps.
DrainHolds ==
    /\ mine # None => drain = "resume" /\ mine = candidate.id
    /\ releasing # None <=> drain = "release"
    /\ drain \in {"run", "lease", "resume"} => candidate # NoCandidate

LeasedAvailable == \A i \in Ids : held[i] > 0 => i \in available
CurrentLeased == closing # "done" => currentLease = current

IInv == TypeOK /\ DrainHolds /\ LeasesAccounted /\ LeasedAvailable /\ CurrentLeased

\* The invariant holds at the start.
LEMMA InitInv == Init => IInv
  <1> SUFFICES ASSUME Init PROVE IInv
    OBVIOUS
  <1> USE IdsAssumption DEF Init
  <1>1. NoCandidate \in Candidates /\ NoEvaluation \in Evaluations
    BY DEF Candidates, Evaluations
  <1>2. TypeOK
    BY <1>1 DEF TypeOK
  <1>3. DrainHolds /\ LeasesAccounted /\ LeasedAvailable /\ CurrentLeased
    BY DEF DrainHolds, LeasesAccounted, LeasedAvailable, CurrentLeased, Hand
  <1> QED BY <1>2, <1>3 DEF IInv

\* An epoch becoming the candidate touches none of the leases.
LEMMA ConsiderTyped ==
  ASSUME IInv, NEW i \in Ids, Consider(i), UNCHANGED <<active, available, held>>,
         built' \in Ids \cup {None}
  PROVE  IInv'
  <1>1. \A gated \in BOOLEAN :
          [id |-> i, gated |-> gated, sequence |-> sequence + 1] \in Candidates
    BY DEF IInv, TypeOK, Candidates
  <1>2. TypeOK'
    BY <1>1 DEF IInv, TypeOK, Consider
  <1>3. DrainHolds'
    BY DEF IInv, TypeOK, DrainHolds, Consider
  <1>4. (LeasesAccounted /\ LeasedAvailable /\ CurrentLeased)'
    BY DEF IInv, TypeOK, LeasesAccounted, LeasedAvailable, CurrentLeased, Consider, Hand
  <1> QED BY <1>2, <1>3, <1>4 DEF IInv

\* Every step keeps the invariant.
LEMMA NextInv == IInv /\ [Next]_vars => IInv'
  <1> SUFFICES ASSUME IInv, [Next]_vars PROVE IInv'
    OBVIOUS
  <1> USE IdsAssumption
  <1>1. ASSUME NEW i \in Ids, Build(i) PROVE IInv'
    BY <1>1 DEF Build, IInv, TypeOK, DrainHolds, LeasesAccounted, LeasedAvailable,
                CurrentLeased, Hand, policy, drainer
  <1>2. ASSUME NEW i \in Ids, Retire(i) PROVE IInv'
    BY <1>2 DEF Retire, Catalog!Remove, IInv, TypeOK, DrainHolds, LeasesAccounted,
                LeasedAvailable, CurrentLeased, Hand, policy, drainer
  <1>3. CASE Available
    <2>1. CASE ~closed /\ Consider(built)
      BY <1>3, <2>1, ConsiderTyped DEF Available, IInv, TypeOK
    <2>2. CASE closed /\ UNCHANGED <<policy, drainer, closing>>
      BY <1>3, <2>2 DEF Available, IInv, TypeOK, DrainHolds, LeasesAccounted,
                        LeasedAvailable, CurrentLeased, Hand, policy, drainer
    <2> QED BY <1>3, <2>1, <2>2 DEF Available
  <1>4. CASE Seed
    <2>1. active \in Ids /\ Consider(active) /\ UNCHANGED <<active, available, held, built>>
      BY <1>4 DEF Seed, store, IInv, TypeOK
    <2> QED BY <2>1, ConsiderTyped DEF IInv, TypeOK
  <1>5. CASE Look
    <2>1. NoCandidate \in Candidates
      BY DEF Candidates
    <2> QED BY <1>5, <2>1 DEF Look, store, IInv, TypeOK, DrainHolds, LeasesAccounted,
                              LeasedAvailable, CurrentLeased, Hand
  <1>6. CASE Evaluated
    <2>1. drain = "run" => candidate.id \in Ids
      BY DEF IInv, TypeOK, DrainHolds, Candidates
    <2>2. evaluation' \in Evaluations
      BY <1>6, <2>1 DEF Evaluated, IInv, TypeOK, Evaluations
    <2> QED BY <1>6, <2>2 DEF Evaluated, store, IInv, TypeOK, DrainHolds, LeasesAccounted,
                              LeasedAvailable, CurrentLeased, Hand
  <1>7. CASE Leased
    <2>1. mine = None /\ releasing = None /\ candidate # NoCandidate
      BY <1>7 DEF Leased, IInv, TypeOK, DrainHolds
    <2> DEFINE i == candidate.id
    <2>2a. i \in Ids
      BY <2>1 DEF IInv, TypeOK, Candidates
    <2>2b. held' \in [Ids -> Nat]
      BY <1>7, <2>2a DEF Leased, IInv, TypeOK
    <2>2c. mine' \in Ids \cup {None} /\ releasing' \in Ids \cup {None}
      BY <1>7, <2>2a DEF Leased, IInv, TypeOK
    <2>2d. drain' \in {"release", "resume", "look"}
      BY <1>7 DEF Leased
    <2>2. TypeOK'
      BY <1>7, <2>2b, <2>2c, <2>2d DEF Leased, policy, IInv, TypeOK
    <2>3. DrainHolds'
      BY <1>7, <2>1 DEF Leased, policy, IInv, TypeOK, DrainHolds
    <2>4. LeasesAccounted'
      BY <1>7, <2>1 DEF Leased, policy, IInv, TypeOK, LeasesAccounted, Hand
    <2>5. (LeasedAvailable /\ CurrentLeased)'
      BY <1>7 DEF Leased, policy, IInv, TypeOK, LeasedAvailable, CurrentLeased
    <2> QED BY <2>2, <2>3, <2>4, <2>5 DEF IInv
  <1>8. CASE Resume
    <2>1. candidate.id \in Ids
      BY <1>8 DEF Resume, IInv, TypeOK, DrainHolds, Candidates
    <2>2. evaluation' \in Evaluations
      BY <1>8, <2>1 DEF Resume, IInv, TypeOK, Evaluations, NoEvaluation
    <2>3. TypeOK'
      BY <1>8, <2>1, <2>2 DEF Resume, store, IInv, TypeOK
    <2>4. DrainHolds'
      BY <1>8 DEF Resume, store, IInv, TypeOK, DrainHolds
    <2>5. LeasesAccounted'
      BY <1>8 DEF Resume, store, IInv, TypeOK, DrainHolds, LeasesAccounted, Hand
    <2>6. (LeasedAvailable /\ CurrentLeased)'
      BY <1>8 DEF Resume, store, IInv, TypeOK, DrainHolds, LeasedAvailable, CurrentLeased
    <2> QED BY <2>3, <2>4, <2>5, <2>6 DEF IInv
  <1>9. CASE Released
    BY <1>9 DEF Released, policy, IInv, TypeOK, DrainHolds, LeasesAccounted,
                LeasedAvailable, CurrentLeased, Hand
  <1>10. CASE Handoff
    BY <1>10 DEF Handoff, store, policy, IInv, TypeOK, DrainHolds, LeasesAccounted,
                 LeasedAvailable, CurrentLeased, Hand
  <1>11. CASE Close
    <2>1. NoCandidate \in Candidates
      BY DEF Candidates
    <2> QED BY <1>11, <2>1 DEF Close, store, drainer, IInv, TypeOK, DrainHolds,
                               LeasesAccounted, LeasedAvailable, CurrentLeased, Hand
  <1>12. CASE FinishClose
    BY <1>12 DEF FinishClose, drainer, IInv, TypeOK, DrainHolds, LeasesAccounted,
                 LeasedAvailable, CurrentLeased, Hand
  <1>13. CASE UNCHANGED vars
    BY <1>13 DEF vars, store, policy, drainer, IInv, TypeOK, DrainHolds, LeasesAccounted,
                 LeasedAvailable, CurrentLeased, Hand
  <1> QED
    BY <1>1, <1>2, <1>3, <1>4, <1>5, <1>6, <1>7, <1>8, <1>9, <1>10, <1>11, <1>12, <1>13
    DEF Next, DrainStep

\* The invariant holds in every reachable state.
THEOREM Invariance == Spec => []IInv
  BY InitInv, NextInv, PTL DEF Spec

\* The state keeps its types.
THEOREM TypeCorrect == Spec => []TypeOK
  BY Invariance, PTL DEF IInv

\* The leases that the store counts for the policy are exactly those it will
\* still close: none is lost when a candidate is superseded or refused, or
\* when the policy is closed at any moment.
THEOREM LeasesNeverLost == Spec => []LeasesAccounted
  BY Invariance, PTL DEF IInv

\* Until the policy is closed, the epoch that hosts are served is leased and in
\* the store, whatever is built, superseded, refused or deleted meanwhile.
THEOREM AdvertisedAlwaysLeased == Spec => []AdvertisedLeased
  <1>1. IInv => AdvertisedLeased
    BY IdsAssumption DEF IInv, TypeOK, LeasesAccounted, LeasedAvailable, CurrentLeased,
                         AdvertisedLeased, Hand
  <1> QED BY <1>1, Invariance, PTL

\* A superseded candidate, and a closed policy, never publish a verdict or adopt
\* an epoch, at whichever await the newer candidate or close() came in.
THEOREM ObsoleteNeverAdopted == Spec => NeverObsolete
  <1> DEFINE shown == <<current, currentLease, evaluation>>
             A == shown' # shown => \/ ~closed /\ candidate.sequence = sequence
                                    \/ closing' = "done"
  <1>1. [Next]_vars => [A]_vars
    <2> SUFFICES ASSUME Next PROVE A
      OBVIOUS
    <2> QED
      BY DEF Next, DrainStep, Build, Retire, Available, Consider, Seed, Look, Evaluated, Leased,
             Resume, Released, Handoff, Close, FinishClose, policy, drainer, store, Superseded, closed
  <1> QED BY <1>1, PTL DEF Spec, NeverObsolete

=============================================================================
