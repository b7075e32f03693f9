-------------------------- MODULE StateStore_proofs --------------------------
(***************************************************************************)
(* For any processes, keys, events, versions, reducers, migrations and     *)
(* schemas: a key takes effect at most once, a conditional commit is on    *)
(* the state its caller read, a retry is recognised, and a closed driver   *)
(* leaves no store.  If no state is of two versions' schemas, every open   *)
(* of a newer or equal version also finds the database consistent          *)
(* (Reopens), and the store implements StateLedger.                        *)
(*                                                                         *)
(* The first part rests on what the database keeps of the ledger (Kept):   *)
(* the retained records are the ledger's entries at their revisions        *)
(* (Logged), and every key that took effect is on a retained record or     *)
(* among the pruned keys (Covered), which is what makes the lookup of a    *)
(* key enough.  The second part rests on Story, what the records are       *)
(* together: the last ones, from the first or from a compaction on, each   *)
(* with its result brought to the version of now, and on Reduced: every    *)
(* event's state is what the reducer of its version makes of the state     *)
(* before it.                                                              *)
(***************************************************************************)
EXTENDS StateStore, FiniteSetTheorems, WellFoundedInduction, TLAPS

Caller == {"event", "reset"}
Elements(s) == {s[n] : n \in 1..Len(s)}
Sequence(s) == s \in Seq(Elements(s))
Entries == 1..Len(ledger)

\* The ledger is as long as the head says, and ends with it.
Aligned ==
    /\ Sequence(ledger)
    /\ version = 0 => ledger = <<>> /\ head.revision = 0
    /\ version # 0 => /\ Len(ledger) = head.revision + 1
                      /\ ledger[head.revision + 1].state = head.state

\* A journal record says of a commit what b does, its result apart.
Same(a, b) ==
    /\ DOMAIN a = {"kind", "key", "input", "state", "result"}
    /\ a.kind = b.kind /\ a.key = b.key /\ a.input = b.input /\ a.state = b.state

Logged ==
    /\ \A r \in Revisions : Same(journal[r], ledger[r + 1])
    /\ \A e \in pruned :
          /\ e.revision \in 0..head.revision /\ version # 0
          /\ ledger[e.revision + 1].key = e.key
          /\ e.input = Canonical(ledger[e.revision + 1])

\* What an entry's key and input tell of its kind.
Formed ==
    \A n \in Entries :
        IF ledger[n].kind \in Caller
        THEN /\ ledger[n].key[1] = "caller"
             /\ ledger[n].kind = "reset" <=> ledger[n].input = "reset"
        ELSE ledger[n].key[1] # "caller"

Covered ==
    \A n \in Entries : ledger[n].kind \in Caller =>
        \/ \E r \in Revisions : journal[r].key = ledger[n].key
        \/ \E e \in pruned : e.key = ledger[n].key

\* A caller's key takes effect at most once, whatever is upgraded, compacted
\* or retried in between (sqlite.ts, #commit).
KeysOnce ==
    \A m, n \in Entries :
        ledger[m].kind \in Caller /\ ledger[n].kind \in Caller /\ ledger[m].key = ledger[n].key
            => m = n

Kept == Aligned /\ Logged /\ Formed /\ Covered /\ KeysOnce

\* What a caller read is what the ledger says of that revision.
Seen ==
    /\ DOMAIN seen = Stores
    /\ \A p \in Stores : seen[p] # None =>
          /\ version # 0 /\ seen[p].revision \in 0..head.revision
          /\ ledger[seen[p].revision + 1].state = seen[p].state

Unmigrated == \A n \in Entries : ledger[n].kind # "migrate"

\* Before the first migration every store is of the one version there is.
OneVersion ==
    /\ version = 0 => \A p \in Stores : stage[p] = "absent"
    /\ Unmigrated =>
         /\ \A p \in Stores : stage[p] # "absent" => defined[p] = version
         /\ \A n \in Entries : ledger[n].kind = "reset" => ledger[n].state = Initial(version)

IInv ==
    TypeOK /\ Kept /\ Seen /\ OneVersion /\ ClosedLeavesNothing /\ RetryRecognised

USE StateAssumption

----------------------------------------------------------------------------
(* Sequences, and the records of a tuple.                                  *)

LEMMA AppendFacts ==
  ASSUME NEW s, Sequence(s), NEW e
  PROVE  /\ Sequence(Append(s, e)) /\ Len(s) \in Nat
         /\ Len(Append(s, e)) = Len(s) + 1
         /\ \A n \in 1..Len(s) : Append(s, e)[n] = s[n]
         /\ Append(s, e)[Len(s) + 1] = e
  <1> DEFINE S == Elements(s) \cup {e}
             t == Append(s, e)
  <1>1. s \in Seq(S)
    BY DEF Sequence
  <1>2. /\ t \in Seq(S) /\ Len(s) \in Nat /\ Len(t) = Len(s) + 1
        /\ \A n \in 1..Len(s) : t[n] = s[n]
        /\ t[Len(s) + 1] = e
    BY <1>1
  <1>3. \A n \in 1..Len(t) : t[n] \in Elements(t)
    BY DEF Elements
  <1>4. t \in Seq(Elements(t))
    BY <1>2, <1>3
  <1> QED BY <1>2, <1>4 DEF Sequence

LEMMA EmptySequence == Sequence(<<>>) /\ Len(<<>>) = 0
  BY DEF Sequence, Elements

----------------------------------------------------------------------------
\* The invariant holds at the start.
LEMMA InitInv == Init => IInv
  <1> SUFFICES ASSUME Init PROVE IInv
    OBVIOUS
  <1> USE DEF Init
  <1>1. TypeOK
    BY DEF TypeOK, Revisions
  <1>2. Kept
    BY EmptySequence DEF Kept, Aligned, Logged, Formed, Covered, KeysOnce, Entries, Revisions
  <1>3. Seen /\ OneVersion /\ ClosedLeavesNothing /\ RetryRecognised
    BY EmptySequence DEF Seen, OneVersion, ClosedLeavesNothing, RetryRecognised, NoAnswer, Entries
  <1> QED BY <1>1, <1>2, <1>3 DEF IInv

\* What Appended and Recorded do, for a journal J that keeps some records.
LEMMA GrowFacts ==
  ASSUME TypeOK, Kept, version # 0,
         NEW J, DOMAIN J \subseteq Revisions, \A q \in DOMAIN J : Same(J[q], journal[q]),
         NEW kind, NEW key, NEW input, NEW state, NEW v, v # 0, version' = v,
         Appended(J, kind, key, input, state), Recorded(kind, key, input, state, v)
  PROVE  /\ head'.revision = head.revision + 1 /\ Len(ledger) = head.revision + 1
         /\ Len(ledger') = Len(ledger) + 1
         /\ \A n \in Entries : ledger'[n] = ledger[n]
         /\ ledger'[Len(ledger')] = [kind |-> kind, key |-> key, input |-> input,
                                     state |-> state, version |-> v]
         /\ Revisions' = DOMAIN J \cup {head.revision + 1}
         /\ Revisions' \subseteq 1..head'.revision
         /\ \A r \in Revisions' : Same(journal'[r], ledger'[r + 1])
         /\ \A r \in DOMAIN J : journal'[r].key = journal[r].key
         /\ journal'[head.revision + 1].key = key
         /\ Aligned'
  <1> DEFINE r1 == head.revision + 1
             e == [kind |-> kind, key |-> key, input |-> input, state |-> state, version |-> v]
  <1>1. Sequence(ledger) /\ Len(ledger) = r1 /\ r1 \in Nat
    BY DEF Kept, Aligned, TypeOK
  <1>2. ledger' = Append(ledger, e) /\ head' = [revision |-> r1, state |-> state]
    BY DEF Recorded, Appended
  <1>3. /\ Sequence(ledger') /\ Len(ledger') = r1 + 1
        /\ \A n \in Entries : ledger'[n] = ledger[n]
        /\ ledger'[r1 + 1] = e
    BY <1>1, <1>2, AppendFacts DEF Entries
  <1>4. /\ journal' = [q \in DOMAIN J \cup {r1} |-> IF q = r1
              THEN [kind |-> kind, key |-> key, input |-> input, state |-> state,
                    result |-> state]
              ELSE J[q]]
    BY DEF Appended
  <1>5. Revisions' = DOMAIN J \cup {r1}
    BY <1>4 DEF Revisions
  <1>6. \A q \in DOMAIN J : q \in 1..head.revision /\ q # r1 /\ journal'[q] = J[q]
    BY <1>4, <1>1 DEF TypeOK, Revisions
  <1>7. \A q \in DOMAIN J : Same(journal'[q], ledger'[q + 1])
    <2> TAKE q \in DOMAIN J
    <2>1. q \in Revisions /\ q + 1 \in Entries
      BY <1>1, <1>6 DEF Entries, TypeOK
    <2>2. Same(J[q], journal[q]) /\ Same(journal[q], ledger[q + 1])
      BY <2>1 DEF Kept, Logged
    <2> QED BY <2>1, <2>2, <1>3, <1>6 DEF Same
  <1>8. Same(journal'[r1], ledger'[r1 + 1]) /\ journal'[r1].key = key
    BY <1>3, <1>4 DEF Same
  <1>9. Aligned'
    BY <1>1, <1>2, <1>3 DEF Aligned
  <1>10. Revisions' \subseteq 1..head'.revision
    BY <1>1, <1>2, <1>5, <1>6 DEF TypeOK
  <1>11. \A r \in DOMAIN J : journal'[r].key = journal[r].key
    BY <1>6 DEF Same
  <1> QED BY <1>1, <1>2, <1>3, <1>5, <1>7, <1>8, <1>9, <1>10, <1>11

\* Growing by an entry keeps what the invariants say of the others.
LEMMA GrowKeeps ==
  ASSUME IInv, version # 0,
         NEW J, DOMAIN J \subseteq Revisions, \A q \in DOMAIN J : Same(J[q], journal[q]),
         NEW kind, NEW key, NEW input, NEW state, NEW v \in Versions, version' = v,
         Appended(J, kind, key, input, state), Recorded(kind, key, input, state, v),
         kind \in Caller <=> key[1] = "caller",
         kind \in Caller => (kind = "reset" <=> input = "reset"),
         kind \in Caller => \A n \in Entries : ledger[n].key # key,
         \/ pruned' = pruned /\ DOMAIN J = Revisions
         \/ pruned' = Remembered /\ DOMAIN J = {}
  PROVE  Kept'
  <1> USE DEF IInv
  <1>a. v # 0
    OBVIOUS
  <1>1. /\ head'.revision = head.revision + 1 /\ Len(ledger) = head.revision + 1
        /\ Len(ledger') = Len(ledger) + 1
        /\ \A n \in Entries : ledger'[n] = ledger[n]
        /\ ledger'[Len(ledger')] = [kind |-> kind, key |-> key, input |-> input,
                                    state |-> state, version |-> v]
        /\ Revisions' = DOMAIN J \cup {head.revision + 1}
        /\ \A r \in Revisions' : Same(journal'[r], ledger'[r + 1])
        /\ \A r \in DOMAIN J : journal'[r].key = journal[r].key
        /\ journal'[head.revision + 1].key = key
        /\ Aligned'
    BY <1>a, GrowFacts
  <1>2. head.revision \in Nat /\ Revisions \subseteq 1..head.revision
    BY DEF TypeOK
  <1>3. Entries' = Entries \cup {head.revision + 2} /\ head.revision + 2 \notin Entries
    BY <1>1, <1>2 DEF Entries
  <1>4. \A e \in Remembered :
            \/ e \in pruned
            \/ \E r \in Revisions : /\ e.key = journal[r].key /\ e.revision = r
                                    /\ e.input = Canonical(journal[r])
    BY DEF Remembered
  <1>5. Logged'
    <2>1. \A e \in pruned' :
            /\ e.revision \in 0..head.revision
            /\ ledger[e.revision + 1].key = e.key
            /\ e.input = Canonical(ledger[e.revision + 1])
      <3> TAKE e \in pruned'
      <3>1. CASE e \in pruned
        BY <3>1 DEF Kept, Logged
      <3>2. ASSUME NEW r \in Revisions, e.key = journal[r].key, e.revision = r,
                   e.input = Canonical(journal[r])
            PROVE  /\ e.revision \in 0..head.revision
                   /\ ledger[e.revision + 1].key = e.key
                   /\ e.input = Canonical(ledger[e.revision + 1])
        <4>1. Same(journal[r], ledger[r + 1])
          BY DEF Kept, Logged
        <4>2. Canonical(journal[r]) = Canonical(ledger[r + 1])
          BY <4>1 DEF Same, Canonical
        <4> QED BY <3>2, <4>1, <4>2, <1>2 DEF Same
      <3> QED BY <3>1, <3>2, <1>4
    <2>2. \A e \in pruned' : e.revision + 1 \in Entries
      BY <2>1, <1>1, <1>2 DEF Entries
    <2>3. \A e \in pruned' :
            /\ e.revision \in 0..head'.revision /\ version' # 0
            /\ ledger'[e.revision + 1].key = e.key
            /\ e.input = Canonical(ledger[e.revision + 1])
            /\ ledger'[e.revision + 1] = ledger[e.revision + 1]
      BY <2>1, <2>2, <1>1, <1>2, <1>a
    <2>4. \A e \in pruned' : e.input = Canonical(ledger'[e.revision + 1])
      BY <2>3 DEF Canonical
    <2>5. \A r \in Revisions' : Same(journal'[r], ledger'[r + 1])
      BY <1>1
    <2> QED BY <2>3, <2>4, <2>5 DEF Logged, Canonical
  <1>6. Formed'
    <2> SUFFICES ASSUME NEW n \in Entries'
                 PROVE  IF ledger'[n].kind \in Caller
                        THEN /\ ledger'[n].key[1] = "caller"
                             /\ ledger'[n].kind = "reset" <=> ledger'[n].input = "reset"
                        ELSE ledger'[n].key[1] # "caller"
      BY DEF Formed
    <2>1. CASE n \in Entries
      BY <2>1, <1>1 DEF Kept, Formed
    <2>2. CASE n = head.revision + 2
      BY <2>2, <1>1, <1>2
    <2> QED BY <2>1, <2>2, <1>3
  <1>7. Covered'
    <2> SUFFICES ASSUME NEW n \in Entries', ledger'[n].kind \in Caller
                 PROVE  \/ \E r \in Revisions' : journal'[r].key = ledger'[n].key
                        \/ \E e \in pruned' : e.key = ledger'[n].key
      BY DEF Covered
    <2>1. CASE n = head.revision + 2
      <3>1. head.revision + 1 \in Revisions' /\ ledger'[n].key = key
        BY <2>1, <1>1, <1>2
      <3> QED BY <3>1, <1>1
    <2>2. CASE n \in Entries
      <3>1. ledger'[n] = ledger[n]
        BY <2>2, <1>1
      <3>2. CASE DOMAIN J = Revisions /\ pruned' = pruned
        BY <2>2, <3>1, <3>2, <1>1 DEF Kept, Covered
      <3>3. CASE pruned' = Remembered
        <4>1. ASSUME NEW r \in Revisions PROVE \E e \in Remembered : e.key = journal[r].key
          <5> DEFINE f == [key |-> journal[r].key, revision |-> r, input |-> Canonical(journal[r])]
          <5>1. f \in Remembered
            BY DEF Remembered
          <5>2. f.key = journal[r].key
            OBVIOUS
          <5> QED BY <5>1, <5>2
        <4>2. \A e \in pruned : \E f \in Remembered : f.key = e.key
          BY <4>1 DEF Remembered
        <4> QED BY <2>2, <3>1, <3>3, <4>1, <4>2 DEF Kept, Covered
      <3> QED BY <3>2, <3>3
    <2> QED BY <2>1, <2>2, <1>3
  <1>8. KeysOnce'
    <2> SUFFICES ASSUME NEW m \in Entries', NEW n \in Entries',
                        ledger'[m].kind \in Caller, ledger'[n].kind \in Caller,
                        ledger'[m].key = ledger'[n].key
                 PROVE  m = n
      BY DEF KeysOnce
    <2>1. CASE m \in Entries /\ n \in Entries
      BY <2>1, <1>1 DEF Kept, KeysOnce
    <2>2. CASE m = head.revision + 2 /\ n \in Entries
      BY <2>2, <1>1, <1>2
    <2>3. CASE n = head.revision + 2 /\ m \in Entries
      BY <2>3, <1>1, <1>2
    <2> QED BY <2>1, <2>2, <2>3, <1>3
  <1> QED BY <1>1, <1>5, <1>6, <1>7, <1>8 DEF Kept

----------------------------------------------------------------------------
(* The transactions that write.                                            *)

\* What a store's caller read stays in the ledger as it grows.
LEMMA GrowReads ==
  ASSUME TypeOK, Kept, Seen, version # 0, version' # 0,
         head'.revision = head.revision + 1, Len(ledger) = head.revision + 1,
         \A n \in Entries : ledger'[n] = ledger[n], UNCHANGED seen
  PROVE  Seen'
  <1> SUFFICES ASSUME NEW p \in Stores, seen[p] # None
               PROVE  /\ seen[p].revision \in 0..head'.revision
                      /\ ledger'[seen[p].revision + 1].state = seen[p].state
    BY DEF Seen
  <1>1. seen[p].revision \in 0..head.revision /\ ledger[seen[p].revision + 1].state = seen[p].state
    BY DEF Seen
  <1>2. head.revision \in Nat /\ seen[p].revision + 1 \in Entries
    BY <1>1 DEF TypeOK, Entries
  <1> QED BY <1>1, <1>2

LEMMA CreatedInv ==
  ASSUME IInv, NEW v \in Versions, Created(v), UNCHANGED seen
  PROVE  /\ Kept' /\ Seen' /\ head'.revision = 0 /\ Revisions' = {} /\ version' = v
         /\ \A n \in Entries' : ledger'[n].kind = "initial"
  <1> USE DEF IInv, Created, Recorded
  <1> DEFINE e == [kind |-> "initial", key |-> <<"none">>, input |-> "none",
                   state |-> Initial(v), version |-> v]
  <1>1. ledger = <<>> /\ head.revision = 0 /\ Revisions = {} /\ v # 0
    BY DEF Kept, Aligned, TypeOK
  <1>2. ledger' = Append(<<>>, e)
    BY <1>1
  <1>3. Sequence(ledger') /\ Len(ledger') = 1 /\ ledger'[1] = e
    <2> HIDE DEF e
    <2>1. /\ Sequence(Append(<<>>, e)) /\ Len(Append(<<>>, e)) = Len(<<>>) + 1
          /\ Append(<<>>, e)[Len(<<>>) + 1] = e
      BY EmptySequence, AppendFacts
    <2>2. Sequence(ledger') /\ Len(ledger') = Len(<<>>) + 1 /\ ledger'[Len(<<>>) + 1] = e
      BY <1>2, <2>1, Zenon
    <2>3. Len(<<>>) + 1 = 1
      OBVIOUS
    <2> QED BY <2>2, <2>3
  <1>4. pruned = {}
    BY DEF Kept, Logged
  <1>5. /\ head' = [revision |-> 0, state |-> Initial(v)] /\ version' = v
        /\ Revisions' = {} /\ pruned' = {} /\ Entries' = {1}
    BY <1>1, <1>3, <1>4 DEF Revisions, Entries
  <1>6. Aligned'
    BY <1>1, <1>3, <1>5 DEF Aligned
  <1>7. Logged'
    BY <1>5 DEF Logged
  <1>8. Formed'
    BY <1>3, <1>5 DEF Formed, Caller
  <1>9. Covered' /\ KeysOnce'
    BY <1>3, <1>5 DEF Covered, KeysOnce, Caller
  <1>10. Seen'
    BY DEF Seen
  <1> QED BY <1>3, <1>5, <1>6, <1>7, <1>8, <1>9, <1>10 DEF Kept

LEMMA UpgradedInv ==
  ASSUME IInv, NEW v \in Versions, Upgraded(v), UNCHANGED seen
  PROVE  /\ Kept' /\ Seen' /\ head'.revision = head.revision + 1
         /\ Revisions' \subseteq 1..head'.revision /\ version' = v
         /\ \E n \in Entries' : ledger'[n].kind = "migrate"
  <1> DEFINE results == [q \in Revisions |->
                 [journal[q] EXCEPT !.result = Migrated(version, v, @)]]
             state == Migrated(version, v, head.state)
             key == <<"migrate", v>>
  <1>1. /\ Appended(results, "migrate", key, "none", state)
        /\ Recorded("migrate", key, "none", state, v)
        /\ version' = v /\ pruned' = pruned /\ version # 0 /\ v # 0
    BY DEF Upgraded, IInv, TypeOK
  <1>2. DOMAIN results = Revisions
    OBVIOUS
  <1>3. \A q \in DOMAIN results : Same(results[q], journal[q])
    BY DEF Same, IInv, Kept, Logged
  <1>4. /\ "migrate" \in Caller <=> key[1] = "caller"
        /\ "migrate" \in Caller => ("migrate" = "reset" <=> "none" = "reset")
        /\ "migrate" \in Caller => \A n \in Entries : ledger[n].key # key
    BY DEF Caller
  <1> HIDE DEF results, state, key
  <1>5. Kept'
    BY <1>1, <1>2, <1>3, <1>4, GrowKeeps
  <1>6. /\ head'.revision = head.revision + 1 /\ Len(ledger) = head.revision + 1
        /\ Len(ledger') = Len(ledger) + 1
        /\ \A n \in Entries : ledger'[n] = ledger[n]
        /\ ledger'[Len(ledger')] = [kind |-> "migrate", key |-> key, input |-> "none",
                                    state |-> state, version |-> v]
        /\ Revisions' \subseteq 1..head'.revision
    BY <1>1, <1>2, <1>3, GrowFacts DEF IInv
  <1>7. Seen'
    BY <1>1, <1>6, GrowReads DEF IInv
  <1>8. Len(ledger') \in Entries'
    BY <1>6 DEF Entries, IInv, TypeOK
  <1> QED BY <1>1, <1>5, <1>6, <1>7, <1>8

\* Neither on a retained record nor among the pruned keys: never committed.
LEMMA NewKey ==
  ASSUME IInv, NEW k \in Keys, New(k)
  PROVE  \A n \in Entries : ledger[n].key # CallerKey(k)
  <1> SUFFICES ASSUME NEW n \in Entries, ledger[n].key = CallerKey(k) PROVE FALSE
    OBVIOUS
  <1>1. ledger[n].key[1] = "caller"
    BY DEF CallerKey
  <1>2. ledger[n].kind \in Caller
    BY <1>1 DEF IInv, Kept, Formed
  <1>3. \/ \E r \in Revisions : journal[r].key = CallerKey(k)
        \/ \E e \in pruned : e.key = CallerKey(k)
    BY <1>2 DEF IInv, Kept, Covered
  <1> QED BY <1>3 DEF New, Committed, PrunedAs

LEMMA CommitInv ==
  ASSUME IInv, NEW p \in Stores, NEW k \in Keys, NEW i \in Calls, NEW x, Commit(p, k, i, x)
  PROVE  /\ Kept' /\ Seen' /\ TypeOK' /\ OneVersion'
  <1> DEFINE state == Apply(defined[p], head.state, i)
             kind == IF i = "reset" THEN "reset" ELSE "event"
             key == CallerKey(k)
  <1>1. /\ Appended(journal, kind, key, i, state) /\ Recorded(kind, key, i, state, version)
        /\ version' = version /\ pruned' = pruned /\ UNCHANGED process /\ stage[p] = "open"
    BY DEF Commit, Readable
  <1>2. version # 0 /\ version \in Versions
    BY <1>1 DEF IInv, OneVersion, TypeOK
  <1>3. /\ DOMAIN journal = Revisions /\ \A q \in DOMAIN journal : Same(journal[q], journal[q])
        /\ DOMAIN journal \subseteq Revisions
    BY DEF Revisions, Same, IInv, Kept, Logged
  <1>4. /\ kind \in Caller <=> key[1] = "caller"
        /\ kind \in Caller => (kind = "reset" <=> i = "reset")
        /\ kind \in Caller => \A n \in Entries : ledger[n].key # key
    BY NewKey DEF CallerKey, Caller, Commit
  <1>5. kind = "reset" => state = Initial(defined[p])
    BY DEF Apply
  <1>6. kind # "migrate"
    OBVIOUS
  <1> HIDE DEF state, kind, key
  <1>7. Kept'
    BY <1>1, <1>2, <1>3, <1>4, GrowKeeps
  <1>8. /\ head'.revision = head.revision + 1 /\ Len(ledger) = head.revision + 1
        /\ Len(ledger') = Len(ledger) + 1
        /\ \A n \in Entries : ledger'[n] = ledger[n]
        /\ ledger'[Len(ledger')] = [kind |-> kind, key |-> key, input |-> i,
                                    state |-> state, version |-> version]
        /\ Revisions' \subseteq 1..head'.revision
    BY <1>1, <1>2, <1>3, GrowFacts DEF IInv
  <1>9. Seen'
    BY <1>1, <1>2, <1>8, GrowReads DEF IInv, process
  <1>10. TypeOK'
    BY <1>1, <1>8 DEF IInv, TypeOK, process
  <1>11. OneVersion'
    <2>1. Entries' = Entries \cup {Len(ledger')} /\ Len(ledger') \notin Entries
      BY <1>8 DEF Entries, IInv, TypeOK
    <2>2. Unmigrated' => Unmigrated
      BY <2>1, <1>8 DEF Unmigrated
    <2>3. ASSUME Unmigrated' PROVE defined[p] = version
      BY <2>2, <2>3, <1>1 DEF IInv, OneVersion
    <2>4. ASSUME Unmigrated', NEW n \in Entries', ledger'[n].kind = "reset"
          PROVE  ledger'[n].state = Initial(version)
      <3>1. CASE n \in Entries
        BY <3>1, <2>2, <2>4, <1>8 DEF IInv, OneVersion
      <3>2. CASE n = Len(ledger')
        BY <3>2, <2>3, <2>4, <1>5, <1>8
      <3> QED BY <3>1, <3>2, <2>1
    <2>5. ASSUME Unmigrated', NEW q \in Stores, stage'[q] # "absent"
          PROVE  defined'[q] = version'
      BY <2>2, <2>5, <1>1 DEF IInv, OneVersion, process
    <2> QED BY <2>4, <2>5, <1>1, <1>2 DEF OneVersion
  <1> QED BY <1>7, <1>9, <1>10, <1>11

LEMMA CompactInv ==
  ASSUME IInv, NEW p \in Stores, NEW x, Compact(p, x)
  PROVE  /\ Kept' /\ Seen' /\ TypeOK' /\ OneVersion'
  <1> DEFINE key == <<"compact", head.revision + 1>>
  <1>1. /\ Appended(<<>>, "compact", key, "none", head.state)
        /\ Recorded("compact", key, "none", head.state, version)
        /\ version' = version /\ pruned' = Remembered /\ UNCHANGED process /\ stage[p] = "open"
    BY DEF Compact, Readable
  <1>2. version # 0 /\ version \in Versions
    BY <1>1 DEF IInv, OneVersion, TypeOK
  <1>3. DOMAIN <<>> = {}
    OBVIOUS
  <1>4. key[1] # "caller" /\ "compact" \notin Caller
    BY DEF Caller
  <1> HIDE DEF key
  <1>5. DOMAIN <<>> \subseteq Revisions /\ \A q \in DOMAIN <<>> : Same(<<>>[q], journal[q])
    BY <1>3
  <1>7. Kept'
    BY <1>1, <1>2, <1>3, <1>4, <1>5, GrowKeeps
  <1>8. /\ head'.revision = head.revision + 1 /\ Len(ledger) = head.revision + 1
        /\ Len(ledger') = Len(ledger) + 1
        /\ \A n \in Entries : ledger'[n] = ledger[n]
        /\ ledger'[Len(ledger')] = [kind |-> "compact", key |-> key, input |-> "none",
                                    state |-> head.state, version |-> version]
        /\ Revisions' \subseteq 1..head'.revision
    BY <1>1, <1>2, <1>5, GrowFacts DEF IInv
  <1>9. Seen'
    BY <1>1, <1>2, <1>8, GrowReads DEF IInv, process
  <1>10. TypeOK'
    BY <1>1, <1>8 DEF IInv, TypeOK, process
  <1>11. OneVersion'
    <2>1. Entries' = Entries \cup {Len(ledger')} /\ Len(ledger') \notin Entries
      BY <1>8 DEF Entries, IInv, TypeOK
    <2>2. Unmigrated' => Unmigrated
      BY <2>1, <1>8 DEF Unmigrated
    <2>3. ASSUME Unmigrated', NEW n \in Entries', ledger'[n].kind = "reset"
          PROVE  ledger'[n].state = Initial(version)
      BY <2>1, <2>2, <2>3, <1>8 DEF IInv, OneVersion
    <2>4. ASSUME Unmigrated', NEW q \in Stores, stage'[q] # "absent"
          PROVE  defined'[q] = version'
      BY <2>2, <2>4, <1>1 DEF IInv, OneVersion, process
    <2> QED BY <2>3, <2>4, <1>1, <1>2 DEF OneVersion
  <1> QED BY <1>7, <1>9, <1>10, <1>11

----------------------------------------------------------------------------
(* The other steps.                                                        *)

LEMMA SameKept ==
  ASSUME Kept, UNCHANGED database PROVE Kept'
  <1>1. UNCHANGED <<journal, head, pruned, version, ledger>>
    BY DEF database
  <1>2. Revisions' = Revisions /\ Entries' = Entries
    BY <1>1 DEF Revisions, Entries
  <1>3. Aligned' /\ Logged'
    BY <1>1, <1>2 DEF Kept, Aligned, Logged
  <1>4. Formed' /\ Covered' /\ KeysOnce'
    BY <1>1, <1>2 DEF Kept, Formed, Covered, KeysOnce
  <1> QED BY <1>3, <1>4 DEF Kept

LEMMA OpenInv ==
  ASSUME IInv, NEW p \in Stores, NEW v \in Versions, Open(p, v) PROVE IInv'
  <1>1. /\ driver[p] = "open" /\ driver' = driver /\ seen' = seen
        /\ stage' = [stage EXCEPT ![p] = "opening"] /\ defined' = [defined EXCEPT ![p] = v]
        /\ answer' = NoAnswer
    BY DEF Open
  <1>2. ClosedLeavesNothing' /\ RetryRecognised'
    BY <1>1 DEF IInv, TypeOK, ClosedLeavesNothing, RetryRecognised, NoAnswer
  <1>3. CASE Created(v)
    <2>1. /\ Kept' /\ Seen' /\ head'.revision = 0 /\ Revisions' = {} /\ version' = v
          /\ \A n \in Entries' : ledger'[n].kind = "initial"
      BY <1>1, <1>3, CreatedInv
    <2>2. TypeOK'
      BY <2>1, <1>1 DEF IInv, TypeOK
    <2>3. \A q \in Stores : q # p => stage[q] = "absent"
      BY <1>3 DEF IInv, OneVersion, Created
    <2>4. OneVersion'
      BY <2>1, <2>3, <1>1 DEF IInv, TypeOK, OneVersion
    <2> QED BY <2>1, <2>2, <2>4, <1>2 DEF IInv
  <1>4. CASE Verified(v)
    <2>1. version = v /\ UNCHANGED database /\ v # 0
      BY <1>4 DEF Verified
    <2>2. TypeOK'
      BY <2>1, <1>1 DEF IInv, TypeOK, database, Revisions
    <2>3. Kept' /\ Seen'
      <3>1. Kept'
        BY <2>1, SameKept DEF IInv
      <3>2. Seen'
        BY <2>1, <1>1 DEF IInv, Seen, database
      <3> QED BY <3>1, <3>2
    <2>4. OneVersion'
      BY <2>1, <1>1 DEF IInv, TypeOK, OneVersion, Unmigrated, Entries, database
    <2> QED BY <2>2, <2>3, <2>4, <1>2 DEF IInv
  <1>5. CASE Upgraded(v)
    <2>1. /\ Kept' /\ Seen' /\ head'.revision = head.revision + 1
          /\ Revisions' \subseteq 1..head'.revision /\ version' = v
          /\ \E n \in Entries' : ledger'[n].kind = "migrate"
      BY <1>1, <1>5, UpgradedInv
    <2>2. TypeOK'
      BY <2>1, <1>1 DEF IInv, TypeOK
    <2>3. OneVersion'
      BY <2>1 DEF OneVersion, Unmigrated
    <2> QED BY <2>1, <2>2, <2>3, <1>2 DEF IInv
  <1> QED BY <1>3, <1>4, <1>5 DEF Open

\* A step that leaves the database alone, opens no store and answers nothing
\* that says a key was misused.
LEMMA SameDatabase ==
  ASSUME IInv, UNCHANGED database,
         driver' \in [Stores -> {"open", "closing", "closed"}],
         stage' \in [Stores -> {"absent", "opening", "open"}],
         defined' \in [Stores -> {0} \cup Versions],
         \A q \in Stores : stage'[q] # "absent" => stage[q] # "absent" /\ defined'[q] = defined[q]
  PROVE  TypeOK' /\ Kept' /\ OneVersion'
  <1>1. TypeOK'
    BY DEF IInv, TypeOK, database, Revisions
  <1>2. Kept'
    BY SameKept DEF IInv
  <1>3. OneVersion'
    BY DEF IInv, TypeOK, OneVersion, Unmigrated, Entries, database
  <1> QED BY <1>1, <1>2, <1>3

LEMMA DriverInv ==
  ASSUME IInv, NEW p \in Stores,
         Register(p) \/ StoreClose(p) \/ DriverClose(p) \/ DriverClosed(p) \/ Restart(p)
  PROVE  IInv'
  <1> USE DEF Register, StoreClose, DriverClose, DriverClosed, Restart, Without, Registered
  <1>1. TypeOK
    BY DEF IInv
  <1>2. /\ driver' \in [Stores -> {"open", "closing", "closed"}]
        /\ stage' \in [Stores -> {"absent", "opening", "open"}]
        /\ defined' \in [Stores -> {0} \cup Versions]
        /\ \A q \in Stores : stage'[q] # "absent" => stage[q] # "absent" /\ defined'[q] = defined[q]
    BY <1>1 DEF TypeOK
  <1>3. UNCHANGED database /\ answer' = NoAnswer
    OBVIOUS
  <1>4. TypeOK' /\ Kept' /\ OneVersion'
    BY <1>2, <1>3, SameDatabase
  <1>5. seen' = seen \/ seen' = [seen EXCEPT ![p] = None]
    OBVIOUS
  <1>6. Seen'
    BY <1>3, <1>5 DEF IInv, Seen, database
  <1>7. RetryRecognised'
    BY <1>3 DEF RetryRecognised, NoAnswer
  <1>8. ClosedLeavesNothing'
    BY <1>1 DEF IInv, TypeOK, ClosedLeavesNothing, Settled
  <1> QED BY <1>4, <1>6, <1>7, <1>8 DEF IInv

\* A call that answers and writes nothing.
LEMMA AnswerInv ==
  ASSUME IInv, UNCHANGED database, UNCHANGED <<driver, stage, defined>>, Seen', RetryRecognised'
  PROVE  IInv'
  <1>1. TypeOK' /\ Kept' /\ OneVersion'
    BY SameDatabase DEF IInv, TypeOK
  <1>2. ClosedLeavesNothing'
    BY DEF IInv, ClosedLeavesNothing
  <1> QED BY <1>1, <1>2 DEF IInv

LEMMA ReplayInv ==
  ASSUME IInv, NEW p \in Stores, NEW k \in Keys, NEW i \in Calls, Replay(p, k, i)
  PROVE  IInv'
  <1>1. UNCHANGED <<database, process>> /\ stage[p] = "open"
    BY DEF Replay
  <1>2. Seen'
    BY <1>1 DEF IInv, Seen, database, process
  <1>3. RetryRecognised'
    <2> SUFFICES ASSUME answer'.outcome = "misused"
                 PROVE  \E n \in Entries :
                          /\ ledger[n].key = answer'.key
                          /\ \/ ledger[n].input # answer'.input
                             \/ answer'.input = "reset" /\ ~Unmigrated
      BY <1>1 DEF RetryRecognised, Entries, Unmigrated, database
    <2>1. answer'.key = CallerKey(k) /\ answer'.input = i
      BY DEF Replay, Answered
    <2>2. ASSUME NEW n \in Entries, ledger[n].key = CallerKey(k),
                 Canonical(ledger[n]) # CanonicalCall(p, i), ledger[n].input = i
          PROVE  i = "reset" /\ ~Unmigrated
      <3>1. /\ ledger[n].kind \in Caller
            /\ ledger[n].kind = "reset" <=> i = "reset"
        BY <2>2 DEF CallerKey, IInv, Kept, Formed
      <3>2. i = "reset"
        BY <2>2, <3>1 DEF Canonical, CanonicalCall, Caller
      <3>3. ASSUME Unmigrated PROVE FALSE
        <4>1. ledger[n].state = Initial(version) /\ defined[p] = version
          BY <3>1, <3>2, <3>3, <1>1 DEF IInv, OneVersion
        <4> QED BY <2>2, <3>1, <3>2, <4>1 DEF Canonical, CanonicalCall
      <3> QED BY <3>2, <3>3
    <2>3. CASE \E r \in Committed(k) : Canonical(journal[r]) # CanonicalCall(p, i)
      <3>1. PICK r \in Revisions : /\ journal[r].key = CallerKey(k)
                                   /\ Canonical(journal[r]) # CanonicalCall(p, i)
        BY <2>3 DEF Committed
      <3>2. Same(journal[r], ledger[r + 1]) /\ r + 1 \in Entries
        BY <1>1 DEF IInv, Kept, Logged, Aligned, OneVersion, TypeOK, Entries
      <3>3. Canonical(journal[r]) = Canonical(ledger[r + 1])
        BY <3>2 DEF Same, Canonical
      <3> QED BY <3>1, <3>2, <3>3, <2>1, <2>2 DEF Same
    <2>4. CASE \E e \in PrunedAs(k) : e.input # CanonicalCall(p, i)
      <3>1. PICK e \in pruned : e.key = CallerKey(k) /\ e.input # CanonicalCall(p, i)
        BY <2>4 DEF PrunedAs
      <3>2. /\ e.revision + 1 \in Entries
            /\ ledger[e.revision + 1].key = e.key
            /\ e.input = Canonical(ledger[e.revision + 1])
        BY DEF IInv, Kept, Logged, Aligned, TypeOK, Entries
      <3> QED BY <3>1, <3>2, <2>1, <2>2
    <2> QED BY <2>3, <2>4 DEF Replay, Answered
  <1> QED BY <1>1, <1>2, <1>3, AnswerInv DEF process

LEMMA CallInv ==
  ASSUME IInv, NEW p \in Stores, UNCHANGED database, UNCHANGED <<driver, stage, defined>>,
         answer'.outcome # "misused",
         \/ UNCHANGED seen
         \/ stage[p] = "open" /\ seen' = [seen EXCEPT ![p] = head]
  PROVE  IInv'
  <1>1. RetryRecognised'
    BY DEF RetryRecognised
  <1>2. Seen'
    <2>1. stage[p] = "open" => version # 0
      BY DEF IInv, OneVersion
    <2>2. version # 0 => /\ head.revision \in 0..head.revision
                         /\ ledger[head.revision + 1].state = head.state
      BY DEF IInv, Kept, Aligned, TypeOK
    <2> QED BY <2>1, <2>2 DEF IInv, Seen, database
  <1> QED BY <1>1, <1>2, AnswerInv

LEMMA NextInv == IInv /\ [Next]_vars => IInv'
  <1> SUFFICES ASSUME IInv, [Next]_vars PROVE IInv'
    OBVIOUS
  <1>1. CASE UNCHANGED vars
    <2>1. TypeOK' /\ Kept' /\ OneVersion'
      BY <1>1, SameDatabase DEF vars, database, IInv, TypeOK
    <2>2. Seen' /\ ClosedLeavesNothing' /\ RetryRecognised'
      BY <1>1 DEF vars, IInv, Seen, ClosedLeavesNothing, RetryRecognised
    <2> QED BY <2>1, <2>2 DEF IInv
  <1>2. ASSUME NEW p \in Stores, Step(p) PROVE IInv'
    <2>1. ASSUME NEW v \in Versions, Open(p, v) PROVE IInv'
      BY <2>1, OpenInv
    <2>2. CASE Register(p) \/ StoreClose(p) \/ DriverClose(p) \/ DriverClosed(p) \/ Restart(p)
      BY <2>2, DriverInv
    <2>3. ASSUME NEW k \in Keys, NEW i \in Calls, Replay(p, k, i) PROVE IInv'
      BY <2>3, ReplayInv
    <2>4. ASSUME NEW k \in Keys, NEW i \in Calls, NEW e \in Expectations(p), Commit(p, k, i, e)
          PROVE  IInv'
      <3>1. Kept' /\ Seen' /\ TypeOK' /\ OneVersion'
        BY <2>4, CommitInv
      <3>2. ClosedLeavesNothing' /\ RetryRecognised'
        BY <2>4 DEF Commit, process, Answered, IInv, ClosedLeavesNothing, RetryRecognised
      <3> QED BY <3>1, <3>2 DEF IInv
    <2>5. ASSUME NEW k \in Keys, NEW i \in Calls, NEW e \in Expectations(p), Conflict(p, k, i, e)
          PROVE  IInv'
      BY <2>5, CallInv DEF Conflict, Answered, process
    <2>6. ASSUME NEW e \in Expectations(p), Compact(p, e) PROVE IInv'
      <3>1. Kept' /\ Seen' /\ TypeOK' /\ OneVersion'
        BY <2>6, CompactInv
      <3>2. ClosedLeavesNothing' /\ RetryRecognised'
        BY <2>6 DEF Compact, process, NoAnswer, IInv, ClosedLeavesNothing, RetryRecognised
      <3> QED BY <3>1, <3>2 DEF IInv
    <2>7. CASE Read(p)
      BY <2>7, CallInv DEF Read, Readable, Answered
    <2>8. CASE Refuse(p)
      BY <2>8, CallInv DEF Refuse, NoAnswer, process
    <2>9. ASSUME NEW r \in 0..head.revision, ReadAt(p, r) PROVE IInv'
      BY <2>9, CallInv DEF ReadAt, Answered, NoAnswer, process
    <2>10. ASSUME NEW r, NEW limit, Changes(p, r, limit) PROVE IInv'
      <3>1. answer'.outcome = "changes" /\ UNCHANGED <<database, process>>
        BY <2>10 DEF Changes, NoAnswer
      <3> QED BY <3>1, CallInv DEF process
    <2> QED BY <1>2, <2>1, <2>2, <2>3, <2>4, <2>5, <2>6, <2>7, <2>8, <2>9, <2>10 DEF Step
  <1> QED BY <1>1, <1>2 DEF Next

----------------------------------------------------------------------------
THEOREM Invariance == Spec => []IInv
  BY InitInv, NextInv, PTL DEF Spec

\* Every variable keeps its type, and the retained revisions are revisions of
\* the head or before.
THEOREM TypeCorrect == Spec => []TypeOK
  <1>1. IInv => TypeOK
    BY DEF IInv
  <1> QED BY Invariance, <1>1, PTL

\* A caller's key takes effect at most once (sqlite.ts, #commit).
THEOREM AtMostOnce == Spec => []KeysOnce
  <1>1. IInv => KeysOnce
    BY DEF IInv, Kept
  <1> QED BY Invariance, <1>1, PTL

\* A retry is recognised (sqlite.ts, #commit, #committedByKey).
THEOREM RetriesRecognised == Spec => []RetryRecognised
  <1>1. IInv => RetryRecognised
    BY DEF IInv
  <1> QED BY Invariance, <1>1, PTL

\* A closed driver leaves no store (sqlite.ts, close).
THEOREM NoStoreLeft == Spec => []ClosedLeavesNothing
  <1>1. IInv => ClosedLeavesNothing
    BY DEF IInv
  <1> QED BY Invariance, <1>1, PTL

\* A conditional commit is computed from what its caller read (sqlite.ts,
\* #commit, expectedRevision).
THEOREM ConditionalAlways == Spec => ConditionalOnSeen
  <1>1. ASSUME IInv, NEW p \in Stores, NEW k \in Keys, NEW i \in Calls,
               seen[p] # None, Commit(p, k, i, seen[p].revision)
        PROVE  answer'.state = Apply(defined[p], seen[p].state, i)
    <2>1. /\ version # 0 /\ seen[p].revision \in 0..head.revision
          /\ ledger[seen[p].revision + 1].state = seen[p].state
          /\ ledger[head.revision + 1].state = head.state
      BY <1>1 DEF IInv, Seen, Kept, Aligned
    <2>2. seen[p].revision \in {None, head.revision}
      BY <1>1 DEF Commit, Expected
    <2>3. seen[p].revision = head.revision
      BY <2>1, <2>2
    <2>4. seen[p].state = head.state
      BY <2>1, <2>3
    <2>5. answer'.state = Apply(defined[p], head.state, i)
      BY <1>1 DEF Commit, Answered
    <2> QED BY <2>4, <2>5
  <1>2. IInv => [answer'.outcome = "committed" =>
          \A p \in Stores, k \in Keys, i \in Calls :
            seen[p] # None /\ Commit(p, k, i, seen[p].revision)
              => answer'.state = Apply(defined[p], seen[p].state, i)]_vars
    BY <1>1
  <1> QED BY Invariance, <1>2, PTL DEF ConditionalOnSeen

----------------------------------------------------------------------------
(* Migrations.  An upgrade takes a stored result through the versions one  *)
(* after the other, and several upgrades are one (journal.ts,              *)
(* runStateMigrations): what a recursive function computes is established  *)
(* by the least version at which it would not.                             *)

\* A set of numbers has a least one.
LEMMA LeastNumber ==
  ASSUME NEW S \in SUBSET Nat, S # {}
  PROVE  \E x \in S : \A y \in S : x <= y
  <1> DEFINE R == {p \in Nat \X Nat : p[1] < p[2]}
  <1>1. IsWellFoundedOn(R, Nat)
    BY NatLessThanWellFounded DEF OpToRel
  <1>2. \E x \in S : \A y \in S : ~(<<y, x>> \in R)
    <2> HIDE DEF R
    <2> QED BY <1>1, WFMin
  <1>3. ASSUME NEW x \in S, NEW y \in S, ~(<<y, x>> \in R)
        PROVE  x <= y
    <2>1. <<y, x>> \in Nat \X Nat /\ <<y, x>>[1] = y /\ <<y, x>>[2] = x
      OBVIOUS
    <2> QED BY <1>3, <2>1
  <1> QED BY <1>2, <1>3

\* h is the state of each version from f to t, s being the one of f.
IsMigration(h, f, t, s) ==
    h = [v \in f..t |-> IF v = f THEN s ELSE Upgrade(v, h[v - 1])]

LEMMA MigrationSteps ==
  ASSUME NEW f \in Nat, NEW t \in Nat, NEW s, NEW h, IsMigration(h, f, t, s)
  PROVE  /\ f <= t => h[f] = s
         /\ \A v \in (f + 1)..t : h[v] = Upgrade(v, h[v - 1])
  <1>1. \A v \in f..t : h[v] = IF v = f THEN s ELSE Upgrade(v, h[v - 1])
    BY DEF IsMigration
  <1> QED BY <1>1

LEMMA MigrationUnique ==
  ASSUME NEW f \in Nat, NEW t \in Nat, NEW s, NEW h, NEW g,
         IsMigration(h, f, t, s), IsMigration(g, f, t, s)
  PROVE  \A v \in f..t : h[v] = g[v]
  <1> DEFINE D == {v \in f..t : h[v] # g[v]}
  <1> SUFFICES ASSUME D # {} PROVE FALSE
    OBVIOUS
  <1>1. PICK d \in D : \A v \in D : d <= v
    <2>1. D \in SUBSET Nat
      OBVIOUS
    <2> HIDE DEF D
    <2> QED BY <2>1, LeastNumber
  <1>2. /\ f <= t => h[f] = s /\ g[f] = s
        /\ \A v \in (f + 1)..t : h[v] = Upgrade(v, h[v - 1]) /\ g[v] = Upgrade(v, g[v - 1])
    BY MigrationSteps
  <1>3. d \in f..t /\ h[d] # g[d] /\ d # f
    BY <1>2
  <1>4. d - 1 \in f..t /\ d - 1 \notin D /\ d \in (f + 1)..t
    <2>1. d - 1 \in f..t /\ ~(d <= d - 1) /\ d \in (f + 1)..t
      BY <1>3
    <2> HIDE DEF D
    <2> QED BY <1>1, <2>1
  <1>5. h[d - 1] = g[d - 1]
    BY <1>4
  <1> HIDE DEF D
  <1> QED BY <1>2, <1>3, <1>4, <1>5

LEMMA MigrationExists ==
  ASSUME NEW f \in Nat, NEW s, NEW m \in Nat
  PROVE  \E h : IsMigration(h, f, f + m, s)
  <1> DEFINE D == {n \in Nat : ~\E h : IsMigration(h, f, f + n, s)}
  <1> SUFFICES ASSUME D # {} PROVE FALSE
    OBVIOUS
  <1>1. PICK d \in D : \A n \in D : d <= n
    <2>1. D \in SUBSET Nat
      OBVIOUS
    <2> HIDE DEF D
    <2> QED BY <2>1, LeastNumber
  <1>2. d # 0
    <2> DEFINE g == [v \in f..f |-> s]
    <2>1. g = [v \in f..f |-> IF v = f THEN s ELSE Upgrade(v, g[v - 1])]
      OBVIOUS
    <2>2. IsMigration(g, f, f, s)
      <3> HIDE DEF g
      <3> QED BY <2>1 DEF IsMigration
    <2>3. f + 0 = f
      OBVIOUS
    <2> HIDE DEF g
    <2> QED BY <2>2, <2>3
  <1>3. d \in Nat /\ d - 1 \in Nat /\ d - 1 \notin D
    <2>1. d \in Nat
      OBVIOUS
    <2>2. d - 1 \in Nat /\ ~(d <= d - 1)
      BY <1>2, <2>1
    <2> HIDE DEF D
    <2> QED BY <1>1, <2>1, <2>2
  <1>4. PICK h : IsMigration(h, f, f + (d - 1), s)
    BY <1>3
  <1>5. /\ h[f] = s
        /\ \A v \in (f + 1)..(f + (d - 1)) : h[v] = Upgrade(v, h[v - 1])
    BY <1>3, <1>4, MigrationSteps
  <1> DEFINE t == f + d
             g == [v \in f..t |-> IF v = t THEN Upgrade(v, h[v - 1]) ELSE h[v]]
  <1>6. ASSUME NEW v \in f..t
        PROVE  g[v] = IF v = f THEN s ELSE Upgrade(v, g[v - 1])
    <2>1. CASE v = f
      BY <2>1, <1>2, <1>3, <1>5
    <2>2. CASE v # f /\ v # t
      <3>1. v \in (f + 1)..(f + (d - 1)) /\ v - 1 \in f..t /\ v - 1 # t
        BY <2>2, <1>3
      <3> QED BY <2>2, <3>1, <1>5
    <2>3. CASE v = t
      <3>1. v - 1 \in f..t /\ v - 1 # t /\ v # f
        BY <2>3, <1>2, <1>3
      <3> QED BY <2>3, <3>1
    <2> QED BY <2>1, <2>2, <2>3
  <1>7. g = [v \in f..t |-> g[v]]
    OBVIOUS
  <1>8. IsMigration(g, f, t, s)
    <2> HIDE DEF g
    <2> QED BY <1>6, <1>7 DEF IsMigration
  <1> HIDE DEF g
  <1> QED BY <1>8

\* A migration is what its steps say.
LEMMA MigratedIs ==
  ASSUME NEW f \in Nat, NEW t \in Nat, f <= t, NEW s, NEW h, IsMigration(h, f, t, s)
  PROVE  Migrated(f, t, s) = h[t]
  <1> DEFINE g == CHOOSE x : IsMigration(x, f, t, s)
  <1>1. IsMigration(g, f, t, s)
    OBVIOUS
  <1>2. Migrated(f, t, s) = g[t]
    BY DEF Migrated, IsMigration
  <1> HIDE DEF g
  <1>3. t \in f..t
    OBVIOUS
  <1> QED BY <1>1, <1>2, <1>3, MigrationUnique

\* To the version a state is of, it stays what it is.
LEMMA MigratedSame ==
  ASSUME NEW v \in Nat, NEW s
  PROVE  Migrated(v, v, s) = s
  <1>1. PICK h : IsMigration(h, v, v, s)
    <2>1. v + 0 = v
      OBVIOUS
    <2> QED BY <2>1, MigrationExists
  <1>2. h[v] = s
    BY <1>1, MigrationSteps
  <1> QED BY <1>1, <1>2, MigratedIs

\* Two upgrades are one.
LEMMA MigratedTwice ==
  ASSUME NEW e \in Nat, NEW f \in Nat, NEW t \in Nat, e <= f, f <= t, NEW s
  PROVE  Migrated(f, t, Migrated(e, f, s)) = Migrated(e, t, s)
  <1>1. PICK h : IsMigration(h, e, t, s)
    <2>1. t - e \in Nat /\ e + (t - e) = t
      OBVIOUS
    <2> QED BY <2>1, MigrationExists
  <1>2. /\ h[e] = s
        /\ \A v \in (e + 1)..t : h[v] = Upgrade(v, h[v - 1])
    BY <1>1, MigrationSteps
  <1> DEFINE a == [v \in e..f |-> h[v]]
             b == [v \in f..t |-> h[v]]
  <1>3. IsMigration(a, e, f, s)
    <2>1. ASSUME NEW v \in e..f PROVE h[v] = IF v = e THEN s ELSE Upgrade(v, a[v - 1])
      <3>1. v # e => v \in (e + 1)..t /\ v - 1 \in e..f
        OBVIOUS
      <3> QED BY <3>1, <1>2
    <2> QED BY <2>1 DEF IsMigration
  <1>4. IsMigration(b, f, t, h[f])
    <2>1. ASSUME NEW v \in f..t PROVE h[v] = IF v = f THEN h[f] ELSE Upgrade(v, b[v - 1])
      <3>1. v # f => v \in (e + 1)..t /\ v - 1 \in f..t
        OBVIOUS
      <3> QED BY <3>1, <1>2
    <2> QED BY <2>1 DEF IsMigration
  <1>5. a[f] = h[f] /\ b[t] = h[t]
    OBVIOUS
  <1> HIDE DEF a, b
  <1>6. Migrated(e, f, s) = h[f]
    BY <1>3, <1>5, MigratedIs
  <1>7. Migrated(f, t, h[f]) = h[t]
    BY <1>4, <1>5, MigratedIs
  <1>8. Migrated(e, t, s) = h[t]
    <2>1. e <= t
      OBVIOUS
    <2> QED BY <2>1, <1>1, MigratedIs
  <1> QED BY <1>6, <1>7, <1>8

----------------------------------------------------------------------------
(* The journal and the ledger.  Reopens and the answers read from the      *)
(* journal need more than Kept: that the retained records are the last     *)
(* ones, with their results at the version of now (Retained), that no two  *)
(* entries share a key (Named), of which version an entry is (Told), and   *)
(* that every event was reduced by the version it is of (Reduced).         *)

Kinds == {"initial", "event", "reset", "migrate", "compact"}

Told ==
    /\ \A n \in Entries :
          /\ ledger[n].kind \in Kinds /\ (ledger[n].kind = "initial" <=> n = 1)
          /\ ledger[n].version \in Versions /\ ledger[n].version <= version
    /\ version # 0 => ledger[1].key = <<"none">> /\ ledger[1].state = Initial(ledger[1].version)
    /\ \A n \in Entries :
          (\A m \in Entries : m > n => ledger[m].kind # "migrate") => ledger[n].version = version

Named ==
    /\ \A n \in Entries : ledger[n].kind = "migrate" => ledger[n].key = <<"migrate", ledger[n].version>>
    /\ \A n \in Entries : ledger[n].kind = "compact" => ledger[n].key = <<"compact", n - 1>>
    /\ \A m, n \in Entries : ledger[m].key = ledger[n].key => m = n

Since(lo) ==
    /\ Revisions = lo..head.revision
    /\ lo = 1 \/ (lo \in Revisions /\ journal[lo].kind = "compact")

Retained ==
    /\ \E lo \in 1..(head.revision + 1) : Since(lo)
    /\ \A r \in Revisions :
          journal[r].result = Migrated(ledger[r + 1].version, version, ledger[r + 1].state)

Reduced ==
    \A n \in Entries : ledger[n].kind = "event" =>
        ledger[n].state = Reduce(ledger[n].version, ledger[n - 1].state, ledger[n].input)

Story == Told /\ Named /\ Retained

LEMMA GreatestNumber ==
  ASSUME NEW n \in Nat, NEW S \in SUBSET (0..n), S # {}
  PROVE  \E x \in S : \A y \in S : y <= x
  <1> DEFINE T == {n - x : x \in S}
  <1>1. PICK d \in T : \A y \in T : d <= y
    <2>1. \A x \in S : n - x \in Nat
      OBVIOUS
    <2>2. T \in SUBSET Nat /\ T # {}
      BY <2>1
    <2> HIDE DEF T
    <2> QED BY <2>2, LeastNumber
  <1>2. PICK x \in S : d = n - x
    BY <1>1
  <1>3. \A y \in S : n - x <= n - y
    BY <1>1, <1>2
  <1> QED BY <1>3

LEMMA LastFacts ==
  ASSUME NEW n \in Nat, NEW S \in SUBSET (0..n)
  PROVE  /\ S = {} => Last(S) = 0
         /\ S # {} => Last(S) \in S
         /\ \A q \in S : q <= Last(S)
         /\ Last(S) \in 0..n
  <1>1. CASE S = {}
    BY <1>1 DEF Last
  <1>2. CASE S # {}
    <2>1. \E x \in S : \A y \in S : y <= x
      BY <1>2, GreatestNumber
    <2>2. Last(S) = CHOOSE r \in S : \A q \in S : q <= r
      BY <1>2 DEF Last
    <2>3. Last(S) \in S /\ \A q \in S : q <= Last(S)
      BY <2>1, <2>2
    <2> QED BY <1>2, <2>3
  <1> QED BY <1>1, <1>2

LEMMA FirstFacts ==
  ASSUME NEW lo \in Nat, NEW n \in Nat, Revisions = lo..n, lo <= n
  PROVE  First = lo
  <1>1. lo \in Revisions /\ \A q \in Revisions : lo <= q
    BY SMT
  <1>2. First \in Revisions /\ \A q \in Revisions : First <= q
    BY <1>1 DEF First
  <1>3. First \in lo..n /\ First <= lo
    BY <1>1, <1>2
  <1> QED BY <1>3

\* f is the states of a stretch of the journal without a baseline, from b on.
Stretch(v, b, r, f) == \A q \in (b + 1)..r : f[q] = Reduce(v, f[q - 1], journal[q].input)

LEMMA StretchUnique ==
  ASSUME NEW v, NEW b \in Nat, NEW r \in Nat, b <= r, NEW f, NEW g,
         Stretch(v, b, r, f), Stretch(v, b, r, g), f[b] = g[b]
  PROVE  f[r] = g[r]
  <1> DEFINE D == {q \in b..r : f[q] # g[q]}
  <1>2. ASSUME D # {} PROVE FALSE
    <2>1. PICK d \in D : \A q \in D : d <= q
      <3>1. D \in SUBSET Nat
        OBVIOUS
      <3> HIDE DEF D
      <3> QED BY <3>1, <1>2, LeastNumber
    <2>2. d \in b..r /\ f[d] # g[d] /\ d # b
      OBVIOUS
    <2>3. d - 1 \in b..r /\ d - 1 \notin D /\ d \in (b + 1)..r
      <3>1. d - 1 \in b..r /\ ~(d <= d - 1) /\ d \in (b + 1)..r
        BY <2>2
      <3> HIDE DEF D
      <3> QED BY <2>1, <3>1
    <2>4. f[d - 1] = g[d - 1]
      BY <2>3
    <2> HIDE DEF D
    <2> QED BY <2>2, <2>3, <2>4 DEF Stretch
  <1>3. r \in b..r
    OBVIOUS
  <1> QED BY <1>2, <1>3

\* replayTo: a revision the journal still tells is replayed to the state the
\* ledger says it was committed with, and is of the version of now.
LEMMA ReplayTells ==
  ASSUME IInv, Story, Reduced, version # 0, NEW r \in 0..head.revision, Available(r)
  PROVE  Replayed(version, r) = ledger[r + 1].state /\ ledger[r + 1].version = version
  <1>1. /\ head.revision \in Nat /\ Revisions \subseteq 1..head.revision /\ r \in Nat
        /\ Entries = 1..(head.revision + 1)
        /\ \A q \in Revisions : Same(journal[q], ledger[q + 1])
    BY DEF IInv, TypeOK, Kept, Aligned, Logged, Entries
  <1>2. PICK lo \in 1..(head.revision + 1) : Since(lo)
    BY DEF Story, Retained
  <1>3. lo > 1 => lo <= head.revision /\ journal[lo].kind = "compact" /\ lo <= r
    <2>1. ASSUME lo > 1
          PROVE  lo <= head.revision /\ journal[lo].kind = "compact" /\ lo \in Revisions
      BY <1>1, <1>2, <2>1 DEF Since
    <2>2. ASSUME lo > 1 PROVE lo <= r
      <3>1. First = lo
        BY <1>1, <1>2, <2>1, <2>2, FirstFacts DEF Since
      <3> QED BY <2>1, <2>2, <3>1 DEF Available
    <2> QED BY <2>1, <2>2
  <1>4. \A q \in Revisions : journal[q].kind = "migrate" => q <= r
    <2> DEFINE M == {q \in Revisions : journal[q].kind = "migrate"}
    <2>1. M \in SUBSET (0..head.revision)
      <3>1. \A q \in 1..head.revision : q \in 0..head.revision
        BY <1>1
      <3> QED BY <1>1, <3>1, Zenon
    <2>2. \A q \in M : q <= Last(M)
      <3> HIDE DEF M
      <3> QED BY <1>1, <2>1, LastFacts
    <2>3. LatestMigration = Last(M)
      BY DEF LatestMigration
    <2>4. Last(M) \in 0..head.revision
      <3> HIDE DEF M
      <3> QED BY <1>1, <2>1, LastFacts
    <2>5. r >= Last(M)
      BY <2>3 DEF Available
    <2> QED BY <1>1, <2>2, <2>4, <2>5
  <1>5. \A q \in lo..head.revision : q \in Revisions
    BY <1>2 DEF Since
  <1>6. ASSUME NEW q \in Nat, q <= r, q = 0 \/ q \in Revisions,
               \A x \in Revisions : q < x /\ x <= r => ~IsBaseline(x),
               q >= lo \/ lo = 1
        PROVE  ledger[q + 1].version = version
    <2>1. q + 1 \in Entries
      BY <1>1, <1>6
    <2>2. ASSUME NEW m \in Entries, m > q + 1, ledger[m].kind = "migrate" PROVE FALSE
      <3>1. m - 1 \in Revisions
        BY <1>1, <1>5, <1>6, <2>2
      <3>2. journal[m - 1].kind = "migrate"
        <4>1. Same(journal[m - 1], ledger[m]) 
          <5>1. (m - 1) + 1 = m
            BY <1>1
          <5> QED BY <1>1, <3>1, <5>1
        <4> QED BY <4>1, <2>2 DEF Same
      <3>3. m - 1 <= r /\ q < m - 1
        BY <1>1, <1>4, <1>6, <2>2, <3>1, <3>2
      <3> QED BY <1>6, <3>1, <3>2, <3>3 DEF IsBaseline
    <2> QED BY <2>1, <2>2 DEF Story, Told
  <1> DEFINE B == {q \in Revisions : q <= r /\ IsBaseline(q)}
             base == Last(B)
             from == IF base = 0 THEN Initial(version) ELSE journal[base].state
             g == [q \in 0..r |-> ledger[q + 1].state]
  <1>7. /\ B = {} => base = 0
        /\ B # {} => base \in B
        /\ \A q \in B : q <= base
        /\ base \in 0..r
    <2>1. B \in SUBSET (0..r)
      <3>1. \A q \in 1..head.revision : q <= r => q \in 0..r
        BY <1>1
      <3> QED BY <1>1, <3>1, Zenon
    <2> HIDE DEF B
    <2> QED BY <1>1, <2>1, LastFacts
  <1>8. /\ base \in Nat /\ base <= r /\ (base = 0 \/ base \in Revisions)
        /\ \A x \in Revisions : base < x /\ x <= r => ~IsBaseline(x)
        /\ base >= lo \/ lo = 1
    <2>1. base \in Nat /\ base <= r /\ (base = 0 \/ base \in Revisions)
      BY <1>1, <1>7
    <2>2. ASSUME NEW x \in Revisions, base < x, x <= r PROVE ~IsBaseline(x)
      <3>1. x \in B => x <= base
        <4> HIDE DEF B
        <4> QED BY <1>7
      <3>2. x \notin B
        <4>1. x \in Nat
          BY <1>1
        <4> HIDE DEF B, base
        <4> QED BY <3>1, <2>1, <2>2, <4>1
      <3> QED BY <2>2, <3>2
    <2>3. ASSUME lo > 1 PROVE lo <= base
      <3>1. lo \in B
        BY <1>1, <1>3, <1>5, <2>3 DEF IsBaseline
      <3> HIDE DEF B
      <3> QED BY <1>7, <3>1
    <2>4. lo > 1 \/ lo = 1
      OBVIOUS
    <2> HIDE DEF B, base
    <2> QED BY <1>1, <2>1, <2>2, <2>3, <2>4
  <1>9. from = ledger[base + 1].state
    <2>1. CASE base = 0
      <3>1. ledger[0 + 1].version = version
        BY <2>1, <1>6, <1>8
      <3>2. ledger[1].state = Initial(ledger[1].version)
        BY DEF Story, Told
      <3>3. 0 + 1 = 1
        OBVIOUS
      <3> QED BY <2>1, <3>1, <3>2, <3>3
    <2>2. CASE base # 0
      <3>1. Same(journal[base], ledger[base + 1])
        BY <2>2, <1>1, <1>8
      <3> QED BY <2>2, <3>1 DEF Same
    <2> QED BY <2>1, <2>2
  <1>10. ASSUME NEW q \in (base + 1)..r
         PROVE  g[q] = Reduce(version, g[q - 1], journal[q].input) /\ ledger[q + 1].version = version
    <2>1. /\ q \in Revisions /\ q \in 0..r /\ q - 1 \in 0..r /\ base < q /\ q <= r
          /\ (q - 1) + 1 = q /\ (q + 1) - 1 = q /\ q + 1 \in Entries
          /\ q >= lo \/ lo = 1
      <3> HIDE DEF base
      <3> QED BY <1>1, <1>5, <1>8
    <2>2. Same(journal[q], ledger[q + 1]) /\ journal[q].kind = "event"
      BY <1>1, <1>8, <2>1 DEF IsBaseline
    <2>3. ledger[q + 1].state = Reduce(ledger[q + 1].version, ledger[q].state, ledger[q + 1].input)
      <3>1. ledger[q + 1].kind = "event"
        BY <2>2 DEF Same
      <3> QED BY <2>1, <3>1 DEF Reduced
    <2>4. ledger[q + 1].version = version
      <3>1. \A x \in Revisions : q < x /\ x <= r => ~IsBaseline(x)
        <4>1. \A x \in Revisions : q < x => base < x
          <5> HIDE DEF base
          <5> QED BY <1>1, <1>8, <2>1
        <4> QED BY <4>1, <1>8
      <3> QED BY <1>6, <2>1, <3>1
    <2>5. g[q] = ledger[q + 1].state /\ g[q - 1] = ledger[q].state
      BY <2>1
    <2>6. journal[q].input = ledger[q + 1].input
      BY <2>2 DEF Same
    <2> HIDE DEF g
    <2> QED BY <2>3, <2>4, <2>5, <2>6
  <1> DEFINE f == CHOOSE f : f = [q \in base..r |->
                     IF q = base THEN from ELSE Reduce(version, f[q - 1], journal[q].input)]
  <1>11. Replayed(version, r) = f[r]
    BY DEF Replayed
  <1>12. f = [q \in base..r |-> IF q = base THEN from ELSE Reduce(version, f[q - 1], journal[q].input)]
    <2> DEFINE h == [q \in base..r |-> ledger[q + 1].state]
    <2>1. ASSUME NEW q \in base..r
          PROVE  ledger[q + 1].state = IF q = base THEN from ELSE Reduce(version, h[q - 1], journal[q].input)
      <3>1. CASE q = base
        BY <3>1, <1>9
      <3>2. CASE q # base
        <4>1. q \in (base + 1)..r /\ q - 1 \in base..r /\ q - 1 \in 0..r /\ q \in 0..r
              /\ (q - 1) + 1 = q
          <5> HIDE DEF base
          <5> QED BY <3>2, <1>1, <1>8
        <4>2. g[q] = Reduce(version, g[q - 1], journal[q].input)
          BY <4>1, <1>10
        <4>3. g[q] = ledger[q + 1].state /\ g[q - 1] = ledger[q].state /\ h[q - 1] = ledger[q].state
          BY <4>1
        <4> HIDE DEF g, h
        <4> QED BY <3>2, <4>2, <4>3
      <3> QED BY <3>1, <3>2
    <2>2. h = [q \in base..r |-> IF q = base THEN from ELSE Reduce(version, h[q - 1], journal[q].input)]
      <3>1. h = [q \in base..r |-> ledger[q + 1].state]
        OBVIOUS
      <3> HIDE DEF h, base, from
      <3> QED BY <2>1, <3>1
    <2> HIDE DEF h, base, from
    <2> QED BY <2>2
  <1>13. g[base] = from /\ g[r] = ledger[r + 1].state
    <2>1. base \in 0..r /\ r \in 0..r
      BY <1>1, <1>7
    <2> HIDE DEF base, from
    <2> QED BY <1>9, <2>1
  <1>14. f[r] = g[r]
    <2>1. Stretch(version, base, r, g)
      BY <1>10 DEF Stretch
    <2>2. base \in Nat /\ base <= r /\ r \in Nat
      BY <1>1, <1>8
    <2>3. f[base] = from /\ Stretch(version, base, r, f)
      <3>1. \A q \in base..r : f[q] = IF q = base THEN from ELSE Reduce(version, f[q - 1], journal[q].input)
        <4> HIDE DEF base, from, f
        <4> QED BY <1>12
      <3> HIDE DEF base, from, f
      <3> QED BY <2>2, <3>1 DEF Stretch
    <2> HIDE DEF base, from, f, g
    <2>4. f[base] = g[base] /\ Stretch(version, base, r, f)
      BY <1>13, <2>3
    <2> QED BY <2>1, <2>2, <2>4, StretchUnique
  <1>15. ledger[r + 1].version = version
    <2>1. CASE r = base
      <3>1. ledger[base + 1].version = version
        <4> HIDE DEF base
        <4> QED BY <1>6, <1>8
      <3> HIDE DEF base
      <3> QED BY <2>1, <3>1
    <2>2. CASE r # base
      <3>1. r \in (base + 1)..r
        <4> HIDE DEF base
        <4> QED BY <2>2, <1>1, <1>8
      <3> QED BY <3>1, <1>10
    <2> QED BY <2>1, <2>2
  <1> HIDE DEF f, g
  <1> QED BY <1>11, <1>13, <1>14, <1>15

\* initialize: what the database holds passes the checks of the next open.
LEMMA StoryReopens ==
  ASSUME IInv, Story, Reduced PROVE Reopens
  <1> SUFFICES ASSUME version # 0, NEW v \in Versions, v >= version PROVE Consistent(v)
    BY DEF Reopens
  <1>1. /\ head.revision \in Nat /\ Revisions \subseteq 1..head.revision
        /\ Entries = 1..(head.revision + 1) /\ version \in Nat
        /\ \A q \in Revisions : Same(journal[q], ledger[q + 1])
        /\ ledger[head.revision + 1].state = head.state
    BY DEF IInv, TypeOK, Kept, Aligned, Logged, Entries
  <1>2. PICK lo \in 1..(head.revision + 1) : Since(lo)
    BY DEF Story, Retained
  <1>3. Last(Revisions) = head.revision
    <2>1. Revisions \in SUBSET (0..head.revision)
      <3>1. \A q \in 1..head.revision : q \in 0..head.revision
        BY <1>1
      <3> QED BY <1>1, <3>1, Zenon
    <2>2. /\ Revisions = {} => Last(Revisions) = 0
          /\ \A q \in Revisions : q <= Last(Revisions)
          /\ Last(Revisions) \in 0..head.revision
      BY <1>1, <2>1, LastFacts
    <2>3. head.revision # 0 => head.revision \in Revisions
      BY <1>1, <1>2 DEF Since
    <2>4. head.revision = 0 => Revisions = {}
      BY <1>1, <1>2 DEF Since
    <2> QED BY <1>1, <2>2, <2>3, <2>4
  <1>4. Revisions # {} => First = lo /\ lo <= head.revision
    <2>1. Revisions # {} => lo <= head.revision
      BY <1>1, <1>2 DEF Since
    <2>2. lo \in Nat
      OBVIOUS
    <2> QED BY <1>1, <1>2, <2>1, <2>2, FirstFacts DEF Since
  <1>5. Contiguous
    <2>1. CASE Revisions # {}
      <3>1. Revisions = lo..head.revision /\ (lo = 1 \/ journal[lo].kind = "compact")
        BY <1>2 DEF Since
      <3> QED BY <2>1, <3>1, <1>3, <1>4 DEF Contiguous
    <2>2. CASE Revisions = {}
      <3>1. head.revision = 0
        BY <1>1, <1>2, <2>2 DEF Since
      <3>2. 1..0 = {}
        OBVIOUS
      <3> QED BY <2>2, <3>1, <3>2, <1>3 DEF Contiguous
    <2> QED BY <2>1, <2>2
  <1>6. ASSUME NEW q \in Revisions, NEW r \in Revisions, journal[q].key = journal[r].key PROVE q = r
    <2>1. /\ q + 1 \in Entries /\ r + 1 \in Entries /\ q \in Nat /\ r \in Nat
          /\ ledger[q + 1].key = ledger[r + 1].key
      BY <1>1, <1>6 DEF Same
    <2>2. q + 1 = r + 1
      BY <2>1 DEF Story, Named
    <2> QED BY <2>1, <2>2
  <1>7. CASE v = version
    <2>1. Available(head.revision)
      <3> DEFINE M == {q \in Revisions : journal[q].kind = "migrate"}
      <3>1. M \in SUBSET (0..head.revision)
        <4>1. \A q \in 1..head.revision : q \in 0..head.revision
          BY <1>1
        <4> QED BY <1>1, <4>1, Zenon
      <3>2. Last(M) \in 0..head.revision
        <4> HIDE DEF M
        <4> QED BY <1>1, <3>1, LastFacts
      <3>3. LatestMigration = Last(M)
        BY DEF LatestMigration
      <3>4. LatestMigration \in 0..head.revision
        BY <3>2, <3>3
      <3> HIDE DEF M
      <3> QED BY <1>1, <1>4, <3>4 DEF Available
    <2>2. head.revision \in 0..head.revision
      BY <1>1
    <2>3. Replayed(version, head.revision) = ledger[head.revision + 1].state
      BY <2>1, <2>2, ReplayTells
    <2> QED BY <1>1, <1>3, <1>5, <1>6, <1>7, <2>3 DEF Consistent
  <1>8. CASE v # version
    <2>1. ASSUME Revisions # {} PROVE journal[head.revision].result = head.state
      <3>1. head.revision \in Revisions
        BY <1>1, <1>2, <1>4, <2>1 DEF Since
      <3>2. ledger[head.revision + 1].version = version
        <4>1. head.revision + 1 \in Entries /\ \A m \in Entries : ~(m > head.revision + 1)
          BY <1>1
        <4> QED BY <4>1 DEF Story, Told
      <3>3. journal[head.revision].result = Migrated(version, version, head.state)
        BY <1>1, <3>1, <3>2 DEF Story, Retained
      <3> QED BY <1>1, <3>3, MigratedSame
    <2> QED BY <1>3, <1>5, <1>6, <1>8, <2>1 DEF Consistent
  <1> QED BY <1>7, <1>8

----------------------------------------------------------------------------
(* What keeps the story.                                                   *)

\* A key of the kernel's own is not one the ledger has.
LEMMA FreshKey ==
  ASSUME IInv, Story, version # 0, NEW key,
         \/ \E v \in Versions : v > version /\ key = <<"migrate", v>>
         \/ key = <<"compact", head.revision + 1>>
  PROVE  \A n \in Entries : ledger[n].key # key
  <1> SUFFICES ASSUME NEW n \in Entries, ledger[n].key = key PROVE FALSE
    OBVIOUS
  <1>1. /\ head.revision \in Nat /\ version \in Nat /\ n \in 1..(head.revision + 1)
        /\ ledger[n].version \in Nat /\ ledger[n].version <= version
        /\ ledger[n].kind \in Kinds
    BY DEF IInv, TypeOK, Kept, Aligned, Entries, Story, Told
  <1>2. key[1] \in {"migrate", "compact"}
    OBVIOUS
  <1>3. CASE ledger[n].kind \in Caller
    BY <1>2, <1>3 DEF IInv, Kept, Formed
  <1>4. CASE ledger[n].kind = "initial"
    <2>1. ledger[n].key = <<"none">>
      BY <1>4 DEF Story, Told
    <2> QED BY <1>2, <2>1
  <1>5. CASE ledger[n].kind = "migrate"
    <2>1. ledger[n].key = <<"migrate", ledger[n].version>>
      BY <1>5 DEF Story, Named
    <2>2. key[1] = "migrate" /\ key[2] = ledger[n].version
      BY <2>1
    <2>3. PICK v \in Versions : v > version /\ key = <<"migrate", v>>
      BY <2>2
    <2>4. key[2] = v
      BY <2>3
    <2> QED BY <1>1, <2>2, <2>3, <2>4
  <1>6. CASE ledger[n].kind = "compact"
    <2>1. ledger[n].key = <<"compact", n - 1>>
      BY <1>6 DEF Story, Named
    <2>2. key[1] = "compact" /\ key[2] = n - 1
      BY <2>1
    <2>3. key = <<"compact", head.revision + 1>>
      BY <2>2
    <2>4. key[2] = head.revision + 1
      BY <2>3
    <2> QED BY <1>1, <2>2, <2>4
  <1> QED BY <1>1, <1>3, <1>4, <1>5, <1>6 DEF Kinds, Caller

LEMMA GrowStory ==
  ASSUME IInv, Story, version # 0,
         NEW J, DOMAIN J \subseteq Revisions, \A q \in DOMAIN J : Same(J[q], journal[q]),
         NEW kind \in Kinds \ {"initial"}, NEW key, NEW input, NEW state,
         NEW v \in Versions, version' = v,
         Appended(J, kind, key, input, state), Recorded(kind, key, input, state, v),
         \A n \in Entries : ledger[n].key # key,
         kind = "migrate" => key = <<"migrate", v>>,
         kind = "compact" => key = <<"compact", head.revision + 1>>,
         v >= version, kind # "migrate" => v = version,
         \A q \in DOMAIN J : J[q].result = Migrated(version, v, journal[q].result),
         DOMAIN J = Revisions \/ (DOMAIN J = {} /\ kind = "compact")
  PROVE  Story'
  <1> DEFINE r1 == head.revision + 1
             new == head.revision + 2
  <1>0. TypeOK /\ Kept /\ v # 0 /\ v \in Nat
    BY DEF IInv
  <1>1. /\ head'.revision = head.revision + 1 /\ Len(ledger) = head.revision + 1
        /\ Len(ledger') = Len(ledger) + 1
        /\ \A n \in Entries : ledger'[n] = ledger[n]
        /\ ledger'[Len(ledger')] = [kind |-> kind, key |-> key, input |-> input,
                                    state |-> state, version |-> v]
        /\ Revisions' = DOMAIN J \cup {head.revision + 1}
    BY <1>0, GrowFacts
  <1>2. /\ head.revision \in Nat /\ version \in Nat /\ Revisions \subseteq 1..head.revision
        /\ Entries = 1..r1 /\ Entries' = 1..new /\ Len(ledger') = new
        /\ r1 \in Nat /\ new \in Nat /\ new - 1 = r1
    BY <1>0, <1>1 DEF TypeOK, Entries
  <1>3. /\ Entries' = Entries \cup {new} /\ new \notin Entries
        /\ \A n \in Entries : new > n /\ n \in Nat /\ ~(n > new)
        /\ 1 \in Entries /\ new # 1 /\ new \in Entries'
    BY <1>2
  <1>4. /\ ledger'[new].kind = kind /\ ledger'[new].key = key
        /\ ledger'[new].state = state /\ ledger'[new].version = v
    BY <1>1, <1>2
  <1>5. \A n \in Entries : ledger'[n] = ledger[n]
    BY <1>1
  <1>6. /\ \A n \in Entries : ledger[n].version \in Versions /\ ledger[n].version <= version
        /\ \A n \in Entries : ledger[n].kind \in Kinds /\ (ledger[n].kind = "initial" <=> n = 1)
        /\ ledger[1].key = <<"none">> /\ ledger[1].state = Initial(ledger[1].version)
    BY DEF Story, Told
  <1>7. \A n \in Entries : ledger[n].version \in Nat
    BY <1>6
  <1> HIDE DEF new
  <1>8. Told'
    <2>1. ASSUME NEW n \in Entries'
          PROVE  /\ ledger'[n].kind \in Kinds /\ (ledger'[n].kind = "initial" <=> n = 1)
                 /\ ledger'[n].version \in Versions /\ ledger'[n].version <= version'
      <3>1. CASE n \in Entries
        BY <3>1, <1>0, <1>2, <1>5, <1>6, <1>7
      <3>2. CASE n = new
        BY <3>2, <1>0, <1>3, <1>4
      <3> QED BY <3>1, <3>2, <1>3
    <2>2. ledger'[1].key = <<"none">> /\ ledger'[1].state = Initial(ledger'[1].version)
      BY <1>3, <1>5, <1>6
    <2>3. ASSUME NEW n \in Entries', \A m \in Entries' : m > n => ledger'[m].kind # "migrate"
          PROVE  ledger'[n].version = version'
      <3>1. CASE n = new
        BY <3>1, <1>4
      <3>2. CASE n \in Entries
        <4>1. kind # "migrate"
          BY <3>2, <2>3, <1>3, <1>4
        <4>2. \A m \in Entries : m > n => ledger[m].kind # "migrate"
          BY <2>3, <1>3, <1>5
        <4>3. ledger[n].version = version
          BY <3>2, <4>2 DEF Story, Told
        <4> QED BY <3>2, <4>1, <4>3, <1>5
      <3> QED BY <3>1, <3>2, <1>3
    <2> QED BY <2>1, <2>2, <2>3 DEF Told
  <1>9. Named'
    <2>1. ASSUME NEW n \in Entries'
          PROVE  /\ ledger'[n].kind = "migrate" => ledger'[n].key = <<"migrate", ledger'[n].version>>
                 /\ ledger'[n].kind = "compact" => ledger'[n].key = <<"compact", n - 1>>
      <3>1. CASE n \in Entries
        BY <3>1, <1>5 DEF Story, Named
      <3>2. CASE n = new
        BY <3>2, <1>2, <1>4
      <3> QED BY <3>1, <3>2, <1>3
    <2>2. ASSUME NEW m \in Entries', NEW n \in Entries', ledger'[m].key = ledger'[n].key
          PROVE  m = n
      <3>1. CASE m \in Entries /\ n \in Entries
        BY <3>1, <2>2, <1>5 DEF Story, Named
      <3>2. CASE m = new /\ n \in Entries
        BY <3>2, <2>2, <1>4, <1>5
      <3>3. CASE n = new /\ m \in Entries
        BY <3>3, <2>2, <1>4, <1>5
      <3> QED BY <3>1, <3>2, <3>3, <1>3
    <2> QED BY <2>1, <2>2 DEF Named
  <1>10. Retained'
    <2>1. journal' = [q \in DOMAIN J \cup {r1} |-> IF q = r1
              THEN [kind |-> kind, key |-> key, input |-> input, state |-> state,
                    result |-> state]
              ELSE J[q]]
      BY DEF Appended
    <2>2. /\ journal'[r1].kind = kind /\ journal'[r1].result = state
          /\ \A q \in DOMAIN J : journal'[q] = J[q] /\ q \in Revisions /\ q \in 1..head.revision
                                 /\ q # r1 /\ q + 1 \in Entries
      <3>1. \A q \in 1..head.revision : q # r1 /\ q + 1 \in 1..r1
        BY <1>2
      <3>2. \A q \in DOMAIN J : q \in 1..head.revision /\ q \in Revisions
        BY <1>2
      <3> HIDE DEF r1
      <3>3. journal'[r1].kind = kind /\ journal'[r1].result = state
        BY <2>1
      <3>4. \A q \in DOMAIN J : journal'[q] = J[q]
        BY <2>1, <3>1, <3>2
      <3> QED BY <3>1, <3>2, <3>3, <3>4, <1>2
    <2>3. ASSUME NEW q \in Revisions'
          PROVE  journal'[q].result = Migrated(ledger'[q + 1].version, version', ledger'[q + 1].state)
      <3>1. CASE q = r1
        <4>1. q + 1 = new
          BY <3>1, <1>2 DEF new
        <4>2. Migrated(v, v, state) = state
          BY <1>0, MigratedSame
        <4> QED BY <3>1, <4>1, <4>2, <2>2, <1>4
      <3>2. CASE q \in DOMAIN J
        <4> DEFINE e == ledger[q + 1].version
                   s == ledger[q + 1].state
        <4>1. journal[q].result = Migrated(e, version, s)
          BY <3>2, <2>2 DEF Story, Retained
        <4>2. journal'[q].result = Migrated(version, v, Migrated(e, version, s))
          BY <3>2, <4>1, <2>2
        <4>3. e \in Nat /\ e <= version
          BY <3>2, <2>2, <1>6, <1>7
        <4>4. ledger'[q + 1].version = e /\ ledger'[q + 1].state = s
          BY <3>2, <2>2, <1>5
        <4> HIDE DEF e, s
        <4>5. Migrated(version, v, Migrated(e, version, s)) = Migrated(e, v, s)
          BY <4>3, <1>0, <1>2, MigratedTwice
        <4> QED BY <4>2, <4>4, <4>5
      <3> QED BY <3>1, <3>2, <1>1
    <2>4. \E lo \in 1..(head'.revision + 1) : Since(lo)'
      <3>1. CASE DOMAIN J = Revisions
        <4>1. PICK lo \in 1..r1 : Since(lo)
          BY DEF Story, Retained
        <4>2. Revisions' = lo..head'.revision
          BY <4>1, <3>1, <1>1, <1>2 DEF Since
        <4>3. lo = 1 \/ (lo \in Revisions' /\ journal'[lo].kind = "compact")
          <5>1. CASE lo # 1
            <6>1. lo \in Revisions /\ journal[lo].kind = "compact"
              BY <4>1, <5>1 DEF Since
            <6>2. J[lo].kind = journal[lo].kind
              BY <3>1, <6>1 DEF Same
            <6> QED BY <3>1, <6>1, <6>2, <2>2, <1>1
          <5> QED BY <5>1
        <4>4. lo \in 1..(head'.revision + 1)
          BY <4>1, <1>1, <1>2
        <4> QED BY <4>2, <4>3, <4>4 DEF Since
      <3>2. CASE DOMAIN J = {} /\ kind = "compact"
        <4>1. Revisions' = {r1} /\ head'.revision = r1
          BY <3>2, <1>1
        <4>2. Revisions' = r1..head'.revision /\ r1 \in 1..(head'.revision + 1) /\ r1 \in Revisions'
          BY <4>1, <1>2
        <4>3. journal'[r1].kind = "compact"
          BY <2>2, <3>2
        <4> HIDE DEF r1
        <4> QED BY <4>2, <4>3 DEF Since
      <3> QED BY <3>1, <3>2
    <2> QED BY <2>3, <2>4 DEF Retained
  <1> QED BY <1>8, <1>9, <1>10 DEF Story

\* An open stores a new database, one it has verified, or one it has upgraded.
LEMMA CreatedStory ==
  ASSUME IInv, NEW v \in Versions, Created(v)
  PROVE  /\ Story' /\ Reduced' /\ version' = v /\ head'.state = Initial(v)
  <1> DEFINE e == [kind |-> "initial", key |-> <<"none">>, input |-> "none",
                   state |-> Initial(v), version |-> v]
  <1>1. /\ ledger = <<>> /\ head.revision = 0 /\ Revisions = {} /\ version' = v /\ v \in Nat
        /\ journal' = journal /\ head' = [revision |-> 0, state |-> Initial(v)]
    BY DEF Created, IInv, Kept, Aligned, TypeOK
  <1>2. ledger' = Append(<<>>, e)
    BY <1>1 DEF Created, Recorded
  <1>3. Len(ledger') = 1 /\ ledger'[1] = e
    <2> HIDE DEF e
    <2>1. Len(Append(<<>>, e)) = Len(<<>>) + 1 /\ Append(<<>>, e)[Len(<<>>) + 1] = e
      BY EmptySequence, AppendFacts
    <2>2. Len(ledger') = Len(<<>>) + 1 /\ ledger'[Len(<<>>) + 1] = e
      BY <1>2, <2>1, Zenon
    <2>3. Len(<<>>) + 1 = 1
      OBVIOUS
    <2> QED BY <2>2, <2>3
  <1>4. Entries' = {1} /\ Revisions' = {}
    BY <1>1, <1>3 DEF Entries, Revisions
  <1>5. Told' /\ Named' /\ Reduced'
    BY <1>1, <1>3, <1>4 DEF Told, Named, Reduced, Kinds
  <1>6. Retained'
    <2>1. Revisions' = 1..head'.revision /\ 1 \in 1..(head'.revision + 1)
      BY <1>1, <1>4
    <2> QED BY <1>4, <2>1 DEF Retained, Since
  <1> QED BY <1>1, <1>5, <1>6 DEF Story

LEMMA UpgradedStory ==
  ASSUME IInv, Story, NEW v \in Versions, Upgraded(v)
  PROVE  /\ Story' /\ (Reduced => Reduced')
         /\ version' = v /\ Accepts(v, head'.state)
         /\ version < v /\ ledger # <<>> /\ Len(ledger) = head.revision + 1
         /\ ledger' = Append(ledger, [kind |-> "migrate", key |-> <<"migrate", v>>, input |-> "none",
                                      state |-> Migrated(version, v, head.state), version |-> v])
  <1> DEFINE results == [q \in Revisions |->
                 [journal[q] EXCEPT !.result = Migrated(version, v, @)]]
             state == Migrated(version, v, head.state)
             key == <<"migrate", v>>
             kind == "migrate"
  <1>1. /\ Appended(results, kind, key, "none", state)
        /\ Recorded(kind, key, "none", state, v) /\ Accepts(v, state)
        /\ version' = v /\ version # 0 /\ version < v /\ v \in Nat /\ version \in Nat
    BY DEF Upgraded, IInv, TypeOK
  <1>2. DOMAIN results = Revisions
    OBVIOUS
  <1>3. \A q \in DOMAIN results : Same(results[q], journal[q])
    BY DEF Same, IInv, Kept, Logged
  <1>4. \A q \in DOMAIN results : results[q].result = Migrated(version, v, journal[q].result)
    BY DEF Same, IInv, Kept, Logged
  <1>5. \A n \in Entries : ledger[n].key # key
    BY <1>1, FreshKey
  <1>6. kind \in Kinds \ {"initial"} /\ kind = "migrate" /\ kind # "compact" /\ kind # "event"
    BY DEF Kinds
  <1>7. kind = "migrate" => key = <<"migrate", v>>
    OBVIOUS
  <1>8. /\ ledger' = Append(ledger, [kind |-> "migrate", key |-> <<"migrate", v>>, input |-> "none",
                                     state |-> Migrated(version, v, head.state), version |-> v])
        /\ head'.state = state
    BY <1>1 DEF Recorded, Appended
  <1> HIDE DEF results, state, key, kind
  <1>9. Story'
    BY <1>1, <1>2, <1>3, <1>4, <1>5, <1>6, <1>7, GrowStory
  <1>10. /\ Len(ledger) = head.revision + 1 /\ Len(ledger') = Len(ledger) + 1
         /\ \A n \in Entries : ledger'[n] = ledger[n]
         /\ ledger'[Len(ledger')].kind = kind
    <2>1. TypeOK /\ Kept /\ v # 0 /\ DOMAIN results \subseteq Revisions
      BY <1>2 DEF IInv
    <2>2. /\ Len(ledger) = head.revision + 1 /\ Len(ledger') = Len(ledger) + 1
          /\ \A n \in Entries : ledger'[n] = ledger[n]
          /\ ledger'[Len(ledger')] = [kind |-> kind, key |-> key, input |-> "none",
                                      state |-> state, version |-> v]
      BY <2>1, <1>1, <1>3, GrowFacts
    <2> QED BY <2>2
  <1>11. ledger # <<>>
    BY <1>10, EmptySequence DEF IInv, TypeOK
  <1>12. ASSUME Reduced PROVE Reduced'
    <2>1. Entries' = Entries \cup {Len(ledger')} /\ Entries = 1..(head.revision + 1)
      BY <1>10 DEF Entries, IInv, TypeOK
    <2>2. \A n \in Entries : ledger[n].kind = "event" => n - 1 \in Entries
      <3>1. \A n \in Entries : n # 1 => n - 1 \in Entries
        BY <2>1 DEF IInv, TypeOK
      <3> QED BY <3>1 DEF Story, Told
    <2> QED BY <1>6, <1>10, <1>12, <2>1, <2>2 DEF Reduced
  <1> QED BY <1>1, <1>8, <1>9, <1>10, <1>11, <1>12

LEMMA CompactStory ==
  ASSUME IInv, Story, NEW p \in Stores, NEW x, Compact(p, x)
  PROVE  /\ Story' /\ (Reduced => Reduced')
         /\ version' = version /\ head'.state = head.state
         /\ ledger # <<>> /\ Len(ledger) = head.revision + 1
         /\ ledger' = Append(ledger, [kind |-> "compact", key |-> <<"compact", head.revision + 1>>,
                                      input |-> "none", state |-> head.state, version |-> version])
  <1> DEFINE key == <<"compact", head.revision + 1>>
             kind == "compact"
             J == <<>>
  <1>1. /\ Appended(J, kind, key, "none", head.state)
        /\ Recorded(kind, key, "none", head.state, version)
        /\ version' = version /\ stage[p] = "open"
    BY DEF Compact, Readable
  <1>2. version # 0 /\ version \in Versions /\ version \in Nat
    BY <1>1 DEF IInv, OneVersion, TypeOK
  <1>3. DOMAIN J = {}
    OBVIOUS
  <1>4. kind \in Kinds \ {"initial"} /\ kind # "migrate" /\ kind # "event" /\ kind = "compact"
    BY DEF Kinds
  <1>5. \A n \in Entries : ledger[n].key # key
    BY <1>2, FreshKey
  <1>6. kind = "compact" => key = <<"compact", head.revision + 1>>
    OBVIOUS
  <1>7. /\ ledger' = Append(ledger, [kind |-> "compact", key |-> <<"compact", head.revision + 1>>,
                                     input |-> "none", state |-> head.state, version |-> version])
        /\ head'.state = head.state
    BY <1>1 DEF Recorded, Appended
  <1> HIDE DEF key, kind, J
  <1>8. /\ DOMAIN J \subseteq Revisions /\ \A q \in DOMAIN J : Same(J[q], journal[q])
        /\ \A q \in DOMAIN J : J[q].result = Migrated(version, version, journal[q].result)
    BY <1>3
  <1>9. version >= version
    BY <1>2
  <1>10. Story'
    BY <1>1, <1>2, <1>3, <1>4, <1>5, <1>6, <1>8, <1>9, GrowStory
  <1>11. /\ Len(ledger) = head.revision + 1 /\ Len(ledger') = Len(ledger) + 1
         /\ \A n \in Entries : ledger'[n] = ledger[n]
         /\ ledger'[Len(ledger')].kind = kind
    <2>1. TypeOK /\ Kept
      BY DEF IInv
    <2>2. /\ Len(ledger) = head.revision + 1 /\ Len(ledger') = Len(ledger) + 1
          /\ \A n \in Entries : ledger'[n] = ledger[n]
          /\ ledger'[Len(ledger')] = [kind |-> kind, key |-> key, input |-> "none",
                                      state |-> head.state, version |-> version]
      BY <2>1, <1>1, <1>2, <1>8, GrowFacts
    <2> QED BY <2>2
  <1>12. ledger # <<>>
    BY <1>11, EmptySequence DEF IInv, TypeOK
  <1>13. ASSUME Reduced PROVE Reduced'
    <2>1. Entries' = Entries \cup {Len(ledger')} /\ Entries = 1..(head.revision + 1)
      BY <1>11 DEF Entries, IInv, TypeOK
    <2>2. \A n \in Entries : ledger[n].kind = "event" => n - 1 \in Entries
      <3>1. \A n \in Entries : n # 1 => n - 1 \in Entries
        BY <2>1 DEF IInv, TypeOK
      <3> QED BY <3>1 DEF Story, Told
    <2> QED BY <1>4, <1>11, <1>13, <2>1, <2>2 DEF Reduced
  <1> QED BY <1>1, <1>7, <1>10, <1>11, <1>12, <1>13

LEMMA CommitStory ==
  ASSUME IInv, Story, NEW p \in Stores, NEW k \in Keys, NEW i \in Calls, NEW x, Commit(p, k, i, x)
  PROVE  /\ Story' /\ (Reduced /\ defined[p] = version => Reduced')
         /\ version' = version /\ head'.state = Apply(defined[p], head.state, i)
         /\ ledger # <<>> /\ Len(ledger) = head.revision + 1
         /\ \A n \in Entries : ledger[n].key # CallerKey(k)
         /\ ledger' = Append(ledger, [kind |-> IF i = "reset" THEN "reset" ELSE "event",
                                      key |-> CallerKey(k), input |-> i,
                                      state |-> Apply(defined[p], head.state, i), version |-> version])
  <1> DEFINE state == Apply(defined[p], head.state, i)
             kind == IF i = "reset" THEN "reset" ELSE "event"
             key == CallerKey(k)
  <1>1. /\ Appended(journal, kind, key, i, state) /\ Recorded(kind, key, i, state, version)
        /\ version' = version /\ stage[p] = "open"
    BY DEF Commit, Readable
  <1>2. version # 0 /\ version \in Versions /\ version \in Nat
    BY <1>1 DEF IInv, OneVersion, TypeOK
  <1>3. /\ DOMAIN journal = Revisions /\ \A q \in DOMAIN journal : Same(journal[q], journal[q])
        /\ DOMAIN journal \subseteq Revisions
    BY DEF Revisions, Same, IInv, Kept, Logged
  <1>4. kind \in Kinds \ {"initial"} /\ kind # "migrate" /\ kind # "compact"
    BY DEF Kinds
  <1>5. \A n \in Entries : ledger[n].key # key
    BY NewKey DEF Commit
  <1>6. kind = "event" => state = Reduce(defined[p], head.state, i)
    BY DEF Apply
  <1>7. /\ ledger' = Append(ledger, [kind |-> IF i = "reset" THEN "reset" ELSE "event",
                                     key |-> CallerKey(k), input |-> i,
                                     state |-> Apply(defined[p], head.state, i), version |-> version])
        /\ head'.state = state
    BY <1>1 DEF Recorded, Appended
  <1>8. \A q \in DOMAIN journal : journal[q].result = Migrated(version, version, journal[q].result)
    BY <1>2, MigratedSame
  <1>9. version >= version
    BY <1>2
  <1> HIDE DEF state, kind, key
  <1>10. Story'
    BY <1>1, <1>2, <1>3, <1>4, <1>5, <1>8, <1>9, GrowStory
  <1>11. /\ Len(ledger) = head.revision + 1 /\ Len(ledger') = Len(ledger) + 1
         /\ \A n \in Entries : ledger'[n] = ledger[n]
         /\ ledger'[Len(ledger')].kind = kind /\ ledger'[Len(ledger')].input = i
         /\ ledger'[Len(ledger')].state = state /\ ledger'[Len(ledger')].version = version
    <2>1. TypeOK /\ Kept
      BY DEF IInv
    <2>2. /\ Len(ledger) = head.revision + 1 /\ Len(ledger') = Len(ledger) + 1
          /\ \A n \in Entries : ledger'[n] = ledger[n]
          /\ ledger'[Len(ledger')] = [kind |-> kind, key |-> key, input |-> i,
                                      state |-> state, version |-> version]
      BY <2>1, <1>1, <1>2, <1>3, GrowFacts
    <2> QED BY <2>2
  <1>12. ledger # <<>>
    BY <1>11, EmptySequence DEF IInv, TypeOK
  <1>13. ASSUME Reduced, defined[p] = version PROVE Reduced'
    <2>1. /\ Entries' = Entries \cup {Len(ledger')} /\ Entries = 1..(head.revision + 1)
          /\ Len(ledger') - 1 = head.revision + 1 /\ head.revision + 1 \in Entries
      BY <1>11 DEF Entries, IInv, TypeOK
    <2>2. \A n \in Entries : ledger[n].kind = "event" => n - 1 \in Entries
      <3>1. \A n \in Entries : n # 1 => n - 1 \in Entries
        BY <2>1 DEF IInv, TypeOK
      <3> QED BY <3>1 DEF Story, Told
    <2>3. ledger[head.revision + 1].state = head.state
      BY <1>2 DEF IInv, Kept, Aligned
    <2>4. ASSUME NEW n \in Entries', ledger'[n].kind = "event"
          PROVE  ledger'[n].state = Reduce(ledger'[n].version, ledger'[n - 1].state, ledger'[n].input)
      <3>1. CASE n \in Entries
        BY <3>1, <2>2, <2>4, <1>11, <1>13 DEF Reduced
      <3>2. CASE n = Len(ledger')
        BY <3>2, <2>1, <2>3, <2>4, <1>6, <1>11, <1>13
      <3> QED BY <3>1, <3>2, <2>1
    <2> QED BY <2>4 DEF Reduced
  <1> QED BY <1>1, <1>5, <1>7, <1>10, <1>11, <1>12, <1>13 DEF key, state

\* A step of a process that leaves the database alone opens no store.
Idle ==
    /\ UNCHANGED database
    /\ \A q \in Stores : stage'[q] # "absent" => stage[q] # "absent" /\ defined'[q] = defined[q]

LEMMA StepIs ==
  ASSUME IInv, NEW p \in Stores, Step(p)
  PROVE  \/ \E v \in Versions : Open(p, v)
         \/ \E k \in Keys, i \in Calls, e \in Expectations(p) : Commit(p, k, i, e)
         \/ \E e \in Expectations(p) : Compact(p, e)
         \/ Idle
  <1>1. CASE Register(p) \/ StoreClose(p) \/ DriverClose(p) \/ DriverClosed(p) \/ Restart(p)
    <2>1. UNCHANGED database
      BY <1>1 DEF Register, StoreClose, DriverClose, DriverClosed, Restart
    <2>2. UNCHANGED <<stage, defined>> \/ Without(p) \/ (stage' = [stage EXCEPT ![p] = "open"] /\ defined' = defined /\ stage[p] = "opening")
      BY <1>1 DEF Register, StoreClose, DriverClose, DriverClosed, Restart
    <2>3. stage \in [Stores -> {"absent", "opening", "open"}] /\ defined \in [Stores -> {0} \cup Versions]
      BY DEF IInv, TypeOK
    <2>4. ASSUME NEW q \in Stores, stage'[q] # "absent"
          PROVE  stage[q] # "absent" /\ defined'[q] = defined[q]
      BY <2>2, <2>3, <2>4 DEF Without
    <2> QED BY <2>1, <2>4 DEF Idle
  <1>2. ASSUME NEW k \in Keys, NEW i \in Calls, Replay(p, k, i) PROVE Idle
    BY <1>2 DEF Replay, process, Idle
  <1>3. ASSUME NEW k \in Keys, NEW i \in Calls, NEW e, Conflict(p, k, i, e) PROVE Idle
    BY <1>3 DEF Conflict, process, Idle
  <1>4. CASE Read(p) \/ Refuse(p)
    BY <1>4 DEF Read, Refuse, process, Idle
  <1>5. ASSUME NEW r, ReadAt(p, r) PROVE Idle
    BY <1>5 DEF ReadAt, process, Idle
  <1>6. ASSUME NEW r, NEW limit, Changes(p, r, limit) PROVE Idle
    BY <1>6 DEF Changes, process, Idle
  <1> QED BY <1>1, <1>2, <1>3, <1>4, <1>5, <1>6 DEF Step

----------------------------------------------------------------------------
(* Schemas.  A store that was opened before an upgrade goes on with the    *)
(* older definition (sqlite.ts, #headState: only its schema is asked), so  *)
(* the rest holds where the schemas of two versions accept no common       *)
(* state; without that Reopens is false (MCStateUpgrade).                  *)

OwnSchemas ==
    \A v, w \in Versions : v # w => \A s : ~(Accepts(v, s) /\ Accepts(w, s))

\* The head is of the stored version's schema.
Parsed ==
    /\ version # 0 => Accepts(version, head.state)
    /\ \A p \in Stores : stage[p] # "absent" => defined[p] # 0

\* Then a store that can read the head is of the version that is stored.
LEMMA InUse ==
  ASSUME OwnSchemas, IInv, Parsed, NEW p \in Stores, Readable(p)
  PROVE  version # 0 /\ version \in Versions /\ defined[p] = version
  <1>1. stage[p] = "open" /\ Accepts(defined[p], head.state)
    BY DEF Readable
  <1>2. version # 0 /\ version \in Versions
    BY <1>1 DEF IInv, OneVersion, TypeOK
  <1>3. defined[p] \in Versions
    BY <1>1 DEF IInv, TypeOK, Parsed
  <1>4. Accepts(version, head.state)
    BY <1>2 DEF Parsed
  <1> QED BY <1>1, <1>2, <1>3, <1>4 DEF OwnSchemas

LEMMA InitStory == Init => Story /\ Reduced /\ Parsed
  <1> SUFFICES ASSUME Init PROVE Story /\ Reduced /\ Parsed
    OBVIOUS
  <1>1. /\ ledger = <<>> /\ head.revision = 0 /\ version = 0 /\ journal = <<>>
        /\ \A p \in Stores : stage[p] = "absent"
    BY DEF Init
  <1>2. Entries = {} /\ Revisions = {}
    BY <1>1 DEF Entries, Revisions
  <1>3. Told /\ Named /\ Reduced /\ Parsed
    BY <1>1, <1>2 DEF Told, Named, Reduced, Parsed
  <1>4. Retained
    <2>1. Revisions = 1..head.revision /\ 1 \in 1..(head.revision + 1)
      BY <1>1, <1>2
    <2> QED BY <1>2, <2>1 DEF Retained, Since
  <1> QED BY <1>3, <1>4 DEF Story

LEMMA SameStory ==
  ASSUME UNCHANGED database PROVE (Story => Story') /\ (Reduced => Reduced')
  <1>1. UNCHANGED <<journal, head, version, ledger>>
    BY DEF database
  <1>2. Entries' = Entries /\ Revisions' = Revisions
    BY <1>1 DEF Entries, Revisions
  <1>3. (Told => Told') /\ (Named => Named') /\ (Reduced => Reduced')
    BY <1>1, <1>2 DEF Told, Named, Reduced
  <1>4. \A lo : Since(lo)' <=> Since(lo)
    BY <1>1, <1>2 DEF Since
  <1>5. Retained => Retained'
    BY <1>1, <1>2, <1>4 DEF Retained
  <1> QED BY <1>3, <1>5 DEF Story

\* Every step keeps the story, whatever the schemas.
LEMMA StoryStep == IInv /\ Story /\ [Next]_vars => Story'
  <1> SUFFICES ASSUME IInv, Story, [Next]_vars PROVE Story'
    OBVIOUS
  <1>1. CASE UNCHANGED vars
    BY <1>1, SameStory DEF vars, database
  <1>2. ASSUME NEW p \in Stores, Step(p) PROVE Story'
    <2>1. ASSUME NEW v \in Versions, Open(p, v) PROVE Story'
      <3>1. CASE Created(v)
        BY <3>1, CreatedStory
      <3>2. CASE Verified(v)
        BY <3>2, SameStory DEF Verified
      <3>3. CASE Upgraded(v)
        BY <3>3, UpgradedStory
      <3> QED BY <2>1, <3>1, <3>2, <3>3 DEF Open
    <2>2. ASSUME NEW k \in Keys, NEW i \in Calls, NEW e \in Expectations(p), Commit(p, k, i, e)
          PROVE  Story'
      BY <2>2, CommitStory
    <2>3. ASSUME NEW e \in Expectations(p), Compact(p, e) PROVE Story'
      BY <2>3, CompactStory
    <2>4. CASE Idle
      BY <2>4, SameStory DEF Idle
    <2> QED BY <1>2, <2>1, <2>2, <2>3, <2>4, StepIs
  <1> QED BY <1>1, <1>2 DEF Next

\* A step keeps events reduced and the head parsed by the version they are of.
LEMMA ReducedStep ==
  OwnSchemas => (IInv /\ Story /\ Reduced /\ Parsed /\ [Next]_vars => Reduced' /\ Parsed')
  <1> SUFFICES ASSUME OwnSchemas, IInv, Story, Reduced, Parsed, [Next]_vars
               PROVE  Reduced' /\ Parsed'
    OBVIOUS
  <1>0. ASSUME UNCHANGED process,
               version' = version, head'.state = head.state \/ Accepts(version, head'.state)
        PROVE  Parsed'
    BY <1>0 DEF Parsed, process
  <1>1. CASE UNCHANGED vars
    BY <1>1, SameStory DEF vars, database, Parsed
  <1>2. ASSUME NEW p \in Stores, Step(p) PROVE Reduced' /\ Parsed'
    <2>1. ASSUME NEW v \in Versions, Open(p, v) PROVE Reduced' /\ Parsed'
      <3>1. ASSUME version' = v, Accepts(v, head'.state) PROVE Parsed'
        <4>1. /\ stage' = [stage EXCEPT ![p] = "opening"] /\ defined' = [defined EXCEPT ![p] = v]
              /\ stage \in [Stores -> {"absent", "opening", "open"}]
              /\ defined \in [Stores -> {0} \cup Versions] /\ v # 0
          BY <2>1 DEF Open, IInv, TypeOK
        <4> QED BY <3>1, <4>1 DEF Parsed
      <3>2. CASE Created(v)
        BY <3>1, <3>2, CreatedStory
      <3>3. CASE Verified(v)
        <4>1. version = v /\ UNCHANGED database /\ v # 0
          BY <3>3 DEF Verified
        <4>2. Accepts(v, head'.state) /\ version' = v
          BY <4>1 DEF Parsed, database
        <4> QED BY <3>1, <4>1, <4>2, SameStory
      <3>4. CASE Upgraded(v)
        BY <3>1, <3>4, UpgradedStory
      <3> QED BY <2>1, <3>2, <3>3, <3>4 DEF Open
    <2>2. ASSUME NEW k \in Keys, NEW i \in Calls, NEW e \in Expectations(p), Commit(p, k, i, e)
          PROVE  Reduced' /\ Parsed'
      <3>1. defined[p] = version
        BY <2>2, InUse DEF Commit
      <3>2. Reduced' /\ version' = version /\ head'.state = Apply(defined[p], head.state, i)
        BY <2>2, <3>1, CommitStory
      <3>3. Accepts(version, head'.state) /\ UNCHANGED process
        BY <2>2, <3>1, <3>2 DEF Commit
      <3> QED BY <1>0, <3>2, <3>3
    <2>3. ASSUME NEW e \in Expectations(p), Compact(p, e) PROVE Reduced' /\ Parsed'
      <3>1. Reduced' /\ version' = version /\ head'.state = head.state /\ UNCHANGED process
        BY <2>3, CompactStory DEF Compact
      <3> QED BY <1>0, <3>1
    <2>4. CASE Idle
      <3>1. Reduced'
        BY <2>4, SameStory DEF Idle
      <3>2. Parsed'
        BY <2>4 DEF Idle, Parsed, database
      <3> QED BY <3>1, <3>2
    <2> QED BY <1>2, <2>1, <2>2, <2>3, <2>4, StepIs
  <1> QED BY <1>1, <1>2 DEF Next

\* What the records say of the ledger, with any schemas: where the retained ones
\* begin, what their results are now, and that no key is used twice, the kernel's
\* own included (sqlite.ts, initialize, #appendRecord, compact).
THEOREM StoryAlways == Spec => []Story
  <1>1. Init => Story
    BY InitStory
  <1> QED BY <1>1, StoryStep, Invariance, PTL DEF Spec

LEMMA SchemasInvariance == OwnSchemas => (Spec => [](Reduced /\ Parsed))
  <1> SUFFICES ASSUME OwnSchemas PROVE Spec => [](Reduced /\ Parsed)
    OBVIOUS
  <1>1. Init => Reduced /\ Parsed
    BY InitStory
  <1>2. IInv /\ Story /\ (Reduced /\ Parsed) /\ [Next]_vars => (Reduced /\ Parsed)'
    BY ReducedStep
  <1> QED BY <1>1, <1>2, StoryAlways, Invariance, PTL DEF Spec

\* If no state is one of two versions' schemas, no sequence of calls, kills,
\* upgrades and compactions leaves a database that the next open refuses: the
\* journal is contiguous, keyed once, and replays to the head (sqlite.ts,
\* initialize).
THEOREM AlwaysReopens == OwnSchemas => (Spec => []Reopens)
  <1> SUFFICES ASSUME OwnSchemas PROVE Spec => []Reopens
    OBVIOUS
  <1>1. IInv /\ Story /\ (Reduced /\ Parsed) => Reopens
    BY StoryReopens
  <1> QED BY <1>1, StoryAlways, Invariance, SchemasInvariance, PTL

----------------------------------------------------------------------------
(* The refinement, step by step.                                           *)

LEMMA LedgerInit == Init => Ledger!Init
  BY DEF Init, NoAnswer, Ledger!Init

LEMMA RefusedStep ==
  ASSUME UNCHANGED <<ledger, version>>, answer'.outcome = "refused" PROVE Ledger!Next
  BY DEF Ledger!Next, Ledger!Answer

\* The ledger has the head at its end.
LEMMA TipIsHead ==
  ASSUME IInv, version # 0
  PROVE  /\ Len(ledger) = head.revision + 1 /\ head.revision \in Nat
         /\ Ledger!Tip.state = head.state /\ ledger # <<>>
  <1>1. /\ Len(ledger) = head.revision + 1 /\ ledger[head.revision + 1].state = head.state
        /\ head.revision \in Nat
    BY DEF IInv, Kept, Aligned, TypeOK
  <1>2. ledger # <<>>
    BY <1>1, EmptySequence
  <1> QED BY <1>1, <1>2 DEF Ledger!Tip

LEMMA OpenStep ==
  ASSUME IInv, Story, NEW p \in Stores, NEW v \in Versions, Open(p, v) PROVE Ledger!Next
  <1>1. answer'.outcome = "refused"
    BY DEF Open, NoAnswer
  <1>2. CASE Created(v)
    <2>1. ledger = <<>> /\ version' = v
      BY <1>2 DEF Created, IInv, Kept, Aligned
    <2> DEFINE e == [kind |-> "initial", key |-> <<"none">>, input |-> "none",
                     state |-> Initial(v), version |-> v]
    <2>2. ledger' = Append(<<>>, e)
      BY <1>2, <2>1 DEF Created, Recorded
    <2>3. ledger' = <<e>>
      <3> HIDE DEF e
      <3> QED BY <2>2
    <2> QED BY <1>1, <2>1, <2>3 DEF Ledger!Next, Ledger!Create
  <1>3. CASE Verified(v)
    BY <1>1, <1>3, RefusedStep DEF Verified, database
  <1>4. CASE Upgraded(v)
    <2>1. /\ version' = v /\ version < v /\ ledger # <<>>
          /\ ledger' = Append(ledger, [kind |-> "migrate", key |-> <<"migrate", v>>, input |-> "none",
                                       state |-> Migrated(version, v, head.state), version |-> v])
      BY <1>4, UpgradedStory
    <2>2. version # 0 /\ v > version
      BY <1>4, <2>1 DEF Upgraded, IInv, TypeOK
    <2>3. Ledger!Tip.state = head.state
      BY <2>2, TipIsHead
    <2> QED BY <1>1, <2>1, <2>2, <2>3 DEF Ledger!Next, Ledger!Migrate
  <1> QED BY <1>2, <1>3, <1>4 DEF Open

LEMMA CompactStep ==
  ASSUME IInv, Story, NEW p \in Stores, NEW x, Compact(p, x) PROVE Ledger!Next
  <1>1. /\ version' = version /\ ledger # <<>> /\ Len(ledger) = head.revision + 1
        /\ ledger' = Append(ledger, [kind |-> "compact", key |-> <<"compact", head.revision + 1>>,
                                     input |-> "none", state |-> head.state, version |-> version])
    BY CompactStory
  <1>2. answer'.outcome = "refused" /\ stage[p] = "open"
    BY DEF Compact, NoAnswer, Readable
  <1>3. version # 0
    BY <1>2 DEF IInv, OneVersion
  <1>4. Ledger!Tip.state = head.state
    BY <1>3, TipIsHead
  <1> QED BY <1>1, <1>2, <1>4 DEF Ledger!Next, Ledger!Fold

LEMMA CommitStep ==
  ASSUME OwnSchemas, IInv, Story, Parsed,
         NEW p \in Stores, NEW k \in Keys, NEW i \in Calls, NEW x, Commit(p, k, i, x)
  PROVE  Ledger!Next
  <1> DEFINE kind == IF i = "reset" THEN "reset" ELSE "event"
             state == Apply(version, head.state, i)
             e == [kind |-> kind, key |-> CallerKey(k), input |-> i, state |-> state,
                   version |-> version]
  <1>1. defined[p] = version /\ version # 0
    BY InUse DEF Commit
  <1>2. /\ version' = version /\ ledger # <<>> /\ Len(ledger) = head.revision + 1
        /\ \A n \in Entries : ledger[n].key # CallerKey(k)
        /\ ledger' = Append(ledger, e)
    BY <1>1, CommitStory
  <1>3. /\ Len(ledger') = Len(ledger) + 1 /\ ledger'[Len(ledger')] = e
    <2>1. Sequence(ledger)
      BY DEF IInv, Kept, Aligned
    <2> HIDE DEF e
    <2> QED BY <1>2, <2>1, AppendFacts
  <1>4. /\ answer'.outcome = "committed" /\ answer'.key = CallerKey(k) /\ answer'.input = i
        /\ answer'.revision = head.revision + 1 /\ answer'.state = state
    BY <1>1 DEF Commit, Answered
  <1>5. /\ e.kind \in {"event", "reset"} /\ e.key = CallerKey(k) /\ e.input = i
        /\ e.state = state /\ e.version = version
    OBVIOUS
  <1>6. state = Apply(version, Ledger!Tip.state, i)
    BY <1>1, TipIsHead
  <1> HIDE DEF e, state
  <1> QED BY <1>2, <1>3, <1>4, <1>5, <1>6 DEF Ledger!Next, Ledger!Effect, Entries

\* The entry a retained or a pruned key was committed as is told by its revision.
LEMMA RecordTold ==
  ASSUME IInv, version # 0, NEW r \in Revisions
  PROVE  /\ r \in Nat /\ r + 1 \in 1..Len(ledger) /\ (r + 1) - 1 = r
         /\ Same(journal[r], ledger[r + 1])
  BY DEF IInv, TypeOK, Kept, Aligned, Logged

LEMMA ReplayStep ==
  ASSUME IInv, Story, NEW p \in Stores, NEW k \in Keys, NEW i \in Calls, Replay(p, k, i)
  PROVE  Ledger!Next
  <1>1. UNCHANGED <<ledger, version>> /\ stage[p] = "open"
    BY DEF Replay, database
  <1>2. version # 0
    BY <1>1 DEF IInv, OneVersion
  <1>3. ASSUME NEW r \in Committed(k), Canonical(journal[r]) = CanonicalCall(p, i),
               Answered("replayed", CallerKey(k), i, r, journal[r].result)
        PROVE  Ledger!Next
    <2>1. r \in Revisions /\ journal[r].key = CallerKey(k)
      BY DEF Committed
    <2>2. /\ r \in Nat /\ r + 1 \in 1..Len(ledger) /\ (r + 1) - 1 = r
          /\ Same(journal[r], ledger[r + 1])
      BY <1>2, <2>1, RecordTold
    <2>3. /\ answer'.outcome = "replayed" /\ answer'.key = CallerKey(k) /\ answer'.input = i
          /\ answer'.revision = r /\ answer'.state = journal[r].result
      BY <1>3 DEF Answered
    <2>4. ledger[r + 1].key = CallerKey(k)
      BY <2>1, <2>2 DEF Same
    <2>5. answer'.state = Migrated(ledger[r + 1].version, version, ledger[r + 1].state)
      BY <2>1, <2>3 DEF Story, Retained
    <2>6. ledger[r + 1].input = i
      <3>1. /\ ledger[r + 1].kind \in Caller
            /\ ledger[r + 1].kind = "reset" <=> ledger[r + 1].input = "reset"
        BY <2>2, <2>4 DEF CallerKey, IInv, Kept, Formed, Entries
      <3>2. journal[r].kind = ledger[r + 1].kind /\ journal[r].input = ledger[r + 1].input
        BY <2>2 DEF Same
      <3>3. CASE i = "reset"
        <4>1. CanonicalCall(p, i) = <<"reset", Initial(defined[p])>>
          BY <3>3 DEF CanonicalCall
        <4>2. journal[r].kind # "event"
          <5>1. journal[r].kind = "event" => Canonical(journal[r]) = <<"event", journal[r].input>>
            BY DEF Canonical
          <5>2. <<"event", journal[r].input>> # <<"reset", Initial(defined[p])>>
            OBVIOUS
          <5> QED BY <1>3, <4>1, <5>1, <5>2
        <4> QED BY <3>1, <3>2, <3>3, <4>2 DEF Caller
      <3>4. CASE i # "reset"
        <4>1. CanonicalCall(p, i) = <<"event", i>>
          BY <3>4 DEF CanonicalCall
        <4>2. journal[r].kind = "event"
          <5>1. journal[r].kind = "reset" => Canonical(journal[r]) = <<"reset", journal[r].state>>
            BY DEF Canonical
          <5>2. <<"reset", journal[r].state>> # <<"event", i>>
            OBVIOUS
          <5> QED BY <1>3, <3>1, <3>2, <4>1, <5>1, <5>2 DEF Caller
        <4>3. Canonical(journal[r]) = <<"event", journal[r].input>>
          BY <4>2 DEF Canonical
        <4>4. <<"event", journal[r].input>>[2] = <<"event", i>>[2]
          BY <1>3, <4>1, <4>3
        <4> QED BY <3>2, <4>4
      <3> QED BY <3>3, <3>4
    <2>7. Ledger!Told(r + 1)
      BY <2>2, <2>3, <2>4 DEF Ledger!Told
    <2> QED BY <1>1, <2>2, <2>3, <2>5, <2>6, <2>7 DEF Ledger!Next, Ledger!Answer
  <1>4. ASSUME NEW r \in Committed(k), Answered("misused", CallerKey(k), i, r, None)
        PROVE  Ledger!Next
    <2>1. r \in Revisions /\ journal[r].key = CallerKey(k)
      BY DEF Committed
    <2>2. /\ r \in Nat /\ r + 1 \in 1..Len(ledger) /\ (r + 1) - 1 = r
          /\ Same(journal[r], ledger[r + 1])
      BY <1>2, <2>1, RecordTold
    <2>3. /\ answer'.outcome = "misused" /\ answer'.key = CallerKey(k) /\ answer'.revision = r
      BY <1>4 DEF Answered
    <2>4. Ledger!Told(r + 1)
      BY <2>1, <2>2, <2>3 DEF Same, Ledger!Told
    <2> QED BY <1>1, <2>2, <2>3, <2>4 DEF Ledger!Next, Ledger!Answer
  <1>5. ASSUME NEW e \in PrunedAs(k), NEW outcome \in {"pruned", "misused"},
               Answered(outcome, CallerKey(k), i, e.revision, None)
        PROVE  Ledger!Next
    <2>1. e \in pruned /\ e.key = CallerKey(k)
      BY DEF PrunedAs
    <2>2. e.revision \in 0..head.revision /\ ledger[e.revision + 1].key = e.key
      BY <2>1 DEF IInv, Kept, Logged
    <2>3. e.revision + 1 \in 1..Len(ledger) /\ (e.revision + 1) - 1 = e.revision
      BY <1>2, <2>2, TipIsHead
    <2>4. /\ answer'.outcome \in {"misused", "pruned"} /\ answer'.key = CallerKey(k)
          /\ answer'.revision = e.revision
      BY <1>5 DEF Answered
    <2>5. Ledger!Told(e.revision + 1)
      BY <2>1, <2>2, <2>3, <2>4 DEF Ledger!Told
    <2> QED BY <1>1, <2>3, <2>4, <2>5 DEF Ledger!Next, Ledger!Answer
  <1>6. \/ \E r \in Committed(k) :
             \/ /\ Canonical(journal[r]) = CanonicalCall(p, i)
                /\ Answered("replayed", CallerKey(k), i, r, journal[r].result)
             \/ Answered("misused", CallerKey(k), i, r, None)
        \/ \E e \in PrunedAs(k), outcome \in {"pruned", "misused"} :
             Answered(outcome, CallerKey(k), i, e.revision, None)
    <2>1. CASE \E r \in Committed(k) :
             IF Canonical(journal[r]) = CanonicalCall(p, i)
             THEN /\ Accepts(defined[p], journal[r].result)
                  /\ Answered("replayed", CallerKey(k), i, r, journal[r].result)
             ELSE Answered("misused", CallerKey(k), i, r, None)
      BY <2>1
    <2>2. CASE \E e \in PrunedAs(k) :
             /\ Committed(k) = {}
             /\ Answered(IF e.input = CanonicalCall(p, i) THEN "pruned" ELSE "misused",
                         CallerKey(k), i, e.revision, None)
      BY <2>2
    <2> QED BY <2>1, <2>2 DEF Replay
  <1> QED BY <1>3, <1>4, <1>5, <1>6

LEMMA ConflictStep ==
  ASSUME IInv, NEW p \in Stores, NEW k \in Keys, NEW i, NEW x, Conflict(p, k, i, x)
  PROVE  Ledger!Next
  <1>1. UNCHANGED <<ledger, version>> /\ New(k)
    BY DEF Conflict, database
  <1>2. answer'.outcome = "conflict" /\ answer'.key = CallerKey(k)
    BY DEF Conflict, Answered
  <1>3. \A n \in 1..Len(ledger) : ledger[n].key # answer'.key
    BY <1>1, <1>2, NewKey DEF Entries
  <1> QED BY <1>1, <1>2, <1>3 DEF Ledger!Next, Ledger!Answer

\* What is read is a state of the ledger that is of the version of now.
LEMMA ReadStep ==
  ASSUME OwnSchemas, IInv, Story, Reduced, Parsed, NEW p \in Stores,
         Read(p) \/ \E r \in 0..head.revision : ReadAt(p, r)
  PROVE  Ledger!Next
  <1>1. UNCHANGED <<ledger, version>> /\ Readable(p)
    BY DEF Read, ReadAt, database
  <1>2. defined[p] = version /\ version # 0
    BY <1>1, InUse
  <1>3. Len(ledger) = head.revision + 1 /\ head.revision \in Nat
    BY <1>2, TipIsHead
  <1>4. ASSUME NEW r \in 0..head.revision, answer'.outcome = "read", answer'.revision = r,
               answer'.state = ledger[r + 1].state, ledger[r + 1].version = version
        PROVE  Ledger!Next
    <2>1. r \in 0..(Len(ledger) - 1)
      BY <1>3
    <2> QED BY <1>1, <1>4, <2>1 DEF Ledger!Next, Ledger!Answer
  <1>5. CASE Read(p)
    <2>1. answer'.outcome = "read" /\ answer'.revision = head.revision /\ answer'.state = head.state
      BY <1>5 DEF Read, Answered
    <2>2. ledger[head.revision + 1].state = head.state
      BY <1>2 DEF IInv, Kept, Aligned
    <2>3. ledger[head.revision + 1].version = version
      <3>1. head.revision + 1 \in Entries /\ \A m \in Entries : ~(m > head.revision + 1)
        BY <1>3 DEF Entries
      <3> QED BY <3>1 DEF Story, Told
    <2>4. head.revision \in 0..head.revision
      BY <1>3
    <2> QED BY <1>4, <2>1, <2>2, <2>3, <2>4
  <1>6. ASSUME NEW r \in 0..head.revision, ReadAt(p, r) PROVE Ledger!Next
    <2>1. CASE Available(r)
      <3>1. answer'.outcome = "read" /\ answer'.revision = r /\ answer'.state = Replayed(version, r)
        BY <1>2, <1>6, <2>1 DEF ReadAt, Answered
      <3>2. Replayed(version, r) = ledger[r + 1].state /\ ledger[r + 1].version = version
        BY <1>2, <2>1, ReplayTells
      <3> QED BY <1>4, <3>1, <3>2
    <2>2. CASE ~Available(r)
      <3>1. answer'.outcome = "refused"
        BY <1>6, <2>2 DEF ReadAt, NoAnswer
      <3> QED BY <1>1, <3>1, RefusedStep
    <2> QED BY <2>1, <2>2
  <1> QED BY <1>5, <1>6

\* The records after a revision, in a stretch that ends with the head.
LEMMA LaterRecords ==
  ASSUME IInv, Story, version # 0, NEW after \in Nat,
         {r \in Revisions : r > after} # {}
  PROVE  \E first \in Revisions :
            /\ {r \in Revisions : r > after} = first..head.revision
            /\ first = after + 1 \/ journal[first].kind = "compact"
  <1>1. head.revision \in Nat
    BY DEF IInv, TypeOK
  <1>2. PICK lo \in 1..(head.revision + 1) : Since(lo)
    BY DEF Story, Retained
  <1>3. Revisions = lo..head.revision /\ (lo = 1 \/ (lo \in Revisions /\ journal[lo].kind = "compact"))
    BY <1>2 DEF Since
  <1>4. PICK q \in Revisions : q > after
    OBVIOUS
  <1>5. q \in Nat /\ lo <= q /\ q <= head.revision /\ lo \in Nat /\ lo >= 1
    BY <1>1, <1>3
  <1>6. CASE after >= lo - 1
    <2>1. after + 1 \in lo..head.revision
      BY <1>1, <1>4, <1>5, <1>6
    <2>2. {r \in Revisions : r > after} = (after + 1)..head.revision
      BY <1>1, <1>3, <1>5, <1>6
    <2> QED BY <1>3, <2>1, <2>2
  <1>7. CASE after < lo - 1
    <2>1. lo # 1 /\ lo \in Revisions /\ journal[lo].kind = "compact"
      BY <1>3, <1>5, <1>7
    <2>2. {r \in Revisions : r > after} = lo..head.revision
      BY <1>1, <1>3, <1>5, <1>7
    <2> QED BY <2>1, <2>2
  <1> QED BY <1>1, <1>5, <1>6, <1>7

\* The front of a sequence of kinds.
LEMMA FrontOf ==
  ASSUME NEW S, NEW s \in Seq(S), NEW n \in Nat
  PROVE  LET t == SubSeq(s, 1, IF n < Len(s) THEN n ELSE Len(s))
         IN  /\ Len(t) \in Nat /\ Len(t) <= Len(s)
             /\ \A i \in 1..Len(t) : t[i] = s[i]
  <1> DEFINE m == IF n < Len(s) THEN n ELSE Len(s)
  <1>1. m \in Nat /\ m <= Len(s) /\ Len(s) \in Nat
    OBVIOUS
  <1>2. ASSUME NEW c \in Nat, c <= Len(s)
        PROVE  Len(SubSeq(s, 1, c)) = c /\ \A i \in 1..c : SubSeq(s, 1, c)[i] = s[i]
    BY <1>2
  <1> HIDE DEF m
  <1>3. Len(SubSeq(s, 1, m)) = m /\ \A i \in 1..m : SubSeq(s, 1, m)[i] = s[i]
    BY <1>1, <1>2
  <1>4. Len(SubSeq(s, 1, m)) \in Nat /\ Len(SubSeq(s, 1, m)) <= Len(s)
    BY <1>1, <1>3
  <1> QED BY <1>3, <1>4 DEF m

\* The bounds and the size of an interval.
LEMMA IntervalFacts ==
  ASSUME NEW f \in Nat, NEW h \in Nat, f <= h
  PROVE  /\ f \in f..h /\ \A q \in f..h : f <= q /\ q \in Nat
         /\ Cardinality(f..h) = h - f + 1
  <1>1. Cardinality(f..h) = IF f > h THEN 0 ELSE h - f + 1
    <2>1. f \in Int /\ h \in Int
      OBVIOUS
    <2> QED BY <2>1, FS_Interval
  <1>2. Cardinality(f..h) = h - f + 1
    BY <1>1
  <1>3. f \in f..h /\ \A q \in f..h : f <= q /\ q \in Nat
    OBVIOUS
  <1> QED BY <1>2, <1>3

\* A function on 1..n is a sequence of length n.
LEMMA SequenceOf ==
  ASSUME NEW S, NEW n \in Nat, NEW s \in [1..n -> S]
  PROVE  s \in Seq(S) /\ Len(s) = n
  OBVIOUS

\* A subscriber is told every change after a revision, from the next one on or
\* from the compaction that hides it.
LEMMA ChangesStep ==
  ASSUME IInv, Story, NEW p \in Stores, NEW after \in Nat, NEW limit \in Nat, Changes(p, after, limit)
  PROVE  Ledger!Next
  <1> DEFINE later == {r \in Revisions : r > after}
             first == CHOOSE r \in later : \A q \in later : r <= q
             kinds == [n \in 1..Cardinality(later) |-> journal[first + n - 1].kind]
             told == SubSeq(kinds, 1, IF limit < Len(kinds) THEN limit ELSE Len(kinds))
  <1>1. /\ UNCHANGED <<ledger, version>> /\ stage[p] = "open"
        /\ answer'.outcome = "changes" /\ answer'.revision = after
        /\ answer'.changes = IF later = {} THEN <<>> ELSE told
    BY DEF Changes, database, NoAnswer
  <1>2. version # 0
    BY <1>1 DEF IInv, OneVersion
  <1>3. CASE later = {}
    BY <1>1, <1>3 DEF Ledger!Next, Ledger!Answer
  <1>4. CASE later # {}
    <2>1. PICK f \in Revisions : /\ later = f..head.revision
                                 /\ f = after + 1 \/ journal[f].kind = "compact"
      BY <1>2, <1>4, LaterRecords
    <2>2. /\ f \in 1..head.revision /\ head.revision \in Nat /\ Len(ledger) = head.revision + 1
          /\ f \in Nat
      BY <1>2, TipIsHead DEF IInv, TypeOK
    <2>11. later = f..head.revision
      BY Zenon, <2>1
    <2>12. /\ f \in f..head.revision /\ \A q \in f..head.revision : f <= q /\ q \in Nat
           /\ Cardinality(f..head.revision) = head.revision - f + 1
      <3>1. f <= head.revision
        BY <2>2
      <3> QED BY Zenon, <2>2, <3>1, IntervalFacts
    <2>3. first = f
      <3>1. f \in later /\ \A q \in later : f <= q /\ q \in Nat
        BY Zenon, <2>11, <2>12
      <3>2. first \in later /\ \A q \in later : first <= q
        <4> HIDE DEF later
        <4> QED BY <3>1
      <3> HIDE DEF later, first
      <3> QED BY <2>2, <3>1, <3>2
    <2>4. Cardinality(later) = head.revision - f + 1
      BY Zenon, <2>11, <2>12
    <2>5. /\ kinds \in Seq({journal[r].kind : r \in Revisions})
          /\ Len(kinds) = head.revision - f + 1
          /\ \A i \in 1..Len(kinds) : kinds[i] = ledger[f + i].kind
      <3> DEFINE c == head.revision - f + 1
      <3>1. c \in Nat
        BY <2>2
      <3>2. kinds = [n \in 1..c |-> journal[f + n - 1].kind]
        <4> HIDE DEF later, first
        <4> QED BY <2>3, <2>4
      <3>3. ASSUME NEW n \in 1..c
            PROVE  f + n - 1 \in Revisions /\ journal[f + n - 1].kind = ledger[f + n].kind
        <4>1. f + n - 1 \in f..head.revision /\ (f + n - 1) + 1 = f + n
          BY <2>2
        <4>2. f + n - 1 \in Revisions
          <5>1. later \subseteq Revisions
            OBVIOUS
          <5> QED BY Zenon, <2>11, <4>1, <5>1
        <4>3. Same(journal[f + n - 1], ledger[(f + n - 1) + 1])
          BY <1>2, <4>2, RecordTold
        <4> QED BY <4>1, <4>2, <4>3 DEF Same
      <3> HIDE DEF kinds, c
      <3>4. kinds \in Seq({journal[r].kind : r \in Revisions}) /\ Len(kinds) = c
        <4>1. kinds \in [1..c -> {journal[r].kind : r \in Revisions}]
          BY <3>2, <3>3
        <4> QED BY <3>1, <4>1, SequenceOf
      <3>5. \A n \in 1..c : kinds[n] = ledger[f + n].kind
        BY <3>2, <3>3
      <3> QED BY <3>4, <3>5 DEF c
    <2>6. /\ Len(told) \in Nat /\ Len(told) <= Len(kinds)
          /\ \A i \in 1..Len(told) : told[i] = kinds[i]
      <3> HIDE DEF kinds
      <3> QED BY <2>5, FrontOf
    <2>7. \A i \in 1..Len(told) : told[i] = ledger[f + i].kind
      <3>1. \A i \in 1..Len(told) : i \in 1..Len(kinds)
        <4>1. Len(kinds) \in Nat
          <5> HIDE DEF kinds
          <5> QED BY <2>2, <2>5
        <4> HIDE DEF told, kinds
        <4> QED BY <2>6, <4>1
      <3> HIDE DEF told, kinds
      <3> QED BY <2>5, <2>6, <3>1
    <2>8. f \in 0..(Len(ledger) - 1)
      BY <2>2
    <2>9. f = answer'.revision + 1 \/ ledger[f + 1].kind = "compact"
      <3>1. Same(journal[f], ledger[f + 1])
        BY <1>2, RecordTold
      <3> QED BY <1>1, <2>1, <3>1 DEF Same
    <2>10. answer'.changes = told
      BY <1>1, <1>4
    <2> HIDE DEF told
    <2> QED BY <1>1, <2>7, <2>8, <2>9, <2>10 DEF Ledger!Next, Ledger!Answer
  <1> QED BY <1>3, <1>4

\* Every step is a step of the ledger or leaves it alone.
LEMMA LedgerStep ==
  OwnSchemas => (IInv /\ Story /\ Reduced /\ Parsed /\ [Next]_vars => [Ledger!Next]_(Ledger!vars))
  <1> SUFFICES ASSUME OwnSchemas, IInv, Story, Reduced, Parsed, [Next]_vars
               PROVE  [Ledger!Next]_(Ledger!vars)
    OBVIOUS
  <1>1. CASE UNCHANGED vars
    BY <1>1 DEF vars, Ledger!vars
  <1>2. ASSUME NEW p \in Stores, Step(p) PROVE Ledger!Next
    <2>1. ASSUME NEW v \in Versions, Open(p, v) PROVE Ledger!Next
      BY <2>1, OpenStep
    <2>2. CASE Register(p) \/ StoreClose(p) \/ DriverClose(p) \/ DriverClosed(p) \/ Restart(p)
      <3>1. UNCHANGED <<ledger, version>> /\ answer'.outcome = "refused"
        BY <2>2 DEF Register, StoreClose, DriverClose, DriverClosed, Restart, NoAnswer, database
      <3> QED BY <3>1, RefusedStep
    <2>3. ASSUME NEW k \in Keys, NEW i \in Calls, Replay(p, k, i) PROVE Ledger!Next
      BY <2>3, ReplayStep
    <2>4. ASSUME NEW k \in Keys, NEW i \in Calls, NEW e \in Expectations(p), Commit(p, k, i, e)
          PROVE  Ledger!Next
      BY <2>4, CommitStep
    <2>5. ASSUME NEW k \in Keys, NEW i \in Calls, NEW e \in Expectations(p), Conflict(p, k, i, e)
          PROVE  Ledger!Next
      BY <2>5, ConflictStep
    <2>6. ASSUME NEW e \in Expectations(p), Compact(p, e) PROVE Ledger!Next
      BY <2>6, CompactStep
    <2>7. CASE Read(p) \/ \E r \in 0..head.revision : ReadAt(p, r)
      BY <2>7, ReadStep
    <2>8. CASE Refuse(p)
      BY <2>8, RefusedStep DEF Refuse, NoAnswer, database
    <2>9. ASSUME NEW r \in {0} \cup Known(p), NEW limit \in {1, head.revision + 1}, Changes(p, r, limit)
          PROVE  Ledger!Next
      <3>1. r \in Nat
        BY DEF Known, IInv, Seen
      <3>2. limit \in Nat
        BY DEF IInv, TypeOK
      <3> QED BY <2>9, <3>1, <3>2, ChangesStep
    <2> QED BY <1>2, <2>1, <2>2, <2>3, <2>4, <2>5, <2>6, <2>7, <2>8, <2>9 DEF Step
  <1> QED BY <1>1, <1>2 DEF Next

\* If no state is one of two versions' schemas, the store implements the ledger: a
\* key takes effect at most once and on the newest state, a retry gets its result
\* brought to the version of now, an exact read the state of its revision, and a
\* subscriber every change or the compaction that hides it (sqlite.ts, #commit,
\* read, changes).
THEOREM LedgerImplemented == OwnSchemas => (Spec => ImplementsLedger)
  <1> SUFFICES ASSUME OwnSchemas PROVE Spec => ImplementsLedger
    OBVIOUS
  <1>1. IInv /\ Story /\ (Reduced /\ Parsed) /\ [Next]_vars => [Ledger!Next]_(Ledger!vars)
    BY LedgerStep
  <1> QED BY <1>1, LedgerInit, StoryAlways, Invariance, SchemasInvariance, PTL
          DEF Spec, ImplementsLedger, Ledger!Spec
=============================================================================
