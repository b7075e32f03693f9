----------------------------- MODULE StateStore -----------------------------
(***************************************************************************)
(* The workspace-durable state store of the RSC runtime                    *)
(* (rsc-runtime/src/state/sqlite.ts and journal.ts): a journal of records, *)
(* a materialised head and the keys compaction pruned, in one SQLite       *)
(* database that several processes open, each with the version of the      *)
(* state definition it was built with.  A call is one transaction; calls   *)
(* are retried with their idempotency key, conditional on a revision read  *)
(* earlier, and a process may be killed and started again with a newer     *)
(* definition at any time.                                                 *)
(*                                                                         *)
(* SQLite is external: a transaction takes effect as one step or not at    *)
(* all, so a kill inside one is a kill before it, and a lost answer is a   *)
(* call made again.  Payload validation, the byte and time budgets and     *)
(* failing reducers are one refusal that changes nothing.                  *)
(***************************************************************************)
EXTENDS Naturals, Sequences, FiniteSets

CONSTANTS
    Stores,          \* the processes, each with a driver and one store
    Keys,            \* callers' idempotency keys
    Events,          \* validated event payloads
    Versions,        \* the versions of the definition: 1..n
    MaxRevisions,    \* budgets.maxRevisions
    Initial(_),      \* definition.initial of a version
    Reduce(_, _, _), \* definition.reduce of a version: state, event
    Upgrade(_, _),   \* definition.migrations[v]
    Accepts(_, _),   \* does the schema of version v accept state s
    None

ASSUME StateAssumption ==
    /\ Versions \subseteq Nat \ {0}
    /\ MaxRevisions \in Nat
    /\ "reset" \notin Events
    /\ None \notin Nat
    /\ \A v \in Versions : Accepts(v, Initial(v)) \* defineState parses it

VARIABLES
    journal,  \* agent_state_journal: a record per retained revision
    head,     \* agent_state_head
    pruned,   \* agent_state_pruned_keys
    version,  \* agent_state_meta.schema_version, 0 before the first open
    driver,   \* each process's driver: open, being closed, closed
    stage,    \* its store: absent, being opened, open
    defined,  \* the version of the definition its store was opened with
    seen,     \* the snapshot its caller read last
    ledger,   \* history: what every revision was committed as
    answer    \* history: the answer to the last call

database == <<journal, head, pruned, version, ledger>>
process == <<driver, stage, defined, seen>>
vars == <<journal, head, pruned, version, driver, stage, defined, seen, ledger, answer>>

Calls == Events \cup {"reset"}
CallerKey(k) == <<"caller", k>>

\* The state a call's input leaves.
Apply(v, s, i) == IF i = "reset" THEN Initial(v) ELSE Reduce(v, s, i)

\* runStateMigrations: a state of version f through every step up to t.
Migrated(f, t, s) ==
    LET step[v \in f..t] == IF v = f THEN s ELSE Upgrade(v, step[v - 1])
    IN  step[t]

\* canonicalCommitInput: an event by its payload, a reset by its state.
Canonical(r) ==
    CASE r.kind = "event" -> <<"event", r.input>>
      [] r.kind = "migrate" -> r.key
      [] r.kind = "compact" -> <<"compact">>
      [] OTHER -> <<"reset", r.state>>

\* No answer, or one that says only that nothing was done.
NoAnswer == [outcome |-> "refused", key |-> <<"none">>, input |-> "none", revision |-> 0,
             state |-> None, changes |-> <<>>]

Init ==
    /\ journal = <<>> /\ pruned = {} /\ version = 0
    /\ head = [revision |-> 0, state |-> None]
    /\ driver = [p \in Stores |-> "open"]
    /\ stage = [p \in Stores |-> "absent"]
    /\ defined = [p \in Stores |-> 0]
    /\ seen = [p \in Stores |-> None]
    /\ ledger = <<>>
    /\ answer = NoAnswer

----------------------------------------------------------------------------
(* Reading the journal.                                                    *)

Revisions == DOMAIN journal
IsBaseline(r) == journal[r].kind # "event"
First == CHOOSE r \in Revisions : \A q \in Revisions : r <= q
Last(S) == IF S = {} THEN 0 ELSE CHOOSE r \in S : \A q \in S : q <= r

LatestMigration == Last({r \in Revisions : journal[r].kind = "migrate"})

\* #replayTo: the revisions that the retained journal still tells.
Available(r) ==
    /\ r >= LatestMigration
    /\ Revisions # {} /\ journal[First].kind = "compact" => r >= First

\* replayJournal: from the latest baseline at or below r, with the reducer
\* of the definition that reads.
Replayed(v, r) ==
    LET base == Last({q \in Revisions : q <= r /\ IsBaseline(q)})
        from == IF base = 0 THEN Initial(v) ELSE journal[base].state
        state[q \in base..r] ==
            IF q = base THEN from ELSE Reduce(v, state[q - 1], journal[q].input)
    IN  state[r]

\* expectConsistentJournal, and the checks of the head against the journal.
Contiguous ==
    Revisions = (IF Revisions # {} /\ journal[First].kind = "compact" THEN First ELSE 1)
                 .. Last(Revisions)
Consistent(v) ==
    /\ Contiguous
    /\ \A q, r \in Revisions : journal[q].key = journal[r].key => q = r
    /\ head.revision = Last(Revisions)
    /\ IF v = version THEN Replayed(v, head.revision) = head.state
                      ELSE Revisions # {} => journal[head.revision].result = head.state

----------------------------------------------------------------------------
(* The driver.                                                             *)

\* The history of one more revision: a record as it was committed.
Recorded(kind, key, input, state, v) ==
    ledger' = Append(ledger, [kind |-> kind, key |-> key, input |-> input,
                              state |-> state, version |-> v])

\* #appendRecord onto a journal J: the record and the head.
Appended(J, kind, key, input, state) ==
    LET r == head.revision + 1
    IN  /\ journal' = [q \in DOMAIN J \cup {r} |-> IF q = r
              THEN [kind |-> kind, key |-> key, input |-> input, state |-> state,
                    result |-> state]
              ELSE J[q]]
        /\ head' = [revision |-> r, state |-> state]

\* initialize() of a new database.
Created(v) ==
    /\ version = 0
    /\ version' = v
    /\ head' = [revision |-> 0, state |-> Initial(v)]
    /\ Recorded("initial", <<"none">>, "none", Initial(v), v)
    /\ UNCHANGED <<journal, pruned>>

\* initialize() of a database of the definition's version.
Verified(v) ==
    /\ version = v /\ Consistent(v)
    /\ UNCHANGED database

\* Mutant: the upgrade rewrites the head and is not journaled.
UpgradesInPlace(v) ==
    /\ version \in 1..(v - 1) /\ Consistent(v)
    /\ head' = [head EXCEPT !.state = Migrated(version, v, @)]
    /\ Recorded("migrate", <<"migrate", v>>, "none", head'.state, v)
    /\ version' = v
    /\ UNCHANGED <<journal, pruned>>

\* initialize() of an older one: the head and every stored result migrate, to
\* states of the new schema; the records keep their input and state.
Upgraded(v) ==
    /\ version \in 1..(v - 1) /\ Consistent(v)
    /\ LET results == [q \in Revisions |->
               [journal[q] EXCEPT !.result = Migrated(version, v, @)]]
           state == Migrated(version, v, head.state)
       IN  /\ Accepts(v, state)
           /\ \A q \in Revisions : Accepts(v, results[q].result)
           /\ Appended(results, "migrate", <<"migrate", v>>, "none", state)
           /\ Recorded("migrate", <<"migrate", v>>, "none", state, v)
    /\ version' = v
    /\ UNCHANGED pruned

\* open(): refused on a closed driver; the open transaction.  It fails with
\* nothing changed when the journal disagrees with the head, the stored
\* version is newer, a migrated state fails its schema or the storage fails.
Open(p, v) ==
    /\ driver[p] = "open" /\ stage[p] = "absent"
    /\ Created(v) \/ Verified(v) \/ Upgraded(v)
    /\ stage' = [stage EXCEPT ![p] = "opening"]
    /\ defined' = [defined EXCEPT ![p] = v]
    /\ answer' = NoAnswer
    /\ UNCHANGED <<driver, seen>>

Without(p) ==
    /\ stage' = [stage EXCEPT ![p] = "absent"]
    /\ defined' = [defined EXCEPT ![p] = 0]

\* A driver's openStores: the stores whose open() came to its end.
Registered(p) == stage[p] = "open"

\* open() goes on: a driver closed meanwhile closes the store and refuses.
Register(p) ==
    /\ stage[p] = "opening"
    /\ IF driver[p] = "open"
       THEN stage' = [stage EXCEPT ![p] = "open"] /\ UNCHANGED defined
       ELSE Without(p)
    /\ answer' = NoAnswer
    /\ UNCHANGED <<database, driver, seen>>

StoreClose(p) ==
    /\ Registered(p)
    /\ Without(p)
    /\ answer' = NoAnswer
    /\ UNCHANGED <<database, driver, seen>>

DriverClose(p) ==
    /\ driver[p] = "open"
    /\ driver' = [driver EXCEPT ![p] = "closing"]
    /\ answer' = NoAnswer
    /\ UNCHANGED <<database, stage, defined, seen>>

\* Mutant: close() does not wait for the opens under way.
SettlesNothing(p) == TRUE

\* pendingOpens.settle(): the opens under way are awaited first.  A caller
\* has no use for what it read once its driver is closed.
Settled(p) == stage[p] # "opening"

DriverClosed(p) ==
    /\ driver[p] = "closing" /\ Settled(p)
    /\ driver' = [driver EXCEPT ![p] = "closed"]
    /\ IF Registered(p) THEN Without(p) ELSE UNCHANGED <<stage, defined>>
    /\ seen' = [seen EXCEPT ![p] = None]
    /\ answer' = NoAnswer
    /\ UNCHANGED database

\* The process ends, or is killed, and another one starts.
Restart(p) ==
    /\ driver' = [driver EXCEPT ![p] = "open"]
    /\ Without(p)
    /\ seen' = [seen EXCEPT ![p] = None]
    /\ answer' = NoAnswer
    /\ UNCHANGED database

----------------------------------------------------------------------------
(* The calls of a store.                                                   *)

\* #headState: the definition's schema must accept the head.
Readable(p) == stage[p] = "open" /\ Accepts(defined[p], head.state)

Answered(outcome, key, i, revision, state) ==
    answer' = [outcome |-> outcome, key |-> key, input |-> i, revision |-> revision,
               state |-> state, changes |-> <<>>]

\* A call that changes nothing and is answered by an error: a payload, a
\* state or a time over its budget, a failing reducer, an aborted call, a
\* head of another schema, a storage failure.
Refuse(p) ==
    /\ stage[p] = "open"
    /\ answer' = NoAnswer
    /\ UNCHANGED <<database, process>>

Committed(k) == {r \in Revisions : journal[r].key = CallerKey(k)}
PrunedAs(k) == {e \in pruned : e.key = CallerKey(k)}
CanonicalCall(p, i) ==
    IF i = "reset" THEN <<"reset", Initial(defined[p])>> ELSE <<"event", i>>

\* #commit of a key that committed: the stored result, a conflict, or a
\* result that compaction deleted.
Replay(p, k, i) ==
    /\ stage[p] = "open"
    /\ \/ \E r \in Committed(k) :
             IF Canonical(journal[r]) = CanonicalCall(p, i)
             THEN /\ Accepts(defined[p], journal[r].result)
                  /\ Answered("replayed", CallerKey(k), i, r, journal[r].result)
             ELSE Answered("misused", CallerKey(k), i, r, None)
       \/ \E e \in PrunedAs(k) :
             /\ Committed(k) = {}
             /\ Answered(IF e.input = CanonicalCall(p, i) THEN "pruned" ELSE "misused",
                         CallerKey(k), i, e.revision, None)
    /\ UNCHANGED <<database, process>>

\* Mutant: the keys that compaction deleted are not looked up.
NewInJournal(k) == Committed(k) = {}

\* Mutant: a revision that was the head once is expected well enough.
ExpectedOnce(expected) == expected \in {None} \cup 0..head.revision

New(k) == Committed(k) = {} /\ PrunedAs(k) = {}
Expected(expected) == expected \in {None, head.revision}

\* #commit of a new key: on the head, if it is the revision expected.
Commit(p, k, i, expected) ==
    /\ Readable(p) /\ New(k) /\ Expected(expected)
    /\ head.revision + 1 <= MaxRevisions
    /\ LET state == Apply(defined[p], head.state, i)
           kind == IF i = "reset" THEN "reset" ELSE "event"
       IN  /\ Accepts(defined[p], state)
           /\ Appended(journal, kind, CallerKey(k), i, state)
           /\ Recorded(kind, CallerKey(k), i, state, version)
           /\ Answered("committed", CallerKey(k), i, head.revision + 1, state)
    /\ UNCHANGED <<pruned, version, process>>

\* A commit of a new key whose caller expected another revision.
Conflict(p, k, i, expected) ==
    /\ Readable(p) /\ New(k) /\ ~Expected(expected)
    /\ Answered("conflict", CallerKey(k), i, head.revision, None)
    /\ UNCHANGED <<database, process>>

\* journalIsCompactable.
Compactable ==
    \/ Cardinality(Revisions) > 1
    \/ \E r \in Revisions : ~IsBaseline(r)

\* Mutant: the pruned keys keep the record's state for its input.
RemembersStates ==
    pruned \cup {[key |-> journal[r].key, revision |-> r, input |-> <<"reset", journal[r].state>>] :
                     r \in Revisions}

\* The keys of the records that compact() deletes.
Remembered ==
    {e \in pruned : \A r \in Revisions : journal[r].key # e.key}
    \cup {[key |-> journal[r].key, revision |-> r, input |-> Canonical(journal[r])] :
              r \in Revisions}

\* compact(): the head becomes the only record.
Compact(p, expected) ==
    /\ Readable(p) /\ Expected(expected)
    /\ Compactable
    /\ pruned' = Remembered
    /\ Appended(<<>>, "compact", <<"compact", head.revision + 1>>, "none", head.state)
    /\ Recorded("compact", <<"compact", head.revision + 1>>, "none", head.state, version)
    /\ answer' = NoAnswer
    /\ UNCHANGED <<version, process>>

\* read(): the head, which the caller keeps, or an exact revision.
Read(p) ==
    /\ Readable(p)
    /\ seen' = [seen EXCEPT ![p] = head]
    /\ Answered("read", <<"none">>, "none", head.revision, head.state)
    /\ UNCHANGED <<database, driver, stage, defined>>

ReadAt(p, r) ==
    /\ Readable(p)
    /\ r < head.revision
    /\ IF Available(r)
       THEN Answered("read", <<"none">>, "none", r, Replayed(defined[p], r))
       ELSE answer' = NoAnswer
    /\ UNCHANGED <<database, process>>

\* changes(): the records after a revision, at most limit of them.
Changes(p, after, limit) ==
    /\ stage[p] = "open"
    /\ LET later == {r \in Revisions : r > after}
           first == CHOOSE r \in later : \A q \in later : r <= q
           kinds == [n \in 1..Cardinality(later) |-> journal[first + n - 1].kind]
       IN  answer' = [NoAnswer EXCEPT !.outcome = "changes", !.revision = after,
                          !.changes = IF later = {} THEN <<>> ELSE
                              SubSeq(kinds, 1, IF limit < Len(kinds) THEN limit ELSE Len(kinds))]
    /\ UNCHANGED <<database, process>>

----------------------------------------------------------------------------
\* The revision a caller read last: it expects it, or none, and polls for the
\* changes after it, or from the start.
Known(p) == IF seen[p] = None THEN {} ELSE {seen[p].revision}
Expectations(p) == {None} \cup Known(p)

Step(p) ==
    \/ \E v \in Versions : Open(p, v)
    \/ Register(p) \/ StoreClose(p) \/ DriverClose(p) \/ DriverClosed(p) \/ Restart(p)
    \/ \E k \in Keys, i \in Calls : Replay(p, k, i)
    \/ \E k \in Keys, i \in Calls, e \in Expectations(p) :
          Commit(p, k, i, e) \/ Conflict(p, k, i, e)
    \/ \E e \in Expectations(p) : Compact(p, e)
    \/ Read(p) \/ Refuse(p)
    \/ \E r \in 0..head.revision : ReadAt(p, r)
    \/ \E r \in {0} \cup Known(p), limit \in {1, head.revision + 1} : Changes(p, r, limit)

Next == \E p \in Stores : Step(p)

Spec == Init /\ [][Next]_vars
----------------------------------------------------------------------------
(* Properties.                                                             *)

TypeOK ==
    /\ head.revision \in Nat /\ version \in {0} \cup Versions
    /\ Revisions \subseteq 1..head.revision
    /\ driver \in [Stores -> {"open", "closing", "closed"}]
    /\ stage \in [Stores -> {"absent", "opening", "open"}]
    /\ defined \in [Stores -> {0} \cup Versions]

\* No legal sequence of calls, kills and upgrades leaves a database that the
\* checks of the next open refuse as corrupt: the retained journal is
\* contiguous, keyed once, and replays to the head (sqlite.ts, initialize).
Reopens == version # 0 => \A v \in Versions : v >= version => Consistent(v)

\* A retry is recognised: a key is refused as misused only if it was
\* committed with another input, or by a reset to the initial state of
\* another version of the definition (sqlite.ts, #commit, #committedByKey).
RetryRecognised ==
    answer.outcome = "misused" => \E n \in 1..Len(ledger) :
        /\ ledger[n].key = answer.key
        /\ \/ ledger[n].input # answer.input
           \/ answer.input = "reset" /\ \E m \in 1..Len(ledger) : ledger[m].kind = "migrate"

\* A conditional commit is computed from the very state its caller read at
\* the revision it names, however many processes committed, upgraded or
\* compacted in between (sqlite.ts, #commit, expectedRevision).
ConditionalOnSeen == [][answer'.outcome = "committed" =>
    \A p \in Stores, k \in Keys, i \in Calls :
        seen[p] # None /\ Commit(p, k, i, seen[p].revision)
            => answer'.state = Apply(defined[p], seen[p].state, i)]_vars

\* Once a driver's close has resolved, none of its stores is left open, not
\* even one whose open was under way (sqlite.ts, close and open).
ClosedLeavesNothing == \A p \in Stores : driver[p] = "closed" => stage[p] = "absent"

\* The store implements the ledger: a key takes effect at most once and on
\* the newest state, a retry gets its result brought to the version of now,
\* an exact read the state of its revision, a subscriber every change or the
\* compaction that hides it.
Ledger == INSTANCE StateLedger
ImplementsLedger == Ledger!Spec
=============================================================================
