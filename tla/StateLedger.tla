---------------------------- MODULE StateLedger ----------------------------
(***************************************************************************)
(* What the RSC runtime's state kernel promises a caller, whatever its     *)
(* driver: one ledger of states, one per revision, in which an idempotency *)
(* key takes effect at most once, on the newest state; in which a          *)
(* migration rewrites the newest state and ends the history before it, and *)
(* a compaction keeps the newest state and may end it; and from which the  *)
(* answer to every call is read.  Nothing here is stored, replayed or      *)
(* deleted: that is what StateStore implements this module with.           *)
(***************************************************************************)
EXTENDS Naturals, Sequences

CONSTANTS
    Versions,          \* the versions a state definition goes through
    Initial(_),        \* Initial(v): the initial state of version v
    Apply(_, _, _),    \* Apply(v, s, i): the state a call's input i leaves
    Migrated(_, _, _)  \* Migrated(f, t, s): s of version f, brought to t

VARIABLES
    ledger,   \* the committed states, ledger[r + 1] being revision r
    version,  \* the version the newest state is of, 0 before the first open
    answer    \* the answer to the last call

vars == <<ledger, version, answer>>

Tip == ledger[Len(ledger)]
Init == ledger = <<>> /\ version = 0 /\ answer.outcome = "refused"

\* The first open: revision 0 is the initial state of its definition.
Create == \E v \in Versions :
    /\ ledger = <<>>
    /\ version' = v
    /\ ledger' = <<[kind |-> "initial", key |-> <<"none">>, input |-> "none",
                    state |-> Initial(v), version |-> v]>>
    /\ answer'.outcome = "refused"

\* A key that never took effect does, on the newest state.
Effect ==
    /\ ledger # <<>>
    /\ Len(ledger') = Len(ledger) + 1
    /\ LET e == ledger'[Len(ledger')]
       IN  /\ e.kind \in {"event", "reset"}
           /\ \A r \in 1..Len(ledger) : ledger[r].key # e.key
           /\ e.state = Apply(version, Tip.state, e.input)
           /\ e.version = version
           /\ ledger' = Append(ledger, e)
           /\ answer'.key = e.key
           /\ answer'.input = e.input
           /\ answer'.outcome = "committed"
           /\ answer'.revision = Len(ledger)
           /\ answer'.state = e.state
    /\ UNCHANGED version

\* The newest state is brought to a newer version, at the next revision.
Migrate == \E v \in Versions :
    /\ ledger # <<>>
    /\ v > version
    /\ version' = v
    /\ ledger' = Append(ledger, [kind |-> "migrate", key |-> <<"migrate", v>>,
                                 input |-> "none", version |-> v,
                                 state |-> Migrated(version, v, Tip.state)])
    /\ answer'.outcome = "refused"

\* A compaction takes a revision and leaves the state as it was.
Fold ==
    /\ ledger # <<>>
    /\ ledger' = Append(ledger, [kind |-> "compact", key |-> <<"compact", Len(ledger)>>,
                                 input |-> "none", version |-> version,
                                 state |-> Tip.state])
    /\ answer'.outcome = "refused"
    /\ UNCHANGED version

\* A call that changes nothing is answered from the ledger: a key that took
\* effect with what it committed then, brought to the version of now; an
\* exact read with the state of that revision, which is of the version of
\* now; the changes after a revision without a gap, unless they begin with
\* the compaction that made it; or the call is refused: a key that took
\* effect is never told that another revision was in its way.
Told(r) == answer'.key = ledger[r].key /\ answer'.revision = r - 1

Answer ==
    /\ UNCHANGED <<ledger, version>>
    /\ \/ answer'.outcome = "refused"
       \/ /\ answer'.outcome = "replayed"
          /\ \E r \in 1..Len(ledger) :
                /\ Told(r) /\ ledger[r].input = answer'.input
                /\ answer'.state = Migrated(ledger[r].version, version, ledger[r].state)
       \/ /\ answer'.outcome \in {"misused", "pruned"}
          /\ \E r \in 1..Len(ledger) : Told(r)
       \/ /\ answer'.outcome = "conflict"
          /\ \A r \in 1..Len(ledger) : ledger[r].key # answer'.key
       \/ /\ answer'.outcome = "read"
          /\ answer'.revision \in 0..(Len(ledger) - 1)
          /\ LET e == ledger[answer'.revision + 1]
             IN  answer'.state = e.state /\ e.version = version
       \/ /\ answer'.outcome = "changes"
          /\ answer'.changes # <<>> => \E first \in 0..(Len(ledger) - 1) :
                /\ \A i \in 1..Len(answer'.changes) :
                      answer'.changes[i] = ledger[first + i].kind
                /\ first = answer'.revision + 1 \/ ledger[first + 1].kind = "compact"

Next == Create \/ Effect \/ Migrate \/ Fold \/ Answer

Spec == Init /\ [][Next]_vars
=============================================================================
