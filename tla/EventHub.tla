------------------------------ MODULE EventHub ------------------------------
(***************************************************************************)
(* The project event hub: dev/events.ts.  Everything is synchronous, but   *)
(* publish() and subscribe() call listeners, and a listener may publish,   *)
(* subscribe, unsubscribe or throw while the hub is in the middle of its   *)
(* loops.  The interleavings are those of the call stack, modelled as      *)
(* such: a frame per loop in progress and per listener it has called.      *)
(*                                                                         *)
(* An event is its sequence number, so a queue of events is the set of     *)
(* them, and #history, which keeps the last ReplayLimit events, is a       *)
(* function of the sequence.  A subscription is its place in the Set's     *)
(* order of insertion.  Left out: the payload's validation, which changes  *)
(* no state, and the list of listener failures.                            *)
(***************************************************************************)
EXTENDS Integers, Sequences, SequencesExt

CONSTANTS
    ReplayLimit,    \* events retained (256 in the code)
    MaxEvents,      \* bound: events published
    MaxSubs         \* bound: subscriptions

ASSUME ReplayLimitAssumption == ReplayLimit \in Nat \ {0}
ASSUME BoundsAssumption == {MaxEvents, MaxSubs} \subseteq Nat

VARIABLES
    sequence,       \* #sequence
    undelivered,    \* #undelivered
    subs,           \* every subscription so far, in the order of #subscriptions
    stack,          \* the loops in progress and the listeners they have called
    got             \* the events each subscription was given, in order

vars == <<sequence, undelivered, subs, stack, got>>

Events == 1 .. MaxEvents
Subs == 1 .. Len(subs)

Subscription == [closed : BOOLEAN, replaying : BOOLEAN, pending : SUBSET Events,
                 after : 0 .. MaxEvents, boundary : 0 .. MaxEvents,
                 last : 0 .. MaxEvents, gap : 0 .. MaxEvents]
Frames == [kind : {"drain"}, event : 0 .. MaxEvents, visited : 0 .. MaxSubs]
            \cup [kind : {"replay"}, sub : 1 .. MaxSubs, index : 0 .. ReplayLimit]
            \cup [kind : {"listener"}, sub : 1 .. MaxSubs]

Least(S) == CHOOSE x \in S : \A y \in S : x <= y

\* #history: the element at an index, of Retained elements.
Retained == IF sequence < ReplayLimit THEN sequence ELSE ReplayLimit
History(k) == sequence - Retained + 1 + k

Top == Last(stack)
Running(kind) == stack # <<>> /\ Top.kind = kind
\* Code outside the hub runs: the program, or a listener.
InCaller == stack = <<>> \/ Running("listener")
\* #dispatching
Dispatching == \E n \in DOMAIN stack : stack[n].kind = "drain"

Init == sequence = 0 /\ undelivered = {} /\ subs = <<>> /\ stack = <<>> /\ got = <<>>

-----------------------------------------------------------------------------
(* Calling a listener *)

Calling(s) == [kind |-> "listener", sub |-> s]

\* #deliver, to a subscription that is open and has not had the event; the loop
\* goes on at loop when its listener is done.
Deliver(s, event, loop, queues) ==
    /\ subs' = [queues EXCEPT ![s].last = event]
    /\ got' = [got EXCEPT ![s] = Append(@, event)]
    /\ stack' = Front(stack) \o <<loop, Calling(s)>>

ListenerReturns ==
    /\ Running("listener")
    /\ stack' = Front(stack)
    /\ UNCHANGED <<sequence, undelivered, subs, got>>

\* Mutant: the exception ends the loop that called the listener.
ThrowEscapes ==
    /\ Running("listener")
    /\ stack' = Front(Front(stack))
    /\ subs' = [subs EXCEPT ![Top.sub].closed = TRUE]
    /\ UNCHANGED <<sequence, undelivered, got>>

\* #notify: a listener that throws loses its subscription.
ListenerThrows ==
    /\ Running("listener")
    /\ stack' = Front(stack)
    /\ subs' = [subs EXCEPT ![Top.sub].closed = TRUE]
    /\ UNCHANGED <<sequence, undelivered, got>>

-----------------------------------------------------------------------------
(* publish *)

Queued(event, targets) ==
    [s \in Subs |-> IF s \in targets THEN [subs[s] EXCEPT !.pending = @ \cup {event}] ELSE subs[s]]
Open == {s \in Subs : ~subs[s].closed}
Replaying == {s \in Open : subs[s].replaying}
Draining == [kind |-> "drain", event |-> 0, visited |-> 0]

\* The event is retained, kept for the subscriptions that replay, and
\* dispatched, unless a dispatch is in progress: then that one takes it.
PublishTo(targets, nested) ==
    LET event == sequence + 1 IN
    /\ InCaller /\ sequence < MaxEvents
    /\ sequence' = event
    /\ subs' = Queued(event, targets)
    /\ undelivered' = undelivered \cup {event}
    /\ stack' = IF nested THEN stack ELSE Append(stack, Draining)
    /\ UNCHANGED got

\* Mutants: the event is queued for no subscription; the dispatch starts inside
\* another one.
PublishLiveOnly == PublishTo({}, Dispatching)
PublishNested   == PublishTo(Replaying, FALSE)

Publish == PublishTo(Replaying, Dispatching)

\* Mutant: the dispatch does not look at what a subscription has had.
DrainRepeating ==
    /\ Running("drain")
    /\ LET due == {s \in Open \ Replaying : s > Top.visited /\ Top.event # 0} IN
       \/ /\ due # {}
          /\ Deliver(Least(due), Top.event, [Top EXCEPT !.visited = Least(due)], subs)
          /\ UNCHANGED undelivered
       \/ /\ due = {} /\ undelivered # {}
          /\ stack' = Front(stack) \o <<[Draining EXCEPT !.event = Least(undelivered)]>>
          /\ undelivered' = undelivered \ {Least(undelivered)}
          /\ UNCHANGED <<subs, got>>
       \/ /\ due = {} /\ undelivered = {}
          /\ stack' = Front(stack)
          /\ UNCHANGED <<undelivered, subs, got>>
    /\ UNCHANGED sequence

\* #drainLiveEvents: each event goes to the subscriptions that are there when
\* their turn comes, those added meanwhile included.
Drain ==
    /\ Running("drain")
    /\ LET due == {s \in Open \ Replaying : s > Top.visited /\ Top.event > subs[s].last} IN
       \/ /\ due # {}
          /\ Deliver(Least(due), Top.event, [Top EXCEPT !.visited = Least(due)], subs)
          /\ UNCHANGED undelivered
       \/ /\ due = {} /\ undelivered # {}
          /\ stack' = Front(stack) \o <<[Draining EXCEPT !.event = Least(undelivered)]>>
          /\ undelivered' = undelivered \ {Least(undelivered)}
          /\ UNCHANGED <<subs, got>>
       \/ /\ due = {} /\ undelivered = {}
          /\ stack' = Front(stack)
          /\ UNCHANGED <<undelivered, subs, got>>
    /\ UNCHANGED sequence

-----------------------------------------------------------------------------
(* subscribe and unsubscribe *)

\* The subscription is added at once, and told first of what it has missed.
Subscribe(after) ==
    LET s == Len(subs) + 1
        missed == Retained > 0 /\ after < History(0) - 1
        replay == <<[kind |-> "replay", sub |-> s, index |-> 0]>> IN
    /\ InCaller /\ Len(subs) < MaxSubs
    /\ after <= sequence
    /\ subs' = Append(subs, [closed |-> FALSE, replaying |-> TRUE, pending |-> {},
                             after |-> after, boundary |-> sequence, last |-> after,
                             gap |-> IF missed THEN History(0) - 1 ELSE 0])
    /\ got' = Append(got, <<>>)
    /\ stack' = stack \o replay \o (IF missed THEN <<Calling(s)>> ELSE <<>>)
    /\ UNCHANGED <<sequence, undelivered>>

\* What the loop over #history delivers from its present index on: the array is
\* live, and a publication that drops its first element moves the others.
Due(f) ==
    {k \in f.index .. Retained - 1 :
        /\ ~subs[f.sub].closed
        /\ History(k) > subs[f.sub].last
        /\ History(k) <= subs[f.sub].boundary}

\* One delivery of the replay, from the history and then from what was published
\* meanwhile; at the end the subscription goes live.
Replay ==
    /\ Running("replay")
    /\ LET s == Top.sub
           due == Due(Top)
           pending == subs[s].pending IN
       \/ /\ due # {}
          /\ Deliver(s, History(Least(due)), [Top EXCEPT !.index = Least(due) + 1], subs)
       \/ /\ due = {} /\ ~subs[s].closed /\ pending # {}
          /\ Deliver(s, Least(pending), [Top EXCEPT !.index = ReplayLimit],
                     [subs EXCEPT ![s].pending = @ \ {Least(pending)}])
       \/ /\ due = {} /\ (subs[s].closed \/ pending = {})
          /\ subs' = [subs EXCEPT ![s].replaying = FALSE]
          /\ stack' = Front(stack)
          /\ UNCHANGED got
    /\ UNCHANGED <<sequence, undelivered>>

\* The handle exists once subscribe() has returned.
Unsubscribe(s) ==
    /\ InCaller /\ ~subs[s].replaying
    /\ subs' = [subs EXCEPT ![s].closed = TRUE]
    /\ UNCHANGED <<sequence, undelivered, stack, got>>

Next ==
    \/ Publish \/ \E after \in 0 .. MaxEvents : Subscribe(after)
    \/ \E s \in Subs : Unsubscribe(s)
    \/ Drain \/ Replay \/ ListenerReturns \/ ListenerThrows

Spec == Init /\ [][Next]_vars

-----------------------------------------------------------------------------
(* Properties *)

\* Only a subscription that replays, or was closed while it did, has a queue.
TypeOK ==
    /\ sequence \in 0 .. MaxEvents /\ undelivered \subseteq Events
    /\ subs \in Seq(Subscription) /\ Len(subs) <= MaxSubs
    /\ stack \in Seq(Frames)
    /\ got \in Seq(Seq(Events)) /\ Len(got) = Len(subs)
    /\ \A s \in Subs : subs[s].pending # {} => subs[s].replaying \/ subs[s].closed

\* A listener is never called while it runs, whatever it or another listener
\* publishes or subscribes.
NeverReentered ==
    \A m, n \in DOMAIN stack :
        stack[m].kind = "listener" /\ stack[n].kind = "listener" /\ stack[m].sub = stack[n].sub
            => m = n

\* "Replay cannot reorder live events": every listener has each event at most
\* once, in order.
Ordered == \A s \in Subs : \A m, n \in DOMAIN got[s] : m < n => got[s][m] < got[s][n]

\* When the hub is at rest, every open subscription has been given the newest
\* event, whichever listener threw, unsubscribed or published on the way.
CaughtUp == stack = <<>> => undelivered = {} /\ \A s \in Open : subs[s].last = sequence

\* A subscription has every event published since it was made, up to its last
\* one: what is published during its replay is neither lost nor overtaken.
LiveNeverMissed ==
    \A s \in Subs : subs[s].boundary + 1 .. subs[s].last \subseteq ToSet(got[s])

\* "Queues live events published during replay until retained events are
\* delivered": a subscription has every event since its cursor, but for those it
\* was told are gone.
ReplayComplete ==
    \A s \in Subs :
        \A e \in subs[s].after + 1 .. subs[s].last : e > subs[s].gap => e \in ToSet(got[s])

=============================================================================
