-------------------------- MODULE EventHub_proofs --------------------------
(***************************************************************************)
(* For any number of events, subscriptions and retained events, and for    *)
(* listeners that publish, subscribe, unsubscribe and throw while they are *)
(* called: no listener is called while it runs, each gets its events in    *)
(* order and none twice, a subscription misses nothing that was published  *)
(* since it was made, and at rest everyone has had everything.             *)
(*                                                                         *)
(* The properties speak of subscriptions; what makes them true is on the   *)
(* call stack.  IInv says how the stack is nested and what each frame      *)
(* stands for (Nested, Called, Replayed), what the dispatch has still to   *)
(* take (Dispatched) and whom it has served (LiveRight), what a replay     *)
(* queues (Queues), and that a replay ends behind the newest event         *)
(* (ReplayRight).  A step is first reduced to what it changes of the stack *)
(* and of one subscription (Ended, Replaced, Calls, Starts, Gives), since  *)
(* a run of a loop begins, calls a listener or ends in the same few ways.  *)
(***************************************************************************)
EXTENDS EventHub, WellFoundedInduction, SequenceTheorems, TLAPS

\* A stack of loops and of the listeners they have called, in turn: one dispatch,
\* and one replay for every subscription that replays.
Nested ==
    /\ stack # <<>> => stack[1].kind # "listener"
    /\ \A n \in 1 .. Len(stack) - 1 : stack[n].kind = "listener" <=> stack[n + 1].kind # "listener"
    /\ \A m, n \in 1 .. Len(stack) : stack[m].kind = "drain" /\ stack[n].kind = "drain" => m = n
    /\ \A m, n \in 1 .. Len(stack) :
         stack[m].kind = "replay" /\ stack[n].kind = "replay" /\ stack[m].sub = stack[n].sub => m = n

\* A frame is of a subscription that exists, and a listener is called by the replay of
\* its subscription while that replays, and by the dispatch otherwise.
Called ==
    /\ \A n \in 1 .. Len(stack) : stack[n].kind # "drain" => stack[n].sub \in Subs
    /\ \A n \in 1 .. Len(stack) - 1 : stack[n + 1].kind = "listener" =>
         IF stack[n].kind = "replay" THEN stack[n + 1].sub = stack[n].sub
         ELSE ~subs[stack[n + 1].sub].replaying
    /\ \A n \in 1 .. Len(stack) : stack[n].kind = "replay" => subs[stack[n].sub].replaying

\* A subscription that replays has its replay on the stack.
Replayed ==
    \A s \in Subs : subs[s].replaying =>
        \E n \in 1 .. Len(stack) : stack[n].kind = "replay" /\ stack[n].sub = s

\* What the dispatch has still to take is what was published after its event.
Dispatched ==
    /\ ~Dispatching => undelivered = {}
    /\ \A n \in 1 .. Len(stack) : stack[n].kind = "drain" =>
         /\ stack[n].event = 0 => n = Len(stack) /\ sequence # 0 /\ undelivered = {sequence}
         /\ stack[n].event # 0 => stack[n].event <= sequence /\ undelivered = stack[n].event + 1 .. sequence

\* A subscription has had what precedes its last event, and its queue is what was
\* published during its replay and after that event.
Queues ==
    \A s \in Subs :
        /\ subs[s].boundary <= sequence /\ subs[s].last <= sequence
        /\ \A e \in subs[s].pending : subs[s].last < e /\ subs[s].boundary < e /\ e <= sequence
        /\ subs[s].replaying /\ ~subs[s].closed =>
             \A e \in Events : subs[s].last < e /\ subs[s].boundary < e /\ e <= sequence
                                  => e \in subs[s].pending
        /\ \A m \in 1 .. Len(got[s]) : got[s][m] <= subs[s].last

\* As long as nothing is published, the replay has not passed the newest event.
ReplayRight ==
    \A n \in 1 .. Len(stack) : stack[n].kind = "replay" =>
        LET s == stack[n].sub IN
        ~subs[s].closed /\ sequence = subs[s].boundary /\ subs[s].last < sequence => stack[n].index < Retained

\* A live subscription has had every event the dispatch has passed.
LiveRight ==
    \A s \in Open \ Replaying :
        /\ ~Dispatching => sequence <= subs[s].last
        /\ \A n \in 1 .. Len(stack) : stack[n].kind = "drain" =>
             IF stack[n].event = 0 THEN sequence - 1 <= subs[s].last
             ELSE /\ stack[n].event - 1 <= subs[s].last
                  /\ s <= stack[n].visited => stack[n].event <= subs[s].last

\* The inductive invariant.
IInv ==
    /\ TypeOK /\ Nested /\ Called /\ Replayed /\ Dispatched /\ Queues /\ ReplayRight /\ LiveRight
    /\ Ordered /\ LiveNeverMissed

\* What a step may change of a subscription.
Changed(s, pending, last, replaying) ==
    /\ subs'[s] \in Subscription
    /\ subs'[s].pending = pending /\ subs'[s].last = last /\ subs'[s].replaying = replaying
    /\ subs'[s].boundary = subs[s].boundary /\ subs'[s].after = subs[s].after
    /\ subs'[s].gap = subs[s].gap

----------------------------------------------------------------------------
(* Sequences and least elements *)

\* The natural numbers are well founded.
LEMMA LeastIs ==
  ASSUME NEW S \in SUBSET Nat, S # {}
  PROVE  Least(S) \in S /\ \A y \in S : Least(S) <= y
  <1> DEFINE R == {ss \in Nat \X Nat : ss[1] < ss[2]}
  <1>1. IsWellFoundedOn(R, Nat)
    BY NatLessThanWellFounded DEF OpToRel
  <1>2. \E x \in S : \A y \in S : ~(<<y, x>> \in R)
    <2> HIDE DEF R
    <2> QED BY <1>1, WFMin
  <1>3. ASSUME NEW x \in S, NEW y \in S, ~(<<y, x>> \in R)
        PROVE  x <= y
    <2>1. <<y, x>> \in Nat \X Nat /\ <<y, x>>[1] = y /\ <<y, x>>[2] = x
      OBVIOUS
    <2> QED BY <1>3, <2>1
  <1>4. \E x \in S : \A y \in S : x <= y
    BY <1>2, <1>3
  <1> QED BY <1>4 DEF Least

\* The stack without its top.
LEMMA Below ==
  ASSUME TypeOK, stack # <<>>
  PROVE  /\ Len(stack) \in Nat \ {0} /\ Top = stack[Len(stack)] /\ Top \in Frames
         /\ Front(stack) \in Seq(Frames) /\ Len(Front(stack)) = Len(stack) - 1
         /\ \A n \in 1 .. Len(stack) - 1 : Front(stack)[n] = stack[n]
  <1>1. stack \in Seq(Frames) /\ Len(stack) \in Nat \ {0} /\ stack[Len(stack)] \in Frames
    BY DEF TypeOK
  <1>2. Len(stack) - 1 \in Nat /\ \A n \in 1 .. Len(stack) - 1 : n \in 1 .. Len(stack) /\ stack[n] \in Frames
    BY <1>1
  <1>3. /\ Front(stack) = [n \in 1 .. Len(stack) - 1 |-> stack[n]]
    BY <1>1, <1>2 DEF Front
  <1>4. Front(stack) \in Seq(Frames) /\ Len(Front(stack)) = Len(stack) - 1
    BY <1>2, <1>3
  <1> QED BY <1>1, <1>3, <1>4 DEF Top, Last

\* A step that ends the top frame.
LEMMA Ended ==
  ASSUME TypeOK, stack # <<>>, stack' = Front(stack)
  PROVE  /\ Len(stack) \in Nat \ {0} /\ Top = stack[Len(stack)] /\ Top \in Frames
         /\ stack' \in Seq(Frames) /\ Len(stack') = Len(stack) - 1
         /\ \A n \in 1 .. Len(stack') : stack'[n] = stack[n]
  BY Below

\* A step that replaces the top frame.
LEMMA Replaced ==
  ASSUME TypeOK, stack # <<>>, NEW f \in Frames, stack' = Front(stack) \o <<f>>
  PROVE  /\ Len(stack) \in Nat \ {0} /\ Top = stack[Len(stack)] /\ Top \in Frames
         /\ stack' \in Seq(Frames) /\ Len(stack') = Len(stack) /\ stack'[Len(stack)] = f
         /\ \A n \in 1 .. Len(stack) - 1 : stack'[n] = stack[n]
  BY Below

\* A step that calls a listener from the loop on top.
LEMMA Calls ==
  ASSUME TypeOK, stack # <<>>, NEW f \in Frames, NEW g \in Frames, stack' = Front(stack) \o <<f, g>>
  PROVE  /\ Len(stack) \in Nat \ {0} /\ Top = stack[Len(stack)] /\ Top \in Frames
         /\ stack' \in Seq(Frames) /\ Len(stack') = Len(stack) + 1
         /\ stack'[Len(stack)] = f /\ stack'[Len(stack) + 1] = g
         /\ \A n \in 1 .. Len(stack) - 1 : stack'[n] = stack[n]
  <1>1. Front(stack) \in Seq(Frames) /\ Len(Front(stack)) = Len(stack) - 1 /\ Len(stack) \in Nat \ {0}
    BY Below
  <1>2. ASSUME NEW p \in Seq(Frames), Len(p) = Len(stack) - 1
        PROVE  /\ p \o <<f, g>> \in Seq(Frames) /\ Len(p \o <<f, g>>) = Len(stack) + 1
               /\ (p \o <<f, g>>)[Len(stack)] = f /\ (p \o <<f, g>>)[Len(stack) + 1] = g
               /\ \A n \in 1 .. Len(stack) - 1 : (p \o <<f, g>>)[n] = p[n]
    <2>1. Len(p) + 1 = Len(stack) /\ Len(p) + 2 = Len(stack) + 1
      BY <1>1, <1>2
    <2>2. /\ p \o <<f, g>> \in Seq(Frames) /\ Len(p \o <<f, g>>) = Len(p) + 2
          /\ \A n \in 1 .. Len(p) : (p \o <<f, g>>)[n] = p[n]
          /\ (p \o <<f, g>>)[Len(p) + 1] = f /\ (p \o <<f, g>>)[Len(p) + 2] = g
      OBVIOUS
    <2> QED BY <1>2, <2>1, <2>2, Zenon
  <1>3. /\ stack' \in Seq(Frames) /\ Len(stack') = Len(stack) + 1
        /\ stack'[Len(stack)] = f /\ stack'[Len(stack) + 1] = g
        /\ \A n \in 1 .. Len(stack) - 1 : stack'[n] = Front(stack)[n]
    BY <1>1, <1>2, Zenon
  <1> QED BY <1>3, Below

\* A step that starts a loop.
LEMMA Starts ==
  ASSUME TypeOK, NEW f \in Frames, stack' = Append(stack, f)
  PROVE  /\ Len(stack) \in Nat
         /\ stack' \in Seq(Frames) /\ Len(stack') = Len(stack) + 1 /\ stack'[Len(stack) + 1] = f
         /\ \A n \in 1 .. Len(stack) : stack'[n] = stack[n]
  BY DEF TypeOK

\* The frame of a dispatch or of a replay.
LEMMA FrameKinds ==
  ASSUME NEW f \in Frames
  PROVE  /\ f.kind \in {"drain", "replay", "listener"}
         /\ f.kind = "drain" => f.event \in 0 .. MaxEvents /\ f.visited \in 0 .. MaxSubs
              /\ f \in [kind : {"drain"}, event : 0 .. MaxEvents, visited : 0 .. MaxSubs]
         /\ f.kind = "replay" => f.index \in 0 .. ReplayLimit
              /\ f \in [kind : {"replay"}, sub : 1 .. MaxSubs, index : 0 .. ReplayLimit]
         /\ f.kind # "drain" => f.sub \in 1 .. MaxSubs
  BY DEF Frames

\* The indices of the subscriptions, and what is retained of the events.
LEMMA Numbers ==
  ASSUME TypeOK
  PROVE  /\ Subs \subseteq Nat \ {0} /\ Len(subs) \in Nat /\ Subs \subseteq 1 .. MaxSubs
         /\ MaxEvents \in Nat /\ MaxSubs \in Nat /\ ReplayLimit \in Nat \ {0}
         /\ sequence \in Nat /\ sequence <= MaxEvents
         /\ Retained \in Nat /\ Retained <= sequence /\ Retained <= ReplayLimit
         /\ sequence # 0 => Retained # 0
         /\ Dispatching <=> \E n \in 1 .. Len(stack) : stack[n].kind = "drain"
  BY ReplayLimitAssumption, BoundsAssumption DEF TypeOK, Subs, Retained, Dispatching

\* One more event is given to a subscription.
LEMMA Given ==
  ASSUME NEW q \in Seq(Events), NEW e \in Events
  PROVE  /\ Append(q, e) \in Seq(Events) /\ Len(q) \in Nat /\ Len(Append(q, e)) = Len(q) + 1
         /\ \A m \in 1 .. Len(q) : Append(q, e)[m] = q[m]
         /\ Append(q, e)[Len(q) + 1] = e
         /\ ToSet(Append(q, e)) = ToSet(q) \cup {e}
         /\ DOMAIN q = 1 .. Len(q) /\ DOMAIN Append(q, e) = 1 .. Len(q) + 1
  <1>1. /\ Append(q, e) \in Seq(Events) /\ Len(q) \in Nat /\ Len(Append(q, e)) = Len(q) + 1
        /\ \A m \in 1 .. Len(q) : Append(q, e)[m] = q[m]
        /\ Append(q, e)[Len(q) + 1] = e
        /\ DOMAIN q = 1 .. Len(q) /\ DOMAIN Append(q, e) = 1 .. Len(q) + 1
    OBVIOUS
  <1>2. ASSUME NEW x PROVE x \in ToSet(Append(q, e)) <=> x \in ToSet(q) \cup {e}
    <2>1. x \in ToSet(Append(q, e)) <=> \E m \in 1 .. Len(q) + 1 : x = Append(q, e)[m]
      BY DEF ToSet
    <2>2. x \in ToSet(q) <=> \E m \in 1 .. Len(q) : x = q[m]
      BY <1>1 DEF ToSet
    <2> QED BY <1>1, <2>1, <2>2
  <1> QED BY <1>2

\* An event newer than all of an increasing sequence is appended to it.
LEMMA Raised ==
  ASSUME NEW q \in Seq(Events), NEW l \in Nat, NEW e \in Events, l < e,
         \A m \in 1 .. Len(q) : q[m] <= l,
         \A m, n \in DOMAIN q : m < n => q[m] < q[n]
  PROVE  /\ \A m \in 1 .. Len(Append(q, e)) : Append(q, e)[m] <= e
         /\ \A m, n \in DOMAIN Append(q, e) : m < n => Append(q, e)[m] < Append(q, e)[n]
  <1>1. /\ Len(q) \in Nat /\ Len(Append(q, e)) = Len(q) + 1 /\ DOMAIN q = 1 .. Len(q)
        /\ DOMAIN Append(q, e) = 1 .. Len(q) + 1 /\ Append(q, e)[Len(q) + 1] = e
        /\ \A m \in 1 .. Len(q) : Append(q, e)[m] = q[m]
    BY Given
  <1>2. e \in Nat /\ \A m \in 1 .. Len(q) : q[m] \in Nat
    <2>1. Events \subseteq Nat
      BY DEF Events
    <2>2. \A m \in 1 .. Len(q) : q[m] \in Events
      OBVIOUS
    <2> QED BY <2>1, <2>2
  <1>3. \A m \in 1 .. Len(q) : Append(q, e)[m] = q[m] /\ q[m] \in Nat /\ q[m] < e
    BY <1>1, <1>2
  <1>4. \A m \in 1 .. Len(q) + 1 : m \in 1 .. Len(q) \/ m = Len(q) + 1
    BY <1>1
  <1>5. \A m \in 1 .. Len(q) + 1 : Append(q, e)[m] <= e
    BY <1>1, <1>2, <1>3, <1>4
  <1>6. ASSUME NEW m \in 1 .. Len(q) + 1, NEW n \in 1 .. Len(q) + 1, m < n
        PROVE  Append(q, e)[m] < Append(q, e)[n]
    <2>1. m \in 1 .. Len(q) /\ (n \in 1 .. Len(q) \/ n = Len(q) + 1)
      BY <1>1, <1>6
    <2> QED BY <1>1, <1>3, <1>6, <2>1
  <1> QED BY <1>1, <1>5, <1>6

\* Taking the first of an interval, and adding one after its last.
LEMMA Intervals ==
  ASSUME NEW a \in Nat, NEW b \in Nat
  PROVE  /\ (a .. b) \ {a} = a + 1 .. b
         /\ a <= b + 1 => (a .. b) \cup {b + 1} = a .. b + 1
         /\ a <= b => (a + 1 .. b) \cup {b + 1} = a + 1 .. b + 1
  <1>1. \A x \in Int : /\ x \in (a .. b) \ {a} <=> x \in a + 1 .. b
                       /\ a <= b + 1 => (x \in (a .. b) \cup {b + 1} <=> x \in a .. b + 1)
                       /\ a <= b => (x \in (a + 1 .. b) \cup {b + 1} <=> x \in a + 1 .. b + 1)
    OBVIOUS
  <1>2. /\ (a .. b) \ {a} \subseteq Int /\ a + 1 .. b \subseteq Int
        /\ (a .. b) \cup {b + 1} \subseteq Int /\ a .. b + 1 \subseteq Int
        /\ (a + 1 .. b) \cup {b + 1} \subseteq Int /\ a + 1 .. b + 1 \subseteq Int
    OBVIOUS
  <1>3. (a .. b) \ {a} = a + 1 .. b
    BY <1>1, <1>2, Zenon
  <1>4. a <= b + 1 => (a .. b) \cup {b + 1} = a .. b + 1
    BY <1>1, <1>2, Zenon
  <1>5. a <= b => (a + 1 .. b) \cup {b + 1} = a + 1 .. b + 1
    BY <1>1, <1>2, Zenon
  <1> QED BY <1>3, <1>4, <1>5

\* Whether a dispatch runs after the step.
LEMMA DispatchingNext ==
  ASSUME stack' \in Seq(Frames)
  PROVE  Dispatching' <=> \E n \in 1 .. Len(stack') : stack'[n].kind = "drain"
  BY DEF Dispatching

\* A subscription is replaced.
LEMMA PutSub ==
  ASSUME TypeOK, NEW s \in Subs, NEW r \in Subscription, subs' = [subs EXCEPT ![s] = r]
  PROVE  /\ subs' \in Seq(Subscription) /\ Len(subs') = Len(subs)
         /\ \A t \in Subs : subs'[t] = IF t = s THEN r ELSE subs[t]
  <1>1. subs \in Seq(Subscription) /\ s \in 1 .. Len(subs)
    BY DEF TypeOK, Subs
  <1>2. /\ [subs EXCEPT ![s] = r] \in Seq(Subscription) /\ Len([subs EXCEPT ![s] = r]) = Len(subs)
        /\ \A t \in 1 .. Len(subs) : [subs EXCEPT ![s] = r][t] = IF t = s THEN r ELSE subs[t]
    BY <1>1
  <1> QED BY <1>2, Zenon DEF Subs

\* A subscription is closed.
LEMMA Closing ==
  ASSUME TypeOK, NEW s \in Subs, subs' = [subs EXCEPT ![s].closed = TRUE]
  PROVE  /\ subs' \in Seq(Subscription) /\ Len(subs') = Len(subs) /\ Len(subs) \in Nat
         /\ \A t \in Subs : Changed(t, subs[t].pending, subs[t].last, subs[t].replaying)
         /\ \A t \in Subs : subs'[t].closed = IF t = s THEN TRUE ELSE subs[t].closed
  <1>1. /\ subs \in Seq(Subscription) /\ Len(subs) \in Nat
        /\ \A t \in Subs : subs[t] \in Subscription
    BY DEF TypeOK, Subs
  <1> DEFINE r == [subs[s] EXCEPT !.closed = TRUE]
  <1>2. r \in Subscription /\ r.closed = TRUE
        /\ r.pending = subs[s].pending /\ r.last = subs[s].last /\ r.replaying = subs[s].replaying
        /\ r.boundary = subs[s].boundary /\ r.after = subs[s].after /\ r.gap = subs[s].gap
    BY <1>1 DEF Subscription
  <1>3. subs' = [subs EXCEPT ![s] = r]
    OBVIOUS
  <1> HIDE DEF r
  <1>4. /\ subs' \in Seq(Subscription) /\ Len(subs') = Len(subs)
        /\ \A t \in Subs : subs'[t] = IF t = s THEN r ELSE subs[t]
    <2>1. r \in Subscription
      BY <1>2
    <2> QED BY <1>3, <2>1, PutSub, Zenon
  <1>5. ASSUME NEW t \in Subs
        PROVE  /\ Changed(t, subs[t].pending, subs[t].last, subs[t].replaying)
               /\ subs'[t].closed = IF t = s THEN TRUE ELSE subs[t].closed
    <2>1. CASE t = s
      BY <1>2, <1>4, <2>1 DEF Changed
    <2>2. CASE t # s
      BY <1>1, <1>4, <2>2 DEF Changed
    <2> QED BY <2>1, <2>2
  <1> QED BY <1>1, <1>4, <1>5

\* What a delivery changes.
Gives(s, event, queue) ==
    /\ Subs' = Subs /\ subs' \in Seq(Subscription) /\ Len(subs') = Len(subs)
    /\ \A t \in Subs : t # s => subs'[t] = subs[t] /\ got'[t] = got[t]
    /\ subs'[s].pending = queue /\ subs'[s].last = event
    /\ subs'[s].boundary = subs[s].boundary /\ subs'[s].replaying = subs[s].replaying
    /\ subs'[s].closed = subs[s].closed
    /\ got' \in Seq(Seq(Events)) /\ Len(got') = Len(subs')
    /\ got'[s] = Append(got[s], event)

\* An event is delivered to a subscription.
LEMMA Delivered ==
  ASSUME TypeOK, NEW s \in Subs, NEW event \in Events, NEW queue \in SUBSET Events,
         subs' = [subs EXCEPT ![s] = [subs[s] EXCEPT !.pending = queue, !.last = event]],
         got' = [got EXCEPT ![s] = Append(got[s], event)]
  PROVE  Gives(s, event, queue)
  <1>1. /\ subs \in Seq(Subscription) /\ subs[s] \in Subscription /\ s \in 1 .. Len(subs)
        /\ got \in Seq(Seq(Events)) /\ got[s] \in Seq(Events) /\ Len(got) = Len(subs)
    BY DEF TypeOK, Subs
  <1> DEFINE r == [subs[s] EXCEPT !.pending = queue, !.last = event]
             g == Append(got[s], event)
  <1>2. event \in 0 .. MaxEvents
    BY DEF Events
  <1>3. /\ r \in Subscription /\ r.pending = queue /\ r.last = event /\ r.closed = subs[s].closed
        /\ r.boundary = subs[s].boundary /\ r.replaying = subs[s].replaying
    BY <1>1, <1>2 DEF Subscription
  <1>4. g \in Seq(Events)
    BY <1>1
  <1>5. subs' = [subs EXCEPT ![s] = r] /\ got' = [got EXCEPT ![s] = g] /\ g = Append(got[s], event)
    OBVIOUS
  <1> HIDE DEF r, g
  <1>6. /\ subs' \in Seq(Subscription) /\ Len(subs') = Len(subs)
        /\ \A t \in 1 .. Len(subs) : subs'[t] = IF t = s THEN r ELSE subs[t]
    <2>1. r \in Subscription
      BY <1>3
    <2> QED BY <1>5, <2>1, PutSub, Zenon DEF Subs
  <1>7. /\ got' \in Seq(Seq(Events)) /\ Len(got') = Len(got)
        /\ \A t \in 1 .. Len(got) : got'[t] = IF t = s THEN g ELSE got[t]
    <2>1. ASSUME NEW q \in Seq(Seq(Events)), NEW x \in Seq(Events), NEW i \in 1 .. Len(q)
          PROVE  /\ [q EXCEPT ![i] = x] \in Seq(Seq(Events)) /\ Len([q EXCEPT ![i] = x]) = Len(q)
                 /\ \A t \in 1 .. Len(q) : [q EXCEPT ![i] = x][t] = IF t = i THEN x ELSE q[t]
      OBVIOUS
    <2>2. s \in 1 .. Len(got)
      BY <1>1
    <2>3. /\ [got EXCEPT ![s] = g] \in Seq(Seq(Events)) /\ Len([got EXCEPT ![s] = g]) = Len(got)
          /\ \A t \in 1 .. Len(got) : [got EXCEPT ![s] = g][t] = IF t = s THEN g ELSE got[t]
      BY <1>1, <1>4, <2>1, <2>2, Zenon
    <2> QED BY <1>5, <2>3, Zenon
  <1> QED BY <1>1, <1>3, <1>6, <1>7 DEF Subs, Gives

\* What the loops deliver is after what the subscription has had, with nothing
\* that it is owed left out in between.
LEMMA DeliveryKeeps ==
  ASSUME IInv, UNCHANGED sequence,
         NEW s \in Subs, NEW event \in Events, NEW queue \in SUBSET Events,
         subs[s].last < event, event <= sequence,
         queue # {} => subs[s].replaying \/ subs[s].closed,
         \A e \in queue : event < e /\ subs[s].boundary < e /\ e <= sequence,
         subs[s].replaying => \A e \in Events :
             event < e /\ subs[s].boundary < e /\ e <= sequence => e \in queue,
         \A e \in Events : subs[s].boundary < e /\ e < event => e <= subs[s].last,
         Gives(s, event, queue)
  PROVE  /\ \A t \in Subs : subs'[t].replaying = subs[t].replaying /\ subs'[t].closed = subs[t].closed
         /\ \A t \in Subs : subs'[t].pending # {} => subs'[t].replaying \/ subs'[t].closed
         /\ Queues' /\ Ordered' /\ LiveNeverMissed'
  <1>1. TypeOK /\ Queues /\ Ordered /\ LiveNeverMissed
    BY DEF IInv
  <1>2. /\ Subs' = Subs /\ subs' \in Seq(Subscription) /\ Len(subs') = Len(subs)
        /\ \A t \in Subs : t # s => subs'[t] = subs[t] /\ got'[t] = got[t]
        /\ subs'[s].pending = queue /\ subs'[s].last = event
        /\ subs'[s].boundary = subs[s].boundary /\ subs'[s].replaying = subs[s].replaying
        /\ subs'[s].closed = subs[s].closed
        /\ got' \in Seq(Seq(Events)) /\ Len(got') = Len(subs')
        /\ got[s] \in Seq(Events) /\ got'[s] = Append(got[s], event)
    BY <1>1 DEF Gives, TypeOK, Subs
  <1>3. /\ got'[s] \in Seq(Events) /\ Len(got[s]) \in Nat /\ Len(got'[s]) = Len(got[s]) + 1
        /\ \A m \in 1 .. Len(got[s]) : got'[s][m] = got[s][m]
        /\ got'[s][Len(got[s]) + 1] = event
        /\ ToSet(got'[s]) = ToSet(got[s]) \cup {event}
        /\ DOMAIN got[s] = 1 .. Len(got[s]) /\ DOMAIN got'[s] = 1 .. Len(got[s]) + 1
    BY <1>2, Given
  <1>4. /\ sequence \in Nat /\ event \in Nat /\ subs[s].last \in Nat /\ subs[s].boundary \in Nat
        /\ MaxEvents \in Nat /\ sequence <= MaxEvents
        /\ \A m \in 1 .. Len(got[s]) : got[s][m] \in Nat
    <2>1. sequence \in Nat /\ MaxEvents \in Nat /\ sequence <= MaxEvents /\ event \in Nat
      BY <1>1, Numbers DEF Events
    <2>2. subs[s] \in Subscription /\ got[s] \in Seq(Events)
      BY <1>1 DEF TypeOK, Subs
    <2>3. \A m \in 1 .. Len(got[s]) : got[s][m] \in Events
      BY <2>2
    <2> QED BY <2>1, <2>2, <2>3 DEF Subscription, Events
  <1>5. \A t \in Subs : subs'[t].replaying = subs[t].replaying /\ subs'[t].closed = subs[t].closed
    BY <1>2
  <1>6. \A t \in Subs : subs'[t].pending # {} => subs'[t].replaying \/ subs'[t].closed
    BY <1>1, <1>2 DEF TypeOK
  <1>7. /\ \A m \in 1 .. Len(got'[s]) : got'[s][m] <= event
        /\ \A m, n \in DOMAIN got'[s] : m < n => got'[s][m] < got'[s][n]
    <2>1. /\ got[s] \in Seq(Events) /\ subs[s].last \in Nat /\ event \in Events
          /\ subs[s].last < event /\ got'[s] = Append(got[s], event)
      BY <1>2, <1>4
    <2>2. \A m \in 1 .. Len(got[s]) : got[s][m] <= subs[s].last
      BY <1>1 DEF Queues
    <2>3. \A m, n \in DOMAIN got[s] : m < n => got[s][m] < got[s][n]
      BY <1>1 DEF Ordered
    <2> QED BY <2>1, <2>2, <2>3, Raised, Zenon
  <1>8. Queues'
    <2>1. \A e \in queue : event < e /\ subs[s].boundary < e /\ e <= sequence
      OBVIOUS
    <2>2. \A m \in 1 .. Len(got'[s]) : got'[s][m] <= event
      BY <1>7
    <2> QED BY <1>1, <1>2, <1>4, <2>1, <2>2 DEF Queues
  <1>9. Ordered'
    <2>1. \A m, n \in DOMAIN got'[s] : m < n => got'[s][m] < got'[s][n]
      BY <1>7
    <2> QED BY <1>1, <1>2, <2>1 DEF Ordered
  <1>10. LiveNeverMissed'
    <2>1. subs[s].boundary + 1 .. event \subseteq ToSet(got'[s])
      <3>1. ASSUME NEW e \in subs[s].boundary + 1 .. event, e # event
            PROVE  e \in subs[s].boundary + 1 .. subs[s].last
        <4>1. e \in Events /\ subs[s].boundary < e /\ e < event
          BY <1>4, <3>1 DEF Events
        <4>2. e <= subs[s].last
          BY <4>1
        <4> QED BY <3>1, <4>2
      <3> QED BY <1>1, <1>3, <3>1 DEF LiveNeverMissed
    <2> QED BY <1>1, <1>2, <2>1 DEF LiveNeverMissed
  <1> QED BY <1>2, <1>5, <1>6, <1>8, <1>9, <1>10

\* What calling a listener from the loop on top changes of the stack.
CallsFrom(f, s) ==
    /\ stack' \in Seq(Frames) /\ Len(stack') = Len(stack) + 1
    /\ stack'[Len(stack)] = f /\ stack'[Len(stack) + 1] = Calling(s)
    /\ \A n \in 1 .. Len(stack) - 1 : stack'[n] = stack[n]

\* The loop on top calls a listener.
LEMMA CallKeeps ==
  ASSUME IInv, stack # <<>>, Top.kind # "listener", NEW f \in Frames, NEW s \in Subs,
         f.kind = Top.kind,
         f.kind = "drain" => Top.event # 0 /\ f.event = Top.event /\ ~subs[s].replaying,
         f.kind = "replay" => f.sub = s /\ Top.sub = s,
         Len(stack) \in Nat \ {0}, Top = stack[Len(stack)],
         stack' \in Seq(Frames), Len(stack') = Len(stack) + 1,
         \A n \in 1 .. Len(stack) - 1 : stack'[n] = stack[n],
         stack'[Len(stack)] = f, stack'[Len(stack) + 1] = Calling(s),
         UNCHANGED <<sequence, undelivered>>, Subs' = Subs,
         \A t \in Subs : subs'[t].replaying = subs[t].replaying
  PROVE  /\ Dispatching' <=> Dispatching
         /\ Nested' /\ Called' /\ Replayed' /\ Dispatched'
  <1>1. TypeOK /\ Nested /\ Called /\ Replayed /\ Dispatched
    BY DEF IInv
  <1>2. Calling(s) \in Frames /\ Calling(s).kind = "listener" /\ Calling(s).sub = s
    BY <1>1 DEF Calling, Frames
  <1>3. /\ Len(stack) \in Nat \ {0} /\ Top = stack[Len(stack)]
        /\ stack' \in Seq(Frames) /\ Len(stack') = Len(stack) + 1
        /\ stack'[Len(stack)] = f /\ stack'[Len(stack) + 1] = Calling(s)
        /\ \A n \in 1 .. Len(stack) - 1 : stack'[n] = stack[n]
    OBVIOUS
  <1>4. /\ \A n \in 1 .. Len(stack') : n \in 1 .. Len(stack) \/ n = Len(stack) + 1
        /\ \A n \in 1 .. Len(stack) : n \in 1 .. Len(stack') /\ (n \in 1 .. Len(stack) - 1 \/ n = Len(stack))
        /\ Len(stack) \in 1 .. Len(stack) /\ Len(stack) + 1 \notin 1 .. Len(stack)
        /\ Len(stack) + 1 \in 1 .. Len(stack')
    OBVIOUS
  <1>5. \A n \in 1 .. Len(stack) : /\ stack'[n].kind = stack[n].kind
                                   /\ stack[n].kind = "drain" => stack'[n].event = stack[n].event
                                   /\ stack[n].kind # "drain" => stack'[n].sub = stack[n].sub
    <2>1. f.kind = "drain" \/ f.kind = "replay"
      BY FrameKinds
    <2> QED BY <1>4, <2>1
  <1>6. Dispatching' <=> Dispatching
    <2>1. Dispatching <=> \E n \in 1 .. Len(stack) : stack[n].kind = "drain"
      BY <1>3 DEF Dispatching
    <2>2. Dispatching' <=> \E n \in 1 .. Len(stack') : stack'[n].kind = "drain"
      BY <1>3, DispatchingNext
    <2>3. stack'[Len(stack) + 1].kind # "drain"
      BY <1>2, <1>3
    <2> QED BY <1>4, <1>5, <2>1, <2>2, <2>3
  <1>7. Nested'
    <2>1. stack'[1].kind # "listener"
      BY <1>1, <1>3, <1>5 DEF Nested
    <2>2. \A n \in 1 .. Len(stack) : (stack'[n].kind = "listener" <=> stack'[n + 1].kind # "listener")
      <3>1. \A n \in 1 .. Len(stack) - 1 : n + 1 \in 1 .. Len(stack) /\ n \in 1 .. Len(stack)
        OBVIOUS
      <3>2. \A n \in 1 .. Len(stack) - 1 : (stack'[n].kind = "listener" <=> stack'[n + 1].kind # "listener")
        BY <1>1, <1>5, <3>1 DEF Nested
      <3> QED BY <1>2, <1>3, <1>4, <3>2
    <2>3. \A n \in 1 .. Len(stack') : stack'[n].kind # "listener" => n \in 1 .. Len(stack)
      BY <1>2, <1>3
    <2>4. \A m, n \in 1 .. Len(stack') : stack'[m].kind = "drain" /\ stack'[n].kind = "drain" => m = n
      BY <1>1, <2>3 DEF Nested
    <2>5. \A m, n \in 1 .. Len(stack') :
            stack'[m].kind = "replay" /\ stack'[n].kind = "replay" /\ stack'[m].sub = stack'[n].sub => m = n
      BY <1>1, <1>5, <2>3 DEF Nested
    <2> QED BY <2>1, <2>2, <2>4, <2>5 DEF Nested
  <1>8. Called'
    <2>1. \A n \in 1 .. Len(stack') : stack'[n].kind # "drain" => stack'[n].sub \in Subs
      BY <1>1, <1>2, <1>3, <1>4, <1>5 DEF Called
    <2>2. \A n \in 1 .. Len(stack') : stack'[n].kind = "replay" => subs'[stack'[n].sub].replaying
      BY <1>1, <1>2, <1>3, <1>4, <2>1 DEF Called
    <2>3. ASSUME NEW n \in 1 .. Len(stack) - 1, stack'[n + 1].kind = "listener"
          PROVE  IF stack'[n].kind = "replay" THEN stack'[n + 1].sub = stack'[n].sub
                 ELSE ~subs'[stack'[n + 1].sub].replaying
      <3>1. n + 1 \in 1 .. Len(stack) /\ n \in 1 .. Len(stack)
        OBVIOUS
      <3>2. stack[n + 1].kind = "listener" /\ stack[n + 1].sub \in Subs /\ stack'[n + 1].sub = stack[n + 1].sub
        BY <1>1, <2>3, <3>1 DEF Called
      <3>3. stack'[n].kind = stack[n].kind /\ (stack[n].kind = "replay" => stack'[n].sub = stack[n].sub)
        BY <1>5, <3>1
      <3>4. IF stack[n].kind = "replay" THEN stack[n + 1].sub = stack[n].sub
            ELSE ~subs[stack[n + 1].sub].replaying
        BY <1>1, <3>2 DEF Called
      <3>5. subs'[stack[n + 1].sub].replaying = subs[stack[n + 1].sub].replaying
        BY <3>2
      <3> QED BY <3>2, <3>3, <3>4, <3>5
    <2>4. IF f.kind = "replay" THEN s = f.sub ELSE ~subs'[s].replaying
      BY <1>3, FrameKinds
    <2>5. \A n \in 1 .. Len(stack') - 1 : n \in 1 .. Len(stack) - 1 \/ n = Len(stack)
      OBVIOUS
    <2> QED BY <1>2, <1>3, <2>1, <2>2, <2>3, <2>4, <2>5 DEF Called
  <1>9. Replayed'
    <2>1. ASSUME NEW t \in Subs, subs[t].replaying
          PROVE  \E n \in 1 .. Len(stack') : stack'[n].kind = "replay" /\ stack'[n].sub = t
      BY <1>1, <1>4, <1>5, <2>1 DEF Replayed
    <2> QED BY <2>1 DEF Replayed
  <1>10. Dispatched'
    <2>1. ASSUME NEW n \in 1 .. Len(stack'), stack'[n].kind = "drain"
          PROVE  /\ stack'[n].event # 0
                 /\ stack'[n].event <= sequence /\ undelivered = stack'[n].event + 1 .. sequence
      <3>1. n \in 1 .. Len(stack) /\ stack[n].kind = "drain" /\ stack'[n].event = stack[n].event
        BY <1>2, <1>3, <1>4, <1>5, <2>1
      <3>2. stack[n].event # 0
        BY <1>1, <1>3, <3>1 DEF Dispatched
      <3> QED BY <1>1, <3>1, <3>2 DEF Dispatched
    <2>2. ~Dispatching => undelivered = {}
      BY <1>1 DEF Dispatched
    <2> QED BY <1>6, <2>1, <2>2 DEF Dispatched
  <1> QED BY <1>6, <1>7, <1>8, <1>9, <1>10

----------------------------------------------------------------------------
(* Every action keeps the invariant *)

\* A listener returns.
LEMMA ReturnKeeps ==
  ASSUME IInv, ListenerReturns
  PROVE  IInv'
  <1>1. /\ stack # <<>> /\ Top.kind = "listener" /\ stack' = Front(stack)
        /\ UNCHANGED <<sequence, undelivered, subs, got>> /\ TypeOK
    BY DEF ListenerReturns, Running, IInv
  <1>2. /\ Len(stack) \in Nat \ {0} /\ stack[Len(stack)].kind = "listener"
        /\ stack' \in Seq(Frames) /\ Len(stack') = Len(stack) - 1
        /\ \A n \in 1 .. Len(stack') : stack'[n] = stack[n]
    BY <1>1, Ended
  <1>3. stack' # <<>> => Len(stack') # 0
    OBVIOUS
  <1>4. Dispatching' <=> Dispatching
    BY <1>1, <1>2 DEF Dispatching
  <1>5. TypeOK'
    BY <1>1, <1>2, <1>3, <1>4 DEF IInv, TypeOK, Subs, Subscription, Calling
  <1>6. Nested'
    BY <1>1, <1>2, <1>3, <1>4 DEF IInv, Nested, Calling
  <1>7. Called'
    BY <1>1, <1>2, <1>3, <1>4 DEF IInv, Called, Subs, Calling
  <1>8. Replayed'
    BY <1>1, <1>2, <1>3, <1>4 DEF IInv, Replayed, Subs, Calling
  <1>9. Dispatched'
    BY <1>1, <1>2, <1>3, <1>4 DEF IInv, Dispatched
  <1>10. Queues'
    BY <1>1, <1>2, <1>3, <1>4 DEF IInv, Queues, Subs, Events
  <1>11. ReplayRight'
    BY <1>1, <1>2, <1>3, <1>4 DEF IInv, ReplayRight, Called, Retained, Subs, Calling
  <1>12. LiveRight'
    BY <1>1, <1>2, <1>3, <1>4 DEF IInv, LiveRight, Open, Replaying, Subs, Calling
  <1>13. Ordered'
    BY <1>1, <1>3, <1>4 DEF IInv, Ordered, Queues, Subs
  <1>14. LiveNeverMissed'
    BY <1>1, <1>2, <1>3, <1>4 DEF IInv, LiveNeverMissed, Subs
  <1> QED BY <1>5, <1>6, <1>7, <1>8, <1>9, <1>10, <1>11, <1>12, <1>13, <1>14 DEF IInv

\* A listener throws.
LEMMA ThrowKeeps ==
  ASSUME IInv, ListenerThrows
  PROVE  IInv'
  <1>1. /\ stack # <<>> /\ Top.kind = "listener" /\ stack' = Front(stack) /\ TypeOK
        /\ subs' = [subs EXCEPT ![Top.sub].closed = TRUE]
        /\ UNCHANGED <<sequence, undelivered, got>>
    BY DEF ListenerThrows, Running, IInv
  <1>2. /\ Len(stack) \in Nat \ {0} /\ stack[Len(stack)].kind = "listener" /\ Top = stack[Len(stack)]
        /\ stack' \in Seq(Frames) /\ Len(stack') = Len(stack) - 1
        /\ \A n \in 1 .. Len(stack') : stack'[n] = stack[n]
    BY <1>1, Ended
  <1>3. stack' # <<>> => Len(stack') # 0
    OBVIOUS
  <1>4. Dispatching' <=> Dispatching
    <2>1. Dispatching <=> \E n \in 1 .. Len(stack) : stack[n].kind = "drain"
      BY <1>1, Numbers
    <2>2. Dispatching' <=> \E n \in 1 .. Len(stack') : stack'[n].kind = "drain"
      BY <1>2, DispatchingNext
    <2>3. \A n \in 1 .. Len(stack) : n \in 1 .. Len(stack') \/ n = Len(stack)
      BY <1>2
    <2>4. \A n \in 1 .. Len(stack') : n \in 1 .. Len(stack)
      BY <1>2
    <2> QED BY <1>2, <2>1, <2>2, <2>3, <2>4
  <1>5. Top.sub \in Subs
    BY <1>2 DEF IInv, Called
  <1>6. /\ subs' \in Seq(Subscription) /\ Len(subs') = Len(subs) /\ Len(subs) \in Nat
        /\ \A s \in Subs : Changed(s, subs[s].pending, subs[s].last, subs[s].replaying)
        /\ \A s \in Subs : subs[s].closed => subs'[s].closed
    BY <1>1, <1>5, Closing
  <1>7. /\ UNCHANGED <<sequence, undelivered, got>> /\ Subs' = Subs
        /\ subs' \in Seq(Subscription) /\ Len(subs') = Len(subs)
        /\ \A s \in Subs : subs'[s].pending = subs[s].pending /\ subs'[s].replaying = subs[s].replaying
        /\ \A s \in Subs : subs[s].closed => subs'[s].closed
    BY <1>1, <1>6 DEF Changed, Subs
  <1>8. TypeOK'
    BY <1>2, <1>7 DEF IInv, TypeOK, Subs, Subscription, Calling
  <1>9. Nested'
    BY <1>2, <1>3 DEF IInv, Nested
  <1>10. Called'
    <2>1. \A n \in 1 .. Len(stack') : n \in 1 .. Len(stack) /\ stack'[n] = stack[n]
      BY <1>2
    <2>2. ASSUME NEW n \in 1 .. Len(stack), stack[n].kind # "drain"
          PROVE  stack[n].sub \in Subs /\ subs'[stack[n].sub].replaying = subs[stack[n].sub].replaying
      BY <1>7, <2>2 DEF IInv, Called
    <2>3. \A n \in 1 .. Len(stack') : stack'[n].kind # "drain" => stack'[n].sub \in Subs'
      BY <1>7, <2>1, <2>2
    <2>4. \A n \in 1 .. Len(stack') : stack'[n].kind = "replay" => subs'[stack'[n].sub].replaying
      BY <1>7, <2>1, <2>2 DEF IInv, Called
    <2>5. ASSUME NEW n \in 1 .. Len(stack') - 1, stack'[n + 1].kind = "listener"
          PROVE  IF stack'[n].kind = "replay" THEN stack'[n + 1].sub = stack'[n].sub
                 ELSE ~subs'[stack'[n + 1].sub].replaying
      <3>1. /\ n \in 1 .. Len(stack) - 1 /\ n + 1 \in 1 .. Len(stack)
            /\ stack'[n] = stack[n] /\ stack'[n + 1] = stack[n + 1]
        BY <1>2
      <3> QED BY <2>2, <2>5, <3>1 DEF IInv, Called
    <2> QED BY <2>3, <2>4, <2>5 DEF Called
  <1>11. Replayed'
    BY <1>1, <1>2, <1>3, <1>4, <1>6 DEF IInv, Replayed, Subs, Calling, Changed
  <1>12. Dispatched'
    BY <1>1, <1>2, <1>3, <1>4, <1>6 DEF IInv, Dispatched, Calling, Changed
  <1>13. Queues'
    BY <1>1, <1>2, <1>3, <1>4, <1>6 DEF IInv, Queues, Subs, Events, Changed
  <1>14. ReplayRight'
    BY <1>1, <1>2, <1>3, <1>4, <1>6 DEF IInv, ReplayRight, Called, Retained, Subs, Calling,
       Changed
  <1>15. LiveRight'
    BY <1>1, <1>2, <1>3, <1>4, <1>6 DEF IInv, LiveRight, Open, Replaying, Subs, Calling,
       Changed
  <1>16. Ordered'
    BY <1>1, <1>2, <1>3, <1>4, <1>6 DEF IInv, Ordered, Queues, Subs, Changed
  <1>17. LiveNeverMissed'
    BY <1>1, <1>2, <1>3, <1>4, <1>6 DEF IInv, LiveNeverMissed, Subs, Changed
  <1> QED BY <1>8, <1>9, <1>10, <1>11, <1>12, <1>13, <1>14, <1>15, <1>16, <1>17 DEF IInv

\* What runs is on top of the stack.
LEMMA Runs ==
  ASSUME IInv, stack # <<>>
  PROVE  /\ Len(stack) \in Nat \ {0} /\ Len(stack) \in 1 .. Len(stack)
         /\ Top = stack[Len(stack)] /\ Top \in Frames
         /\ stack \in Seq(Frames)
         /\ \A n \in 1 .. Len(stack) : stack[n].kind = "drain" /\ Top.kind = "drain" => n = Len(stack)
         /\ \A n \in 1 .. Len(stack) :
              stack[n].kind = "replay" /\ Top.kind = "replay" /\ stack[n].sub = Top.sub => n = Len(stack)
         /\ \A n \in 1 .. Len(stack) : stack[n].kind = "drain" /\ Top.kind # "drain" => stack[n].event # 0
         /\ Top.kind # "drain" => Top.sub \in Subs
         /\ Top.kind = "replay" => subs[Top.sub].replaying
         /\ Top.kind = "drain" => Dispatching
  <1>1. TypeOK
    BY DEF IInv
  <1>2. Len(stack) \in Nat \ {0} /\ Top = stack[Len(stack)] /\ Top \in Frames /\ stack \in Seq(Frames)
    BY <1>1, Below DEF TypeOK
  <1>3. Len(stack) \in 1 .. Len(stack)
    OBVIOUS
  <1>4. Top.kind = "drain" => Dispatching
    BY <1>2 DEF Dispatching
  <1>5. \A n \in 1 .. Len(stack) : stack[n].kind = "drain" /\ Top.kind = "drain" => n = Len(stack)
    BY <1>2, <1>3 DEF IInv, Nested
  <1>6. \A n \in 1 .. Len(stack) :
          stack[n].kind = "replay" /\ Top.kind = "replay" /\ stack[n].sub = Top.sub => n = Len(stack)
    BY <1>2, <1>3 DEF IInv, Nested
  <1>7. \A n \in 1 .. Len(stack) : stack[n].kind = "drain" /\ Top.kind # "drain" => stack[n].event # 0
    BY <1>2 DEF IInv, Dispatched
  <1>8. Top.kind # "drain" => Top.sub \in Subs
    BY <1>2 DEF IInv, Called
  <1>9. Top.kind = "replay" => subs[Top.sub].replaying
    BY <1>2 DEF IInv, Called
  <1> QED BY <1>2, <1>4, <1>5, <1>6, <1>7, <1>8, <1>9

\* An event of a dispatch is delivered.
LEMMA DispatchKeeps ==
  ASSUME IInv, Running("drain"), UNCHANGED <<sequence, undelivered>>,
         NEW s \in Open \ Replaying, s > Top.visited, Top.event > subs[s].last,
         \A t \in Open \ Replaying : t > Top.visited /\ Top.event > subs[t].last => s <= t,
         Deliver(s, Top.event, [Top EXCEPT !.visited = s], subs)
  PROVE  IInv'
  <1>1. TypeOK /\ Queues /\ LiveRight /\ ReplayRight /\ Dispatched /\ Called
    BY DEF IInv
  <1>2. stack # <<>> /\ Top.kind = "drain"
    BY DEF Running
  <1>3. /\ Len(stack) \in Nat \ {0} /\ Len(stack) \in 1 .. Len(stack)
        /\ Top = stack[Len(stack)] /\ Top \in Frames
        /\ \A n \in 1 .. Len(stack) : stack[n].kind = "drain" => n = Len(stack)
        /\ Dispatching
    BY <1>2, Runs
  <1>4. /\ s \in Subs /\ ~subs[s].closed /\ ~subs[s].replaying /\ subs[s].pending = {}
        /\ subs[s] \in Subscription
    BY <1>1 DEF Open, Replaying, TypeOK, Subs
  <1>5. /\ subs[s].last \in Nat /\ subs[s].boundary \in Nat /\ sequence \in Nat /\ MaxEvents \in Nat
        /\ sequence <= MaxEvents /\ s \in Nat \ {0} /\ s \in 1 .. MaxSubs
    BY <1>1, <1>4, Numbers DEF Subscription
  <1>6. Top.event \in 0 .. MaxEvents /\ Top.visited \in 0 .. MaxSubs
        /\ Top \in [kind : {"drain"}, event : 0 .. MaxEvents, visited : 0 .. MaxSubs]
    BY <1>2, <1>3, FrameKinds
  <1>7. Top.event # 0 /\ Top.event \in Events /\ Top.event \in Nat
    BY <1>5, <1>6 DEF Events
  <1>8. /\ Top.event <= sequence /\ undelivered = Top.event + 1 .. sequence
        /\ Top.event - 1 <= subs[s].last
    BY <1>1, <1>2, <1>3, <1>7 DEF Dispatched, LiveRight
  <1> DEFINE f == [Top EXCEPT !.visited = s]
  <1>9. f \in Frames /\ f.kind = "drain" /\ f.event = Top.event /\ f.visited = s
    BY <1>5, <1>6 DEF Frames
  <1>10. /\ subs' = [subs EXCEPT ![s].last = Top.event]
         /\ got' = [got EXCEPT ![s] = Append(@, Top.event)]
         /\ stack' = Front(stack) \o <<f, Calling(s)>>
    BY DEF Deliver
  <1> HIDE DEF f
  <1>11. Gives(s, Top.event, {})
    <2>1. [subs EXCEPT ![s].last = Top.event] = [subs EXCEPT ![s] = [subs[s] EXCEPT !.pending = {}, !.last = Top.event]]
      BY <1>4 DEF Subscription
    <2>2. subs' = [subs EXCEPT ![s] = [subs[s] EXCEPT !.pending = {}, !.last = Top.event]]
      BY <1>10, <2>1
    <2>3. got' = [got EXCEPT ![s] = Append(got[s], Top.event)]
      BY <1>10
    <2>4. {} \in SUBSET Events
      OBVIOUS
    <2>5. TypeOK /\ s \in Subs /\ Top.event \in Events
      BY <1>1, <1>4, <1>7
    <2> QED BY <2>2, <2>3, <2>4, <2>5, Delivered, Zenon
  <1>12. /\ \A t \in Subs : subs'[t].replaying = subs[t].replaying /\ subs'[t].closed = subs[t].closed
         /\ \A t \in Subs : subs'[t].pending # {} => subs'[t].replaying \/ subs'[t].closed
         /\ Queues' /\ Ordered' /\ LiveNeverMissed'
    <2>1. \A e \in Events : subs[s].boundary < e /\ e < Top.event => e <= subs[s].last
      BY <1>5, <1>7, <1>8 DEF Events
    <2> QED BY <1>4, <1>7, <1>8, <1>11, <2>1, DeliveryKeeps
  <1>13. Calling(s) \in Frames
    BY <1>5 DEF Calling, Frames
  <1>14. /\ stack' \in Seq(Frames) /\ Len(stack') = Len(stack) + 1
         /\ stack'[Len(stack)] = f /\ stack'[Len(stack) + 1] = Calling(s)
         /\ \A n \in 1 .. Len(stack) - 1 : stack'[n] = stack[n]
    BY <1>1, <1>2, <1>9, <1>10, <1>13, Calls
  <1>15. Subs' = Subs
    BY <1>11 DEF Gives
  <1>16. (Dispatching' <=> Dispatching) /\ Nested' /\ Called' /\ Replayed' /\ Dispatched'
    BY <1>2, <1>3, <1>4, <1>7, <1>9, <1>12, <1>14, <1>15, CallKeeps
  <1>17. TypeOK'
    BY <1>1, <1>11, <1>12, <1>14 DEF Gives, TypeOK
  <1>18. /\ \A n \in 1 .. Len(stack') :
              (n \in 1 .. Len(stack) - 1 /\ stack'[n] = stack[n]) \/ n = Len(stack) \/ n = Len(stack) + 1
         /\ \A n \in 1 .. Len(stack) - 1 : n \in 1 .. Len(stack) /\ n # Len(stack)
         /\ Calling(s).kind = "listener"
    BY <1>3, <1>14 DEF Calling
  <1>19. ReplayRight'
    <2>1. ASSUME NEW n \in 1 .. Len(stack'), stack'[n].kind = "replay"
          PROVE  n \in 1 .. Len(stack) /\ stack'[n] = stack[n]
      BY <1>9, <1>14, <1>18, <2>1
    <2>2. ASSUME NEW n \in 1 .. Len(stack), stack[n].kind = "replay"
          PROVE  stack[n].sub \in Subs /\ subs'[stack[n].sub] = subs[stack[n].sub]
      BY <1>1, <1>4, <1>11, <2>2 DEF Called, Gives
    <2>3. Retained' = Retained
      BY DEF Retained
    <2> QED BY <1>1, <2>1, <2>2, <2>3 DEF ReplayRight
  <1>20. LiveRight'
    <2>1. (Open \ Replaying)' = Open \ Replaying
      BY <1>12, <1>15 DEF Open, Replaying
    <2>2. ASSUME NEW n \in 1 .. Len(stack'), stack'[n].kind = "drain"
          PROVE  stack'[n] = f
      BY <1>3, <1>14, <1>18, <2>2
    <2>3. ASSUME NEW t \in Open \ Replaying
          PROVE  /\ subs'[t].last \in Nat /\ Top.event - 1 <= subs'[t].last
                 /\ t <= s => Top.event <= subs'[t].last
      <3>1. CASE t = s
        BY <1>7, <1>11, <3>1 DEF Gives
      <3>2. CASE t # s
        <4>1. t \in Subs /\ subs'[t] = subs[t] /\ t \in Nat /\ subs[t].last \in Nat
          <5>1. t \in Subs /\ subs'[t] = subs[t]
            BY <1>11, <3>2 DEF Gives, Open
          <5>2. subs[t] \in Subscription /\ t \in Nat
            BY <1>1, <5>1, Numbers DEF TypeOK, Subs
          <5> QED BY <5>1, <5>2 DEF Subscription
        <4>2. /\ Top.event - 1 <= subs[t].last
              /\ t <= Top.visited => Top.event <= subs[t].last
          BY <1>1, <1>2, <1>3, <1>7, <2>3 DEF LiveRight
        <4>3. t > Top.visited /\ Top.event > subs[t].last => s <= t
          OBVIOUS
        <4> QED BY <1>5, <1>6, <1>7, <3>2, <4>1, <4>2, <4>3
      <3> QED BY <3>1, <3>2
    <2> QED BY <1>3, <1>7, <1>9, <1>16, <2>1, <2>2, <2>3 DEF LiveRight
  <1> QED BY <1>12, <1>16, <1>17, <1>19, <1>20 DEF IInv

\* The dispatch is done with its event.
LEMMA Passed ==
  ASSUME IInv, Running("drain"), {s \in Open \ Replaying : s > Top.visited /\ Top.event > subs[s].last} = {}
  PROVE  /\ Top.event \in Nat /\ Top.event <= sequence
         /\ Top.event = 0 => undelivered = {sequence} /\ sequence # 0
         /\ Top.event # 0 => undelivered = Top.event + 1 .. sequence
         /\ \A s \in Open \ Replaying :
              IF Top.event = 0 THEN sequence - 1 <= subs[s].last ELSE Top.event <= subs[s].last
  <1>1. TypeOK /\ Dispatched /\ LiveRight
    BY DEF IInv
  <1>2. /\ Len(stack) \in 1 .. Len(stack) /\ Top = stack[Len(stack)] /\ Top \in Frames
        /\ stack # <<>> /\ Top.kind = "drain"
    BY Runs DEF Running
  <1>3. Top.event \in Nat /\ Top.visited \in Nat /\ sequence \in Nat
    BY <1>1, <1>2, FrameKinds, Numbers
  <1>4. ASSUME NEW s \in Open \ Replaying
        PROVE  IF Top.event = 0 THEN sequence - 1 <= subs[s].last ELSE Top.event <= subs[s].last
    <2>1. s \in Nat /\ subs[s].last \in Nat
      <3>1. s \in Subs /\ subs[s] \in Subscription
        BY <1>1 DEF Open, TypeOK, Subs
      <3> QED BY <1>1, <3>1, Numbers DEF Subscription
    <2>2. ~(s > Top.visited /\ Top.event > subs[s].last)
      OBVIOUS
    <2> QED BY <1>1, <1>2, <1>3, <2>1, <2>2 DEF LiveRight
  <1> QED BY <1>1, <1>2, <1>3, <1>4 DEF Dispatched

\* The dispatch on top goes on with another event.
LEMMA ReplaceKeeps ==
  ASSUME IInv, Running("drain"), UNCHANGED subs, NEW f \in Frames, f.kind = "drain",
         stack' \in Seq(Frames), Len(stack') = Len(stack), stack'[Len(stack)] = f,
         \A n \in 1 .. Len(stack) - 1 : stack'[n] = stack[n]
  PROVE  Nested' /\ Called' /\ Replayed'
  <1>1. TypeOK /\ Nested /\ Called /\ Replayed
    BY DEF IInv
  <1>2. /\ stack # <<>> /\ Top.kind = "drain"
        /\ Len(stack) \in Nat \ {0} /\ Len(stack) \in 1 .. Len(stack) /\ Top = stack[Len(stack)]
    BY Runs DEF Running
  <1>3. /\ stack' \in Seq(Frames) /\ Len(stack') = Len(stack) /\ stack'[Len(stack)] = f
        /\ \A n \in 1 .. Len(stack) - 1 : stack'[n] = stack[n]
    OBVIOUS
  <1>4. /\ \A n \in 1 .. Len(stack) : stack'[n].kind = stack[n].kind
        /\ \A n \in 1 .. Len(stack) : stack[n].kind # "drain" => stack'[n] = stack[n]
    <2>1. \A n \in 1 .. Len(stack) : n \in 1 .. Len(stack) - 1 \/ n = Len(stack)
      OBVIOUS
    <2> QED BY <1>2, <1>3, <2>1
  <1>5. Nested'
    <2>1. \A n \in 1 .. Len(stack) - 1 : n \in 1 .. Len(stack) /\ n + 1 \in 1 .. Len(stack)
      OBVIOUS
    <2>2. \A n \in 1 .. Len(stack') - 1 : stack'[n].kind = "listener" <=> stack'[n + 1].kind # "listener"
      BY <1>1, <1>4, <2>1 DEF Nested
    <2>3. stack' # <<>> => stack'[1].kind # "listener"
      BY <1>1, <1>2 DEF Nested
    <2>4. \A m, n \in 1 .. Len(stack') : stack'[m].kind = "drain" /\ stack'[n].kind = "drain" => m = n
      BY <1>1, <1>3, <1>4 DEF Nested
    <2>5. \A m, n \in 1 .. Len(stack') :
            stack'[m].kind = "replay" /\ stack'[n].kind = "replay" /\ stack'[m].sub = stack'[n].sub => m = n
      BY <1>1, <1>3, <1>4 DEF Nested
    <2> QED BY <2>2, <2>3, <2>4, <2>5 DEF Nested
  <1>6. Called'
    <2>1. \A n \in 1 .. Len(stack) - 1 : n \in 1 .. Len(stack) /\ n + 1 \in 1 .. Len(stack)
      OBVIOUS
    <2>2. ASSUME NEW n \in 1 .. Len(stack) - 1, stack'[n + 1].kind = "listener"
          PROVE  IF stack'[n].kind = "replay" THEN stack'[n + 1].sub = stack'[n].sub
                 ELSE ~subs[stack'[n + 1].sub].replaying
      <3>1. stack[n + 1].kind = "listener" /\ stack'[n + 1] = stack[n + 1] /\ stack'[n].kind = stack[n].kind
        BY <1>4, <2>1, <2>2
      <3>2. stack[n].kind = "replay" => stack'[n] = stack[n]
        BY <2>1
      <3> QED BY <1>1, <3>1, <3>2 DEF Called
    <2>3. \A n \in 1 .. Len(stack') : stack'[n].kind # "drain" => stack'[n].sub \in Subs
      BY <1>1, <1>4 DEF Called
    <2>4. \A n \in 1 .. Len(stack') : stack'[n].kind = "replay" => subs[stack'[n].sub].replaying
      BY <1>1, <1>4 DEF Called
    <2> QED BY <1>3, <2>2, <2>3, <2>4 DEF Called, Subs
  <1>7. Replayed'
    <2>1. ASSUME NEW t \in Subs, subs[t].replaying
          PROVE  \E n \in 1 .. Len(stack') : stack'[n].kind = "replay" /\ stack'[n].sub = t
      <3>1. PICK n \in 1 .. Len(stack) : stack[n].kind = "replay" /\ stack[n].sub = t
        BY <1>1, <2>1 DEF Replayed
      <3>2. n \in 1 .. Len(stack') /\ stack'[n] = stack[n]
        BY <1>3, <1>4, <3>1
      <3> QED BY <3>1, <3>2
    <2> QED BY <2>1 DEF Replayed, Subs
  <1> QED BY <1>5, <1>6, <1>7

\* The dispatch takes the next event.
LEMMA TakeKeeps ==
  ASSUME IInv, Running("drain"), UNCHANGED <<sequence, subs, got>>,
         {s \in Open \ Replaying : s > Top.visited /\ Top.event > subs[s].last} = {},
         undelivered # {}, undelivered' = undelivered \ {Least(undelivered)},
         stack' = Front(stack) \o <<[Draining EXCEPT !.event = Least(undelivered)]>>
  PROVE  IInv'
  <1>1. TypeOK /\ Nested /\ Called /\ Replayed /\ ReplayRight /\ Dispatched /\ LiveRight
        /\ Queues /\ Ordered /\ LiveNeverMissed
    BY DEF IInv
  <1>2. /\ stack # <<>> /\ Top.kind = "drain" /\ stack \in Seq(Frames)
        /\ Len(stack) \in Nat \ {0} /\ Len(stack) \in 1 .. Len(stack) /\ Top = stack[Len(stack)]
        /\ \A n \in 1 .. Len(stack) : stack[n].kind = "drain" => n = Len(stack)
        /\ Dispatching
    BY Runs DEF Running
  <1> DEFINE e == Least(undelivered)
             f == [Draining EXCEPT !.event = e]
  <1>3. undelivered \subseteq Nat /\ undelivered \subseteq Events /\ sequence \in Nat
    BY <1>1, Numbers DEF TypeOK, Events
  <1>4. e \in undelivered /\ \A y \in undelivered : e <= y
    BY <1>3, LeastIs
  <1> HIDE DEF e
  <1>5. /\ Top.event \in Nat /\ Top.event <= sequence
        /\ Top.event = 0 => undelivered = {sequence}
        /\ Top.event # 0 => undelivered = Top.event + 1 .. sequence
        /\ \A s \in Open \ Replaying :
             IF Top.event = 0 THEN sequence - 1 <= subs[s].last ELSE Top.event <= subs[s].last
    BY Passed
  <1>6. e \in Nat \ {0} /\ e \in 0 .. MaxEvents /\ e <= sequence
    BY <1>3, <1>4, <1>5 DEF Events
  <1>7. undelivered' = e + 1 .. sequence
    <2>1. CASE Top.event = 0
      BY <1>3, <1>4, <1>5, <1>6 DEF e
    <2>2. CASE Top.event # 0
      <3>1. e = Top.event + 1
        BY <1>3, <1>4, <1>5, <1>6, <2>2
      <3>2. undelivered' = (Top.event + 1 .. sequence) \ {e}
        BY <1>5, <2>2 DEF e
      <3>3. undelivered' = (e .. sequence) \ {e}
        BY <3>1, <3>2
      <3> QED BY <1>3, <1>6, <3>3, Intervals, Zenon
    <2> QED BY <2>1, <2>2
  <1>8. \A s \in Open \ Replaying : e - 1 <= subs[s].last
    <2>1. CASE Top.event = 0
      BY <1>4, <1>5, <2>1
    <2>2. CASE Top.event # 0
      <3>1. e = Top.event + 1
        BY <1>3, <1>4, <1>5, <1>6, <2>2
      <3> QED BY <1>5, <2>2, <3>1
    <2> QED BY <2>1, <2>2
  <1>9. f \in Frames /\ f.kind = "drain" /\ f.event = e /\ f.visited = 0
    BY <1>6, BoundsAssumption DEF Draining, Frames
  <1>10. stack' = Front(stack) \o <<f>>
    BY DEF e
  <1> HIDE DEF f
  <1>11. /\ stack' \in Seq(Frames) /\ Len(stack') = Len(stack) /\ stack'[Len(stack)] = f
         /\ \A n \in 1 .. Len(stack) - 1 : stack'[n] = stack[n]
    BY <1>1, <1>2, <1>9, <1>10, Replaced
  <1>12. /\ \A n \in 1 .. Len(stack) : n \in 1 .. Len(stack) - 1 \/ n = Len(stack)
         /\ \A n \in 1 .. Len(stack) : stack'[n].kind = stack[n].kind
         /\ \A n \in 1 .. Len(stack) : stack[n].kind # "drain" => stack'[n] = stack[n]
    <2>1. \A n \in 1 .. Len(stack) : n \in 1 .. Len(stack) - 1 \/ n = Len(stack)
      OBVIOUS
    <2> QED BY <1>2, <1>9, <1>11, <2>1
  <1>13. \A n \in 1 .. Len(stack') : stack'[n].kind = "drain" => n = Len(stack') /\ stack'[n] = f
    BY <1>2, <1>11, <1>12
  <1>14. Dispatching'
    BY <1>2, <1>9, <1>11 DEF Dispatching
  <1>15. TypeOK'
    <2>1. undelivered' \subseteq Events
      BY <1>3
    <2> QED BY <1>1, <1>11, <2>1 DEF TypeOK, Subs
  <1>16. Nested' /\ Called' /\ Replayed'
    BY <1>2, <1>9, <1>11, ReplaceKeeps
  <1>17. Dispatched'
    BY <1>6, <1>7, <1>9, <1>13, <1>14 DEF Dispatched
  <1>18. Queues' /\ Ordered' /\ LiveNeverMissed'
    BY <1>1 DEF Queues, Ordered, LiveNeverMissed, Subs
  <1>19. ReplayRight'
    BY <1>1, <1>11, <1>12 DEF ReplayRight, Retained
  <1>20. LiveRight'
    <2>1. (Open \ Replaying)' = Open \ Replaying
      BY DEF Open, Replaying, Subs
    <2>2. \A s \in Open \ Replaying : ~(s <= 0)
      BY <1>1, Numbers DEF Open
    <2> QED BY <1>6, <1>8, <1>9, <1>13, <1>14, <2>1, <2>2 DEF LiveRight
  <1> QED BY <1>15, <1>16, <1>17, <1>18, <1>19, <1>20 DEF IInv

\* The top loop ends: the listeners and the other loops stay.
LEMMA EndKeeps ==
  ASSUME IInv, stack # <<>>, Top.kind # "listener",
         stack' \in Seq(Frames), Len(stack') = Len(stack) - 1,
         \A n \in 1 .. Len(stack') : stack'[n] = stack[n],
         Subs' = Subs, Top.kind = "drain" => UNCHANGED subs,
         Top.kind = "replay" =>
             \A s \in Subs : subs'[s].replaying <=> s # Top.sub /\ subs[s].replaying
  PROVE  /\ \A n \in 1 .. Len(stack') : n \in 1 .. Len(stack) /\ stack'[n] = stack[n]
         /\ Dispatching' <=> Dispatching /\ Top.kind # "drain"
         /\ Nested' /\ Called' /\ Replayed'
  <1>1. TypeOK /\ Nested /\ Called /\ Replayed
    BY DEF IInv
  <1>2. /\ Len(stack) \in Nat \ {0} /\ Len(stack) \in 1 .. Len(stack) /\ Top = stack[Len(stack)]
        /\ Top \in Frames
        /\ \A n \in 1 .. Len(stack) : stack[n].kind = "drain" /\ Top.kind = "drain" => n = Len(stack)
        /\ \A n \in 1 .. Len(stack) :
             stack[n].kind = "replay" /\ Top.kind = "replay" /\ stack[n].sub = Top.sub => n = Len(stack)
    BY Runs
  <1>3. /\ stack' \in Seq(Frames) /\ Len(stack') = Len(stack) - 1
        /\ \A n \in 1 .. Len(stack') : stack'[n] = stack[n]
    OBVIOUS
  <1>4. /\ \A n \in 1 .. Len(stack') : n \in 1 .. Len(stack) /\ n # Len(stack)
        /\ \A n \in 1 .. Len(stack) : n \in 1 .. Len(stack') \/ n = Len(stack)
        /\ \A n \in 1 .. Len(stack') - 1 : /\ n \in 1 .. Len(stack) - 1 /\ n \in 1 .. Len(stack')
                                           /\ n + 1 \in 1 .. Len(stack')
    BY <1>3
  <1>5. Top.kind \in {"drain", "replay"}
    BY <1>2, FrameKinds
  <1>6. Dispatching' <=> Dispatching /\ Top.kind # "drain"
    <2>1. Dispatching <=> \E n \in 1 .. Len(stack) : stack[n].kind = "drain"
      BY <1>1, Numbers
    <2>2. Dispatching' <=> \E n \in 1 .. Len(stack') : stack'[n].kind = "drain"
      BY <1>3 DEF Dispatching
    <2>3. ASSUME NEW n \in 1 .. Len(stack'), stack'[n].kind = "drain"
          PROVE  Top.kind # "drain" /\ \E m \in 1 .. Len(stack) : stack[m].kind = "drain"
      BY <1>2, <1>3, <2>3
    <2>4. ASSUME NEW n \in 1 .. Len(stack), stack[n].kind = "drain", Top.kind # "drain"
          PROVE  \E m \in 1 .. Len(stack') : stack'[m].kind = "drain"
      <3>1. n \in 1 .. Len(stack') /\ stack'[n] = stack[n]
        BY <1>2, <1>4, <2>4
      <3> QED BY <2>4, <3>1
    <2> QED BY <2>1, <2>2, <2>3, <2>4
  <1>7. Nested'
    <2>1. stack' # <<>> => 1 \in 1 .. Len(stack')
      OBVIOUS
    <2>2. stack' # <<>> => stack'[1].kind # "listener"
      BY <1>1, <2>1 DEF Nested
    <2>3. \A n \in 1 .. Len(stack') - 1 : stack'[n].kind = "listener" <=> stack'[n + 1].kind # "listener"
      BY <1>1, <1>3, <1>4 DEF Nested
    <2>4. \A m, n \in 1 .. Len(stack') : stack'[m].kind = "drain" /\ stack'[n].kind = "drain" => m = n
      BY <1>1, <1>3, <1>4 DEF Nested
    <2>5. \A m, n \in 1 .. Len(stack') :
            stack'[m].kind = "replay" /\ stack'[n].kind = "replay" /\ stack'[m].sub = stack'[n].sub => m = n
      BY <1>1, <1>3, <1>4 DEF Nested
    <2> QED BY <2>2, <2>3, <2>4, <2>5 DEF Nested
  <1>8. Called'
    <2>1. \A n \in 1 .. Len(stack') : stack'[n].kind # "drain" => stack'[n].sub \in Subs
      BY <1>1, <1>3, <1>4 DEF Called
    <2>2. \A n \in 1 .. Len(stack') : stack'[n].kind = "replay" => subs'[stack'[n].sub].replaying
      <3>1. ASSUME NEW n \in 1 .. Len(stack'), stack'[n].kind = "replay"
            PROVE  subs'[stack'[n].sub].replaying
        <4>1. n \in 1 .. Len(stack) /\ n # Len(stack) /\ stack'[n] = stack[n]
          BY <1>3, <1>4
        <4>2. stack[n].kind = "replay" /\ stack[n].sub \in Subs /\ subs[stack[n].sub].replaying
          BY <1>1, <3>1, <4>1 DEF Called
        <4>3. CASE Top.kind = "drain"
          BY <4>1, <4>2, <4>3
        <4>4. CASE Top.kind = "replay"
          <5>1. stack[n].sub # Top.sub
            BY <1>2, <4>1, <4>2, <4>4
          <5> QED BY <4>1, <4>2, <4>4, <5>1
        <4> QED BY <1>5, <4>3, <4>4
      <3> QED BY <3>1
    <2>3. ASSUME NEW n \in 1 .. Len(stack') - 1, stack'[n + 1].kind = "listener"
          PROVE  IF stack'[n].kind = "replay" THEN stack'[n + 1].sub = stack'[n].sub
                 ELSE ~subs'[stack'[n + 1].sub].replaying
      <3>1. /\ stack'[n] = stack[n] /\ stack'[n + 1] = stack[n + 1] /\ n \in 1 .. Len(stack) - 1
            /\ stack[n + 1].sub \in Subs
        BY <1>4, <2>1, <2>3
      <3>2. IF stack[n].kind = "replay" THEN stack[n + 1].sub = stack[n].sub
            ELSE ~subs[stack[n + 1].sub].replaying
        BY <1>1, <2>3, <3>1 DEF Called
      <3> QED BY <1>5, <3>1, <3>2
    <2> QED BY <2>1, <2>2, <2>3 DEF Called
  <1>9. Replayed'
    <2>1. ASSUME NEW t \in Subs, subs'[t].replaying
          PROVE  \E n \in 1 .. Len(stack') : stack'[n].kind = "replay" /\ stack'[n].sub = t
      <3>1. subs[t].replaying /\ (Top.kind = "replay" => t # Top.sub)
        BY <1>5, <2>1
      <3>2. PICK n \in 1 .. Len(stack) : stack[n].kind = "replay" /\ stack[n].sub = t
        BY <1>1, <3>1 DEF Replayed
      <3>3. n \in 1 .. Len(stack') /\ stack'[n] = stack[n]
        BY <1>2, <1>3, <1>4, <3>1, <3>2
      <3> QED BY <3>2, <3>3
    <2> QED BY <2>1 DEF Replayed
  <1> QED BY <1>2, <1>3, <1>4, <1>6, <1>7, <1>8, <1>9

\* The dispatch has nothing left.
LEMMA DrainedKeeps ==
  ASSUME IInv, Running("drain"), UNCHANGED <<sequence, undelivered, subs, got>>,
         {s \in Open \ Replaying : s > Top.visited /\ Top.event > subs[s].last} = {},
         undelivered = {}, stack' = Front(stack)
  PROVE  IInv'
  <1>1. TypeOK /\ ReplayRight /\ Dispatched /\ LiveRight /\ Queues /\ Ordered /\ LiveNeverMissed
    BY DEF IInv
  <1>2. /\ stack # <<>> /\ Top.kind = "drain"
        /\ \A n \in 1 .. Len(stack) : stack[n].kind = "drain" => n = Len(stack)
    BY Runs DEF Running
  <1>3. Subs' = Subs
    BY DEF Subs
  <1>4. /\ stack' \in Seq(Frames) /\ Len(stack') = Len(stack) - 1
        /\ \A n \in 1 .. Len(stack') : stack'[n] = stack[n]
    BY <1>1, <1>2, Ended
  <1>5. /\ \A n \in 1 .. Len(stack') : n \in 1 .. Len(stack) /\ stack'[n] = stack[n]
        /\ ~Dispatching'
        /\ Nested' /\ Called' /\ Replayed'
    BY <1>2, <1>3, <1>4, EndKeeps
  <1>6. /\ Top.event \in Nat /\ Top.event <= sequence
        /\ Top.event = 0 => undelivered = {sequence}
        /\ Top.event # 0 => undelivered = Top.event + 1 .. sequence
        /\ \A s \in Open \ Replaying :
             IF Top.event = 0 THEN sequence - 1 <= subs[s].last ELSE Top.event <= subs[s].last
    BY Passed
  <1>7. sequence \in Nat
    BY <1>1, Numbers
  <1>8. Top.event = sequence /\ Top.event # 0
    BY <1>6, <1>7
  <1>9. \A n \in 1 .. Len(stack') : stack'[n].kind # "drain"
    BY <1>5 DEF Dispatching
  <1>10. TypeOK'
    BY <1>1, <1>4 DEF TypeOK, Subs
  <1>11. Dispatched'
    BY <1>9 DEF Dispatched
  <1>12. Queues' /\ Ordered' /\ LiveNeverMissed'
    BY <1>1 DEF Queues, Ordered, LiveNeverMissed, Subs
  <1>13. ReplayRight'
    BY <1>1, <1>5 DEF ReplayRight, Retained
  <1>14. LiveRight'
    BY <1>6, <1>8, <1>9 DEF LiveRight, Open, Replaying, Subs
  <1> QED BY <1>5, <1>10, <1>11, <1>12, <1>13, <1>14 DEF IInv

\* The dispatch takes the next event, calls the next listener, or ends.
LEMMA DrainKeeps ==
  ASSUME IInv, Drain
  PROVE  IInv'
  <1> DEFINE due == {s \in Open \ Replaying : s > Top.visited /\ Top.event > subs[s].last}
  <1>1. Running("drain") /\ UNCHANGED sequence
    BY DEF Drain
  <1>2. CASE /\ due # {}
             /\ Deliver(Least(due), Top.event, [Top EXCEPT !.visited = Least(due)], subs)
             /\ UNCHANGED undelivered
    <2>1. due \in SUBSET Nat
      BY Numbers DEF Open, IInv
    <2>2. Least(due) \in due /\ \A t \in due : Least(due) <= t
      BY <1>2, <2>1, LeastIs
    <2> QED BY <1>1, <1>2, <2>2, DispatchKeeps
  <1>3. CASE /\ due = {} /\ undelivered # {}
             /\ stack' = Front(stack) \o <<[Draining EXCEPT !.event = Least(undelivered)]>>
             /\ undelivered' = undelivered \ {Least(undelivered)}
             /\ UNCHANGED <<subs, got>>
    BY <1>1, <1>3, TakeKeeps
  <1>4. CASE /\ due = {} /\ undelivered = {}
             /\ stack' = Front(stack)
             /\ UNCHANGED <<undelivered, subs, got>>
    BY <1>1, <1>4, DrainedKeeps
  <1> QED BY <1>2, <1>3, <1>4 DEF Drain

\* A replay delivers an event to its subscription: from the history up to its
\* boundary, then from its queue.
LEMMA ReplaysKeep ==
  ASSUME IInv, Running("replay"), UNCHANGED <<sequence, undelivered>>,
         NEW event \in Events, NEW queue \in SUBSET Events, NEW f \in Frames,
         f.kind = "replay", f.sub = Top.sub,
         ~subs[Top.sub].closed /\ sequence = subs[Top.sub].boundary /\ event < sequence
             => f.index < Retained,
         Gives(Top.sub, event, queue), CallsFrom(f, Top.sub),
         \A t \in Subs : subs'[t].replaying = subs[t].replaying /\ subs'[t].closed = subs[t].closed,
         \A t \in Subs : subs'[t].pending # {} => subs'[t].replaying \/ subs'[t].closed,
         Queues' /\ Ordered' /\ LiveNeverMissed'
  PROVE  IInv'
  <1>1. TypeOK /\ LiveRight /\ ReplayRight /\ Called
    BY DEF IInv
  <1>2. stack # <<>> /\ Top.kind = "replay"
    BY DEF Running
  <1> DEFINE s == Top.sub
  <1>3. /\ Len(stack) \in Nat \ {0} /\ Len(stack) \in 1 .. Len(stack)
        /\ Top = stack[Len(stack)] /\ Top \in Frames
        /\ \A n \in 1 .. Len(stack) : stack[n].kind = "replay" /\ stack[n].sub = s => n = Len(stack)
        /\ s \in Subs /\ subs[s].replaying
    BY <1>2, Runs
  <1>4. f \in Frames /\ f.kind = "replay" /\ f.sub = s
    OBVIOUS
  <1>5. Calling(s).kind = "listener"
    BY DEF Calling
  <1>6. /\ stack' \in Seq(Frames) /\ Len(stack') = Len(stack) + 1
        /\ stack'[Len(stack)] = f /\ stack'[Len(stack) + 1] = Calling(s)
        /\ \A n \in 1 .. Len(stack) - 1 : stack'[n] = stack[n]
    BY DEF CallsFrom
  <1>7. /\ \A t \in Subs : subs'[t].replaying = subs[t].replaying /\ subs'[t].closed = subs[t].closed
        /\ \A t \in Subs : subs'[t].pending # {} => subs'[t].replaying \/ subs'[t].closed
        /\ Queues' /\ Ordered' /\ LiveNeverMissed'
    OBVIOUS
  <1>8. Subs' = Subs /\ \A t \in Subs : t # s => subs'[t] = subs[t]
    BY DEF Gives
  <1>9. (Dispatching' <=> Dispatching) /\ Nested' /\ Called' /\ Replayed' /\ Dispatched'
    BY <1>2, <1>3, <1>4, <1>6, <1>8, CallKeeps
  <1>10. TypeOK'
    BY <1>1, <1>6, <1>7 DEF Gives, TypeOK
  <1>11. \A n \in 1 .. Len(stack') :
           \/ n \in 1 .. Len(stack) /\ n # Len(stack) /\ stack'[n] = stack[n]
           \/ n = Len(stack) /\ stack'[n] = f
           \/ stack'[n].kind = "listener"
    BY <1>3, <1>5, <1>6
  <1>12. ReplayRight'
    <2>1. Retained' = Retained
      BY DEF Retained
    <2>2. ASSUME NEW n \in 1 .. Len(stack'), stack'[n].kind = "replay", stack'[n] # f
          PROVE  /\ n \in 1 .. Len(stack) /\ stack'[n] = stack[n] /\ stack[n].sub \in Subs
                 /\ subs'[stack[n].sub] = subs[stack[n].sub]
      BY <1>1, <1>3, <1>8, <1>11, <2>2 DEF Called
    <2>3. subs'[s].last = event /\ subs'[s].boundary = subs[s].boundary /\ subs'[s].closed = subs[s].closed
      BY DEF Gives
    <2> QED BY <1>1, <1>4, <2>1, <2>2, <2>3 DEF ReplayRight
  <1>13. LiveRight'
    <2>1. (Open \ Replaying)' = Open \ Replaying
      BY <1>7, <1>8 DEF Open, Replaying
    <2>2. \A t \in Open \ Replaying : subs'[t] = subs[t]
      BY <1>3, <1>8 DEF Open, Replaying
    <2>3. \A n \in 1 .. Len(stack') : stack'[n].kind = "drain" => n \in 1 .. Len(stack) /\ stack'[n] = stack[n]
      BY <1>4, <1>11
    <2> QED BY <1>1, <1>9, <2>1, <2>2, <2>3 DEF LiveRight
  <1> QED BY <1>7, <1>9, <1>10, <1>12, <1>13 DEF IInv

\* The replay is done, and the subscription goes live.
LEMMA ReplayedKeeps ==
  ASSUME IInv, Running("replay"), UNCHANGED <<sequence, undelivered, got>>,
         Due(Top) = {}, subs[Top.sub].closed \/ subs[Top.sub].pending = {},
         stack' \in Seq(Frames), Len(stack') = Len(stack) - 1,
         \A n \in 1 .. Len(stack') : stack'[n] = stack[n],
         NEW r \in Subscription, r.pending = subs[Top.sub].pending, r.last = subs[Top.sub].last,
         r.closed = subs[Top.sub].closed, r.boundary = subs[Top.sub].boundary, ~r.replaying,
         subs' \in Seq(Subscription), Len(subs') = Len(subs),
         \A t \in Subs : subs'[t] = IF t = Top.sub THEN r ELSE subs[t]
  PROVE  IInv'
  <1>1. TypeOK /\ ReplayRight /\ Dispatched /\ LiveRight /\ Queues /\ Ordered /\ LiveNeverMissed /\ Called
    BY DEF IInv
  <1>2. stack # <<>> /\ Top.kind = "replay"
    BY DEF Running
  <1> DEFINE s == Top.sub
  <1>3. /\ Len(stack) \in Nat \ {0} /\ Len(stack) \in 1 .. Len(stack)
        /\ Top = stack[Len(stack)] /\ Top \in Frames
        /\ \A n \in 1 .. Len(stack) : stack[n].kind = "replay" /\ stack[n].sub = s => n = Len(stack)
        /\ \A n \in 1 .. Len(stack) : stack[n].kind = "drain" => stack[n].event # 0
        /\ s \in Subs /\ subs[s].replaying
    BY <1>2, Runs
  <1>4. /\ subs[s] \in Subscription /\ sequence \in Nat /\ sequence <= MaxEvents /\ MaxEvents \in Nat
        /\ Retained \in Nat
    <2>1. subs[s] \in Subscription
      BY <1>1, <1>3 DEF TypeOK, Subs
    <2> QED BY <1>1, <2>1, Numbers
  <1>5. Subs' = Subs /\ \A t \in Subs : subs'[t] = IF t = s THEN r ELSE subs[t]
    BY DEF Subs
  <1>6. /\ \A t \in Subs : subs'[t].replaying <=> t # s /\ subs[t].replaying
        /\ \A t \in Subs : /\ subs'[t].pending = subs[t].pending /\ subs'[t].last = subs[t].last
                           /\ subs'[t].closed = subs[t].closed /\ subs'[t].boundary = subs[t].boundary
    OBVIOUS
  <1>7. /\ \A n \in 1 .. Len(stack') : n \in 1 .. Len(stack) /\ stack'[n] = stack[n]
        /\ Dispatching' <=> Dispatching
        /\ Nested' /\ Called' /\ Replayed'
    BY <1>2, <1>5, EndKeeps
  <1>8. sequence <= subs[s].last \/ subs[s].closed
    <2> DEFINE b == subs[s].boundary
               l == subs[s].last
    <2>1. b \in Nat /\ l \in Nat
      BY <1>4 DEF Subscription
    <2> HIDE DEF b, l
    <2>2. SUFFICES ASSUME ~subs[s].closed, l < sequence
                   PROVE  FALSE
      BY <1>4, <2>1 DEF l
    <2>3. sequence \in Events
      BY <1>4, <2>1, <2>2 DEF Events
    <2>4. b <= sequence /\ (b < sequence => sequence \in subs[s].pending)
      BY <1>1, <1>3, <1>4, <2>2, <2>3 DEF Queues, b, l
    <2>5. subs[s].pending = {}
      BY <2>2
    <2>6. sequence = b
      BY <1>4, <2>1, <2>4, <2>5
    <2>7. Top.index < Retained /\ Top.index \in Nat
      BY <1>1, <1>2, <1>3, <1>4, <2>2, <2>6, FrameKinds DEF ReplayRight, b, l
    <2>8. History(Retained - 1) = sequence
      BY <1>4 DEF History
    <2>9. Retained - 1 \in Due(Top)
      BY <1>4, <2>1, <2>2, <2>6, <2>7, <2>8 DEF Due, b, l
    <2> QED BY <2>9
  <1>9. TypeOK'
    <2>1. \A t \in Subs : subs'[t].pending # {} => subs'[t].replaying \/ subs'[t].closed
      BY <1>1, <1>6 DEF TypeOK
    <2> QED BY <1>1, <1>5, <2>1 DEF TypeOK
  <1>10. Dispatched'
    <2>1. ASSUME NEW n \in 1 .. Len(stack'), stack'[n].kind = "drain"
          PROVE  /\ stack'[n].event # 0
                 /\ stack'[n].event <= sequence /\ undelivered = stack'[n].event + 1 .. sequence
      BY <1>1, <1>3, <1>7, <2>1 DEF Dispatched
    <2>2. ~Dispatching => undelivered = {}
      BY <1>1 DEF Dispatched
    <2> QED BY <1>7, <2>1, <2>2 DEF Dispatched
  <1>11. Queues'
    BY <1>1, <1>5 DEF Queues
  <1>12. Ordered' /\ LiveNeverMissed'
    BY <1>1, <1>5, <1>6 DEF Ordered, LiveNeverMissed
  <1>13. ReplayRight'
    <2>1. Retained' = Retained
      BY DEF Retained
    <2>2. ASSUME NEW n \in 1 .. Len(stack'), stack'[n].kind = "replay"
          PROVE  n \in 1 .. Len(stack) /\ stack'[n] = stack[n] /\ stack[n].sub \in Subs
      BY <1>1, <2>2 DEF Called
    <2> QED BY <1>1, <1>6, <2>1, <2>2 DEF ReplayRight
  <1>14. LiveRight'
    <2>1. ASSUME NEW t \in (Open \ Replaying)'
          PROVE  /\ ~Dispatching => sequence <= subs'[t].last
                 /\ \A n \in 1 .. Len(stack') : stack'[n].kind = "drain" =>
                      /\ stack'[n].event # 0 /\ stack'[n].event - 1 <= subs'[t].last
                      /\ t <= stack'[n].visited => stack'[n].event <= subs'[t].last
      <3>1. CASE t = s
        <4>1. subs'[s].last = subs[s].last /\ ~subs[s].closed /\ subs[s].last \in Nat
          <5>1. ~subs'[t].closed /\ t \in Subs
            BY <1>5, <2>1 DEF Open
          <5>2. subs[s].last \in Nat
            BY <1>4 DEF Subscription
          <5> QED BY <3>1, <5>1, <5>2
        <4>2. sequence <= subs[s].last
          BY <1>8, <4>1
        <4>3. ASSUME NEW n \in 1 .. Len(stack'), stack'[n].kind = "drain"
              PROVE  stack'[n].event # 0 /\ stack'[n].event <= sequence /\ stack'[n].event \in Nat
          BY <1>1, <1>3, <1>7, <4>3, FrameKinds DEF Dispatched
        <4> QED BY <1>4, <3>1, <4>1, <4>2, <4>3
      <3>2. CASE t # s
        <4>1. t \in Open \ Replaying /\ subs'[t].last = subs[t].last
          BY <1>5, <1>6, <3>2 DEF Open, Replaying
        <4> QED BY <1>1, <1>3, <1>7, <4>1 DEF LiveRight
      <3> QED BY <3>1, <3>2
    <2> QED BY <1>2, <1>7, <2>1 DEF LiveRight
  <1> QED BY <1>7, <1>9, <1>10, <1>11, <1>12, <1>13, <1>14 DEF IInv

\* A replay calls its listener with the next retained or queued event, or ends.
LEMMA ReplayKeeps ==
  ASSUME IInv, Replay
  PROVE  IInv'
  <1> DEFINE s == Top.sub
             pending == subs[s].pending
  <1>1. TypeOK /\ Queues
    BY DEF IInv
  <1>2. Running("replay") /\ UNCHANGED <<sequence, undelivered>> /\ stack # <<>> /\ Top.kind = "replay"
    BY DEF Replay, Running
  <1>3. /\ Top \in Frames /\ s \in Subs /\ subs[s].replaying /\ stack \in Seq(Frames)
        /\ Len(stack) \in Nat \ {0} /\ Top = stack[Len(stack)]
    BY <1>2, Runs
  <1>4. Top \in [kind : {"replay"}, sub : 1 .. MaxSubs, index : 0 .. ReplayLimit]
    BY <1>2, <1>3, FrameKinds
  <1>5. /\ subs[s] \in Subscription /\ sequence \in Nat /\ sequence <= MaxEvents
        /\ Retained \in Nat /\ Retained <= ReplayLimit /\ Retained <= sequence /\ ReplayLimit \in Nat
    <2>1. subs[s] \in Subscription
      BY <1>1, <1>3 DEF TypeOK, Subs
    <2> QED BY <1>1, <2>1, Numbers
  <1>6. /\ subs[s].last \in Nat /\ subs[s].boundary \in Nat /\ pending \in SUBSET Events /\ MaxEvents \in Nat
    BY <1>5, BoundsAssumption DEF Subscription
  <1>7. /\ subs[s].boundary <= sequence /\ subs[s].last <= sequence
        /\ \A e \in pending : subs[s].last < e /\ subs[s].boundary < e /\ e <= sequence
        /\ ~subs[s].closed => \A e \in Events :
             subs[s].last < e /\ subs[s].boundary < e /\ e <= sequence => e \in pending
    BY <1>1, <1>3 DEF Queues
  <1>8. ASSUME NEW index \in 0 .. ReplayLimit,
               stack' = Front(stack) \o <<[Top EXCEPT !.index = index], Calling(s)>>
        PROVE  \E f \in Frames : f.kind = "replay" /\ f.sub = s /\ f.index = index /\ CallsFrom(f, s)
    <2> DEFINE f == [Top EXCEPT !.index = index]
    <2>1. f \in Frames /\ f.kind = "replay" /\ f.sub = s /\ f.index = index
      BY <1>4 DEF Frames
    <2>2. Calling(s) \in Frames
      BY <1>1, <1>3, Numbers DEF Calling, Frames
    <2>3. stack' = Front(stack) \o <<f, Calling(s)>>
      BY <1>8
    <2> HIDE DEF f
    <2>4. CallsFrom(f, s)
      BY <1>1, <1>2, <2>1, <2>2, <2>3, Calls DEF CallsFrom
    <2> QED BY <2>1, <2>4
  <1>9. ASSUME Due(Top) # {},
               Deliver(s, History(Least(Due(Top))), [Top EXCEPT !.index = Least(Due(Top)) + 1], subs)
        PROVE  IInv'
    <2> DEFINE k == Least(Due(Top))
               event == History(k)
    <2>1. Due(Top) \in SUBSET Nat
      BY <1>4 DEF Due
    <2>2. k \in Due(Top)
      BY <1>9, <2>1, LeastIs
    <2>3. /\ k \in Nat /\ k < Retained /\ k + 1 \in 0 .. ReplayLimit
          /\ ~subs[s].closed /\ subs[s].last < event /\ event <= subs[s].boundary
          /\ event = sequence - Retained + 1 + k
      BY <1>4, <1>5, <2>1, <2>2 DEF Due, History
    <2>4. /\ subs' = [subs EXCEPT ![s].last = event]
          /\ got' = [got EXCEPT ![s] = Append(@, event)]
          /\ stack' = Front(stack) \o <<[Top EXCEPT !.index = k + 1], Calling(s)>>
      BY <1>9 DEF Deliver
    <2> HIDE DEF k, event
    <2>5. /\ event \in Nat /\ event \in Events /\ event <= sequence
          /\ sequence = subs[s].boundary /\ event < sequence => k + 1 < Retained
      BY <1>5, <1>6, <1>7, <2>3 DEF Events
    <2>6. Gives(s, event, pending)
      <3>1. [subs EXCEPT ![s].last = event] = [subs EXCEPT ![s] = [subs[s] EXCEPT !.pending = pending, !.last = event]]
        BY <1>5 DEF Subscription
      <3>2. subs' = [subs EXCEPT ![s] = [subs[s] EXCEPT !.pending = pending, !.last = event]]
        BY <2>4, <3>1
      <3>3. got' = [got EXCEPT ![s] = Append(got[s], event)]
        BY <2>4
      <3>4. TypeOK /\ s \in Subs /\ event \in Events /\ pending \in SUBSET Events
        BY <1>1, <1>3, <1>6, <2>5
      <3> QED BY <3>2, <3>3, <3>4, Delivered, Zenon
    <2>7. PICK f \in Frames : f.kind = "replay" /\ f.sub = s /\ f.index = k + 1 /\ CallsFrom(f, s)
      BY <1>8, <2>3, <2>4
    <2>8. /\ \A e \in pending : event < e /\ subs[s].boundary < e /\ e <= sequence
          /\ \A e \in Events : event < e /\ subs[s].boundary < e /\ e <= sequence => e \in pending
          /\ \A e \in Events : subs[s].boundary < e /\ e < event => e <= subs[s].last
      <3>1. pending \subseteq Nat /\ Events \subseteq Nat
        BY <1>6 DEF Events
      <3> QED BY <1>6, <1>7, <2>3, <2>5, <3>1
    <2>9. UNCHANGED sequence /\ subs[s].last < event
      BY <1>2, <2>3
    <2>10. /\ \A t \in Subs : subs'[t].replaying = subs[t].replaying /\ subs'[t].closed = subs[t].closed
           /\ \A t \in Subs : subs'[t].pending # {} => subs'[t].replaying \/ subs'[t].closed
           /\ Queues' /\ Ordered' /\ LiveNeverMissed'
      BY <1>3, <1>6, <2>5, <2>6, <2>8, <2>9, DeliveryKeeps
    <2> QED BY <1>2, <1>6, <2>5, <2>6, <2>7, <2>10, ReplaysKeep
  <1>10. ASSUME ~subs[s].closed, pending # {},
                Deliver(s, Least(pending), [Top EXCEPT !.index = ReplayLimit],
                        [subs EXCEPT ![s].pending = @ \ {Least(pending)}])
         PROVE  IInv'
    <2> DEFINE event == Least(pending)
               queue == pending \ {event}
    <2>1. pending \in SUBSET Nat
      BY <1>6 DEF Events
    <2>2. event \in pending /\ \A e \in pending : event <= e
      BY <1>10, <2>1, LeastIs
    <2>3. /\ subs' = [[subs EXCEPT ![s].pending = @ \ {event}] EXCEPT ![s].last = event]
          /\ got' = [got EXCEPT ![s] = Append(@, event)]
          /\ stack' = Front(stack) \o <<[Top EXCEPT !.index = ReplayLimit], Calling(s)>>
      BY <1>10 DEF Deliver
    <2> HIDE DEF event
    <2>4. /\ event \in Nat /\ event \in Events /\ event <= sequence
          /\ subs[s].last < event /\ subs[s].boundary < event /\ queue \in SUBSET Events
      BY <1>6, <1>7, <2>1, <2>2
    <2>5. Gives(s, event, queue)
      <3>1. subs \in Seq(Subscription) /\ s \in 1 .. Len(subs)
        BY <1>1, <1>3 DEF TypeOK, Subs
      <3>2. [[subs EXCEPT ![s].pending = @ \ {event}] EXCEPT ![s].last = event]
              = [subs EXCEPT ![s] = [subs[s] EXCEPT !.pending = queue, !.last = event]]
        BY <1>5, <3>1 DEF Subscription
      <3>3. subs' = [subs EXCEPT ![s] = [subs[s] EXCEPT !.pending = queue, !.last = event]]
        BY <2>3, <3>2
      <3>4. got' = [got EXCEPT ![s] = Append(got[s], event)]
        BY <2>3
      <3>5. TypeOK /\ s \in Subs /\ event \in Events /\ queue \in SUBSET Events
        BY <1>1, <1>3, <2>4
      <3> QED BY <3>3, <3>4, <3>5, Delivered, Zenon
    <2>6. PICK f \in Frames : f.kind = "replay" /\ f.sub = s /\ CallsFrom(f, s)
      <3>1. ReplayLimit \in 0 .. ReplayLimit
        BY <1>5
      <3> QED BY <1>8, <2>3, <3>1
    <2>7. /\ \A e \in queue : event < e /\ subs[s].boundary < e /\ e <= sequence
          /\ \A e \in Events : event < e /\ subs[s].boundary < e /\ e <= sequence => e \in queue
          /\ \A e \in Events : subs[s].boundary < e /\ e < event => e <= subs[s].last
      <3>1. pending \subseteq Nat /\ Events \subseteq Nat
        BY <1>6 DEF Events
      <3>2. \A e \in queue : event < e /\ subs[s].boundary < e /\ e <= sequence
        BY <1>6, <1>7, <2>2, <2>4, <3>1
      <3>3. \A e \in Events : event < e /\ subs[s].boundary < e /\ e <= sequence => e \in queue
        BY <1>5, <1>6, <1>7, <1>10, <2>4, <3>1
      <3>4. ASSUME NEW e \in Events, subs[s].boundary < e, e < event, ~(e <= subs[s].last)
            PROVE  FALSE
        <4>1. e \in pending
          BY <1>5, <1>6, <1>7, <1>10, <2>4, <3>1, <3>4
        <4> QED BY <2>2, <2>4, <3>4, <4>1
      <3> QED BY <3>2, <3>3, <3>4
    <2>8. /\ UNCHANGED sequence /\ subs[s].last < event
          /\ ~(sequence = subs[s].boundary /\ event < sequence)
      BY <1>2, <1>5, <2>4
    <2>9. /\ \A t \in Subs : subs'[t].replaying = subs[t].replaying /\ subs'[t].closed = subs[t].closed
          /\ \A t \in Subs : subs'[t].pending # {} => subs'[t].replaying \/ subs'[t].closed
          /\ Queues' /\ Ordered' /\ LiveNeverMissed'
      BY <1>3, <2>4, <2>5, <2>7, <2>8, DeliveryKeeps
    <2> QED BY <1>2, <2>4, <2>5, <2>6, <2>8, <2>9, ReplaysKeep
  <1>11. ASSUME Due(Top) = {}, subs[s].closed \/ pending = {},
                subs' = [subs EXCEPT ![s].replaying = FALSE], stack' = Front(stack), UNCHANGED got
         PROVE  IInv'
    <2> DEFINE r == [subs[s] EXCEPT !.replaying = FALSE]
    <2>1. /\ r \in Subscription /\ r.pending = pending /\ r.last = subs[s].last
          /\ r.closed = subs[s].closed /\ r.boundary = subs[s].boundary /\ ~r.replaying
      BY <1>5 DEF Subscription
    <2>2. subs' = [subs EXCEPT ![s] = r]
      BY <1>11
    <2> HIDE DEF r
    <2>3. /\ subs' \in Seq(Subscription) /\ Len(subs') = Len(subs)
          /\ \A t \in Subs : subs'[t] = IF t = s THEN r ELSE subs[t]
      <3>1. r \in Subscription
        BY <2>1
      <3> QED BY <1>1, <1>3, <2>2, <3>1, PutSub, Zenon
    <2>4. /\ stack' \in Seq(Frames) /\ Len(stack') = Len(stack) - 1
          /\ \A n \in 1 .. Len(stack') : stack'[n] = stack[n]
      BY <1>1, <1>2, <1>11, Ended
    <2>5. UNCHANGED <<sequence, undelivered, got>>
      BY <1>2, <1>11
    <2> QED BY <1>2, <1>11, <2>1, <2>3, <2>4, <2>5, ReplayedKeeps
  <1> QED BY <1>9, <1>10, <1>11 DEF Replay

\* A subscription is cancelled.
LEMMA UnsubscribeKeeps ==
  ASSUME IInv, NEW s \in Subs, Unsubscribe(s)
  PROVE  IInv'
  <1>1. TypeOK /\ Nested /\ Called /\ Replayed /\ ReplayRight /\ Dispatched /\ LiveRight
        /\ Queues /\ Ordered /\ LiveNeverMissed
    BY DEF IInv
  <1>2. UNCHANGED <<sequence, undelivered, stack, got>> /\ subs' = [subs EXCEPT ![s].closed = TRUE]
    BY DEF Unsubscribe
  <1>3. /\ subs' \in Seq(Subscription) /\ Len(subs') = Len(subs)
        /\ \A t \in Subs : Changed(t, subs[t].pending, subs[t].last, subs[t].replaying)
        /\ \A t \in Subs : subs'[t].closed = IF t = s THEN TRUE ELSE subs[t].closed
    BY <1>1, <1>2, Closing
  <1>4. /\ UNCHANGED <<sequence, undelivered, stack, got>> /\ Subs' = Subs
        /\ \A t \in Subs : /\ subs'[t].pending = subs[t].pending /\ subs'[t].last = subs[t].last
                           /\ subs'[t].replaying = subs[t].replaying
                           /\ subs'[t].boundary = subs[t].boundary
        /\ \A t \in Subs : subs[t].closed => subs'[t].closed
    BY <1>2 DEF Changed, Subs
  <1>5. \A n \in 1 .. Len(stack) : stack[n].kind # "drain" => stack[n].sub \in Subs
    BY <1>1 DEF Called
  <1>6. TypeOK'
    BY <1>1, <1>3, <1>4 DEF TypeOK
  <1>7. Nested' /\ Dispatched'
    BY <1>1, <1>4 DEF Nested, Dispatched, Dispatching
  <1>8. Called'
    <2>1. ASSUME NEW n \in 1 .. Len(stack) - 1, stack[n + 1].kind = "listener"
          PROVE  IF stack[n].kind = "replay" THEN stack[n + 1].sub = stack[n].sub
                 ELSE ~subs'[stack[n + 1].sub].replaying
      <3>1. n + 1 \in 1 .. Len(stack)
        BY DEF TypeOK
      <3> QED BY <1>1, <1>4, <2>1, <3>1 DEF Called
    <2> QED BY <1>1, <1>4, <1>5, <2>1 DEF Called
  <1>9. Replayed'
    BY <1>1, <1>4 DEF Replayed
  <1>10. Queues'
    BY <1>1, <1>4 DEF Queues
  <1>11. Ordered' /\ LiveNeverMissed'
    BY <1>1, <1>4 DEF Ordered, LiveNeverMissed
  <1>12. ReplayRight'
    BY <1>1, <1>4, <1>5 DEF ReplayRight, Retained
  <1>13. LiveRight'
    <2>1. (Open \ Replaying)' \subseteq Open \ Replaying
      BY <1>4 DEF Open, Replaying
    <2>2. \A t \in Open : subs'[t].last = subs[t].last
      BY <1>4 DEF Open
    <2>3. Dispatching' <=> Dispatching
      BY <1>4 DEF Dispatching
    <2> QED BY <1>1, <1>4, <2>1, <2>2, <2>3 DEF LiveRight
  <1> QED BY <1>6, <1>7, <1>8, <1>9, <1>10, <1>11, <1>12, <1>13 DEF IInv

\* The queues of the subscriptions that replay take the event.
LEMMA QueuedIs ==
  ASSUME TypeOK, NEW event \in Events, subs' = Queued(event, Replaying)
  PROVE  /\ subs' \in Seq(Subscription) /\ Len(subs') = Len(subs) /\ Subs' = Subs
         /\ \A s \in Subs : /\ subs'[s].last = subs[s].last /\ subs'[s].boundary = subs[s].boundary
                            /\ subs'[s].replaying = subs[s].replaying /\ subs'[s].closed = subs[s].closed
                            /\ subs'[s].pending = IF s \in Replaying THEN subs[s].pending \cup {event}
                                                  ELSE subs[s].pending
  <1>1. Subs = 1 .. Len(subs) /\ Len(subs) \in Nat /\ \A s \in Subs : subs[s] \in Subscription
    BY DEF TypeOK, Subs
  <1>2. ASSUME NEW s \in Subs
        PROVE  /\ subs'[s] \in Subscription
               /\ subs'[s].last = subs[s].last /\ subs'[s].boundary = subs[s].boundary
               /\ subs'[s].replaying = subs[s].replaying /\ subs'[s].closed = subs[s].closed
               /\ subs'[s].pending = IF s \in Replaying THEN subs[s].pending \cup {event}
                                     ELSE subs[s].pending
    <2>1. CASE s \in Replaying
      <3>1. subs'[s] = [subs[s] EXCEPT !.pending = @ \cup {event}]
        BY <2>1 DEF Queued
      <3> QED BY <1>1, <2>1, <3>1 DEF Subscription
    <2>2. CASE s \notin Replaying
      <3>1. subs'[s] = subs[s]
        BY <2>2 DEF Queued
      <3> QED BY <1>1, <2>2, <3>1
    <2> QED BY <2>1, <2>2
  <1>3. subs' = [s \in 1 .. Len(subs) |-> subs'[s]]
    BY <1>1 DEF Queued
  <1>4. subs' \in Seq(Subscription) /\ Len(subs') = Len(subs)
    <2>1. ASSUME NEW n \in Nat, NEW q \in [1 .. n -> Subscription]
          PROVE  q \in Seq(Subscription) /\ Len(q) = n
      OBVIOUS
    <2>2. subs' \in [1 .. Len(subs) -> Subscription]
      <3> DEFINE g(s) == subs'[s]
      <3>1. \A s \in 1 .. Len(subs) : g(s) \in Subscription
        BY <1>1, <1>2
      <3>2. subs' = [s \in 1 .. Len(subs) |-> g(s)]
        BY <1>3
      <3> HIDE DEF g
      <3> QED BY <3>1, <3>2
    <2> QED BY <1>1, <2>1, <2>2, Zenon
  <1> QED BY <1>1, <1>2, <1>4 DEF Subs

\* An event is published; the dispatch in progress takes it, or a new one.
LEMMA PublishedKeeps ==
  ASSUME IInv, InCaller, UNCHANGED got, sequence < MaxEvents, sequence' = sequence + 1,
         undelivered' = undelivered \cup {sequence + 1},
         subs' \in Seq(Subscription), Len(subs') = Len(subs), Subs' = Subs,
         \A s \in Subs : /\ subs'[s].last = subs[s].last /\ subs'[s].boundary = subs[s].boundary
                         /\ subs'[s].replaying = subs[s].replaying /\ subs'[s].closed = subs[s].closed
                         /\ subs'[s].pending = IF s \in Replaying THEN subs[s].pending \cup {sequence + 1}
                                               ELSE subs[s].pending,
         stack' \in Seq(Frames),
         Dispatching => Len(stack') = Len(stack),
         ~Dispatching => Len(stack') = Len(stack) + 1 /\ stack'[Len(stack) + 1] = Draining,
         \A n \in 1 .. Len(stack) : stack'[n] = stack[n]
  PROVE  IInv'
  <1>1. TypeOK /\ Nested /\ Called /\ Replayed /\ ReplayRight /\ Dispatched /\ LiveRight
        /\ Queues /\ Ordered /\ LiveNeverMissed
    BY DEF IInv
  <1>2. /\ Len(stack) \in Nat /\ sequence \in Nat /\ MaxEvents \in Nat /\ sequence + 1 \in Events
        /\ undelivered \subseteq Events
    BY <1>1, Numbers DEF TypeOK, Events
  <1>3. /\ \A n \in 1 .. Len(stack') : n \in 1 .. Len(stack) \/ (~Dispatching /\ n = Len(stack) + 1)
        /\ \A n \in 1 .. Len(stack) : n \in 1 .. Len(stack') /\ stack'[n] = stack[n]
        /\ Len(stack) + 1 \notin 1 .. Len(stack)
    <2>1. Len(stack') = Len(stack) \/ (~Dispatching /\ Len(stack') = Len(stack) + 1)
      OBVIOUS
    <2>2. \A n \in 1 .. Len(stack') : n \in 1 .. Len(stack) \/ (~Dispatching /\ n = Len(stack) + 1)
      BY <1>2, <2>1
    <2>3. \A n \in 1 .. Len(stack) : n \in 1 .. Len(stack') /\ stack'[n] = stack[n]
      BY <1>2, <2>1
    <2> QED BY <1>2, <2>2, <2>3
  <1>4. /\ ~Dispatching => /\ stack'[Len(stack) + 1] = Draining /\ Len(stack') = Len(stack) + 1
                           /\ \A n \in 1 .. Len(stack) : stack[n].kind # "drain"
        /\ Dispatching => Len(stack') = Len(stack)
        /\ Draining.kind = "drain" /\ Draining.event = 0 /\ Draining.visited = 0
    BY <1>1, Numbers DEF Draining
  <1>5. /\ \A s \in Subs : subs[s] \in Subscription
        /\ \A s \in Subs : subs[s].last \in Nat /\ subs[s].boundary \in Nat
    <2>1. \A s \in Subs : subs[s] \in Subscription
      BY <1>1 DEF TypeOK, Subs
    <2>2. \A r \in Subscription : r.last \in Nat /\ r.boundary \in Nat
      BY DEF Subscription
    <2> QED BY <2>1, <2>2
  <1>6. stack = <<>> \/ (stack # <<>> /\ Top.kind = "listener")
    BY DEF InCaller, Running
  <1>7. \A n \in 1 .. Len(stack) : stack[n].kind = "drain" => stack[n].event # 0
    BY <1>6, Runs
  <1>8. stack # <<>> => stack[Len(stack)].kind = "listener"
    BY <1>6, Runs
  <1>9. /\ \A s \in Subs : /\ subs'[s].last = subs[s].last /\ subs'[s].boundary = subs[s].boundary
                           /\ subs'[s].replaying = subs[s].replaying /\ subs'[s].closed = subs[s].closed
        /\ Subs' = Subs
    OBVIOUS
  <1>10. Dispatching'
    <2>1. CASE Dispatching
      <3>1. PICK n \in 1 .. Len(stack) : stack[n].kind = "drain"
        BY <1>1, <2>1, Numbers
      <3> QED BY <3>1 DEF Dispatching
    <2>2. CASE ~Dispatching
      <3>1. Len(stack) + 1 \in 1 .. Len(stack')
        BY <1>2, <1>4, <2>2
      <3> QED BY <1>4, <2>2, <3>1 DEF Dispatching
    <2> QED BY <2>1, <2>2
  <1>11. TypeOK'
    <2>1. sequence' \in 0 .. MaxEvents /\ undelivered' \subseteq Events
      BY <1>2
    <2>2. \A s \in Subs : subs'[s].pending # {} => subs'[s].replaying \/ subs'[s].closed
      BY <1>1 DEF TypeOK, Replaying
    <2>3. got' \in Seq(Seq(Events)) /\ Len(got') = Len(subs') /\ Len(subs') <= MaxSubs
      BY <1>1 DEF TypeOK
    <2> QED BY <2>1, <2>2, <2>3 DEF TypeOK
  <1>12. Nested'
    <2>1. stack' # <<>> => stack'[1].kind # "listener"
      <3>1. CASE stack = <<>>
        <4>1. Len(stack) = 0
          BY <3>1
        <4>2. ~Dispatching
          BY <1>1, <4>1, Numbers
        <4> QED BY <1>4, <4>1, <4>2
      <3>2. CASE stack # <<>>
        <4>1. 1 \in 1 .. Len(stack)
          BY <3>2 DEF TypeOK
        <4> QED BY <1>1, <1>3, <3>2, <4>1 DEF Nested
      <3> QED BY <3>1, <3>2
    <2>2. ASSUME NEW n \in 1 .. Len(stack') - 1
          PROVE  stack'[n].kind = "listener" <=> stack'[n + 1].kind # "listener"
      <3>1. CASE n \in 1 .. Len(stack) - 1
        <4>1. n \in 1 .. Len(stack) /\ n + 1 \in 1 .. Len(stack)
          BY <3>1
        <4> QED BY <1>1, <1>3, <4>1 DEF Nested
      <3>2. CASE n \notin 1 .. Len(stack) - 1
        <4>1. ~Dispatching /\ n = Len(stack) /\ n \in 1 .. Len(stack)
          BY <1>2, <3>2
        <4>2. stack'[n].kind = "listener"
          BY <1>2, <1>3, <1>8, <4>1
        <4> QED BY <1>4, <4>1, <4>2
      <3> QED BY <3>1, <3>2
    <2>3. ASSUME NEW m \in 1 .. Len(stack'), NEW n \in 1 .. Len(stack'),
                 stack'[m].kind = "drain", stack'[n].kind = "drain"
          PROVE  m = n
      <3>1. CASE Dispatching
        BY <1>1, <1>3, <2>3, <3>1 DEF Nested
      <3>2. CASE ~Dispatching
        BY <1>3, <1>4, <2>3, <3>2
      <3> QED BY <3>1, <3>2
    <2>4. ASSUME NEW m \in 1 .. Len(stack'), NEW n \in 1 .. Len(stack'),
                 stack'[m].kind = "replay", stack'[n].kind = "replay", stack'[m].sub = stack'[n].sub
          PROVE  m = n
      <3>1. m \in 1 .. Len(stack) /\ n \in 1 .. Len(stack)
        BY <1>3, <1>4, <2>4
      <3> QED BY <1>1, <1>3, <2>4, <3>1 DEF Nested
    <2> QED BY <2>1, <2>2, <2>3, <2>4 DEF Nested
  <1>13. Called'
    <2>1. ASSUME NEW n \in 1 .. Len(stack'), stack'[n].kind # "drain"
          PROVE  n \in 1 .. Len(stack) /\ stack'[n] = stack[n] /\ stack[n].sub \in Subs
      BY <1>1, <1>3, <1>4, <2>1 DEF Called
    <2>2. ASSUME NEW n \in 1 .. Len(stack') - 1, stack'[n + 1].kind = "listener"
          PROVE  IF stack'[n].kind = "replay" THEN stack'[n + 1].sub = stack'[n].sub
                 ELSE ~subs'[stack'[n + 1].sub].replaying
      <3>1. n + 1 \in 1 .. Len(stack')
        BY <1>2
      <3>2. n + 1 \in 1 .. Len(stack) /\ stack'[n + 1] = stack[n + 1] /\ stack[n + 1].sub \in Subs
        BY <2>1, <2>2, <3>1
      <3>3. n \in 1 .. Len(stack) - 1 /\ n \in 1 .. Len(stack)
        BY <1>2, <3>2
      <3> QED BY <1>1, <1>3, <1>9, <2>2, <3>2, <3>3 DEF Called
    <2>3. \A n \in 1 .. Len(stack') : stack'[n].kind = "replay" => subs'[stack'[n].sub].replaying
      BY <1>1, <1>9, <2>1 DEF Called
    <2> QED BY <1>9, <2>1, <2>2, <2>3 DEF Called
  <1>14. Replayed'
    <2>1. ASSUME NEW t \in Subs, subs[t].replaying
          PROVE  \E n \in 1 .. Len(stack') : stack'[n].kind = "replay" /\ stack'[n].sub = t
      BY <1>1, <1>3, <2>1 DEF Replayed
    <2> QED BY <1>9, <2>1 DEF Replayed
  <1>15. Dispatched'
    <2>1. CASE Dispatching
      <3>1. ASSUME NEW n \in 1 .. Len(stack'), stack'[n].kind = "drain"
            PROVE  /\ stack'[n].event # 0 /\ stack'[n].event <= sequence + 1
                   /\ undelivered' = stack'[n].event + 1 .. sequence + 1
        <4>1. n \in 1 .. Len(stack) /\ stack'[n] = stack[n] /\ stack[n].event # 0 /\ stack[n] \in Frames
          BY <1>1, <1>3, <1>7, <2>1, <3>1 DEF TypeOK
        <4>2. stack[n].event <= sequence /\ undelivered = stack[n].event + 1 .. sequence
          BY <1>1, <3>1, <4>1 DEF Dispatched
        <4>3. stack[n].event \in Nat
          BY <3>1, <4>1, FrameKinds
        <4>4. (stack[n].event + 1 .. sequence) \cup {sequence + 1} = stack[n].event + 1 .. sequence + 1
          BY <1>2, <4>2, <4>3, Intervals, Zenon
        <4>5. undelivered' = (stack[n].event + 1 .. sequence) \cup {sequence + 1}
          BY <4>2
        <4> QED BY <1>2, <4>1, <4>2, <4>3, <4>4, <4>5
      <3> QED BY <1>10, <3>1 DEF Dispatched
    <2>2. CASE ~Dispatching
      <3>1. \A n \in 1 .. Len(stack') : stack'[n].kind = "drain" => n = Len(stack') /\ stack'[n] = Draining
        BY <1>3, <1>4, <2>2
      <3>2. undelivered' = {sequence + 1}
        BY <1>1, <2>2 DEF Dispatched
      <3> QED BY <1>2, <1>4, <1>10, <3>1, <3>2 DEF Dispatched
    <2> QED BY <2>1, <2>2
  <1>16. Queues'
    <2>1. ASSUME NEW s \in Subs
          PROVE  /\ subs'[s].boundary <= sequence + 1 /\ subs'[s].last <= sequence + 1
                 /\ \A e \in subs'[s].pending :
                      subs'[s].last < e /\ subs'[s].boundary < e /\ e <= sequence + 1
                 /\ subs'[s].replaying /\ ~subs'[s].closed =>
                      \A e \in Events : subs'[s].last < e /\ subs'[s].boundary < e /\ e <= sequence + 1
                                          => e \in subs'[s].pending
                 /\ \A m \in 1 .. Len(got[s]) : got[s][m] <= subs'[s].last
      <3>1. /\ subs[s].boundary <= sequence /\ subs[s].last <= sequence
            /\ \A e \in subs[s].pending : subs[s].last < e /\ subs[s].boundary < e /\ e <= sequence
            /\ subs[s].replaying /\ ~subs[s].closed =>
                 \A e \in Events : subs[s].last < e /\ subs[s].boundary < e /\ e <= sequence
                                     => e \in subs[s].pending
            /\ \A m \in 1 .. Len(got[s]) : got[s][m] <= subs[s].last
        BY <1>1 DEF Queues
      <3>2. subs[s].pending \subseteq Events /\ Events \subseteq Nat
        <4>1. \A r \in Subscription : r.pending \subseteq Events
          BY DEF Subscription
        <4> QED BY <1>5, <4>1 DEF Events
      <3>3. /\ subs'[s].pending \subseteq subs[s].pending \cup {sequence + 1}
            /\ subs[s].pending \subseteq subs'[s].pending
            /\ subs[s].replaying /\ ~subs[s].closed => sequence + 1 \in subs'[s].pending
        BY DEF Replaying, Open
      <3>4. /\ subs'[s].last = subs[s].last /\ subs'[s].boundary = subs[s].boundary
            /\ subs'[s].replaying = subs[s].replaying /\ subs'[s].closed = subs[s].closed
            /\ subs[s].last \in Nat /\ subs[s].boundary \in Nat
        BY <1>5, <1>9
      <3>5. \A e \in subs'[s].pending : subs[s].last < e /\ subs[s].boundary < e /\ e <= sequence + 1
        <4>1. ASSUME NEW e \in subs'[s].pending
              PROVE  subs[s].last < e /\ subs[s].boundary < e /\ e <= sequence + 1
          <5>1. e \in subs[s].pending \/ e = sequence + 1
            BY <3>3
          <5>2. CASE e \in subs[s].pending
            <6>1. e \in Nat /\ subs[s].last < e /\ subs[s].boundary < e /\ e <= sequence
              BY <3>1, <3>2, <5>2
            <6> QED BY <1>2, <6>1
          <5>3. CASE e = sequence + 1
            <6>1. subs[s].last <= sequence /\ subs[s].boundary <= sequence
              BY <3>1
            <6> QED BY <1>2, <3>4, <5>3, <6>1
          <5> QED BY <5>1, <5>2, <5>3
        <4> QED BY <4>1
      <3>6. ASSUME subs[s].replaying, ~subs[s].closed, NEW e \in Events,
                   subs[s].last < e, subs[s].boundary < e, e <= sequence + 1
            PROVE  e \in subs'[s].pending
        <4>1. e = sequence + 1 \/ e <= sequence
          BY <1>2, <3>2, <3>6
        <4> QED BY <3>1, <3>3, <3>6, <4>1
      <3> QED BY <1>2, <3>1, <3>4, <3>5, <3>6
    <2> QED BY <1>9, <2>1 DEF Queues
  <1>17. Ordered' /\ LiveNeverMissed'
    BY <1>1, <1>9 DEF Ordered, LiveNeverMissed
  <1>18. ReplayRight'
    <2>1. ASSUME NEW n \in 1 .. Len(stack'), stack'[n].kind = "replay"
          PROVE  sequence' # subs'[stack'[n].sub].boundary
      <3>1. stack'[n].sub \in Subs
        BY <1>1, <1>3, <1>4, <2>1 DEF Called
      <3>2. subs[stack'[n].sub].boundary <= sequence
        BY <1>1, <3>1 DEF Queues
      <3>3. subs'[stack'[n].sub].boundary = subs[stack'[n].sub].boundary /\ subs[stack'[n].sub].boundary \in Nat
        BY <1>5, <1>9, <3>1
      <3> QED BY <1>2, <3>2, <3>3
    <2> QED BY <2>1 DEF ReplayRight
  <1>19. LiveRight'
    <2>1. (Open \ Replaying)' = Open \ Replaying /\ \A s \in Open : subs'[s].last = subs[s].last
      BY <1>9 DEF Open, Replaying
    <2>2. ASSUME NEW s \in Open \ Replaying, NEW n \in 1 .. Len(stack'), stack'[n].kind = "drain"
          PROVE  IF stack'[n].event = 0 THEN sequence + 1 - 1 <= subs[s].last
                 ELSE /\ stack'[n].event - 1 <= subs[s].last
                      /\ s <= stack'[n].visited => stack'[n].event <= subs[s].last
      <3>1. CASE Dispatching
        BY <1>1, <1>3, <1>7, <2>2, <3>1 DEF LiveRight
      <3>2. CASE ~Dispatching
        <4>1. sequence <= subs[s].last
          BY <1>1, <3>2 DEF LiveRight
        <4>2. stack'[n] = Draining
          BY <1>3, <1>4, <2>2, <3>2
        <4> QED BY <1>2, <1>4, <4>1, <4>2
      <3> QED BY <3>1, <3>2
    <2>3. sequence' = sequence + 1 /\ sequence \in Nat
      BY <1>2
    <2>4. ASSUME NEW s \in (Open \ Replaying)', NEW n \in 1 .. Len(stack'), stack'[n].kind = "drain"
          PROVE  IF stack'[n].event = 0 THEN sequence' - 1 <= subs'[s].last
                 ELSE /\ stack'[n].event - 1 <= subs'[s].last
                      /\ s <= stack'[n].visited => stack'[n].event <= subs'[s].last
      <3>1. s \in Open \ Replaying /\ subs'[s].last = subs[s].last
        BY <2>1, <2>4
      <3> QED BY <2>2, <2>3, <2>4, <3>1
    <2> QED BY <1>10, <2>4 DEF LiveRight
  <1> QED BY <1>11, <1>12, <1>13, <1>14, <1>15, <1>16, <1>17, <1>18, <1>19 DEF IInv

\* publish() keeps the invariant.
LEMMA PublishKeeps ==
  ASSUME IInv, Publish
  PROVE  IInv'
  <1>1. /\ InCaller /\ UNCHANGED got /\ sequence < MaxEvents /\ sequence' = sequence + 1
        /\ undelivered' = undelivered \cup {sequence + 1} /\ subs' = Queued(sequence + 1, Replaying)
        /\ stack' = IF Dispatching THEN stack ELSE Append(stack, Draining)
    BY DEF Publish, PublishTo
  <1>2. TypeOK
    BY DEF IInv
  <1>3. sequence + 1 \in Events
    <2>1. sequence \in Nat /\ MaxEvents \in Nat /\ sequence < MaxEvents
      BY <1>1, <1>2, Numbers
    <2> QED BY <2>1 DEF Events
  <1>4. /\ subs' \in Seq(Subscription) /\ Len(subs') = Len(subs) /\ Subs' = Subs
        /\ \A s \in Subs : /\ subs'[s].last = subs[s].last /\ subs'[s].boundary = subs[s].boundary
                           /\ subs'[s].replaying = subs[s].replaying /\ subs'[s].closed = subs[s].closed
                           /\ subs'[s].pending = IF s \in Replaying THEN subs[s].pending \cup {sequence + 1}
                                                 ELSE subs[s].pending
    BY <1>1, <1>2, <1>3, QueuedIs
  <1>5. Draining \in Frames
    BY BoundsAssumption DEF Draining, Frames
  <1>6. /\ stack' \in Seq(Frames)
        /\ Dispatching => Len(stack') = Len(stack)
        /\ ~Dispatching => Len(stack') = Len(stack) + 1 /\ stack'[Len(stack) + 1] = Draining
        /\ \A n \in 1 .. Len(stack) : stack'[n] = stack[n]
    <2>1. CASE Dispatching
      BY <1>1, <1>2, <2>1 DEF TypeOK
    <2>2. CASE ~Dispatching
      BY <1>1, <1>2, <1>5, <2>2, Starts
    <2> QED BY <2>1, <2>2
  <1> QED BY <1>1, <1>4, <1>6, PublishedKeeps

\* What a new subscription adds to the list of them.
Adds(r) ==
    /\ subs' \in Seq(Subscription) /\ Len(subs') = Len(subs) + 1 /\ subs'[Len(subs) + 1] = r
    /\ got' \in Seq(Seq(Events)) /\ Len(got') = Len(subs) + 1 /\ got'[Len(subs) + 1] = <<>>
    /\ \A s \in Subs : subs'[s] = subs[s] /\ got'[s] = got[s]

\* What it adds to the stack.
Begins(f) ==
    /\ stack' \in Seq(Frames) /\ stack'[Len(stack) + 1] = f
    /\ \A n \in 1 .. Len(stack) : stack'[n] = stack[n]
    /\ \/ Len(stack') = Len(stack) + 1
       \/ Len(stack') = Len(stack) + 2 /\ stack'[Len(stack) + 2] = Calling(Len(subs) + 1)

\* A subscription is added: its replay starts, and may call its listener at once
\* for what is gone.
LEMMA SubscribedKeeps ==
  ASSUME IInv, InCaller, UNCHANGED <<sequence, undelivered>>,
         NEW r \in Subscription, ~r.closed, r.replaying, r.pending = {},
         r.boundary = sequence, r.last <= sequence, Len(subs) < MaxSubs,
         NEW f \in Frames, f.kind = "replay", f.sub = Len(subs) + 1, f.index = 0,
         Adds(r), Begins(f)
  PROVE  IInv'
  <1> DEFINE k == Len(stack)
             s == Len(subs) + 1
  <1>1. TypeOK /\ Nested /\ Called /\ Replayed /\ ReplayRight /\ Dispatched /\ LiveRight
        /\ Queues /\ Ordered /\ LiveNeverMissed
    BY DEF IInv
  <1>2. k \in Nat /\ sequence \in Nat /\ Len(subs) \in Nat
    BY <1>1, Numbers DEF TypeOK
  <1>3. /\ Subs' = Subs \cup {s} /\ s \notin Subs /\ Subs = 1 .. Len(subs)
        /\ \A t \in Subs' : t \in Subs \/ t = s
    <2>1. Len(subs') = Len(subs) + 1
      BY DEF Adds
    <2> QED BY <1>2, <2>1 DEF Subs
  <1>4. /\ subs'[s] = r /\ got'[s] = <<>>
        /\ \A t \in Subs : subs'[t] = subs[t] /\ got'[t] = got[t]
        /\ subs' \in Seq(Subscription) /\ got' \in Seq(Seq(Events)) /\ Len(subs') = s /\ Len(got') = s
    BY DEF Adds
  <1>5. /\ stack'[k + 1] = f /\ \A n \in 1 .. k : n \in 1 .. Len(stack') /\ stack'[n] = stack[n]
        /\ k + 1 \in 1 .. Len(stack')
        /\ stack' \in Seq(Frames)
        /\ \/ Len(stack') = k + 1
           \/ Len(stack') = k + 2 /\ stack'[k + 2].kind = "listener" /\ stack'[k + 2].sub = s
    BY <1>2 DEF Begins, Calling
  <1>6. \A n \in 1 .. Len(stack') :
          \/ n \in 1 .. k
          \/ n = k + 1
          \/ (n = k + 2 /\ Len(stack') = k + 2 /\ stack'[n].kind = "listener" /\ stack'[n].sub = s)
    <2>1. \A n \in 1 .. Len(stack') : n \in 1 .. k \/ n = k + 1 \/ (n = k + 2 /\ Len(stack') = k + 2)
      BY <1>5
    <2> QED BY <1>5, <2>1
  <1>7. stack = <<>> \/ (stack # <<>> /\ Top.kind = "listener")
    BY DEF InCaller, Running
  <1>8. \A n \in 1 .. k : stack[n].kind = "drain" => stack[n].event # 0
    BY <1>7, Runs
  <1>9. stack # <<>> => stack[k].kind = "listener"
    BY <1>7, Runs
  <1>10. f.kind = "replay" /\ f.sub = s /\ f.index = 0
    OBVIOUS
  <1>11. 1 .. Len(stack) = 1 .. k /\ (stack # <<>> => k # 0) /\ (stack = <<>> => k = 0) /\ s <= MaxSubs
    BY <1>1, <1>2, BoundsAssumption DEF TypeOK
  <1>12. /\ \A n \in 1 .. k - 1 : stack[n].kind = "listener" <=> stack[n + 1].kind # "listener"
         /\ stack # <<>> => stack[1].kind # "listener"
         /\ \A n \in 1 .. k - 1 : stack[n + 1].kind = "listener" =>
              IF stack[n].kind = "replay" THEN stack[n + 1].sub = stack[n].sub
              ELSE ~subs[stack[n + 1].sub].replaying
    BY <1>1 DEF Nested, Called
  <1>13. /\ \A m, n \in 1 .. k : stack[m].kind = "drain" /\ stack[n].kind = "drain" => m = n
         /\ \A m, n \in 1 .. k :
              stack[m].kind = "replay" /\ stack[n].kind = "replay" /\ stack[m].sub = stack[n].sub => m = n
    BY <1>1 DEF Nested
  <1>14. /\ \A t \in Subs : subs[t].replaying =>
              \E n \in 1 .. k : stack[n].kind = "replay" /\ stack[n].sub = t
         /\ \A n \in 1 .. k : stack[n].kind = "replay" => subs[stack[n].sub].replaying
    BY <1>1 DEF Replayed, Called
  <1>15. \A n \in 1 .. Len(stack') : stack'[n].kind = "drain" => n \in 1 .. k /\ stack'[n] = stack[n]
    BY <1>5, <1>6, <1>10
  <1>16. \A n \in 1 .. Len(stack') :
           stack'[n].kind = "replay" => (n \in 1 .. k /\ stack'[n] = stack[n]) \/ n = k + 1
    BY <1>5, <1>6
  <1>17. \A n \in 1 .. k : stack[n].kind # "drain" => stack[n].sub \in Subs /\ stack[n].sub # s
    BY <1>1, <1>3 DEF Called
  <1>18. Dispatching' <=> Dispatching
    <2>1. Dispatching <=> \E n \in 1 .. k : stack[n].kind = "drain"
      BY <1>1, Numbers
    <2>2. Dispatching' <=> \E n \in 1 .. Len(stack') : stack'[n].kind = "drain"
      BY <1>5, DispatchingNext
    <2> QED BY <1>5, <1>15, <2>1, <2>2
  <1> HIDE DEF k, s
  <1>19. TypeOK'
    <2>1. \A t \in Subs' : subs'[t].pending # {} => subs'[t].replaying \/ subs'[t].closed
      BY <1>1, <1>3, <1>4 DEF TypeOK
    <2> QED BY <1>1, <1>4, <1>5, <1>11, <2>1 DEF TypeOK
  <1>20. Nested'
    <2>1. stack'[1].kind # "listener"
      <3>1. CASE stack = <<>>
        BY <1>5, <1>10, <1>11, <3>1
      <3>2. CASE stack # <<>>
        <4>1. 1 \in 1 .. k
          BY <1>2, <1>11, <3>2
        <4> QED BY <1>5, <1>12, <3>2, <4>1
      <3> QED BY <3>1, <3>2
    <2>2. ASSUME NEW n \in 1 .. Len(stack') - 1
          PROVE  stack'[n].kind = "listener" <=> stack'[n + 1].kind # "listener"
      <3>1. CASE n \in 1 .. k - 1
        <4>1. n \in 1 .. k /\ n + 1 \in 1 .. k
          BY <1>2, <3>1
        <4> QED BY <1>5, <1>12, <3>1, <4>1
      <3>2. CASE n = k
        <4>1. k \in 1 .. k /\ stack # <<>>
          BY <1>2, <1>11, <3>2
        <4> QED BY <1>5, <1>9, <1>10, <3>2, <4>1
      <3>3. CASE n = k + 1
        <4>1. n + 1 \in 1 .. Len(stack') /\ n + 1 = k + 2
          BY <1>2, <1>5, <3>3
        <4>2. stack'[n + 1].kind = "listener"
          BY <1>2, <1>6, <4>1
        <4> QED BY <1>5, <1>10, <3>3, <4>2
      <3>4. n \in 1 .. k - 1 \/ n = k \/ n = k + 1
        BY <1>2, <1>5
      <3> QED BY <3>1, <3>2, <3>3, <3>4
    <2>3. \A m, n \in 1 .. Len(stack') : stack'[m].kind = "drain" /\ stack'[n].kind = "drain" => m = n
      BY <1>13, <1>15
    <2>4. ASSUME NEW m \in 1 .. Len(stack'), NEW n \in 1 .. Len(stack'),
                 stack'[m].kind = "replay", stack'[n].kind = "replay", stack'[m].sub = stack'[n].sub
          PROVE  m = n
      <3>1. CASE m \in 1 .. k /\ n \in 1 .. k
        BY <1>5, <1>13, <2>4, <3>1
      <3>2. CASE m \notin 1 .. k \/ n \notin 1 .. k
        BY <1>5, <1>10, <1>16, <1>17, <2>4, <3>2
      <3> QED BY <3>1, <3>2
    <2> QED BY <2>1, <2>2, <2>3, <2>4 DEF Nested
  <1>21. Called'
    <2>1. \A n \in 1 .. Len(stack') : stack'[n].kind # "drain" => stack'[n].sub \in Subs'
      BY <1>3, <1>5, <1>6, <1>10, <1>17
    <2>2. \A n \in 1 .. Len(stack') : stack'[n].kind = "replay" => subs'[stack'[n].sub].replaying
      <3>1. ASSUME NEW n \in 1 .. k, stack[n].kind = "replay", stack'[n] = stack[n]
            PROVE  subs'[stack'[n].sub].replaying
        BY <1>4, <1>14, <1>17, <3>1
      <3>2. subs'[stack'[k + 1].sub].replaying
        BY <1>4, <1>5, <1>10
      <3> QED BY <1>16, <3>1, <3>2
    <2>3. ASSUME NEW n \in 1 .. Len(stack') - 1, stack'[n + 1].kind = "listener"
          PROVE  IF stack'[n].kind = "replay" THEN stack'[n + 1].sub = stack'[n].sub
                 ELSE ~subs'[stack'[n + 1].sub].replaying
      <3>1. CASE n \in 1 .. k - 1
        <4>1. n \in 1 .. k /\ n + 1 \in 1 .. k
          BY <1>2, <3>1
        <4>2. stack'[n] = stack[n] /\ stack'[n + 1] = stack[n + 1] /\ stack[n + 1].sub \in Subs
          BY <1>5, <1>17, <2>3, <4>1
        <4>3. stack[n + 1].sub \in Subs /\ subs'[stack[n + 1].sub] = subs[stack[n + 1].sub]
          BY <1>4, <4>2
        <4>4. IF stack[n].kind = "replay" THEN stack[n + 1].sub = stack[n].sub
              ELSE ~subs[stack[n + 1].sub].replaying
          BY <1>12, <2>3, <3>1, <4>2
        <4> QED BY <4>2, <4>3, <4>4
      <3>2. CASE n = k
        BY <1>5, <2>3, <3>2
      <3>3. CASE n = k + 1
        <4>1. n + 1 \in 1 .. Len(stack') /\ n + 1 = k + 2
          BY <1>2, <1>5, <3>3
        <4>2. stack'[n + 1].sub = s
          BY <1>2, <1>6, <4>1
        <4> QED BY <1>5, <1>10, <3>3, <4>2
      <3>4. n \in 1 .. k - 1 \/ n = k \/ n = k + 1
        BY <1>2, <1>5
      <3> QED BY <3>1, <3>2, <3>3, <3>4
    <2> QED BY <2>1, <2>2, <2>3 DEF Called
  <1>22. Replayed'
    <2>1. ASSUME NEW t \in Subs', subs'[t].replaying
          PROVE  \E n \in 1 .. Len(stack') : stack'[n].kind = "replay" /\ stack'[n].sub = t
      <3>1. CASE t = s
        BY <1>5, <1>10, <3>1
      <3>2. CASE t \in Subs
        <4>1. PICK n \in 1 .. k : stack[n].kind = "replay" /\ stack[n].sub = t
          BY <1>4, <1>14, <2>1, <3>2
        <4> QED BY <1>5, <4>1
      <3> QED BY <1>3, <3>1, <3>2
    <2> QED BY <2>1 DEF Replayed
  <1>23. Dispatched'
    <2>1. ASSUME NEW n \in 1 .. Len(stack'), stack'[n].kind = "drain"
          PROVE  /\ stack'[n].event # 0
                 /\ stack'[n].event <= sequence /\ undelivered = stack'[n].event + 1 .. sequence
      BY <1>1, <1>8, <1>11, <1>15, <2>1 DEF Dispatched
    <2>2. ~Dispatching => undelivered = {}
      BY <1>1 DEF Dispatched
    <2> QED BY <1>18, <2>1, <2>2 DEF Dispatched
  <1>24. r.last \in Nat /\ r.boundary \in Nat
    BY DEF Subscription
  <1>25. Queues'
    <2>1. ASSUME NEW t \in Subs
          PROVE  /\ subs'[t].boundary <= sequence /\ subs'[t].last <= sequence
                 /\ \A e \in subs'[t].pending : subs'[t].last < e /\ subs'[t].boundary < e /\ e <= sequence
                 /\ subs'[t].replaying /\ ~subs'[t].closed =>
                      \A e \in Events : subs'[t].last < e /\ subs'[t].boundary < e /\ e <= sequence
                                          => e \in subs'[t].pending
                 /\ \A m \in 1 .. Len(got'[t]) : got'[t][m] <= subs'[t].last
      BY <1>1, <1>4 DEF Queues
    <2>2. /\ r.boundary <= sequence /\ r.last <= sequence /\ r.pending = {}
          /\ \A e \in Events : ~(r.boundary < e /\ e <= sequence)
          /\ \A m \in 1 .. Len(<<>>) : FALSE
      BY <1>2, <1>24 DEF Events
    <2> QED BY <1>3, <1>4, <2>1, <2>2 DEF Queues
  <1>26. Ordered'
    <2>1. DOMAIN got'[s] = {}
      BY <1>4
    <2> QED BY <1>1, <1>3, <1>4, <2>1 DEF Ordered
  <1>27. LiveNeverMissed'
    <2>1. r.boundary + 1 .. r.last = {}
      BY <1>24
    <2> QED BY <1>1, <1>3, <1>4, <2>1 DEF LiveNeverMissed
  <1>28. ReplayRight'
    <2>1. Retained' = Retained /\ (0 < sequence => 0 < Retained)
      <3>1. Retained' = Retained
        BY DEF Retained
      <3>2. sequence # 0 => Retained # 0 /\ Retained \in Nat
        BY <1>1, Numbers
      <3> QED BY <3>1, <3>2
    <2>2. ASSUME NEW n \in 1 .. k, stack[n].kind = "replay"
          PROVE  stack[n].sub \in Subs /\ subs'[stack[n].sub] = subs[stack[n].sub]
      BY <1>4, <1>17, <2>2
    <2>3. ASSUME NEW n \in 1 .. Len(stack'), stack'[n].kind = "replay",
                 ~subs'[stack'[n].sub].closed, sequence = subs'[stack'[n].sub].boundary,
                 subs'[stack'[n].sub].last < sequence
          PROVE  stack'[n].index < Retained
      <3>1. CASE n \in 1 .. k /\ stack'[n] = stack[n]
        BY <1>1, <1>11, <2>2, <2>3, <3>1 DEF ReplayRight
      <3>2. CASE n = k + 1
        <4>1. stack'[n].index = 0 /\ stack'[n].sub = s
          BY <1>5, <1>10, <3>2
        <4>2. r.last < sequence
          BY <1>4, <2>3, <4>1
        <4> QED BY <1>2, <1>24, <2>1, <4>1, <4>2
      <3> QED BY <1>16, <2>3, <3>1, <3>2
    <2> QED BY <2>1, <2>3 DEF ReplayRight
  <1>29. LiveRight'
    <2>1. (Open \ Replaying)' = Open \ Replaying
      <3>1. \A t \in Subs' : t \in (Open \ Replaying)' <=> t \in Open \ Replaying
        BY <1>3, <1>4 DEF Open, Replaying
      <3> QED BY <1>3, <3>1 DEF Open
    <2>2. \A t \in Open \ Replaying : subs'[t] = subs[t]
      BY <1>4 DEF Open
    <2>3. ASSUME NEW t \in Open \ Replaying
          PROVE  /\ ~Dispatching => sequence <= subs[t].last
                 /\ \A n \in 1 .. k : stack[n].kind = "drain" =>
                      IF stack[n].event = 0 THEN sequence - 1 <= subs[t].last
                      ELSE /\ stack[n].event - 1 <= subs[t].last
                           /\ t <= stack[n].visited => stack[n].event <= subs[t].last
      BY <1>1, <1>11 DEF LiveRight
    <2>4. ASSUME NEW t \in Open \ Replaying
          PROVE  /\ ~Dispatching' => sequence' <= subs'[t].last
                 /\ \A n \in 1 .. Len(stack') : stack'[n].kind = "drain" =>
                      IF stack'[n].event = 0 THEN sequence' - 1 <= subs'[t].last
                      ELSE /\ stack'[n].event - 1 <= subs'[t].last
                           /\ t <= stack'[n].visited => stack'[n].event <= subs'[t].last
      <3>1. subs'[t] = subs[t] /\ sequence' = sequence
        BY <2>2
      <3> QED BY <1>15, <1>18, <2>3, <3>1
    <2> QED BY <2>1, <2>4 DEF LiveRight
  <1> QED BY <1>19, <1>20, <1>21, <1>22, <1>23, <1>25, <1>26, <1>27, <1>28, <1>29 DEF IInv

\* subscribe() keeps the invariant.
LEMMA SubscribeKeeps ==
  ASSUME IInv, NEW after \in 0 .. MaxEvents, Subscribe(after)
  PROVE  IInv'
  <1> DEFINE s == Len(subs) + 1
             missed == Retained > 0 /\ after < History(0) - 1
             f == [kind |-> "replay", sub |-> s, index |-> 0]
             r == [closed |-> FALSE, replaying |-> TRUE, pending |-> {}, after |-> after,
                   boundary |-> sequence, last |-> after,
                   gap |-> IF missed THEN History(0) - 1 ELSE 0]
             tail == IF missed THEN <<Calling(s)>> ELSE <<>>
  <1>1. TypeOK
    BY DEF IInv
  <1>2. /\ InCaller /\ Len(subs) < MaxSubs /\ after <= sequence
        /\ subs' = Append(subs, r) /\ got' = Append(got, <<>>)
        /\ stack' = stack \o <<f>> \o tail
        /\ UNCHANGED <<sequence, undelivered>>
    BY DEF Subscribe
  <1>3. /\ subs \in Seq(Subscription) /\ got \in Seq(Seq(Events)) /\ stack \in Seq(Frames)
        /\ Len(got) = Len(subs) /\ Len(subs) \in Nat /\ Len(stack) \in Nat /\ Subs = 1 .. Len(subs)
        /\ sequence \in 0 .. MaxEvents
    BY <1>1 DEF TypeOK, Subs
  <1>4. /\ sequence \in Nat /\ MaxSubs \in Nat /\ MaxEvents \in Nat /\ ReplayLimit \in Nat
        /\ Retained \in Nat /\ Retained <= sequence /\ sequence <= MaxEvents
    BY <1>1, Numbers
  <1>5. r \in Subscription /\ ~r.closed /\ r.replaying /\ r.pending = {} /\ r.boundary = sequence
        /\ r.last = after
    <2>1. (IF missed THEN History(0) - 1 ELSE 0) \in 0 .. MaxEvents
      BY <1>4 DEF History
    <2> QED BY <1>3, <2>1 DEF Subscription
  <1>6. f \in Frames /\ f.kind = "replay" /\ f.sub = s /\ f.index = 0
    BY <1>2, <1>3, <1>4 DEF Frames
  <1>7. Calling(s) \in Frames
    BY <1>2, <1>3, <1>4 DEF Calling, Frames
  <1> HIDE DEF f, r
  <1>8. /\ subs' \in Seq(Subscription) /\ Len(subs') = s /\ subs'[s] = r
        /\ \A t \in Subs : subs'[t] = subs[t]
    BY <1>2, <1>3, <1>5
  <1>9. /\ got' \in Seq(Seq(Events)) /\ Len(got') = s /\ got'[s] = <<>>
        /\ \A t \in Subs : got'[t] = got[t]
    <2>1. <<>> \in Seq(Events)
      OBVIOUS
    <2>2. got' = Append(got, <<>>) /\ got \in Seq(Seq(Events)) /\ Len(got) = Len(subs)
      BY <1>2, <1>3
    <2>3. ASSUME NEW e \in Seq(Events)
          PROVE  /\ Append(got, e) \in Seq(Seq(Events)) /\ Len(Append(got, e)) = Len(got) + 1
                 /\ Append(got, e)[Len(got) + 1] = e
                 /\ \A t \in 1 .. Len(got) : Append(got, e)[t] = got[t]
      BY <2>2
    <2> QED BY <1>3, <2>1, <2>2, <2>3, Zenon
  <1>10. /\ stack' \in Seq(Frames)
         /\ Len(stack') = Len(stack) + 1 \/ Len(stack') = Len(stack) + 2
         /\ stack'[Len(stack) + 1] = f
         /\ Len(stack') = Len(stack) + 2 => stack'[Len(stack) + 2] = Calling(s)
         /\ \A n \in 1 .. Len(stack) : stack'[n] = stack[n]
    <2>1. ASSUME NEW p \in Seq(Frames), NEW x \in Frames, NEW y \in Frames
          PROVE  /\ p \o <<x>> \o <<y>> \in Seq(Frames) /\ Len(p \o <<x>> \o <<y>>) = Len(p) + 2
                 /\ (p \o <<x>> \o <<y>>)[Len(p) + 1] = x /\ (p \o <<x>> \o <<y>>)[Len(p) + 2] = y
                 /\ \A n \in 1 .. Len(p) : (p \o <<x>> \o <<y>>)[n] = p[n]
      OBVIOUS
    <2>2. ASSUME NEW p \in Seq(Frames), NEW x \in Frames
          PROVE  /\ p \o <<x>> \o <<>> \in Seq(Frames) /\ Len(p \o <<x>> \o <<>>) = Len(p) + 1
                 /\ (p \o <<x>> \o <<>>)[Len(p) + 1] = x
                 /\ \A n \in 1 .. Len(p) : (p \o <<x>> \o <<>>)[n] = p[n]
      OBVIOUS
    <2>3. CASE missed
      <3>1. stack' = stack \o <<f>> \o <<Calling(s)>>
        BY <1>2, <2>3
      <3>2. stack \in Seq(Frames) /\ f \in Frames /\ Calling(s) \in Frames
        BY <1>3, <1>6, <1>7
      <3>3. /\ stack' \in Seq(Frames) /\ Len(stack') = Len(stack) + 2
            /\ stack'[Len(stack) + 1] = f /\ stack'[Len(stack) + 2] = Calling(s)
            /\ \A n \in 1 .. Len(stack) : stack'[n] = stack[n]
        <4> DEFINE p == stack \o <<f>> \o <<Calling(s)>>
        <4>1. /\ p \in Seq(Frames) /\ Len(p) = Len(stack) + 2
              /\ p[Len(stack) + 1] = f /\ p[Len(stack) + 2] = Calling(s)
              /\ \A n \in 1 .. Len(stack) : p[n] = stack[n]
          BY <2>1, <3>2
        <4>2. stack' = p
          BY <3>1
        <4> HIDE DEF p
        <4> QED BY <4>1, <4>2
      <3> QED BY <3>3
    <2>4. CASE ~missed
      <3>1. stack' = stack \o <<f>> \o <<>>
        BY <1>2, <2>4
      <3>2. stack \in Seq(Frames) /\ f \in Frames /\ Calling(s) \in Frames
        BY <1>3, <1>6, <1>7
      <3>3. /\ stack' \in Seq(Frames) /\ Len(stack') = Len(stack) + 1
            /\ stack'[Len(stack) + 1] = f
            /\ \A n \in 1 .. Len(stack) : stack'[n] = stack[n]
        BY <2>2, <3>1, <3>2, Zenon
      <3> QED BY <3>3
    <2> QED BY <2>3, <2>4
  <1>11. Adds(r) /\ Begins(f)
    BY <1>8, <1>9, <1>10 DEF Adds, Begins
  <1> HIDE DEF tail, missed
  <1> QED BY <1>2, <1>5, <1>6, <1>11, SubscribedKeeps

----------------------------------------------------------------------------
(* The invariant *)

\* The initial state satisfies the invariant.
LEMMA Initially ==
  ASSUME Init
  PROVE  IInv
  <1>1. sequence = 0 /\ undelivered = {} /\ subs = <<>> /\ stack = <<>> /\ got = <<>>
    BY DEF Init
  <1>2. Subs = {} /\ ~Dispatching /\ 1 .. Len(stack) = {} /\ 1 .. Len(stack) - 1 = {}
    BY <1>1 DEF Subs, Dispatching
  <1>3. TypeOK
    BY <1>1, <1>2, BoundsAssumption DEF TypeOK
  <1>4. Nested /\ Called /\ Replayed /\ Dispatched
    BY <1>1, <1>2 DEF Nested, Called, Replayed, Dispatched
  <1>5. Queues /\ ReplayRight /\ LiveRight /\ Ordered /\ LiveNeverMissed
    BY <1>1, <1>2 DEF Queues, ReplayRight, LiveRight, Open, Ordered, LiveNeverMissed
  <1> QED BY <1>3, <1>4, <1>5 DEF IInv

\* Every step keeps the invariant.
LEMMA StepKeeps ==
  ASSUME IInv, [Next]_vars
  PROVE  IInv'
  <1>1. CASE Next
    <2>1. ASSUME NEW after \in 0 .. MaxEvents, Subscribe(after) PROVE IInv'
      BY <2>1, SubscribeKeeps
    <2>2. ASSUME NEW s \in Subs, Unsubscribe(s) PROVE IInv'
      BY <2>2, UnsubscribeKeeps
    <2> QED BY <1>1, <2>1, <2>2, PublishKeeps, DrainKeeps, ReplayKeeps, ReturnKeeps,
               ThrowKeeps DEF Next
  <1>2. CASE UNCHANGED vars
    <2>1. UNCHANGED <<sequence, undelivered, subs, stack, got>>
      BY <1>2 DEF vars
    <2>2. (TypeOK /\ Nested /\ Called /\ Replayed)' <=> TypeOK /\ Nested /\ Called /\ Replayed
      BY <2>1 DEF TypeOK, Nested, Called, Replayed, Subs
    <2>3. (Dispatched /\ Queues)' <=> Dispatched /\ Queues
      BY <2>1 DEF Dispatched, Queues, Subs, Dispatching
    <2>4. (ReplayRight /\ LiveRight)' <=> ReplayRight /\ LiveRight
      BY <2>1 DEF ReplayRight, LiveRight, Subs, Open, Replaying, Dispatching, Retained
    <2>5. (Ordered /\ LiveNeverMissed)' <=> Ordered /\ LiveNeverMissed
      BY <2>1 DEF Ordered, LiveNeverMissed, Subs
    <2> QED BY <2>2, <2>3, <2>4, <2>5 DEF IInv
  <1> QED BY <1>1, <1>2

\* The invariant holds in every state.
THEOREM Invariance == Spec => []IInv
  <1>1. Init => IInv
    BY Initially
  <1>2. IInv /\ [Next]_vars => IInv'
    BY StepKeeps
  <1> QED BY <1>1, <1>2, PTL DEF Spec

\* A listener that runs was called by the loop below it: the dispatch, of which
\* there is one, or the replay of its subscription, and it is not both.
LEMMA Alone ==
  ASSUME IInv
  PROVE  NeverReentered
  <1>1. /\ Nested /\ Called /\ Len(stack) \in Nat /\ DOMAIN stack = 1 .. Len(stack)
        /\ \A n \in 1 .. Len(stack) : stack[n] \in Frames
    BY DEF IInv, TypeOK
  <1>2. ASSUME NEW n \in 1 .. Len(stack), stack[n].kind = "listener"
        PROVE  /\ n - 1 \in 1 .. Len(stack) /\ stack[n].sub \in Subs
               /\ \/ stack[n - 1].kind = "replay" /\ stack[n - 1].sub = stack[n].sub
                     /\ subs[stack[n].sub].replaying
                  \/ stack[n - 1].kind = "drain" /\ ~subs[stack[n].sub].replaying
    <2>1. n # 1
      <3>1. stack # <<>>
        OBVIOUS
      <3> QED BY <1>1, <1>2, <3>1 DEF Nested
    <2>2. n - 1 \in 1 .. Len(stack) - 1 /\ n - 1 \in 1 .. Len(stack) /\ (n - 1) + 1 = n
      BY <1>1, <2>1
    <2>3. stack[n - 1].kind # "listener"
      BY <1>1, <1>2, <2>2 DEF Nested
    <2>4. stack[n - 1].kind \in {"drain", "replay", "listener"}
      BY <1>1, <2>2, FrameKinds
    <2>5. IF stack[n - 1].kind = "replay" THEN stack[n].sub = stack[n - 1].sub
          ELSE ~subs[stack[n].sub].replaying
      BY <1>1, <1>2, <2>2 DEF Called
    <2> QED BY <1>1, <1>2, <2>2, <2>3, <2>4, <2>5 DEF Called
  <1>3. ASSUME NEW m \in 1 .. Len(stack), NEW n \in 1 .. Len(stack),
               stack[m].kind = "listener", stack[n].kind = "listener", stack[m].sub = stack[n].sub
        PROVE  m = n
    <2>1. m - 1 = n - 1
      BY <1>1, <1>2, <1>3 DEF Nested
    <2> QED BY <2>1
  <1> QED BY <1>3 DEF NeverReentered

\* At rest no loop runs, so nothing is left to dispatch and nothing replays.
LEMMA AtRest ==
  ASSUME IInv
  PROVE  CaughtUp
  <1>1. SUFFICES ASSUME stack = <<>>
                 PROVE  undelivered = {} /\ \A s \in Open : subs[s].last = sequence
    BY DEF CaughtUp
  <1>2. ~Dispatching /\ 1 .. Len(stack) = {}
    BY <1>1 DEF Dispatching
  <1>3. undelivered = {}
    BY <1>2 DEF IInv, Dispatched
  <1>4. ASSUME NEW s \in Open
        PROVE  subs[s].last = sequence
    <2>1. s \in Subs /\ subs[s] \in Subscription /\ TypeOK
      BY DEF IInv, TypeOK, Open, Subs
    <2>2. s \in Open \ Replaying
      BY <1>2, <2>1 DEF IInv, Replayed, Replaying
    <2>3. sequence <= subs[s].last /\ subs[s].last <= sequence
      BY <1>2, <2>1, <2>2 DEF IInv, LiveRight, Queues
    <2>4. sequence \in Nat /\ subs[s].last \in Nat
      BY <2>1, Numbers DEF Subscription
    <2> QED BY <2>3, <2>4
  <1> QED BY <1>3, <1>4

----------------------------------------------------------------------------
(* Theorems *)

\* The state is well typed, and only a subscription that replays or is closed has
\* a queue.
THEOREM TypeCorrect == Spec => []TypeOK
  <1>1. IInv => TypeOK
    BY DEF IInv
  <1> QED BY <1>1, Invariance, PTL

\* No listener is called while it runs.
THEOREM ListenersNeverReentered == Spec => []NeverReentered
  <1>1. IInv => NeverReentered
    BY Alone
  <1> QED BY <1>1, Invariance, PTL

\* Each listener has each event at most once, in order.
THEOREM DeliveryOrdered == Spec => []Ordered
  <1>1. IInv => Ordered
    BY DEF IInv
  <1> QED BY <1>1, Invariance, PTL

\* At rest, every open subscription has been given the newest event.
THEOREM EveryoneCaughtUp == Spec => []CaughtUp
  <1>1. IInv => CaughtUp
    BY AtRest
  <1> QED BY <1>1, Invariance, PTL

\* A subscription has every event published since it was made, up to its last one.
THEOREM LiveEventsNeverMissed == Spec => []LiveNeverMissed
  <1>1. IInv => LiveNeverMissed
    BY DEF IInv
  <1> QED BY <1>1, Invariance, PTL

=============================================================================
