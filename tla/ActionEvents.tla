------------------------------ MODULE ActionEvents ------------------------------
(***************************************************************************)
(* The events of actions: the bounded history that gives every recorded    *)
(* event its sequence number (actionEventHistory.mjs), the subscriptions   *)
(* it is published to (actionEventSubscriptionRegistry.mjs), the replay of *)
(* retained events to a new subscriber (actionEventReplay.mjs) and the     *)
(* pages a reader asks for with its cursor.                                *)
(*                                                                         *)
(* Publishing calls the listeners one after another; what a listener calls *)
(* meanwhile (subscribe, unsubscribe, read) happens between two of them.   *)
(* Nothing a listener can call publishes before it returns, so there is    *)
(* one publication at a time, and the buffer in which a replay keeps live  *)
(* events stays empty: a replay is one step.                               *)
(***************************************************************************)
EXTENDS Naturals, SequencesExt, FiniteSetsExt

CONSTANTS
  Actions,      \* action ids
  MaxListeners, \* bound: callers of subscribeActionEvents() and readActionEvents()
  MaxEvents,    \* events the history retains
  Asks,         \* what they ask for: a filter, deltas or not, and a limit
  NoLimit,      \* no limit is given
  AnyField      \* a field that a filter leaves out

ASSUME EventsAssumption ==
  /\ MaxListeners \in Nat
  /\ MaxEvents \in Nat \ {0}
  /\ NoLimit \notin Nat
  /\ AnyField \notin Actions

DurableTypes == {"accepted", "started", "completed", "failed", "cancelled", "timeout", "policyDenied"}
DeltaType == "stream.delta"
Types == DurableTypes \union {DeltaType}

ASSUME AsksAssumption ==
  \A ask \in Asks :
    /\ ask.action \in Actions \union {AnyField} /\ ask.type \in Types \union {AnyField}
    /\ ask.deltas \in BOOLEAN /\ ask.limit \in {NoLimit} \union (Nat \ {0})

\* They are numbered in the order in which they come.
Listeners == 1..MaxListeners

VARIABLES
  history,       \* retained events, oldest first
  nextSequence,
  subscriptions, \* listeners that are subscribed, oldest first
  delivering,    \* listeners that the publication under way has yet to reach
  options,       \* of each listener: what it asked for, and when
  feed,          \* auxiliary: every event ever published
  seen           \* auxiliary: the events each listener was given

eventVars == <<history, nextSequence, subscriptions, delivering, options, feed, seen>>

EventRecords ==
  [id: Actions \X Types \X Nat, action: Actions, type: Types, sequence: Nat]

Last0(s) == IF s = <<>> THEN 0 ELSE Last(s).sequence

\* What filter() leaves of a sequence: its members that are in S, in their order.
Only(s, S) ==
  LET only[i \in 0..Len(s)] ==
        IF i = 0 THEN <<>>
        ELSE IF s[i] \in S THEN Append(only[i - 1], s[i]) ELSE only[i - 1]
  IN  only[Len(s)]

NewOptions ==
  [mode |-> "none", from |-> 0, evicted |-> 0,
   ask |-> [action |-> AnyField, type |-> AnyField, deltas |-> FALSE, limit |-> NoLimit]]

EventsInit ==
  /\ history = <<>>
  /\ nextSequence = 1
  /\ subscriptions = <<>>
  /\ delivering = <<>>
  /\ options = [l \in Listeners |-> NewOptions]
  /\ feed = <<>>
  /\ seen = [l \in Listeners |-> <<>>]

\* No listener is being called: the thread may go on with something else.
Idle == delivering = <<>>

--------------------------------------------------------------------------------
(* The history. *)

RetainedIds == {e.id : e \in ToSet(history)}

EvictOverflowLate(events) ==
  IF Len(events) > MaxEvents + 1 THEN SubSeq(events, Len(events) - MaxEvents, Len(events)) ELSE events

EvictOverflow(events) ==
  IF Len(events) > MaxEvents THEN SubSeq(events, 1 + Len(events) - MaxEvents, Len(events)) ELSE events

\* An event whose id is retained is not recorded: recordActionEvent() throws.
RecordActionEvent(event) ==
  /\ event.id \notin RetainedIds
  /\ history' = EvictOverflow(Append(history, [event EXCEPT !.sequence = nextSequence]))
  /\ nextSequence' = nextSequence + 1

FieldsMatch(event, ask) ==
  /\ ask.action \in {AnyField, event.action}
  /\ ask.type \in {AnyField, event.type}

LimitedToLast(events, limit) ==
  IF limit = NoLimit \/ limit >= Len(events) THEN events ELSE SubSeq(events, 1 + Len(events) - limit, Len(events))

Limited(events, limit) ==
  IF limit = NoLimit \/ limit >= Len(events) THEN events ELSE SubSeq(events, 1, limit)

Asked(ask, after) == {e \in EventRecords : FieldsMatch(e, ask) /\ e.sequence > after}

ReadHistory(ask, after) == Limited(Only(history, Asked(ask, after)), ask.limit)

--------------------------------------------------------------------------------
(* Publication. *)

Matches(l, event) ==
  /\ event.type = DeltaType => options[l].ask.deltas
  /\ FieldsMatch(event, options[l].ask)

\* The listeners that publishActionEvent() will call are those of this moment.
PublishActionEvent(event) ==
  /\ Idle
  /\ delivering' = subscriptions
  /\ feed' = Append(feed, event)
  /\ UNCHANGED <<subscriptions, options, seen>>

\* The next listener is called, unless it has unsubscribed meanwhile.
Deliver ==
  /\ ~Idle
  /\ LET l == Head(delivering)
     IN  seen' = IF l \in ToSet(subscriptions) /\ Matches(l, Last(feed))
                   THEN [seen EXCEPT ![l] = Append(@, Last(feed))]
                   ELSE seen
  /\ delivering' = Tail(delivering)
  /\ UNCHANGED <<history, nextSequence, subscriptions, options, feed>>

\* publishRuntimeActionEvent(): recorded, handed on, published. What throws
\* on the way ends it, and its caller ignores that.
PublishRecorded(event) ==
  \/ /\ RecordActionEvent(event)
     /\ PublishActionEvent([event EXCEPT !.sequence = nextSequence])
  \/ /\ Idle
     /\ event.id \in RetainedIds
     /\ UNCHANGED eventVars

\* publishRuntimeLiveActionEvent(): the event has no sequence number.
PublishLive(event) ==
  /\ PublishActionEvent(event)
  /\ UNCHANGED <<history, nextSequence>>

--------------------------------------------------------------------------------
(* What callers do, at any time and from a listener too. *)

Joins(l, mode, ask) ==
  /\ options[l].mode = "none"
  /\ \A k \in 1..(l - 1) : options[k].mode # "none"
  /\ options' = [options EXCEPT ![l] =
       [mode |-> mode, ask |-> ask, from |-> Len(feed), evicted |-> nextSequence - 1 - Len(history)]]

Subscribe(l) ==
  /\ \E ask \in Asks : Joins(l, "live", ask)
  /\ subscriptions' = Append(subscriptions, l)
  /\ UNCHANGED <<history, nextSequence, delivering, feed, seen>>

SubscribeReplayToPublication(l) ==
  /\ \E ask \in Asks :
       /\ Joins(l, "replay", ask)
       /\ seen' = [seen EXCEPT ![l] = ReadHistory(ask, 0)]
  /\ subscriptions' = Append(subscriptions, l)
  /\ delivering' = IF Idle THEN <<>> ELSE Append(delivering, l)
  /\ UNCHANGED <<history, nextSequence, feed>>

\* Subscribed first, and then given what is retained.
SubscribeReplay(l) ==
  /\ \E ask \in Asks :
       /\ Joins(l, "replay", ask)
       /\ seen' = [seen EXCEPT ![l] = ReadHistory(ask, 0)]
  /\ subscriptions' = Append(subscriptions, l)
  /\ UNCHANGED <<history, nextSequence, delivering, feed>>

Unsubscribe(l) ==
  /\ l \in ToSet(subscriptions)
  /\ subscriptions' = Only(subscriptions, Listeners \ {l})
  /\ options' = [options EXCEPT ![l] = [NewOptions EXCEPT !.mode = "gone"]]
  /\ seen' = [seen EXCEPT ![l] = <<>>]
  /\ UNCHANGED <<history, nextSequence, delivering, feed>>

\* A reader that pages through the history with the cursor of its last page.
StartReading(l) ==
  /\ \E ask \in Asks : Joins(l, "reader", ask)
  /\ UNCHANGED <<history, nextSequence, subscriptions, delivering, feed, seen>>

ReadPage(l) ==
  /\ options[l].mode = "reader"
  /\ LET page == ReadHistory(options[l].ask, Last0(seen[l]))
     IN  /\ page # <<>>
         /\ seen' = [seen EXCEPT ![l] = @ \o page]
  /\ UNCHANGED <<history, nextSequence, subscriptions, delivering, options, feed>>

ListenerCalls ==
  \E l \in Listeners :
    Subscribe(l) \/ SubscribeReplay(l) \/ Unsubscribe(l) \/ StartReading(l) \/ ReadPage(l)

--------------------------------------------------------------------------------
(* What a listener should have been given. *)

\* The retained events of a feed: live-only ones have no sequence number.
Recorded(events) == Only(events, {e \in EventRecords : e.sequence > 0})

\* What it finds when it subscribes with replay.
Past(l) ==
  LET o == options[l]
  IN  IF o.mode = "live" THEN <<>>
      ELSE Limited(Only(SubSeq(feed, 1, o.from), Asked(o.ask, o.evicted)), o.ask.limit)

\* What is published from then on.
Coming(l) == Only(SubSeq(feed, options[l].from + 1, Len(feed)), {e \in EventRecords : Matches(l, e)})

Wanted(l) == Past(l) \o Coming(l)

\* A subscriber is given every event it asked for, in the order in which they
\* were published, none twice; the replay joins the live events without a gap
\* or a repetition; only the event being published may still be on its way.
ListenersSeeTheFeed ==
  \A l \in ToSet(subscriptions) :
    IF l \in ToSet(delivering) /\ Matches(l, Last(feed))
      THEN Wanted(l) = Append(seen[l], Last(feed))
      ELSE Wanted(l) = seen[l]

\* A reader that goes on from its cursor gets the events in order and once,
\* and what it skips is no longer retained: the history is the end of what was
\* recorded, without gaps.
ReadersMissOnlyTheEvicted ==
  \A l \in Listeners :
    options[l].mode = "reader" =>
      LET o == options[l]
          wanted == {e \in ToSet(Recorded(feed)) : FieldsMatch(e, o.ask) /\ e.sequence <= Last0(seen[l])}
      IN  /\ \A i \in 1..(Len(seen[l]) - 1) : seen[l][i].sequence < seen[l][i + 1].sequence
          /\ \A e \in wanted \ ToSet(seen[l]) : e.sequence < nextSequence - Len(history)
================================================================================
