------------------------------- MODULE Scheduler -------------------------------
(***************************************************************************)
(* The parent thread's request scheduler (runtime/request/scheduler.mjs):  *)
(* a FIFO queue, a table of the requests the worker is running, a counter  *)
(* that bounds them, and the promises of callers waiting for it to be idle.*)
(*                                                                         *)
(* JavaScript runs every operation to completion, so each is one action.   *)
(* The exception is drain(), which defers its loop to a microtask: `drain` *)
(* says whether such a task is queued, and an iteration of the loop is an  *)
(* action during which nothing else runs.  One flag stands for any number  *)
(* of queued tasks: each operation that enables a dispatch queues a task   *)
(* itself, so a second task only repeats the test the first one made.      *)
(*                                                                         *)
(* createRequest() numbers a request and enqueue() appends it in one go,   *)
(* so the array `queue` is always in the order of the ids: it is the set   *)
(* of its ids here, and shift() takes the least.  The order in which a     *)
(* batch is cancelled is left open.                                        *)
(***************************************************************************)
EXTENDS Naturals, FiniteSets

CONSTANTS
  MaxRequests,  \* bound: how many requests are ever created
  MaxInFlight,  \* config.runtime.maxInFlight
  Sessions,     \* the session names callers use
  NoSession,    \* the session of a request that does not exist yet
  Waiters       \* the calls of waitForIdle()

Requests == 1..MaxRequests

ASSUME MaxRequestsAssumption == MaxRequests \in Nat
ASSUME MaxInFlightAssumption == MaxInFlight \in Nat \ {0}
ASSUME NoSessionAssumption == NoSession \notin Sessions

VARIABLES
  ready,     \* the worker's model is loaded: dispatching is allowed
  inFlight,  \* the counter of dispatched requests
  queue,     \* the requests that wait
  pending,   \* the requests the worker is running
  status,    \* req.status of every request ("new": not created yet)
  session,   \* req.sessionId of every request
  drain,     \* "none", "queued": the microtask waits, "running": in its loop
  idle       \* of each call of waitForIdle(): "none", "parked" or "resolved"

schedVars == <<ready, inFlight, queue, pending, status, session, drain, idle>>

Statuses == {"new", "queued", "running", "done", "error", "canceled"}

SchedInit ==
  /\ ready = FALSE
  /\ inFlight = 0
  /\ queue = {}
  /\ pending = {}
  /\ status = [r \in Requests |-> "new"]
  /\ session = [r \in Requests |-> NoSession]
  /\ drain = "none"
  /\ idle = [w \in Waiters |-> "none"]

With(s) == {r \in Requests : status[r] = s}

\* A task has started that has not ended: no other code runs.
Busy == drain = "running"

\* isIdle()
IsIdle == queue = {} /\ pending = {} /\ inFlight = 0

\* Mutant: the counter falls by one however many requests left the table.
ReleasedOnce(k) == IF inFlight < 1 THEN 0 ELSE inFlight - 1

\* The counter after k requests left the table: Math.max(0, inFlight - 1), once
\* for each.
Released(k) == IF inFlight < k THEN 0 ELSE inFlight - k

RequestDrain == drain' = "queued"

\* notifyIdleWaiters(): once the queue and the table have their new values,
\* every parked waiter is resolved if they left nothing to wait for.
NotifyIdleWaiters ==
  idle' = [w \in Waiters |->
             IF idle[w] = "parked" /\ IsIdle' THEN "resolved" ELSE idle[w]]

\* Requests R get status s.
SetStatus(R, s) ==
  status' = [r \in Requests |-> IF r \in R THEN s ELSE status[r]]

--------------------------------------------------------------------------------
\* Mutant: the model becomes ready and nobody asks for a drain.
SetReadyQuietly(value) ==
  /\ ready' = value
  /\ UNCHANGED <<inFlight, queue, pending, status, session, drain, idle>>

\* setReady(value)
SetReady(value) ==
  /\ ready' = value
  /\ IF value THEN RequestDrain ELSE UNCHANGED drain
  /\ UNCHANGED <<inFlight, queue, pending, status, session, idle>>

\* createRequest(text, {sessionId: s}) and enqueue(req)
Enqueue(r, s) ==
  /\ status[r] = "new"
  /\ \A q \in With("new") : r <= q
  /\ SetStatus({r}, "queued")
  /\ session' = [session EXCEPT ![r] = s]
  /\ queue' = queue \union {r}
  /\ RequestDrain
  /\ UNCHANGED <<ready, inFlight, pending, idle>>

\* Mutant: one request too many.
CanShiftPastLimit == ready /\ inFlight <= MaxInFlight /\ queue # {}

\* The condition of drain()'s loop
CanShift == ready /\ inFlight < MaxInFlight /\ queue # {}

\* Mutant: the request that joined the queue last goes first.
DrainShiftNewest(r) ==
  /\ drain # "none"
  /\ CanShift
  /\ r \in queue /\ \A q \in queue : r >= q
  /\ drain' = "running"
  /\ queue' = queue \ {r}
  /\ SetStatus({r}, "running")
  /\ pending' = pending \union {r}
  /\ inFlight' = inFlight + 1
  /\ UNCHANGED <<ready, session, idle>>

\* An iteration of the loop: the head leaves the queue and, unless it has been
\* cancelled meanwhile, goes to the worker.
DrainShift(r) ==
  /\ drain # "none"
  /\ CanShift
  /\ r \in queue /\ \A q \in queue : r <= q
  /\ drain' = "running"
  /\ queue' = queue \ {r}
  /\ IF status[r] = "canceled"
     THEN UNCHANGED <<inFlight, pending, status>>
     ELSE /\ SetStatus({r}, "running")
          /\ pending' = pending \union {r}
          /\ inFlight' = inFlight + 1
  /\ UNCHANGED <<ready, session, idle>>

\* The loop's condition is false: the microtask ends.
DrainEnd ==
  /\ drain # "none"
  /\ ~CanShift
  /\ drain' = "none"
  /\ UNCHANGED <<ready, inFlight, queue, pending, status, session, idle>>

\* Mutant: nobody looks for the next request when one leaves the table.
LeaveWithoutDrain(r, end) ==
  /\ r \in pending
  /\ pending' = pending \ {r}
  /\ inFlight' = Released(1)
  /\ SetStatus({r}, end)
  /\ UNCHANGED <<ready, queue, session, drain>>
  /\ NotifyIdleWaiters

\* What complete(), fail() and cancel() do to a request of the table.
Leave(r, end) ==
  /\ r \in pending
  /\ pending' = pending \ {r}
  /\ inFlight' = Released(1)
  /\ SetStatus({r}, end)
  /\ RequestDrain
  /\ UNCHANGED <<ready, queue, session>>
  /\ NotifyIdleWaiters

\* complete(id); an id that is not in the table changes nothing.
Complete(r) == Leave(r, "done")

\* fail(id), with the same early return
Fail(r) == Leave(r, "error")

\* Mutant: cancelling the last queued request wakes no waiter.
CancelQueuedQuietly(r) ==
  /\ r \in queue
  /\ queue' = queue \ {r}
  /\ SetStatus({r}, "canceled")
  /\ UNCHANGED <<ready, inFlight, pending, session, drain, idle>>

\* cancel(id) of a request that is still in the queue
CancelQueued(r) ==
  /\ r \in queue
  /\ queue' = queue \ {r}
  /\ SetStatus({r}, "canceled")
  /\ UNCHANGED <<ready, inFlight, pending, session, drain>>
  /\ NotifyIdleWaiters

\* cancel(id) of a request that the worker has
CancelRunning(r) ==
  /\ r \notin queue
  /\ Leave(r, "canceled")

\* cancelAll(), and setReady(false) before it when value is FALSE: its callers
\* do both in one go.  It asks for no drain.
CancelAllWith(value) ==
  /\ SetStatus(queue \union pending, "canceled")
  /\ queue' = {}
  /\ pending' = {}
  /\ inFlight' = 0
  /\ ready' = value
  /\ UNCHANGED <<session, drain>>
  /\ NotifyIdleWaiters

CancelAll == CancelAllWith(ready) \/ CancelAllWith(FALSE)

OfSession(s) == {r \in Requests : session[r] = s}

\* cancelBySession(sessionId)
CancelBySession(s) ==
  /\ SetStatus((queue \union pending) \intersect OfSession(s), "canceled")
  /\ queue' = queue \ OfSession(s)
  /\ pending' = pending \ OfSession(s)
  /\ inFlight' = Released(Cardinality(pending \intersect OfSession(s)))
  /\ RequestDrain
  /\ UNCHANGED <<ready, session>>
  /\ NotifyIdleWaiters

\* waitForIdle()
WaitForIdle(w) ==
  /\ idle[w] = "none"
  /\ idle' = [idle EXCEPT ![w] = IF IsIdle THEN "resolved" ELSE "parked"]
  /\ UNCHANGED <<ready, inFlight, queue, pending, status, session, drain>>

--------------------------------------------------------------------------------
(* The scheduler on its own: its callers use it in any order they like.    *)

Call ==
  \/ \E value \in BOOLEAN : SetReady(value)
  \/ \E r \in Requests, s \in Sessions : Enqueue(r, s)
  \/ \E r \in Requests : Complete(r)
  \/ \E r \in Requests : Fail(r)
  \/ \E r \in Requests : CancelQueued(r)
  \/ \E r \in Requests : CancelRunning(r)
  \/ CancelAll
  \/ \E s \in Sessions : CancelBySession(s)
  \/ \E w \in Waiters : WaitForIdle(w)

DrainStep == (\E r \in Requests : DrainShift(r)) \/ DrainEnd

SchedNext == (~Busy /\ Call) \/ DrainStep

SchedSpec == SchedInit /\ [][SchedNext]_schedVars

\* The event loop runs a queued microtask, and the worker answers each prompt
\* it was given (the assumption the scheduler's users make of it).  Microtasks
\* come between the deliveries of messages, so the second part is strong.
SchedFairness ==
  /\ WF_schedVars(DrainStep)
  /\ \A r \in Requests : SF_schedVars(~Busy /\ (Complete(r) \/ Fail(r)))

FairSchedSpec == SchedSpec /\ SchedFairness

--------------------------------------------------------------------------------
(* Safety                                                                  *)

\* The types; the counter never exceeds config.runtime.maxInFlight.
SchedTypeOK ==
  /\ ready \in BOOLEAN
  /\ inFlight \in 0..MaxInFlight
  /\ queue \subseteq Requests
  /\ pending \subseteq Requests
  /\ status \in [Requests -> Statuses]
  /\ session \in [Requests -> Sessions \union {NoSession}]
  /\ drain \in {"none", "queued", "running"}
  /\ idle \in [Waiters -> {"none", "parked", "resolved"}]

\* The counter, the queue, the table and req.status are four records of the same
\* thing, kept by hand in eight places: they agree between any two operations.
\* Without it a slot is lost for good (or dispatching exceeds its limit), and a
\* request is cancelled that drain() sends to the worker all the same.
BooksAgree ==
  /\ inFlight = Cardinality(pending)
  /\ queue = With("queued")
  /\ pending = With("running")

\* Nobody waits for an idle scheduler: each operation that takes the last request
\* out must wake waitForIdle()'s callers, or a drain shutdown never ends.
NoLostIdleWakeup == \A w \in Waiters : idle[w] = "parked" => ~IsIdle

\* Whenever a request could be dispatched a microtask is queued that will look:
\* each operation that frees a slot, adds a request or makes the model ready must
\* ask for a drain, or the queue stands still until the next prompt.
NoStalledDispatch == CanShift => drain # "none"

\* The scheduler implements the life of a request that its users rely on.
Life == INSTANCE RequestLifecycle WITH state <- status
ImplementsRequestLifecycle == Life!Spec

--------------------------------------------------------------------------------
(* Liveness                                                                *)

\* Once the model stays ready and the worker answers, no prompt waits for ever:
\* its turn comes, or it is cancelled.
QueuedRequestsMoveOn ==
  \A r \in Requests : (<>[]ready) => (status[r] = "queued" ~> status[r] # "queued")
================================================================================
