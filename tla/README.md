# A TLA+ model of the local LLM runtime

This directory is a verification project for the runtime: TLA+ modules that model its concurrent
core and the bus of actions on top of it, TLC configurations that check them on small instances, and proofs that TLAPS checks for
every value of the constants. `PROJECT.json` maps each definition to the lines it stands for, and
lists the runs, the hazards, the findings and the theorems.

    tlc -workers 2 -config MCScheduler.cfg MCScheduler      # model-check one configuration
    tlapm SchedulerProofs.tla                               # check the proofs

- [The system](#the-system)
- [Inventory](#inventory)
- [The modules and the code](#the-modules-and-the-code)
- [Runs and bounds](#runs-and-bounds)
- [Fairness](#fairness)
- [What is proved](#what-is-proved)
- [What the checks found](#what-the-checks-found)
- [What is not modelled](#what-is-not-modelled)
- [Plan](#plan)

## The system

A Node.js program drives a local language model through node-llama-cpp. There are two threads:

- the **parent thread**: `runtime.mjs` is the composition root that wires a request scheduler,
  coordinators for init, session reset, model reset and shutdown, a stream controller, a protocol
  router for what the worker says, and a bus of actions, capabilities and events on top;
- the **worker thread** (`llama_worker/`): it loads one model, keeps one native context per session,
  and generates the answers.

They talk by `postMessage()` in both directions, first in first out, with one extra channel per
request (a `MessageChannel`) over which a cancellation can reach the worker before the messages
queued ahead of it. Nothing is persisted. Each thread is single-threaded JavaScript, so the
concurrency is that of coroutines: everything between two awaits is atomic, and whatever was read
before an await may be out of date after it.

Of about 21,800 lines of implementation, some 14,000 are contracts of the bus (`runtime/bus`,
`runtime/router`, `runtime/execution`, `runtime/backends`, `runtime/models`, `runtime/profiles`): pure
functions that validate, normalize and freeze descriptors. The hard behaviour is in the rest, and
the modules begin there; what the contracts decide is modelled with the execution of actions, whose
inputs they are.

## Inventory

| Component | State | Operations | What makes it correct |
|---|---|---|---|
| Request scheduler (`runtime/request/scheduler.mjs`) | queue, table of dispatched requests, counter, `ready`, idle waiters | enqueue, drain (a microtask), complete, fail, cancel, cancelAll, cancelBySession, waitForIdle, setReady | the records agree, the limit holds, no dispatch and no waiter is forgotten, a request ends once |
| Requests (`request.mjs`, `runtimeRequestSettlement.mjs`) | status, `done`, stream, cancel port | settle as done, error or canceled | settled once, in step with the scheduler; the cancel note goes out before the port closes |
| Prompt admission (`runtime.mjs`) | - | initModel, prompt, cancelPrompt, resetSession, resetModel, shutdownRuntime | nothing is admitted that a boundary operation under way would not know of |
| Init coordinator | the cycle: phase, attempts, barrier, who began it | begin, attempt, time out, retry, settle | one cycle at a time, every waiter is answered, `initResolved` means a model that can be used |
| Session reset coordinator | resets under way per session | reset, time out, late answer | nothing of the session survives; the session is not blocked for ever |
| Model reset coordinator | `modelResetting` | cancel all, reset, terminate, re-create, reinit | quiet while it runs; it ends; the runtime can be used after it |
| Shutdown coordinator | mode, `runtimeShuttingDown` | abort, drain, drain with a timeout | queued work is finished in a drain; the worker is gone and stays gone |
| Native operation boundary | `runtimeUnhealthy` | hard stop of an operation | the runtime refuses work once an operation hangs |
| Parent protocol router | - | ready, done, error, reset and shutdown answers, stream | an answer goes to whoever asked |
| Worker bridge (`workerBridge.mjs`) | worker, generation | spawn on demand, post, terminate, re-create | an old worker's answers reach nobody |
| Worker protocol and operation chain (`llama_worker/`) | model promise, active requests, chain of operations | init, prompt, cancel, reset_session, reset_model, shutdown | operations run one at a time, each after the prompts it aborted; prompts of a session in order |
| Worker sessions and contexts | Map of sessions, contexts, retries | getSession, evict, create, dispose, reset | no context is lost, disposed of under use, or used after it |
| Stream controller | pending batch, timer, closed | push, flush, close, cancel by the consumer | tokens once, in order, before the close |
| Action requests and execution (`runtime/bus/executeAction/`) | registry: action id to a reservation or a request | reserve, bind, cancel, release; publish the start and the outcome | an id belongs to one run at a time and is given back; a run is announced once, from its start to its end |
| Action events (`runtime/bus/actionEvent*.mjs`) | history and sequence number, subscriptions, delta indices | publish, subscribe with or without replay, unsubscribe, read | order, no gap, no repetition per subscriber; a reader misses only what was evicted |
| Event log | the adapter and its options, kept by the integration | append, settle, report | the log is handed each recorded event once, in order, whatever its adapter does |
| Contract chain (`bus`, `router`, `execution`, `backends`) | none | eleven stages, each with a validator and a check against the stage before | what reaches the worker is coherent, whatever a caller has done to the descriptors between two stages |
| Outcomes | none | what is made of the end of a request | the event published for it fits its end |
| Retry profiles, model and hardware profiles | none | pure functions | results agree with their inputs |

Interactions. `prompt()` waits for the init barrier, then enqueues; the scheduler's drain posts to
the worker; the router calls `complete`/`fail` with what comes back, and those drain again. Session
reset, model reset and shutdown cancel in the scheduler first, then ask the worker (or terminate it)
and wait for its answer with a time limit. `cancelPrompt()` ends the request on the parent's side at
once and tells the worker, which answers an aborted prompt with nothing at all. `executeAction()`
takes an action through the chain of contracts or takes over a descriptor the caller has prepared,
reserves its id, has the native-worker adapter ask `prompt()` for a request, binds the id to it and
publishes `started`; the tokens of the request are published as deltas, its end as an outcome, and
then the id is free again. What is published reaches the history, the listeners and the log.

The hard behaviour: prompts that wait across a reset; a cycle of attempts whose barrier is replaced
under its waiters; late answers of a thread that has been terminated; errors without an id that are
attributed to whoever waits; drain shutdowns; in the worker every await between looking at the
Map of sessions and acting on what was seen; and in the bus listeners that subscribe, leave and run
actions while an event is being delivered, and descriptors that change hands half made. The hazards
in `PROJECT.json` name the lines.

## The modules and the code

| Module | Stands for | Uses |
|---|---|---|
| `RequestLifecycle` | what the scheduler promises of each request: started in the order of acceptance, no more than `maxInFlight` at once, ended once | - |
| `Scheduler` | `runtime/request/scheduler.mjs` | implements `RequestLifecycle` |
| `SchedulerProofs` | the theorems about `Scheduler` | `Scheduler`, TLAPS |
| `WorkerThread` | `workerBridge.mjs`, and `llama_worker/` as the parent can tell | `Scheduler` |
| `RuntimeLifecycle` | `runtime.mjs` and `runtime/lifecycle/` | `WorkerThread` |
| `RuntimeProofs` | the theorems about `RuntimeLifecycle` | `RuntimeLifecycle`, `SchedulerProofs` |
| `CancelProofs` | a theorem about the two threads of `RuntimeLifecycle` | `RuntimeProofs` |
| `ChannelProofs` | the theorems about what is on its way between the two threads | `CancelProofs` |
| `WorkerSessions` | `llama_worker/session/`, `context/`, the prompt runner and the reset of a session | - |
| `SessionProofs` | the theorems about `WorkerSessions` | `WorkerSessions`, TLAPS |
| `TokenStream` | what a streamed prompt promises: its tokens in order, once, and all of them when it is done | - |
| `StreamController` | `runtime/stream/`, with the router's `stream` message and the settlement of requests | implements `TokenStream` |
| `StreamProofs` | the theorems about `StreamController` | `StreamController`, TLAPS |
| `ActionEvents` | history, subscriptions, replay, readers and the order of delivery (`runtime/bus/actionEvent*.mjs`) | - |
| `EventLog` | `runtime/bus/actionEventLog/` | `Contracts` |
| `Contracts` | the definitions of capabilities, routes, services and adapters that are registered, and which of each are accepted | - |
| `ContractChain` | the stages from an action to the descriptor of an invocation, and which descriptor of each is accepted | `Contracts` |
| `Outcomes` | `capabilityBusExecuteActionOutcome.mjs`: the boundary, the event and the result of an end | `ContractChain` |
| `ActionDrafts` | a caller that goes through the stages by hand and changes descriptors on the way | `Outcomes` |
| `ExecuteAction` | `executeAction()` and `cancelAction()` | `ActionEvents`, `EventLog`, `ActionDrafts` |
| `ExecuteActionProofs` | the theorems about the registry and about what is accepted | `ExecuteAction`, TLAPS |
| `BusProofs` | the theorems about events, listeners, readers, the log and announcements | `ExecuteActionProofs` |
| `MCExecuteAction`, `MCScheduler`, `MCRuntimeLifecycle`, `MCWorkerSessions`, `MCStreamController` | the instances for TLC | |

**Scheduler.** Requests are numbered in the order in which they are created, so the queue is a set
whose smallest member is its head. `drain` says whether a microtask is queued or running its loop;
between the two, callers run. A turn of the loop is `DrainShift`, and nothing else runs until it is
over (`Busy`). Each exported function is an action, with the drain and the notification it ends
with. Each waiter stands for one call of `waitForIdle()`.

**WorkerThread.** Two channels of messages, the worker's model, the state of each prompt (waiting
behind its predecessors, running, aborted), and the chain of operations, of which the first may have
begun and waits for the prompts it aborted. `terminateWorker()` empties the channels: that is what
unbinding the handler of the old thread means to the parent.

**RuntimeLifecycle.** A callback of the event loop (a message, a timer, the end of `terminate()`) and
the continuation it resumes are one action, taken when no microtask is pending (`Quiet`). Calls of
the API come whenever no other code runs (`CallTime`), in particular between microtasks. Three
microtasks are actions of their own because a caller may come in between: the scheduler's drain, a
prompt that goes on after the barrier, and a shutdown that has drained. The scheduler's variables
change only through the scheduler's operations; `ImplementsScheduler` checks it.

**WorkerSessions.** The Map is a sequence in the order of insertion. A prompt goes through `waiting`,
`evicting`, `creating` and `generating`, one for each await of `runPromptTask()`, `getSession()` and
`createSessionContextWithRetry()`. A context is named after the request that created it and counts
as disposed from the call of `dispose()`, since it cannot be used from then on. Around it, the
parent is reduced to its in-flight limit and to the block of a session that is being reset.

**StreamController.** A token is a name with a length and a mark that says whether it ends a word; the
text of a request, what is held back and what has been shown are sequences of tokens. There is a
buffer for a request when something is held back. `Enqueue` is the stream of the platform: on one
that is not readable it throws, and since the callers are a timer and a message handler nobody
catches that (`crashed`). The consumer may leave its stream whenever it likes. A cancelled prompt
may still send tokens, which the router ignores.

The router's `stream` handler is two actions. `StreamMessage` looks at the status and extends
`finalText`; then the observer runs the listeners of stream deltas, synchronously
(`actionStreamDeltaEvents.mjs`, `actionEventSubscriptionRegistry.mjs`), and `ObserversReturn` pushes
the token. In between (`heard`) no message, timer or dispatch comes, but a listener may call what it
likes: requests are cancelled and streams left. What is pushed then is pushed without another look at
the status. `cut` is auxiliary: the requests that were cancelled while their token was being heard. A
request without listeners behaves as one whose listeners call nothing. For the lifecycle the handler
is no action at all, since it changes nothing there; calls from a listener are among the calls that
come when no other code runs.

**ActionEvents.** `publishActionEvent()` copies the subscriptions and calls the listeners of the copy
one by one; `delivering` is what is left of the copy, and whatever a listener may call (subscribe,
unsubscribe, read) is an action that may come between two of them. No listener can make an event
be published before it returns, so that one publication is under way at a time and the buffer of a
replay, in which live events would wait, stays empty. `feed` and `seen` are auxiliary: all that was
published, and what each listener was given. JavaScript's `filter()` is `Only(s, S)`, a recursive
function and not `SelectSeq`, so that it can be reasoned about.

**EventLog.** The integration as `createActionEventLogIntegration()` makes it of its options, and one
record for each entry it hands to the adapter, with what the adapter answers: an append result that
names the entry, another one, something thrown, or a promise that settles later.

**Contracts, ContractChain, Outcomes.** Pure operators: for each stage `XOk` says whether its
validator accepts and `X` what it returns. A descriptor is a record of the fields that some other
stage looks at; the fields that only their own validator looks at are collected in `broken`, the
names of those that are malformed. A label is malformed, a path, padded with blanks, or fine.
`Coherent` and `Planned` are the reference definitions: what should be true of an orchestration
that is run, stated without any of the stages.

**ActionDrafts.** A caller may call the stages itself, and what it is given are plain objects. A draft is
an action, a plan or an orchestration in its hands together with the registries it plans with;
`ChangeInput`, `ChangePlan` and `ChangeOrchestration` change one field of it, put a part where
another belongs, or leave out the copies. Then it goes on to the next stage or to `executeAction()`.

**ExecuteAction.** One run is one call of `executeAction()` that reserved its id. Its phases are the
awaits of `runExecuteAction()` and `runNativeWorkerBackend()`; the request it gets has its number. The
request is the subject of `RuntimeLifecycle`; here it is queued or refused, and ends with a text or
an error. `Progress` is what the run does by itself, `CancelAction` and `StreamDelta` what happens to
it.

The two worker modules overlap on purpose. `WorkerThread` has the operations and messages and no
contexts, and `WorkerSessions` has the contexts and only the operation that runs while prompts may
come: resetting the model or shutting down ends every prompt first, and the thread goes away.

## Runs and bounds

| Run | Instance | Distinct states | What it shows |
|---|---|---|---|
| `scheduler` | 4 requests, 2 in flight, 2 sessions, 1 waiter | 68,792 | every order of calls keeps the books, forgets no drain and no waiter, implements `RequestLifecycle`, and leaves no prompt waiting for ever |
| `lifecycle` | 2 sessions, 2 requests, a queue of 1, 2 attempts, one call of each kind, one fault of any kind | 576,400 | no running prompt is lost, no cancelled one is left generating, resets and shutdowns are quiet, order within a session, one init cycle, and every step is a scheduler step |
| `lifecycle_live` | 1 session, 2 requests, up to 2 failures of initialization, disciplined callers | 108,978 | every prompt call, accepted prompt, reset and shutdown comes to an end, and an initialized runtime dispatches |
| `worker_sessions` | 3 requests, 2 in flight, 2 sessions, a Map of 1 or 2, 2 profiles, 2 resets, 1 failing disposal | 130,070 | no context is disposed of under a prompt, a reset leaves nothing, everything ends; with room for all sessions no context is lost or used after its disposal |
| `streams` | 1 request, up to 5 tokens of 3 kinds, with and without batching | 25,793 | tokens are shown in order, once, before the close and after a while; an enqueue throws only when the consumer has left or a listener has cancelled the prompt on hearing of its token; the controller implements `TokenStream` |
| `action_events` | 2 action ids, 2 runs, 2 listeners, a history of 2, a draft changed twice | 263,682 | what is run is coherent whatever was done to it, an id has one run and is given back, a first run is announced from start to end, listeners see the feed, readers miss only what was evicted, the log follows |
| `late_reset_error`, `shutdown_off`, `drain_after_reset`, `use_after_evict`, `evict_lost`, `reused_id_unannounced` | as small as shows it | - | the findings below |

The bounds, and why they are enough.

- `MaxRequests` bounds how many requests are ever made. Four against two slots leaves two in the
  queue with the table full, so that order, limit and a cancellation in the middle matter. In the
  composition two requests give one ahead of another, of the same session or of two.
- `MaxQueueSize` is 1 so that `prompt()` meets a full queue, before and after waiting for the model.
- `Calls` bounds how often each operation is called. Every pair of operations overlaps with one of
  each; a second of the same kind is refused while the first is under way. Two resets of a session
  one after the other are covered by `worker_sessions`.
- `Faults` and `MaxFaults` bound failures: one of any kind in the safety run, two in the liveness
  run, where two attempts can both fail and end a cycle.
- `CancelEnded` and `ResetUnready` are about the callers: whether they cancel prompts that have
  already ended and reset what was never initialized. Both are allowed in the safety run. The
  liveness run excludes them because the findings show what follows: a reset that fails with the
  scheduler not ready, and a rejection that ends the process. It has no failing disposal, because
  a worker that fails to dispose of its model at shutdown answers with an error that the parent may
  attribute to something else.
- In the model one `prompt()` call per session may wait for initialization at a time. Each waits on
  its own and they do not interact before they are enqueued.
- `MaxCounts` is {1, 2} with two sessions: a Map that always evicts and one that never does. The
  properties whose names begin with `Roomy` are about the second; the first breaks both, which are
  two of the findings.
- One request is enough for the streams, since buffers, timers and streams belong to one request
  each; the proofs are about any set of them. Five tokens fill a buffer, empty it, and begin the
  next, with a token of no characters (all of it was an escape sequence) anywhere among them.
- Two runs under two ids, or under one, are what the registry has to tell apart; the ids are
  interchangeable, so the first run takes one of `DraftIds`. A history of two events evicts already
  within the second run. Of the two listeners one may subscribe with replay while the other is
  being called. `MaxDeltas` and `MaxRejects` are 1: one token published between the start and the
  end, and one request refused by the runtime.
- `MaxExtras` bounds how much of what makes the order of events hard there is at once: `Extras`
  counts 1 for a subscription, 2 for a reader or for one that has gone, 1 for an entry that the log
  answers late or refuses, and 2 for a second id. With 2, any two of these meet, or one of the
  heavier ones is on its own; a subscriber that leaves does so in the middle of a publication.
- A draft is changed at most twice (`MaxChanges`): a change of one copy of a field and of another, or
  a change before planning and one after. Nobody but its caller sees it, so drafts are prepared
  before anything else happens. `MCErrors` has an error that looks like a time limit and one that
  looks like nothing in particular; the cancellation is always among the ends.
- `MCAsks` has a filter that takes everything, and one for what is recorded of a single action with a
  limit of one. `MCLogOptions` has no log, a log without tokens, one that asks for tokens its adapter
  does not take, and one whose adapter is refused: the last two fail when the runtime is made.
- `CHECK_DEADLOCK` is off where calls run out: a runtime whose callers have stopped calling has
  nothing left to do. The scheduler's run has it on.

Sessions are a symmetric set in the safety run, whose properties treat them alike. The liveness
runs have no symmetry.

## Fairness

The event loop takes each callback and microtask in turn, and a terminated thread stops: weak
fairness on the parent's microtasks, timers that are not cleared (`DrainTimesOut`, `Rested`) and
message handling. The worker goes on with its messages, its load, each prompt and its operations:
weak fairness on each. No caller is obliged to call, nothing has to fail, and none of the timeouts
that guard against a worker which does not answer has to fire. So `BoundariesEnd` holds because the
worker answers and not because a timer gives up.

For the streams only the timers and the return of listeners are fair: `TokensAreShown` needs no further
token and no answer.

For actions, weak fairness on the delivery of an event to the next listener and on each run's own
steps: promises run their continuations, and the runtime refuses or ends every request, which is
what `lifecycle_live` shows of it. No caller has to call and no log has to answer.

In the scheduler's own run the worker is an assumption: each dispatched request is eventually
answered. That is strong fairness, since microtasks come between the deliveries of its messages,
and `AcceptedPromptsEnd` of the composition needs no such assumption. `QueuedRequestsMoveOn` supposes
that the model stays ready from some point on; the reverse is a caller that resets for ever.

## What is proved

`SchedulerProofs` proves, for every number of requests, every `maxInFlight` of at least one, and any
sets of sessions and waiters (the assumptions named in `Scheduler`):

| Theorem | Property |
|---|---|
| `SchedTypeCorrect` | `SchedTypeOK`: types, and `inFlight` within `0..MaxInFlight` |
| `BooksAlwaysAgree` | `BooksAgree`: the counter, the queue, the table and `status` say the same |
| `IdleWaitersAreWoken` | `NoLostIdleWakeup`: nobody is parked on an idle scheduler |
| `DispatchIsNeverForgotten` | `NoStalledDispatch`: whenever a request could be dispatched, a microtask is on its way |
| `SchedulerImplementsLife` | `SchedSpec` implements `RequestLifecycle` |

The argument. The type invariant is not inductive by itself: `inFlight` is decremented with a floor
of zero (`Math.max(0, ...)`), and to know that it stays within the limit, or is zero only when it
should be, one has to know what it counts. `BooksInv == SchedTypeOK /\ BooksAgree` is inductive:
`BooksStep` has one step per operation, and `OneLeaves` and `SessionLeaves` are the counting lemmas
that show the floor is never reached. The other three theorems add what they need to it: the
waiters' invariant uses that a scheduler whose counter is zero has an empty table; the refinement
maps an operation to the end of a set of requests, a turn of the drain loop to a start, and needs
`BooksAgree` to see that the head of the queue is the earliest request with status `queued` and that
fewer than `maxInFlight` are running.

`RuntimeProofs` proves, for every number of requests, sessions, attempts, calls and failures:

| Theorem | Property |
|---|---|
| `RuntimeImplementsScheduler` | `ImplementsScheduler`: the runtime calls its scheduler as `SchedNext` allows |
| `BoundariesAreQuiet` | `BoundaryIsQuiet`: nothing is queued or runs while the model is reset or the runtime goes down |
| `LifeTypeCorrect` | `LifeTypeOK`: types, no fewer than no attempts left, and the attempt at hand one that was begun |

`SchedulerStep` is what the first two rest on: every step of the runtime is a step of the scheduler
or leaves it alone, queues requests only while prompts are admitted, and waits for the scheduler only
in a shutdown. `StepsAreSteps` shows it action by action. With `BooksStep` the books of the scheduler
agree in the composition, too, and every theorem of `SchedulerProofs` holds of the runtime.
`BoundaryIsQuiet` alone is not inductive: `BoundaryInv` adds that outside of a shutdown nobody waits
for the scheduler and that, while a shutdown drains, a waiter is woken only on an idle scheduler, on
which nothing can be queued any more. The types of the init record need that an attempt is only
planned when one is left (`AttemptsAreCounted`): the counter is decremented without a test.

`CancelProofs` proves, for the same instances:

| Theorem | Property |
|---|---|
| `CancelledPromptsStop` | `NoOrphanPrompt`: a cancelled prompt that generates has a cancel message on its way to it |

A running prompt is not all there is to look at: the request may be cancelled while its prompt message
is still on its way. `CancelInv` says of each request that, once it is cancelled, a cancel message
comes after its prompt message (`CancelFollows`), and that of a request which is new or queued the
worker knows nothing and is told nothing, so that nobody has to stop it. `ParentSteps` shows that the
parent never cancels a running request without telling the worker, or terminating it (`Tells`), and
`WorkerSteps` that the worker handles the messages in their order and loses none (`WorkerHears`);
`TellingKeeps` and `HearingKeeps` conclude. That a request is not queued again, on which this rests,
is the scheduler's (`StatusSteps`), by `RuntimeImplementsScheduler`.

`ChannelProofs` proves, for the same instances, what needs to know what both channels may hold:

| Theorem | Property |
|---|---|
| `ModelResetsFindNoCycle` | `OneInitCycle`: a model reset begins its init cycle when no other is running |
| `ResetSessionsAreQuiet` | `SessionQuietAfterReset`: a reported reset has left nothing of its session behind |
| `RunningPromptsAreSomewhere` | `RunningIsSomewhere`: no running prompt is lost |
| `SessionsAreAnsweredInOrder` | `SessionOrder`: the prompts of a session are answered in their order |
| `ResolvedModelsDispatch` | `ResolvedMeansReady`, of disciplined callers: who accepts prompts at once also dispatches them |

`StepsAct` describes every step by what it does to the channels: the parent sends some messages, each
of them `Due` in its state (`Sent`), handles the first message of the worker (`Handled`) or terminates
the worker (`Stopped`), or the worker takes a step of its own, which the `At...` lemmas describe. Every
invariant is then shown to be kept by the four. In the order in which they rest on each other:

- `WireInv` and `CycleInv` are about the model. Of an attempt there is one init message, one model that
  loads, or one `ready`, and the init cycle waits for that attempt and no other; an answer to a
  model reset has either the `ready` of its model in front of it or comes after it was handled. So when
  `model_reset_done` is handled there is no cycle any more.
- `BlockedInv`, `CancelInv` and `ResetInv` are about a session's reset. A blocked session has nothing
  that waits or runs; of its reset there is exactly one message, operation or report; no prompt
  follows the message; and the operation waits for every prompt that it found. Without the
  uniqueness the theorem fails: a report would be taken for that of a later reset.
- `NotifiedInv`, `StopInv` and `Somewhere` are about lost prompts. The worker stops only what the
  parent has ended already, because cancel messages, session resets and shutdowns are sent only after
  the requests have been; and it answers whatever it refuses.
- `OrderInv` is about the order: messages are in the order of acceptance, the prompts that run came
  before those still to be received, and an answer has in front of it the answers of those of its
  session before it which the parent still waits for.

- `TurnsInv` and `WaysInv` are about `ready`. A boundary begins with a model that is ready, no other
  boundary and no init cycle (`Standing`), so that nothing undoes what it has done. On the way to the
  worker the operation that takes the model down is the last one, each that insists on a model finds
  it ready, and an error without a request, an attempt or a session is never sent, which `resetModel()`
  would take for its answer. A boundary then ends with the worker gone, a model that is ready again
  or an unhealthy runtime.

The last theorem has a hypothesis, `Disciplined`: callers cancel only prompts that have not ended and
reset only what is ready, and disposal does not fail. Without it the property fails, and
`drain_after_reset` shows how: a cancel message for an ended prompt starts a worker in the middle of a
model reset, which then fails and leaves init resolved. The hypothesis holds of the run
`lifecycle_live`. The theorem goes beyond that run: model resets and shutdowns
may also time out or be answered late (`"hardStop"`), and nothing is bounded.

The first attempt at the third theorem failed for a good reason; see
[What the checks found](#what-the-checks-found).

`SessionProofs` proves, for every number of prompts and resets, every set of sessions, every `maxCount`
and every number of retry profiles:

| Theorem | Property |
|---|---|
| `SessionsTypeCorrect` | `SessionsTypeOK`: types, and an attempt left to whoever creates a context |
| `DisposalSparesUsers` | `NoDisposalUnderUse`: no context is disposed of under a prompt that generates with it |
| `ResetsAreClean` | `ResetStartsAfresh`: a session whose reset is done has no context and no prompt |
| `RoomyPromptsAreServed` | `RoomyContextsAreLive`: with room for every session, no prompt gets a context that is going |
| `RoomyContextsAreFound` | `RoomyContextsAreKept`: with room for every session, a context that lives is in the Map |

`SessionsInv` is inductive. That a disposal spares those who generate needs to know whose context an
entry of the Map has: `MapOK` and `PromptOK` say that entries and prompts have contexts which a
request of their own session created, so the context of another session, or of one without an active
request, is not theirs. `ChainOK` says that the reset in progress waits for every prompt the session
has; it is kept because the parent sends no prompt of a session that is blocked (`BlockedOnlyEnds`).
`CreatesWhatIsMissing` says that nobody else gives a session a context while one of its prompts
creates it, and rests on `InOrder`: of the prompts of a session only the first has begun. With room
for every session the Map is never full when a session has no entry (`RoomForOne`, by counting), so
nothing is evicted, and `RoomyInv` follows: what is disposed of belongs to a session that is being
reset. Without that assumption both `Roomy` invariants fail; the runs `use_after_evict` and
`evict_lost` show how. The proofs go through four lemmas that say once what any step does to the
prompts (`GetsOn`), the Map (`MapGoesOn`), the chain (`ChainGoesOn`) and the disposals
(`OnlyUnused`).

`StreamProofs` proves, for every set of requests and of tokens, whatever their lengths, and every
configuration:

| Theorem | Property |
|---|---|
| `StreamTypeCorrect` | `StreamTypeOK`: types, and no batch that should have been shown is held |
| `NoTokenIsLost` | `NothingIsLost`: shown text, held text and the token being heard make up the text, while the prompt goes on |
| `DoneIsAllShown` | `DoneIsShown`: the stream of a prompt that is done has shown what `done` resolves to |
| `TimersFollowBatches` | `HeldTextIsTimed`: a batch has a timer, and a timer a batch, of a running prompt or of one cut short by a listener |
| `NoLateEnqueue` | `OnlyCallersCrashIt`: an enqueue throws only on a stream whose consumer has left, or whose prompt a listener cut short |
| `StreamsKeepTheirPromise` | the controller implements `TokenStream` |

`StreamInv` is the conjunction of these invariants and `StreamsFollowStatus`, which ties the promise,
the stream and the token being heard to the status of the request; none of them is inductive alone.
That everything is shown when a prompt is done follows from nothing having been lost before; that the
last flush does not throw follows from streams being closed only together with the end of the status;
and that no timer throws, from timers not outliving their batches. The exception is the prompt that a
listener cuts short: its stream is closed, so its token shows nothing, now (`LateShowThrows`) or when
the timer goes off that it is given, and what `TokenStream` promises holds all the same. When a batch
is shown plays no part, so the proofs never look at the lengths of tokens.

`ExecuteActionProofs` proves, for every number of runs, ids and listeners, and whatever registries,
plans and descriptors callers hand in:

| Theorem | Property |
|---|---|
| `IdsBelongToOneRun` | `ActiveIdsHaveOneRun`: the registry knows exactly the runs under way, one for each id |
| `CoherentActionsRun` | `OnlyCoherentActionsRun`: what is accepted is coherent, is accepted again, fits its registries, and has valid outcomes |

The registry looks at its records and not at the runs, and a release asks nobody whose record it
deletes. `RegistryInv` says that a run under way finds its own record (`RunsHoldTheirIds`), that a
record has such a run (`IdsAreHeld`), and that no two runs wait under one id (`OneWaits`), where no
request tells them apart. So a reservation takes an id that nobody holds, and a release frees the id
of the only run that holds it. What the contracts accept plays no part, so this proof does not look
into them.

The second theorem is about the contracts alone, for any labels and capabilities and any number of
changes. Its inductive invariant, `DraftInv`, is weak on purpose: it says which fields the objects in
a caller's hands have (`HasFields` and the shapes), which changes leave alone, that in a plan nobody
touched the definition is not deprecated and the route serves it (`Fits`), and nothing about what else
is in the fields, since anything may be. So all the rest has to follow from what the stages themselves check. Stage by stage,
from `ActionsAgain` to `SkeletonsAgain`, a lemma shows that what a stage accepts and normalizes is
accepted and left unchanged when it comes again: blanks are trimmed once (`LabelsAssumption`), the
registries of a plan shrink to the one definition that was picked, and an execution plan in either
form becomes the one that its backend plan stands for. A skeleton and an invocation are compared with
the plan they carry, so an accepted action is the composition of its normalized execution plan and of
nothing else (`WhatIsAccepted`). A composition comes back unchanged (`ComposedAgain`), says one thing
throughout (`ComposedIsCoherent`), and leads to valid outcomes (`OutcomesAreOk`). `PlansFit` adds that
accepted registries hold no second definition of a capability and no second open route for it, so
the ones that were looked at are the ones that were taken.

`BusProofs` proves, for every number of runs, ids, listeners, filters, deltas and evictions, every size
of the history and every log:

| Theorem | Property |
|---|---|
| `BusIsTyped` | `BusTypeOK`: types, a history within its limit, and consecutive sequence numbers |
| `TheLogFollows` | `LogFollowsTheFeed`: the log is handed each recorded event once and in order |
| `SubscribersMissNothing` | `ListenersSeeTheFeed`: a subscriber gets what it asked for, without gap or repetition |
| `ReadersSkipOnlyTheEvicted` | `ReadersMissOnlyTheEvicted`: a reader misses only what was dropped before it came |
| `FreshRunsTellTheirStory` | `FreshRunsAreAnnounced`: the first run of an id is announced from start to end |

`BusInv` is inductive. Its parts say what each consumer has made of the feed, and each rests on those
before it:

- `EndsInv` ties the end of a request to the phase of its run, so that an outcome is published only of
  a request that has ended; that the outcome is then valid and of a type that fits is
  `EndsAreAnnounced`, from the rules of `Outcomes`.
- `FeedInv` says that the history is what is left of the feed when everything up to the last evicted
  event is left out (`Retained`). Sequence numbers alone do not say this: a delta has none, and an
  event whose id is retained is refused.
- `LogInv` says entry by entry that the log was handed what was recorded. Answers that come later
  change an entry and not the order.
- `ListenersInv` says that every subscriber has seen what it asked for, but for the event that is
  being delivered, when its turn is still to come. That a listener has one turn (`Different`) is
  what makes this inductive: it subscribes once, and one that joins in the middle of a delivery is
  not on the copy that is being worked off. A replay takes from the history, which has been filtered
  by eviction, what it should take from the feed; filtering twice is filtering once (`OnlyTwice`).
- `ReadersInv` says that up to its cursor a reader has everything it asked for, or it was evicted,
  and that it got things in order (`Below`). A limited page ends before events that it has no room for,
  all of which are later than its last one.
- `AnnouncedInv` says of an id under which nothing has run that nothing was said, and of one with a
  single run what `Announcement` says. An event of such a run is never refused, because the ids
  of a run's own events differ; with a second run under the id this fails, as `reused_id_unannounced`
  shows.

The lemmas about `Only`, `Ordered` and `ToSet` at the head of the module are general. They need
induction over the length of a sequence, which the library states with an operator as its parameter;
the provers cannot instantiate that, but a *set* of numbers that has no smallest non-member is all of
them (`AllNumbers`, from `WFMin`), and with a recursive function instead of an operator its steps can be
cited. `ErrorsAssumption` is the one assumption about data: an error that ends a request has neither a
code nor a kind, since nothing in `runtime/lifecycle`, `runtime/request` and `llama_worker` assigns one.
With an ill-formed code the outcome would be refused, and the run would end without a word.

Every safety invariant that a passing run checks is stated by a theorem. Only model-checked: liveness,
which is out of the prover's reach here.

## What the checks found

Six runs check a sentence of the documentation and find it violated.

| Run | Sentence | What the code does |
|---|---|---|
| `late_reset_error` | "Late reset error after timeout clears the session block" (`docs/dev-notes.13:137`) | the router looks for `sessionId` on the message and the worker puts it inside `error`: the session stays blocked |
| `shutdown_off` | "disposes/terminates worker and remains off" (`docs/dev-notes.03:271`) | `cancelPrompt()` of an ended request posts a message, and posting spawns a worker |
| `drain_after_reset` | "accepted queued work must be allowed to dispatch and finish during drain" (`docs/dev-notes.03:248`) | a `cancelPrompt()` while a model reset terminates the worker makes `recreateWorker()` throw; prompts are accepted after that and never dispatched |
| `use_after_evict` | "prevents disposing session/context resources still used by a native prompt" (`docs/dev-notes.04:215`) | the session being evicted is in the Map until its disposal has ended, and a prompt that comes meanwhile is given its context |
| `evict_lost` | "disposed before deleting the map entry" (`docs/dev-notes.01:97`) | the end of an eviction deletes whatever entry the session has by then |
| `reused_id_unannounced` | "started + terminal outcome event publication" of `executeAction()` (`docs/dev-notes.57:235`) | the id of an event is made of the action's id, so a second run under the same id repeats ids that may still be retained; the history refuses them and the refusal is ignored: the run is not announced |

Seen on the way, and modelled as it is, without a run of its own:

- "Stream observers must not affect prompt streaming behavior." says the router of the observer it
  calls (`src/runtime/lifecycle/workerProtocolRouter.mjs:89`), and nothing an observer throws does. A
  listener that cancels its action on hearing of a token does: the stream is closed, the router pushes
  the token nevertheless, and `enqueue()` throws out of the handler, or out of the timer that is set for
  the cancelled request. In the model this takes four steps: `Dispatched`, `StreamMessage`, `Canceled`,
  `ObserversReturn`. Hence `r \in cut` in `HeldTextIsTimed` and `OnlyCallersCrashIt`; without it, both
  are violated by the instance of `streams`.
- A model reset that has already failed for its caller may still be carried out. The worker refuses
  operations while no model is loaded, and the router gives an error without an id to a model reset
  before a session reset. So when two session resets before the first init have timed out, and the
  second refusal comes once a model reset waits, it is taken for the model reset's answer. The runtime
  goes on; the worker gets to the reset later, aborts the prompts it finds, answers nothing for
  them, and they stay pending. The proof of `RunningIsSomewhere` without `wk.resetting` stops at the
  step where the worker begins a model reset; the instance of the run, with two sessions and one
  failure, is too small for it, hence the last disjunct.
- The index of an action's deltas is never reset: a second run under an id goes on counting, where
  `docs/dev-notes.58:185` says that it starts at 0 for each active id. This is the other reason why
  `FreshRunsAreAnnounced` is about the first run that is announced under an id.
- `cancelAction()` of an action whose id is reserved but not yet bound returns false, and the action
  runs.
- That a definition is deprecated, that a route may be selected, and that the definition allows the
  route's kind of backend are looked at once, by the bus action and the route plan. Whoever hands in
  a plan of its own is not asked again: hence `draft.touched \/ Planned(o)`.
- A path-like action id passes the envelope's validator and four plans before the skeleton refuses it.
- Outcome events have the timestamp 0. `requirements.timeoutMs` is handed on and used by nobody.
- The runtime's own time limits say "timed out", which the classification of errors does not look
  for: their outcome is `failed`, as is the outcome of a reset.
- What the adapter of the log returns is looked at, but not whether it names the event appended.
- A replay with a limit gives the oldest retained events of those that match: between them and the
  live events there is a gap that the caller has asked for. The live buffer of a replay is never used.
- `runtime.mjs` never passes `executeActionRegistries`: an action is always planned with the defaults.

## What is not modelled

- A prompt of an action inside `RuntimeLifecycle`: the two modules are not composed. A run asks for
  one request, as any caller of `prompt()` does, and looks at nothing but its end.
- Filters by run, capability and cursor of a subscription; timestamps; context references, of which
  only the presence counts; the texts of validation errors.
- The reading side of the log's store and the policy of its backends, which nothing in the runtime
  calls.
- Model bundles and hardware profiles, and the plan of a route's model bundle: `executeAction()` never
  resolves them. The chain passes their names on, and that it does is modelled.
- Retry profiles, configuration overrides and the hardware probe: computations on megabytes and
  layers from which the models take a number of attempts.

- How tokens become text (`chunkFactory.mjs`) and what the normalizer strips: a token has some
  characters or none.
- What the platform does with chunks a consumer has not read, for instance dropping them when the
  stream is failed.
- How an init plan is computed from options and the hardware probe: a plan is a number of attempts
  here, and its computation may fail.
- `error` and `exit` events of the worker thread: the bridge has no handler for them, so a thread that
  dies takes the process with it or is silent.
- A `readyTimeout` of zero (no time limit on an attempt), and a hard stop that is disabled.
- The validation of options and configuration, and the texts and codes of errors.
- The time limit of the model's disposal during a shutdown of the worker: it turns a disposal that
  hangs into one that succeeds.
- The observer's trace, which is a copy that nothing reads back.

## Plan

In this order; all but the last are done.

1. `Scheduler` with `RequestLifecycle`, the abstract specification it implements, and its proofs.
2. `WorkerThread`.
3. `RuntimeLifecycle`, which composes the two, with a safety and a liveness instance.
4. `WorkerSessions`.
5. The findings of these modules, each as a run of its own.
6. `StreamController` with `TokenStream`, the abstract specification it implements, and its proofs.
7. `ActionEvents` and `EventLog`: history, subscriptions, replay, readers, and the log.
8. `Contracts`, `ContractChain`, `Outcomes` and `ActionDrafts`: the pure part of the bus, checked
   against the reference definitions `Coherent` and `Planned`.
9. `ExecuteAction`: the registry of action requests and the execution of an action, composed with
   the two before.
10. Proofs about the composition, its threads, the registry and the sessions: `RuntimeProofs`,
    `CancelProofs`, `ChannelProofs`, `ExecuteActionProofs`, `SessionProofs`, `BusProofs`.
11. Retry profiles of init and contexts as pure operators.
