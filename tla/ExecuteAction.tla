------------------------------ MODULE ExecuteAction ------------------------------
(***************************************************************************)
(* executeAction() and cancelAction(): an action reserves its id           *)
(* (actionRequestRegistry.mjs), asks for a request of the runtime          *)
(* (nativeWorkerBackendExecution.mjs), is bound to it and announced, and   *)
(* when the request has ended its outcome is announced and the id released *)
(* (capabilityBusExecuteActionExecution.mjs); meanwhile the tokens of the  *)
(* request are published as deltas (actionStreamDeltaEvents.mjs).          *)
(*                                                                         *)
(* A run is one call of executeAction() that was not refused. The request  *)
(* of a run has the number of the run; that the runtime takes it on and    *)
(* ends it is the subject of RuntimeLifecycle. A draft is seen by nobody   *)
(* but its caller, so drafts are prepared while nothing else goes on.      *)
(***************************************************************************)
EXTENDS ActionEvents, EventLog, ActionDrafts

CONSTANTS
  MaxRuns,    \* bound: runs
  MaxDeltas,  \* bound: tokens of all requests together
  MaxRejects, \* bound: runs whose request the runtime refuses
  MaxExtras,  \* bound: listeners, entries the log does not accept at once, and a second id (see Extras)
  Errors      \* what the runtime may fail a request with

ASSUME BusAssumption ==
  /\ {MaxRuns, MaxDeltas, MaxRejects, MaxExtras} \subseteq Nat
  /\ DraftIds \union {Padded[x] : x \in DOMAIN Padded} \subseteq Actions

\* Nothing in the runtime or the worker gives an error a code or a kind.
ASSUME ErrorsAssumption ==
  \A error \in Errors : error.code = Absent /\ error.kind = Absent

VARIABLES
  runs,      \* the runs so far, oldest first
  active,    \* the registry: of each action id, its record
  deltaIndex \* indexByActionId of the delta observer

runVars == <<runs, active, deltaIndex>>
busVars == <<eventVars, logVars, draft, runVars>>

Runs == DOMAIN runs
NoRecord == [state |-> "none", request |-> 0]
NotQueued == [how |-> "none", error |-> NoError]
Open == [how |-> "open", error |-> NoError]

BusInit ==
  /\ EventsInit
  /\ LogInit
  /\ DraftInit
  /\ runs = <<>>
  /\ active = [a \in Actions |-> NoRecord]
  /\ deltaIndex = [a \in Actions |-> 0]

\* createEventId(): an id is made of the action's id, a suffix and an index.
Event(a, type, index) ==
  [id |-> <<a, type, index>>, action |-> a, type |-> type, sequence |-> 0]

Goes(r, phase) == runs' = [runs EXCEPT ![r].phase = phase]

PublishAndLog(event) ==
  /\ PublishRecorded(event)
  /\ AppendEvent([event EXCEPT !.sequence = nextSequence])

\* publishRuntimeActionEvent(): only what was recorded goes to the log.
PublishRuntimeActionEvent(event) ==
  /\ PublishRecorded(event)
  /\ IF event.id \in RetainedIds
       THEN UNCHANGED logVars
       ELSE AppendEvent([event EXCEPT !.sequence = nextSequence])

--------------------------------------------------------------------------------
(* The registry of action ids. *)

ReserveActionRequest(a) ==
  /\ active[a] = NoRecord
  /\ active' = [active EXCEPT ![a] = [state |-> "reserved", request |-> 0]]

BindActionRequest(a, r) ==
  /\ active[a].state = "reserved"
  /\ active' = [active EXCEPT ![a] = [state |-> "bound", request |-> r]]

\* Whoever holds it.
ReleaseActionRequest(a) == active' = [active EXCEPT ![a] = NoRecord]

ActionsOf(r) == {a \in Actions : active[a].state = "bound" /\ active[a].request = r}

--------------------------------------------------------------------------------
(* A run. *)

\* assertNativeWorkerInvocation() and extractPrompt() ask for these.
Runnable(o) ==
  LET i == o.descriptor.invocation
  IN  /\ i.capability = TextGenerate /\ i.backendKind = NativeWorker
      /\ i.adapterId = NativeWorkerAdapter /\ i.serviceId = TextService
      /\ o.plan.busAction.action.prompt

\* runExecuteAction() up to its first await: an adapter for the kind of backend
\* and a free id, or it throws.
ReserveAndRun(o) ==
  \E a \in Actions :
    /\ a = o.descriptor.invocation.actionId
    /\ Len(runs) < MaxRuns
    /\ o.descriptor.invocation.backendKind = NativeWorker
    /\ ReserveActionRequest(a)
    /\ runs' = Append(runs, [action |-> a, phase |-> "reserved", end |-> NotQueued, runnable |-> Runnable(o)])
    /\ UNCHANGED <<eventVars, logVars, deltaIndex>>

DraftOf(a) == [NoDraft EXCEPT !.stage = "action", !.value = DefaultAction(a)]
PlainActions == [a \in Actions |-> Accepted(DraftOf(a))]

\* What executeAction() runs for a draft: nothing if it throws.
Orchestrations(d) == IF Accepts(d) THEN {Accepted(d)} ELSE {}

\* Ids are interchangeable: the first run has one that drafts have, too.
Execute(a) ==
  /\ draft.stage = "none"
  /\ runs = <<>> => a \in DraftIds
  /\ ReserveAndRun(PlainActions[a])
  /\ UNCHANGED draft

ExecuteDraft ==
  /\ \E o \in Orchestrations(draft) : ReserveAndRun(o)
  /\ draft' = NoDraft

\* runNativeTextRequest() has queued a request, after waiting for the model.
RequestQueued(r) ==
  /\ Idle
  /\ runs[r].phase = "reserved" /\ runs[r].runnable
  /\ runs' = [runs EXCEPT ![r].phase = "queued", ![r].end = Open]
  /\ UNCHANGED <<eventVars, logVars, draft, active, deltaIndex>>

RequestRefusedUnreleased(r) ==
  /\ Idle
  /\ runs[r].phase = "reserved"
  /\ ~runs[r].runnable \/ Cardinality({q \in Runs : runs[q].phase = "refused"}) < MaxRejects
  /\ Goes(r, "refused")
  /\ UNCHANGED <<eventVars, logVars, draft, active, deltaIndex>>

\* The adapter or the runtime refuses: the id is released and the call
\* rejected; nothing is announced.
RequestRefused(r) ==
  /\ Idle
  /\ runs[r].phase = "reserved"
  /\ ~runs[r].runnable \/ Cardinality({q \in Runs : runs[q].phase = "refused"}) < MaxRejects
  /\ Goes(r, "refused")
  /\ ReleaseActionRequest(runs[r].action)
  /\ UNCHANGED <<eventVars, logVars, draft, deltaIndex>>

\* The handle of the request is there: the id is bound and the run announced.
Bind(r) ==
  /\ Idle
  /\ runs[r].phase = "queued"
  /\ BindActionRequest(runs[r].action, r)
  /\ Goes(r, "running")
  /\ PublishRuntimeActionEvent(Event(runs[r].action, StartedOutcome.event.type, 0))
  /\ UNCHANGED <<draft, deltaIndex>>

Ends == {Text, PromptCanceled} \union {Fails(e) : e \in Errors}
OutcomeTypes == [end \in Ends |-> OutcomeEventType(end)]

\* The request ends in the runtime: the worker answers, or a reset, a shutdown
\* or cancelPrompt() ends it.
RequestEnds(r) ==
  /\ Idle
  /\ runs[r].end = Open
  /\ \E end \in Ends : runs' = [runs EXCEPT ![r].end = end]
  /\ UNCHANGED <<eventVars, logVars, draft, active, deltaIndex>>

\* `done` settles: the outcome is made, and its event published.
PublishOutcome(r) ==
  /\ Idle
  /\ runs[r].phase = "running"
  /\ runs[r].end # Open
  /\ Goes(r, "announced")
  /\ LET type == OutcomeTypes[runs[r].end]
     IN  IF type = Absent
           THEN UNCHANGED <<eventVars, logVars>>
           ELSE PublishRuntimeActionEvent(Event(runs[r].action, type, 0))
  /\ UNCHANGED <<draft, active, deltaIndex>>

ReleaseResolved(r) ==
  /\ Idle
  /\ runs[r].phase = "announced"
  /\ runs[r].end = Text
  /\ Goes(r, "released")
  /\ ReleaseActionRequest(runs[r].action)
  /\ UNCHANGED <<eventVars, logVars, draft, deltaIndex>>

\* Then, in the promise's finally, the id is released.
Release(r) ==
  /\ Idle
  /\ runs[r].phase = "announced"
  /\ Goes(r, "released")
  /\ ReleaseActionRequest(runs[r].action)
  /\ UNCHANGED <<eventVars, logVars, draft, deltaIndex>>

Progress(r) ==
  /\ r \in Runs
  /\ \/ RequestQueued(r)
     \/ RequestRefused(r)
     \/ Bind(r)
     \/ RequestEnds(r)
     \/ PublishOutcome(r)
     \/ Release(r)

--------------------------------------------------------------------------------
(* What happens to it meanwhile. *)

\* cancelAction(): only a bound action has a request to cancel.
CancelAction(a) ==
  /\ active[a].state = "bound"
  /\ LET r == active[a].request
     IN  /\ runs[r].end = Open
         /\ runs' = [runs EXCEPT ![r].end = PromptCanceled]
  /\ UNCHANGED <<eventVars, logVars, draft, active, deltaIndex>>

\* A token of a request: the observer finds the action that is bound to it.
StreamDelta(r) ==
  /\ Idle
  /\ runs[r].end = Open
  /\ FoldSet(LAMBDA a, n : n + deltaIndex[a], 0, Actions) < MaxDeltas
  /\ \E a \in ActionsOf(r) :
       /\ deltaIndex' = [deltaIndex EXCEPT ![a] = @ + 1]
       /\ PublishLive(Event(a, DeltaType, deltaIndex[a]))
  /\ UNCHANGED <<logVars, draft, runs, active>>

\* A bound on the model: drafts are prepared before anything else happens.
Prepare ==
  /\ runs = <<>>
  /\ \A l \in Listeners : options[l].mode = "none"
  /\ PrepareDraft
  /\ UNCHANGED <<eventVars, logVars, runVars>>

Calls ==
  \/ \E a \in Actions : Execute(a) \/ CancelAction(a)
  \/ ExecuteDraft
  \/ draft.stage = "none" /\ ListenerCalls /\ UNCHANGED <<logVars, draft, runVars>>

Delivery == Deliver /\ UNCHANGED <<logVars, draft, runVars>>
LogSettles == SettleAppend /\ UNCHANGED <<eventVars, draft, runVars>>

\* Readers are told apart from nobody, so one at a time is enough.
Weight(mode) ==
  CASE mode = "none" -> 0
    [] mode \in {"live", "replay"} -> 1
    [] mode \in {"reader", "gone"} -> 2

Extras ==
  FoldSet(LAMBDA l, n : n + Weight(options[l].mode), 0, Listeners)
  + Len(SelectSeq(appends, LAMBDA a : a.late \/ a.answer = "failed"))
  + (IF Cardinality({runs[r].action : r \in Runs}) > 1 THEN 2 ELSE 0)

BusNext ==
  /\ \/ Prepare
     \/ Calls
     \/ Delivery
     \/ LogSettles
     \/ \E r \in Runs : Progress(r) \/ StreamDelta(r)
  /\ Extras' <= MaxExtras

BusSpec == BusInit /\ [][BusNext]_busVars

\* The thread goes on: listeners return, promises run their continuations, and
\* the runtime takes on or refuses and ends every request (RuntimeLifecycle).
BusFairSpec ==
  /\ BusSpec
  /\ WF_busVars(Delivery)
  /\ \A r \in 1..MaxRuns : WF_busVars(Progress(r))

--------------------------------------------------------------------------------
(* Properties. *)

\* The types; what is retained is bounded and has consecutive sequence numbers
\* up to the last one given.
BusTypeOK ==
  /\ history \in Seq(EventRecords) /\ Len(history) <= MaxEvents
  /\ \A i \in DOMAIN history : history[i].sequence = nextSequence - 1 - Len(history) + i
  /\ feed \in Seq(EventRecords)
  /\ ToSet(subscriptions) \subseteq Listeners /\ ToSet(delivering) \subseteq Listeners
  /\ \A l \in Listeners : seen[l] \in Seq(EventRecords)
  /\ logErrors \in Nat
  /\ active \in [Actions -> [state: {"none", "reserved", "bound"}, request: 0..MaxRuns]]
  /\ deltaIndex \in [Actions -> Nat]
  /\ \A r \in Runs :
       /\ runs[r].action \in Actions
       /\ runs[r].phase \in {"reserved", "queued", "running", "announced", "released", "refused"}

\* The registry, which releases by id and asks nobody who holds it, knows
\* exactly the runs that are under way: an id belongs to one run from the
\* reservation until its outcome has been announced, and is bound to that run's
\* request from the moment it is announced as started.
ActiveIdsHaveOneRun ==
  \A a \in Actions :
    LET holders(phases) == {r \in Runs : runs[r].action = a /\ runs[r].phase \in phases}
    IN  CASE active[a].state = "none" -> holders({"reserved", "queued", "running", "announced"}) = {}
          [] active[a].state = "reserved" ->
               /\ Cardinality(holders({"reserved", "queued"})) = 1
               /\ holders({"running", "announced"}) = {}
          [] active[a].state = "bound" ->
               /\ holders({"running", "announced"}) = {active[a].request}
               /\ holders({"reserved", "queued"}) = {}

EventsOf(a) == Only(feed, {e \in EventRecords : e.action = a})
Terminal == DurableTypes \ {"accepted", "started"}

Fresh(r) == \A q \in Runs \ {r} : runs[q].action = runs[r].action => runs[q].phase = "refused"

TerminalTypes(end) ==
  IF end = Text THEN {"completed"}
  ELSE IF end = PromptCanceled THEN {"cancelled"}
  ELSE {type \in {"failed", "timeout", "cancelled"} : type = "cancelled" => IsCancellationError(end.error)}

\* A run whose id no run before it was announced under is announced by one
\* started event, its tokens by deltas numbered from 0, and its end by one
\* event of the type that fits it, after which nothing more is said of it. A
\* run that was refused is not announced at all.
FreshRunsAreAnnounced ==
  \A r \in Runs : Fresh(r) =>
    LET events == EventsOf(runs[r].action)
        deltas == deltaIndex[runs[r].action]
        ended == IF runs[r].phase \in {"announced", "released"} THEN 1 ELSE 0
    IN  IF runs[r].phase \in {"reserved", "queued", "refused"}
          THEN events = <<>>
          ELSE /\ Len(events) = 1 + deltas + ended
               /\ events[1].type = "started"
               /\ \A i \in 1..deltas : events[1 + i].type = DeltaType /\ events[1 + i].id[3] = i - 1
               /\ ended = 1 => Last(events).type \in TerminalTypes(runs[r].end)

\* Every run is announced: as often as runs of an action have begun and ended,
\* a started and a terminal event of it were published.
EveryRunIsAnnounced ==
  \A a \in Actions :
    LET count(phases) == Cardinality({r \in Runs : runs[r].action = a /\ runs[r].phase \in phases})
        published(types) == Len(SelectSeq(EventsOf(a), LAMBDA e : e.type \in types))
    IN  /\ published({"started"}) = count({"running", "announced", "released"})
        /\ published(Terminal) = count({"announced", "released"})

\* A log that is plugged in and enabled is handed every recorded event, once
\* and in the order of the feed, whatever becomes of the ones before it; each
\* one that fails is reported once. Otherwise it is handed nothing.
LogFollowsTheFeed ==
  LET handed == [i \in DOMAIN appends |-> appends[i].sequence]
      recorded == Recorded(feed)
  IN  /\ IF integration.enabled /\ integration.plugged
           THEN handed = [i \in DOMAIN recorded |-> recorded[i].sequence]
           ELSE handed = <<>>
      /\ logErrors = Cardinality({i \in DOMAIN appends : appends[i].answer = "failed"})

\* An id that an action has taken is given back, however its request ends and
\* whether its outcome is published or not.
IdsAreReleased == \A a \in Actions : active[a] # NoRecord ~> active[a] = NoRecord
================================================================================
