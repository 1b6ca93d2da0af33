---------------------------- MODULE RuntimeLifecycle ----------------------------
(***************************************************************************)
(* The runtime as its callers see it (runtime.mjs, runtime/lifecycle/):    *)
(* prompts that wait for the model, the cycle of attempts that initializes *)
(* it, resets of a session and of the model, shutdown in its three modes,  *)
(* and the router that brings the worker's answers back to all of them.    *)
(*                                                                         *)
(* An action is what the parent thread does in one go.  A callback of the  *)
(* event loop (a message, a timer, the end of terminate()) runs with no    *)
(* microtask left to do (`Quiet`), and the continuation of the coroutine   *)
(* that waits for it follows in the same action.  Callers call whenever no *)
(* other code runs.  Three kinds of microtask are actions of their own,    *)
(* since a caller's code may come between: the scheduler's drain, a prompt *)
(* that goes on once the model is ready, and a shutdown that has drained.  *)
(***************************************************************************)
EXTENDS WorkerThread

CONSTANTS
  MaxQueueSize,   \* config.runtime.maxQueueSize
  InitAttempts,   \* the attempts of an init plan
  Calls,          \* bound: how many calls of each kind of operation are made
  Faults,         \* the kinds of failures and timeouts that happen, and
  MaxFaults,      \* bound: how many of them do
  CancelEnded,    \* callers also cancel prompts that have ended
  ResetUnready    \* callers also reset what has not been initialized

FaultKinds == {"plan", "load", "dispose", "readyTimeout", "hardStop"}

ASSUME LifecycleAssumption ==
  /\ MaxQueueSize \in Nat
  /\ InitAttempts \in Nat \ {0}
  /\ Calls \in [{"resetSession", "resetModel", "shutdown", "cancelPrompt"} -> Nat]
  /\ Faults \subseteq FaultKinds /\ MaxFaults \in Nat
  /\ CancelEnded \in BOOLEAN /\ ResetUnready \in BOOLEAN

VARIABLES
  init,          \* the init cycle and what lifecycle records of it
  caller,        \* what the prompt() call of each session waits for
  sessionReset,  \* of each session: "none", "active" or "timedOut"
  modelReset,    \* where resetModel() is
  shutdown,      \* where shutdownRuntime() is
  unhealthy,     \* lifecycle.runtimeUnhealthy
  crashed,       \* a rejection that nobody handles has ended the process
  calls,         \* calls made so far
  faults         \* failures and timeouts so far

lifeVars == <<init, caller, sessionReset, modelReset, shutdown, unhealthy, crashed>>
vars == <<schedVars, workerVars, lifeVars, calls, faults>>

\* createRuntimeLifecycleState().  `phase` is where the cycle is (initInProgress
\* unless "off"), `owner` who began it, `left` the attempts it has left; then
\* initStarted, initResolved, what became of readyPromise, activeInitAttemptId,
\* nextInitAttemptId, and whether there is a lastSuccessfulInitPlan and a
\* lastFailedExplicitInit.
NoInit ==
  [phase |-> "off", owner |-> "none", left |-> 0, started |-> FALSE, resolved |-> FALSE,
   barrier |-> "open", attempt |-> 0, next |-> 0, lastPlan |-> FALSE, explicitFailed |-> FALSE]

Init ==
  /\ SchedInit
  /\ WorkerInit
  /\ init = NoInit
  /\ caller = [s \in Sessions |-> "none"]
  /\ sessionReset = [s \in Sessions |-> "none"]
  /\ modelReset = "off"
  /\ shutdown = "off"
  /\ unhealthy = FALSE
  /\ crashed = FALSE
  /\ calls = [c \in DOMAIN Calls |-> 0]
  /\ faults = 0

--------------------------------------------------------------------------------
(* When code of each kind runs                                             *)

\* Mutant: the drain modes do not wait for the scheduler to be idle.
ShutdownResumesAtOnce(w) == shutdown \in {"draining", "timedDraining"}

\* The microtask of a shutdown whose scheduler has become idle.
ShutdownResumes(w) == shutdown \in {"draining", "timedDraining"} /\ idle[w] = "resolved"

\* No microtask is left: the event loop takes the next callback.
Quiet ==
  /\ ~crashed
  /\ drain = "none"
  /\ \A s \in Sessions : caller[s] # "resumed"
  /\ \A w \in Waiters : ~ShutdownResumes(w)

\* Mutant: a caller's code runs inside the scheduler's loop.
CallAtAnyTime == ~crashed

CallTime == ~crashed /\ ~Busy

Calling(op) ==
  /\ CallTime
  /\ calls[op] < Calls[op]
  /\ calls' = [calls EXCEPT ![op] = @ + 1]
  /\ UNCHANGED <<crashed, faults>>

NoCall == UNCHANGED calls

Fault(kind) ==
  /\ kind \in Faults /\ faults < MaxFaults
  /\ faults' = faults + 1

\* assertRuntimeHealthy() and the two refusals that follow it everywhere.
Operational == ~unhealthy /\ modelReset = "off" /\ shutdown = "off"

--------------------------------------------------------------------------------
(* The init cycle: runtimeInitCoordinator.mjs                              *)

\* attemptInitOnce() on the cycle record `in`, up to its await.
StartAttempt(in) ==
  /\ init' = [in EXCEPT !.phase = "waiting", !.left = @ - 1, !.started = TRUE,
                        !.resolved = FALSE, !.barrier = "open",
                        !.attempt = in.next + 1, !.next = @ + 1]
  /\ SetReady(FALSE)
  /\ Send(<<InitMessage(in.next + 1)>>)
  /\ UNCHANGED <<fromWorker, wk, notified>>

\* Begin a cycle: with the plan that last succeeded, and one attempt, when there
\* is one; with a plan that is still to be made otherwise.
StartCycle(owner) ==
  IF init.lastPlan /\ owner # "initModel" /\ owner # "explicitInitModel"
  THEN StartAttempt([init EXCEPT !.owner = owner, !.left = 1])
  ELSE /\ init' = [init EXCEPT !.phase = "planning", !.owner = owner]
       /\ UNCHANGED <<schedVars, workerVars>>

Waking(value) == [s \in Sessions |-> IF caller[s] = "cycle" THEN value ELSE caller[s]]

\* Mutant: a model reset whose reinitialization fails never ends.
CycleFailsInReset(in) ==
  /\ init' = [in EXCEPT !.phase = "off", !.owner = "none", !.left = 0,
                        !.explicitFailed = @ \/ init.owner = "explicitInitModel"]
  /\ caller' = Waking("none")
  /\ UNCHANGED modelReset

\* A cycle rejects, leaving the record `in`: its callers are told.
CycleFails(in) ==
  /\ init' = [in EXCEPT !.phase = "off", !.owner = "none", !.left = 0,
                        !.explicitFailed = @ \/ init.owner = "explicitInitModel"]
  /\ caller' = Waking("none")
  /\ modelReset' = IF init.owner = "reset" THEN "off" ELSE modelReset

\* Mutant: the worker of a failed attempt lives on.
AttemptFailsSoftly(barrier) ==
  /\ init' = [init EXCEPT !.phase = "stopping", !.attempt = 0, !.barrier = barrier]
  /\ UNCHANGED workerVars

\* An attempt has failed; runInitCycle() terminates the worker.
AttemptFails(barrier) ==
  /\ init' = [init EXCEPT !.phase = "stopping", !.attempt = 0, !.barrier = barrier]
  /\ Terminate
  /\ UNCHANGED notified

\* initModel(options), with and without custom profile options
InitModel(owner) ==
  /\ CallTime /\ Operational
  /\ ~init.started /\ init.phase = "off"
  /\ StartCycle(owner)
  /\ UNCHANGED <<caller, sessionReset, modelReset, shutdown, unhealthy, crashed, faults>>
  /\ NoCall

\* The hardware probe of createInitPlan() has answered.
Planned ==
  /\ Quiet /\ init.phase = "planning"
  /\ StartAttempt([init EXCEPT !.left = InitAttempts])
  /\ UNCHANGED <<caller, sessionReset, modelReset, shutdown, unhealthy, crashed, faults>>
  /\ NoCall

\* createInitPlan() throws.
PlanFails ==
  /\ Quiet /\ init.phase = "planning"
  /\ Fault("plan")
  /\ CycleFails(init)
  /\ UNCHANGED <<schedVars, workerVars, sessionReset, shutdown, unhealthy, crashed>>
  /\ NoCall

\* readyTimeoutMs have passed.
ReadyTimesOut ==
  /\ Quiet /\ init.phase = "waiting"
  /\ Fault("readyTimeout")
  /\ AttemptFails("open")
  /\ UNCHANGED <<schedVars, caller, sessionReset, modelReset, shutdown, unhealthy, crashed>>
  /\ NoCall

\* Mutant: one attempt too many.
LastAttemptOffByOne == init.left < 0

LastAttempt == init.left = 0

\* Mutant: the barrier of a failed cycle stays.
WithoutAttemptKeepsBarrier(in) == in

\* resetInitBarrier()
WithoutAttempt(in) == [in EXCEPT !.started = FALSE, !.resolved = FALSE, !.barrier = "open"]

\* The worker of a failed attempt has been terminated: after the last attempt the
\* barrier is reset and the cycle fails; before that recreateWorker() makes a new
\* worker, or throws because there is one already.
AttemptStopped ==
  /\ Quiet /\ init.phase = "stopping"
  /\ IF LastAttempt
     THEN /\ CycleFails(WithoutAttempt(init))
          /\ SetReady(FALSE)
          /\ UNCHANGED workerUp
     ELSE IF workerUp
     THEN CycleFails(init) /\ UNCHANGED <<schedVars, workerUp>>
     ELSE /\ workerUp' = TRUE
          /\ init' = [init EXCEPT !.phase = "resting"]
          /\ UNCHANGED <<schedVars, caller, modelReset>>
  /\ UNCHANGED <<toWorker, fromWorker, wk, notified>>
  /\ UNCHANGED <<sessionReset, shutdown, unhealthy, crashed, faults>>
  /\ NoCall

\* retryDelayMs have passed.
Rested ==
  /\ Quiet /\ init.phase = "resting"
  /\ StartAttempt(init)
  /\ UNCHANGED <<caller, sessionReset, modelReset, shutdown, unhealthy, crashed, faults>>
  /\ NoCall

--------------------------------------------------------------------------------
(* prompt()                                                                *)

\* assertPromptAdmissionAllowed(sessionId)
Admitted(s) == Operational /\ sessionReset[s] = "none"

\* runNativeTextRequest() up to its await on ensureModelReadyCoordinator().  One call
\* at a time for each session waits, and no more than there are requests for (bounds).
Prompt(s) ==
  /\ CallTime
  /\ caller[s] = "none"
  /\ Cardinality({t \in Sessions : caller[t] # "none"}) < Cardinality(With("new"))
  /\ Admitted(s)
  /\ \/ /\ init.resolved
        /\ caller' = [caller EXCEPT ![s] = "resumed"]
        /\ UNCHANGED <<init, schedVars, workerVars>>
     \/ /\ ~init.resolved /\ init.phase # "off"
        /\ caller' = [caller EXCEPT ![s] = "cycle"]
        /\ UNCHANGED <<init, schedVars, workerVars>>
     \/ /\ ~init.resolved /\ init.phase = "off" /\ init.started /\ init.barrier = "open"
        /\ caller' = [caller EXCEPT ![s] = "barrier"]
        /\ UNCHANGED <<init, schedVars, workerVars>>
     \/ /\ ~init.resolved /\ init.phase = "off" /\ ~init.started
        /\ ~(init.explicitFailed /\ ~init.lastPlan)
        /\ caller' = [caller EXCEPT ![s] = "cycle"]
        /\ StartCycle("prompt")
  /\ UNCHANGED <<sessionReset, modelReset, shutdown, unhealthy, crashed, faults>>
  /\ NoCall

\* Mutant: the prompt is not admitted a second time.
PromptResumesUnchecked(s) ==
  /\ CallTime
  /\ caller[s] = "resumed"
  /\ caller' = [caller EXCEPT ![s] = "none"]
  /\ IF Cardinality(queue) < MaxQueueSize
     THEN \E r \in Requests : Enqueue(r, s)
     ELSE UNCHANGED schedVars
  /\ UNCHANGED <<workerVars, init, sessionReset, modelReset, shutdown, unhealthy>>
  /\ UNCHANGED <<crashed, faults>>
  /\ NoCall

\* The rest of it: the prompt is admitted once more, or rejected.
PromptResumes(s) ==
  /\ CallTime
  /\ caller[s] = "resumed"
  /\ caller' = [caller EXCEPT ![s] = "none"]
  /\ IF Admitted(s) /\ Cardinality(queue) < MaxQueueSize
     THEN \E r \in Requests : Enqueue(r, s)
     ELSE UNCHANGED schedVars
  /\ UNCHANGED <<workerVars, init, sessionReset, modelReset, shutdown, unhealthy>>
  /\ UNCHANGED <<crashed, faults>>
  /\ NoCall

\* The scheduler's drain sends the prompt it takes from the queue.
Dispatch ==
  /\ ~crashed
  /\ \E r \in Requests :
       /\ DrainShift(r)
       /\ Send(IF status'[r] = "running" THEN <<PromptMessage(r)>> ELSE <<>>)
  /\ UNCHANGED <<fromWorker, wk, notified, lifeVars, faults>>
  /\ NoCall

DispatchEnds ==
  /\ ~crashed
  /\ DrainEnd
  /\ UNCHANGED <<workerVars, lifeVars, faults>>
  /\ NoCall

\* Mutant: the worker is told on the request's own port only.
CancelPromptByPort(r) ==
  /\ Calling("cancelPrompt")
  /\ status[r] # "new"
  /\ CancelEnded \/ r \in queue \union pending
  /\ notified' = IF status[r] = "running" THEN notified \union {r} ELSE notified
  /\ CancelQueued(r) \/ CancelRunning(r)
  /\ UNCHANGED <<workerUp, toWorker>>
  /\ UNCHANGED <<fromWorker, wk, init, caller, sessionReset, modelReset, shutdown, unhealthy>>

\* cancelPrompt(promptId): the worker is told in any case, and on the request's own
\* port if it is running.
CancelPrompt(r) ==
  /\ Calling("cancelPrompt")
  /\ status[r] # "new"
  /\ CancelEnded \/ r \in queue \union pending
  /\ notified' = IF status[r] = "running" THEN notified \union {r} ELSE notified
  /\ Send(<<CancelMessage({r})>>)
  /\ \/ CancelQueued(r)
     \/ CancelRunning(r)
     \/ r \notin queue \union pending /\ UNCHANGED schedVars
  /\ UNCHANGED <<fromWorker, wk, init, caller, sessionReset, modelReset, shutdown, unhealthy>>

--------------------------------------------------------------------------------
(* resetSession(), resetModel(), shutdownRuntime()                         *)

\* Requests R have been cancelled: notifyRequestsCancellationRequested(), which
\* finds them cancelled already, and a cancel message for each; then `message`.
CancelAndSend(R, message) ==
  /\ notified' = notified \union {r \in R : status'[r] = "running"}
  /\ Send(IF R = {} THEN <<message>> ELSE <<CancelMessage(R), message>>)
  /\ UNCHANGED <<fromWorker, wk>>

\* resetSession(sessionId); a second call while it is active only shares its promise.
ResetSession(s) ==
  /\ Calling("resetSession")
  /\ Operational
  /\ ResetUnready \/ init.resolved
  /\ sessionReset[s] = "none"
  /\ sessionReset' = [sessionReset EXCEPT ![s] = "active"]
  /\ CancelBySession(s)
  /\ CancelAndSend((queue \union pending) \intersect OfSession(s),
                   Operation("reset_session", s))
  /\ UNCHANGED <<init, caller, modelReset, shutdown, unhealthy>>

\* resetSessionTimeoutMs have passed: the caller is told, the session stays blocked.
SessionResetTimesOut(s) ==
  /\ Quiet /\ sessionReset[s] = "active"
  /\ Fault("hardStop")
  /\ sessionReset' = [sessionReset EXCEPT ![s] = "timedOut"]
  /\ UNCHANGED <<schedVars, workerVars, init, caller, modelReset, shutdown, unhealthy, crashed>>
  /\ NoCall

\* assertNoActiveSessionResetInProgress()
NoActiveSessionReset == \A s \in Sessions : sessionReset[s] # "active"

\* resetModel() up to its first await
ResetModel ==
  /\ Calling("resetModel")
  /\ Operational /\ NoActiveSessionReset
  /\ ResetUnready \/ init.resolved
  /\ modelReset' = "waiting"
  /\ CancelAllWith(FALSE)
  /\ CancelAndSend(queue \union pending, Operation("reset_model", NoSession))
  /\ UNCHANGED <<init, caller, sessionReset, shutdown, unhealthy>>

\* resetModelTimeoutMs have passed: the runtime is unhealthy for good.
ModelResetTimesOut ==
  /\ Quiet /\ modelReset = "waiting"
  /\ Fault("hardStop")
  /\ unhealthy' = TRUE
  /\ modelReset' = "off"
  /\ UNCHANGED <<schedVars, workerVars, init, caller, sessionReset, shutdown, crashed>>
  /\ NoCall

\* The old worker is gone: recreateWorker() (which throws if there is a worker
\* already) and reinitializeModelAfterReset().
ModelResetStopped ==
  /\ Quiet /\ modelReset = "terminating"
  /\ IF workerUp
     THEN modelReset' = "off" /\ UNCHANGED <<init, schedVars, workerVars>>
     ELSE modelReset' = "reinit" /\ StartCycle("reset")
  /\ UNCHANGED <<caller, sessionReset, shutdown, unhealthy, crashed, faults>>
  /\ NoCall

\* isInitActive()
InitActive == init.phase # "off" \/ (init.started /\ ~init.resolved)

\* shutdownRuntime(options) up to its first await, in each of the modes
Shutdown(mode) ==
  /\ Calling("shutdown")
  /\ Operational /\ ~InitActive /\ NoActiveSessionReset
  /\ IF mode = "abort"
     THEN /\ shutdown' = "waiting"
          /\ CancelAllWith(FALSE)
          /\ CancelAndSend(queue \union pending, Operation("shutdown", NoSession))
     ELSE /\ shutdown' = IF mode = "drain" THEN "draining" ELSE "timedDraining"
          /\ \E w \in Waiters : WaitForIdle(w)
          /\ UNCHANGED workerVars
  /\ UNCHANGED <<init, caller, sessionReset, modelReset, unhealthy>>

\* waitForIdle() has resolved.
ShutdownDrained ==
  /\ CallTime
  /\ \E w \in Waiters : ShutdownResumes(w)
  /\ shutdown' = "waiting"
  /\ CancelAndSend({}, Operation("shutdown", NoSession))
  /\ UNCHANGED <<schedVars, init, caller, sessionReset, modelReset, unhealthy, crashed, faults>>
  /\ NoCall

\* timeoutMs of "drain-with-timeout" have passed.
DrainTimesOut ==
  /\ Quiet /\ shutdown = "timedDraining"
  /\ shutdown' = "waiting"
  /\ CancelAllWith(FALSE)
  /\ CancelAndSend(queue \union pending, Operation("shutdown", NoSession))
  /\ UNCHANGED <<init, caller, sessionReset, modelReset, unhealthy, crashed, faults>>
  /\ NoCall

\* shutdownTimeoutMs have passed.
ShutdownTimesOut ==
  /\ Quiet /\ shutdown = "waiting"
  /\ Fault("hardStop")
  /\ unhealthy' = TRUE
  /\ shutdown' = "failed"
  /\ UNCHANGED <<schedVars, workerVars, init, caller, sessionReset, modelReset, crashed>>
  /\ NoCall

\* The worker is gone.
ShutdownStopped ==
  /\ Quiet /\ shutdown = "terminating"
  /\ shutdown' = "down"
  /\ UNCHANGED <<schedVars, workerVars, init, caller, sessionReset, modelReset, unhealthy>>
  /\ UNCHANGED <<crashed, faults>>
  /\ NoCall

--------------------------------------------------------------------------------
(* The parent's router: workerProtocolRouter.mjs                           *)

Handling(type) ==
  /\ Quiet
  /\ fromWorker # <<>>
  /\ Head(fromWorker).type = type
  /\ UNCHANGED <<unhealthy, faults, notified>>
  /\ NoCall

\* The message at hand is handled and the worker stays.
Keep ==
  /\ fromWorker' = Tail(fromWorker)
  /\ UNCHANGED <<workerUp, toWorker, wk>>

\* The continuation of the cycle whose attempt has succeeded
CycleSucceeds ==
  /\ init' = [init EXCEPT !.phase = "off", !.owner = "none", !.left = 0,
                          !.resolved = TRUE, !.barrier = "ready", !.attempt = 0,
                          !.lastPlan = TRUE, !.explicitFailed = FALSE]
  /\ caller' = Waking("resumed")
  /\ modelReset' = IF init.owner = "reset" THEN "off" ELSE modelReset

\* Mutant: the scheduler is not told.
HandleReadyQuietly ==
  /\ Handling("ready")
  /\ IF Head(fromWorker).attempt = init.attempt
     THEN CycleSucceeds /\ UNCHANGED schedVars
     ELSE UNCHANGED <<schedVars, init, caller, modelReset>>
  /\ Keep
  /\ UNCHANGED <<sessionReset, shutdown, crashed>>

\* "ready", of the attempt that is being waited for or of an earlier one
HandleReady ==
  /\ Handling("ready")
  /\ IF Head(fromWorker).attempt = init.attempt
     THEN SetReady(TRUE) /\ CycleSucceeds
     ELSE UNCHANGED <<schedVars, init, caller, modelReset>>
  /\ Keep
  /\ UNCHANGED <<sessionReset, shutdown, crashed>>

\* "reset_done"
HandleResetDone ==
  /\ Handling("reset_done")
  /\ sessionReset' = [sessionReset EXCEPT ![Head(fromWorker).s] = "none"]
  /\ Keep
  /\ UNCHANGED <<schedVars, init, caller, modelReset, shutdown, crashed>>

\* The continuation of resetModel() and of finalizeWorkerShutdown()
ForgetSessionResets == sessionReset' = [s \in Sessions |-> "none"]

\* "model_reset_done"; it is too late when resetModel() has timed out.
HandleModelResetDone ==
  /\ Handling("model_reset_done")
  /\ IF modelReset = "waiting"
     THEN modelReset' = "terminating" /\ ForgetSessionResets /\ Terminate
     ELSE Keep /\ UNCHANGED <<modelReset, sessionReset>>
  /\ UNCHANGED <<schedVars, init, caller, shutdown, crashed>>

\* "shutdown_done"
HandleShutdownDone ==
  /\ Handling("shutdown_done")
  /\ IF shutdown = "waiting"
     THEN shutdown' = "terminating" /\ ForgetSessionResets /\ Terminate
     ELSE Keep /\ UNCHANGED <<shutdown, sessionReset>>
  /\ UNCHANGED <<schedVars, init, caller, modelReset, crashed>>

\* "done"; scheduler.complete() ignores a request that is not in the table.
HandleDone ==
  /\ Handling("done")
  /\ LET r == Head(fromWorker).id IN
     IF r \in pending THEN Complete(r) ELSE UNCHANGED schedVars
  /\ Keep
  /\ UNCHANGED <<init, caller, sessionReset, modelReset, shutdown, crashed>>

\* lifecycle.rejectReady(err).  A barrier that is settled stays as it is; one that
\* no attempt waits for has nobody to handle its rejection.
RejectReady ==
  IF init.barrier # "open"
  THEN Keep /\ UNCHANGED <<init, caller, crashed>>
  ELSE IF init.phase = "waiting"
  THEN AttemptFails("failed") /\ UNCHANGED <<caller, crashed>>
  ELSE /\ init' = [init EXCEPT !.barrier = "failed"]
       /\ caller' = [s \in Sessions |-> IF caller[s] = "barrier" THEN "none" ELSE caller[s]]
       /\ crashed' = ~init.started
       /\ Keep

\* "error": whose it is follows from what it carries and from who waits.
HandleError ==
  /\ Handling("error")
  /\ LET m == Head(fromWorker)
         nobody == m.id = 0
     IN
     IF m.attempt # 0
     THEN /\ IF m.attempt = init.attempt THEN RejectReady
                                        ELSE Keep /\ UNCHANGED <<init, caller, crashed>>
          /\ UNCHANGED <<schedVars, sessionReset, modelReset, shutdown>>
     ELSE IF nobody /\ modelReset = "waiting"
     THEN /\ modelReset' = "off"
          /\ Keep
          /\ UNCHANGED <<schedVars, init, caller, sessionReset, shutdown, crashed>>
     ELSE IF nobody /\ shutdown = "waiting"
     THEN /\ shutdown' = "failed"
          /\ Keep
          /\ UNCHANGED <<schedVars, init, caller, sessionReset, modelReset, crashed>>
     ELSE IF nobody /\ ~init.resolved /\ m.s = NoSession
     THEN /\ RejectReady
          /\ UNCHANGED <<schedVars, sessionReset, modelReset, shutdown>>
     ELSE /\ sessionReset' = [s \in Sessions |-> IF nobody /\ s = m.s THEN "none"
                                                                     ELSE sessionReset[s]]
          /\ IF m.id \in pending THEN Fail(m.id) ELSE UNCHANGED schedVars
          /\ Keep
          /\ UNCHANGED <<init, caller, modelReset, shutdown, crashed>>

HandleWorkerMessage ==
  \/ HandleReady \/ HandleResetDone \/ HandleModelResetDone \/ HandleShutdownDone
  \/ HandleDone \/ HandleError

--------------------------------------------------------------------------------
(* The whole                                                               *)

ApiCall ==
  \/ \E owner \in {"initModel", "explicitInitModel"} : InitModel(owner)
  \/ \E s \in Sessions : Prompt(s)
  \/ \E r \in Requests : CancelPrompt(r)
  \/ \E s \in Sessions : ResetSession(s)
  \/ ResetModel
  \/ \E mode \in {"abort", "drain", "drain-with-timeout"} : Shutdown(mode)

Failure ==
  \/ PlanFails \/ ReadyTimesOut \/ ModelResetTimesOut \/ ShutdownTimesOut
  \/ \E s \in Sessions : SessionResetTimesOut(s)

\* The worker thread works on, or fails.
Worker ==
  /\ ~crashed
  /\ \/ WorkerStep /\ UNCHANGED faults
     \/ ModelLoadFails /\ Fault("load")
     \/ OperationFails /\ Fault("dispose")
  /\ UNCHANGED <<schedVars, lifeVars>>
  /\ NoCall

Next ==
  \/ ApiCall \/ Failure \/ Worker
  \/ Planned \/ AttemptStopped \/ Rested
  \/ \E s \in Sessions : PromptResumes(s)
  \/ Dispatch \/ DispatchEnds
  \/ ModelResetStopped \/ ShutdownDrained \/ DrainTimesOut \/ ShutdownStopped
  \/ HandleWorkerMessage

Spec == Init /\ [][Next]_vars

--------------------------------------------------------------------------------
(* Safety                                                                  *)

\* The types of the lifecycle's own state.
LifeTypeOK ==
  /\ init.phase \in {"off", "planning", "waiting", "stopping", "resting"}
  /\ init.owner \in {"none", "initModel", "explicitInitModel", "prompt", "reset"}
  /\ init.left \in 0..InitAttempts /\ init.barrier \in {"open", "ready", "failed"}
  /\ init.attempt \in 0..init.next
  /\ caller \in [Sessions -> {"none", "cycle", "barrier", "resumed"}]
  /\ sessionReset \in [Sessions -> {"none", "active", "timedOut"}]
  /\ modelReset \in {"off", "waiting", "terminating", "reinit"}
  /\ shutdown \in {"off", "draining", "timedDraining", "waiting", "terminating", "down", "failed"}
  /\ notified \subseteq Requests

Queued(channel, P(_)) == \E i \in DOMAIN channel : P(channel[i])

\* A request the parent counts as running is on its way to the worker, or runs
\* there unaborted, or its answer is on its way back: no operation terminates the
\* worker, refuses or aborts a prompt under a request that still waits for it.  Only
\* a model reset does that whose caller has been told already that it failed: when
\* the error of another reset is taken for its answer, the model has become ready
\* since, and the worker gets to it at last.
RunningIsSomewhere ==
  \A r \in pending :
    \/ Queued(toWorker, LAMBDA m : m.type = "prompt" /\ m.id = r)
    \/ wk.prompt[r] # "none" /\ ~Obsolete(r)
    \/ Queued(fromWorker, LAMBDA m : m.type \in {"done", "error"} /\ m.id = r)
    \/ wk.resetting

\* A prompt that was cancelled does not go on generating: the worker has a cancel
\* message before it, which no prompt message can overtake.
NoOrphanPrompt ==
  \A r \in Requests :
    wk.prompt[r] = "running" /\ status[r] = "canceled" =>
      Queued(toWorker, LAMBDA m : m.type = "cancel" /\ r \in m.ids)

\* When a session reset reports that it is done, nothing of that session is left
\* with the worker or on its way there.
SessionQuietAfterReset ==
  \A s \in Sessions :
    Queued(fromWorker, LAMBDA m : m.type = "reset_done" /\ m.s = s) =>
      \A r \in OfSession(s) :
        /\ wk.prompt[r] = "none"
        /\ ~Queued(toWorker, LAMBDA m : m.type = "prompt" /\ m.id = r)

\* Nothing is queued or running while the model is reset or the runtime goes down.
BoundaryIsQuiet ==
  modelReset # "off" \/ shutdown \notin {"off", "draining", "timedDraining"} => IsIdle

\* The prompts of a session are answered in the order they were accepted.
SessionOrder ==
  \A r \in Requests : \A q \in OfSession(session[r]) :
    q < r /\ status[r] = "done" => status[q] \notin {"queued", "running"}

\* A model reset finds no init cycle still running when it begins its own, and knows
\* the plan to repeat: two cycles would terminate each other's workers.
OneInitCycle ==
  [][modelReset = "terminating" /\ modelReset' = "reinit" => init.phase = "off" /\ init.lastPlan]_vars

\* While prompts are accepted at once the scheduler also dispatches them.
ResolvedMeansReady == init.resolved /\ Operational => ready

\* "Late reset error after timeout clears the session block without rejecting the
\* timed-out caller again." (docs/dev-notes.13:137)
LateResetErrorUnblocks ==
  [][\A s \in Sessions :
       /\ sessionReset[s] = "timedOut"
       /\ fromWorker # <<>> /\ fromWorker' = Tail(fromWorker)
       /\ Head(fromWorker).type = "error" /\ Head(fromWorker).id = 0
       /\ Head(fromWorker).about = s
       => sessionReset'[s] = "none"]_vars

\* "shutdownRuntime(): disposes/terminates worker and remains off."
\* (docs/dev-notes.03:271)
ShutdownRemainsOff == shutdown = "down" => ~workerUp

\* Every step is one of the scheduler's, for its part, or leaves it alone.
ImplementsScheduler == SchedSpec

--------------------------------------------------------------------------------
(* Liveness                                                                *)

\* The event loop takes every callback and every microtask in its turn, a terminated
\* thread stops, and the worker thread gets on with a model it loads, a message it
\* has and a prompt it generates.  No caller has to call, and nothing has to fail or
\* to time out, except that a timer of the runtime that is never cleared goes off.
ParentFairness ==
  /\ WF_vars(Dispatch) /\ WF_vars(DispatchEnds)
  /\ \A s \in Sessions : WF_vars(PromptResumes(s))
  /\ WF_vars(Planned) /\ WF_vars(AttemptStopped) /\ WF_vars(Rested)
  /\ WF_vars(ModelResetStopped) /\ WF_vars(ShutdownStopped)
  /\ WF_vars(ShutdownDrained) /\ WF_vars(DrainTimesOut)
  /\ WF_vars(HandleWorkerMessage)

WorkerStepOf(A) == ~crashed /\ A /\ UNCHANGED <<schedVars, lifeVars, calls, faults>>

WorkerFairness ==
  /\ WF_vars(WorkerStepOf(ReceiveInit \/ ReceivePrompt \/ ReceiveCancel \/ ReceiveOperation))
  /\ WF_vars(WorkerStepOf(ModelLoads))
  /\ \A r \in Requests : WF_vars(WorkerStepOf(PromptEnds(r)))
  /\ WF_vars(WorkerStepOf(OperationBegins \/ OperationEnds))

FairSpec == Spec /\ ParentFairness /\ WorkerFairness

\* Every accepted prompt ends: it is answered, fails or is cancelled.
AcceptedPromptsEnd ==
  \A r \in Requests :
    status[r] \in {"queued", "running"} ~> status[r] \in {"done", "error", "canceled"}

\* No call of prompt() waits for the model for ever.
PromptCallsReturn == \A s \in Sessions : caller[s] # "none" ~> caller[s] = "none"

\* Resets and shutdowns come to an end.
BoundariesEnd ==
  /\ \A s \in Sessions : sessionReset[s] = "active" ~> sessionReset[s] # "active"
  /\ modelReset # "off" ~> modelReset = "off"
  /\ shutdown # "off" ~> shutdown \in {"down", "failed"}

\* "accepted queued work must be allowed to dispatch and finish during drain."
\* (docs/dev-notes.03:248)
QueuedWorkDrains ==
  \A r \in Requests : shutdown = "draining" /\ status[r] = "queued" ~> status[r] # "queued"
================================================================================
