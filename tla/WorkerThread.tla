------------------------------ MODULE WorkerThread ------------------------------
(***************************************************************************)
(* The worker bridge (workerBridge.mjs) and the worker thread behind it    *)
(* (llama_worker/), as far as the parent thread can tell: messages in the  *)
(* order they were posted, one model, prompts that run side by side, and a *)
(* chain of boundary operations (reset_session, reset_model, shutdown)     *)
(* each of which aborts prompts, waits until they have ended and disposes  *)
(* of what they used.                                                      *)
(*                                                                         *)
(* `worker` and its generation become a flag and a clearing of channels:   *)
(* terminateWorker() unbinds the handler, so whatever the old thread still *)
(* posts reaches nobody, and the next thread starts from nothing.  Cancel  *)
(* messages that are posted in one go are one message here.  Tokens,       *)
(* session contexts and the text of prompts are left out.                  *)
(***************************************************************************)
EXTENDS Scheduler, Sequences

VARIABLES
  workerUp,    \* the bridge has a worker
  toWorker,    \* messages posted to it that it has not handled
  fromWorker,  \* messages it posted that the parent has not handled
  wk,          \* the state of the worker thread
  notified     \* requests with a message on their own cancel port

workerVars == <<workerUp, toWorker, fromWorker, wk, notified>>

\* createWorkerState().  `model` is what became of initPromise, `attempt` is
\* activeInitAttemptId, `prompt` is activeRequests with the state of each record,
\* `ops` is workerOperationChain; `phase` and `waits` say whether its first
\* operation has begun and which requests it waits for.
FreshWorker ==
  [model |-> "none", attempt |-> 0, resetting |-> FALSE, shuttingDown |-> FALSE,
   prompt |-> [r \in Requests |-> "none"],
   ops |-> <<>>, phase |-> "idle", waits |-> {}]

\* onWorkerMessage() starts the first worker when the runtime is imported.
WorkerInit ==
  /\ workerUp = TRUE
  /\ toWorker = <<>>
  /\ fromWorker = <<>>
  /\ wk = FreshWorker
  /\ notified = {}

--------------------------------------------------------------------------------
(* Messages.  0 stands for an id, and NoSession for a session, that a      *)
(* message does not carry.                                                 *)

InitMessage(attempt) == [type |-> "init", attempt |-> attempt]
PromptMessage(r) == [type |-> "prompt", id |-> r]
CancelMessage(R) == [type |-> "cancel", ids |-> R]
Operation(type, s) == [type |-> type, s |-> s]

Ready(attempt) == [type |-> "ready", attempt |-> attempt]
Done(r) == [type |-> "done", id |-> r]

\* postWorkerError().  The session of a failed operation is inside `error`, where
\* it is `about` here; no error carries a session of its own, `s`.
WorkerError(r, attempt, about) ==
  [type |-> "error", id |-> r, attempt |-> attempt, s |-> NoSession, about |-> about]

\* What an operation answers with when it succeeds.
Answer(op) ==
  [type |-> [reset_session |-> "reset_done", reset_model |-> "model_reset_done",
             shutdown |-> "shutdown_done"][op.type],
   s |-> op.s]

--------------------------------------------------------------------------------
(* The bridge                                                              *)

\* sendToWorker(), once for each message; the first spawns a worker if there is none.
Send(messages) ==
  /\ workerUp' = (workerUp \/ messages # <<>>)
  /\ toWorker' = toWorker \o messages

\* terminateWorker() up to its await: nothing the thread still does is heard of.
Terminate ==
  /\ workerUp' = FALSE
  /\ toWorker' = <<>>
  /\ fromWorker' = <<>>
  /\ wk' = FreshWorker

--------------------------------------------------------------------------------
(* The worker thread                                                       *)

\* enqueueWorkerOperation() runs the next operation in a microtask: before any
\* other message or callback of the thread.
OperationDue == wk.ops # <<>> /\ wk.phase = "idle"

\* assertWorkerReadyForNativeCommand()
NativeReady == wk.model = "loaded" /\ ~wk.resetting /\ ~wk.shuttingDown

Post(message) == fromWorker' = Append(fromWorker, message)

Received(types) ==
  /\ workerUp
  /\ ~OperationDue
  /\ toWorker # <<>>
  /\ Head(toWorker).type \in types
  /\ toWorker' = Tail(toWorker)
  /\ UNCHANGED <<workerUp, notified>>

\* "init": the first one loads the model; a later one shares its promise, which
\* answers again only if it was rejected.  (The runtime sends a thread one.)
ReceiveInit ==
  /\ Received({"init"})
  /\ LET attempt == Head(toWorker).attempt IN
     /\ wk' = IF wk.model = "none"
              THEN [wk EXCEPT !.model = "loading", !.attempt = attempt] ELSE wk
     /\ IF wk.model = "failed" THEN Post(WorkerError(0, attempt, NoSession))
                               ELSE UNCHANGED fromWorker

\* initModel(): the model is loaded.
ModelLoads ==
  /\ wk.model = "loading" /\ ~OperationDue
  /\ wk' = [wk EXCEPT !.model = "loaded", !.resetting = FALSE, !.shuttingDown = FALSE]
  /\ Post(Ready(wk.attempt))
  /\ UNCHANGED <<workerUp, toWorker, notified>>

\* initModel(): getLlama() or loadModel() rejects.
ModelLoadFails ==
  /\ wk.model = "loading" /\ ~OperationDue
  /\ wk' = [wk EXCEPT !.model = "failed"]
  /\ Post(WorkerError(0, wk.attempt, NoSession))
  /\ UNCHANGED <<workerUp, toWorker, notified>>

\* "prompt"
ReceivePrompt ==
  /\ Received({"prompt"})
  /\ LET r == Head(toWorker).id IN
     IF NativeReady
     THEN wk' = [wk EXCEPT !.prompt[r] = "running"] /\ UNCHANGED fromWorker
     ELSE Post(WorkerError(r, 0, session[r])) /\ UNCHANGED wk

\* abortActiveRequest() of the records R that are still active
Aborting(R) ==
  [r \in Requests |-> IF r \in R /\ wk.prompt[r] # "none" THEN "aborting" ELSE wk.prompt[r]]

\* "cancel"
ReceiveCancel ==
  /\ Received({"cancel"})
  /\ wk' = [wk EXCEPT !.prompt = Aborting(Head(toWorker).ids)]
  /\ UNCHANGED fromWorker

\* Mutant: a prompt does not wait for those of its session that came before it.
HasTurnAtOnce(r) == wk.prompt[r] # "none" /\ ~OperationDue

\* Mutant: it waits for all the others of its session.
HasTurnLast(r) ==
  /\ wk.prompt[r] # "none" /\ ~OperationDue
  /\ \A q \in OfSession(session[r]) : q # r => wk.prompt[q] = "none"

\* waitForPriorSessionRequestBoundaries(): the prompts of a session run in order.
HasTurn(r) ==
  /\ wk.prompt[r] # "none" /\ ~OperationDue
  /\ \A q \in OfSession(session[r]) : q < r => wk.prompt[q] = "none"

\* synchronizeExternalCancellation(): has the request been cancelled, as far as its
\* record or its cancel port says?
Obsolete(r) == wk.prompt[r] = "aborting" \/ r \in notified

EndPrompt(r) ==
  /\ HasTurn(r)
  /\ wk' = [wk EXCEPT !.prompt[r] = "none"]
  /\ UNCHANGED <<workerUp, toWorker, notified>>

\* runPromptTask() reaches its end.
PromptCompletes(r) == EndPrompt(r) /\ ~Obsolete(r) /\ Post(Done(r))

\* It throws the abort error: handlePromptMessage() posts nothing.
PromptAborts(r) == EndPrompt(r) /\ Obsolete(r) /\ UNCHANGED fromWorker

\* It throws another error: getSession() or the generation failed.
PromptFails(r) == EndPrompt(r) /\ Post(WorkerError(r, 0, session[r]))

PromptEnds(r) == PromptCompletes(r) \/ PromptAborts(r) \/ PromptFails(r)

\* "reset_session", "reset_model", "shutdown": the operation joins the chain.
ReceiveOperation ==
  /\ Received({"reset_session", "reset_model", "shutdown"})
  /\ wk' = [wk EXCEPT !.ops = Append(@, Head(toWorker))]
  /\ UNCHANGED fromWorker

NextOperation == [wk EXCEPT !.ops = Tail(@), !.phase = "idle", !.waits = {}]

\* Mutant: a session reset aborts the prompts of every session.
AffectedAnywhere(op) == {r \in Requests : wk.prompt[r] # "none"}

\* The records an operation aborts and then waits for.
Affected(op) ==
  {r \in Requests : /\ wk.prompt[r] # "none"
                    /\ op.type = "reset_session" => session[r] = op.s}

\* The operation begins: the resets insist on a model that is ready; then
\* resetSession(), resetModel() and shutdownWorker() abort their prompts.
OperationBegins ==
  /\ OperationDue
  /\ LET op == Head(wk.ops) IN
     IF op.type # "shutdown" /\ ~NativeReady
     THEN wk' = NextOperation /\ Post(WorkerError(0, 0, op.s))
     ELSE /\ wk' = [wk EXCEPT !.phase = "waiting",
                              !.waits = Affected(op),
                              !.prompt = Aborting(Affected(op)),
                              !.resetting = @ \/ op.type = "reset_model",
                              !.shuttingDown = @ \/ op.type = "shutdown"]
          /\ UNCHANGED fromWorker
  /\ UNCHANGED <<workerUp, toWorker, notified>>

BoundaryReached == wk.phase = "waiting" /\ \A r \in wk.waits : wk.prompt[r] = "none"

\* The prompts have ended, and disposeSessionById() or disposeModelStack() succeeds.
OperationEnds ==
  /\ BoundaryReached
  /\ LET op == Head(wk.ops) IN
     /\ wk' = IF op.type = "reset_session" THEN NextOperation
              ELSE [NextOperation EXCEPT !.model = "none", !.attempt = 0]
     /\ Post(Answer(op))
  /\ UNCHANGED <<workerUp, toWorker, notified>>

\* A disposal throws: the flags stay, and so does the model.
OperationFails ==
  /\ BoundaryReached
  /\ wk' = NextOperation
  /\ Post(WorkerError(0, 0, Head(wk.ops).s))
  /\ UNCHANGED <<workerUp, toWorker, notified>>

\* What the thread does unless something in it fails.
WorkerStep ==
  \/ ReceiveInit \/ ReceivePrompt \/ ReceiveCancel \/ ReceiveOperation
  \/ ModelLoads
  \/ \E r \in Requests : PromptEnds(r)
  \/ OperationBegins \/ OperationEnds
================================================================================
