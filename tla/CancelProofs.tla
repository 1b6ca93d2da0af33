------------------------------ MODULE CancelProofs ------------------------------
(***************************************************************************)
(* That a cancelled prompt does not go on generating, for any number of    *)
(* requests, sessions, calls and failures: what the two threads know of a  *)
(* request and what is on its way between them.                            *)
(***************************************************************************)
EXTENDS RuntimeProofs, SequenceTheorems

Messages ==
  {InitMessage(n) : n \in Nat} \union {PromptMessage(r) : r \in Requests}
  \union {CancelMessage(R) : R \in SUBSET Requests}
  \union {Operation(t, s) : t \in {"reset_session", "reset_model", "shutdown"}, s \in Sessions \union {NoSession}}

\* What the messages are.
LEMMA MessageTypes ==
  /\ \A n \in Nat : InitMessage(n) \in Messages /\ InitMessage(n).type = "init"
  /\ \A r \in Requests :
       PromptMessage(r) \in Messages /\ PromptMessage(r).type = "prompt" /\ PromptMessage(r).id = r
  /\ \A R \in SUBSET Requests :
       CancelMessage(R) \in Messages /\ CancelMessage(R).type = "cancel" /\ CancelMessage(R).ids = R
  /\ \A t \in {"reset_session", "reset_model", "shutdown"}, s \in Sessions \union {NoSession} :
       Operation(t, s) \in Messages /\ Operation(t, s).type = t
  <1>1. /\ \A n \in Nat : InitMessage(n) \in Messages
        /\ \A r \in Requests : PromptMessage(r) \in Messages
        /\ \A R \in SUBSET Requests : CancelMessage(R) \in Messages
        /\ \A t \in {"reset_session", "reset_model", "shutdown"}, s \in Sessions \union {NoSession} :
             Operation(t, s) \in Messages
    BY DEF Messages
  <1>2. /\ \A n : InitMessage(n).type = "init"
        /\ \A r : PromptMessage(r).type = "prompt" /\ PromptMessage(r).id = r
        /\ \A R : CancelMessage(R).type = "cancel" /\ CancelMessage(R).ids = R
        /\ \A t, s : Operation(t, s).type = t
    BY DEF InitMessage, PromptMessage, CancelMessage, Operation
  <1> QED
    BY <1>1, <1>2

\* The messages `ms` tell the worker to begin with r, or to stop it, at place i.
BeginsAt(ms, i, r) == ms[i].type = "prompt" /\ ms[i].id = r
StopsAt(ms, i, r) == ms[i].type = "cancel" /\ r \in ms[i].ids

WorkerTypes ==
  /\ toWorker \in Seq(Messages)
  /\ "prompt" \in DOMAIN wk /\ wk.prompt \in [Requests -> {"none", "running", "aborting"}]

\* A cancelled prompt that runs, or that the worker is going to be sent, has a
\* cancel message behind it; of one that has not been dispatched the worker knows
\* nothing, so that it needs none.
CancelFollows(r) ==
  /\ wk.prompt[r] = "running" /\ status[r] = "canceled" => \E i \in DOMAIN toWorker : StopsAt(toWorker, i, r)
  /\ \A i \in DOMAIN toWorker :
       BeginsAt(toWorker, i, r) /\ status[r] = "canceled" =>
         \E j \in DOMAIN toWorker : j > i /\ StopsAt(toWorker, j, r)
  /\ status[r] \in {"new", "queued"} =>
       wk.prompt[r] = "none" /\ \A i \in DOMAIN toWorker : ~BeginsAt(toWorker, i, r)

CancelInv == WorkerTypes /\ \A r \in Requests : CancelFollows(r)

--------------------------------------------------------------------------------
(* What a step does to the requests, and what the worker is sent with it.   *)

\* A request is never queued again, and only one that has not ended is cancelled.
StatusGoesOn(r) ==
  /\ status'[r] \in {"new", "queued"} => status[r] \in {"new", "queued"}
  /\ status'[r] = "canceled" => status[r] \in {"queued", "running", "canceled"}

\* What the scheduler does with any request.
LEMMA StatusSteps ==
  ASSUME BooksInv, [SchedNext]_schedVars, NEW r \in Requests
  PROVE  StatusGoesOn(r)
  <1> USE DEF BooksInv, SchedTypeOK, BooksAgree, With, StatusGoesOn
  <1>1. CASE UNCHANGED status
    BY <1>1
  <1>2. ASSUME NEW R \in SUBSET (queue \union pending), NEW s \in {"canceled", "done", "error", "running"}, SetStatus(R, s)
        PROVE  StatusGoesOn(r)
    BY <1>2 DEF SetStatus
  <1>3. CASE Call
    <2>1. ASSUME NEW q \in Requests, NEW s \in Sessions, Enqueue(q, s) PROVE StatusGoesOn(r)
      BY <2>1 DEF Enqueue, SetStatus
    <2>2. ASSUME NEW q \in Requests, Complete(q) \/ Fail(q) \/ CancelQueued(q) \/ CancelRunning(q)
          PROVE  StatusGoesOn(r)
      BY <1>2, <2>2 DEF Complete, Fail, CancelQueued, CancelRunning, Leave
    <2>3. CASE CancelAll
      BY <1>2, <2>3 DEF CancelAll, CancelAllWith
    <2>4. ASSUME NEW s \in Sessions, CancelBySession(s) PROVE StatusGoesOn(r)
      BY <1>2, <2>4 DEF CancelBySession
    <2>5. (\E value \in BOOLEAN : SetReady(value)) \/ (\E w \in Waiters : WaitForIdle(w)) => UNCHANGED status
      BY DEF SetReady, WaitForIdle
    <2> QED
      BY <1>1, <1>3, <2>1, <2>2, <2>3, <2>4, <2>5 DEF Call
  <1>4. CASE DrainStep
    BY <1>1, <1>2, <1>4 DEF DrainStep, DrainShift, DrainEnd
  <1> QED
    BY <1>1, <1>3, <1>4 DEF SchedNext, schedVars

\* The parent sends `ms`: with a cancel message for every running prompt it
\* cancels, and with no prompt but one that it dispatches.
Tells(ms) ==
  /\ ms \in Seq(Messages) /\ toWorker' = toWorker \o ms /\ wk' = wk
  /\ \A r \in Requests : status[r] = "running" /\ status'[r] = "canceled" => \E i \in DOMAIN ms : StopsAt(ms, i, r)
  /\ \A i \in DOMAIN ms : \A r \in Requests : BeginsAt(ms, i, r) => status'[r] = "running"

Spared == \A r \in Requests : status[r] = "running" => status'[r] # "canceled"

ParentStep == (\E ms : Tells(ms)) \/ (toWorker' = <<>> /\ wk' = FreshWorker)

LEMMA NothingIsTold ==
  ASSUME WorkerTypes, UNCHANGED <<toWorker, wk>>, Spared
  PROVE  ParentStep
  <1>1. <<>> \in Seq(Messages) /\ DOMAIN <<>> = {}
    OBVIOUS
  <1>2. toWorker \o <<>> = toWorker
    BY ConcatEmptySeq DEF WorkerTypes
  <1> QED
    BY <1>1, <1>2 DEF Tells, ParentStep, Spared

\* One message.
LEMMA OneIsTold ==
  ASSUME NEW m \in Messages, Send(<<m>>), wk' = wk,
         \A r \in Requests : status[r] = "running" /\ status'[r] = "canceled" => m.type = "cancel" /\ r \in m.ids,
         \A r \in Requests : m.type = "prompt" /\ m.id = r => status'[r] = "running"
  PROVE  ParentStep
  <1>1. PICK ms : ms = <<m>>
    OBVIOUS
  <1>2. ms \in Seq(Messages) /\ DOMAIN ms = {1} /\ ms[1] = m
    BY <1>1
  <1>3. Tells(ms)
    BY <1>1, <1>2 DEF Tells, Send, BeginsAt, StopsAt
  <1> QED
    BY <1>3 DEF ParentStep

\* The messages of a boundary.
LEMMA BoundaryIsTold ==
  ASSUME BooksInv, NEW R \in SUBSET (queue \union pending), NEW t \in {"reset_session", "reset_model", "shutdown"},
         NEW s \in Sessions \union {NoSession}, CancelAndSend(R, Operation(t, s)),
         \A r \in Requests : status[r] = "running" /\ status'[r] = "canceled" => r \in R
  PROVE  ParentStep
  <1>1. Operation(t, s) \in Messages /\ Operation(t, s).type \notin {"prompt", "cancel"}
    BY MessageTypes
  <1>2. wk' = wk
    BY DEF CancelAndSend
  <1>3. CASE R = {}
    <2>1. Send(<<Operation(t, s)>>)
      BY <1>3 DEF CancelAndSend
    <2>2. PICK m \in Messages : m = Operation(t, s)
      BY <1>1
    <2> QED
      BY <1>1, <1>2, <1>3, <2>1, <2>2, OneIsTold
  <1>4. CASE R # {}
    <2>1. CancelMessage(R) \in Messages /\ CancelMessage(R).type = "cancel" /\ CancelMessage(R).ids = R
      BY MessageTypes DEF BooksInv, SchedTypeOK
    <2>2. PICK ms : ms = <<CancelMessage(R), Operation(t, s)>>
      OBVIOUS
    <2>3. ms \in Seq(Messages) /\ DOMAIN ms = {1, 2} /\ ms[1] = CancelMessage(R) /\ ms[2] = Operation(t, s)
      BY <1>1, <2>1, <2>2
    <2>4. toWorker' = toWorker \o ms
      BY <1>4, <2>2 DEF CancelAndSend, Send
    <2>5. \A i \in DOMAIN ms : ms[i].type # "prompt"
      BY <1>1, <2>1, <2>3
    <2>6. Tells(ms)
      BY <1>2, <2>1, <2>3, <2>4, <2>5 DEF Tells, BeginsAt, StopsAt
    <2> QED
      BY <2>6 DEF ParentStep
  <1> QED
    BY <1>3, <1>4

LEMMA AttemptIsTold ==
  ASSUME WorkerTypes, NEW in, in.next \in Nat, StartAttempt(in)
  PROVE  ParentStep
  <1>1. PICK m \in Messages : m = InitMessage(in.next + 1) /\ m.type = "init"
    BY MessageTypes
  <1>2. Send(<<m>>) /\ wk' = wk /\ status' = status
    BY <1>1 DEF StartAttempt, SetReady
  <1>3. \A r \in Requests : status[r] = "running" => status'[r] # "canceled"
    BY <1>2
  <1> QED
    BY <1>1, <1>2, <1>3, OneIsTold

LEMMA CycleIsTold ==
  ASSUME WorkerTypes, InitInv, NEW owner, StartCycle(owner)
  PROVE  ParentStep
  <1>1. CASE StartAttempt([init EXCEPT !.owner = owner, !.left = 1])
    <2>1. PICK in : in = [init EXCEPT !.owner = owner, !.left = 1]
      OBVIOUS
    <2>2. in.next \in Nat
      BY <2>1 DEF InitInv, InitRecords
    <2> QED
      BY <1>1, <2>1, <2>2, AttemptIsTold
  <1>2. CASE UNCHANGED <<schedVars, workerVars>>
    BY <1>2, NothingIsTold DEF schedVars, workerVars, Spared
  <1> QED
    BY <1>1, <1>2 DEF StartCycle

\* Every call tells the worker what it has to know.
LEMMA CallsTell ==
  ASSUME BooksInv, WorkerTypes, InitInv, ApiCall
  PROVE  ParentStep
  <1>1. ASSUME UNCHANGED <<toWorker, wk, status>> PROVE ParentStep
    BY <1>1, NothingIsTold DEF Spared
  <1>2. ASSUME NEW owner, InitModel(owner) PROVE ParentStep
    BY <1>2, CycleIsTold DEF InitModel
  <1>3. ASSUME NEW s \in Sessions, Prompt(s) PROVE ParentStep
    <2>1. StartCycle("prompt") \/ UNCHANGED <<schedVars, workerVars>>
      BY <1>3 DEF Prompt
    <2> QED
      BY <1>1, <2>1, CycleIsTold DEF schedVars, workerVars
  <1>4. ASSUME NEW r \in Requests, CancelPrompt(r) PROVE ParentStep
    <2>1. PICK m \in Messages : m = CancelMessage({r}) /\ m.type = "cancel" /\ m.ids = {r}
      BY MessageTypes
    <2>2. Send(<<m>>) /\ wk' = wk
      BY <1>4, <2>1 DEF CancelPrompt
    <2>3. \A q \in Requests : status[q] = "running" /\ status'[q] = "canceled" => q = r
      BY <1>4 DEF CancelPrompt, CancelQueued, CancelRunning, Leave, SetStatus, schedVars
    <2> QED
      BY <2>1, <2>2, <2>3, OneIsTold
  <1>5. ASSUME NEW s \in Sessions, ResetSession(s) PROVE ParentStep
    <2>1. PICK R \in SUBSET (queue \union pending) : R = (queue \union pending) \intersect OfSession(s)
      OBVIOUS
    <2>2. CancelAndSend(R, Operation("reset_session", s)) /\ SetStatus(R, "canceled")
      BY <1>5, <2>1 DEF ResetSession, CancelBySession
    <2>3. \A r \in Requests : status[r] = "running" /\ status'[r] = "canceled" => r \in R
      BY <2>2 DEF SetStatus
    <2> QED
      BY <2>2, <2>3, BoundaryIsTold
  <1>6. ASSUME CancelAllWith(FALSE), NEW t \in {"reset_model", "shutdown"},
               CancelAndSend(queue \union pending, Operation(t, NoSession))
        PROVE  ParentStep
    <2>1. \A r \in Requests : status[r] = "running" /\ status'[r] = "canceled" => r \in queue \union pending
      BY <1>6 DEF CancelAllWith, SetStatus
    <2> QED
      BY <1>6, <2>1, BoundaryIsTold
  <1>7. CASE ResetModel
    BY <1>6, <1>7 DEF ResetModel
  <1>8. ASSUME NEW mode, Shutdown(mode) PROVE ParentStep
    <2>1. CASE mode = "abort"
      BY <1>6, <1>8, <2>1 DEF Shutdown
    <2>2. CASE mode # "abort"
      BY <1>1, <1>8, <2>2 DEF Shutdown, WaitForIdle, workerVars
    <2> QED
      BY <2>1, <2>2
  <1> QED
    BY <1>2, <1>3, <1>4, <1>5, <1>7, <1>8 DEF ApiCall

\* So does the router, and every timer and microtask.
LEMMA MessagesTell ==
  ASSUME BooksInv, WorkerTypes, HandleWorkerMessage
  PROVE  ParentStep
  <1>1. ASSUME UNCHANGED <<toWorker, wk>>, Spared PROVE ParentStep
    BY <1>1, NothingIsTold
  <1>2. Terminate => ParentStep
    BY DEF Terminate, ParentStep
  <1>3. Keep => UNCHANGED <<toWorker, wk>>
    BY DEF Keep
  <1>4. UNCHANGED schedVars => Spared
    BY DEF schedVars, Spared
  <1>5. ASSUME NEW r, Complete(r) \/ Fail(r) PROVE Spared
    BY <1>5 DEF Complete, Fail, Leave, SetStatus, Spared
  <1>6. CASE HandleReady
    BY <1>1, <1>3, <1>4, <1>6 DEF HandleReady, SetReady, Spared
  <1>7. CASE HandleResetDone
    BY <1>1, <1>3, <1>4, <1>7 DEF HandleResetDone
  <1>8. CASE HandleModelResetDone \/ HandleShutdownDone
    BY <1>1, <1>2, <1>3, <1>4, <1>8 DEF HandleModelResetDone, HandleShutdownDone
  <1>9. CASE HandleDone
    BY <1>1, <1>3, <1>4, <1>5, <1>9 DEF HandleDone
  <1>10. CASE HandleError
    <2>1. Keep \/ RejectReady
      BY <1>10 DEF HandleError
    <2>2. UNCHANGED schedVars \/ Fail(Head(fromWorker).id)
      BY <1>10 DEF HandleError
    <2>3. Keep \/ Terminate
      BY <2>1 DEF RejectReady, AttemptFails
    <2> QED
      BY <1>1, <1>2, <1>3, <1>4, <1>5, <2>2, <2>3
  <1> QED
    BY <1>6, <1>7, <1>8, <1>9, <1>10 DEF HandleWorkerMessage

LEMMA ParentSteps ==
  ASSUME BooksInv, WorkerTypes, InitInv, [Next]_vars
  PROVE  ParentStep \/ (Worker /\ UNCHANGED status)
  <1>1. ASSUME UNCHANGED <<toWorker, wk, status>> PROVE ParentStep
    BY <1>1, NothingIsTold DEF Spared
  <1>2. CASE UNCHANGED vars
    BY <1>1, <1>2 DEF vars, schedVars, workerVars
  <1>3. CASE Failure
    <2>1. CASE ReadyTimesOut
      BY <2>1 DEF ReadyTimesOut, AttemptFails, Terminate, ParentStep
    <2>2. CASE Failure /\ ~ReadyTimesOut
      BY <1>1, <2>2 DEF Failure, PlanFails, ModelResetTimesOut, ShutdownTimesOut, SessionResetTimesOut,
                        schedVars, workerVars
    <2> QED
      BY <1>3, <2>1, <2>2
  <1>4. CASE Worker
    BY <1>4 DEF Worker, schedVars
  <1>5. CASE Planned
    <2>1. PICK in : in = [init EXCEPT !.left = InitAttempts]
      OBVIOUS
    <2>2. in.next \in Nat
      BY <2>1 DEF InitInv, InitRecords
    <2> QED
      BY <1>5, <2>1, <2>2, AttemptIsTold DEF Planned
  <1>6. CASE Rested
    BY <1>6, AttemptIsTold DEF Rested, InitInv, InitRecords
  <1>7. CASE AttemptStopped
    <2>1. SetReady(FALSE) \/ UNCHANGED schedVars
      BY <1>7 DEF AttemptStopped
    <2>2. UNCHANGED <<toWorker, wk>>
      BY <1>7 DEF AttemptStopped
    <2> QED
      BY <1>1, <2>1, <2>2 DEF SetReady, schedVars
  <1>8. ASSUME NEW s \in Sessions, PromptResumes(s) PROVE ParentStep
    <2>1. UNCHANGED <<toWorker, wk>>
      BY <1>8 DEF PromptResumes, workerVars
    <2>2. (\E r \in Requests : Enqueue(r, s)) \/ UNCHANGED schedVars
      BY <1>8 DEF PromptResumes
    <2>3. Spared
      BY <2>2 DEF Enqueue, SetStatus, schedVars, Spared
    <2> QED
      BY <2>1, <2>3, NothingIsTold
  <1>9. CASE Dispatch
    <2>1. PICK r \in Requests :
            DrainShift(r) /\ Send(IF status'[r] = "running" THEN <<PromptMessage(r)>> ELSE <<>>)
      BY <1>9 DEF Dispatch
    <2>2. wk' = wk
      BY <1>9 DEF Dispatch
    <2>3. \A q \in Requests : status[q] = "running" => status'[q] # "canceled"
      BY <2>1 DEF DrainShift, SetStatus
    <2>4. CASE status'[r] = "running"
      <3>1. PICK m \in Messages : m = PromptMessage(r) /\ m.type = "prompt" /\ m.id = r
        BY MessageTypes
      <3> QED
        BY <2>1, <2>2, <2>3, <2>4, <3>1, OneIsTold
    <2>5. CASE status'[r] # "running"
      <3>1. toWorker' = toWorker
        BY <2>1, <2>5, ConcatEmptySeq DEF Send, WorkerTypes
      <3> QED
        BY <2>2, <2>3, <3>1, NothingIsTold DEF Spared
    <2> QED
      BY <2>4, <2>5
  <1>10. CASE DispatchEnds
    BY <1>1, <1>10 DEF DispatchEnds, DrainEnd, workerVars
  <1>11. CASE ModelResetStopped
    BY <1>1, <1>11, CycleIsTold DEF ModelResetStopped, schedVars, workerVars
  <1>12. CASE ShutdownDrained
    <2>1. PICK R \in SUBSET (queue \union pending) : R = {}
      OBVIOUS
    <2>2. CancelAndSend(R, Operation("shutdown", NoSession)) /\ status' = status
      BY <1>12, <2>1 DEF ShutdownDrained, schedVars
    <2>3. \A r \in Requests : status[r] = "running" /\ status'[r] = "canceled" => r \in R
      BY <2>2
    <2> QED
      BY <2>2, <2>3, BoundaryIsTold
  <1>13. CASE DrainTimesOut
    <2>1. CancelAllWith(FALSE) /\ CancelAndSend(queue \union pending, Operation("shutdown", NoSession))
      BY <1>13 DEF DrainTimesOut
    <2>2. \A r \in Requests : status[r] = "running" /\ status'[r] = "canceled" => r \in queue \union pending
      BY <2>1 DEF CancelAllWith, SetStatus
    <2> QED
      BY <2>1, <2>2, BoundaryIsTold
  <1>14. CASE ShutdownStopped
    BY <1>1, <1>14 DEF ShutdownStopped, schedVars, workerVars
  <1> QED
    BY <1>2, <1>3, <1>4, <1>5, <1>6, <1>7, <1>8, <1>9, <1>10, <1>11, <1>12, <1>13, <1>14, CallsTell, MessagesTell
       DEF Next

--------------------------------------------------------------------------------
(* What the worker does with what it is sent.                               *)

\* The state of a prompt changes as its own end or the message at hand says.
TellsPrompt(r) ==
  /\ wk'.prompt[r] # "none" => wk.prompt[r] # "none" \/ (toWorker # <<>> /\ BeginsAt(toWorker, 1, r))
  /\ wk'.prompt[r] = "running" =>
       \/ wk.prompt[r] = "running" /\ (toWorker' = toWorker \/ ~StopsAt(toWorker, 1, r))
       \/ toWorker # <<>> /\ toWorker' = Tail(toWorker) /\ BeginsAt(toWorker, 1, r)

WorkerHears ==
  /\ "prompt" \in DOMAIN wk' /\ wk'.prompt \in [Requests -> {"none", "running", "aborting"}]
  /\ toWorker' = toWorker \/ (toWorker # <<>> /\ toWorker' = Tail(toWorker))
  /\ \A r \in Requests : TellsPrompt(r)

LEMMA WorkerSteps ==
  ASSUME WorkerTypes, Worker
  PROVE  WorkerHears
  <1> USE DEF WorkerTypes
  <1>1. ASSUME "prompt" \in DOMAIN wk', wk'.prompt = wk.prompt, UNCHANGED toWorker PROVE WorkerHears
    BY <1>1 DEF WorkerHears, TellsPrompt
  <1>2. ASSUME "prompt" \in DOMAIN wk', wk'.prompt = wk.prompt, toWorker # <<>>, toWorker' = Tail(toWorker),
               Head(toWorker).type \notin {"prompt", "cancel"}
        PROVE  WorkerHears
    BY <1>2 DEF WorkerHears, TellsPrompt, BeginsAt, StopsAt
  <1>3. CASE ReceiveInit
    BY <1>2, <1>3 DEF ReceiveInit, Received
  <1>4. CASE ReceiveOperation
    BY <1>2, <1>4 DEF ReceiveOperation, Received
  <1>5. CASE ModelLoads \/ ModelLoadFails
    BY <1>1, <1>5 DEF ModelLoads, ModelLoadFails
  <1>6. CASE OperationEnds \/ OperationFails
    BY <1>1, <1>6 DEF OperationEnds, OperationFails, NextOperation
  <1>7. CASE ReceivePrompt
    <2>1. toWorker # <<>> /\ toWorker' = Tail(toWorker) /\ toWorker[1].type = "prompt"
      BY <1>7 DEF ReceivePrompt, Received
    <2>2. wk' = wk \/ wk' = [wk EXCEPT !.prompt[toWorker[1].id] = "running"]
      BY <1>7, <2>1 DEF ReceivePrompt
    <2> QED
      BY <2>1, <2>2 DEF WorkerHears, TellsPrompt, BeginsAt, StopsAt
  <1>8. CASE ReceiveCancel
    <2>1. toWorker # <<>> /\ toWorker' = Tail(toWorker) /\ toWorker[1].type = "cancel"
      BY <1>8 DEF ReceiveCancel, Received
    <2>2. wk' = [wk EXCEPT !.prompt = Aborting(toWorker[1].ids)]
      BY <1>8, <2>1 DEF ReceiveCancel
    <2> QED
      BY <2>1, <2>2 DEF WorkerHears, TellsPrompt, BeginsAt, StopsAt, Aborting
  <1>9. ASSUME NEW q \in Requests, PromptEnds(q) PROVE WorkerHears
    BY <1>9 DEF PromptEnds, PromptCompletes, PromptAborts, PromptFails, EndPrompt, WorkerHears, TellsPrompt
  <1>10. CASE OperationBegins
    <2>1. UNCHANGED toWorker
      BY <1>10 DEF OperationBegins
    <2>2. CASE wk' = NextOperation
      BY <1>1, <2>1, <2>2 DEF NextOperation
    <2>3. ASSUME NEW R, "prompt" \in DOMAIN wk', wk'.prompt = Aborting(R) PROVE WorkerHears
      BY <2>1, <2>3 DEF WorkerHears, TellsPrompt, Aborting
    <2> QED
      BY <1>10, <2>2, <2>3 DEF OperationBegins
  <1> QED
    BY <1>3, <1>4, <1>5, <1>6, <1>7, <1>8, <1>9, <1>10 DEF Worker, WorkerStep

--------------------------------------------------------------------------------
(* The invariant.                                                           *)

\* The messages that are still to come after the first one.
LEMMA RestOfMessages ==
  ASSUME WorkerTypes, toWorker # <<>>
  PROVE  /\ Tail(toWorker) \in Seq(Messages) /\ 1 \in DOMAIN toWorker
         /\ \A i \in DOMAIN Tail(toWorker) : i + 1 \in DOMAIN toWorker /\ Tail(toWorker)[i] = toWorker[i + 1]
         /\ \A i \in DOMAIN toWorker : i > 1 => i - 1 \in DOMAIN Tail(toWorker) /\ Tail(toWorker)[i - 1] = toWorker[i]
  <1>1. /\ toWorker \in Seq(Messages) /\ Len(toWorker) \in Nat /\ DOMAIN toWorker = 1..Len(toWorker)
        /\ Len(toWorker) # 0
    BY LenProperties, EmptySeq DEF WorkerTypes
  <1>2. PICK n : n = Tail(toWorker)
    OBVIOUS
  <1>3. n \in Seq(Messages) /\ Len(n) = Len(toWorker) - 1 /\ \A i \in 1..Len(n) : n[i] = toWorker[i + 1]
    BY <1>1, <1>2, HeadTailProperties
  <1>4. DOMAIN n = 1..(Len(toWorker) - 1)
    BY <1>3, LenProperties
  <1>5. ASSUME NEW i \in DOMAIN n PROVE i + 1 \in DOMAIN toWorker /\ n[i] = toWorker[i + 1]
    BY <1>1, <1>3, <1>4
  <1>6. ASSUME NEW i \in DOMAIN toWorker, i > 1 PROVE i - 1 \in DOMAIN n /\ n[i - 1] = toWorker[i]
    <2>1. i - 1 \in 1..(Len(toWorker) - 1) /\ i - 1 + 1 = i
      BY <1>1, <1>6
    <2> QED
      BY <1>3, <1>4, <2>1
  <1> QED
    BY <1>1, <1>2, <1>3, <1>5, <1>6

\* The messages with some more.
LEMMA MoreMessages ==
  ASSUME WorkerTypes, NEW ms \in Seq(Messages)
  PROVE  /\ toWorker \o ms \in Seq(Messages)
         /\ \A i \in DOMAIN toWorker : i \in DOMAIN (toWorker \o ms) /\ (toWorker \o ms)[i] = toWorker[i]
         /\ \A j \in DOMAIN ms :
              /\ Len(toWorker) + j \in DOMAIN (toWorker \o ms) /\ (toWorker \o ms)[Len(toWorker) + j] = ms[j]
              /\ \A i \in DOMAIN toWorker : Len(toWorker) + j > i
         /\ \A i \in DOMAIN (toWorker \o ms) : i \in DOMAIN toWorker \/ \E j \in DOMAIN ms : i = Len(toWorker) + j
  <1>1. /\ toWorker \in Seq(Messages) /\ Len(toWorker) \in Nat /\ DOMAIN toWorker = 1..Len(toWorker)
        /\ Len(ms) \in Nat /\ DOMAIN ms = 1..Len(ms)
    BY LenProperties DEF WorkerTypes
  <1>2. PICK n : n = toWorker \o ms
    OBVIOUS
  <1>3. /\ n \in Seq(Messages) /\ Len(n) = Len(toWorker) + Len(ms)
        /\ \A i \in 1..(Len(toWorker) + Len(ms)) :
             n[i] = IF i <= Len(toWorker) THEN toWorker[i] ELSE ms[i - Len(toWorker)]
    BY <1>1, <1>2, ConcatProperties
  <1>4. DOMAIN n = 1..(Len(toWorker) + Len(ms))
    BY <1>3, LenProperties
  <1>5. ASSUME NEW i \in DOMAIN toWorker PROVE i \in DOMAIN n /\ n[i] = toWorker[i]
    BY <1>1, <1>3, <1>4
  <1>6. ASSUME NEW j \in DOMAIN ms
        PROVE  /\ Len(toWorker) + j \in DOMAIN n /\ n[Len(toWorker) + j] = ms[j]
               /\ \A i \in DOMAIN toWorker : Len(toWorker) + j > i
    <2>1. Len(toWorker) + j \in 1..(Len(toWorker) + Len(ms)) /\ ~(Len(toWorker) + j <= Len(toWorker))
          /\ Len(toWorker) + j - Len(toWorker) = j
      BY <1>1
    <2> QED
      BY <1>1, <1>3, <1>4, <2>1
  <1>7. ASSUME NEW i \in DOMAIN n PROVE i \in DOMAIN toWorker \/ \E j \in DOMAIN ms : i = Len(toWorker) + j
    <2>1. CASE i > Len(toWorker)
      <3>1. i - Len(toWorker) \in DOMAIN ms /\ i = Len(toWorker) + (i - Len(toWorker))
        BY <1>1, <1>4, <2>1
      <3> QED
        BY <3>1
    <2>2. CASE ~(i > Len(toWorker))
      BY <1>1, <1>4, <2>2
    <2> QED
      BY <2>1, <2>2
  <1> QED
    BY <1>2, <1>3, <1>5, <1>6, <1>7

\* What the parent sends keeps the invariant.
LEMMA TellingKeeps ==
  ASSUME CancelInv, NEW ms, Tells(ms), \A r \in Requests : StatusGoesOn(r)
  PROVE  CancelInv'
  <1>1. PICK n : n = toWorker /\ ms \in Seq(Messages) /\ toWorker' = n \o ms /\ wk' = wk
    BY DEF Tells
  <1>2. PICK k : k = Len(toWorker)
    OBVIOUS
  <1>3. /\ toWorker' \in Seq(Messages)
        /\ \A i \in DOMAIN toWorker : i \in DOMAIN toWorker' /\ toWorker'[i] = toWorker[i]
        /\ \A j \in DOMAIN ms :
             k + j \in DOMAIN toWorker' /\ toWorker'[k + j] = ms[j] /\ \A i \in DOMAIN toWorker : k + j > i
        /\ \A i \in DOMAIN toWorker' : i \in DOMAIN toWorker \/ \E j \in DOMAIN ms : i = k + j
    BY <1>1, <1>2, MoreMessages DEF CancelInv
  <1>4. WorkerTypes'
    BY <1>1, <1>3 DEF CancelInv, WorkerTypes
  <1>5. ASSUME NEW r \in Requests PROVE CancelFollows(r)'
    <2>1. CancelFollows(r) /\ StatusGoesOn(r)
      BY DEF CancelInv
    <2>2. ASSUME NEW i \in DOMAIN toWorker', BeginsAt(toWorker', i, r)
          PROVE  status'[r] = "running" \/ (i \in DOMAIN toWorker /\ BeginsAt(toWorker, i, r))
      <3>1. CASE i \in DOMAIN toWorker
        BY <1>3, <2>2, <3>1 DEF BeginsAt
      <3>2. ASSUME NEW j \in DOMAIN ms, i = k + j PROVE status'[r] = "running"
        <4>1. BeginsAt(ms, j, r)
          BY <1>3, <2>2, <3>2 DEF BeginsAt
        <4> QED
          BY <4>1 DEF Tells
      <3> QED
        BY <1>3, <3>1, <3>2
    <2>3. ASSUME status[r] = "running", status'[r] = "canceled"
          PROVE  \E j \in DOMAIN toWorker' : StopsAt(toWorker', j, r) /\ \A i \in DOMAIN toWorker : j > i
      <3>1. PICK j \in DOMAIN ms : StopsAt(ms, j, r)
        BY <2>3 DEF Tells
      <3>2. k + j \in DOMAIN toWorker' /\ StopsAt(toWorker', k + j, r) /\ \A i \in DOMAIN toWorker : k + j > i
        BY <1>3, <3>1 DEF StopsAt
      <3> QED
        BY <3>2
    <2>4. ASSUME NEW j \in DOMAIN toWorker, StopsAt(toWorker, j, r)
          PROVE  j \in DOMAIN toWorker' /\ StopsAt(toWorker', j, r)
      BY <1>3, <2>4 DEF StopsAt
    <2>5. ASSUME wk'.prompt[r] = "running", status'[r] = "canceled"
          PROVE  \E i \in DOMAIN toWorker' : StopsAt(toWorker', i, r)
      BY <1>1, <2>1, <2>3, <2>4, <2>5 DEF CancelFollows, StatusGoesOn
    <2>6. ASSUME NEW i \in DOMAIN toWorker', BeginsAt(toWorker', i, r), status'[r] = "canceled"
          PROVE  \E j \in DOMAIN toWorker' : j > i /\ StopsAt(toWorker', j, r)
      <3>1. i \in DOMAIN toWorker /\ BeginsAt(toWorker, i, r)
        BY <2>2, <2>6
      <3>2. status[r] \in {"running", "canceled"}
        BY <2>1, <2>6, <3>1 DEF CancelFollows, StatusGoesOn
      <3> QED
        BY <2>1, <2>3, <2>4, <2>6, <3>1, <3>2 DEF CancelFollows
    <2>7. ASSUME status'[r] \in {"new", "queued"}
          PROVE  wk'.prompt[r] = "none" /\ \A i \in DOMAIN toWorker' : ~BeginsAt(toWorker', i, r)
      <3>1. status[r] \in {"new", "queued"}
        BY <2>1, <2>7 DEF StatusGoesOn
      <3> QED
        BY <1>1, <2>1, <2>2, <2>7, <3>1 DEF CancelFollows
    <2> QED
      BY <2>5, <2>6, <2>7 DEF CancelFollows, BeginsAt, StopsAt
  <1> QED
    BY <1>4, <1>5 DEF CancelInv

\* So does what the worker does.
LEMMA HearingKeeps ==
  ASSUME CancelInv, WorkerHears, UNCHANGED status
  PROVE  CancelInv'
  <1>1. CASE toWorker' = toWorker
    <2>1. WorkerTypes'
      BY <1>1 DEF CancelInv, WorkerTypes, WorkerHears
    <2>2. ASSUME NEW r \in Requests PROVE CancelFollows(r)'
      <3>1. CancelFollows(r) /\ TellsPrompt(r)
        BY DEF CancelInv, WorkerHears
      <3>2. wk'.prompt[r] = "running" /\ status[r] = "canceled" => \E i \in DOMAIN toWorker : StopsAt(toWorker, i, r)
        <4>1. CASE wk.prompt[r] = "running"
          BY <3>1, <4>1 DEF CancelFollows
        <4>2. CASE toWorker # <<>> /\ BeginsAt(toWorker, 1, r)
          <5>1. 1 \in DOMAIN toWorker
            BY <4>2, RestOfMessages DEF CancelInv
          <5> QED
            BY <3>1, <4>2, <5>1 DEF CancelFollows
        <4> QED
          BY <3>1, <4>1, <4>2 DEF TellsPrompt
      <3>3. wk'.prompt[r] # "none" => status[r] \notin {"new", "queued"}
        <4>1. CASE toWorker # <<>> /\ BeginsAt(toWorker, 1, r)
          <5>1. 1 \in DOMAIN toWorker
            BY <4>1, RestOfMessages DEF CancelInv
          <5> QED
            BY <3>1, <4>1, <5>1 DEF CancelFollows
        <4> QED
          BY <3>1, <4>1 DEF TellsPrompt, CancelFollows
      <3> QED
        BY <1>1, <3>1, <3>2, <3>3 DEF CancelFollows, BeginsAt, StopsAt
    <2> QED
      BY <2>1, <2>2 DEF CancelInv
  <1>2. CASE toWorker # <<>> /\ toWorker' = Tail(toWorker)
    <2>1. /\ toWorker' \in Seq(Messages) /\ 1 \in DOMAIN toWorker
          /\ \A i \in DOMAIN toWorker' : i + 1 \in DOMAIN toWorker /\ toWorker'[i] = toWorker[i + 1]
          /\ \A i \in DOMAIN toWorker : i > 1 => i - 1 \in DOMAIN toWorker' /\ toWorker'[i - 1] = toWorker[i]
      BY <1>2, RestOfMessages DEF CancelInv
    <2>2. DOMAIN toWorker \subseteq Nat \ {0} /\ DOMAIN toWorker' \subseteq Nat \ {0}
      BY <2>1, LenProperties DEF CancelInv, WorkerTypes
    <2>3. WorkerTypes'
      BY <2>1 DEF CancelInv, WorkerTypes, WorkerHears
    <2>4. ASSUME NEW r \in Requests PROVE CancelFollows(r)'
      <3>1. CancelFollows(r) /\ TellsPrompt(r)
        BY DEF CancelInv, WorkerHears
      <3>2. ASSUME NEW i \in DOMAIN toWorker', BeginsAt(toWorker', i, r)
            PROVE  i + 1 \in DOMAIN toWorker /\ BeginsAt(toWorker, i + 1, r)
        BY <2>1, <3>2 DEF BeginsAt
      <3>3. ASSUME NEW j \in DOMAIN toWorker, j > 1, StopsAt(toWorker, j, r)
            PROVE  j - 1 \in DOMAIN toWorker' /\ StopsAt(toWorker', j - 1, r)
        BY <2>1, <3>3 DEF StopsAt
      <3>4. ASSUME wk'.prompt[r] = "running", status[r] = "canceled"
            PROVE  \E i \in DOMAIN toWorker' : StopsAt(toWorker', i, r)
        <4>1. CASE wk.prompt[r] = "running" /\ ~StopsAt(toWorker, 1, r)
          <5>1. PICK j \in DOMAIN toWorker : StopsAt(toWorker, j, r)
            BY <3>1, <3>4, <4>1 DEF CancelFollows
          <5>2. j > 1
            BY <2>2, <4>1, <5>1
          <5> QED
            BY <3>3, <5>1, <5>2
        <4>2. CASE BeginsAt(toWorker, 1, r)
          <5>1. PICK j \in DOMAIN toWorker : j > 1 /\ StopsAt(toWorker, j, r)
            BY <2>1, <3>1, <3>4, <4>2 DEF CancelFollows
          <5> QED
            BY <3>3, <5>1
        <4>3. toWorker' # toWorker
          <5>1. Len(toWorker) \in Nat /\ Len(toWorker') = Len(toWorker) - 1
            BY <1>2, HeadTailProperties, LenProperties DEF CancelInv, WorkerTypes
          <5>2. ASSUME NEW n \in Nat PROVE n - 1 # n
            OBVIOUS
          <5> QED
            BY <5>1, <5>2
        <4> QED
          BY <3>1, <3>4, <4>1, <4>2, <4>3 DEF TellsPrompt
      <3>5. ASSUME NEW i \in DOMAIN toWorker', BeginsAt(toWorker', i, r), status[r] = "canceled"
            PROVE  \E j \in DOMAIN toWorker' : j > i /\ StopsAt(toWorker', j, r)
        <4>1. PICK j \in DOMAIN toWorker : j > i + 1 /\ StopsAt(toWorker, j, r)
          BY <3>1, <3>2, <3>5 DEF CancelFollows
        <4>2. j > 1 /\ j - 1 > i
          BY <2>2, <4>1
        <4> QED
          BY <3>3, <4>1, <4>2
      <3>6. ASSUME status[r] \in {"new", "queued"}
            PROVE  wk'.prompt[r] = "none" /\ \A i \in DOMAIN toWorker' : ~BeginsAt(toWorker', i, r)
        BY <2>1, <3>1, <3>2, <3>6 DEF CancelFollows, TellsPrompt
      <3> QED
        BY <3>4, <3>5, <3>6 DEF CancelFollows, BeginsAt, StopsAt
    <2> QED
      BY <2>3, <2>4 DEF CancelInv
  <1> QED
    BY <1>1, <1>2 DEF WorkerHears

\* A new worker knows of no request.
LEMMA FreshKeeps ==
  ASSUME toWorker = <<>>, wk = FreshWorker
  PROVE  CancelInv
  <1>1. toWorker \in Seq(Messages) /\ DOMAIN toWorker = {}
    OBVIOUS
  <1>2. "prompt" \in DOMAIN wk /\ wk.prompt = [r \in Requests |-> "none"]
    BY DEF FreshWorker
  <1> QED
    BY <1>1, <1>2 DEF CancelInv, WorkerTypes, CancelFollows

LEMMA CancelHolds == Spec => []CancelInv
  <1>1. Init => CancelInv
    BY FreshKeeps DEF Init, WorkerInit
  <1>2. ASSUME BooksInv, InitInv, CancelInv, [Next]_vars PROVE CancelInv'
    <2>1. ParentStep \/ (Worker /\ UNCHANGED status)
      BY <1>2, ParentSteps DEF CancelInv
    <2>2. \A r \in Requests : StatusGoesOn(r)
      BY <1>2, StepsAreSteps, StatusSteps DEF SchedulerStep, BooksInv
    <2>3. ASSUME toWorker' = <<>>, wk' = FreshWorker PROVE CancelInv'
      <3>1. (toWorker = <<>> /\ wk = FreshWorker)'
        BY <2>3 DEF FreshWorker
      <3> QED
        BY <3>1, FreshKeeps, PTL
    <2> QED
      BY <1>2, <2>1, <2>2, <2>3, TellingKeeps, HearingKeeps, WorkerSteps DEF ParentStep, CancelInv
  <1>3. LifeInv => InitInv
    BY DEF LifeInv, InitInv
  <1> QED
    BY <1>1, <1>2, <1>3, BooksHold, LifeHolds, PTL DEF Spec

\* A prompt that was cancelled does not go on generating (NoOrphanPrompt): the
\* cancel message of cancelPrompt(), of a reset and of a shutdown comes after the
\* prompt message, and nothing comes before the worker has handled it that could
\* lose it but the end of the worker.
THEOREM CancelledPromptsStop == Spec => []NoOrphanPrompt
  <1>1. CancelInv => NoOrphanPrompt
    BY DEF CancelInv, CancelFollows, NoOrphanPrompt, Queued, StopsAt
  <1> QED
    BY <1>1, CancelHolds, PTL
================================================================================
