------------------------------ MODULE RuntimeProofs ------------------------------
(***************************************************************************)
(* What holds of the runtime for any number of requests, sessions, calls,  *)
(* attempts and failures: it uses its scheduler as the scheduler expects,  *)
(* so that all that is proved of the scheduler is true of it; nothing is   *)
(* queued or running while the model is reset or the runtime goes down; an *)
(* init cycle makes no more attempts than its plan has.                    *)
(***************************************************************************)
EXTENDS RuntimeLifecycle, SchedulerProofs

--------------------------------------------------------------------------------
(* Every step is one of the scheduler's.                                    *)

\* A step is the scheduler's or leaves it alone; requests are queued only while
\* prompts are admitted, and only a shutdown waits for the scheduler to be idle.
SchedulerStep ==
  /\ [SchedNext]_schedVars
  /\ Operational \/ queue' \subseteq queue
  /\ shutdown' # "off" \/ \A w \in Waiters : idle[w] = "none" => idle'[w] = "none"

\* An operation of the scheduler is called when no other code runs.
LEMMA CallsAreSteps ==
  ASSUME ~Busy
  PROVE  /\ \A value \in BOOLEAN : SetReady(value) => SchedulerStep
         /\ \A r \in Requests, s \in Sessions : Enqueue(r, s) /\ Operational => SchedulerStep
         /\ \A r \in Requests :
              Complete(r) \/ Fail(r) \/ CancelQueued(r) \/ CancelRunning(r) => SchedulerStep
         /\ CancelAllWith(FALSE) => SchedulerStep
         /\ \A s \in Sessions : CancelBySession(s) => SchedulerStep
         /\ \A w \in Waiters : WaitForIdle(w) /\ shutdown' # "off" => SchedulerStep
  <1>1. \A value \in BOOLEAN : SetReady(value) => SchedulerStep
    BY DEF SchedulerStep, SchedNext, Call, SetReady
  <1>2. \A r \in Requests, s \in Sessions : Enqueue(r, s) /\ Operational => SchedulerStep
    BY DEF SchedulerStep, SchedNext, Call, Enqueue
  <1>3. \A r \in Requests :
          Complete(r) \/ Fail(r) \/ CancelQueued(r) \/ CancelRunning(r) => SchedulerStep
    <2>1. ASSUME NEW r \in Requests, Complete(r) \/ Fail(r) \/ CancelQueued(r) \/ CancelRunning(r)
          PROVE  queue' \subseteq queue /\ NotifyIdleWaiters
      BY <2>1 DEF Complete, Fail, CancelQueued, CancelRunning, Leave
    <2>2. NotifyIdleWaiters => \A w \in Waiters : idle[w] = "none" => idle'[w] = "none"
      BY DEF NotifyIdleWaiters
    <2> QED
      BY <2>1, <2>2 DEF SchedulerStep, SchedNext, Call
  <1>4. CancelAllWith(FALSE) => SchedulerStep
    BY DEF SchedulerStep, SchedNext, Call, CancelAll, CancelAllWith, NotifyIdleWaiters
  <1>5. \A s \in Sessions : CancelBySession(s) => SchedulerStep
    BY DEF SchedulerStep, SchedNext, Call, CancelBySession, NotifyIdleWaiters
  <1>6. \A w \in Waiters : WaitForIdle(w) /\ shutdown' # "off" => SchedulerStep
    BY DEF SchedulerStep, SchedNext, Call, WaitForIdle
  <1> QED
    BY <1>1, <1>2, <1>3, <1>4, <1>5, <1>6

LEMMA StutterIsAStep == UNCHANGED schedVars => SchedulerStep
  BY DEF SchedulerStep, schedVars

LEMMA QuietIsNotBusy == Quiet \/ CallTime => ~Busy
  BY DEF Quiet, CallTime, Busy

LEMMA CyclesAreSteps ==
  ASSUME ~Busy
  PROVE  /\ \A in : StartAttempt(in) => SchedulerStep
         /\ \A owner : StartCycle(owner) => SchedulerStep
  <1>1. \A in : StartAttempt(in) => SchedulerStep
    BY CallsAreSteps, StutterIsAStep DEF StartAttempt
  <1> QED
    BY <1>1, StutterIsAStep DEF StartCycle

LEMMA ApiCallsAreSteps == ApiCall => SchedulerStep
  <1>1. ASSUME NEW owner, InitModel(owner) PROVE SchedulerStep
    BY <1>1, QuietIsNotBusy, CyclesAreSteps, StutterIsAStep DEF InitModel
  <1>2. ASSUME NEW s \in Sessions, Prompt(s) PROVE SchedulerStep
    <2>1. ~Busy
      BY <1>2, QuietIsNotBusy DEF Prompt
    <2>2. StartCycle("prompt") \/ UNCHANGED schedVars
      BY <1>2 DEF Prompt
    <2> QED
      BY <2>1, <2>2, CyclesAreSteps, StutterIsAStep
  <1>3. ASSUME NEW r \in Requests, CancelPrompt(r) PROVE SchedulerStep
    <2>1. ~Busy
      BY <1>3, QuietIsNotBusy DEF CancelPrompt, Calling
    <2>2. CancelQueued(r) \/ CancelRunning(r) \/ UNCHANGED schedVars
      BY <1>3 DEF CancelPrompt
    <2> QED
      BY <2>1, <2>2, CallsAreSteps, StutterIsAStep
  <1>4. ASSUME NEW s \in Sessions, ResetSession(s) PROVE SchedulerStep
    BY <1>4, QuietIsNotBusy, CallsAreSteps, StutterIsAStep DEF ResetSession, Calling
  <1>5. ASSUME ResetModel PROVE SchedulerStep
    BY <1>5, QuietIsNotBusy, CallsAreSteps, StutterIsAStep DEF ResetModel, Calling
  <1>6. ASSUME NEW mode, Shutdown(mode) PROVE SchedulerStep
    <2>1. ~Busy
      BY <1>6, QuietIsNotBusy DEF Shutdown, Calling
    <2>2. CancelAllWith(FALSE) \/ (shutdown' # "off" /\ \E w \in Waiters : WaitForIdle(w))
      BY <1>6 DEF Shutdown
    <2> QED
      BY <2>1, <2>2, CallsAreSteps, StutterIsAStep
  <1> QED
    BY <1>1, <1>2, <1>3, <1>4, <1>5, <1>6 DEF ApiCall

LEMMA MessagesAreSteps == SchedTypeOK /\ HandleWorkerMessage => SchedulerStep
  <1> SUFFICES ASSUME SchedTypeOK, HandleWorkerMessage PROVE SchedulerStep
    OBVIOUS
  <1>1. ~Busy
    BY QuietIsNotBusy DEF HandleWorkerMessage, HandleReady, HandleResetDone, HandleModelResetDone,
                          HandleShutdownDone, HandleDone, HandleError, Handling
  <1>2. pending \subseteq Requests
    BY DEF SchedTypeOK
  <1>3. CASE HandleReady
    BY <1>1, <1>3, CallsAreSteps, StutterIsAStep DEF HandleReady
  <1>4. CASE HandleResetDone \/ HandleModelResetDone \/ HandleShutdownDone
    BY <1>4, StutterIsAStep DEF HandleResetDone, HandleModelResetDone, HandleShutdownDone
  <1>5. CASE HandleDone
    BY <1>1, <1>2, <1>5, CallsAreSteps, StutterIsAStep DEF HandleDone
  <1>6. CASE HandleError
    <2> DEFINE r == Head(fromWorker).id
    <2>1. (r \in pending /\ Fail(r)) \/ UNCHANGED schedVars
      BY <1>6 DEF HandleError
    <2> QED
      BY <1>1, <1>2, <2>1, CallsAreSteps, StutterIsAStep
  <1> QED
    BY <1>3, <1>4, <1>5, <1>6 DEF HandleWorkerMessage

LEMMA StepsAreSteps == SchedTypeOK /\ [Next]_vars => SchedulerStep
  <1> SUFFICES ASSUME SchedTypeOK, [Next]_vars PROVE SchedulerStep
    OBVIOUS
  <1>1. CASE UNCHANGED vars
    BY <1>1, StutterIsAStep DEF vars
  <1>2. CASE ApiCall
    BY <1>2, ApiCallsAreSteps, StutterIsAStep
  <1>3. CASE Failure \/ Worker \/ ShutdownStopped \/ ShutdownDrained
    BY <1>3, StutterIsAStep DEF Failure, PlanFails, ReadyTimesOut, ModelResetTimesOut, ShutdownTimesOut,
                SessionResetTimesOut, Worker, ShutdownStopped, ShutdownDrained
  <1>4. CASE Planned \/ Rested
    BY <1>4, QuietIsNotBusy, CyclesAreSteps, StutterIsAStep DEF Planned, Rested
  <1>5. CASE AttemptStopped
    <2>1. ~Busy
      BY <1>5, QuietIsNotBusy DEF AttemptStopped
    <2>2. SetReady(FALSE) \/ UNCHANGED schedVars
      BY <1>5 DEF AttemptStopped
    <2> QED
      BY <2>1, <2>2, CallsAreSteps, StutterIsAStep
  <1>6. ASSUME NEW s \in Sessions, PromptResumes(s) PROVE SchedulerStep
    <2>1. ~Busy
      BY <1>6, QuietIsNotBusy DEF PromptResumes
    <2>2. (Operational /\ \E r \in Requests : Enqueue(r, s)) \/ UNCHANGED schedVars
      BY <1>6 DEF PromptResumes, Admitted
    <2> QED
      BY <2>1, <2>2, CallsAreSteps, StutterIsAStep
  <1>7. CASE Dispatch \/ DispatchEnds
    BY <1>7 DEF Dispatch, DispatchEnds, SchedulerStep, SchedNext, DrainStep, DrainShift, DrainEnd
  <1>8. CASE ModelResetStopped
    BY <1>8, QuietIsNotBusy, CyclesAreSteps, StutterIsAStep DEF ModelResetStopped
  <1>9. CASE DrainTimesOut
    BY <1>9, QuietIsNotBusy, CallsAreSteps, StutterIsAStep DEF DrainTimesOut
  <1>10. CASE HandleWorkerMessage
    BY <1>10, MessagesAreSteps
  <1> QED
    BY <1>1, <1>2, <1>3, <1>4, <1>5, <1>6, <1>7, <1>8, <1>9, <1>10 DEF Next

LEMMA BooksHold == Spec => []BooksInv
  <1>1. Init => BooksInv
    BY BooksInit DEF Init
  <1>2. BooksInv /\ [Next]_vars => BooksInv'
    BY StepsAreSteps, BooksStep DEF BooksInv, SchedulerStep
  <1> QED
    BY <1>1, <1>2, PTL DEF Spec

\* The runtime calls its scheduler between the steps of its loop, with requests
\* the scheduler knows, and touches nothing of it otherwise (ImplementsScheduler):
\* what SchedulerProofs shows of the scheduler by itself is true of it in here.
THEOREM RuntimeImplementsScheduler == Spec => ImplementsScheduler
  <1>1. Init => SchedInit
    BY DEF Init
  <1>2. BooksInv /\ [Next]_vars => [SchedNext]_schedVars
    BY StepsAreSteps DEF BooksInv, SchedulerStep
  <1> QED
    BY <1>1, <1>2, BooksHold, PTL DEF Spec, ImplementsScheduler, SchedSpec

--------------------------------------------------------------------------------
(* Nothing goes on while the model is reset or the runtime goes down.       *)

Draining == {"draining", "timedDraining"}
Boundary == modelReset # "off" \/ shutdown \notin {"off"} \union Draining

\* The inductive invariant. A drain goes over into a shutdown when its waiter
\* has been woken, so that what was idle then must be idle still; and no waiter
\* may have been woken by an earlier drain.
BoundaryInv ==
  /\ Boundary => IsIdle
  /\ shutdown = "off" => \A w \in Waiters : idle[w] = "none"
  /\ shutdown \in Draining => \A w \in Waiters : idle[w] = "resolved" => IsIdle

\* An idle scheduler stays idle until a request is queued.
LEMMA IdleStays ==
  ASSUME SchedTypeOK, IsIdle, [SchedNext]_schedVars, queue' \subseteq queue
  PROVE  IsIdle'
  <1> USE DEF IsIdle
  <1>1. queue = {} /\ pending = {} /\ inFlight = 0
    OBVIOUS
  <1>2. CASE UNCHANGED schedVars
    BY <1>2 DEF schedVars
  <1>3. CASE Call
    <2>1. ASSUME NEW value \in BOOLEAN, SetReady(value) PROVE IsIdle'
      BY <2>1 DEF SetReady
    <2>2. ASSUME NEW r \in Requests, NEW s \in Sessions, Enqueue(r, s) PROVE IsIdle'
      BY <2>2 DEF Enqueue
    <2>3. ASSUME NEW r \in Requests, Complete(r) \/ Fail(r) \/ CancelQueued(r) \/ CancelRunning(r)
          PROVE  IsIdle'
      BY <2>3 DEF Complete, Fail, CancelQueued, CancelRunning, Leave
    <2>4. CASE CancelAll
      BY <2>4 DEF CancelAll, CancelAllWith
    <2>5. ASSUME NEW s \in Sessions, CancelBySession(s) PROVE IsIdle'
      <3>1. queue' = {} /\ pending' = {} /\ inFlight' = Released(Cardinality({}))
        BY <2>5 DEF CancelBySession
      <3> QED
        BY <3>1, FS_EmptySet DEF Released
    <2>6. ASSUME NEW w \in Waiters, WaitForIdle(w) PROVE IsIdle'
      BY <2>6 DEF WaitForIdle
    <2> QED
      BY <1>3, <2>1, <2>2, <2>3, <2>4, <2>5, <2>6 DEF Call
  <1>4. CASE DrainStep
    BY <1>4 DEF DrainStep, DrainShift, DrainEnd, CanShift
  <1> QED
    BY <1>2, <1>3, <1>4 DEF SchedNext

\* A waiter is woken when the scheduler is idle.
LEMMA WakingMeansIdle ==
  ASSUME [SchedNext]_schedVars, NEW w \in Waiters, idle'[w] = "resolved"
  PROVE  idle[w] = "resolved" \/ IsIdle'
  <1>1. CASE UNCHANGED schedVars
    BY <1>1 DEF schedVars
  <1>2. CASE NotifyIdleWaiters \/ UNCHANGED idle
    BY <1>2 DEF NotifyIdleWaiters
  <1>3. ASSUME NEW v \in Waiters, WaitForIdle(v) PROVE idle[w] = "resolved" \/ IsIdle'
    <2>1. IsIdle' = IsIdle
      BY <1>3 DEF WaitForIdle, IsIdle
    <2>2. idle'[w] = idle[w] \/ IsIdle
      BY <1>3 DEF WaitForIdle
    <2> QED
      BY <2>1, <2>2
  <1>4. SchedNext => NotifyIdleWaiters \/ UNCHANGED idle \/ \E v \in Waiters : WaitForIdle(v)
    BY DEF SchedNext, Call, SetReady, Enqueue, Complete, Fail, CancelQueued, CancelRunning, Leave,
           CancelAll, CancelAllWith, CancelBySession, DrainStep, DrainShift, DrainEnd
  <1> QED
    BY <1>1, <1>2, <1>3, <1>4

\* A boundary begins with the cancellation of everything, or after a drain.
LEMMA BoundaryBegins ==
  ASSUME SchedTypeOK, BoundaryInv, [Next]_vars, Boundary', ~Boundary
  PROVE  IsIdle'
  <1>1. CancelAllWith(FALSE) => IsIdle'
    BY DEF CancelAllWith, IsIdle
  <1>2. ~(UNCHANGED <<modelReset, shutdown>>)
    BY DEF Boundary
  <1>3. CASE ApiCall
    <2>1. ~\E owner : InitModel(owner)
      BY <1>2 DEF InitModel
    <2>2. ~\E s \in Sessions : Prompt(s)
      BY <1>2 DEF Prompt
    <2>3. ~\E r \in Requests : CancelPrompt(r)
      BY <1>2 DEF CancelPrompt
    <2>4. ~\E s \in Sessions : ResetSession(s)
      BY <1>2 DEF ResetSession
    <2>5. CASE ResetModel
      BY <1>1, <2>5 DEF ResetModel
    <2>6. ASSUME NEW mode, Shutdown(mode) PROVE IsIdle'
      <3>1. mode = "abort" => CancelAllWith(FALSE)
        BY <2>6 DEF Shutdown
      <3>2. mode # "abort" => ~Boundary'
        BY <2>6 DEF Shutdown, Boundary, Draining
      <3> QED
        BY <1>1, <3>1, <3>2
    <2> QED
      BY <1>3, <2>1, <2>2, <2>3, <2>4, <2>5, <2>6 DEF ApiCall
  <1>4. CASE Failure
    BY <1>4 DEF Failure, PlanFails, CycleFails, ReadyTimesOut, ModelResetTimesOut, ShutdownTimesOut,
                SessionResetTimesOut, Boundary, Draining
  <1>5. CASE ShutdownDrained
    <2>1. IsIdle
      BY <1>5 DEF ShutdownDrained, ShutdownResumes, BoundaryInv, Draining
    <2> QED
      BY <1>5, <2>1 DEF ShutdownDrained, schedVars, IsIdle
  <1>6. CASE DrainTimesOut
    BY <1>1, <1>6 DEF DrainTimesOut
  <1>7. CASE Planned \/ Rested \/ AttemptStopped \/ ModelResetStopped \/ ShutdownStopped
    BY <1>7 DEF Planned, Rested, AttemptStopped, ModelResetStopped, ShutdownStopped, CycleFails, Boundary, Draining
  <1>8. CASE HandleWorkerMessage
    BY <1>8 DEF HandleWorkerMessage, HandleReady, HandleResetDone, HandleModelResetDone,
                HandleShutdownDone, HandleDone, HandleError, CycleSucceeds, Boundary, Draining
  <1>9. ~(Worker \/ Dispatch \/ DispatchEnds \/ \E s \in Sessions : PromptResumes(s))
    BY <1>2 DEF Worker, Dispatch, DispatchEnds, PromptResumes, lifeVars
  <1> QED
    BY <1>2, <1>3, <1>4, <1>5, <1>6, <1>7, <1>8, <1>9 DEF Next, vars, lifeVars

\* A runtime that has begun to shut down never goes back.
LEMMA ShutdownGoesOn ==
  ASSUME [Next]_vars
  PROVE  shutdown' = shutdown \/ shutdown' \notin {"off"} \union Draining \/ (shutdown = "off" /\ shutdown' # "off")
  <1>1. ASSUME NEW mode, Shutdown(mode) PROVE shutdown = "off" /\ shutdown' # "off"
    BY <1>1 DEF Shutdown, Operational
  <1>2. CASE ShutdownDrained \/ DrainTimesOut \/ ShutdownTimesOut \/ ShutdownStopped
    BY <1>2 DEF ShutdownDrained, DrainTimesOut, ShutdownTimesOut, ShutdownStopped, Draining
  <1>3. CASE HandleWorkerMessage
    BY <1>3 DEF HandleWorkerMessage, HandleReady, HandleResetDone, HandleModelResetDone,
                HandleShutdownDone, HandleDone, HandleError, Draining
  <1>4. CASE Failure /\ ~ShutdownTimesOut
    BY <1>4 DEF Failure, PlanFails, ReadyTimesOut, ModelResetTimesOut, SessionResetTimesOut
  <1>5. CASE ApiCall /\ ~\E mode : Shutdown(mode)
    BY <1>5 DEF ApiCall, InitModel, Prompt, CancelPrompt, ResetSession, ResetModel
  <1>6. CASE Planned \/ Rested \/ AttemptStopped \/ ModelResetStopped
    BY <1>6 DEF Planned, Rested, AttemptStopped, ModelResetStopped
  <1>7. CASE Worker \/ Dispatch \/ DispatchEnds \/ \E s \in Sessions : PromptResumes(s)
    BY <1>7 DEF Worker, Dispatch, DispatchEnds, PromptResumes, lifeVars
  <1>8. CASE UNCHANGED vars
    BY <1>8 DEF vars, lifeVars
  <1> QED
    BY <1>1, <1>2, <1>3, <1>4, <1>5, <1>6, <1>7, <1>8 DEF Next, ApiCall

LEMMA BoundaryStep ==
  ASSUME SchedTypeOK, BoundaryInv, [Next]_vars
  PROVE  BoundaryInv'
  <1>1. SchedulerStep
    BY StepsAreSteps
  <1>2. ~Operational => (IsIdle => IsIdle')
    BY <1>1, IdleStays DEF SchedulerStep
  <1>3. Boundary' => IsIdle'
    <2>1. Boundary => ~Operational /\ IsIdle
      BY DEF BoundaryInv, Boundary, Operational, Draining
    <2> QED
      BY <1>2, <2>1, BoundaryBegins
  <1>4. shutdown' = "off" => shutdown = "off"
    BY ShutdownGoesOn
  <1>5. shutdown' = "off" => \A w \in Waiters : idle'[w] = "none"
    BY <1>1, <1>4 DEF SchedulerStep, BoundaryInv
  <1>6. shutdown' \in Draining => \A w \in Waiters : idle'[w] = "resolved" => IsIdle'
    <2>1. shutdown' \in Draining => shutdown \in {"off"} \union Draining
      BY ShutdownGoesOn
    <2> SUFFICES ASSUME shutdown' \in Draining, NEW w \in Waiters, idle'[w] = "resolved" PROVE IsIdle'
      OBVIOUS
    <2>2. idle[w] = "resolved" \/ IsIdle'
      BY <1>1, WakingMeansIdle DEF SchedulerStep
    <2>3. idle[w] = "resolved" => IsIdle /\ ~Operational
      BY <2>1 DEF BoundaryInv, Operational, Draining
    <2> QED
      BY <1>2, <2>2, <2>3
  <1> QED
    BY <1>3, <1>5, <1>6 DEF BoundaryInv, Boundary, Draining

LEMMA BoundaryHolds == Spec => []BoundaryInv
  <1>1. Init => BoundaryInv
    BY DEF Init, SchedInit, BoundaryInv, Boundary, Draining
  <1>2. BooksInv /\ BoundaryInv /\ [Next]_vars => BoundaryInv'
    BY BoundaryStep DEF BooksInv
  <1> QED
    BY <1>1, <1>2, BooksHold, PTL DEF Spec

\* Nothing is queued or running while the model is reset or the runtime goes
\* down (BoundaryIsQuiet), with prompts that wait for the model or between two
\* microtasks, drains that time out and answers that come late.
THEOREM BoundariesAreQuiet == Spec => []BoundaryIsQuiet
  <1>1. BoundaryInv => BoundaryIsQuiet
    BY DEF BoundaryInv, BoundaryIsQuiet, Boundary, Draining
  <1> QED
    BY <1>1, BoundaryHolds, PTL

--------------------------------------------------------------------------------
(* The types of the lifecycle.                                              *)

InitRecords ==
  [phase: {"off", "planning", "waiting", "stopping", "resting"},
   owner: {"none", "initModel", "explicitInitModel", "prompt", "reset"},
   left: 0..InitAttempts, started: BOOLEAN, resolved: BOOLEAN, barrier: {"open", "ready", "failed"},
   attempt: Nat, next: Nat, lastPlan: BOOLEAN, explicitFailed: BOOLEAN]

\* An attempt is one that has been begun, and one that is going to be made is
\* among those the plan allows: else there would be less than none left.
AttemptsAreCounted(in) ==
  /\ in.attempt <= in.next
  /\ in.phase = "resting" => in.left > 0

CallTypes ==
  /\ caller \in [Sessions -> {"none", "cycle", "barrier", "resumed"}]
  /\ sessionReset \in [Sessions -> {"none", "active", "timedOut"}]
  /\ modelReset \in {"off", "waiting", "terminating", "reinit"}
  /\ shutdown \in {"off", "draining", "timedDraining", "waiting", "terminating", "down", "failed"}

LifeInv ==
  /\ init \in InitRecords /\ AttemptsAreCounted(init)
  /\ CallTypes
  /\ notified \subseteq Requests

InitInv == init \in InitRecords /\ AttemptsAreCounted(init)

\* The cycle goes on as its record allows.
LEMMA AttemptTypes ==
  ASSUME NEW in \in InitRecords, in.left > 0, StartAttempt(in)
  PROVE  InitInv'
  <1>1. /\ in.left \in 0..InitAttempts /\ in.left - 1 \in 0..InitAttempts
        /\ in.next \in Nat /\ in.next + 1 \in Nat
    BY LifecycleAssumption DEF InitRecords
  <1>2. init' = [in EXCEPT !.phase = "waiting", !.left = in.left - 1, !.started = TRUE, !.resolved = FALSE,
                           !.barrier = "open", !.attempt = in.next + 1, !.next = in.next + 1]
    BY DEF StartAttempt, InitRecords
  <1>3. init' \in InitRecords
    BY <1>1, <1>2 DEF InitRecords
  <1>4. init'.attempt = in.next + 1 /\ init'.next = in.next + 1 /\ init'.phase = "waiting"
    BY <1>2 DEF InitRecords
  <1> QED
    BY <1>1, <1>3, <1>4 DEF InitInv, AttemptsAreCounted

LEMMA CycleTypes ==
  ASSUME InitInv, NEW owner \in {"initModel", "explicitInitModel", "prompt", "reset"}, StartCycle(owner)
  PROVE  InitInv'
  <1>1. 1 \in 0..InitAttempts
    BY LifecycleAssumption
  <1>2. CASE StartAttempt([init EXCEPT !.owner = owner, !.left = 1])
    <2>1. PICK in : in = [init EXCEPT !.owner = owner, !.left = 1]
      OBVIOUS
    <2>2. in \in InitRecords
      BY <1>1, <2>1 DEF InitInv, InitRecords
    <2>3. in.left > 0
      BY <2>1 DEF InitInv, InitRecords
    <2> QED
      BY <1>2, <2>1, <2>2, <2>3, AttemptTypes
  <1>3. CASE init' = [init EXCEPT !.phase = "planning", !.owner = owner]
    BY <1>3 DEF InitInv, InitRecords, AttemptsAreCounted
  <1> QED
    BY <1>2, <1>3 DEF StartCycle

LEMMA CycleFailsTypes ==
  ASSUME NEW in \in InitRecords, AttemptsAreCounted(in), InitInv, CallTypes, CycleFails(in)
  PROVE  /\ InitInv'
         /\ caller' \in [Sessions -> {"none", "cycle", "barrier", "resumed"}]
         /\ modelReset' \in {"off", "waiting", "terminating", "reinit"}
  <1>1. PICK failed \in BOOLEAN : failed = (in.explicitFailed \/ init.owner = "explicitInitModel")
    OBVIOUS
  <1>2. init' = [in EXCEPT !.phase = "off", !.owner = "none", !.left = 0, !.explicitFailed = failed]
    BY <1>1 DEF CycleFails, InitRecords
  <1>3. 0 \in 0..InitAttempts
    BY LifecycleAssumption
  <1>4. init' \in InitRecords
    BY <1>2, <1>3 DEF InitRecords
  <1>5. init'.phase = "off" /\ init'.attempt = in.attempt /\ init'.next = in.next
    BY <1>2 DEF InitRecords
  <1>6. InitInv'
    BY <1>4, <1>5 DEF InitInv, AttemptsAreCounted
  <1> QED
    BY <1>6 DEF CycleFails, Waking, CallTypes

LEMMA AttemptFailsTypes ==
  ASSUME InitInv, NEW barrier \in {"open", "ready", "failed"}, AttemptFails(barrier)
  PROVE  InitInv'
  <1>1. init' \in InitRecords
    BY DEF AttemptFails, InitInv, InitRecords
  <1>2. init'.attempt = 0 /\ init'.next \in Nat /\ init'.phase = "stopping"
    BY DEF AttemptFails, InitInv, InitRecords
  <1> QED
    BY <1>1, <1>2 DEF InitInv, AttemptsAreCounted

\* The record of the init cycle keeps its type, one by one for those that write it.
LEMMA InitStep ==
  ASSUME InitInv, CallTypes, [Next]_vars
  PROVE  InitInv'
  <1> USE DEF InitInv
  <1>1. CASE UNCHANGED init
    BY <1>1
  <1>2. ASSUME NEW owner \in {"initModel", "explicitInitModel"}, InitModel(owner) PROVE InitInv'
    BY <1>2, CycleTypes DEF InitModel
  <1>3. ASSUME NEW s \in Sessions, Prompt(s) PROVE InitInv'
    BY <1>1, <1>3, CycleTypes DEF Prompt
  <1>4. CASE Planned
    <2>1. [init EXCEPT !.left = InitAttempts] \in InitRecords
      BY LifecycleAssumption DEF InitRecords
    <2> QED
      BY <1>4, <2>1, AttemptTypes, LifecycleAssumption DEF Planned, InitRecords
  <1>5. CASE PlanFails
    BY <1>5, CycleFailsTypes DEF PlanFails
  <1>6. CASE ReadyTimesOut
    BY <1>6, AttemptFailsTypes DEF ReadyTimesOut
  <1>7. CASE AttemptStopped
    <2>1. CASE CycleFails(WithoutAttempt(init))
      <3>1. WithoutAttempt(init) \in InitRecords /\ AttemptsAreCounted(WithoutAttempt(init))
        BY DEF WithoutAttempt, InitRecords, AttemptsAreCounted
      <3> QED
        BY <2>1, <3>1, CycleFailsTypes
    <2>2. CASE CycleFails(init)
      BY <2>2, CycleFailsTypes
    <2>3. CASE ~LastAttempt /\ init' = [init EXCEPT !.phase = "resting"]
      BY <2>3 DEF LastAttempt, InitRecords, AttemptsAreCounted
    <2> QED
      BY <1>7, <2>1, <2>2, <2>3 DEF AttemptStopped
  <1>8. CASE Rested
    BY <1>8, AttemptTypes DEF Rested, AttemptsAreCounted
  <1>9. CASE ModelResetStopped
    BY <1>1, <1>9, CycleTypes DEF ModelResetStopped
  <1>10. CASE HandleReady
    <2>1. CASE CycleSucceeds
      <3>1. 0 \in 0..InitAttempts
        BY LifecycleAssumption
      <3>2. init' \in InitRecords
        BY <2>1, <3>1 DEF CycleSucceeds, InitRecords
      <3>3. init'.attempt = 0 /\ init'.next \in Nat /\ init'.phase = "off"
        BY <2>1 DEF CycleSucceeds, InitRecords
      <3> QED
        BY <3>2, <3>3 DEF AttemptsAreCounted
    <2> QED
      BY <1>1, <1>10, <2>1 DEF HandleReady
  <1>11. CASE HandleError
    <2>1. CASE RejectReady
      <3>1. CASE AttemptFails("failed")
        BY <3>1, AttemptFailsTypes
      <3>2. CASE init' = [init EXCEPT !.barrier = "failed"]
        BY <3>2 DEF InitRecords, AttemptsAreCounted
      <3> QED
        BY <1>1, <2>1, <3>1, <3>2 DEF RejectReady
    <2>2. RejectReady \/ UNCHANGED init
      BY <1>11 DEF HandleError
    <2> QED
      BY <1>1, <2>1, <2>2
  <1>12. UNCHANGED vars \/ Worker \/ Dispatch \/ DispatchEnds \/ ShutdownDrained \/ DrainTimesOut \/ ShutdownStopped
           => UNCHANGED init
    BY DEF vars, lifeVars, Worker, Dispatch, DispatchEnds, ShutdownDrained, DrainTimesOut, ShutdownStopped
  <1>13. /\ \A r : CancelPrompt(r) => UNCHANGED init
         /\ \A s : ResetSession(s) \/ PromptResumes(s) \/ SessionResetTimesOut(s) => UNCHANGED init
         /\ \A mode : Shutdown(mode) => UNCHANGED init
         /\ ResetModel \/ ModelResetTimesOut \/ ShutdownTimesOut => UNCHANGED init
         /\ HandleResetDone \/ HandleModelResetDone \/ HandleShutdownDone \/ HandleDone => UNCHANGED init
    BY DEF CancelPrompt, ResetSession, PromptResumes, SessionResetTimesOut, Shutdown, ResetModel,
           ModelResetTimesOut, ShutdownTimesOut, HandleResetDone, HandleModelResetDone,
           HandleShutdownDone, HandleDone
  <1> HIDE DEF InitInv
  <1>14. CASE ApiCall
    BY <1>1, <1>2, <1>3, <1>13, <1>14 DEF ApiCall
  <1>15. CASE Failure
    BY <1>1, <1>5, <1>6, <1>13, <1>15 DEF Failure
  <1>16. CASE HandleWorkerMessage
    BY <1>1, <1>10, <1>11, <1>13, <1>16 DEF HandleWorkerMessage
  <1> QED
    BY <1>1, <1>4, <1>7, <1>8, <1>9, <1>12, <1>13, <1>14, <1>15, <1>16 DEF Next

\* So do the calls that wait, and the operations that are under way.
LEMMA CallsStep ==
  ASSUME InitInv, CallTypes, [Next]_vars
  PROVE  CallTypes'
  <1> USE DEF CallTypes
  <1>1. CASE UNCHANGED <<caller, sessionReset, modelReset, shutdown>>
    BY <1>1
  <1>2. CASE CycleFails(init) /\ UNCHANGED <<sessionReset, shutdown>>
    BY <1>2, CycleFailsTypes DEF InitInv
  <1>3. CASE ApiCall
    <2>1. ASSUME NEW s \in Sessions, Prompt(s) PROVE CallTypes'
      <3>1. \E value \in {"resumed", "cycle", "barrier"} : caller' = [caller EXCEPT ![s] = value]
        BY <2>1 DEF Prompt
      <3>2. UNCHANGED <<sessionReset, modelReset, shutdown>>
        BY <2>1 DEF Prompt
      <3> QED
        BY <3>1, <3>2
    <2>2. ASSUME NEW s \in Sessions, ResetSession(s) PROVE CallTypes'
      BY <2>2 DEF ResetSession
    <2>3. /\ \A owner : InitModel(owner) => UNCHANGED <<caller, sessionReset, modelReset, shutdown>>
          /\ \A r : CancelPrompt(r) => UNCHANGED <<caller, sessionReset, modelReset, shutdown>>
      BY DEF InitModel, CancelPrompt
    <2>4. CASE ResetModel \/ \E mode \in {"abort", "drain", "drain-with-timeout"} : Shutdown(mode)
      BY <2>4 DEF ResetModel, Shutdown
    <2> QED
      BY <1>1, <1>3, <2>1, <2>2, <2>3, <2>4 DEF ApiCall
  <1>4. CASE Planned \/ Rested \/ ModelResetStopped
    BY <1>4 DEF Planned, Rested, ModelResetStopped
  <1>5. CASE AttemptStopped
    <2>1. CASE CycleFails(WithoutAttempt(init))
      <3>1. /\ caller' \in [Sessions -> {"none", "cycle", "barrier", "resumed"}]
            /\ modelReset' \in {"off", "waiting", "terminating", "reinit"}
        BY <2>1 DEF CycleFails, Waking
      <3> QED
        BY <1>5, <3>1 DEF AttemptStopped
    <2> QED
      BY <1>1, <1>2, <1>5, <2>1 DEF AttemptStopped
  <1>6. CASE Failure
    BY <1>1, <1>2, <1>6 DEF Failure, PlanFails, ReadyTimesOut, SessionResetTimesOut, ModelResetTimesOut,
                            ShutdownTimesOut
  <1>7. CASE HandleWorkerMessage
    <2>1. CASE HandleReady
      <3>1. CASE CycleSucceeds
        <4>1. /\ caller' \in [Sessions -> {"none", "cycle", "barrier", "resumed"}]
              /\ modelReset' \in {"off", "waiting", "terminating", "reinit"}
          BY <3>1 DEF CycleSucceeds, Waking
        <4> QED
          BY <2>1, <4>1 DEF HandleReady
      <3> QED
        BY <1>1, <2>1, <3>1 DEF HandleReady
    <2>2. CASE HandleError
      BY <2>2 DEF HandleError, RejectReady
    <2>3. CASE HandleResetDone
      BY <2>3 DEF HandleResetDone
    <2>4. CASE HandleModelResetDone \/ HandleShutdownDone \/ HandleDone
      BY <2>4 DEF HandleModelResetDone, HandleShutdownDone, HandleDone, ForgetSessionResets
    <2> QED
      BY <1>7, <2>1, <2>2, <2>3, <2>4 DEF HandleWorkerMessage
  <1>8. CASE UNCHANGED vars \/ Worker \/ Dispatch \/ DispatchEnds
    BY <1>1, <1>8 DEF vars, lifeVars, Worker, Dispatch, DispatchEnds
  <1>9. CASE ShutdownDrained \/ DrainTimesOut \/ ShutdownStopped
    BY <1>9 DEF ShutdownDrained, DrainTimesOut, ShutdownStopped
  <1>10. ASSUME NEW s \in Sessions, PromptResumes(s) PROVE CallTypes'
    BY <1>10 DEF PromptResumes
  <1> QED
    BY <1>3, <1>4, <1>5, <1>6, <1>7, <1>8, <1>9, <1>10 DEF Next

\* Only requests are ever told that they have been cancelled.
LEMMA NotifiedStep ==
  ASSUME BooksInv, notified \subseteq Requests, [Next]_vars
  PROVE  notified' \subseteq Requests
  <1>1. queue \union pending \subseteq Requests
    BY DEF BooksInv, SchedTypeOK
  <1>2. CASE ApiCall
    <2>1. ASSUME NEW owner \in {"initModel", "explicitInitModel"}, InitModel(owner) PROVE UNCHANGED notified
      BY <2>1 DEF InitModel, StartCycle, StartAttempt, workerVars
    <2>2. ASSUME NEW s \in Sessions, Prompt(s) PROVE UNCHANGED notified
      BY <2>2 DEF Prompt, StartCycle, StartAttempt, workerVars
    <2>3. ASSUME NEW r \in Requests, CancelPrompt(r) PROVE notified' \subseteq Requests
      BY <2>3 DEF CancelPrompt
    <2>4. ASSUME NEW s \in Sessions, ResetSession(s) PROVE notified' \subseteq Requests
      BY <1>1, <2>4 DEF ResetSession, CancelAndSend
    <2>5. CASE ResetModel
      BY <1>1, <2>5 DEF ResetModel, CancelAndSend
    <2>6. ASSUME NEW mode, Shutdown(mode) PROVE notified' \subseteq Requests
      BY <1>1, <2>6 DEF Shutdown, CancelAndSend, workerVars
    <2> QED
      BY <1>2, <2>1, <2>2, <2>3, <2>4, <2>5, <2>6 DEF ApiCall
  <1>3. CASE Failure
    BY <1>3 DEF Failure, PlanFails, ReadyTimesOut, AttemptFails, SessionResetTimesOut, ModelResetTimesOut,
                ShutdownTimesOut, workerVars
  <1>4. CASE Planned \/ Rested \/ AttemptStopped \/ ModelResetStopped
    BY <1>4 DEF Planned, Rested, AttemptStopped, ModelResetStopped, StartCycle, StartAttempt, workerVars
  <1>5. ASSUME NEW s \in Sessions, PromptResumes(s) PROVE UNCHANGED notified
    BY <1>5 DEF PromptResumes, workerVars
  <1>6. CASE ShutdownDrained \/ DrainTimesOut \/ ShutdownStopped
    BY <1>1, <1>6 DEF ShutdownDrained, DrainTimesOut, ShutdownStopped, CancelAndSend, workerVars
  <1>7. CASE HandleWorkerMessage
    BY <1>7 DEF HandleWorkerMessage, HandleReady, HandleResetDone, HandleModelResetDone, HandleShutdownDone,
                HandleDone, HandleError, Handling
  <1>8. CASE Dispatch \/ DispatchEnds \/ UNCHANGED vars
    BY <1>8 DEF Dispatch, DispatchEnds, vars, workerVars
  <1>9. CASE Worker
    <2>1. ReceiveInit \/ ReceivePrompt \/ ReceiveCancel \/ ReceiveOperation \/ ModelLoads \/ ModelLoadFails
            => UNCHANGED notified
      BY DEF ReceiveInit, ReceivePrompt, ReceiveCancel, ReceiveOperation, Received, ModelLoads, ModelLoadFails
    <2>2. (\E r \in Requests : PromptEnds(r)) \/ OperationBegins \/ OperationEnds \/ OperationFails
            => UNCHANGED notified
      BY DEF PromptEnds, PromptCompletes, PromptAborts, PromptFails, EndPrompt, OperationBegins, OperationEnds,
             OperationFails
    <2> QED
      BY <1>9, <2>1, <2>2 DEF Worker, WorkerStep
  <1> QED
    BY <1>2, <1>3, <1>4, <1>5, <1>6, <1>7, <1>8, <1>9 DEF Next

\* What the types rest on (LifeInv).
LEMMA LifeHolds == Spec => []LifeInv
  <1>1. Init => LifeInv
    <2>1. 0 \in 0..InitAttempts
      BY LifecycleAssumption
    <2> QED
      BY <2>1 DEF Init, WorkerInit, NoInit, LifeInv, InitRecords, AttemptsAreCounted, CallTypes
  <1>2. BooksInv /\ LifeInv /\ [Next]_vars => LifeInv'
    BY InitStep, CallsStep, NotifiedStep DEF LifeInv, InitInv
  <1> QED
    BY <1>1, <1>2, BooksHold, PTL DEF Spec

\* The lifecycle's state has its types (LifeTypeOK): there are never fewer than
\* no attempts left, and none is answered that has not been begun.
THEOREM LifeTypeCorrect == Spec => []LifeTypeOK
  <1>1. LifeInv => LifeTypeOK
    BY DEF LifeInv, LifeTypeOK, InitRecords, AttemptsAreCounted, CallTypes
  <1> QED
    BY <1>1, LifeHolds, PTL
================================================================================
