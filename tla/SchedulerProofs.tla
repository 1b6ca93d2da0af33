----------------------------- MODULE SchedulerProofs -----------------------------
(***************************************************************************)
(* What the scheduler guarantees for any number of requests, sessions and  *)
(* waiters and any limit: its books agree, no waiter is forgotten, no      *)
(* dispatch is forgotten, and it implements RequestLifecycle.              *)
(***************************************************************************)
EXTENDS Scheduler, FiniteSetTheorems, TLAPS

\* The inductive invariant: the types say nothing of what the counter counts,
\* and the counter stays within its limit only because it counts the table.
BooksInv == SchedTypeOK /\ BooksAgree

--------------------------------------------------------------------------------
(* Facts about the parts an operation is made of                           *)

\* There are finitely many requests, so any of them can be counted.
LEMMA RequestsCount ==
  ASSUME NEW R \in SUBSET Requests
  PROVE  IsFiniteSet(R) /\ Cardinality(R) \in Nat
  <1>1. IsFiniteSet(Requests)
    BY FS_Interval, MaxRequestsAssumption DEF Requests
  <1> QED
    BY <1>1, FS_Subset, FS_CardinalityType

\* What a change of status does to the sets the books are kept against.
LEMMA StatusSets ==
  ASSUME SchedTypeOK, NEW R \in SUBSET Requests, NEW s \in Statuses,
         status' = [r \in Requests |-> IF r \in R THEN s ELSE status[r]]
  PROVE  /\ status' \in [Requests -> Statuses]
         /\ \A r \in Requests : status'[r] = IF r \in R THEN s ELSE status[r]
         /\ With("queued")' = IF s = "queued" THEN With("queued") \union R
                                              ELSE With("queued") \ R
         /\ With("running")' = IF s = "running" THEN With("running") \union R
                                                ELSE With("running") \ R
  <1>1. status' \in [Requests -> Statuses]
    BY DEF SchedTypeOK
  <1>2. \A r \in Requests : status'[r] = IF r \in R THEN s ELSE status[r]
    OBVIOUS
  <1>3. With("queued")' = IF s = "queued" THEN With("queued") \union R
                                          ELSE With("queued") \ R
    BY <1>2 DEF With
  <1>4. With("running")' = IF s = "running" THEN With("running") \union R
                                            ELSE With("running") \ R
    BY <1>2 DEF With
  <1> QED
    BY <1>1, <1>2, <1>3, <1>4

\* A request that leaves the table takes exactly one from the counter.
LEMMA OneLeaves ==
  ASSUME BooksInv, NEW r \in pending
  PROVE  /\ Released(1) = Cardinality(pending \ {r})
         /\ Released(1) \in 0..MaxInFlight
  <1>1. IsFiniteSet(pending) /\ Cardinality(pending) \in Nat
    BY RequestsCount DEF BooksInv, SchedTypeOK
  <1>2. Cardinality(pending \ {r}) = Cardinality(pending) - 1
    BY <1>1, FS_RemoveElement
  <1>3. Cardinality(pending \ {r}) \in Nat
    BY RequestsCount DEF BooksInv, SchedTypeOK
  <1> QED
    BY <1>1, <1>2, <1>3, MaxInFlightAssumption
    DEF BooksInv, SchedTypeOK, BooksAgree, Released

\* The same of the requests of a session, which leave together.
LEMMA SessionLeaves ==
  ASSUME BooksInv, NEW S
  PROVE  /\ Released(Cardinality(pending \intersect S)) = Cardinality(pending \ S)
         /\ Cardinality(pending \ S) \in 0..MaxInFlight
  <1>1. IsFiniteSet(pending) /\ Cardinality(pending) \in Nat
    BY RequestsCount DEF BooksInv, SchedTypeOK
  <1>2. Cardinality(pending \ S) = Cardinality(pending) - Cardinality(pending \intersect S)
    BY <1>1, FS_Difference
  <1>3. Cardinality(pending \ S) \in Nat /\ Cardinality(pending \intersect S) \in Nat
    <2>1. pending \ S \in SUBSET Requests /\ pending \intersect S \in SUBSET Requests
      BY DEF BooksInv, SchedTypeOK
    <2> QED
      BY <2>1, RequestsCount
  <1> QED
    BY <1>1, <1>2, <1>3, MaxInFlightAssumption
    DEF BooksInv, SchedTypeOK, BooksAgree, Released

\* Waking the waiters keeps the type of `idle`, and parks nobody.
LEMMA WakingWaiters ==
  ASSUME SchedTypeOK, NotifyIdleWaiters
  PROVE  /\ idle' \in [Waiters -> {"none", "parked", "resolved"}]
         /\ NoLostIdleWakeup'
  BY DEF SchedTypeOK, NotifyIdleWaiters, NoLostIdleWakeup

--------------------------------------------------------------------------------
(* The books                                                               *)

\* Nothing is queued or running before the first call.
LEMMA BooksInit == SchedInit => BooksInv
  <1> SUFFICES ASSUME SchedInit PROVE BooksInv
    OBVIOUS
  <1>1. SchedTypeOK
    <2>1. inFlight \in 0..MaxInFlight
      BY MaxInFlightAssumption DEF SchedInit
    <2>2. status \in [Requests -> Statuses]
      BY DEF SchedInit, Statuses
    <2>3. idle \in [Waiters -> {"none", "parked", "resolved"}]
      BY DEF SchedInit
    <2> QED
      BY <2>1, <2>2, <2>3 DEF SchedInit, SchedTypeOK
  <1>2. BooksAgree
    BY FS_EmptySet DEF SchedInit, BooksAgree, With
  <1> QED
    BY <1>1, <1>2 DEF BooksInv

\* Every operation keeps the four records of a request in step.
LEMMA BooksStep == BooksInv /\ [SchedNext]_schedVars => BooksInv'
  <1> SUFFICES ASSUME BooksInv, [SchedNext]_schedVars
               PROVE  BooksInv'
    OBVIOUS
  <1> USE DEF BooksInv
  <1>0. /\ "new" \in Statuses /\ "queued" \in Statuses /\ "running" \in Statuses
        /\ "done" \in Statuses /\ "error" \in Statuses /\ "canceled" \in Statuses
    BY DEF Statuses
  <1>1. ASSUME NEW value \in BOOLEAN, SetReady(value)
        PROVE  BooksInv'
    BY <1>1 DEF SetReady, SchedTypeOK, BooksAgree, RequestDrain, With
  <1>2. ASSUME NEW r \in Requests, NEW s \in Sessions, Enqueue(r, s)
        PROVE  BooksInv'
    <2>1. SetStatus({r}, "queued") /\ status[r] = "new"
      BY <1>2 DEF Enqueue
    <2>2. /\ status' \in [Requests -> Statuses]
          /\ With("queued")' = With("queued") \union {r}
          /\ With("running")' = With("running") \ {r}
      <3>1. {r} \in SUBSET Requests
        OBVIOUS
      <3>2. status' = [q \in Requests |-> IF q \in {r} THEN "queued" ELSE status[q]]
        BY <2>1 DEF SetStatus
      <3>3. With("queued")' = With("queued") \union {r}
        BY <3>2 DEF With
      <3>4. With("running")' = With("running") \ {r}
        BY <3>2 DEF With
      <3> QED
        BY <1>0, <3>1, <3>2, <3>3, <3>4, StatusSets
    <2>3. r \notin With("running")
      BY <2>1 DEF With
    <2>4. SchedTypeOK'
      BY <1>2, <2>2 DEF Enqueue, SchedTypeOK, RequestDrain
    <2>5. BooksAgree'
      BY <1>2, <2>2, <2>3 DEF Enqueue, BooksAgree
    <2> QED
      BY <2>4, <2>5
  <1>3. ASSUME NEW r \in Requests, DrainShift(r)
        PROVE  BooksInv'
    <2>1. r \in With("queued") /\ r \notin With("running")
      BY <1>3 DEF DrainShift, BooksAgree, With
    <2>2. /\ SetStatus({r}, "running")
          /\ pending' = pending \union {r}
          /\ inFlight' = inFlight + 1
      BY <1>3, <2>1 DEF DrainShift, With
    <2>3. /\ status' \in [Requests -> Statuses]
          /\ With("queued")' = With("queued") \ {r}
          /\ With("running")' = With("running") \union {r}
      <3>1. {r} \in SUBSET Requests
        OBVIOUS
      <3>2. status' = [q \in Requests |-> IF q \in {r} THEN "running" ELSE status[q]]
        BY <2>2 DEF SetStatus
      <3>3. With("queued")' = With("queued") \ {r}
        BY <3>2 DEF With
      <3>4. With("running")' = With("running") \union {r}
        BY <3>2 DEF With
      <3> QED
        BY <1>0, <3>1, <3>2, <3>3, <3>4, StatusSets
    <2>4. /\ IsFiniteSet(pending)
          /\ Cardinality(pending) \in Nat
      BY RequestsCount DEF SchedTypeOK
    <2>5. Cardinality(pending') = Cardinality(pending) + 1
      BY <2>1, <2>2, <2>4, FS_AddElement DEF BooksAgree
    <2>6. inFlight' \in 0..MaxInFlight
      BY <1>3, <2>2, MaxInFlightAssumption DEF DrainShift, CanShift, SchedTypeOK
    <2>7. SchedTypeOK'
      BY <1>3, <2>2, <2>3, <2>6 DEF DrainShift, SchedTypeOK
    <2>8. BooksAgree'
      BY <1>3, <2>2, <2>3, <2>5 DEF DrainShift, BooksAgree
    <2> QED
      BY <2>7, <2>8
  <1>4. ASSUME DrainEnd
        PROVE  BooksInv'
    BY <1>4 DEF DrainEnd, SchedTypeOK, BooksAgree, With
  <1>5. ASSUME NEW r \in Requests, NEW end \in {"done", "error", "canceled"}, Leave(r, end)
        PROVE  BooksInv'
    <2>1. r \in pending /\ SetStatus({r}, end) /\ NotifyIdleWaiters
      BY <1>5 DEF Leave
    <2>2. /\ status' \in [Requests -> Statuses]
          /\ With("queued")' = With("queued") \ {r}
          /\ With("running")' = With("running") \ {r}
      BY <1>0, <2>1, StatusSets DEF SetStatus, With
    <2>3. r \notin With("queued")
      BY <2>1 DEF BooksAgree, With
    <2>4. SchedTypeOK'
      BY <1>5, <2>1, <2>2, OneLeaves, WakingWaiters DEF Leave, SchedTypeOK, RequestDrain
    <2>5. BooksAgree'
      BY <1>5, <2>1, <2>2, <2>3, OneLeaves DEF Leave, BooksAgree
    <2> QED
      BY <2>4, <2>5
  <1>6. ASSUME NEW r \in Requests, CancelQueued(r)
        PROVE  BooksInv'
    <2>1. r \in queue /\ SetStatus({r}, "canceled") /\ NotifyIdleWaiters
      BY <1>6 DEF CancelQueued
    <2>2. /\ status' \in [Requests -> Statuses]
          /\ With("queued")' = With("queued") \ {r}
          /\ With("running")' = With("running") \ {r}
      BY <1>0, <2>1, StatusSets DEF SetStatus, With
    <2>3. r \notin With("running")
      BY <2>1 DEF BooksAgree, With
    <2>4. SchedTypeOK'
      BY <1>6, <2>1, <2>2, WakingWaiters DEF CancelQueued, SchedTypeOK
    <2>5. BooksAgree'
      BY <1>6, <2>2, <2>3 DEF CancelQueued, BooksAgree
    <2> QED
      BY <2>4, <2>5
  <1>7. ASSUME NEW value \in BOOLEAN, CancelAllWith(value)
        PROVE  BooksInv'
    <2>1. SetStatus(queue \union pending, "canceled") /\ NotifyIdleWaiters
      BY <1>7 DEF CancelAllWith
    <2>2. /\ status' \in [Requests -> Statuses]
          /\ With("queued")' = With("queued") \ (queue \union pending)
          /\ With("running")' = With("running") \ (queue \union pending)
      <3>1. queue \union pending \in SUBSET Requests
        BY DEF SchedTypeOK
      <3> QED
        BY <1>0, <2>1, <3>1, StatusSets DEF SetStatus, With
    <2>3. SchedTypeOK'
      BY <1>7, <2>1, <2>2, WakingWaiters, MaxInFlightAssumption
      DEF CancelAllWith, SchedTypeOK
    <2>4. BooksAgree'
      BY <1>7, <2>2, FS_EmptySet DEF CancelAllWith, BooksAgree
    <2> QED
      BY <2>3, <2>4
  <1>8. ASSUME NEW s \in Sessions, CancelBySession(s)
        PROVE  BooksInv'
    <2> DEFINE Gone == (queue \union pending) \intersect OfSession(s)
    <2>1. SetStatus(Gone, "canceled") /\ NotifyIdleWaiters
      BY <1>8 DEF CancelBySession
    <2>2. /\ status' \in [Requests -> Statuses]
          /\ With("queued")' = With("queued") \ Gone
          /\ With("running")' = With("running") \ Gone
      <3>1. Gone \in SUBSET Requests
        BY DEF SchedTypeOK
      <3> HIDE DEF Gone
      <3> QED
        BY <1>0, <2>1, <3>1, StatusSets DEF SetStatus, With
    <2>3. SchedTypeOK'
      BY <1>8, <2>1, <2>2, WakingWaiters, SessionLeaves
      DEF CancelBySession, SchedTypeOK, RequestDrain
    <2>4. BooksAgree'
      BY <1>8, <2>2, SessionLeaves DEF CancelBySession, BooksAgree
    <2> QED
      BY <2>3, <2>4
  <1>9. ASSUME NEW w \in Waiters, WaitForIdle(w)
        PROVE  BooksInv'
    BY <1>9 DEF WaitForIdle, SchedTypeOK, BooksAgree, With
  <1>10. CASE UNCHANGED schedVars
    BY <1>10 DEF schedVars, SchedTypeOK, BooksAgree, With
  <1>11. ASSUME CancelAll
         PROVE  BooksInv'
    BY <1>7, <1>11 DEF CancelAll, SchedTypeOK
  <1> QED
    BY <1>1, <1>2, <1>3, <1>4, <1>5, <1>6, <1>8, <1>9, <1>10, <1>11
    DEF SchedNext, Call, DrainStep, Complete, Fail, CancelRunning

\* Type correctness: in particular no more than maxInFlight requests are ever with
\* the worker, whatever the callers do.
THEOREM SchedTypeCorrect == SchedSpec => []SchedTypeOK
  <1>1. BooksInv => SchedTypeOK
    BY DEF BooksInv
  <1> QED
    BY <1>1, BooksInit, BooksStep, PTL DEF SchedSpec

\* The counter, the queue, the table and req.status always agree.
THEOREM BooksAlwaysAgree == SchedSpec => []BooksAgree
  <1>1. BooksInv => BooksAgree
    BY DEF BooksInv
  <1> QED
    BY <1>1, BooksInit, BooksStep, PTL DEF SchedSpec

--------------------------------------------------------------------------------
(* Nobody is forgotten                                                     *)

\* Whatever takes the last request out of the scheduler wakes who waits for that.
THEOREM IdleWaitersAreWoken == SchedSpec => []NoLostIdleWakeup
  <1>1. SchedInit => NoLostIdleWakeup
    BY DEF SchedInit, NoLostIdleWakeup
  <1>2. ASSUME BooksInv, NoLostIdleWakeup, [SchedNext]_schedVars
        PROVE  NoLostIdleWakeup'
    <2>1. ASSUME NEW value \in BOOLEAN, SetReady(value)
          PROVE  NoLostIdleWakeup'
      BY <1>2, <2>1 DEF SetReady, NoLostIdleWakeup, IsIdle
    <2>2. ASSUME NEW r \in Requests, NEW s \in Sessions, Enqueue(r, s)
          PROVE  NoLostIdleWakeup'
      BY <2>2 DEF Enqueue, NoLostIdleWakeup, IsIdle
    <2>3. ASSUME NEW r \in Requests, DrainShift(r)
          PROVE  NoLostIdleWakeup'
      <3>1. status[r] # "canceled"
        BY <1>2, <2>3 DEF DrainShift, BooksInv, BooksAgree, With
      <3> QED
        BY <2>3, <3>1 DEF DrainShift, NoLostIdleWakeup, IsIdle
    <2>4. ASSUME DrainEnd
          PROVE  NoLostIdleWakeup'
      BY <1>2, <2>4 DEF DrainEnd, NoLostIdleWakeup, IsIdle
    <2>5. ASSUME NotifyIdleWaiters
          PROVE  NoLostIdleWakeup'
      BY <1>2, <2>5, WakingWaiters DEF BooksInv
    <2>6. ASSUME NEW w \in Waiters, WaitForIdle(w)
          PROVE  NoLostIdleWakeup'
      <3>1. idle' = [idle EXCEPT ![w] = IF IsIdle THEN "resolved" ELSE "parked"]
        BY <2>6 DEF WaitForIdle
      <3>2. IsIdle' <=> IsIdle
        BY <2>6 DEF WaitForIdle, IsIdle
      <3>3. idle \in [Waiters -> {"none", "parked", "resolved"}]
        BY <1>2 DEF BooksInv, SchedTypeOK
      <3> QED
        BY <1>2, <3>1, <3>2, <3>3 DEF NoLostIdleWakeup
    <2>7. CASE UNCHANGED schedVars
      BY <1>2, <2>7 DEF schedVars, NoLostIdleWakeup, IsIdle
    <2> QED
      BY <1>2, <2>1, <2>2, <2>3, <2>4, <2>5, <2>6, <2>7
      DEF SchedNext, Call, DrainStep, Complete, Fail, Leave, CancelQueued, CancelRunning,
          CancelAll, CancelAllWith, CancelBySession
  <1> QED
    BY <1>1, <1>2, BooksInit, BooksStep, PTL DEF SchedSpec

\* Whatever makes a dispatch possible asks for one.
THEOREM DispatchIsNeverForgotten == SchedSpec => []NoStalledDispatch
  <1>1. SchedInit => NoStalledDispatch
    BY DEF SchedInit, NoStalledDispatch, CanShift
  <1>2. ASSUME NoStalledDispatch, [SchedNext]_schedVars
        PROVE  NoStalledDispatch'
    <2>1. ASSUME NEW value \in BOOLEAN, SetReady(value)
          PROVE  NoStalledDispatch'
      BY <2>1 DEF SetReady, RequestDrain, NoStalledDispatch, CanShift
    <2>2. ASSUME RequestDrain
          PROVE  NoStalledDispatch'
      BY <2>2 DEF RequestDrain, NoStalledDispatch
    <2>3. ASSUME NEW r \in Requests, DrainShift(r)
          PROVE  NoStalledDispatch'
      BY <2>3 DEF DrainShift, NoStalledDispatch
    <2>4. ASSUME DrainEnd
          PROVE  NoStalledDispatch'
      BY <2>4 DEF DrainEnd, NoStalledDispatch, CanShift
    <2>5. ASSUME NEW r \in Requests, CancelQueued(r)
          PROVE  NoStalledDispatch'
      BY <1>2, <2>5 DEF CancelQueued, NoStalledDispatch, CanShift
    <2>6. ASSUME CancelAll
          PROVE  NoStalledDispatch'
      BY <2>6 DEF CancelAll, CancelAllWith, NoStalledDispatch, CanShift
    <2>7. ASSUME NEW w \in Waiters, WaitForIdle(w)
          PROVE  NoStalledDispatch'
      BY <1>2, <2>7 DEF WaitForIdle, NoStalledDispatch, CanShift
    <2>8. CASE UNCHANGED schedVars
      BY <1>2, <2>8 DEF schedVars, NoStalledDispatch, CanShift
    <2> QED
      BY <1>2, <2>1, <2>2, <2>3, <2>4, <2>5, <2>6, <2>7, <2>8
      DEF SchedNext, Call, DrainStep, Complete, Fail, Leave, CancelRunning,
          CancelBySession, Enqueue
  <1> QED
    BY <1>1, <1>2, PTL DEF SchedSpec

--------------------------------------------------------------------------------
(* Refinement                                                              *)

\* A step of the scheduler is a step in the life of its requests.
LEMMA LifeSteps ==
  ASSUME BooksInv, [SchedNext]_schedVars
  PROVE  [Life!Next]_status
  <1> USE DEF Requests, Life!Requests, Life!In, SetStatus
  <1>0. status \in [Requests -> Statuses]
    BY DEF BooksInv, SchedTypeOK
  <1>1. ASSUME NEW r \in Requests, NEW s \in Sessions, Enqueue(r, s)
        PROVE  Life!Submit
    <2>1. status' = [status EXCEPT ![r] = "queued"]
      BY <1>0, <1>1 DEF Enqueue
    <2> QED
      BY <1>1, <2>1 DEF Enqueue, With, Life!Submit
  <1>2. ASSUME NEW r \in Requests, DrainShift(r)
        PROVE  Life!Start
    <2>1. queue = Life!In("queued") /\ pending = Life!In("running")
      BY DEF BooksInv, BooksAgree, With
    <2>2. Cardinality(Life!In("running")) < MaxInFlight
      BY <1>2, <2>1 DEF DrainShift, CanShift, BooksInv, BooksAgree
    <2>3. r \in Life!In("queued") /\ \A q \in Life!In("queued") : r <= q
      BY <1>2, <2>1 DEF DrainShift
    <2>4. status' = [status EXCEPT ![r] = "running"]
      BY <1>0, <1>2, <2>3 DEF DrainShift
    <2>5. Life!Cardinality(Life!In("running")) = Cardinality(Life!In("running"))
      BY DEF Cardinality, Life!Cardinality
    <2> QED
      BY <2>2, <2>3, <2>4, <2>5 DEF Life!Start
  <1>3. ASSUME NEW r \in Requests, NEW end \in {"done", "error"}, Leave(r, end)
        PROVE  Life!Answer
    <2>1. r \in Life!In("running")
      BY <1>3 DEF Leave, BooksInv, BooksAgree, With
    <2>2. status' = [status EXCEPT ![r] = end]
      BY <1>0, <1>3 DEF Leave
    <2> QED
      BY <2>1, <2>2 DEF Life!Answer
  <1>4. ASSUME NEW R \in SUBSET (queue \union pending), SetStatus(R, "canceled")
        PROVE  Life!Abandon
    <2>1. R \in SUBSET (Life!In("queued") \union Life!In("running"))
      BY <1>4 DEF BooksInv, BooksAgree, With
    <2> QED
      BY <1>4, <2>1 DEF Life!Abandon
  <1>5. ASSUME NEW r \in Requests, CancelQueued(r) \/ CancelRunning(r)
        PROVE  Life!Abandon
    <2>1. {r} \in SUBSET (queue \union pending) /\ SetStatus({r}, "canceled")
      BY <1>5 DEF CancelQueued, CancelRunning, Leave
    <2> QED
      BY <1>4, <2>1
  <1>6. ASSUME CancelAll
        PROVE  Life!Abandon
    BY <1>4, <1>6 DEF CancelAll, CancelAllWith
  <1>7. ASSUME NEW s \in Sessions, CancelBySession(s)
        PROVE  Life!Abandon
    BY <1>4, <1>7 DEF CancelBySession
  <1>8. ASSUME \/ \E value \in BOOLEAN : SetReady(value)
               \/ \E w \in Waiters : WaitForIdle(w)
               \/ DrainEnd
               \/ UNCHANGED schedVars
        PROVE  UNCHANGED status
    BY <1>8 DEF SetReady, WaitForIdle, DrainEnd, schedVars
  <1> QED
    BY <1>1, <1>2, <1>3, <1>5, <1>6, <1>7, <1>8
    DEF SchedNext, Call, DrainStep, Complete, Fail, Life!Next

\* The scheduler runs every request through the life RequestLifecycle describes:
\* a dispatch is a start within the limit and in order, an answer ends a running
\* request, the cancellations abandon, and the rest of the bookkeeping is not seen.
THEOREM SchedulerImplementsLife == SchedSpec => ImplementsRequestLifecycle
  <1>1. SchedInit => Life!Init
    BY DEF SchedInit, Life!Init, Requests, Life!Requests
  <1>2. BooksInv /\ [SchedNext]_schedVars => [Life!Next]_status
    BY LifeSteps
  <1> QED
    BY <1>1, <1>2, BooksInit, BooksStep, PTL DEF SchedSpec, ImplementsRequestLifecycle, Life!Spec

\* Requests are created in the order of their ids, and dispatched in it: all that
\* came before one that has been dispatched have left the queue.
FifoInv ==
  \A r \in Requests : \A q \in Requests : q < r =>
    /\ status[r] # "new" => status[q] # "new"
    /\ status[r] \in {"running", "done", "error"} => status[q] \notin {"new", "queued"}

LEMMA FifoStep ==
  ASSUME BooksInv, FifoInv, [SchedNext]_schedVars
  PROVE  FifoInv'
  <1>1. [Life!Next]_status
    BY LifeSteps
  <1>2. status \in [Requests -> Statuses] /\ Requests \subseteq Nat
    BY DEF BooksInv, SchedTypeOK, Requests
  <1> SUFFICES ASSUME NEW r \in Requests, NEW q \in Requests, q < r
               PROVE  /\ status'[r] # "new" => status'[q] # "new"
                      /\ status'[r] \in {"running", "done", "error"} => status'[q] \notin {"new", "queued"}
    BY DEF FifoInv
  <1>3. /\ status[r] # "new" => status[q] # "new"
        /\ status[r] \in {"running", "done", "error"} => status[q] \notin {"new", "queued"}
    BY DEF FifoInv
  <1> USE DEF Life!In, Life!Requests, Requests
  <1>4. CASE Life!Submit
    BY <1>2, <1>3, <1>4 DEF Life!Submit
  <1>5. CASE Life!Start
    BY <1>2, <1>3, <1>5 DEF Life!Start
  <1>6. CASE Life!Answer
    BY <1>2, <1>3, <1>6 DEF Life!Answer
  <1>7. CASE Life!Abandon
    BY <1>2, <1>3, <1>7 DEF Life!Abandon
  <1>8. CASE UNCHANGED status
    BY <1>3, <1>8
  <1> QED
    BY <1>1, <1>4, <1>5, <1>6, <1>7, <1>8 DEF Life!Next
================================================================================
