------------------------------ MODULE ChannelProofs ------------------------------
(***************************************************************************)
(* What is on its way between the two threads, for any number of requests, *)
(* sessions, calls and failures: at most one init message and one `ready`  *)
(* for the attempt that is waited for; of every session reset one message, *)
(* operation or report; of every running prompt a message, a record of the *)
(* worker or an answer.  From it follow that a reset session is quiet when *)
(* the reset is reported, that no running prompt is lost, that the prompts *)
(* of a session are answered in order, and that a model reset finds no     *)
(* init cycle.  The last two sections show, from the callers and failures  *)
(* that cannot leave a boundary half undone, that a runtime whose init has *)
(* been resolved is ready, or on its way to be.                            *)
(***************************************************************************)
EXTENDS CancelProofs

--------------------------------------------------------------------------------
(* Channels: what is left of one, and what is added to it.                  *)

LEMMA RestOf ==
  ASSUME NEW T, NEW c \in Seq(T), c # <<>>
  PROVE  /\ Tail(c) \in Seq(T) /\ 1 \in DOMAIN c /\ Head(c) = c[1]
         /\ \A i \in DOMAIN c : i \in Nat \ {0}
         /\ \A i \in DOMAIN Tail(c) : i \in Nat \ {0} /\ i + 1 \in DOMAIN c /\ Tail(c)[i] = c[i + 1]
         /\ \A i \in DOMAIN c : i # 1 => i - 1 \in DOMAIN Tail(c) /\ Tail(c)[i - 1] = c[i]
  <1>1. Len(c) \in Nat /\ DOMAIN c = 1..Len(c) /\ Len(c) # 0
    BY LenProperties, EmptySeq
  <1>2. PICK n : n = Tail(c)
    OBVIOUS
  <1>3. n \in Seq(T) /\ Len(n) = Len(c) - 1 /\ \A i \in 1..Len(n) : n[i] = c[i + 1]
    BY <1>1, <1>2, HeadTailProperties
  <1>4. DOMAIN n = 1..(Len(c) - 1)
    BY <1>3, LenProperties
  <1>5. ASSUME NEW i \in DOMAIN n PROVE i \in Nat \ {0} /\ i + 1 \in DOMAIN c /\ n[i] = c[i + 1]
    BY <1>1, <1>3, <1>4
  <1>6. ASSUME NEW i \in DOMAIN c, i # 1 PROVE i - 1 \in DOMAIN n /\ n[i - 1] = c[i]
    <2>1. i - 1 \in 1..(Len(c) - 1) /\ i - 1 + 1 = i
      BY <1>1, <1>6
    <2> QED
      BY <1>3, <1>4, <2>1
  <1>7. Head(c) = c[1] /\ 1 \in DOMAIN c /\ \A i \in DOMAIN c : i \in Nat \ {0}
    BY <1>1
  <1> QED
    BY <1>2, <1>3, <1>5, <1>6, <1>7

LEMMA MoreOf ==
  ASSUME NEW T, NEW c \in Seq(T), NEW ms \in Seq(T)
  PROVE  /\ c \o ms \in Seq(T)
         /\ Len(c) \in Nat /\ DOMAIN c = 1..Len(c) /\ \A j \in DOMAIN ms : j \in Nat \ {0}
         /\ \A i \in DOMAIN c : i \in DOMAIN (c \o ms) /\ (c \o ms)[i] = c[i]
         /\ \A j \in DOMAIN ms : Len(c) + j \in DOMAIN (c \o ms) /\ (c \o ms)[Len(c) + j] = ms[j]
         /\ \A i \in DOMAIN (c \o ms) : i \in DOMAIN c \/ \E j \in DOMAIN ms : i = Len(c) + j
  <1>1. /\ Len(c) \in Nat /\ DOMAIN c = 1..Len(c)
        /\ Len(ms) \in Nat /\ DOMAIN ms = 1..Len(ms)
    BY LenProperties
  <1>2. PICK n : n = c \o ms
    OBVIOUS
  <1>3. /\ n \in Seq(T) /\ Len(n) = Len(c) + Len(ms)
        /\ \A i \in 1..(Len(c) + Len(ms)) : n[i] = IF i <= Len(c) THEN c[i] ELSE ms[i - Len(c)]
    BY <1>1, <1>2, ConcatProperties
  <1>4. DOMAIN n = 1..(Len(c) + Len(ms))
    BY <1>3, LenProperties
  <1>5. ASSUME NEW i \in DOMAIN c PROVE i \in DOMAIN n /\ n[i] = c[i]
    BY <1>1, <1>3, <1>4
  <1>6. ASSUME NEW j \in DOMAIN ms PROVE Len(c) + j \in DOMAIN n /\ n[Len(c) + j] = ms[j]
    <2>1. Len(c) + j \in 1..(Len(c) + Len(ms)) /\ ~(Len(c) + j <= Len(c)) /\ Len(c) + j - Len(c) = j
      BY <1>1
    <2> QED
      BY <1>1, <1>3, <1>4, <2>1
  <1>7. ASSUME NEW i \in DOMAIN n PROVE i \in DOMAIN c \/ \E j \in DOMAIN ms : i = Len(c) + j
    <2>1. CASE i > Len(c)
      <3>1. i - Len(c) \in DOMAIN ms /\ i = Len(c) + (i - Len(c))
        BY <1>1, <1>4, <2>1
      <3> QED
        BY <3>1
    <2>2. CASE ~(i > Len(c))
      BY <1>1, <1>4, <2>2
    <2> QED
      BY <2>1, <2>2
  <1>8. \A j \in DOMAIN ms : j \in Nat \ {0}
    BY <1>1
  <1> QED
    BY <1>1, <1>2, <1>3, <1>5, <1>6, <1>7, <1>8

LEMMA OneMoreOf ==
  ASSUME NEW T, NEW c \in Seq(T), NEW m \in T
  PROVE  /\ Append(c, m) \in Seq(T)
         /\ Len(c) \in Nat /\ DOMAIN c = 1..Len(c)
         /\ \A i \in DOMAIN c : i \in DOMAIN Append(c, m) /\ Append(c, m)[i] = c[i]
         /\ Len(c) + 1 \in DOMAIN Append(c, m) /\ Append(c, m)[Len(c) + 1] = m
         /\ \A i \in DOMAIN Append(c, m) : i \in DOMAIN c \/ i = Len(c) + 1
  <1>1. Len(c) \in Nat /\ DOMAIN c = 1..Len(c)
    BY LenProperties
  <1>2. PICK n : n = Append(c, m)
    OBVIOUS
  <1>3. /\ n \in Seq(T) /\ Len(n) = Len(c) + 1
        /\ \A i \in 1..Len(c) : n[i] = c[i]
        /\ n[Len(c) + 1] = m
    BY <1>2, AppendProperties
  <1>4. DOMAIN n = 1..(Len(c) + 1)
    BY <1>3, LenProperties
  <1> QED
    BY <1>1, <1>2, <1>3, <1>4

--------------------------------------------------------------------------------
(* The messages, the operations and the worker's record.                    *)

OperationTypes == {"reset_session", "reset_model", "shutdown"}
Operations == {Operation(t, s) : t \in OperationTypes, s \in Sessions \union {NoSession}}

Replies ==
  {Ready(n) : n \in Nat} \union {Done(r) : r \in Requests}
  \union {WorkerError(0, n, a) : n \in Nat, a \in Sessions \union {NoSession}}
  \union {WorkerError(r, 0, a) : r \in Requests, a \in Sessions \union {NoSession}}
  \union {Answer(op) : op \in Operations}

WorkerRecords ==
  [model: {"none", "loading", "loaded", "failed"}, attempt: Nat, resetting: BOOLEAN, shuttingDown: BOOLEAN,
   prompt: [Requests -> {"none", "running", "aborting"}],
   ops: Seq(Operations), phase: {"idle", "waiting"}, waits: SUBSET Requests]

WireTypes ==
  /\ toWorker \in Seq(Messages) /\ fromWorker \in Seq(Replies)
  /\ wk \in WorkerRecords
  /\ wk.phase = "waiting" => wk.ops # <<>>

\* What a message says.
LEMMA MessageFields ==
  ASSUME NEW m \in Messages
  PROVE  /\ m.type \in {"init", "prompt", "cancel"} \union OperationTypes
         /\ m.type = "init" => m.attempt \in Nat
         /\ m.type = "prompt" => m.id \in Requests
         /\ m.type = "cancel" => m.ids \subseteq Requests
         /\ m.type \in OperationTypes => m \in Operations
  <1>1. CASE m \in {InitMessage(n) : n \in Nat}
    BY <1>1 DEF InitMessage, OperationTypes
  <1>2. CASE m \in {PromptMessage(r) : r \in Requests}
    BY <1>2 DEF PromptMessage, OperationTypes
  <1>3. CASE m \in {CancelMessage(R) : R \in SUBSET Requests}
    BY <1>3 DEF CancelMessage, OperationTypes
  <1>4. ASSUME NEW t \in OperationTypes, NEW s \in Sessions \union {NoSession}, m = Operation(t, s)
        PROVE  m.type = t /\ m \in Operations
    <2>1. m \in Operations
      BY <1>4 DEF Operations
    <2>2. m.type = t
      BY <1>4 DEF Operation
    <2> QED
      BY <2>1, <2>2
  <1> QED
    BY <1>1, <1>2, <1>3, <1>4 DEF Messages, OperationTypes

LEMMA OperationFields ==
  /\ \A t \in OperationTypes, s \in Sessions \union {NoSession} :
       /\ Operation(t, s) \in Operations /\ Operation(t, s) \in Messages
       /\ Operation(t, s).type = t /\ Operation(t, s).s = s
  /\ \A op \in Operations : op.type \in OperationTypes /\ op.s \in Sessions \union {NoSession}
  <1>1. \A t, s : Operation(t, s).type = t /\ Operation(t, s).s = s
    BY DEF Operation
  <1>2. \A t \in OperationTypes, s \in Sessions \union {NoSession} : Operation(t, s) \in Operations
    BY DEF Operations
  <1>3. \A t \in OperationTypes, s \in Sessions \union {NoSession} : Operation(t, s) \in Messages
    BY DEF Messages, OperationTypes
  <1>4. \A op \in Operations : op.type \in OperationTypes /\ op.s \in Sessions \union {NoSession}
    BY <1>1 DEF Operations
  <1> QED
    BY <1>1, <1>2, <1>3, <1>4

\* An error has no session of its own, and the error of a request no attempt.
LEMMA ReplyFields ==
  /\ \A n \in Nat : Ready(n) \in Replies /\ Ready(n).type = "ready" /\ Ready(n).attempt = n
  /\ \A r \in Requests : Done(r) \in Replies /\ Done(r).type = "done" /\ Done(r).id = r
  /\ \A n \in Nat, a \in Sessions \union {NoSession} :
       WorkerError(0, n, a) \in Replies /\ WorkerError(0, n, a).type = "error" /\ WorkerError(0, n, a).id = 0
  /\ \A r \in Requests, a \in Sessions \union {NoSession} :
       WorkerError(r, 0, a) \in Replies /\ WorkerError(r, 0, a).type = "error" /\ WorkerError(r, 0, a).id = r
  /\ \A op \in Operations :
       /\ Answer(op) \in Replies /\ Answer(op).s = op.s
       /\ op.type = "reset_session" => Answer(op).type = "reset_done"
       /\ op.type = "reset_model" => Answer(op).type = "model_reset_done"
       /\ op.type = "shutdown" => Answer(op).type = "shutdown_done"
  /\ \A m \in Replies : m.type = "error" => m.s = NoSession /\ (m.id # 0 => m.attempt = 0)
  <1>1. /\ \A n : Ready(n).type = "ready" /\ Ready(n).attempt = n
        /\ \A r : Done(r).type = "done" /\ Done(r).id = r
        /\ \A r, n, a : /\ WorkerError(r, n, a).type = "error" /\ WorkerError(r, n, a).id = r
                        /\ WorkerError(r, n, a).attempt = n /\ WorkerError(r, n, a).s = NoSession
    BY DEF Ready, Done, WorkerError
  <1>2. ASSUME NEW op
        PROVE  /\ Answer(op).s = op.s
               /\ op.type = "reset_session" => Answer(op).type = "reset_done"
               /\ op.type = "reset_model" => Answer(op).type = "model_reset_done"
               /\ op.type = "shutdown" => Answer(op).type = "shutdown_done"
    BY DEF Answer
  <1>3. \A op \in Operations : op.type \in {"reset_session", "reset_model", "shutdown"}
    BY OperationFields DEF OperationTypes
  <1>4. \A op \in Operations : Answer(op).type # "error"
    BY <1>2, <1>3
  <1>5. /\ \A n \in Nat : Ready(n) \in Replies
        /\ \A r \in Requests : Done(r) \in Replies
        /\ \A n \in Nat, a \in Sessions \union {NoSession} : WorkerError(0, n, a) \in Replies
        /\ \A r \in Requests, a \in Sessions \union {NoSession} : WorkerError(r, 0, a) \in Replies
        /\ \A op \in Operations : Answer(op) \in Replies
    BY DEF Replies
  <1>6. ASSUME NEW m \in Replies, m.type = "error" PROVE m.s = NoSession /\ (m.id # 0 => m.attempt = 0)
    <2>1. \/ \E n \in Nat, a \in Sessions \union {NoSession} : m = WorkerError(0, n, a)
          \/ \E r \in Requests, a \in Sessions \union {NoSession} : m = WorkerError(r, 0, a)
      BY <1>1, <1>4, <1>6 DEF Replies
    <2> QED
      BY <1>1, <2>1
  <1> QED
    BY <1>1, <1>2, <1>5, <1>6

--------------------------------------------------------------------------------
(* What the worker's steps do to the channels and to its record.            *)

Hears == toWorker # <<>> /\ toWorker' = Tail(toWorker)
Says(m) == m \in Replies /\ fromWorker' = Append(fromWorker, m)
SaysError(r) == \E m : Says(m) /\ m.type = "error" /\ m.id = r
SaysFailure(n) == \E m : Says(m) /\ m.type = "error" /\ m.id = 0 /\ m.attempt = n

ModelKept ==
  /\ wk'.model = wk.model /\ wk'.attempt = wk.attempt
  /\ wk'.resetting = wk.resetting /\ wk'.shuttingDown = wk.shuttingDown
PromptsKept == wk'.prompt = wk.prompt
OpsKept == wk'.ops = wk.ops /\ wk'.phase = wk.phase /\ wk'.waits = wk.waits
NextOp == wk.ops # <<>> /\ wk'.ops = Tail(wk.ops) /\ wk'.phase = "idle"

LEMMA ErrorsAreSaid ==
  /\ \A n \in Nat, a \in Sessions \union {NoSession} : Post(WorkerError(0, n, a)) => SaysError(0)
  /\ \A r \in Requests, a \in Sessions \union {NoSession} : Post(WorkerError(r, 0, a)) => SaysError(r)
  BY ReplyFields DEF Post, Says, SaysError

\* The error of an init attempt carries it.
LEMMA FailuresAreSaid ==
  \A n \in Nat, a \in Sessions \union {NoSession} : Post(WorkerError(0, n, a)) => SaysError(0) /\ SaysFailure(n)
  <1>1. \A n, a : WorkerError(0, n, a).attempt = n
    BY DEF WorkerError
  <1> QED
    BY <1>1, ReplyFields DEF Post, Says, SaysError, SaysFailure

LEMMA AtInit ==
  ASSUME WireTypes, ReceiveInit
  PROVE  /\ Hears /\ toWorker[1].type = "init" /\ PromptsKept /\ OpsKept /\ wk' \in WorkerRecords
         /\ \/ /\ wk'.model = "loading" /\ wk'.attempt = toWorker[1].attempt
               /\ wk'.resetting = wk.resetting /\ wk'.shuttingDown = wk.shuttingDown
               /\ fromWorker' = fromWorker
            \/ ModelKept /\ (fromWorker' = fromWorker \/ (SaysError(0) /\ SaysFailure(toWorker[1].attempt)))
  <1>1. /\ Hears /\ toWorker[1].type = "init" /\ toWorker[1] \in Messages
        /\ Head(toWorker) = toWorker[1] /\ toWorker[1].attempt \in Nat
    <2>1. Hears /\ Head(toWorker).type = "init"
      BY DEF ReceiveInit, Received, Hears
    <2>2. 1 \in DOMAIN toWorker /\ Head(toWorker) = toWorker[1]
      BY <2>1, RestOf DEF WireTypes, Hears
    <2>3. toWorker[1] \in Messages
      BY <2>2 DEF WireTypes
    <2> QED
      BY <2>1, <2>2, <2>3, MessageFields
  <1>2. CASE wk.model = "none"
    <2>1. wk' = [wk EXCEPT !.model = "loading", !.attempt = toWorker[1].attempt] /\ fromWorker' = fromWorker
      BY <1>1, <1>2 DEF ReceiveInit
    <2>2. wk' \in WorkerRecords
      BY <1>1, <2>1 DEF WireTypes, WorkerRecords
    <2> QED
      BY <1>1, <2>1, <2>2 DEF WireTypes, WorkerRecords, PromptsKept, OpsKept
  <1>3. CASE wk.model # "none"
    <2>1. wk' = wk
      BY <1>3 DEF ReceiveInit
    <2>2. fromWorker' = fromWorker \/ (SaysError(0) /\ SaysFailure(toWorker[1].attempt))
      BY <1>1, FailuresAreSaid DEF ReceiveInit
    <2> QED
      BY <1>1, <2>1, <2>2 DEF WireTypes, PromptsKept, OpsKept, ModelKept
  <1> QED
    BY <1>2, <1>3

LEMMA AtLoad ==
  ASSUME WireTypes, ModelLoads \/ ModelLoadFails
  PROVE  /\ toWorker' = toWorker /\ PromptsKept /\ OpsKept /\ wk' \in WorkerRecords
         /\ wk.model = "loading" /\ wk'.attempt = wk.attempt
         /\ \/ /\ wk'.model = "loaded" /\ ~wk'.resetting /\ ~wk'.shuttingDown
               /\ \E m : Says(m) /\ m.type = "ready" /\ m.attempt = wk.attempt
            \/ /\ wk'.model = "failed" /\ wk'.resetting = wk.resetting /\ wk'.shuttingDown = wk.shuttingDown
               /\ SaysError(0) /\ SaysFailure(wk.attempt)
  <1>1. wk.attempt \in Nat
    BY DEF WireTypes, WorkerRecords
  <1>2. CASE ModelLoads
    <2>1. \E m : Says(m) /\ m.type = "ready" /\ m.attempt = wk.attempt
      BY <1>1, <1>2, ReplyFields DEF ModelLoads, Post, Says
    <2>2. wk' \in WorkerRecords
      BY <1>2 DEF ModelLoads, WireTypes, WorkerRecords
    <2> QED
      BY <1>2, <2>1, <2>2 DEF ModelLoads, WireTypes, WorkerRecords, PromptsKept, OpsKept
  <1>3. CASE ModelLoadFails
    <2>1. SaysError(0) /\ SaysFailure(wk.attempt)
      BY <1>1, <1>3, FailuresAreSaid DEF ModelLoadFails
    <2>2. wk' \in WorkerRecords
      BY <1>3 DEF ModelLoadFails, WireTypes, WorkerRecords
    <2> QED
      BY <1>3, <2>1, <2>2 DEF ModelLoadFails, WireTypes, WorkerRecords, PromptsKept, OpsKept
  <1> QED
    BY <1>2, <1>3

LEMMA AtPrompt ==
  ASSUME WireTypes, BooksInv, ReceivePrompt
  PROVE  /\ Hears /\ toWorker[1].type = "prompt" /\ toWorker[1].id \in Requests
         /\ OpsKept /\ ModelKept /\ wk' \in WorkerRecords
         /\ \/ ~wk.resetting /\ wk'.prompt = [wk.prompt EXCEPT ![toWorker[1].id] = "running"] /\ fromWorker' = fromWorker
            \/ PromptsKept /\ SaysError(toWorker[1].id)
  <1>1. Hears /\ Head(toWorker).type = "prompt"
    BY DEF ReceivePrompt, Received, Hears
  <1>2. 1 \in DOMAIN toWorker /\ Head(toWorker) = toWorker[1]
    BY <1>1, RestOf DEF WireTypes, Hears
  <1>3. toWorker[1].type = "prompt" /\ toWorker[1].id \in Requests
    BY <1>1, <1>2, MessageFields DEF WireTypes
  <1>4. PICK r \in Requests : r = toWorker[1].id
    BY <1>3
  <1>5. session[r] \in Sessions \union {NoSession}
    BY DEF BooksInv, SchedTypeOK
  <1>6. CASE NativeReady
    <2>1. ~wk.resetting /\ wk' = [wk EXCEPT !.prompt[r] = "running"] /\ fromWorker' = fromWorker
      BY <1>2, <1>4, <1>6 DEF ReceivePrompt, NativeReady
    <2>2. wk' \in WorkerRecords
      BY <2>1 DEF WireTypes, WorkerRecords
    <2>3. wk'.prompt = [wk.prompt EXCEPT ![r] = "running"] /\ OpsKept /\ ModelKept
      BY <2>1 DEF WireTypes, WorkerRecords, OpsKept, ModelKept
    <2> QED
      BY <1>1, <1>3, <1>4, <2>1, <2>2, <2>3
  <1>7. CASE ~NativeReady
    <2>1. wk' = wk /\ Post(WorkerError(r, 0, session[r]))
      BY <1>2, <1>4, <1>7 DEF ReceivePrompt
    <2>2. SaysError(r)
      BY <1>5, <2>1, ErrorsAreSaid
    <2> QED
      BY <1>1, <1>3, <1>4, <2>1, <2>2 DEF WireTypes, OpsKept, ModelKept, PromptsKept
  <1> QED
    BY <1>6, <1>7

LEMMA AbortingTypes ==
  ASSUME WireTypes, NEW R
  PROVE  Aborting(R) \in [Requests -> {"none", "running", "aborting"}]
  BY DEF Aborting, WireTypes, WorkerRecords

LEMMA AtCancel ==
  ASSUME WireTypes, ReceiveCancel
  PROVE  /\ Hears /\ toWorker[1].type = "cancel" /\ fromWorker' = fromWorker
         /\ OpsKept /\ ModelKept /\ wk' \in WorkerRecords
         /\ wk'.prompt = Aborting(toWorker[1].ids)
  <1>1. Hears /\ Head(toWorker).type = "cancel"
    BY DEF ReceiveCancel, Received, Hears
  <1>2. Head(toWorker) = toWorker[1]
    BY <1>1, RestOf DEF WireTypes, Hears
  <1>3. wk' = [wk EXCEPT !.prompt = Aborting(toWorker[1].ids)] /\ fromWorker' = fromWorker
    BY <1>2 DEF ReceiveCancel
  <1>4. PICK P \in [Requests -> {"none", "running", "aborting"}] : P = Aborting(toWorker[1].ids)
    BY AbortingTypes
  <1>5. wk' = [wk EXCEPT !.prompt = P]
    BY <1>3, <1>4
  <1>6. wk' \in WorkerRecords
    BY <1>5 DEF WireTypes, WorkerRecords
  <1>7. OpsKept /\ ModelKept /\ wk'.prompt = P
    BY <1>5 DEF WireTypes, WorkerRecords, OpsKept, ModelKept
  <1> QED
    BY <1>1, <1>2, <1>3, <1>4, <1>6, <1>7

LEMMA AtOperation ==
  ASSUME WireTypes, ReceiveOperation
  PROVE  /\ Hears /\ toWorker[1] \in Operations /\ fromWorker' = fromWorker
         /\ ModelKept /\ PromptsKept /\ wk' \in WorkerRecords
         /\ wk'.ops = Append(wk.ops, toWorker[1]) /\ wk'.phase = wk.phase /\ wk'.waits = wk.waits
  <1>1. Hears /\ Head(toWorker).type \in OperationTypes
    BY DEF ReceiveOperation, Received, Hears, OperationTypes
  <1>2. 1 \in DOMAIN toWorker /\ Head(toWorker) = toWorker[1]
    BY <1>1, RestOf DEF WireTypes, Hears
  <1>3. toWorker[1] \in Operations
    BY <1>1, <1>2, MessageFields DEF WireTypes
  <1>4. wk' = [wk EXCEPT !.ops = Append(wk.ops, toWorker[1])] /\ fromWorker' = fromWorker
    BY <1>2 DEF ReceiveOperation, WireTypes, WorkerRecords
  <1>5. PICK ops \in Seq(Operations) : ops = Append(wk.ops, toWorker[1])
    <2>1. wk.ops \in Seq(Operations)
      BY DEF WireTypes, WorkerRecords
    <2>2. Append(wk.ops, toWorker[1]) \in Seq(Operations)
      BY <1>3, <2>1, OneMoreOf
    <2> QED
      BY <2>2
  <1>6. wk' = [wk EXCEPT !.ops = ops]
    BY <1>4, <1>5
  <1>7. wk' \in WorkerRecords
    BY <1>6 DEF WireTypes, WorkerRecords
  <1>8. ModelKept /\ PromptsKept /\ wk'.ops = ops /\ wk'.phase = wk.phase /\ wk'.waits = wk.waits
    BY <1>6 DEF WireTypes, WorkerRecords, ModelKept, PromptsKept
  <1> QED
    BY <1>1, <1>3, <1>4, <1>5, <1>7, <1>8

LEMMA AtEnd ==
  ASSUME WireTypes, BooksInv, NEW r \in Requests, PromptEnds(r)
  PROVE  /\ toWorker' = toWorker /\ HasTurn(r) /\ wk.prompt[r] # "none"
         /\ wk'.prompt = [wk.prompt EXCEPT ![r] = "none"] /\ OpsKept /\ ModelKept /\ wk' \in WorkerRecords
         /\ \/ wk.prompt[r] = "running" /\ r \notin notified /\ \E m : Says(m) /\ m.type = "done" /\ m.id = r
            \/ (wk.prompt[r] = "aborting" \/ r \in notified) /\ fromWorker' = fromWorker
            \/ SaysError(r)
  <1>1. EndPrompt(r)
    BY DEF PromptEnds, PromptCompletes, PromptAborts, PromptFails
  <1>2. wk' \in WorkerRecords
    BY <1>1 DEF EndPrompt, WireTypes, WorkerRecords
  <1>3. wk'.prompt = [wk.prompt EXCEPT ![r] = "none"] /\ OpsKept /\ ModelKept
    BY <1>1 DEF EndPrompt, WireTypes, WorkerRecords, OpsKept, ModelKept
  <1>4. toWorker' = toWorker /\ HasTurn(r) /\ wk.prompt[r] # "none"
    BY <1>1 DEF EndPrompt, HasTurn
  <1>5. session[r] \in Sessions \union {NoSession} /\ wk.prompt[r] \in {"none", "running", "aborting"}
    BY DEF BooksInv, SchedTypeOK, WireTypes, WorkerRecords
  <1>6. CASE PromptCompletes(r)
    <2>1. \E m : Says(m) /\ m.type = "done" /\ m.id = r
      BY <1>6, ReplyFields DEF PromptCompletes, Post, Says
    <2> QED
      BY <1>2, <1>3, <1>4, <1>5, <1>6, <2>1 DEF PromptCompletes, Obsolete
  <1>7. CASE PromptAborts(r)
    BY <1>2, <1>3, <1>4, <1>7 DEF PromptAborts, Obsolete
  <1>8. CASE PromptFails(r)
    <2>1. SaysError(r)
      BY <1>5, <1>8, ErrorsAreSaid DEF PromptFails
    <2> QED
      BY <1>2, <1>3, <1>4, <2>1
  <1> QED
    BY <1>6, <1>7, <1>8 DEF PromptEnds

LEMMA NextOperationFields ==
  ASSUME WireTypes, wk.ops # <<>>
  PROVE  /\ NextOperation \in WorkerRecords /\ NextOperation.ops = Tail(wk.ops) /\ NextOperation.phase = "idle"
         /\ NextOperation.model = wk.model /\ NextOperation.attempt = wk.attempt
         /\ NextOperation.resetting = wk.resetting /\ NextOperation.shuttingDown = wk.shuttingDown
         /\ NextOperation.prompt = wk.prompt
         /\ wk.ops[1] \in Operations /\ Head(wk.ops) = wk.ops[1]
         /\ wk.ops[1].s \in Sessions \union {NoSession} /\ wk.ops[1].type \in OperationTypes
  <1>1. PICK ops \in Seq(Operations) : ops = Tail(wk.ops)
    BY RestOf DEF WireTypes, WorkerRecords
  <1>2. NextOperation = [wk EXCEPT !.ops = ops, !.phase = "idle", !.waits = {}]
    BY <1>1 DEF NextOperation, WireTypes, WorkerRecords
  <1>3. NextOperation \in WorkerRecords
    BY <1>2 DEF WireTypes, WorkerRecords
  <1>4. 1 \in DOMAIN wk.ops /\ Head(wk.ops) = wk.ops[1]
    BY RestOf DEF WireTypes, WorkerRecords
  <1>5. wk.ops[1] \in Operations
    BY <1>4 DEF WireTypes, WorkerRecords
  <1> QED
    BY <1>1, <1>2, <1>3, <1>4, <1>5, OperationFields DEF WireTypes, WorkerRecords

\* An operation begins, or is refused.
LEMMA AtBegin ==
  ASSUME WireTypes, OperationBegins
  PROVE  /\ toWorker' = toWorker /\ wk' \in WorkerRecords /\ wk.ops # <<>> /\ wk.ops[1] \in Operations
         /\ wk.phase = "idle"
         /\ \/ /\ wk.ops[1].type # "shutdown" /\ ~NativeReady
               /\ NextOp /\ ModelKept /\ PromptsKept /\ SaysError(0)
            \/ /\ wk'.ops = wk.ops /\ wk'.phase = "waiting" /\ wk'.waits = Affected(wk.ops[1])
               /\ wk'.prompt = Aborting(Affected(wk.ops[1]))
               /\ wk'.model = wk.model /\ wk'.attempt = wk.attempt
               /\ wk'.resetting = (wk.resetting \/ wk.ops[1].type = "reset_model")
               /\ wk'.shuttingDown = (wk.shuttingDown \/ wk.ops[1].type = "shutdown")
               /\ wk.ops[1].type # "shutdown" => wk.model = "loaded"
               /\ fromWorker' = fromWorker
  <1>1. toWorker' = toWorker /\ wk.ops # <<>> /\ wk.phase = "idle"
    BY DEF OperationBegins, OperationDue
  <1>2. PICK op \in Operations : op = wk.ops[1] /\ Head(wk.ops) = op /\ op.s \in Sessions \union {NoSession}
    BY <1>1, NextOperationFields
  <1>3. CASE op.type # "shutdown" /\ ~NativeReady
    <2>1. wk' = NextOperation /\ Post(WorkerError(0, 0, op.s))
      BY <1>2, <1>3 DEF OperationBegins
    <2>2. SaysError(0)
      BY <1>2, <2>1, ErrorsAreSaid
    <2> QED
      BY <1>1, <1>2, <1>3, <2>1, <2>2, NextOperationFields DEF NextOp, ModelKept, PromptsKept
  <1>4. CASE ~(op.type # "shutdown" /\ ~NativeReady)
    <2>1. PICK W \in SUBSET Requests : W = Affected(op)
      BY DEF Affected
    <2>2. PICK P \in [Requests -> {"none", "running", "aborting"}] : P = Aborting(W)
      BY AbortingTypes
    <2>3. PICK r \in BOOLEAN : r = (wk.resetting \/ op.type = "reset_model")
      OBVIOUS
    <2>4. PICK d \in BOOLEAN : d = (wk.shuttingDown \/ op.type = "shutdown")
      OBVIOUS
    <2>5. wk' = [wk EXCEPT !.phase = "waiting", !.waits = W, !.prompt = P, !.resetting = r, !.shuttingDown = d]
      BY <1>2, <1>4, <2>1, <2>2, <2>3, <2>4 DEF OperationBegins, WireTypes, WorkerRecords
    <2>6. wk' \in WorkerRecords
      BY <2>5 DEF WireTypes, WorkerRecords
    <2>7. /\ wk'.ops = wk.ops /\ wk'.phase = "waiting" /\ wk'.waits = W /\ wk'.prompt = P
          /\ wk'.model = wk.model /\ wk'.attempt = wk.attempt /\ wk'.resetting = r /\ wk'.shuttingDown = d
      BY <2>5 DEF WireTypes, WorkerRecords
    <2>8. fromWorker' = fromWorker /\ (op.type # "shutdown" => wk.model = "loaded")
      BY <1>2, <1>4 DEF OperationBegins, NativeReady
    <2> QED
      BY <1>1, <1>2, <2>1, <2>2, <2>3, <2>4, <2>6, <2>7, <2>8
  <1> QED
    BY <1>3, <1>4

\* It ends, with an answer or an error.
LEMMA AtFinish ==
  ASSUME WireTypes, OperationEnds \/ OperationFails
  PROVE  /\ toWorker' = toWorker /\ wk' \in WorkerRecords /\ wk.phase = "waiting" /\ wk.ops[1] \in Operations
         /\ \A r \in wk.waits : wk.prompt[r] = "none"
         /\ NextOp /\ PromptsKept /\ wk'.resetting = wk.resetting /\ wk'.shuttingDown = wk.shuttingDown
         /\ OperationEnds \/ (ModelKept /\ SaysError(0))
         /\ OperationEnds =>
              \E m : /\ Says(m)
                     /\ \/ ModelKept /\ wk.ops[1].type = "reset_session" /\ m.type = "reset_done" /\ m.s = wk.ops[1].s
                        \/ /\ wk'.model = "none" /\ wk.ops[1].type \in {"reset_model", "shutdown"}
                           /\ m.type = IF wk.ops[1].type = "reset_model" THEN "model_reset_done" ELSE "shutdown_done"
  <1>1. toWorker' = toWorker /\ wk.phase = "waiting" /\ wk.ops # <<>> /\ \A r \in wk.waits : wk.prompt[r] = "none"
    BY DEF OperationEnds, OperationFails, BoundaryReached, WireTypes
  <1>2. PICK op \in Operations : op = wk.ops[1] /\ Head(wk.ops) = op /\ op.s \in Sessions \union {NoSession}
                                 /\ op.type \in OperationTypes
    BY <1>1, NextOperationFields
  <1>3. CASE ~OperationEnds
    <2>1. wk' = NextOperation /\ Post(WorkerError(0, 0, op.s))
      BY <1>2, <1>3 DEF OperationFails
    <2>2. SaysError(0)
      BY <1>2, <2>1, ErrorsAreSaid
    <2> QED
      BY <1>1, <1>2, <1>3, <2>1, <2>2, NextOperationFields DEF NextOp, ModelKept, PromptsKept
  <1>4. CASE OperationEnds
    <2>1. PICK m \in Replies : m = Answer(op)
      BY <1>2, ReplyFields
    <2>2. Says(m)
      BY <1>2, <1>4, <2>1 DEF OperationEnds, Post, Says
    <2>3. CASE op.type = "reset_session"
      <3>1. wk' = NextOperation
        BY <1>2, <1>4, <2>3 DEF OperationEnds
      <3>2. m.type = "reset_done" /\ m.s = op.s
        BY <2>1, <2>3, ReplyFields
      <3> QED
        BY <1>1, <1>2, <1>4, <2>2, <2>3, <3>1, <3>2, NextOperationFields DEF NextOp, ModelKept, PromptsKept
    <2>4. CASE op.type # "reset_session"
      <3>1. PICK n \in WorkerRecords : n = NextOperation
        BY <1>1, NextOperationFields
      <3>2. wk' = [n EXCEPT !.model = "none", !.attempt = 0]
        BY <1>2, <1>4, <2>4, <3>1 DEF OperationEnds
      <3>3. wk' \in WorkerRecords
        BY <3>2 DEF WorkerRecords
      <3>4. /\ wk'.model = "none" /\ wk'.ops = n.ops /\ wk'.phase = n.phase /\ wk'.prompt = n.prompt
            /\ wk'.resetting = n.resetting /\ wk'.shuttingDown = n.shuttingDown
        BY <3>2 DEF WorkerRecords
      <3>5. op.type \in {"reset_model", "shutdown"}
        BY <1>2, <2>4 DEF OperationTypes
      <3>6. m.type = IF op.type = "reset_model" THEN "model_reset_done" ELSE "shutdown_done"
        BY <2>1, <3>5, ReplyFields
      <3> QED
        BY <1>1, <1>2, <1>4, <2>2, <3>1, <3>3, <3>4, <3>5, <3>6, NextOperationFields DEF NextOp, PromptsKept
    <2> QED
      BY <2>3, <2>4
  <1> QED
    BY <1>3, <1>4

--------------------------------------------------------------------------------
(* What the parent's steps do to the channels.                              *)

Ended == {"done", "error", "canceled"}

\* The request that an answer is about, and the session whose reset is asked for
\* or reported.
AnswersAt(ms, i, r) == ms[i].type \in {"done", "error"} /\ ms[i].id = r
ResetsAt(ms, i, s) == ms[i].type = "reset_session" /\ ms[i].s = s
ReportsAt(ms, i, s) == ms[i].type = "reset_done" /\ ms[i].s = s

\* Prompts are dispatched, and the model is reset, only once it has been loaded.
CycleInv ==
  /\ init.resolved => init.phase = "off" /\ init.started /\ init.lastPlan
  /\ ready \/ pending # {} => init.resolved
  /\ modelReset = "terminating" => init.resolved
  /\ init.phase = "waiting" => init.started

\* The init cycle waits for the attempt it waited for before, if for any.
InitKept ==
  /\ init'.phase = "waiting" <=> init.phase = "waiting"
  /\ init.phase = "waiting" => init'.attempt = init.attempt
  /\ init'.resolved = init.resolved

\* When the parent sends a message.
Due(m) ==
  /\ m.type = "init" =>
       /\ init.phase # "waiting" /\ (~init.resolved \/ ~workerUp)
       /\ init'.phase = "waiting" /\ init'.attempt = m.attempt
  /\ m.type = "prompt" => m.id \in queue /\ m.id \in pending'
  /\ m.type = "cancel" => \A r \in m.ids : status'[r] \in Ended
  /\ m.type = "reset_session" => m.s \in Sessions /\ sessionReset[m.s] = "none" /\ sessionReset'[m.s] # "none"
  /\ m.type = "reset_model" => ResetUnready \/ (init.resolved /\ init'.resolved)
  /\ m.type = "reset_model" => ~ready' /\ pending' = {}
  /\ m.type = "shutdown" => shutdown' \notin {"off"} \union Draining
  /\ m.type \in OperationTypes => Operational \/ shutdown \in Draining
  /\ m.type \in OperationTypes \ {"shutdown"} => Operational /\ (ResetUnready \/ init.resolved)
  /\ m.type = "reset_model" => modelReset' = "waiting"

\* It sends `ms`, or nothing at all.
Sent(ms) ==
  /\ ms \in Seq(Messages) /\ toWorker' = toWorker \o ms /\ UNCHANGED <<fromWorker, wk>>
  /\ \A i, j \in DOMAIN ms : ms[i].type = ms[j].type => i = j
  /\ \A i, j \in DOMAIN ms : ms[i].type \in OperationTypes /\ ms[j].type \in OperationTypes => i = j
  /\ \A i \in DOMAIN ms : Due(ms[i])
  /\ \A r \in pending' : r \in pending \/ \E i \in DOMAIN ms : BeginsAt(ms, i, r)
  /\ \A s \in Sessions : sessionReset'[s] = "none" => sessionReset[s] = "none"
  /\ InitKept \/ \E i \in DOMAIN ms : ms[i].type = "init"
  /\ workerUp' \/ (ms = <<>> /\ ~workerUp)

\* It handles the message at hand.
Handled ==
  /\ fromWorker # <<>> /\ fromWorker' = Tail(fromWorker) /\ UNCHANGED <<workerUp, toWorker, wk>>
  /\ pending' \subseteq pending /\ \A r \in Requests : AnswersAt(fromWorker, 1, r) => r \notin pending'
  /\ \A s \in Sessions : sessionReset'[s] = IF ReportsAt(fromWorker, 1, s) THEN "none" ELSE sessionReset[s]
  /\ IF fromWorker[1].type = "ready"
     THEN fromWorker[1].attempt = init.attempt => init'.resolved /\ init'.phase = "off"
     ELSE InitKept

\* It stops the worker.
Stopped ==
  ~workerUp' /\ toWorker' = <<>> /\ fromWorker' = <<>> /\ wk' = FreshWorker /\ pending' = {}

ParentActs == (\E ms : Sent(ms)) \/ Handled \/ Stopped

\* The parts of the state that most steps leave alone.
ResetsKept == \A s \in Sessions : sessionReset'[s] = "none" => sessionReset[s] = "none"

LEMMA NothingIsSent ==
  ASSUME WireTypes, UNCHANGED <<toWorker, fromWorker, wk>>, workerUp' \/ ~workerUp,
         pending' \subseteq pending, ResetsKept, InitKept
  PROVE  ParentActs
  <1>1. <<>> \in Seq(Messages) /\ DOMAIN <<>> = {}
    OBVIOUS
  <1>2. toWorker \o <<>> = toWorker
    BY ConcatEmptySeq DEF WireTypes
  <1>3. Sent(<<>>)
    BY <1>1, <1>2 DEF Sent, ResetsKept
  <1> QED
    BY <1>3 DEF ParentActs

LEMMA OneIsSent ==
  ASSUME NEW m \in Messages, Send(<<m>>), UNCHANGED <<fromWorker, wk>>, Due(m),
         \A r \in pending' : r \in pending \/ (m.type = "prompt" /\ m.id = r),
         ResetsKept, InitKept \/ m.type = "init"
  PROVE  ParentActs
  <1>1. PICK ms : ms = <<m>>
    OBVIOUS
  <1>2. ms \in Seq(Messages) /\ DOMAIN ms = {1} /\ ms[1] = m /\ ms # <<>>
    BY <1>1
  <1>3. toWorker' = toWorker \o ms /\ workerUp'
    BY <1>1, <1>2 DEF Send
  <1>4. \A r \in pending' : r \in pending \/ \E i \in DOMAIN ms : BeginsAt(ms, i, r)
    BY <1>2 DEF BeginsAt
  <1>5. InitKept \/ \E i \in DOMAIN ms : ms[i].type = "init"
    BY <1>2
  <1>6. \A i \in DOMAIN ms : Due(ms[i])
    BY <1>2
  <1>7. Sent(ms)
    BY <1>2, <1>3, <1>4, <1>5, <1>6 DEF Sent, ResetsKept
  <1> QED
    BY <1>7 DEF ParentActs

\* The messages of a boundary, for the requests R that it cancels.
LEMMA BoundaryIsSent ==
  ASSUME BooksInv, NEW R \in SUBSET (queue \union pending), NEW t \in OperationTypes,
         NEW s \in Sessions \union {NoSession}, CancelAndSend(R, Operation(t, s)),
         \A r \in R : status'[r] \in Ended,
         t = "reset_session" => s \in Sessions /\ sessionReset[s] = "none" /\ sessionReset'[s] # "none",
         t = "reset_model" => ResetUnready \/ (init.resolved /\ init'.resolved),
         t = "reset_model" => ~ready' /\ pending' = {},
         t = "shutdown" => shutdown' \notin {"off"} \union Draining,
         Operational \/ shutdown \in Draining,
         t # "shutdown" => Operational /\ (ResetUnready \/ init.resolved),
         t = "reset_model" => modelReset' = "waiting",
         pending' \subseteq pending, ResetsKept, InitKept
  PROVE  ParentActs
  <1>1. PICK m \in Messages : m = Operation(t, s) /\ m.type = t /\ m.s = s
    BY OperationFields
  <1>2. UNCHANGED <<fromWorker, wk>>
    BY DEF CancelAndSend
  <1>3. Due(m)
    BY <1>1 DEF Due, OperationTypes
  <1>4. CASE R = {}
    <2>1. Send(<<m>>)
      BY <1>1, <1>4 DEF CancelAndSend
    <2> QED
      BY <1>2, <1>3, <2>1, OneIsSent
  <1>5. CASE R # {}
    <2>1. R \subseteq Requests
      BY DEF BooksInv, SchedTypeOK
    <2>2. PICK c \in Messages : c = CancelMessage(R) /\ c.type = "cancel" /\ c.ids = R
      BY <2>1, MessageTypes
    <2>3. Due(c)
      BY <2>2 DEF Due, OperationTypes
    <2>4. PICK ms : ms = <<c, m>>
      OBVIOUS
    <2>5. ms \in Seq(Messages) /\ DOMAIN ms = {1, 2} /\ ms[1] = c /\ ms[2] = m /\ ms # <<>>
      BY <2>4
    <2>6. toWorker' = toWorker \o ms /\ workerUp'
      BY <1>1, <1>5, <2>2, <2>4, <2>5 DEF CancelAndSend, Send
    <2>7. c.type # m.type
      BY <1>1, <2>2 DEF OperationTypes
    <2>8. /\ \A i, j \in DOMAIN ms : ms[i].type = ms[j].type => i = j
          /\ \A i, j \in DOMAIN ms : ms[i].type \in OperationTypes /\ ms[j].type \in OperationTypes => i = j
      BY <2>2, <2>5, <2>7 DEF OperationTypes
    <2>9. \A i \in DOMAIN ms : Due(ms[i])
      BY <1>3, <2>3, <2>5
    <2>10. Sent(ms)
      BY <1>2, <2>5, <2>6, <2>8, <2>9 DEF Sent, ResetsKept
    <2> QED
      BY <2>10 DEF ParentActs
  <1> QED
    BY <1>4, <1>5

LEMMA AttemptIsSent ==
  ASSUME NEW in \in InitRecords, StartAttempt(in), init.phase # "waiting", ~init.resolved \/ ~workerUp, ResetsKept
  PROVE  ParentActs
  <1>1. PICK n \in Nat : n = in.next + 1
    BY DEF InitRecords
  <1>2. PICK m \in Messages : m = InitMessage(n) /\ m.type = "init" /\ m.attempt = n
    <2>1. InitMessage(n).attempt = n
      BY DEF InitMessage
    <2> QED
      BY <2>1, MessageTypes
  <1>3. Send(<<m>>) /\ UNCHANGED <<fromWorker, wk, pending>>
    BY <1>1, <1>2 DEF StartAttempt, SetReady
  <1>4. init' = [in EXCEPT !.phase = "waiting", !.left = @ - 1, !.started = TRUE, !.resolved = FALSE,
                           !.barrier = "open", !.attempt = n, !.next = @ + 1]
    BY <1>1 DEF StartAttempt
  <1>5. init'.phase = "waiting" /\ init'.attempt = n
    BY <1>4 DEF InitRecords
  <1>6. Due(m)
    BY <1>2, <1>5 DEF Due, OperationTypes
  <1> QED
    BY <1>2, <1>3, <1>6, OneIsSent

LEMMA CycleIsSent ==
  ASSUME WireTypes, InitInv, NEW owner \in {"initModel", "explicitInitModel", "prompt", "reset"}, StartCycle(owner),
         init.phase = "off", ~init.resolved \/ ~workerUp, ResetsKept
  PROVE  ParentActs
  <1>1. CASE StartAttempt([init EXCEPT !.owner = owner, !.left = 1])
    <2>1. 1 \in 0..InitAttempts
      BY LifecycleAssumption
    <2>2. PICK in \in InitRecords : in = [init EXCEPT !.owner = owner, !.left = 1]
      BY <2>1 DEF InitInv, InitRecords
    <2> QED
      BY <1>1, <2>2, AttemptIsSent
  <1>2. CASE init' = [init EXCEPT !.phase = "planning", !.owner = owner] /\ UNCHANGED <<schedVars, workerVars>>
    <2>1. init'.phase = "planning" /\ init'.resolved = init.resolved
      BY <1>2 DEF InitInv, InitRecords
    <2>2. InitKept
      BY <2>1 DEF InitKept
    <2> QED
      BY <1>2, <2>2, NothingIsSent DEF schedVars, workerVars
  <1> QED
    BY <1>1, <1>2 DEF StartCycle

\* What the callers do.
LEMMA CallsAct ==
  ASSUME BooksInv, InitInv, CallTypes, WireTypes, CycleInv, ApiCall
  PROVE  ParentActs
  <1>1. UNCHANGED sessionReset => ResetsKept
    BY DEF ResetsKept
  <1>2. UNCHANGED init => InitKept
    BY DEF InitKept
  <1>3. queue = With("queued") /\ pending = With("running")
    BY DEF BooksInv, BooksAgree
  <1>4. ASSUME NEW owner \in {"initModel", "explicitInitModel"}, InitModel(owner) PROVE ParentActs
    <2>1. init.phase = "off" /\ ~init.resolved /\ StartCycle(owner) /\ UNCHANGED sessionReset
      BY <1>4 DEF InitModel, CycleInv
    <2> QED
      BY <1>1, <2>1, CycleIsSent
  <1>5. ASSUME NEW s \in Sessions, Prompt(s) PROVE ParentActs
    <2>1. UNCHANGED sessionReset
      BY <1>5 DEF Prompt
    <2>2. CASE UNCHANGED <<init, schedVars, workerVars>>
      BY <1>1, <1>2, <2>1, <2>2, NothingIsSent DEF schedVars, workerVars
    <2>3. CASE StartCycle("prompt") /\ ~init.resolved /\ init.phase = "off"
      BY <1>1, <2>1, <2>3, CycleIsSent
    <2> QED
      BY <1>5, <2>2, <2>3 DEF Prompt
  <1>6. ASSUME NEW r \in Requests, CancelPrompt(r) PROVE ParentActs
    <2>1. PICK m \in Messages : m = CancelMessage({r}) /\ m.type = "cancel" /\ m.ids = {r}
      BY MessageTypes
    <2>2. Send(<<m>>) /\ UNCHANGED <<fromWorker, wk, init, sessionReset>>
      BY <1>6, <2>1 DEF CancelPrompt
    <2>3. status[r] # "new" /\ status[r] \in Statuses
      BY <1>6 DEF CancelPrompt, BooksInv, SchedTypeOK
    <2>4. status'[r] \in Ended
      <3>1. CASE CancelQueued(r) \/ CancelRunning(r)
        BY <3>1 DEF CancelQueued, CancelRunning, Leave, SetStatus, Ended
      <3>2. CASE r \notin queue \union pending /\ UNCHANGED schedVars
        BY <1>3, <2>3, <3>2 DEF schedVars, With, Ended, Statuses
      <3> QED
        BY <1>6, <3>1, <3>2 DEF CancelPrompt
    <2>5. pending' \subseteq pending
      BY <1>6 DEF CancelPrompt, CancelQueued, CancelRunning, Leave, schedVars
    <2>6. Due(m)
      BY <2>1, <2>4 DEF Due, OperationTypes
    <2> QED
      BY <1>1, <1>2, <2>2, <2>5, <2>6, OneIsSent
  <1>7. ASSUME NEW s \in Sessions, ResetSession(s) PROVE ParentActs
    <2>1. PICK R \in SUBSET (queue \union pending) : R = (queue \union pending) \intersect OfSession(s)
      OBVIOUS
    <2>2. /\ CancelAndSend(R, Operation("reset_session", s)) /\ SetStatus(R, "canceled")
          /\ sessionReset[s] = "none" /\ sessionReset' = [sessionReset EXCEPT ![s] = "active"]
          /\ pending' \subseteq pending /\ UNCHANGED init /\ Operational /\ (ResetUnready \/ init.resolved)
      BY <1>7, <2>1 DEF ResetSession, CancelBySession
    <2>3. sessionReset'[s] = "active" /\ ResetsKept
      BY <2>2 DEF CallTypes, ResetsKept
    <2>4. \A r \in R : status'[r] \in Ended
      BY <1>3, <2>2 DEF SetStatus, Ended, With
    <2> QED
      BY <1>2, <2>2, <2>3, <2>4, BoundaryIsSent DEF OperationTypes
  <1>8. ASSUME CancelAllWith(FALSE), NEW t \in {"reset_model", "shutdown"}, UNCHANGED <<init, sessionReset>>,
               CancelAndSend(queue \union pending, Operation(t, NoSession)),
               t = "reset_model" => ResetUnready \/ init.resolved,
               t = "shutdown" => shutdown' \notin {"off"} \union Draining,
               Operational, t = "reset_model" => modelReset' = "waiting"
        PROVE  ParentActs
    <2>1. \A r \in queue \union pending : status'[r] \in Ended
      BY <1>3, <1>8 DEF CancelAllWith, SetStatus, Ended, With
    <2>2. pending' = {} /\ ~ready'
      BY <1>8 DEF CancelAllWith
    <2> QED
      BY <1>1, <1>2, <1>8, <2>1, <2>2, BoundaryIsSent DEF OperationTypes
  <1>9. CASE ResetModel
    BY <1>8, <1>9 DEF ResetModel
  <1>10. ASSUME NEW mode, Shutdown(mode) PROVE ParentActs
    <2>1. CASE mode = "abort"
      BY <1>8, <1>10, <2>1 DEF Shutdown, Draining
    <2>2. CASE mode # "abort"
      BY <1>1, <1>2, <1>10, <2>2, NothingIsSent DEF Shutdown, WaitForIdle, workerVars
    <2> QED
      BY <2>1, <2>2
  <1> QED
    BY <1>4, <1>5, <1>6, <1>7, <1>9, <1>10 DEF ApiCall

\* Nothing runs when the worker is stopped.
LEMMA StoppingActs ==
  /\ Terminate /\ pending = {} /\ UNCHANGED schedVars => ParentActs
  /\ BooksInv /\ CycleInv /\ init.phase = "waiting" => pending = {}
  BY DEF Terminate, ParentActs, Stopped, schedVars, CycleInv

\* What the router does.
LEMMA RouterActs ==
  ASSUME BooksInv, BoundaryInv, InitInv, CallTypes, WireTypes, CycleInv, HandleWorkerMessage
  PROVE  ParentActs
  <1>1. fromWorker # <<>>
    BY DEF HandleWorkerMessage, HandleReady, HandleResetDone, HandleModelResetDone, HandleShutdownDone, HandleDone,
           HandleError, Handling
  <1>2. PICK m \in Replies : m = Head(fromWorker) /\ m = fromWorker[1]
    BY <1>1, RestOf DEF WireTypes
  <1>3. UNCHANGED init => InitKept
    BY DEF InitKept
  <1>4. pending \subseteq Requests /\ 0 \notin Requests
    BY DEF BooksInv, SchedTypeOK, Requests
  <1>5. ASSUME Keep, pending' \subseteq pending, m.type \in {"done", "error"} => m.id \notin pending',
               \A s \in Sessions : sessionReset'[s] = IF m.type = "reset_done" /\ m.s = s THEN "none" ELSE sessionReset[s],
               IF m.type = "ready" THEN m.attempt = init.attempt => init'.resolved /\ init'.phase = "off" ELSE InitKept
        PROVE  ParentActs
    BY <1>1, <1>2, <1>5 DEF Keep, Handled, ParentActs, AnswersAt, ReportsAt
  <1>6. CASE HandleReady
    <2>1. m.type = "ready" /\ Keep /\ UNCHANGED <<pending, sessionReset>>
      BY <1>2, <1>6 DEF HandleReady, Handling, SetReady, schedVars
    <2>2. m.attempt = init.attempt => init'.resolved /\ init'.phase = "off"
      BY <1>2, <1>6 DEF HandleReady, CycleSucceeds, InitInv, InitRecords
    <2> QED
      BY <1>5, <2>1, <2>2
  <1>7. CASE HandleResetDone
    <2>1. m.type = "reset_done" /\ Keep /\ UNCHANGED <<pending, init>>
          /\ sessionReset' = [sessionReset EXCEPT ![m.s] = "none"]
      BY <1>2, <1>7 DEF HandleResetDone, Handling, schedVars
    <2> QED
      BY <1>3, <1>5, <2>1 DEF CallTypes
  <1>8. CASE HandleModelResetDone \/ HandleShutdownDone
    <2>1. m.type \in {"model_reset_done", "shutdown_done"} /\ UNCHANGED <<schedVars, pending, init>>
      BY <1>2, <1>8 DEF HandleModelResetDone, HandleShutdownDone, Handling, schedVars
    <2>2. CASE Terminate /\ Boundary
      BY <2>1, <2>2, StoppingActs DEF BoundaryInv, IsIdle
    <2>3. CASE Keep /\ UNCHANGED sessionReset
      BY <1>3, <1>5, <2>1, <2>3
    <2> QED
      BY <1>8, <2>2, <2>3 DEF HandleModelResetDone, HandleShutdownDone, Boundary, Draining
  <1>9. CASE HandleDone
    <2>1. m.type = "done" /\ Keep /\ UNCHANGED <<init, sessionReset>>
      BY <1>2, <1>9 DEF HandleDone, Handling
    <2>2. pending' = pending \ {m.id}
      BY <1>2, <1>9 DEF HandleDone, Complete, Leave, schedVars
    <2> QED
      BY <1>3, <1>5, <2>1, <2>2
  <1>10. CASE HandleError
    <2>1. m.type = "error" /\ m.s = NoSession /\ (m.id # 0 => m.attempt = 0)
      BY <1>2, <1>10, ReplyFields DEF HandleError, Handling
    <2>2. ASSUME RejectReady, UNCHANGED <<schedVars, sessionReset>>, m.id \notin pending PROVE ParentActs
      <3>1. CASE Keep /\ (UNCHANGED init \/ init' = [init EXCEPT !.barrier = "failed"])
        <4>1. InitKept
          BY <1>3, <3>1 DEF InitKept, InitInv, InitRecords
        <4> QED
          BY <1>5, <2>1, <2>2, <3>1, <4>1 DEF schedVars
      <3>2. CASE AttemptFails("failed") /\ init.phase = "waiting"
        BY <2>2, <3>2, StoppingActs DEF AttemptFails
      <3> QED
        BY <2>2, <3>1, <3>2 DEF RejectReady
    <2>3. CASE m.attempt # 0
      <3>1. m.id \notin pending
        BY <1>4, <2>1, <2>3
      <3>2. UNCHANGED <<schedVars, sessionReset>> /\ (RejectReady \/ (Keep /\ UNCHANGED init))
        BY <1>2, <1>10, <2>3 DEF HandleError
      <3> QED
        BY <1>3, <1>5, <2>1, <2>2, <3>1, <3>2 DEF schedVars
    <2>4. CASE m.attempt = 0 /\ m.id = 0
      <3>1. m.id \notin pending
        BY <1>4, <2>4
      <3>2. CASE RejectReady /\ UNCHANGED <<schedVars, sessionReset>>
        BY <2>2, <3>1, <3>2
      <3>3. CASE Keep /\ UNCHANGED <<schedVars, init>> /\ \A s \in Sessions : sessionReset'[s] = sessionReset[s]
        BY <1>3, <1>5, <2>1, <3>1, <3>3 DEF schedVars
      <3>4. \/ RejectReady /\ UNCHANGED <<schedVars, sessionReset>>
            \/ Keep /\ UNCHANGED <<schedVars, init, sessionReset>>
            \/ /\ Keep /\ UNCHANGED <<schedVars, init>>
               /\ sessionReset' = [s \in Sessions |-> IF m.id = 0 /\ s = m.s THEN "none" ELSE sessionReset[s]]
        BY <1>2, <1>10, <2>4, <3>1 DEF HandleError
      <3>5. NoSession \notin Sessions
        BY NoSessionAssumption
      <3> QED
        BY <2>1, <3>2, <3>3, <3>4, <3>5
    <2>5. CASE m.attempt = 0 /\ m.id # 0
      <3>1. /\ Keep /\ UNCHANGED init
            /\ sessionReset' = [s \in Sessions |-> IF m.id = 0 /\ s = m.s THEN "none" ELSE sessionReset[s]]
            /\ IF m.id \in pending THEN Fail(m.id) ELSE UNCHANGED schedVars
        BY <1>2, <1>10, <2>5 DEF HandleError
      <3>2. pending' = pending \ {m.id}
        BY <3>1 DEF Fail, Leave, schedVars
      <3> QED
        BY <1>3, <1>5, <2>1, <2>5, <3>1, <3>2
    <2> QED
      BY <2>3, <2>4, <2>5
  <1> QED
    BY <1>6, <1>7, <1>8, <1>9, <1>10 DEF HandleWorkerMessage

\* So is everything else that the parent does.
LEMMA StepsAct ==
  ASSUME BooksInv, BoundaryInv, InitInv, CallTypes, WireTypes, CycleInv, [Next]_vars
  PROVE  ParentActs \/ (Worker /\ UNCHANGED <<schedVars, lifeVars>>)
  <1>1. UNCHANGED sessionReset => ResetsKept
    BY DEF ResetsKept
  <1>2. UNCHANGED init => InitKept
    BY DEF InitKept
  <1>3. queue = With("queued") /\ pending = With("running")
    BY DEF BooksInv, BooksAgree
  <1>4. UNCHANGED workerVars => UNCHANGED <<toWorker, fromWorker, wk>> /\ (workerUp' \/ ~workerUp)
    BY DEF workerVars
  <1>5. UNCHANGED schedVars => pending' \subseteq pending
    BY DEF schedVars
  <1>6. CASE UNCHANGED vars
    BY <1>1, <1>2, <1>4, <1>5, <1>6, NothingIsSent DEF vars, lifeVars
  <1>7. CASE Failure
    <2>1. CASE ReadyTimesOut
      BY <2>1, StoppingActs DEF ReadyTimesOut, AttemptFails
    <2>2. CASE PlanFails
      <3>1. InitKept
        BY <2>2 DEF PlanFails, CycleFails, InitInv, InitRecords, InitKept
      <3> QED
        BY <1>1, <1>4, <1>5, <2>2, <3>1, NothingIsSent DEF PlanFails
    <2>3. CASE ModelResetTimesOut \/ ShutdownTimesOut
      BY <1>1, <1>2, <1>4, <1>5, <2>3, NothingIsSent DEF ModelResetTimesOut, ShutdownTimesOut
    <2>4. ASSUME NEW s \in Sessions, SessionResetTimesOut(s) PROVE ParentActs
      <3>1. ResetsKept
        BY <2>4 DEF SessionResetTimesOut, CallTypes, ResetsKept
      <3> QED
        BY <1>2, <1>4, <1>5, <2>4, <3>1, NothingIsSent DEF SessionResetTimesOut
    <2> QED
      BY <1>7, <2>1, <2>2, <2>3, <2>4 DEF Failure
  <1>8. CASE Planned
    <2>1. InitAttempts \in 0..InitAttempts
      BY LifecycleAssumption
    <2>2. PICK in \in InitRecords : in = [init EXCEPT !.left = InitAttempts]
      BY <2>1 DEF InitInv, InitRecords
    <2> QED
      BY <1>1, <1>8, <2>2, AttemptIsSent DEF Planned, CycleInv
  <1>9. CASE Rested
    BY <1>1, <1>9, AttemptIsSent DEF Rested, CycleInv, InitInv
  <1>10. CASE AttemptStopped
    <2>1. init.phase = "stopping" /\ ~init.resolved
      BY <1>10 DEF AttemptStopped, CycleInv
    <2>2. \/ CycleFails(WithoutAttempt(init)) /\ SetReady(FALSE) /\ UNCHANGED workerUp
          \/ CycleFails(init) /\ UNCHANGED <<schedVars, workerUp>>
          \/ workerUp' = TRUE /\ init' = [init EXCEPT !.phase = "resting"] /\ UNCHANGED schedVars
      BY <1>10 DEF AttemptStopped
    <2>3. init'.phase # "waiting" /\ init'.resolved = init.resolved
      <3>1. CASE CycleFails(WithoutAttempt(init))
        <4>1. PICK in : in = WithoutAttempt(init)
          OBVIOUS
        <4>2. in \in InitRecords /\ in.resolved = FALSE
          BY <4>1 DEF WithoutAttempt, InitInv, InitRecords
        <4>3. init'.phase = "off" /\ init'.resolved = in.resolved
          BY <3>1, <4>1, <4>2 DEF CycleFails, InitRecords
        <4>4. init.resolved \in BOOLEAN
          BY DEF InitInv, InitRecords
        <4> QED
          BY <2>1, <4>2, <4>3, <4>4
      <3>2. CASE CycleFails(init) \/ init' = [init EXCEPT !.phase = "resting"]
        BY <3>2 DEF CycleFails, InitInv, InitRecords
      <3> QED
        BY <2>2, <3>1, <3>2
    <2>4. InitKept
      BY <2>1, <2>3 DEF InitKept
    <2>5. pending' = pending /\ (workerUp' \/ ~workerUp)
      BY <2>2 DEF SetReady, schedVars
    <2> QED
      BY <1>1, <1>10, <2>4, <2>5, NothingIsSent DEF AttemptStopped
  <1>11. ASSUME NEW s \in Sessions, PromptResumes(s) PROVE ParentActs
    <2>1. pending' = pending
      BY <1>11 DEF PromptResumes, Enqueue, schedVars
    <2> QED
      BY <1>1, <1>2, <1>4, <1>11, <2>1, NothingIsSent DEF PromptResumes
  <1>12. CASE Dispatch
    <2>1. PICK r \in Requests :
            DrainShift(r) /\ Send(IF status'[r] = "running" THEN <<PromptMessage(r)>> ELSE <<>>)
      BY <1>12 DEF Dispatch
    <2>2. UNCHANGED <<fromWorker, wk, init, sessionReset>>
      BY <1>12 DEF Dispatch, lifeVars
    <2>3. r \in queue /\ status[r] = "queued"
      BY <1>3, <2>1 DEF DrainShift, With
    <2>4. SetStatus({r}, "running") /\ pending' = pending \union {r}
      BY <2>1, <2>3 DEF DrainShift
    <2>5. status'[r] = "running"
      BY <2>4 DEF SetStatus
    <2>6. PICK m \in Messages : m = PromptMessage(r) /\ m.type = "prompt" /\ m.id = r
      BY MessageTypes
    <2>7. Due(m)
      BY <2>3, <2>4, <2>6 DEF Due, OperationTypes
    <2> QED
      BY <1>1, <1>2, <2>1, <2>2, <2>4, <2>5, <2>6, <2>7, OneIsSent
  <1>13. CASE DispatchEnds
    BY <1>1, <1>2, <1>4, <1>13, NothingIsSent DEF DispatchEnds, DrainEnd, lifeVars
  <1>14. CASE ModelResetStopped
    <2>1. UNCHANGED <<init, schedVars, workerVars, sessionReset>> \/ (StartCycle("reset") /\ ~workerUp /\ UNCHANGED sessionReset)
      BY <1>14 DEF ModelResetStopped
    <2>2. init.phase = "off"
      BY <1>14 DEF ModelResetStopped, CycleInv
    <2> QED
      BY <1>1, <1>2, <1>4, <1>5, <2>1, <2>2, CycleIsSent, NothingIsSent
  <1>15. CASE ShutdownDrained
    <2>1. PICK R \in SUBSET (queue \union pending) : R = {}
      OBVIOUS
    <2>2. CancelAndSend(R, Operation("shutdown", NoSession)) /\ UNCHANGED <<init, sessionReset>>
          /\ shutdown' = "waiting" /\ pending' = pending /\ shutdown \in Draining
      BY <1>15, <2>1 DEF ShutdownDrained, ShutdownResumes, Draining, schedVars
    <2> QED
      BY <1>1, <1>2, <2>1, <2>2, BoundaryIsSent DEF OperationTypes, Draining
  <1>16. CASE DrainTimesOut
    <2>1. CancelAllWith(FALSE) /\ CancelAndSend(queue \union pending, Operation("shutdown", NoSession))
          /\ UNCHANGED <<init, sessionReset>> /\ shutdown' = "waiting" /\ shutdown \in Draining
      BY <1>16 DEF DrainTimesOut, Draining
    <2>2. \A r \in queue \union pending : status'[r] \in Ended
      BY <1>3, <2>1 DEF CancelAllWith, SetStatus, Ended, With
    <2>3. pending' = {}
      BY <2>1 DEF CancelAllWith
    <2> QED
      BY <1>1, <1>2, <2>1, <2>2, <2>3, BoundaryIsSent DEF OperationTypes, Draining
  <1>17. CASE ShutdownStopped
    BY <1>1, <1>2, <1>4, <1>5, <1>17, NothingIsSent DEF ShutdownStopped
  <1>18. CASE Worker
    BY <1>18 DEF Worker
  <1> QED
    BY <1>6, <1>7, <1>8, <1>9, <1>10, <1>11, <1>12, <1>13, <1>14, <1>15, <1>16, <1>17, <1>18, CallsAct, RouterActs
       DEF Next

--------------------------------------------------------------------------------
(* The init cycle and the model.                                            *)

\* The worker that has not been started knows nothing.
DownInv == ~workerUp => toWorker = <<>> /\ fromWorker = <<>> /\ wk = FreshWorker

\* The attempt that the init cycle waits for.
Awaited(attempt) == init.phase = "waiting" /\ attempt = init.attempt

NoReady == \A j \in DOMAIN fromWorker : fromWorker[j].type # "ready"

\* The init message of the attempt has been sent, the model is loading, or `ready`
\* is on its way: one of the three at most, and only while the cycle waits for it.
\* A model reset, which insists on a model that is loaded, is answered after that.
LoadInv ==
  /\ \A i, j \in DOMAIN toWorker : toWorker[i].type = "init" /\ toWorker[j].type = "init" => i = j
  /\ \A i \in DOMAIN toWorker : toWorker[i].type = "init" =>
       Awaited(toWorker[i].attempt) /\ wk.model \notin {"loading", "loaded"} /\ NoReady
  /\ wk.model = "loading" => Awaited(wk.attempt) /\ NoReady
  /\ \A i, j \in DOMAIN fromWorker : fromWorker[i].type = "ready" /\ fromWorker[j].type = "ready" => i = j
  /\ \A i \in DOMAIN fromWorker : fromWorker[i].type = "ready" => Awaited(fromWorker[i].attempt)
  /\ wk.model = "loaded" => init.resolved \/ ~NoReady
  /\ wk.phase = "waiting" /\ wk.ops[1].type # "shutdown" => wk.model = "loaded"
  /\ \A j \in DOMAIN fromWorker : fromWorker[j].type = "model_reset_done" =>
       init.resolved \/ \E i \in DOMAIN fromWorker : i < j /\ fromWorker[i].type = "ready"

WireInv == WireTypes /\ DownInv /\ LoadInv

LEMMA FreshFields ==
  /\ FreshWorker \in WorkerRecords /\ FreshWorker.model = "none" /\ FreshWorker.resetting = FALSE
  /\ FreshWorker.ops = <<>> /\ FreshWorker.phase = "idle" /\ \A r \in Requests : FreshWorker.prompt[r] = "none"
  <1>1. <<>> \in Seq(Operations)
    OBVIOUS
  <1> QED
    BY <1>1 DEF FreshWorker, WorkerRecords

LEMMA FreshWires ==
  ASSUME toWorker = <<>>, fromWorker = <<>>, wk = FreshWorker
  PROVE  WireInv
  <1>1. /\ wk \in WorkerRecords /\ wk.model = "none" /\ wk.ops = <<>> /\ wk.phase = "idle"
    BY FreshFields
  <1>2. toWorker \in Seq(Messages) /\ fromWorker \in Seq(Replies) /\ DOMAIN toWorker = {} /\ DOMAIN fromWorker = {}
    OBVIOUS
  <1>3. WireTypes /\ DownInv
    BY <1>1, <1>2 DEF WireTypes, DownInv
  <1>4. LoadInv
    BY <1>1, <1>2 DEF LoadInv, NoReady
  <1> QED
    BY <1>3, <1>4 DEF WireInv

\* What the worker's steps have in common.
LEMMA WorkerWires ==
  ASSUME BooksInv, WireTypes, Worker
  PROVE  /\ WireTypes' /\ workerUp' = workerUp
         /\ toWorker' = toWorker \/ Hears
         /\ fromWorker' = fromWorker \/ \E m : Says(m)
  <1>1. SaysError(0) => \E m : Says(m)
    BY DEF SaysError
  <1>2. ASSUME toWorker' = toWorker \/ Hears, fromWorker' = fromWorker \/ \E m : Says(m), wk' \in WorkerRecords,
               OpsKept \/ wk'.phase = "idle" \/ wk'.ops # <<>>
        PROVE  WireTypes'
    <2>1. toWorker' \in Seq(Messages)
      <3>1. CASE Hears
        BY <3>1, RestOf DEF WireTypes, Hears
      <3> QED
        BY <1>2, <3>1 DEF WireTypes
    <2>2. fromWorker' \in Seq(Replies)
      BY <1>2, OneMoreOf DEF WireTypes, Says
    <2>3. wk'.phase = "waiting" => wk'.ops # <<>>
      BY <1>2 DEF WireTypes, OpsKept
    <2> QED
      BY <1>2, <2>1, <2>2, <2>3 DEF WireTypes
  <1>3. workerUp' = workerUp
    BY DEF Worker, WorkerStep, ReceiveInit, ReceivePrompt, ReceiveCancel, ReceiveOperation, Received, ModelLoads,
           ModelLoadFails, PromptEnds, PromptCompletes, PromptAborts, PromptFails, EndPrompt, OperationBegins,
           OperationEnds, OperationFails
  <1>4. /\ toWorker' = toWorker \/ Hears
        /\ fromWorker' = fromWorker \/ \E m : Says(m)
        /\ wk' \in WorkerRecords /\ (OpsKept \/ wk'.phase = "idle" \/ wk'.ops # <<>>)
    <2>1. CASE ReceiveInit
      BY <1>1, <2>1, AtInit
    <2>2. CASE ModelLoads \/ ModelLoadFails
      BY <1>1, <2>2, AtLoad
    <2>3. CASE ReceivePrompt
      BY <2>3, AtPrompt DEF SaysError
    <2>4. CASE ReceiveCancel
      BY <2>4, AtCancel
    <2>5. CASE ReceiveOperation
      <3>1. wk.ops \in Seq(Operations) /\ toWorker[1] \in Operations
        BY <2>5, AtOperation DEF WireTypes, WorkerRecords
      <3>2. Append(wk.ops, toWorker[1]) # <<>>
        BY <3>1
      <3> QED
        BY <2>5, <3>2, AtOperation
    <2>6. ASSUME NEW r \in Requests, PromptEnds(r) PROVE <1>4!1 /\ <1>4!2 /\ <1>4!3
      BY <2>6, AtEnd DEF SaysError
    <2>7. CASE OperationBegins
      BY <1>1, <2>7, AtBegin DEF NextOp
    <2>8. CASE OperationEnds \/ OperationFails
      BY <1>1, <2>8, AtFinish DEF NextOp
    <2> QED
      BY <2>1, <2>2, <2>3, <2>4, <2>5, <2>6, <2>7, <2>8 DEF Worker, WorkerStep
  <1> QED
    BY <1>2, <1>3, <1>4

\* The messages with what is added to them.
LEMMA WhatIsAdded ==
  ASSUME WireTypes, NEW ms, Sent(ms)
  PROVE  /\ toWorker' \in Seq(Messages)
         /\ \E k \in Nat :
              /\ DOMAIN toWorker = 1..k /\ \A j \in DOMAIN ms : j \in Nat \ {0}
              /\ \A i \in DOMAIN toWorker : i \in DOMAIN toWorker' /\ toWorker'[i] = toWorker[i]
              /\ \A j \in DOMAIN ms : k + j \in DOMAIN toWorker' /\ toWorker'[k + j] = ms[j]
              /\ \A i \in DOMAIN toWorker' : i \in DOMAIN toWorker \/ \E j \in DOMAIN ms : i = k + j
  <1>1. ms \in Seq(Messages) /\ toWorker' = toWorker \o ms /\ toWorker \in Seq(Messages)
    BY DEF Sent, WireTypes
  <1>2. /\ Len(toWorker) \in Nat /\ DOMAIN toWorker = 1..Len(toWorker) /\ \A j \in DOMAIN ms : j \in Nat \ {0}
        /\ \A i \in DOMAIN toWorker : i \in DOMAIN (toWorker \o ms) /\ (toWorker \o ms)[i] = toWorker[i]
        /\ \A j \in DOMAIN ms : Len(toWorker) + j \in DOMAIN (toWorker \o ms) /\ (toWorker \o ms)[Len(toWorker) + j] = ms[j]
        /\ \A i \in DOMAIN (toWorker \o ms) : i \in DOMAIN toWorker \/ \E j \in DOMAIN ms : i = Len(toWorker) + j
        /\ toWorker \o ms \in Seq(Messages)
    BY <1>1, MoreOf, Zenon
  <1>3. PICK k \in Nat : k = Len(toWorker)
    BY <1>2
  <1> QED
    BY <1>1, <1>2, <1>3, Zenon

\* What the parent sends.
LEMMA SendingWires ==
  ASSUME WireInv, CycleInv, NEW ms, Sent(ms)
  PROVE  WireInv'
  <1>1. ms \in Seq(Messages) /\ toWorker' = toWorker \o ms /\ fromWorker' = fromWorker /\ wk' = wk
    BY DEF Sent
  <1>2. toWorker \in Seq(Messages)
    BY DEF WireInv, WireTypes
  <1>3. PICK k : k = Len(toWorker)
    OBVIOUS
  <1>4. /\ toWorker' \in Seq(Messages)
        /\ \A i \in DOMAIN toWorker' :
             (i \in DOMAIN toWorker /\ toWorker'[i] = toWorker[i]) \/ \E j \in DOMAIN ms : i = k + j /\ toWorker'[i] = ms[j]
    BY <1>1, <1>2, <1>3, MoreOf
  <1>5. WireTypes'
    BY <1>1, <1>4 DEF WireInv, WireTypes
  <1>6. DownInv'
    <2>1. CASE ms = <<>> /\ ~workerUp
      BY <1>1, <1>2, <2>1, ConcatEmptySeq DEF WireInv, DownInv
    <2> QED
      BY <2>1 DEF Sent, DownInv
  <1>7. NoReady' <=> NoReady
    BY <1>1 DEF NoReady
  <1>8. LoadInv'
    <2>1. CASE InitKept
      <3>1. \A n : Awaited(n)' <=> Awaited(n)
        BY <2>1 DEF InitKept, Awaited
      <3>2. ASSUME NEW j \in DOMAIN ms, ms[j].type = "init" PROVE FALSE
        <4>1. Due(ms[j])
          BY DEF Sent
        <4> QED
          BY <2>1, <3>2, <4>1 DEF Due, InitKept
      <3>3. \A i \in DOMAIN toWorker' :
              toWorker'[i].type = "init" => i \in DOMAIN toWorker /\ toWorker'[i] = toWorker[i]
        BY <1>4, <3>2
      <3>4. init'.resolved = init.resolved
        BY <2>1 DEF InitKept
      <3> QED
        BY <1>1, <1>7, <3>1, <3>3, <3>4 DEF WireInv, LoadInv
    <2>2. ASSUME NEW j \in DOMAIN ms, ms[j].type = "init" PROVE LoadInv'
      <3>1. Due(ms[j])
        BY DEF Sent
      <3>2. init.phase # "waiting" /\ (~init.resolved \/ ~workerUp) /\ Awaited(ms[j].attempt)'
        BY <2>2, <3>1 DEF Due, Awaited
      <3>3. NoReady /\ wk.model \notin {"loading", "loaded"} /\ \A i \in DOMAIN fromWorker : fromWorker[i].type # "model_reset_done"
        <4>1. CASE ~workerUp
          BY <4>1, FreshFields DEF WireInv, DownInv, NoReady
        <4>2. CASE ~init.resolved
          BY <3>2, <4>2 DEF WireInv, LoadInv, Awaited, NoReady
        <4> QED
          BY <3>2, <4>1, <4>2
      <3>4. \A i \in DOMAIN toWorker : toWorker[i].type # "init"
        BY <3>2 DEF WireInv, LoadInv, Awaited
      <3>5. \A i \in DOMAIN ms : ms[i].type = "init" => i = j
        BY <2>2 DEF Sent
      <3>6. \A i \in DOMAIN toWorker' : toWorker'[i].type = "init" => i = k + j /\ toWorker'[i] = ms[j]
        BY <1>4, <3>4, <3>5
      <3>7. \A i \in DOMAIN fromWorker : fromWorker[i].type # "ready"
        BY <3>3 DEF NoReady
      <3>8. wk.phase = "waiting" => wk.ops[1].type = "shutdown"
        BY <3>3 DEF WireInv, LoadInv
      <3> QED
        BY <1>1, <1>7, <3>2, <3>3, <3>6, <3>7, <3>8 DEF LoadInv
    <2> QED
      BY <2>1, <2>2 DEF Sent
  <1> QED
    BY <1>5, <1>6, <1>8 DEF WireInv

\* What it handles.
LEMMA HandlingWires ==
  ASSUME WireInv, CycleInv, Handled
  PROVE  WireInv'
  <1>1. fromWorker # <<>> /\ fromWorker' = Tail(fromWorker) /\ UNCHANGED <<workerUp, toWorker, wk>>
    BY DEF Handled
  <1>2. /\ fromWorker' \in Seq(Replies) /\ 1 \in DOMAIN fromWorker
        /\ \A i \in DOMAIN fromWorker : i \in Nat \ {0}
        /\ \A i \in DOMAIN fromWorker' : i \in Nat \ {0} /\ i + 1 \in DOMAIN fromWorker /\ fromWorker'[i] = fromWorker[i + 1]
        /\ \A i \in DOMAIN fromWorker : i # 1 => i - 1 \in DOMAIN fromWorker' /\ fromWorker'[i - 1] = fromWorker[i]
    BY <1>1, RestOf DEF WireInv, WireTypes
  <1>3. WireTypes' /\ DownInv'
    BY <1>1, <1>2 DEF WireInv, WireTypes, DownInv
  <1>4. NoReady => NoReady'
    BY <1>2 DEF NoReady
  <1>5. CASE fromWorker[1].type = "ready"
    <2>1. Awaited(fromWorker[1].attempt) /\ ~NoReady
      BY <1>2, <1>5 DEF WireInv, LoadInv, NoReady
    <2>2. init'.resolved
      BY <1>5, <2>1 DEF Handled, Awaited
    <2>3. ASSUME NEW i \in DOMAIN fromWorker' PROVE fromWorker'[i].type # "ready"
      <3>1. i \in Nat \ {0} /\ i + 1 \in DOMAIN fromWorker /\ fromWorker'[i] = fromWorker[i + 1]
        BY <1>2
      <3>2. i + 1 # 1
        BY <3>1
      <3> QED
        BY <1>2, <1>5, <3>1, <3>2 DEF WireInv, LoadInv
    <2>4. (\A i \in DOMAIN toWorker : toWorker[i].type # "init") /\ wk.model # "loading"
      BY <2>1 DEF WireInv, LoadInv
    <2>5. LoadInv'
      BY <1>1, <2>2, <2>3, <2>4 DEF WireInv, LoadInv
    <2> QED
      BY <1>3, <2>5 DEF WireInv
  <1>6. CASE fromWorker[1].type # "ready"
    <2>1. InitKept
      BY <1>6 DEF Handled
    <2>2. (\A n : Awaited(n)' <=> Awaited(n)) /\ init'.resolved = init.resolved
      BY <2>1 DEF InitKept, Awaited
    <2>3. ASSUME NEW i \in DOMAIN fromWorker, fromWorker[i].type = "ready"
          PROVE  i - 1 \in DOMAIN fromWorker' /\ fromWorker'[i - 1].type = "ready"
      BY <1>2, <1>6, <2>3
    <2>4. ~NoReady => ~NoReady'
      BY <2>3 DEF NoReady
    <2>5. ASSUME NEW i \in DOMAIN fromWorker', NEW j \in DOMAIN fromWorker', fromWorker'[i].type = "ready",
                 fromWorker'[j].type = "ready"
          PROVE  i = j
      <3>1. i \in Nat /\ i + 1 \in DOMAIN fromWorker /\ fromWorker[i + 1].type = "ready"
        BY <1>2, <2>5
      <3>2. j \in Nat /\ j + 1 \in DOMAIN fromWorker /\ fromWorker[j + 1].type = "ready"
        BY <1>2, <2>5
      <3>3. i + 1 = j + 1
        BY <3>1, <3>2 DEF WireInv, LoadInv
      <3> QED
        BY <3>1, <3>2, <3>3
    <2>6. ASSUME NEW i \in DOMAIN fromWorker', fromWorker'[i].type = "ready"
          PROVE  Awaited(fromWorker'[i].attempt)
      <3>1. PICK k \in DOMAIN fromWorker : fromWorker'[i] = fromWorker[k]
        BY <1>2
      <3>2. Awaited(fromWorker[k].attempt)
        BY <2>6, <3>1 DEF WireInv, LoadInv
      <3> QED
        BY <3>1, <3>2
    <2>7. ASSUME NEW j \in DOMAIN fromWorker', fromWorker'[j].type = "model_reset_done", ~init'.resolved
          PROVE  \E i \in DOMAIN fromWorker' : i < j /\ fromWorker'[i].type = "ready"
      <3>1. j \in Nat \ {0} /\ j + 1 \in DOMAIN fromWorker /\ fromWorker[j + 1].type = "model_reset_done"
        BY <1>2, <2>7
      <3>2. PICK i \in DOMAIN fromWorker : i < j + 1 /\ fromWorker[i].type = "ready"
        BY <2>2, <2>7, <3>1 DEF WireInv, LoadInv
      <3>3. i - 1 \in DOMAIN fromWorker' /\ fromWorker'[i - 1].type = "ready"
        BY <2>3, <3>2
      <3>4. i \in Nat \ {0} /\ i - 1 < j
        BY <1>2, <3>1, <3>2
      <3> QED
        BY <3>3, <3>4
    <2>8. LoadInv'
      BY <1>1, <1>4, <2>1, <2>2, <2>4, <2>5, <2>6, <2>7 DEF WireInv, LoadInv, Awaited, InitKept
    <2> QED
      BY <1>3, <2>8 DEF WireInv
  <1> QED
    BY <1>5, <1>6

\* The answer that is given last.
LEMMA LastIsSaid ==
  ASSUME WireTypes, NEW m, Says(m)
  PROVE  /\ \A i \in DOMAIN fromWorker : i \in DOMAIN fromWorker' /\ fromWorker'[i] = fromWorker[i]
         /\ \E k \in DOMAIN fromWorker' :
              /\ fromWorker'[k] = m /\ k \notin DOMAIN fromWorker /\ \A i \in DOMAIN fromWorker : i < k
              /\ \A i \in DOMAIN fromWorker' : i = k \/ i \in DOMAIN fromWorker
  <1>1. /\ Len(fromWorker) \in Nat /\ DOMAIN fromWorker = 1..Len(fromWorker)
        /\ \A i \in DOMAIN fromWorker : i \in DOMAIN fromWorker' /\ fromWorker'[i] = fromWorker[i]
        /\ Len(fromWorker) + 1 \in DOMAIN fromWorker' /\ fromWorker'[Len(fromWorker) + 1] = m
        /\ \A i \in DOMAIN fromWorker' : i \in DOMAIN fromWorker \/ i = Len(fromWorker) + 1
    BY OneMoreOf DEF Says, WireTypes
  <1>2. Len(fromWorker) + 1 \notin DOMAIN fromWorker /\ \A i \in DOMAIN fromWorker : i < Len(fromWorker) + 1
    BY <1>1
  <1> QED
    BY <1>1, <1>2

\* The messages that are left, or all of them.
LEMMA WhatIsLeft ==
  ASSUME WireTypes, toWorker' = toWorker \/ Hears
  PROVE  /\ \A i \in DOMAIN toWorker' : \E k \in DOMAIN toWorker : toWorker'[i] = toWorker[k]
         /\ Hears => /\ 1 \in DOMAIN toWorker /\ \A i \in DOMAIN toWorker : i \in Nat \ {0}
                     /\ \A i \in DOMAIN toWorker' : /\ i \in Nat \ {0} /\ i + 1 # 1 /\ i + 1 \in DOMAIN toWorker
                                                   /\ toWorker'[i] = toWorker[i + 1]
                     /\ \A i \in DOMAIN toWorker : i # 1 => i - 1 \in DOMAIN toWorker' /\ toWorker'[i - 1] = toWorker[i]
  <1>1. CASE Hears
    <2>1. /\ 1 \in DOMAIN toWorker /\ \A i \in DOMAIN toWorker : i \in Nat \ {0}
          /\ \A i \in DOMAIN toWorker' : i \in Nat \ {0} /\ i + 1 \in DOMAIN toWorker /\ toWorker'[i] = toWorker[i + 1]
          /\ \A i \in DOMAIN toWorker : i # 1 => i - 1 \in DOMAIN toWorker' /\ toWorker'[i - 1] = toWorker[i]
      BY <1>1, RestOf DEF Hears, WireTypes
    <2>2. \A i \in Nat \ {0} : i + 1 # 1
      OBVIOUS
    <2> QED
      BY <2>1, <2>2
  <1> QED
    BY <1>1

\* What the worker does.
LEMMA WorkingWires ==
  ASSUME BooksInv, WireInv, Worker, UNCHANGED lifeVars
  PROVE  WireInv'
  <1>1. /\ WireTypes' /\ workerUp' = workerUp
        /\ toWorker' = toWorker \/ Hears
        /\ fromWorker' = fromWorker \/ \E m : Says(m)
    BY WorkerWires DEF WireInv
  <1>2. init' = init
    BY DEF lifeVars
  <1>3. DownInv'
    <2>1. CASE ~workerUp
      <3>1. wk = FreshWorker /\ toWorker = <<>>
        BY <2>1 DEF WireInv, DownInv
      <3>2. wk.model = "none" /\ wk.ops = <<>> /\ wk.phase = "idle" /\ \A r \in Requests : wk.prompt[r] = "none"
        BY <3>1, FreshFields
      <3> QED
        BY <3>1, <3>2 DEF Worker, WorkerStep, ReceiveInit, ReceivePrompt, ReceiveCancel, ReceiveOperation, Received,
             ModelLoads, ModelLoadFails, PromptEnds, PromptCompletes, PromptAborts, PromptFails, EndPrompt, HasTurn,
             OperationBegins, OperationDue, OperationEnds, OperationFails, BoundaryReached
    <2> QED
      BY <1>1, <2>1 DEF DownInv
  <1> SUFFICES LoadInv'
    BY <1>1, <1>3 DEF WireInv
  <1>4. ASSUME NEW i \in DOMAIN toWorker', NEW j \in DOMAIN toWorker', toWorker'[i].type = "init", toWorker'[j].type = "init"
        PROVE  i = j
    <2>1. CASE Hears
      <3>1. i \in Nat /\ j \in Nat /\ i + 1 = j + 1
        BY <1>4, <2>1, WhatIsLeft DEF WireInv, LoadInv
      <3> QED
        BY <3>1
    <2> QED
      BY <1>1, <1>4, <2>1 DEF WireInv, LoadInv
  <1>5. ASSUME NEW i \in DOMAIN toWorker', toWorker'[i].type = "init"
        PROVE  Awaited(toWorker'[i].attempt) /\ wk.model \notin {"loading", "loaded"} /\ NoReady
    <2>1. PICK k \in DOMAIN toWorker : toWorker'[i] = toWorker[k]
      BY <1>1, WhatIsLeft DEF WireInv
    <2> QED
      BY <1>5, <2>1 DEF WireInv, LoadInv
  <1>6. \* an answer that is neither `ready` nor about a model reset
        ASSUME fromWorker' = fromWorker \/ \E m : Says(m) /\ m.type \notin {"ready", "model_reset_done"}
        PROVE  /\ NoReady' <=> NoReady
               /\ \A i, j \in DOMAIN fromWorker' : fromWorker'[i].type = "ready" /\ fromWorker'[j].type = "ready" => i = j
               /\ \A i \in DOMAIN fromWorker' : fromWorker'[i].type = "ready" => Awaited(fromWorker'[i].attempt)
               /\ \A j \in DOMAIN fromWorker' : fromWorker'[j].type = "model_reset_done" =>
                    init.resolved \/ \E i \in DOMAIN fromWorker' : i < j /\ fromWorker'[i].type = "ready"
    <2>1. CASE fromWorker' = fromWorker
      BY <2>1 DEF WireInv, LoadInv, NoReady
    <2>2. ASSUME NEW m, Says(m), m.type \notin {"ready", "model_reset_done"}
          PROVE  <1>6!2
      <3>1. PICK k \in DOMAIN fromWorker' :
              /\ fromWorker'[k] = m /\ \A i \in DOMAIN fromWorker' : i = k \/ i \in DOMAIN fromWorker
        BY <2>2, LastIsSaid DEF WireInv
      <3>2. \A i \in DOMAIN fromWorker : i \in DOMAIN fromWorker' /\ fromWorker'[i] = fromWorker[i]
        BY <2>2, LastIsSaid DEF WireInv
      <3>3. \A i \in DOMAIN fromWorker' :
              fromWorker'[i].type \in {"ready", "model_reset_done"} => i \in DOMAIN fromWorker /\ fromWorker'[i] = fromWorker[i]
        BY <2>2, <3>1, <3>2
      <3> QED
        BY <3>2, <3>3 DEF WireInv, LoadInv, NoReady
    <2> QED
      BY <1>6, <2>1, <2>2
  <1>7. \* a step that does not concern the model
        ASSUME wk'.model = wk.model, wk'.attempt = wk.attempt,
               fromWorker' = fromWorker \/ \E m : Says(m) /\ m.type \notin {"ready", "model_reset_done"},
               wk'.phase = "waiting" /\ wk'.ops[1].type # "shutdown" => wk.model = "loaded"
        PROVE  LoadInv'
    BY <1>2, <1>4, <1>5, <1>6, <1>7 DEF WireInv, LoadInv, Awaited
  <1>8. SaysError(0) => \E m : Says(m) /\ m.type \notin {"ready", "model_reset_done"}
    BY DEF SaysError
  <1>9. OpsKept \/ wk'.phase = "idle" => (wk'.phase = "waiting" /\ wk'.ops[1].type # "shutdown" => wk.model = "loaded")
    BY DEF OpsKept, WireInv, LoadInv
  <1>10. CASE ReceiveInit
    <2>1. /\ Hears /\ toWorker[1].type = "init" /\ OpsKept
          /\ \/ wk'.model = "loading" /\ wk'.attempt = toWorker[1].attempt /\ fromWorker' = fromWorker
             \/ ModelKept /\ (fromWorker' = fromWorker \/ SaysError(0))
      BY <1>10, AtInit DEF WireInv
    <2>2. CASE ModelKept /\ (fromWorker' = fromWorker \/ SaysError(0))
      BY <1>7, <1>8, <1>9, <2>1, <2>2 DEF ModelKept
    <2>3. CASE wk'.model = "loading" /\ wk'.attempt = toWorker[1].attempt /\ fromWorker' = fromWorker
      <3>1. 1 \in DOMAIN toWorker /\ \A i \in DOMAIN toWorker' : i + 1 # 1 /\ i + 1 \in DOMAIN toWorker /\ toWorker'[i] = toWorker[i + 1]
        BY <2>1, WhatIsLeft DEF WireInv
      <3>2. \A i \in DOMAIN toWorker' : toWorker'[i].type # "init"
        BY <2>1, <3>1 DEF WireInv, LoadInv
      <3>3. Awaited(toWorker[1].attempt) /\ NoReady /\ wk.model # "loaded"
        BY <2>1, <3>1 DEF WireInv, LoadInv
      <3>4. NoReady' /\ Awaited(wk'.attempt)
        BY <1>2, <2>3, <3>3 DEF NoReady
      <3>5. wk'.phase = "waiting" => wk'.ops[1].type = "shutdown"
        BY <1>9, <2>1, <3>3
      <3> QED
        BY <1>2, <1>6, <2>3, <3>2, <3>4, <3>5 DEF LoadInv, Awaited
    <2> QED
      BY <2>1, <2>2, <2>3
  <1>11. CASE ModelLoads \/ ModelLoadFails
    <2>1. /\ toWorker' = toWorker /\ OpsKept /\ wk.model = "loading" /\ wk'.attempt = wk.attempt
          /\ \/ wk'.model = "loaded" /\ \E m : Says(m) /\ m.type = "ready" /\ m.attempt = wk.attempt
             \/ wk'.model = "failed" /\ SaysError(0)
      BY <1>11, AtLoad DEF WireInv
    <2>2. Awaited(wk.attempt) /\ NoReady /\ \A i \in DOMAIN toWorker : toWorker[i].type # "init"
      BY <2>1 DEF WireInv, LoadInv
    <2>3. wk'.phase = "waiting" => wk'.ops[1].type = "shutdown"
      BY <1>9, <2>1
    <2>4. CASE wk'.model = "failed" /\ SaysError(0)
      BY <1>2, <1>6, <1>8, <2>1, <2>2, <2>3, <2>4 DEF LoadInv, Awaited
    <2>5. ASSUME wk'.model = "loaded", NEW m, Says(m), m.type = "ready", m.attempt = wk.attempt
          PROVE  LoadInv'
      <3>1. PICK k \in DOMAIN fromWorker' :
              /\ fromWorker'[k] = m /\ \A i \in DOMAIN fromWorker : i < k
              /\ \A i \in DOMAIN fromWorker' : i = k \/ i \in DOMAIN fromWorker
        BY <2>5, LastIsSaid DEF WireInv
      <3>2. \A i \in DOMAIN fromWorker : i \in DOMAIN fromWorker' /\ fromWorker'[i] = fromWorker[i]
        BY <2>5, LastIsSaid DEF WireInv
      <3>3. \A i \in DOMAIN fromWorker' : fromWorker'[i].type = "ready" => i = k
        BY <2>2, <3>1, <3>2 DEF NoReady
      <3>4. \A i \in DOMAIN fromWorker' : fromWorker'[i].type = "model_reset_done" => init.resolved
        BY <2>2, <2>5, <3>1, <3>2 DEF WireInv, LoadInv, NoReady
      <3>5. ~NoReady'
        BY <2>5, <3>1 DEF NoReady
      <3>6. \A i \in DOMAIN fromWorker' : fromWorker'[i].type = "ready" => Awaited(fromWorker'[i].attempt)
        BY <1>2, <2>2, <2>5, <3>1, <3>3
      <3> QED
        BY <1>2, <2>1, <2>2, <2>3, <2>5, <3>3, <3>4, <3>5, <3>6 DEF LoadInv, Awaited
    <2> QED
      BY <2>1, <2>4, <2>5
  <1>12. CASE ReceivePrompt
    BY <1>7, <1>9, <1>12, AtPrompt DEF WireInv, ModelKept, SaysError
  <1>13. CASE ReceiveCancel
    BY <1>7, <1>9, <1>13, AtCancel DEF WireInv, ModelKept
  <1>14. CASE ReceiveOperation
    <2>1. /\ ModelKept /\ fromWorker' = fromWorker /\ wk'.phase = wk.phase
          /\ toWorker[1] \in Operations /\ wk'.ops = Append(wk.ops, toWorker[1])
      BY <1>14, AtOperation DEF WireInv
    <2>2. ASSUME wk.phase = "waiting" PROVE wk'.ops[1] = wk.ops[1]
      <3>1. wk.ops \in Seq(Operations) /\ wk.ops # <<>>
        BY <2>2 DEF WireInv, WireTypes, WorkerRecords
      <3>2. 1 \in DOMAIN wk.ops
        BY <3>1, RestOf
      <3> QED
        BY <2>1, <3>1, <3>2, OneMoreOf
    <2> QED
      BY <1>7, <2>1, <2>2 DEF ModelKept, WireInv, LoadInv
  <1>15. ASSUME NEW r \in Requests, PromptEnds(r) PROVE LoadInv'
    <2>1. /\ OpsKept /\ ModelKept
          /\ (\E m : Says(m) /\ m.type = "done") \/ fromWorker' = fromWorker \/ SaysError(r)
      BY <1>15, AtEnd DEF WireInv
    <2> QED
      BY <1>7, <1>9, <2>1 DEF ModelKept, SaysError
  <1>16. CASE OperationBegins
    <2>1. /\ fromWorker' = fromWorker \/ SaysError(0)
          /\ wk'.model = wk.model /\ wk'.attempt = wk.attempt
          /\ wk'.phase = "idle" \/ (wk'.ops = wk.ops /\ (wk.ops[1].type # "shutdown" => wk.model = "loaded"))
      BY <1>16, AtBegin DEF WireInv, ModelKept, NextOp
    <2> QED
      BY <1>7, <1>8, <2>1
  <1>17. CASE OperationEnds \/ OperationFails
    <2>1. wk'.phase = "idle" /\ wk.phase = "waiting"
      BY <1>17, AtFinish DEF WireInv, NextOp
    <2>2. CASE ModelKept /\ SaysError(0)
      BY <1>7, <1>8, <2>1, <2>2 DEF ModelKept
    <2>3. ASSUME NEW m, Says(m), ModelKept, m.type = "reset_done" PROVE LoadInv'
      BY <1>7, <2>1, <2>3 DEF ModelKept
    <2>4. ASSUME NEW m, Says(m), wk'.model = "none", wk.ops[1].type = "reset_model" \/ m.type # "model_reset_done",
                 m.type # "ready"
          PROVE  LoadInv'
      <3>1. PICK k \in DOMAIN fromWorker' :
              /\ fromWorker'[k] = m /\ \A i \in DOMAIN fromWorker : i < k
              /\ \A i \in DOMAIN fromWorker' : i = k \/ i \in DOMAIN fromWorker
        BY <2>4, LastIsSaid DEF WireInv
      <3>2. \A i \in DOMAIN fromWorker : i \in DOMAIN fromWorker' /\ fromWorker'[i] = fromWorker[i]
        BY <2>4, LastIsSaid DEF WireInv
      <3>3. \A i \in DOMAIN fromWorker' : fromWorker'[i].type = "ready" => i \in DOMAIN fromWorker /\ fromWorker'[i] = fromWorker[i]
        BY <2>4, <3>1, <3>2
      <3>4. ASSUME m.type = "model_reset_done"
            PROVE  init.resolved \/ \E i \in DOMAIN fromWorker' : i < k /\ fromWorker'[i].type = "ready"
        <4>1. wk.model = "loaded"
          BY <2>1, <2>4, <3>4 DEF WireInv, LoadInv
        <4> QED
          BY <3>1, <3>2, <4>1 DEF WireInv, LoadInv, NoReady
      <3>5. NoReady' <=> NoReady
        BY <3>2, <3>3 DEF NoReady
      <3>6. \A j \in DOMAIN fromWorker' : fromWorker'[j].type = "model_reset_done" =>
              init.resolved \/ \E i \in DOMAIN fromWorker' : i < j /\ fromWorker'[i].type = "ready"
        BY <3>1, <3>2, <3>4 DEF WireInv, LoadInv
      <3>7. \A i, j \in DOMAIN fromWorker' : fromWorker'[i].type = "ready" /\ fromWorker'[j].type = "ready" => i = j
        BY <3>3 DEF WireInv, LoadInv
      <3>8. \A i \in DOMAIN fromWorker' : fromWorker'[i].type = "ready" => Awaited(fromWorker'[i].attempt)
        BY <1>2, <3>3 DEF WireInv, LoadInv
      <3>9. \A i \in DOMAIN toWorker' : toWorker'[i].type = "init" =>
              Awaited(toWorker'[i].attempt) /\ wk'.model \notin {"loading", "loaded"} /\ NoReady'
        BY <1>2, <1>5, <2>4, <3>5
      <3> QED
        BY <1>2, <1>4, <2>1, <2>4, <3>6, <3>7, <3>8, <3>9 DEF LoadInv, Awaited
    <2> QED
      <3>1. ASSUME NEW m, Says(m), wk'.model = "none", wk.ops[1].type \in {"reset_model", "shutdown"},
                   m.type = IF wk.ops[1].type = "reset_model" THEN "model_reset_done" ELSE "shutdown_done"
            PROVE  LoadInv'
        BY <2>4, <3>1
      <3> QED
        BY <1>17, <2>2, <2>3, <3>1, AtFinish DEF WireInv
  <1> QED
    BY <1>10, <1>11, <1>12, <1>13, <1>14, <1>15, <1>16, <1>17 DEF Worker, WorkerStep

\* The init cycle while it has not succeeded, and an attempt that begins.
LEMMA UnresolvedCycle ==
  ASSUME CycleInv, ~init.resolved, ~init'.resolved, ready' => ready, pending' \subseteq pending,
         modelReset' = "terminating" => modelReset = "terminating", init'.phase = "waiting" => init'.started
  PROVE  CycleInv'
  BY DEF CycleInv

LEMMA AttemptCycle ==
  ASSUME NEW in \in InitRecords, StartAttempt(in), pending = {}, modelReset' # "terminating"
  PROVE  CycleInv'
  <1>1. PICK n \in Nat : n = in.next + 1
    BY DEF InitRecords
  <1>2. init' = [in EXCEPT !.phase = "waiting", !.left = @ - 1, !.started = TRUE, !.resolved = FALSE,
                           !.barrier = "open", !.attempt = n, !.next = @ + 1]
    BY <1>1 DEF StartAttempt
  <1>3. init'.phase = "waiting" /\ init'.started = TRUE /\ init'.resolved = FALSE
    BY <1>2 DEF InitRecords
  <1>4. ready' = FALSE /\ pending' = {}
    BY DEF StartAttempt, SetReady
  <1> QED
    BY <1>3, <1>4 DEF CycleInv

LEMMA BeginningCycle ==
  ASSUME CycleInv, InitInv, NEW owner \in {"initModel", "explicitInitModel", "prompt", "reset"}, StartCycle(owner),
         pending = {}, modelReset' # "terminating", ~init.resolved \/ owner = "reset"
  PROVE  CycleInv'
  <1>1. CASE StartAttempt([init EXCEPT !.owner = owner, !.left = 1])
    <2>1. 1 \in 0..InitAttempts
      BY LifecycleAssumption
    <2>2. PICK in \in InitRecords : in = [init EXCEPT !.owner = owner, !.left = 1]
      BY <2>1 DEF InitInv, InitRecords
    <2> QED
      BY <1>1, <2>2, AttemptCycle
  <1>2. CASE ~StartAttempt([init EXCEPT !.owner = owner, !.left = 1])
    <2>1. /\ init' = [init EXCEPT !.phase = "planning", !.owner = owner] /\ UNCHANGED <<schedVars, workerVars>>
          /\ ~(init.lastPlan /\ owner # "initModel" /\ owner # "explicitInitModel")
      BY <1>2 DEF StartCycle
    <2>2. init'.phase = "planning" /\ init'.resolved = init.resolved
      BY <2>1 DEF InitInv, InitRecords
    <2>3. ~init.resolved
      BY <2>1 DEF CycleInv
    <2> QED
      BY <2>1, <2>2, <2>3, UnresolvedCycle DEF schedVars
  <1> QED
    BY <1>1, <1>2

LEMMA CycleStep ==
  ASSUME BooksInv, BoundaryInv, InitInv, CallTypes, WireInv, CycleInv, [Next]_vars
  PROVE  CycleInv'
  <1>1. ASSUME UNCHANGED init, ready' => ready, pending' # {} => pending # {} \/ ready,
               modelReset' = "terminating" => modelReset = "terminating"
        PROVE  CycleInv'
    BY <1>1 DEF CycleInv
  <1>2. UNCHANGED schedVars => UNCHANGED <<ready, pending>>
    BY DEF schedVars
  <1>3. ~init.resolved => pending = {} /\ modelReset # "terminating"
    BY DEF CycleInv
  <1>4. init.phase # "off" => ~init.resolved
    BY DEF CycleInv
  <1>5. CASE UNCHANGED vars \/ Worker
    BY <1>1, <1>2, <1>5 DEF vars, lifeVars, Worker
  <1>6. ASSUME NEW owner \in {"initModel", "explicitInitModel"}, InitModel(owner) PROVE CycleInv'
    <2>1. ~init.resolved /\ StartCycle(owner) /\ UNCHANGED modelReset
      BY <1>6 DEF InitModel, CycleInv
    <2> QED
      BY <1>3, <2>1, BeginningCycle
  <1>7. ASSUME NEW s \in Sessions, Prompt(s) PROVE CycleInv'
    <2>1. UNCHANGED modelReset
      BY <1>7 DEF Prompt
    <2>2. CASE UNCHANGED <<init, schedVars, workerVars>>
      BY <1>1, <1>2, <2>1, <2>2
    <2>3. CASE StartCycle("prompt") /\ ~init.resolved
      BY <1>3, <2>1, <2>3, BeginningCycle
    <2> QED
      BY <1>7, <2>2, <2>3 DEF Prompt
  <1>8. ASSUME NEW r \in Requests, CancelPrompt(r) PROVE CycleInv'
    BY <1>1, <1>8 DEF CancelPrompt, CancelQueued, CancelRunning, Leave, schedVars
  <1>9. ASSUME NEW s \in Sessions, ResetSession(s) PROVE CycleInv'
    BY <1>1, <1>9 DEF ResetSession, CancelBySession
  <1>10. CASE ResetModel \/ DrainTimesOut
    BY <1>1, <1>10 DEF ResetModel, DrainTimesOut, CancelAllWith
  <1>11. ASSUME NEW mode, Shutdown(mode) PROVE CycleInv'
    BY <1>1, <1>11 DEF Shutdown, CancelAllWith, WaitForIdle
  <1>12. CASE Failure
    <2>1. CASE PlanFails
      <3>1. ~init.resolved /\ UNCHANGED schedVars /\ (modelReset' = "terminating" => modelReset = "terminating")
        BY <1>4, <2>1 DEF PlanFails, CycleFails
      <3>2. init'.phase = "off" /\ init'.resolved = init.resolved
        BY <2>1 DEF PlanFails, CycleFails, InitInv, InitRecords
      <3> QED
        BY <1>2, <3>1, <3>2, UnresolvedCycle
    <2>2. CASE ReadyTimesOut
      <3>1. ~init.resolved /\ UNCHANGED <<schedVars, modelReset>>
        BY <1>4, <2>2 DEF ReadyTimesOut
      <3>2. init'.phase = "stopping" /\ init'.resolved = init.resolved
        BY <2>2 DEF ReadyTimesOut, AttemptFails, InitInv, InitRecords
      <3> QED
        BY <1>2, <3>1, <3>2, UnresolvedCycle
    <2>3. CASE ModelResetTimesOut \/ ShutdownTimesOut \/ \E s \in Sessions : SessionResetTimesOut(s)
      BY <1>1, <1>2, <2>3 DEF ModelResetTimesOut, ShutdownTimesOut, SessionResetTimesOut
    <2> QED
      BY <1>12, <2>1, <2>2, <2>3 DEF Failure
  <1>13. CASE Planned
    <2>1. InitAttempts \in 0..InitAttempts
      BY LifecycleAssumption
    <2>2. PICK in \in InitRecords : in = [init EXCEPT !.left = InitAttempts]
      BY <2>1 DEF InitInv, InitRecords
    <2> QED
      BY <1>3, <1>4, <1>13, <2>2, AttemptCycle DEF Planned
  <1>14. CASE Rested
    BY <1>3, <1>4, <1>14, AttemptCycle DEF Rested, InitInv
  <1>15. CASE AttemptStopped
    <2>1. ~init.resolved
      BY <1>4, <1>15 DEF AttemptStopped
    <2>2. \/ CycleFails(WithoutAttempt(init)) /\ SetReady(FALSE)
          \/ CycleFails(init) /\ UNCHANGED schedVars
          \/ init' = [init EXCEPT !.phase = "resting"] /\ UNCHANGED <<schedVars, modelReset>>
      BY <1>15 DEF AttemptStopped
    <2>3. (ready' => ready) /\ pending' = pending /\ (modelReset' = "terminating" => modelReset = "terminating")
      BY <1>2, <2>2 DEF SetReady, CycleFails
    <2>4. init'.phase # "waiting" /\ ~init'.resolved
      <3>1. CASE CycleFails(WithoutAttempt(init))
        <4>1. PICK in : in = WithoutAttempt(init)
          OBVIOUS
        <4>2. in \in InitRecords /\ in.resolved = FALSE
          BY <4>1 DEF WithoutAttempt, InitInv, InitRecords
        <4>3. init'.phase = "off" /\ init'.resolved = in.resolved
          BY <3>1, <4>1, <4>2 DEF CycleFails, InitRecords
        <4> QED
          BY <4>2, <4>3
      <3>2. CASE CycleFails(init) \/ init' = [init EXCEPT !.phase = "resting"]
        BY <2>1, <3>2 DEF CycleFails, InitInv, InitRecords
      <3> QED
        BY <2>2, <3>1, <3>2
    <2> QED
      BY <2>1, <2>3, <2>4, UnresolvedCycle
  <1>16. CASE (\E s \in Sessions : PromptResumes(s)) \/ Dispatch \/ DispatchEnds
    BY <1>1, <1>2, <1>16 DEF PromptResumes, Enqueue, Dispatch, DrainShift, CanShift, DispatchEnds, DrainEnd, lifeVars
  <1>17. CASE ModelResetStopped
    <2>1. pending = {}
      BY <1>17 DEF ModelResetStopped, BoundaryInv, Boundary, IsIdle
    <2>2. CASE modelReset' = "off" /\ UNCHANGED <<init, schedVars, workerVars>>
      BY <1>1, <1>2, <2>2
    <2>3. CASE modelReset' = "reinit" /\ StartCycle("reset")
      BY <2>1, <2>3, BeginningCycle
    <2> QED
      BY <1>17, <2>2, <2>3 DEF ModelResetStopped
  <1>18. CASE ShutdownDrained \/ ShutdownStopped
    BY <1>1, <1>2, <1>18 DEF ShutdownDrained, ShutdownStopped
  <1>19. CASE HandleWorkerMessage
    <2>1. fromWorker # <<>>
      BY <1>19 DEF HandleWorkerMessage, HandleReady, HandleResetDone, HandleModelResetDone, HandleShutdownDone,
                   HandleDone, HandleError, Handling
    <2>2. 1 \in DOMAIN fromWorker /\ Head(fromWorker) = fromWorker[1] /\ \A i \in DOMAIN fromWorker : i \in Nat \ {0}
      BY <2>1, RestOf DEF WireInv, WireTypes
    <2>3. CASE HandleReady
      <3>1. Awaited(fromWorker[1].attempt)
        BY <2>2, <2>3 DEF HandleReady, Handling, WireInv, LoadInv
      <3>2. SetReady(TRUE) /\ CycleSucceeds
        BY <2>2, <2>3, <3>1 DEF HandleReady, Awaited
      <3>3. init'.phase = "off" /\ init'.resolved /\ init'.lastPlan /\ init'.started = init.started
        BY <3>2 DEF CycleSucceeds, InitInv, InitRecords
      <3> QED
        BY <3>1, <3>3 DEF CycleInv, Awaited
    <2>4. CASE HandleResetDone \/ HandleDone
      BY <1>1, <1>2, <2>4 DEF HandleResetDone, HandleDone, Complete, Leave
    <2>5. CASE HandleModelResetDone
      <3>1. init.resolved
        <4>1. fromWorker[1].type = "model_reset_done"
          BY <2>2, <2>5 DEF HandleModelResetDone, Handling
        <4>2. \A i \in DOMAIN fromWorker : ~(i < 1)
          BY <2>2
        <4> QED
          BY <2>2, <4>1, <4>2 DEF WireInv, LoadInv
      <3>2. UNCHANGED <<init, ready, pending>>
        BY <1>2, <2>5 DEF HandleModelResetDone
      <3> QED
        BY <3>1, <3>2 DEF CycleInv
    <2>6. CASE HandleShutdownDone
      BY <1>1, <1>2, <2>6 DEF HandleShutdownDone
    <2>7. CASE HandleError
      <3>1. (ready' => ready) /\ pending' \subseteq pending /\ (modelReset' = "terminating" => modelReset = "terminating")
        BY <1>2, <2>7 DEF HandleError, Fail, Leave
      <3>2. UNCHANGED init \/ RejectReady
        BY <2>7 DEF HandleError
      <3>3. \/ UNCHANGED init
            \/ init.phase = "waiting" /\ AttemptFails("failed")
            \/ init' = [init EXCEPT !.barrier = "failed"]
        BY <3>2 DEF RejectReady
      <3>4. CASE init.phase = "waiting" /\ AttemptFails("failed")
        <4>1. init'.phase = "stopping" /\ init'.resolved = init.resolved
          BY <3>4 DEF AttemptFails, InitInv, InitRecords
        <4> QED
          BY <1>4, <3>1, <3>4, <4>1, UnresolvedCycle
      <3>5. CASE init' = [init EXCEPT !.barrier = "failed"]
        <4>1. /\ init'.phase = init.phase /\ init'.resolved = init.resolved
              /\ init'.started = init.started /\ init'.lastPlan = init.lastPlan
          BY <3>5 DEF InitInv, InitRecords
        <4> QED
          BY <3>1, <4>1 DEF CycleInv
      <3> QED
        BY <1>1, <3>1, <3>3, <3>4, <3>5
    <2> QED
      BY <1>19, <2>3, <2>4, <2>5, <2>6, <2>7 DEF HandleWorkerMessage
  <1> QED
    BY <1>5, <1>6, <1>7, <1>8, <1>9, <1>10, <1>11, <1>12, <1>13, <1>14, <1>15, <1>16, <1>17, <1>18, <1>19
       DEF Next, ApiCall

LEMMA WiresHold == Spec => [](WireInv /\ CycleInv)
  <1>1. Init => WireInv /\ CycleInv
    <2> SUFFICES ASSUME Init PROVE WireInv /\ CycleInv
      OBVIOUS
    <2>1. WireInv
      BY FreshWires DEF Init, WorkerInit
    <2>2. CycleInv
      BY DEF Init, SchedInit, NoInit, CycleInv
    <2> QED
      BY <2>1, <2>2
  <1>2. ASSUME BooksInv, BoundaryInv, LifeInv, WireInv, CycleInv, [Next]_vars PROVE WireInv' /\ CycleInv'
    <2>1. InitInv /\ CallTypes /\ WireTypes
      BY <1>2 DEF LifeInv, InitInv, WireInv
    <2>2. ParentActs \/ (Worker /\ UNCHANGED <<schedVars, lifeVars>>)
      BY <1>2, <2>1, StepsAct
    <2>3. ASSUME Stopped PROVE WireInv'
      <3>1. (toWorker = <<>> /\ fromWorker = <<>> /\ wk = FreshWorker)'
        BY <2>3 DEF Stopped, FreshWorker
      <3> QED
        BY <3>1, FreshWires, PTL
    <2>4. WireInv'
      BY <1>2, <2>2, <2>3, SendingWires, HandlingWires, WorkingWires DEF ParentActs
    <2> QED
      BY <1>2, <2>1, <2>4, CycleStep
  <1> QED
    BY <1>1, <1>2, BooksHold, BoundaryHolds, LifeHolds, PTL DEF Spec

\* A model reset finds no init cycle still running when it begins its own, and it
\* knows the plan to repeat (OneInitCycle): its worker insisted on a model that is
\* loaded, so the cycle has ended well by the time the answer is handled, and no
\* other can begin before the reset ends.
THEOREM ModelResetsFindNoCycle == Spec => OneInitCycle
  <1>1. CycleInv => (modelReset = "terminating" /\ modelReset' = "reinit" => init.phase = "off" /\ init.lastPlan)
    BY DEF CycleInv
  <1> QED
    BY <1>1, WiresHold, PTL DEF OneInitCycle

--------------------------------------------------------------------------------
(* The resets of a session.                                                 *)

LEMMA FifoHolds == Spec => []FifoInv
  <1>1. Init => FifoInv
    BY DEF Init, SchedInit, FifoInv
  <1>2. BooksInv /\ FifoInv /\ [Next]_vars => FifoInv'
    BY StepsAreSteps, FifoStep DEF SchedulerStep, BooksInv
  <1> QED
    BY <1>1, <1>2, BooksHold, PTL DEF Spec

\* A session that is being reset has no request that waits or runs.
BlockedInv == \A s \in Sessions : sessionReset[s] # "none" => OfSession(s) \intersect (queue \union pending) = {}

\* Only prompt() adds to what waits and runs, and only resetSession() blocks a session.
LEMMA SessionSteps ==
  ASSUME CallTypes, [Next]_vars, NEW s \in Sessions
  PROVE  \/ ResetSession(s)
         \/ /\ sessionReset'[s] # "none" => sessionReset[s] # "none"
            /\ \/ session' = session /\ queue' \union pending' \subseteq queue \union pending
               \/ \E t \in Sessions : PromptResumes(t)
  <1> DEFINE Kept == session' = session /\ queue' \union pending' \subseteq queue \union pending
  <1>1. \/ UNCHANGED schedVars
        \/ \E v : SetReady(v)
        \/ \E v : CancelAllWith(v)
        \/ \E w : WaitForIdle(w)
        \/ \E r : Complete(r) \/ Fail(r) \/ CancelQueued(r) \/ CancelRunning(r)
        \/ DrainEnd
        => Kept
    BY DEF schedVars, SetReady, CancelAllWith, WaitForIdle, Complete, Fail, CancelQueued, CancelRunning, Leave, DrainEnd
  <1>2. ASSUME NEW r, DrainShift(r) PROVE Kept
    BY <1>2 DEF DrainShift
  <1>3. \A owner : StartCycle(owner) => Kept
    BY <1>1 DEF StartCycle, StartAttempt
  <1>4. CASE ApiCall
    <2>1. CASE \E owner \in {"initModel", "explicitInitModel"} : InitModel(owner)
      BY <1>3, <2>1 DEF InitModel
    <2>2. CASE \E t \in Sessions : Prompt(t)
      BY <1>1, <1>3, <2>2 DEF Prompt
    <2>3. CASE \E r \in Requests : CancelPrompt(r)
      BY <1>1, <2>3 DEF CancelPrompt
    <2>4. ASSUME NEW t \in Sessions, ResetSession(t), t # s
          PROVE  Kept /\ (sessionReset'[s] # "none" => sessionReset[s] # "none")
      <3>1. Kept
        BY <2>4 DEF ResetSession, CancelBySession
      <3>2. sessionReset'[s] = sessionReset[s]
        BY <2>4 DEF ResetSession, CallTypes
      <3> QED
        BY <3>1, <3>2
    <2>5. CASE ResetModel \/ \E mode \in {"abort", "drain", "drain-with-timeout"} : Shutdown(mode)
      BY <1>1, <2>5 DEF ResetModel, Shutdown
    <2> QED
      BY <1>4, <2>1, <2>2, <2>3, <2>4, <2>5 DEF ApiCall
  <1>5. CASE Failure
    <2>1. ASSUME NEW t \in Sessions, SessionResetTimesOut(t)
          PROVE  Kept /\ (sessionReset'[s] # "none" => sessionReset[s] # "none")
      BY <1>1, <2>1 DEF SessionResetTimesOut, CallTypes
    <2>2. CASE PlanFails \/ ReadyTimesOut \/ ModelResetTimesOut \/ ShutdownTimesOut
      BY <1>1, <2>2 DEF PlanFails, ReadyTimesOut, ModelResetTimesOut, ShutdownTimesOut
    <2> QED
      BY <1>5, <2>1, <2>2 DEF Failure
  <1>6. CASE Planned \/ Rested \/ AttemptStopped \/ ModelResetStopped
    BY <1>1, <1>3, <1>6 DEF Planned, Rested, AttemptStopped, ModelResetStopped, StartAttempt
  <1>7. CASE Dispatch \/ DispatchEnds \/ Worker \/ UNCHANGED vars
    BY <1>1, <1>2, <1>7 DEF Dispatch, DispatchEnds, Worker, lifeVars, vars
  <1>8. CASE \E t \in Sessions : PromptResumes(t)
    BY <1>8 DEF PromptResumes
  <1>9. CASE ShutdownDrained \/ DrainTimesOut \/ ShutdownStopped
    BY <1>1, <1>9 DEF ShutdownDrained, DrainTimesOut, ShutdownStopped
  <1>10. CASE HandleWorkerMessage
    <2>1. Kept
      BY <1>1, <1>10 DEF HandleWorkerMessage, HandleReady, HandleResetDone, HandleModelResetDone, HandleShutdownDone,
                         HandleDone, HandleError
    <2>2. sessionReset'[s] # "none" => sessionReset[s] # "none"
      <3>1. CASE HandleReady \/ HandleDone
        BY <3>1 DEF HandleReady, HandleDone
      <3>2. CASE HandleResetDone
        BY <3>2 DEF HandleResetDone, CallTypes
      <3>3. CASE HandleModelResetDone \/ HandleShutdownDone
        BY <3>3 DEF HandleModelResetDone, HandleShutdownDone, ForgetSessionResets
      <3>4. CASE HandleError
        BY <3>4 DEF HandleError
      <3> QED
        BY <1>10, <3>1, <3>2, <3>3, <3>4 DEF HandleWorkerMessage
    <2> QED
      BY <2>1, <2>2
  <1> QED
    BY <1>4, <1>5, <1>6, <1>7, <1>8, <1>9, <1>10 DEF Next

LEMMA BlockedHolds == Spec => []BlockedInv
  <1>1. Init => BlockedInv
    BY DEF Init, BlockedInv
  <1>2. ASSUME BooksInv, CallTypes, BlockedInv, [Next]_vars PROVE BlockedInv'
    <2> SUFFICES ASSUME NEW s \in Sessions, sessionReset'[s] # "none", NEW r \in queue' \union pending', r \in Requests
                 PROVE  session'[r] # s
      <3>1. queue' \union pending' \subseteq Requests
        <4>1. BooksInv'
          BY <1>2, StepsAreSteps, BooksStep DEF SchedulerStep, BooksInv
        <4> QED
          BY <4>1 DEF BooksInv, SchedTypeOK
      <3> QED
        BY <3>1 DEF BlockedInv, OfSession
    <2>1. CASE ResetSession(s)
      BY <2>1 DEF ResetSession, CancelBySession, OfSession
    <2>2. CASE session' = session /\ queue' \union pending' \subseteq queue \union pending /\ sessionReset[s] # "none"
      BY <1>2, <2>2 DEF BlockedInv, OfSession
    <2>3. ASSUME NEW t \in Sessions, PromptResumes(t), sessionReset[s] # "none" PROVE session'[r] # s
      <3>1. CASE UNCHANGED schedVars
        BY <1>2, <2>3, <3>1 DEF BlockedInv, OfSession, schedVars
      <3>2. ASSUME NEW q \in Requests, Enqueue(q, t), Admitted(t) PROVE session'[r] # s
        <4>1. t # s
          BY <2>3, <3>2 DEF Admitted
        <4>2. session' = [session EXCEPT ![q] = t] /\ queue' = queue \union {q} /\ pending' = pending
          BY <3>2 DEF Enqueue
        <4>3. r # q => session[r] # s
          BY <1>2, <2>3, <4>2 DEF BlockedInv, OfSession
        <4> QED
          BY <1>2, <4>1, <4>2, <4>3 DEF BooksInv, SchedTypeOK
      <3> QED
        BY <2>3, <3>1, <3>2 DEF PromptResumes
    <2> QED
      BY <1>2, <2>1, <2>2, <2>3, SessionSteps
  <1> QED
    BY <1>1, <1>2, BooksHold, LifeHolds, PTL DEF Spec, LifeInv

\* Where the reset of a session is, what the worker has yet to be told of the
\* session's prompts, and what a reset must not find behind it.
Asked(s) == \E i \in DOMAIN toWorker : ResetsAt(toWorker, i, s)
Begun(s) == \E i \in DOMAIN wk.ops : ResetsAt(wk.ops, i, s)
Reported(s) == \E i \in DOMAIN fromWorker : ReportsAt(fromWorker, i, s)
Sends(s) == \E j \in DOMAIN toWorker, r \in OfSession(s) : BeginsAt(toWorker, j, r)

AskedOnce(s) ==
  /\ \A i, j \in DOMAIN toWorker : ResetsAt(toWorker, i, s) /\ ResetsAt(toWorker, j, s) => i = j
  /\ \A i, j \in DOMAIN toWorker : ResetsAt(toWorker, i, s) /\ j > i => \A r \in OfSession(s) : ~BeginsAt(toWorker, j, r)
BegunOnce(s) == \A i, j \in DOMAIN wk.ops : ResetsAt(wk.ops, i, s) /\ ResetsAt(wk.ops, j, s) => i = j
ReportedOnce(s) == \A i, j \in DOMAIN fromWorker : ReportsAt(fromWorker, i, s) /\ ReportsAt(fromWorker, j, s) => i = j

\* A reset is a message, an operation or a report, and blocks the session all the
\* while; no prompt of the session comes behind it; and it waits for those it found.
OneReset(s) ==
  /\ AskedOnce(s) /\ BegunOnce(s) /\ ReportedOnce(s)
  /\ ~(Asked(s) /\ Begun(s)) /\ ~(Asked(s) /\ Reported(s)) /\ ~(Begun(s) /\ Reported(s))
  /\ Asked(s) \/ Begun(s) \/ Reported(s) => sessionReset[s] # "none"
  /\ Begun(s) => ~Sends(s)
  /\ wk.phase = "waiting" /\ ResetsAt(wk.ops, 1, s) => \A r \in OfSession(s) : wk.prompt[r] # "none" => r \in wk.waits
  /\ Reported(s) => ~Sends(s) /\ \A r \in OfSession(s) : wk.prompt[r] = "none"

LEMMA WaitingFirst == WireTypes /\ wk.phase = "waiting" => 1 \in DOMAIN wk.ops
  BY RestOf DEF WireTypes, WorkerRecords

LEMMA FreshReset ==
  ASSUME toWorker = <<>>, fromWorker = <<>>, wk = FreshWorker, NEW s \in Sessions
  PROVE  OneReset(s)
  <1>1. wk.ops = <<>> /\ wk.phase = "idle"
    BY FreshFields
  <1>2. DOMAIN toWorker = {} /\ DOMAIN fromWorker = {} /\ DOMAIN wk.ops = {}
    BY <1>1
  <1> QED
    BY <1>1, <1>2 DEF OneReset, AskedOnce, BegunOnce, ReportedOnce, Asked, Begun, Reported

\* A request that a session did not have before is one the worker knows nothing of.
LEMMA NewOfSession ==
  ASSUME BooksInv, CancelInv', [Next]_vars, NEW s \in Sessions, NEW r \in OfSession(s)', r \notin OfSession(s)
  PROVE  wk'.prompt[r] = "none" /\ \A j \in DOMAIN toWorker' : ~BeginsAt(toWorker', j, r)
  <1>1. r \in Requests /\ session'[r] = s /\ session[r] # s
    BY DEF OfSession
  <1>2. [SchedNext]_schedVars
    BY StepsAreSteps DEF SchedulerStep, BooksInv
  <1>3. \E q \in Requests, t \in Sessions : Enqueue(q, t)
    BY <1>1, <1>2 DEF SchedNext, Call, DrainStep, SetReady, Complete, Fail, CancelQueued, CancelRunning, Leave,
       CancelAll, CancelAllWith, CancelBySession, WaitForIdle, DrainShift, DrainEnd, schedVars
  <1>4. PICK q \in Requests, t \in Sessions : Enqueue(q, t)
    BY <1>3
  <1>5. q = r
    BY <1>1, <1>4 DEF Enqueue, BooksInv, SchedTypeOK
  <1>6. status'[r] = "queued"
    BY <1>1, <1>4, <1>5 DEF Enqueue, SetStatus
  <1>7. CancelFollows(r)'
    BY <1>1 DEF CancelInv
  <1> QED
    BY <1>6, <1>7 DEF CancelFollows

\* What the parent sends.
LEMMA SendingResets ==
  ASSUME BooksInv, BlockedInv', CancelInv', WireTypes, [Next]_vars, NEW ms, Sent(ms), NEW s \in Sessions, OneReset(s)
  PROVE  OneReset(s)'
  <1>1. fromWorker' = fromWorker /\ wk' = wk
    BY DEF Sent
  <1>2. PICK k \in Nat : /\ DOMAIN toWorker = 1..k /\ \A j \in DOMAIN ms : j \in Nat \ {0}
                         /\ \A i \in DOMAIN toWorker : i \in DOMAIN toWorker' /\ toWorker'[i] = toWorker[i]
                         /\ \A j \in DOMAIN ms : k + j \in DOMAIN toWorker' /\ toWorker'[k + j] = ms[j]
                         /\ \A i \in DOMAIN toWorker' : i \in DOMAIN toWorker \/ \E j \in DOMAIN ms : i = k + j
    BY WhatIsAdded
  <1>4. \* a prompt of a session is sent only while it is not being reset
        ASSUME NEW i \in DOMAIN toWorker', NEW r \in OfSession(s)', BeginsAt(toWorker', i, r)
        PROVE  r \in OfSession(s) /\ (sessionReset'[s] = "none" \/ (i \in DOMAIN toWorker /\ BeginsAt(toWorker, i, r)))
    <2>1. r \in OfSession(s)
      BY <1>4, NewOfSession
    <2>2. CASE i \in DOMAIN toWorker
      BY <1>2, <1>4, <2>1, <2>2 DEF BeginsAt
    <2>3. ASSUME NEW j \in DOMAIN ms, i = k + j PROVE sessionReset'[s] = "none"
      <3>1. Due(ms[j]) /\ ms[j].type = "prompt" /\ ms[j].id = r
        BY <1>2, <1>4, <2>3 DEF Sent, BeginsAt
      <3>2. r \in pending'
        BY <3>1 DEF Due
      <3> QED
        BY <1>4, <3>2 DEF BlockedInv
    <2> QED
      BY <1>2, <2>1, <2>2, <2>3
  <1>5. \A r \in OfSession(s)' : wk.prompt[r] # "none" => r \in OfSession(s)
    BY <1>1, NewOfSession
  <1>6. ASSUME NEW i \in DOMAIN toWorker', ResetsAt(toWorker', i, s)
        PROVE  \/ i \in DOMAIN toWorker /\ ResetsAt(toWorker, i, s)
               \/ \E j \in DOMAIN ms : i = k + j /\ ResetsAt(ms, j, s)
    BY <1>2, <1>6 DEF ResetsAt
  <1>7. \A j \in DOMAIN ms : ResetsAt(ms, j, s) => sessionReset[s] = "none" /\ sessionReset'[s] # "none"
    BY DEF Sent, Due, ResetsAt
  <1>8. /\ Begun(s)' <=> Begun(s)
        /\ Reported(s)' <=> Reported(s)
        /\ BegunOnce(s)' /\ ReportedOnce(s)'
    BY <1>1 DEF OneReset, Begun, Reported, BegunOnce, ReportedOnce
  <1>9. sessionReset'[s] = "none" => sessionReset[s] = "none"
    BY DEF Sent
  <1>10. sessionReset'[s] # "none" => (Sends(s)' => Sends(s))
    BY <1>4 DEF Sends
  <1>11. CASE \E j \in DOMAIN ms : ResetsAt(ms, j, s)
    <2>1. PICK j \in DOMAIN ms : ResetsAt(ms, j, s)
      BY <1>11
    <2>2. ~Asked(s) /\ ~Begun(s) /\ ~Reported(s) /\ sessionReset'[s] # "none"
      BY <1>7, <2>1 DEF OneReset
    <2>3. \A l \in DOMAIN ms : ResetsAt(ms, l, s) => l = j
      BY <2>1 DEF Sent, ResetsAt
    <2>4. \A i \in DOMAIN toWorker' : ResetsAt(toWorker', i, s) => i = k + j
      BY <1>6, <2>2, <2>3 DEF Asked
    <2>5. ASSUME NEW i \in DOMAIN toWorker', i > k + j, NEW r \in OfSession(s)' PROVE ~BeginsAt(toWorker', i, r)
      <3>1. i \notin DOMAIN toWorker
        BY <1>2, <2>5
      <3> QED
        BY <1>4, <2>2, <2>5, <3>1
    <2>6. AskedOnce(s)'
      BY <2>4, <2>5 DEF AskedOnce
    <2>7. wk.phase = "waiting" => ~ResetsAt(wk.ops, 1, s)
      BY <2>2, WaitingFirst DEF Begun
    <2> QED
      BY <1>1, <1>8, <2>2, <2>6, <2>7 DEF OneReset
  <1>12. CASE ~\E j \in DOMAIN ms : ResetsAt(ms, j, s)
    <2>1. \A i \in DOMAIN toWorker' : ResetsAt(toWorker', i, s) => i \in DOMAIN toWorker /\ ResetsAt(toWorker, i, s)
      BY <1>6, <1>12
    <2>2. Asked(s)' => Asked(s)
      BY <2>1 DEF Asked
    <2>3. Asked(s) \/ Begun(s) \/ Reported(s) => sessionReset'[s] # "none"
      BY <1>9 DEF OneReset
    <2>4. ASSUME NEW i \in DOMAIN toWorker', NEW j \in DOMAIN toWorker', ResetsAt(toWorker', i, s), j > i,
                 NEW r \in OfSession(s)'
          PROVE  ~BeginsAt(toWorker', j, r)
      <3>1. i \in DOMAIN toWorker /\ ResetsAt(toWorker, i, s) /\ sessionReset'[s] # "none"
        BY <2>1, <2>3, <2>4 DEF Asked
      <3> QED
        BY <1>4, <2>4, <3>1 DEF OneReset, AskedOnce
    <2>5. AskedOnce(s)'
      BY <2>1, <2>4 DEF AskedOnce, OneReset
    <2>6. Begun(s) \/ Reported(s) => ~Sends(s)'
      BY <1>10, <2>3 DEF OneReset
    <2>7. Reported(s) => \A r \in OfSession(s)' : wk.prompt[r] = "none"
      BY <1>5 DEF OneReset
    <2>8. wk.phase = "waiting" /\ ResetsAt(wk.ops, 1, s) => \A r \in OfSession(s)' : wk.prompt[r] # "none" => r \in wk.waits
      BY <1>5 DEF OneReset
    <2> QED
      BY <1>1, <1>8, <2>2, <2>3, <2>5, <2>6, <2>7, <2>8 DEF OneReset
  <1> QED
    BY <1>11, <1>12

\* What it handles.
LEMMA HandlingResets ==
  ASSUME BooksInv, CancelInv', WireTypes, [Next]_vars, Handled, NEW s \in Sessions, OneReset(s)
  PROVE  OneReset(s)'
  <1>1. /\ UNCHANGED <<toWorker, wk>>
        /\ sessionReset'[s] = IF ReportsAt(fromWorker, 1, s) THEN "none" ELSE sessionReset[s]
    BY DEF Handled
  <1>2. /\ 1 \in DOMAIN fromWorker
        /\ \A i \in DOMAIN fromWorker' : i \in Nat \ {0} /\ i + 1 \in DOMAIN fromWorker /\ fromWorker'[i] = fromWorker[i + 1]
    BY RestOf DEF WireTypes, Handled
  <1>3. ASSUME NEW r \in OfSession(s)'
        PROVE  r \in OfSession(s) \/ (wk.prompt[r] = "none" /\ \A j \in DOMAIN toWorker : ~BeginsAt(toWorker, j, r))
    <2>1. CASE r \notin OfSession(s)
      BY <1>1, <2>1, NewOfSession
    <2> QED
      BY <2>1
  <1>4. (Asked(s)' <=> Asked(s)) /\ (Begun(s)' <=> Begun(s)) /\ BegunOnce(s)' /\ (Sends(s)' => Sends(s))
    BY <1>1, <1>3 DEF OneReset, Asked, Begun, BegunOnce, Sends
  <1>5. AskedOnce(s)'
    BY <1>1, <1>3 DEF OneReset, AskedOnce
  <1>6. ASSUME NEW i \in DOMAIN fromWorker', ReportsAt(fromWorker', i, s)
        PROVE  i \in Nat /\ i + 1 # 1 /\ i + 1 \in DOMAIN fromWorker /\ ReportsAt(fromWorker, i + 1, s)
    <2>1. i \in Nat \ {0} /\ i + 1 \in DOMAIN fromWorker /\ fromWorker'[i] = fromWorker[i + 1]
      BY <1>2
    <2>2. i + 1 # 1
      BY <2>1
    <2> QED
      BY <1>6, <2>1, <2>2 DEF ReportsAt
  <1>7. ReportedOnce(s)'
    <2> SUFFICES ASSUME NEW i \in DOMAIN fromWorker', NEW j \in DOMAIN fromWorker', ReportsAt(fromWorker', i, s),
                        ReportsAt(fromWorker', j, s)
                 PROVE  i = j
      BY DEF ReportedOnce
    <2>1. i \in Nat /\ j \in Nat /\ i + 1 = j + 1
      BY <1>6 DEF OneReset, ReportedOnce
    <2> QED
      BY <2>1
  <1>8. Reported(s)' => Reported(s) /\ ~ReportsAt(fromWorker, 1, s)
    <2> SUFFICES ASSUME NEW i \in DOMAIN fromWorker', ReportsAt(fromWorker', i, s)
                 PROVE  Reported(s) /\ ~ReportsAt(fromWorker, 1, s)
      BY DEF Reported
    <2>1. i + 1 # 1 /\ i + 1 \in DOMAIN fromWorker /\ ReportsAt(fromWorker, i + 1, s)
      BY <1>6
    <2> QED
      BY <1>2, <2>1 DEF Reported, OneReset, ReportedOnce
  <1>9. ReportsAt(fromWorker, 1, s) => ~Asked(s) /\ ~Begun(s)
    BY <1>2 DEF OneReset, Reported
  <1>10. /\ Reported(s) => \A r \in OfSession(s)' : wk.prompt[r] = "none"
         /\ wk.phase = "waiting" /\ ResetsAt(wk.ops, 1, s) => \A r \in OfSession(s)' : wk.prompt[r] # "none" => r \in wk.waits
    BY <1>3 DEF OneReset
  <1> QED
    BY <1>1, <1>4, <1>5, <1>7, <1>8, <1>9, <1>10 DEF OneReset

\* What the worker does.
LEMMA WorkingResets ==
  ASSUME BooksInv, WireTypes, Worker, UNCHANGED <<schedVars, lifeVars>>, NEW s \in Sessions, OneReset(s)
  PROVE  OneReset(s)'
  <1>1. toWorker' = toWorker \/ Hears
    BY WorkerWires
  <1>2. OfSession(s)' = OfSession(s) /\ sessionReset' = sessionReset
    BY DEF OfSession, schedVars, lifeVars
  <1>3. ASSUME NEW i \in DOMAIN toWorker' PROVE \E k \in DOMAIN toWorker : toWorker'[i] = toWorker[k]
    BY <1>1, WhatIsLeft
  <1>4. (Asked(s)' => Asked(s)) /\ (Sends(s)' => Sends(s))
    BY <1>2, <1>3 DEF Asked, Sends, ResetsAt, BeginsAt
  <1>5. AskedOnce(s)'
    <2>1. CASE toWorker' = toWorker
      BY <1>2, <2>1 DEF OneReset, AskedOnce
    <2>2. CASE Hears
      <3>1. \A i \in DOMAIN toWorker' :
              i \in Nat \ {0} /\ i + 1 # 1 /\ i + 1 \in DOMAIN toWorker /\ toWorker'[i] = toWorker[i + 1]
        BY <2>2, WhatIsLeft
      <3>2. ASSUME NEW i \in DOMAIN toWorker', NEW j \in DOMAIN toWorker', ResetsAt(toWorker', i, s),
                   ResetsAt(toWorker', j, s)
            PROVE  i = j
        <4>1. i \in Nat /\ j \in Nat /\ i + 1 \in DOMAIN toWorker /\ j + 1 \in DOMAIN toWorker
              /\ toWorker'[i] = toWorker[i + 1] /\ toWorker'[j] = toWorker[j + 1]
          BY <3>1
        <4>2. i + 1 = j + 1
          BY <3>2, <4>1 DEF OneReset, AskedOnce, ResetsAt
        <4> QED
          BY <4>1, <4>2
      <3>3. ASSUME NEW i \in DOMAIN toWorker', NEW j \in DOMAIN toWorker', ResetsAt(toWorker', i, s), j > i,
                   NEW r \in OfSession(s)'
            PROVE  ~BeginsAt(toWorker', j, r)
        <4>1. i \in Nat /\ j \in Nat /\ i + 1 \in DOMAIN toWorker /\ j + 1 \in DOMAIN toWorker
              /\ toWorker'[i] = toWorker[i + 1] /\ toWorker'[j] = toWorker[j + 1]
          BY <3>1
        <4>2. j + 1 > i + 1
          BY <3>3, <4>1
        <4> QED
          BY <1>2, <3>3, <4>1, <4>2 DEF OneReset, AskedOnce, ResetsAt, BeginsAt
      <3> QED
        BY <3>2, <3>3 DEF AskedOnce
    <2> QED
      BY <1>1, <2>1, <2>2
  <1>6. ASSUME Hears, ResetsAt(toWorker, 1, s) PROVE ~Asked(s)' /\ ~Sends(s)' /\ Asked(s)
    <2>1. /\ 1 \in DOMAIN toWorker /\ \A i \in DOMAIN toWorker : i \in Nat \ {0}
          /\ \A i \in DOMAIN toWorker' : i + 1 # 1 /\ i + 1 \in DOMAIN toWorker /\ toWorker'[i] = toWorker[i + 1]
      BY <1>6, WhatIsLeft
    <2>2. \A i \in DOMAIN toWorker : i # 1 => i > 1
      BY <2>1
    <2>3. ASSUME NEW i \in DOMAIN toWorker' PROVE ~ResetsAt(toWorker', i, s) /\ \A r \in OfSession(s) : ~BeginsAt(toWorker', i, r)
      <3>1. PICK l \in DOMAIN toWorker : l # 1 /\ l > 1 /\ toWorker'[i] = toWorker[l]
        BY <2>1, <2>2
      <3> QED
        BY <1>6, <2>1, <3>1 DEF OneReset, AskedOnce, ResetsAt, BeginsAt
    <2> QED
      BY <1>2, <1>6, <2>1, <2>3 DEF Asked, Sends
  <1>7. \* an answer that is not a report about the session
        ASSUME fromWorker' = fromWorker \/ \E m : Says(m) /\ (m.type # "reset_done" \/ m.s # s)
        PROVE  ReportedOnce(s)' /\ (Reported(s)' <=> Reported(s))
    <2>1. CASE fromWorker' = fromWorker
      BY <2>1 DEF OneReset, Reported, ReportedOnce
    <2>2. ASSUME NEW m, Says(m), m.type # "reset_done" \/ m.s # s PROVE <1>7!2
      <3>1. PICK k \in DOMAIN fromWorker' :
              fromWorker'[k] = m /\ \A i \in DOMAIN fromWorker' : i = k \/ i \in DOMAIN fromWorker
        BY <2>2, LastIsSaid
      <3>2. \A i \in DOMAIN fromWorker : i \in DOMAIN fromWorker' /\ fromWorker'[i] = fromWorker[i]
        BY <2>2, LastIsSaid
      <3>3. \A i \in DOMAIN fromWorker' : ReportsAt(fromWorker', i, s) => i \in DOMAIN fromWorker /\ ReportsAt(fromWorker, i, s)
        BY <2>2, <3>1, <3>2 DEF ReportsAt
      <3> QED
        BY <3>2, <3>3 DEF OneReset, Reported, ReportedOnce, ReportsAt
    <2> QED
      BY <1>7, <2>1, <2>2
  <1>8. SaysError(0) => \E m : Says(m) /\ (m.type # "reset_done" \/ m.s # s)
    BY DEF SaysError
  <1>9. \* the next operation, if any, is due
        ASSUME NextOp PROVE (Begun(s)' => Begun(s)) /\ BegunOnce(s)' /\ wk'.phase = "idle"
                            /\ (ResetsAt(wk.ops, 1, s) => ~Begun(s)' /\ Begun(s))
    <2>1. wk.ops \in Seq(Operations) /\ wk.ops # <<>> /\ wk'.ops = Tail(wk.ops) /\ wk'.phase = "idle"
      BY <1>9 DEF NextOp, WireTypes, WorkerRecords
    <2>2. /\ 1 \in DOMAIN wk.ops
          /\ \A i \in DOMAIN wk'.ops : i \in Nat \ {0} /\ i + 1 \in DOMAIN wk.ops /\ wk'.ops[i] = wk.ops[i + 1]
      BY <2>1, RestOf
    <2>3. ASSUME NEW i \in DOMAIN wk'.ops, ResetsAt(wk'.ops, i, s)
          PROVE  i \in Nat /\ i + 1 # 1 /\ i + 1 \in DOMAIN wk.ops /\ ResetsAt(wk.ops, i + 1, s)
      <3>1. i \in Nat \ {0} /\ i + 1 \in DOMAIN wk.ops /\ wk'.ops[i] = wk.ops[i + 1]
        BY <2>2
      <3>2. i + 1 # 1
        BY <3>1
      <3> QED
        BY <2>3, <3>1, <3>2 DEF ResetsAt
    <2>4. BegunOnce(s)'
      <3> SUFFICES ASSUME NEW i \in DOMAIN wk'.ops, NEW j \in DOMAIN wk'.ops, ResetsAt(wk'.ops, i, s),
                          ResetsAt(wk'.ops, j, s)
                   PROVE  i = j
        BY DEF BegunOnce
      <3>1. i \in Nat /\ j \in Nat /\ i + 1 = j + 1
        BY <2>3 DEF OneReset, BegunOnce
      <3> QED
        BY <3>1
    <2>5. Begun(s)' => Begun(s) /\ ~ResetsAt(wk.ops, 1, s)
      <3> SUFFICES ASSUME NEW i \in DOMAIN wk'.ops, ResetsAt(wk'.ops, i, s)
                   PROVE  Begun(s) /\ ~ResetsAt(wk.ops, 1, s)
        BY DEF Begun
      <3>1. i + 1 # 1 /\ i + 1 \in DOMAIN wk.ops /\ ResetsAt(wk.ops, i + 1, s)
        BY <2>3
      <3> QED
        BY <2>2, <3>1 DEF OneReset, Begun, BegunOnce
    <2> QED
      BY <2>1, <2>2, <2>4, <2>5 DEF Begun
  <1>10. OpsKept => (Begun(s)' <=> Begun(s)) /\ BegunOnce(s)'
    BY DEF OpsKept, OneReset, Begun, BegunOnce
  <1>11. \* a step that does not concern the session's reset
         ASSUME OpsKept, ReportedOnce(s)' /\ (Reported(s)' <=> Reported(s)),
                \A r \in OfSession(s) : wk'.prompt[r] # "none" => wk.prompt[r] # "none" \/ Sends(s)
         PROVE  OneReset(s)'
    <2>1. wk'.phase = "waiting" /\ ResetsAt(wk'.ops, 1, s) =>
            \A r \in OfSession(s) : wk'.prompt[r] # "none" => r \in wk'.waits
      <3> SUFFICES ASSUME wk.phase = "waiting", ResetsAt(wk.ops, 1, s), NEW r \in OfSession(s), wk'.prompt[r] # "none"
                   PROVE  r \in wk.waits
        BY <1>11 DEF OpsKept
      <3>1. ~Sends(s)
        BY WaitingFirst DEF OneReset, Begun
      <3> QED
        BY <1>11, <3>1 DEF OneReset
    <2>2. Reported(s)' => \A r \in OfSession(s) : wk'.prompt[r] = "none"
      BY <1>11 DEF OneReset
    <2> QED
      BY <1>2, <1>4, <1>5, <1>10, <1>11, <2>1, <2>2 DEF OneReset
  <1>12. CASE ReceiveInit
    BY <1>7, <1>8, <1>11, <1>12, AtInit DEF PromptsKept
  <1>13. CASE ModelLoads \/ ModelLoadFails
    <2>1. PromptsKept /\ OpsKept /\ \E m : Says(m) /\ m.type # "reset_done"
      BY <1>13, AtLoad DEF SaysError
    <2> QED
      BY <1>7, <1>11, <2>1 DEF PromptsKept
  <1>14. CASE ReceivePrompt
    <2>1. /\ Hears /\ toWorker[1].type = "prompt" /\ toWorker[1].id \in Requests /\ OpsKept
          /\ PromptsKept \/ wk'.prompt = [wk.prompt EXCEPT ![toWorker[1].id] = "running"]
          /\ fromWorker' = fromWorker \/ SaysError(toWorker[1].id)
      BY <1>14, AtPrompt
    <2>2. 1 \in DOMAIN toWorker
      BY <2>1, WhatIsLeft
    <2>3. ASSUME NEW r \in OfSession(s), wk'.prompt[r] # "none" PROVE wk.prompt[r] # "none" \/ Sends(s)
      <3>1. CASE r = toWorker[1].id
        BY <2>1, <2>2, <3>1 DEF Sends, BeginsAt
      <3>2. CASE r # toWorker[1].id
        BY <2>1, <2>3, <3>2 DEF PromptsKept, OfSession, WireTypes, WorkerRecords
      <3> QED
        BY <3>1, <3>2
    <2> QED
      BY <1>7, <1>11, <2>1, <2>3 DEF SaysError
  <1>15. \A R : \A r \in OfSession(s) : Aborting(R)[r] = "none" <=> wk.prompt[r] = "none"
    BY DEF Aborting, OfSession
  <1>16. CASE ReceiveCancel
    BY <1>7, <1>11, <1>15, <1>16, AtCancel
  <1>17. ASSUME NEW q \in Requests, PromptEnds(q) PROVE OneReset(s)'
    <2>1. /\ OpsKept /\ wk'.prompt = [wk.prompt EXCEPT ![q] = "none"]
          /\ fromWorker' = fromWorker \/ \E m : Says(m) /\ m.type # "reset_done"
      BY <1>17, AtEnd DEF SaysError
    <2>2. \A r \in OfSession(s) : wk'.prompt[r] # "none" => wk.prompt[r] # "none"
      BY <2>1 DEF OfSession, WireTypes, WorkerRecords
    <2> QED
      BY <1>7, <1>11, <2>1, <2>2
  <1>18. CASE ReceiveOperation
    <2>1. /\ Hears /\ fromWorker' = fromWorker /\ PromptsKept /\ wk'.phase = wk.phase /\ wk'.waits = wk.waits
          /\ toWorker[1] \in Operations /\ wk'.ops = Append(wk.ops, toWorker[1])
      BY <1>18, AtOperation
    <2>2. PICK k : k = Len(wk.ops) + 1
      OBVIOUS
    <2>3. /\ \A i \in DOMAIN wk.ops : i \in DOMAIN wk'.ops /\ wk'.ops[i] = wk.ops[i]
          /\ k \in DOMAIN wk'.ops /\ wk'.ops[k] = toWorker[1]
          /\ \A i \in DOMAIN wk'.ops : i \in DOMAIN wk.ops \/ i = k
      <3>1. wk.ops \in Seq(Operations)
        BY DEF WireTypes, WorkerRecords
      <3> QED
        BY <2>1, <2>2, <3>1, OneMoreOf
    <2>4. ReportedOnce(s)' /\ (Reported(s)' <=> Reported(s))
      BY <1>7, <2>1
    <2>5. wk'.phase = "waiting" /\ ResetsAt(wk'.ops, 1, s) =>
            \A r \in OfSession(s) : wk'.prompt[r] # "none" => r \in wk'.waits
      BY <2>1, <2>3, WaitingFirst DEF PromptsKept, ResetsAt, OneReset
    <2>6. CASE ResetsAt(toWorker, 1, s)
      <3>1. ~Asked(s)' /\ ~Sends(s)' /\ ~Begun(s) /\ ~Reported(s) /\ sessionReset[s] # "none"
        BY <1>6, <2>1, <2>6 DEF OneReset
      <3>2. BegunOnce(s)'
        BY <2>3, <3>1 DEF BegunOnce, Begun, ResetsAt
      <3> QED
        BY <1>2, <1>5, <2>4, <2>5, <3>1, <3>2 DEF OneReset
    <2>7. CASE ~ResetsAt(toWorker, 1, s)
      <3>1. \A i \in DOMAIN wk'.ops : ResetsAt(wk'.ops, i, s) => i \in DOMAIN wk.ops /\ ResetsAt(wk.ops, i, s)
        BY <2>3, <2>7 DEF ResetsAt
      <3>2. (Begun(s)' => Begun(s)) /\ BegunOnce(s)'
        BY <3>1 DEF Begun, BegunOnce, OneReset
      <3>3. Reported(s)' => \A r \in OfSession(s) : wk'.prompt[r] = "none"
        BY <2>1, <2>4 DEF PromptsKept, OneReset
      <3> QED
        BY <1>2, <1>4, <1>5, <2>4, <2>5, <3>2, <3>3 DEF OneReset
    <2> QED
      BY <2>6, <2>7
  <1>19. ASSUME NextOp, PromptsKept, ReportedOnce(s)' /\ (Reported(s)' <=> Reported(s)) PROVE OneReset(s)'
    BY <1>2, <1>4, <1>5, <1>9, <1>19 DEF OneReset, PromptsKept
  <1>20. CASE OperationBegins
    <2>1. CASE NextOp /\ PromptsKept /\ SaysError(0)
      BY <1>7, <1>8, <1>19, <2>1
    <2>2. CASE /\ wk'.ops = wk.ops /\ wk'.phase = "waiting" /\ wk'.waits = Affected(wk.ops[1])
               /\ wk'.prompt = Aborting(Affected(wk.ops[1])) /\ fromWorker' = fromWorker
      <3>1. (Begun(s)' <=> Begun(s)) /\ BegunOnce(s)' /\ ReportedOnce(s)' /\ (Reported(s)' <=> Reported(s))
        BY <1>7, <2>2 DEF OneReset, Begun, BegunOnce
      <3>2. ResetsAt(wk.ops, 1, s) => \A r \in OfSession(s) : wk.prompt[r] # "none" => r \in Affected(wk.ops[1])
        BY DEF ResetsAt, Affected, OfSession
      <3>3. \A r \in OfSession(s) : wk'.prompt[r] # "none" <=> wk.prompt[r] # "none"
        BY <1>15, <2>2
      <3>4. wk'.phase = "waiting" /\ ResetsAt(wk'.ops, 1, s) =>
              \A r \in OfSession(s) : wk'.prompt[r] # "none" => r \in wk'.waits
        BY <2>2, <3>2, <3>3
      <3>5. Reported(s) => \A r \in OfSession(s) : wk'.prompt[r] = "none"
        BY <3>3 DEF OneReset
      <3> QED
        BY <1>2, <1>4, <1>5, <3>1, <3>4, <3>5 DEF OneReset
    <2> QED
      BY <1>20, <2>1, <2>2, AtBegin
  <1>21. CASE OperationEnds \/ OperationFails
    <2>1. /\ NextOp /\ PromptsKept /\ wk.phase = "waiting" /\ \A r \in wk.waits : wk.prompt[r] = "none"
          /\ SaysError(0) \/ \E m : Says(m) /\ (m.type # "reset_done" \/ (wk.ops[1].type = "reset_session" /\ m.s = wk.ops[1].s))
      BY <1>21, AtFinish
    <2>2. CASE SaysError(0) \/ \E m : Says(m) /\ (m.type # "reset_done" \/ m.s # s)
      BY <1>7, <1>8, <1>19, <2>1, <2>2
    <2>3. ASSUME NEW m, Says(m), m.type = "reset_done", m.s = s, ResetsAt(wk.ops, 1, s)
          PROVE  OneReset(s)'
      <3>1. Begun(s) /\ ~Begun(s)' /\ BegunOnce(s)' /\ wk'.phase = "idle"
        BY <1>9, <2>1, <2>3
      <3>2. ~Asked(s) /\ ~Reported(s) /\ ~Sends(s) /\ sessionReset[s] # "none"
        BY <3>1 DEF OneReset
      <3>3. \A r \in OfSession(s) : wk'.prompt[r] = "none"
        BY <2>1, <2>3 DEF OneReset, PromptsKept
      <3>4. ReportedOnce(s)'
        <4>1. PICK k \in DOMAIN fromWorker' : \A i \in DOMAIN fromWorker' : i = k \/ i \in DOMAIN fromWorker
          BY <2>3, LastIsSaid
        <4>2. \A i \in DOMAIN fromWorker : fromWorker'[i] = fromWorker[i]
          BY <2>3, LastIsSaid
        <4> QED
          BY <3>2, <4>1, <4>2 DEF Reported, ReportedOnce, ReportsAt
      <3> QED
        BY <1>2, <1>4, <1>5, <3>1, <3>2, <3>3, <3>4 DEF OneReset
    <2> QED
      BY <2>1, <2>2, <2>3 DEF ResetsAt
  <1> QED
    BY <1>12, <1>13, <1>14, <1>16, <1>17, <1>18, <1>20, <1>21 DEF Worker, WorkerStep

ResetInv == \A s \in Sessions : OneReset(s)

LEMMA ResetsHold == Spec => []ResetInv
  <1>0. toWorker = <<>> /\ fromWorker = <<>> /\ wk = FreshWorker => ResetInv
    BY FreshReset DEF ResetInv
  <1>1. Init => ResetInv
    BY <1>0 DEF Init, WorkerInit
  <1>2. ASSUME BooksInv, BoundaryInv, LifeInv, WireInv, CycleInv, BlockedInv', CancelInv', ResetInv, [Next]_vars
        PROVE  ResetInv'
    <2>1. InitInv /\ CallTypes /\ WireTypes
      BY <1>2 DEF LifeInv, InitInv, WireInv
    <2>2. ParentActs \/ (Worker /\ UNCHANGED <<schedVars, lifeVars>>)
      BY <1>2, <2>1, StepsAct
    <2>3. ASSUME Stopped PROVE ResetInv'
      <3>1. (toWorker = <<>> /\ fromWorker = <<>> /\ wk = FreshWorker)'
        BY <2>3 DEF Stopped, FreshWorker
      <3> QED
        BY <1>0, <3>1, PTL
    <2>4. CASE ~Stopped
      <3> SUFFICES ASSUME NEW s \in Sessions PROVE OneReset(s)'
        BY DEF ResetInv
      <3>1. OneReset(s)
        BY <1>2 DEF ResetInv
      <3> QED
        BY <1>2, <2>1, <2>2, <2>4, <3>1, SendingResets, HandlingResets, WorkingResets DEF ParentActs
    <2> QED
      BY <2>3, <2>4
  <1> QED
    BY <1>1, <1>2, BooksHold, BoundaryHolds, LifeHolds, WiresHold, BlockedHolds, CancelHolds, PTL DEF Spec

\* When a session reset reports that it is done, nothing of that session is left
\* with the worker or on its way there (SessionQuietAfterReset): the reset waits for
\* the prompts it finds, the channel brings it no prompt that was sent before it, and
\* none is dispatched until the report has been handled.
THEOREM ResetSessionsAreQuiet == Spec => []SessionQuietAfterReset
  <1>1. ResetInv => SessionQuietAfterReset
    BY DEF ResetInv, OneReset, Reported, ReportsAt, Sends, BeginsAt, SessionQuietAfterReset, Queued
  <1> QED
    BY <1>1, ResetsHold, PTL

--------------------------------------------------------------------------------
(* Where a running prompt is.                                               *)

LEMMA EndedStays ==
  ASSUME BooksInv, [SchedNext]_schedVars, NEW r \in Requests, status[r] \in Ended
  PROVE  status'[r] \in Ended
  <1>1. [Life!Next]_status
    BY LifeSteps
  <1>2. status \in [Requests -> Statuses]
    BY DEF BooksInv, SchedTypeOK
  <1> USE DEF Ended, Life!In, Life!Requests, Requests
  <1>3. CASE Life!Submit
    BY <1>2, <1>3 DEF Life!Submit
  <1>4. CASE Life!Start
    BY <1>2, <1>4 DEF Life!Start
  <1>5. CASE Life!Answer
    BY <1>2, <1>5 DEF Life!Answer
  <1>6. CASE Life!Abandon
    BY <1>2, <1>6 DEF Life!Abandon
  <1>7. CASE UNCHANGED status
    BY <1>7
  <1> QED
    BY <1>1, <1>3, <1>4, <1>5, <1>6, <1>7 DEF Life!Next

\* A request is told of its cancellation once it has been cancelled.
NotifiedInv == \A r \in notified : status[r] \in Ended

LEMMA NewlyNotified ==
  ASSUME BooksInv, [Next]_vars, NEW r \in notified', r \notin notified
  PROVE  status'[r] \in Ended
  <1>1. ASSUME NEW R, SetStatus(R, "canceled"), notified' = notified \union {q \in R : status'[q] = "running"}, R \subseteq Requests
        PROVE  FALSE
    BY <1>1 DEF SetStatus
  <1>2. queue \union pending \subseteq Requests
    BY DEF BooksInv, SchedTypeOK
  <1>3. CASE ApiCall
    <2>1. ASSUME NEW owner \in {"initModel", "explicitInitModel"}, InitModel(owner) PROVE UNCHANGED notified
      BY <2>1 DEF InitModel, StartCycle, StartAttempt, workerVars
    <2>2. ASSUME NEW s \in Sessions, Prompt(s) PROVE UNCHANGED notified
      BY <2>2 DEF Prompt, StartCycle, StartAttempt, workerVars
    <2>3. ASSUME NEW q \in Requests, CancelPrompt(q) PROVE status'[r] \in Ended
      <3>1. r = q /\ status[q] = "running"
        BY <2>3 DEF CancelPrompt
      <3>2. q \in pending /\ q \notin queue
        BY <3>1 DEF BooksInv, BooksAgree, With
      <3>3. SetStatus({q}, "canceled")
        BY <2>3, <3>2 DEF CancelPrompt, CancelQueued, CancelRunning, Leave
      <3> QED
        BY <3>1, <3>3 DEF SetStatus, Ended
    <2>4. ASSUME NEW s \in Sessions, ResetSession(s) PROVE FALSE
      <3>1. PICK R : R = (queue \union pending) \intersect OfSession(s)
        OBVIOUS
      <3> QED
        BY <1>1, <1>2, <2>4, <3>1 DEF ResetSession, CancelBySession, CancelAndSend
    <2>5. CASE ResetModel
      BY <1>1, <1>2, <2>5 DEF ResetModel, CancelAllWith, CancelAndSend
    <2>6. ASSUME NEW mode, Shutdown(mode) PROVE FALSE
      BY <1>1, <1>2, <2>6 DEF Shutdown, CancelAllWith, CancelAndSend, workerVars
    <2> QED
      BY <1>3, <2>1, <2>2, <2>3, <2>4, <2>5, <2>6 DEF ApiCall
  <1>4. CASE Failure
    BY <1>4 DEF Failure, PlanFails, ReadyTimesOut, AttemptFails, SessionResetTimesOut, ModelResetTimesOut,
                ShutdownTimesOut, workerVars
  <1>5. CASE Planned \/ Rested \/ AttemptStopped \/ ModelResetStopped
    BY <1>5 DEF Planned, Rested, AttemptStopped, ModelResetStopped, StartCycle, StartAttempt, workerVars
  <1>6. ASSUME NEW s \in Sessions, PromptResumes(s) PROVE UNCHANGED notified
    BY <1>6 DEF PromptResumes, workerVars
  <1>7. CASE ShutdownDrained \/ DrainTimesOut \/ ShutdownStopped
    BY <1>1, <1>2, <1>7 DEF ShutdownDrained, DrainTimesOut, ShutdownStopped, CancelAllWith, CancelAndSend, workerVars
  <1>8. CASE HandleWorkerMessage
    BY <1>8 DEF HandleWorkerMessage, HandleReady, HandleResetDone, HandleModelResetDone, HandleShutdownDone,
                HandleDone, HandleError, Handling
  <1>9. CASE Dispatch \/ DispatchEnds \/ UNCHANGED vars
    BY <1>9 DEF Dispatch, DispatchEnds, vars, workerVars
  <1>10. CASE Worker
    <2>1. ReceiveInit \/ ReceivePrompt \/ ReceiveCancel \/ ReceiveOperation \/ ModelLoads \/ ModelLoadFails
            => UNCHANGED notified
      BY DEF ReceiveInit, ReceivePrompt, ReceiveCancel, ReceiveOperation, Received, ModelLoads, ModelLoadFails
    <2>2. (\E q \in Requests : PromptEnds(q)) \/ OperationBegins \/ OperationEnds \/ OperationFails
            => UNCHANGED notified
      BY DEF PromptEnds, PromptCompletes, PromptAborts, PromptFails, EndPrompt, OperationBegins, OperationEnds,
             OperationFails
    <2> QED
      BY <1>10, <2>1, <2>2 DEF Worker, WorkerStep
  <1> QED
    BY <1>3, <1>4, <1>5, <1>6, <1>7, <1>8, <1>9, <1>10 DEF Next

LEMMA NotifiedHolds == Spec => []NotifiedInv
  <1>1. Init => NotifiedInv
    BY DEF Init, WorkerInit, NotifiedInv
  <1>2. BooksInv /\ LifeInv /\ NotifiedInv /\ [Next]_vars => NotifiedInv'
    <2> SUFFICES ASSUME BooksInv, LifeInv, NotifiedInv, [Next]_vars, NEW r \in notified' PROVE status'[r] \in Ended
      BY DEF NotifiedInv
    <2>1. CASE r \notin notified
      BY <2>1, NewlyNotified
    <2>2. CASE r \in notified
      <3>1. r \in Requests /\ status[r] \in Ended
        BY <2>2 DEF LifeInv, NotifiedInv
      <3>2. [SchedNext]_schedVars
        BY StepsAreSteps DEF SchedulerStep, BooksInv
      <3> QED
        BY <3>1, <3>2, EndedStays
    <2> QED
      BY <2>1, <2>2
  <1> QED
    BY <1>1, <1>2, BooksHold, LifeHolds, PTL DEF Spec

\* Messages and operations as callers ask for them: a shutdown only once the runtime
\* goes down, and the reset of a session that there is.
GoingDown == shutdown \notin {"off"} \union Draining
Wanted(op, down) ==
  /\ op.type = "shutdown" => down
  /\ op.type = "reset_session" => op.s \in Sessions

\* The worker is told to stop only requests that have ended, and it aborts no others,
\* except under a model reset, under which it goes on with none.
StopInv ==
  /\ \A i \in DOMAIN toWorker : Wanted(toWorker[i], GoingDown)
  /\ \A i \in DOMAIN wk.ops : Wanted(wk.ops[i], GoingDown)
  /\ \A i \in DOMAIN toWorker, r \in Requests : StopsAt(toWorker, i, r) => status[r] \in Ended
  /\ \A r \in Requests : wk.prompt[r] = "aborting" => status[r] \in Ended \/ wk.resetting
  /\ wk.resetting => \A r \in Requests : wk.prompt[r] # "running"

\* A running request has a message, a record that is not aborted or an answer.
Somewhere ==
  \A r \in pending :
    \/ \E i \in DOMAIN toWorker : BeginsAt(toWorker, i, r)
    \/ wk.prompt[r] = "running"
    \/ \E i \in DOMAIN fromWorker : AnswersAt(fromWorker, i, r)
    \/ wk.resetting

LEMMA FreshStops ==
  ASSUME toWorker = <<>>, fromWorker = <<>>, wk = FreshWorker, pending = {}
  PROVE  StopInv /\ Somewhere
  <1>1. wk.ops = <<>> /\ ~wk.resetting /\ \A r \in Requests : wk.prompt[r] = "none"
    BY FreshFields
  <1>2. DOMAIN toWorker = {} /\ DOMAIN fromWorker = {} /\ DOMAIN wk.ops = {}
    BY <1>1
  <1> QED
    BY <1>1, <1>2 DEF StopInv, Somewhere

\* The requests that the worker has a record of have been dispatched.
LEMMA KnownRequests ==
  ASSUME BooksInv, CancelInv, NEW r \in Requests, wk.prompt[r] # "none", r \notin pending
  PROVE  status[r] \in Ended
  <1>1. status[r] \notin {"new", "queued"} /\ status[r] \in Statuses
    BY DEF CancelInv, CancelFollows, BooksInv, SchedTypeOK
  <1>2. status[r] # "running"
    BY DEF BooksInv, BooksAgree, With
  <1> QED
    BY <1>1, <1>2 DEF Statuses, Ended

\* Requests that have ended stay so, and a runtime that goes down goes on with it.
LEMMA EndsAreFinal ==
  ASSUME BooksInv, [Next]_vars
  PROVE  /\ \A r \in Requests : status[r] \in Ended => status'[r] \in Ended
         /\ GoingDown => GoingDown'
         /\ \A op : Wanted(op, GoingDown) => Wanted(op, GoingDown')
  <1>1. [SchedNext]_schedVars
    BY StepsAreSteps DEF SchedulerStep, BooksInv
  <1>2. GoingDown => GoingDown'
    BY ShutdownGoesOn DEF GoingDown
  <1>3. \A r \in Requests : status[r] \in Ended => status'[r] \in Ended
    BY <1>1, EndedStays
  <1>4. \A op : Wanted(op, GoingDown) => Wanted(op, GoingDown')
    BY <1>2 DEF Wanted
  <1> QED
    BY <1>2, <1>3, <1>4

\* What the parent sends.
LEMMA SendingStops ==
  ASSUME BooksInv, WireTypes, [Next]_vars, NEW ms, Sent(ms), StopInv, Somewhere
  PROVE  StopInv' /\ Somewhere'
  <1>1. UNCHANGED <<fromWorker, wk>>
    BY DEF Sent
  <1>2. PICK k \in Nat : /\ DOMAIN toWorker = 1..k /\ \A j \in DOMAIN ms : j \in Nat \ {0}
                         /\ \A i \in DOMAIN toWorker : i \in DOMAIN toWorker' /\ toWorker'[i] = toWorker[i]
                         /\ \A j \in DOMAIN ms : k + j \in DOMAIN toWorker' /\ toWorker'[k + j] = ms[j]
                         /\ \A i \in DOMAIN toWorker' : i \in DOMAIN toWorker \/ \E j \in DOMAIN ms : i = k + j
    BY WhatIsAdded
  <1>3. /\ \A r \in Requests : status[r] \in Ended => status'[r] \in Ended
        /\ \A op : Wanted(op, GoingDown) => Wanted(op, GoingDown')
    BY EndsAreFinal
  <1>4. \A j \in DOMAIN ms : Wanted(ms[j], GoingDown') /\ \A r \in Requests : StopsAt(ms, j, r) => status'[r] \in Ended
    BY DEF Sent, Due, Wanted, GoingDown, StopsAt
  <1>5. ASSUME NEW i \in DOMAIN toWorker'
        PROVE  Wanted(toWorker'[i], GoingDown') /\ \A r \in Requests : StopsAt(toWorker', i, r) => status'[r] \in Ended
    <2>1. CASE i \in DOMAIN toWorker
      BY <1>2, <1>3, <2>1 DEF StopInv, StopsAt
    <2>2. ASSUME NEW j \in DOMAIN ms, i = k + j PROVE <1>5!2
      BY <1>2, <1>4, <2>2 DEF StopsAt
    <2> QED
      BY <1>2, <2>1, <2>2
  <1>6. \A i \in DOMAIN wk'.ops : Wanted(wk'.ops[i], GoingDown')
    BY <1>1, <1>3 DEF StopInv
  <1>7. /\ \A r \in Requests : wk'.prompt[r] = "aborting" => status'[r] \in Ended \/ wk'.resetting
        /\ wk'.resetting => \A r \in Requests : wk'.prompt[r] # "running"
    BY <1>1, <1>3 DEF StopInv
  <1>8. Somewhere'
    <2> SUFFICES ASSUME NEW r \in pending', ~\E i \in DOMAIN toWorker' : BeginsAt(toWorker', i, r)
                 PROVE  \/ wk.prompt[r] = "running" \/ wk.resetting
                        \/ \E i \in DOMAIN fromWorker : AnswersAt(fromWorker, i, r)
      BY <1>1 DEF Somewhere
    <2>1. ~\E j \in DOMAIN ms : BeginsAt(ms, j, r)
      BY <1>2 DEF BeginsAt
    <2>2. r \in pending
      BY <2>1 DEF Sent
    <2>3. ~\E i \in DOMAIN toWorker : BeginsAt(toWorker, i, r)
      BY <1>2 DEF BeginsAt
    <2> QED
      BY <2>2, <2>3 DEF Somewhere
  <1> QED
    BY <1>5, <1>6, <1>7, <1>8 DEF StopInv

\* What it handles.
LEMMA HandlingStops ==
  ASSUME BooksInv, WireTypes, [Next]_vars, Handled, StopInv, Somewhere
  PROVE  StopInv' /\ Somewhere'
  <1>1. UNCHANGED <<toWorker, wk>> /\ fromWorker # <<>> /\ fromWorker' = Tail(fromWorker) /\ pending' \subseteq pending
    BY DEF Handled
  <1>2. /\ \A r \in Requests : status[r] \in Ended => status'[r] \in Ended
        /\ \A op : Wanted(op, GoingDown) => Wanted(op, GoingDown')
    BY EndsAreFinal
  <1>3. StopInv'
    BY <1>1, <1>2 DEF StopInv
  <1>4. \A i \in DOMAIN fromWorker : i # 1 => i - 1 \in DOMAIN fromWorker' /\ fromWorker'[i - 1] = fromWorker[i]
    BY <1>1, RestOf DEF WireTypes
  <1>5. Somewhere'
    <2> SUFFICES ASSUME NEW r \in pending', NEW i \in DOMAIN fromWorker, AnswersAt(fromWorker, i, r)
                 PROVE  \E j \in DOMAIN fromWorker' : AnswersAt(fromWorker', j, r)
      BY <1>1 DEF Somewhere
    <2>1. r \in Requests
      BY <1>1 DEF BooksInv, SchedTypeOK
    <2>2. i # 1
      BY <2>1 DEF Handled
    <2> QED
      BY <1>4, <2>2 DEF AnswersAt
  <1> QED
    BY <1>3, <1>5

\* What an operation that begins finds: only the model is reset under prompts whose
\* requests have not ended.
LEMMA OperationsFind ==
  ASSUME BooksInv, BoundaryInv, WireTypes, CancelInv, BlockedInv, ResetInv, StopInv,
         wk.ops # <<>>, wk.ops[1].type # "reset_model", NEW r \in Affected(wk.ops[1])
  PROVE  status[r] \in Ended
  <1>1. 1 \in DOMAIN wk.ops /\ wk.ops[1] \in Operations
    <2>1. wk.ops \in Seq(Operations)
      BY DEF WireTypes, WorkerRecords
    <2> QED
      BY <2>1, RestOf
  <1>2. wk.ops[1].type \in {"reset_session", "shutdown"} /\ Wanted(wk.ops[1], GoingDown)
    BY <1>1, OperationFields DEF StopInv, OperationTypes
  <1>3. r \in Requests /\ wk.prompt[r] # "none"
    BY DEF Affected
  <1>4. CASE wk.ops[1].type = "shutdown"
    <2>1. pending = {}
      BY <1>2, <1>4 DEF Wanted, GoingDown, Boundary, BoundaryInv, IsIdle
    <2> QED
      BY <1>3, <2>1, KnownRequests
  <1>5. CASE wk.ops[1].type = "reset_session"
    <2>1. PICK s \in Sessions : s = wk.ops[1].s
      BY <1>2, <1>5 DEF Wanted
    <2>2. Begun(s)
      BY <1>1, <1>5, <2>1 DEF Begun, ResetsAt
    <2>3. sessionReset[s] # "none"
      BY <2>2 DEF ResetInv, OneReset
    <2>4. r \in OfSession(s)
      BY <1>3, <1>5, <2>1 DEF Affected, OfSession
    <2>5. r \notin pending
      BY <2>3, <2>4 DEF BlockedInv
    <2> QED
      BY <1>3, <2>5, KnownRequests
  <1> QED
    BY <1>2, <1>4, <1>5

LEMMA NothingRunsWhileLoading == LoadInv /\ CycleInv /\ wk.model = "loading" => pending = {}
  BY DEF LoadInv, CycleInv, Awaited

\* What the worker does.
LEMMA WorkingStops ==
  ASSUME BooksInv, BoundaryInv, WireInv, CycleInv, CancelInv, BlockedInv, ResetInv, NotifiedInv,
         Worker, UNCHANGED <<schedVars, lifeVars>>, StopInv, Somewhere
  PROVE  StopInv' /\ Somewhere'
  <1> DEFINE There(r) == \/ \E i \in DOMAIN toWorker : BeginsAt(toWorker, i, r)
                         \/ wk.prompt[r] = "running"
                         \/ \E i \in DOMAIN fromWorker : AnswersAt(fromWorker, i, r)
                         \/ wk.resetting
  <1> DEFINE Sane == /\ \A r \in Requests : wk.prompt[r] = "aborting" => status[r] \in Ended \/ wk.resetting
                     /\ wk.resetting => \A r \in Requests : wk.prompt[r] # "running"
  <1>1. WireTypes /\ LoadInv
    BY DEF WireInv
  <1>2. (toWorker' = toWorker \/ Hears) /\ (fromWorker' = fromWorker \/ \E m : Says(m))
    BY <1>1, WorkerWires
  <1>3. status' = status /\ pending' = pending /\ GoingDown' = GoingDown
    BY DEF schedVars, lifeVars, GoingDown
  <1>4. /\ \A r \in pending : r \in Requests /\ status[r] \notin Ended
        /\ wk.prompt \in [Requests -> {"none", "running", "aborting"}]
    BY <1>1 DEF BooksInv, SchedTypeOK, BooksAgree, With, Ended, WireTypes, WorkerRecords
  <1>5. \A i \in DOMAIN toWorker' :
          Wanted(toWorker'[i], GoingDown') /\ \A r \in Requests : StopsAt(toWorker', i, r) => status'[r] \in Ended
    <2> SUFFICES ASSUME NEW i \in DOMAIN toWorker'
                 PROVE  Wanted(toWorker'[i], GoingDown') /\ \A r \in Requests : StopsAt(toWorker', i, r) => status'[r] \in Ended
      OBVIOUS
    <2>1. PICK k \in DOMAIN toWorker : toWorker'[i] = toWorker[k]
      BY <1>1, <1>2, WhatIsLeft
    <2> QED
      BY <1>3, <2>1 DEF StopInv, StopsAt
  <1>6. ASSUME Hears
        PROVE  /\ 1 \in DOMAIN toWorker
               /\ \A i \in DOMAIN toWorker : i # 1 => i - 1 \in DOMAIN toWorker' /\ toWorker'[i - 1] = toWorker[i]
    BY <1>1, <1>6, WhatIsLeft
  <1>7. ASSUME NEW r, NEW i \in DOMAIN fromWorker, AnswersAt(fromWorker, i, r)
        PROVE  \E j \in DOMAIN fromWorker' : AnswersAt(fromWorker', j, r)
    <2>1. CASE fromWorker' = fromWorker
      BY <1>7, <2>1
    <2>2. ASSUME NEW m, Says(m) PROVE i \in DOMAIN fromWorker' /\ fromWorker'[i] = fromWorker[i]
      BY <1>1, <2>2, LastIsSaid
    <2> QED
      BY <1>2, <1>7, <2>1, <2>2 DEF AnswersAt
  <1>8. ASSUME NEW r, SaysError(r) \/ \E m : Says(m) /\ m.type = "done" /\ m.id = r
        PROVE  \E j \in DOMAIN fromWorker' : AnswersAt(fromWorker', j, r)
    <2>1. PICK m : Says(m) /\ m.type \in {"done", "error"} /\ m.id = r
      BY <1>8 DEF SaysError
    <2>2. PICK k \in DOMAIN fromWorker' : fromWorker'[k] = m
      BY <1>1, <2>1, LastIsSaid
    <2> QED
      BY <2>1, <2>2 DEF AnswersAt
  <1>9. \* no prompt is taken from the channel, or from the worker
        ASSUME NEW r, There(r), toWorker' = toWorker \/ ~BeginsAt(toWorker, 1, r),
               wk.prompt[r] = "running" => wk'.prompt[r] = "running", wk.resetting => wk'.resetting
        PROVE  There(r)'
    <2>1. ASSUME NEW i \in DOMAIN toWorker, BeginsAt(toWorker, i, r) PROVE \E j \in DOMAIN toWorker' : BeginsAt(toWorker', j, r)
      <3>1. CASE toWorker' = toWorker
        BY <2>1, <3>1
      <3>2. CASE Hears /\ toWorker' # toWorker
        <4>1. i # 1
          BY <1>9, <2>1, <3>2
        <4> QED
          BY <1>6, <2>1, <3>2, <4>1 DEF BeginsAt
      <3> QED
        BY <1>2, <3>1, <3>2
    <2>2. CASE \E i \in DOMAIN toWorker : BeginsAt(toWorker, i, r)
      BY <2>1, <2>2
    <2>3. CASE \E i \in DOMAIN fromWorker : AnswersAt(fromWorker, i, r)
      BY <1>7, <2>3
    <2> QED
      BY <1>9, <2>2, <2>3
  <1>10. \* a step that leaves the records of the prompts alone
         ASSUME PromptsKept, wk'.resetting = wk.resetting, toWorker' = toWorker \/ toWorker[1].type # "prompt"
         PROVE  Sane' /\ Somewhere'
    <2>1. Sane'
      BY <1>3, <1>10 DEF PromptsKept, StopInv
    <2>2. \A r \in pending : There(r)'
      BY <1>9, <1>10 DEF PromptsKept, Somewhere, BeginsAt
    <2> QED
      BY <1>3, <2>1, <2>2 DEF Somewhere
  <1>11. OpsKept => \A i \in DOMAIN wk'.ops : Wanted(wk'.ops[i], GoingDown')
    BY <1>3 DEF OpsKept, StopInv
  <1>12. ASSUME NextOp PROVE \A i \in DOMAIN wk'.ops : Wanted(wk'.ops[i], GoingDown')
    <2>1. wk.ops \in Seq(Operations) /\ wk.ops # <<>> /\ wk'.ops = Tail(wk.ops)
      BY <1>1, <1>12 DEF NextOp, WireTypes, WorkerRecords
    <2>2. \A i \in DOMAIN wk'.ops : i + 1 \in DOMAIN wk.ops /\ wk'.ops[i] = wk.ops[i + 1]
      BY <2>1, RestOf
    <2> QED
      BY <1>3, <2>2 DEF StopInv
  <1>13. ASSUME Sane', Somewhere', \A i \in DOMAIN wk'.ops : Wanted(wk'.ops[i], GoingDown')
         PROVE  StopInv' /\ Somewhere'
    BY <1>5, <1>13 DEF StopInv
  <1>14. CASE ReceiveInit
    <2>1. /\ PromptsKept /\ OpsKept /\ wk'.resetting = wk.resetting /\ toWorker[1].type # "prompt"
      BY <1>1, <1>14, AtInit DEF ModelKept
    <2> QED
      BY <1>10, <1>11, <1>13, <2>1
  <1>15. CASE ModelLoads \/ ModelLoadFails
    <2>1. wk.model = "loading" /\ PromptsKept /\ OpsKept
      BY <1>1, <1>15, AtLoad
    <2>2. pending = {}
      BY <1>1, <2>1, NothingRunsWhileLoading
    <2>3. \A r \in Requests : wk.prompt[r] # "none" => status[r] \in Ended
      BY <2>2, KnownRequests
    <2>4. wk'.resetting => wk.resetting
      BY <1>1, <1>15 DEF ModelLoads, ModelLoadFails, WireTypes, WorkerRecords
    <2>5. Sane'
      BY <1>3, <2>1, <2>3, <2>4 DEF PromptsKept, StopInv
    <2> QED
      BY <1>3, <1>11, <1>13, <2>1, <2>2, <2>5 DEF Somewhere
  <1>16. CASE ReceivePrompt
    <2>1. PICK q \in Requests : q = toWorker[1].id
      BY <1>1, <1>16, AtPrompt
    <2>2. /\ Hears /\ OpsKept /\ wk'.resetting = wk.resetting
          /\ \/ ~wk.resetting /\ wk'.prompt = [wk.prompt EXCEPT ![q] = "running"] /\ fromWorker' = fromWorker
             \/ PromptsKept /\ SaysError(q)
      BY <1>1, <1>16, <2>1, AtPrompt DEF ModelKept
    <2>3. \A r \in Requests : r # q => wk'.prompt[r] = wk.prompt[r]
      BY <1>4, <2>2 DEF PromptsKept
    <2>4. (wk'.prompt[q] = "running" /\ ~wk.resetting) \/ (wk'.prompt[q] = wk.prompt[q] /\ SaysError(q))
      BY <1>4, <2>2 DEF PromptsKept
    <2>5. Sane'
      BY <1>3, <2>2, <2>3, <2>4 DEF StopInv
    <2>6. There(q)'
      BY <1>8, <2>4
    <2>7. \A r \in pending : r # q => There(r)'
      BY <1>4, <1>9, <2>1, <2>2, <2>3 DEF Somewhere, BeginsAt
    <2>8. Somewhere'
      BY <1>3, <2>6, <2>7 DEF Somewhere
    <2> QED
      BY <1>11, <1>13, <2>2, <2>5, <2>8
  <1>17. CASE ReceiveCancel
    <2>1. /\ Hears /\ toWorker[1].type = "cancel" /\ OpsKept /\ wk'.resetting = wk.resetting
          /\ wk'.prompt = Aborting(toWorker[1].ids)
      BY <1>1, <1>17, AtCancel DEF ModelKept
    <2>2. \A r \in Requests : r \in toWorker[1].ids => status[r] \in Ended
      BY <1>6, <2>1 DEF StopInv, StopsAt
    <2>3. \A r \in Requests : wk'.prompt[r] = IF r \in toWorker[1].ids /\ wk.prompt[r] # "none" THEN "aborting" ELSE wk.prompt[r]
      BY <2>1 DEF Aborting
    <2>4. Sane'
      BY <1>3, <2>1, <2>2, <2>3 DEF StopInv
    <2>5. \A r \in pending : There(r)'
      BY <1>4, <1>9, <2>1, <2>2, <2>3 DEF Somewhere, BeginsAt
    <2>6. Somewhere'
      BY <1>3, <2>5 DEF Somewhere
    <2> QED
      BY <1>11, <1>13, <2>1, <2>4, <2>6
  <1>18. CASE ReceiveOperation
    <2>1. /\ Hears /\ toWorker[1] \in Operations /\ PromptsKept /\ wk'.resetting = wk.resetting
          /\ wk'.ops = Append(wk.ops, toWorker[1])
      BY <1>1, <1>18, AtOperation DEF ModelKept
    <2>2. toWorker[1].type # "prompt" /\ Wanted(toWorker[1], GoingDown)
      BY <1>6, <2>1, OperationFields DEF StopInv, OperationTypes
    <2>3. \A i \in DOMAIN wk'.ops : wk'.ops[i] = toWorker[1] \/ (i \in DOMAIN wk.ops /\ wk'.ops[i] = wk.ops[i])
      <3>1. wk.ops \in Seq(Operations)
        BY <1>1 DEF WireTypes, WorkerRecords
      <3> QED
        BY <2>1, <3>1, OneMoreOf
    <2>4. \A i \in DOMAIN wk'.ops : Wanted(wk'.ops[i], GoingDown')
      BY <1>3, <2>2, <2>3 DEF StopInv
    <2> QED
      BY <1>10, <1>13, <2>1, <2>2, <2>4
  <1>19. ASSUME NEW q \in Requests, PromptEnds(q) PROVE StopInv' /\ Somewhere'
    <2>1. /\ toWorker' = toWorker /\ wk'.prompt = [wk.prompt EXCEPT ![q] = "none"] /\ OpsKept /\ wk'.resetting = wk.resetting
          /\ \/ \E m : Says(m) /\ m.type = "done" /\ m.id = q
             \/ wk.prompt[q] = "aborting" \/ q \in notified
             \/ SaysError(q)
      BY <1>1, <1>19, AtEnd DEF ModelKept
    <2>2. wk'.prompt[q] = "none" /\ \A r \in Requests : r # q => wk'.prompt[r] = wk.prompt[r]
      BY <1>4, <2>1
    <2>3. Sane'
      BY <1>3, <2>1, <2>2 DEF StopInv
    <2>4. \A r \in pending : r # q => There(r)'
      BY <1>4, <1>9, <2>1, <2>2 DEF Somewhere
    <2>5. q \in pending => There(q)'
      <3>1. CASE wk.prompt[q] = "aborting"
        BY <1>9, <2>1, <3>1 DEF Somewhere
      <3>2. CASE q \in notified
        BY <1>4, <3>2 DEF NotifiedInv
      <3> QED
        BY <1>8, <2>1, <3>1, <3>2
    <2>6. Somewhere'
      BY <1>3, <2>4, <2>5 DEF Somewhere
    <2> QED
      BY <1>11, <1>13, <2>1, <2>3, <2>6
  <1>20. CASE OperationBegins
    <2>1. /\ toWorker' = toWorker /\ wk.ops # <<>>
          /\ \/ NextOp /\ ModelKept /\ PromptsKept
             \/ /\ wk'.ops = wk.ops /\ wk'.prompt = Aborting(Affected(wk.ops[1]))
                /\ wk'.resetting = (wk.resetting \/ wk.ops[1].type = "reset_model")
      BY <1>1, <1>20, AtBegin
    <2>2. CASE NextOp /\ ModelKept /\ PromptsKept
      BY <1>10, <1>12, <1>13, <2>1, <2>2 DEF ModelKept
    <2>3. CASE /\ wk'.ops = wk.ops /\ wk'.prompt = Aborting(Affected(wk.ops[1]))
               /\ wk'.resetting = (wk.resetting \/ wk.ops[1].type = "reset_model")
      <3>1. \A r \in Requests :
              /\ r \in Affected(wk.ops[1]) /\ wk.prompt[r] # "none" => wk'.prompt[r] = "aborting"
              /\ r \notin Affected(wk.ops[1]) => wk'.prompt[r] = wk.prompt[r]
              /\ wk.prompt[r] = "none" => wk'.prompt[r] = "none"
        BY <2>3 DEF Aborting
      <3>2. \A i \in DOMAIN wk'.ops : Wanted(wk'.ops[i], GoingDown')
        BY <1>3, <2>3 DEF StopInv
      <3>3. CASE wk.ops[1].type = "reset_model"
        <4>1. \A r \in Requests : wk'.prompt[r] # "running"
          BY <2>3, <3>1, <3>3 DEF Affected
        <4>2. wk'.resetting
          BY <2>3, <3>3
        <4> QED
          BY <1>13, <3>2, <4>1, <4>2 DEF Somewhere
      <3>4. CASE wk.ops[1].type # "reset_model"
        <4>1. \A r \in Affected(wk.ops[1]) : status[r] \in Ended
          BY <1>1, <2>1, <3>4, OperationsFind
        <4>2. wk'.resetting = wk.resetting
          BY <1>1, <2>3, <3>4 DEF WireTypes, WorkerRecords
        <4>3. Sane'
          BY <1>3, <3>1, <4>1, <4>2 DEF StopInv, Affected
        <4>4. \A r \in pending : There(r)'
          BY <1>4, <1>9, <2>1, <3>1, <4>1, <4>2 DEF Somewhere
        <4>5. Somewhere'
          BY <1>3, <4>4 DEF Somewhere
        <4> QED
          BY <1>13, <3>2, <4>3, <4>5
      <3> QED
        BY <3>3, <3>4
    <2> QED
      BY <2>1, <2>2, <2>3
  <1>21. CASE OperationEnds \/ OperationFails
    <2>1. /\ toWorker' = toWorker /\ NextOp /\ PromptsKept /\ wk'.resetting = wk.resetting
      BY <1>1, <1>21, AtFinish
    <2> QED
      BY <1>10, <1>12, <1>13, <2>1
  <1> QED
    BY <1>14, <1>15, <1>16, <1>17, <1>18, <1>19, <1>20, <1>21 DEF Worker, WorkerStep

LEMMA StopsHold == Spec => [](StopInv /\ Somewhere)
  <1>0. toWorker = <<>> /\ fromWorker = <<>> /\ wk = FreshWorker /\ pending = {} => StopInv /\ Somewhere
    BY FreshStops
  <1>1. Init => StopInv /\ Somewhere
    BY <1>0 DEF Init, WorkerInit, SchedInit
  <1>2. ASSUME BooksInv, BoundaryInv, LifeInv, WireInv, CycleInv, CancelInv, BlockedInv, ResetInv, NotifiedInv,
               StopInv, Somewhere, [Next]_vars
        PROVE  StopInv' /\ Somewhere'
    <2>1. InitInv /\ CallTypes /\ WireTypes
      BY <1>2 DEF LifeInv, InitInv, WireInv
    <2>2. ParentActs \/ (Worker /\ UNCHANGED <<schedVars, lifeVars>>)
      BY <1>2, <2>1, StepsAct
    <2>3. ASSUME Stopped PROVE StopInv' /\ Somewhere'
      <3>1. (toWorker = <<>> /\ fromWorker = <<>> /\ wk = FreshWorker /\ pending = {})'
        BY <2>3 DEF Stopped, FreshWorker
      <3> QED
        BY <1>0, <3>1, PTL
    <2> QED
      BY <1>2, <2>1, <2>2, <2>3, SendingStops, HandlingStops, WorkingStops DEF ParentActs
  <1> QED
    BY <1>1, <1>2, BooksHold, BoundaryHolds, LifeHolds, WiresHold, CancelHolds, BlockedHolds, ResetsHold, NotifiedHolds,
       PTL DEF Spec

\* A request the parent counts as running is on its way to the worker, or runs there
\* unaborted, or its answer is on its way back (RunningIsSomewhere): the operations
\* that abort prompts find none whose request has not ended, except for a model reset
\* whose caller was told too early that it failed.
THEOREM RunningPromptsAreSomewhere == Spec => []RunningIsSomewhere
  <1>1. ASSUME BooksInv, NotifiedInv, Somewhere PROVE RunningIsSomewhere
    <2> SUFFICES ASSUME NEW r \in pending, wk.prompt[r] = "running" PROVE ~Obsolete(r)
      BY <1>1 DEF Somewhere, RunningIsSomewhere, Queued, BeginsAt, AnswersAt
    <2>1. status[r] \notin Ended
      BY <1>1 DEF BooksInv, BooksAgree, With, Ended
    <2> QED
      BY <1>1, <2>1 DEF NotifiedInv, Obsolete
  <1> QED
    BY <1>1, BooksHold, NotifiedHolds, StopsHold, PTL

--------------------------------------------------------------------------------
(* The order of the answers.                                                *)

DoneAt(ms, i, r) == ms[i].type = "done" /\ ms[i].id = r

\* The prompts are sent in the order of their ids, and those of them that run came
\* before all that are still to be received; an answer of success has the answers of
\* all before it that its session still waits for in front of it; and no request is
\* answered before it has been dispatched.
OrderInv ==
  /\ \A i, j \in DOMAIN toWorker : i < j =>
       \A q \in pending, r \in Requests : BeginsAt(toWorker, i, q) /\ BeginsAt(toWorker, j, r) => q < r
  /\ \A r \in pending : wk.prompt[r] # "none" =>
       \A i \in DOMAIN toWorker, q \in Requests : BeginsAt(toWorker, i, q) => r < q
  /\ \A i \in DOMAIN fromWorker, r \in pending : DoneAt(fromWorker, i, r) =>
       \A q \in pending : session[q] = session[r] /\ q < r => \E j \in DOMAIN fromWorker : j < i /\ AnswersAt(fromWorker, j, q)
  /\ \A i \in DOMAIN fromWorker, r \in Requests : AnswersAt(fromWorker, i, r) => status[r] \notin {"new", "queued"}

LEMMA FreshOrder == toWorker = <<>> /\ fromWorker = <<>> => OrderInv
  BY DEF OrderInv

\* A request keeps its session.
LEMMA SessionsStay ==
  ASSUME BooksInv, [SchedNext]_schedVars, NEW r \in Requests, status[r] # "new"
  PROVE  session'[r] = session[r]
  <1>1. session' = session \/ \E q \in Requests, s \in Sessions : Enqueue(q, s)
    BY DEF SchedNext, Call, DrainStep, SetReady, Complete, Fail, CancelQueued, CancelRunning, Leave,
       CancelAll, CancelAllWith, CancelBySession, WaitForIdle, DrainShift, DrainEnd, schedVars
  <1>2. ASSUME NEW q \in Requests, NEW s \in Sessions, Enqueue(q, s) PROVE session'[r] = session[r]
    <2>1. q # r /\ session' = [session EXCEPT ![q] = s]
      BY <1>2 DEF Enqueue
    <2> QED
      BY <2>1 DEF BooksInv, SchedTypeOK
  <1> QED
    BY <1>1, <1>2

\* What runs was dispatched before everything that waits.
LEMMA RunningFirst ==
  ASSUME BooksInv, FifoInv, NEW p \in pending, NEW q \in queue
  PROVE  p < q
  <1>1. p \in Requests /\ q \in Requests /\ status[p] = "running" /\ status[q] = "queued"
    BY DEF BooksInv, SchedTypeOK, BooksAgree, With
  <1>2. p # q /\ ~(q < p)
    BY <1>1 DEF FifoInv
  <1>3. p \in Nat /\ q \in Nat
    BY <1>1 DEF Requests
  <1> QED
    BY <1>2, <1>3

\* What the parent sends.
LEMMA SendingOrder ==
  ASSUME BooksInv, FifoInv, WireTypes, CancelInv, [Next]_vars, NEW ms, Sent(ms), OrderInv
  PROVE  OrderInv'
  <1>1. UNCHANGED <<fromWorker, wk>>
    BY DEF Sent
  <1>2. PICK k \in Nat : /\ DOMAIN toWorker = 1..k /\ \A j \in DOMAIN ms : j \in Nat \ {0}
                         /\ \A i \in DOMAIN toWorker : i \in DOMAIN toWorker' /\ toWorker'[i] = toWorker[i]
                         /\ \A j \in DOMAIN ms : k + j \in DOMAIN toWorker' /\ toWorker'[k + j] = ms[j]
                         /\ \A i \in DOMAIN toWorker' : i \in DOMAIN toWorker \/ \E j \in DOMAIN ms : i = k + j
    BY WhatIsAdded
  <1>3. [SchedNext]_schedVars
    BY StepsAreSteps DEF SchedulerStep, BooksInv
  <1>4. \A j \in DOMAIN ms, r \in Requests : BeginsAt(ms, j, r) => r \in queue
    BY DEF Sent, Due, BeginsAt
  <1>5. \A r \in queue : /\ r \in Requests /\ status[r] = "queued" /\ wk.prompt[r] = "none"
                         /\ \A i \in DOMAIN toWorker : ~BeginsAt(toWorker, i, r)
    BY DEF BooksInv, SchedTypeOK, BooksAgree, With, CancelInv, CancelFollows
  <1>6. /\ \A r \in pending' : r \in pending \/ r \in queue
        /\ \A r \in pending : r \in Requests /\ status[r] = "running"
    <2>1. \A r \in pending : r \in Requests /\ status[r] = "running"
      BY DEF BooksInv, SchedTypeOK, BooksAgree, With
    <2>2. \A r \in pending' : r \in pending \/ \E j \in DOMAIN ms : BeginsAt(ms, j, r)
      BY DEF Sent
    <2>3. \A j \in DOMAIN ms : ms[j].type = "prompt" => ms[j].id \in queue
      BY DEF Sent, Due
    <2> QED
      BY <2>1, <2>2, <2>3 DEF BeginsAt
  <1>7. ASSUME NEW i \in DOMAIN toWorker', NEW r \in Requests, BeginsAt(toWorker', i, r)
        PROVE  \/ i \in DOMAIN toWorker /\ BeginsAt(toWorker, i, r)
               \/ r \in queue /\ \E j \in DOMAIN ms : i = k + j /\ BeginsAt(ms, j, r)
    BY <1>2, <1>4, <1>7 DEF BeginsAt
  <1>8. ASSUME NEW i \in DOMAIN toWorker', NEW j \in DOMAIN toWorker', i < j, NEW q \in pending', NEW r \in Requests,
               BeginsAt(toWorker', i, q), BeginsAt(toWorker', j, r)
        PROVE  q < r
    <2>1. q \in Requests
      BY <1>5, <1>6
    <2>2. CASE i \in DOMAIN toWorker /\ BeginsAt(toWorker, i, q)
      <3>1. q \in pending
        BY <1>5, <1>6, <2>2
      <3>2. CASE j \in DOMAIN toWorker /\ BeginsAt(toWorker, j, r)
        BY <1>8, <2>2, <3>1, <3>2 DEF OrderInv
      <3> QED
        BY <1>7, <1>8, <3>1, <3>2, RunningFirst
    <2>3. ASSUME NEW l \in DOMAIN ms, i = k + l, BeginsAt(ms, l, q) PROVE FALSE
      <3>1. j \notin DOMAIN toWorker
        BY <1>2, <1>8, <2>3
      <3>2. PICK n \in DOMAIN ms : j = k + n /\ BeginsAt(ms, n, r)
        BY <1>7, <1>8, <3>1
      <3>3. l = n
        BY <2>3, <3>2 DEF Sent, BeginsAt
      <3> QED
        BY <1>2, <1>8, <2>3, <3>2, <3>3
    <2> QED
      BY <1>7, <1>8, <2>1, <2>2, <2>3
  <1>9. ASSUME NEW r \in pending', wk.prompt[r] # "none", NEW i \in DOMAIN toWorker', NEW q \in Requests,
               BeginsAt(toWorker', i, q)
        PROVE  r < q
    <2>1. r \in pending
      BY <1>5, <1>6, <1>9
    <2>2. CASE i \in DOMAIN toWorker /\ BeginsAt(toWorker, i, q)
      BY <1>9, <2>1, <2>2 DEF OrderInv
    <2> QED
      BY <1>7, <1>9, <2>1, <2>2, RunningFirst
  <1>10. ASSUME NEW i \in DOMAIN fromWorker, NEW r \in pending', DoneAt(fromWorker, i, r), NEW q \in pending',
                session'[q] = session'[r], q < r
         PROVE  \E j \in DOMAIN fromWorker : j < i /\ AnswersAt(fromWorker, j, q)
    <2>1. r \in Requests /\ q \in Requests
      BY <1>5, <1>6
    <2>2. r \in pending
      BY <1>5, <1>6, <1>10, <2>1 DEF OrderInv, DoneAt, AnswersAt
    <2>3. q \notin queue
      <3>1. q \in queue => r < q
        BY <2>2, RunningFirst
      <3> QED
        BY <1>10, <2>1, <3>1 DEF Requests
    <2>4. q \in pending
      BY <1>6, <2>3
    <2>5. session[q] = session[r]
      BY <1>3, <1>6, <1>10, <2>2, <2>4, SessionsStay
    <2> QED
      BY <1>10, <2>2, <2>4, <2>5 DEF OrderInv
  <1>11. ASSUME NEW i \in DOMAIN fromWorker, NEW r \in Requests, AnswersAt(fromWorker, i, r)
         PROVE  status'[r] \notin {"new", "queued"}
    <2>1. StatusGoesOn(r)
      BY <1>3, StatusSteps
    <2> QED
      BY <1>11, <2>1 DEF OrderInv, StatusGoesOn
  <1> QED
    BY <1>1, <1>8, <1>9, <1>10, <1>11 DEF OrderInv

\* What it handles.
LEMMA HandlingOrder ==
  ASSUME BooksInv, WireTypes, [Next]_vars, Handled, OrderInv
  PROVE  OrderInv'
  <1>1. UNCHANGED <<toWorker, wk>> /\ fromWorker # <<>> /\ fromWorker' = Tail(fromWorker) /\ pending' \subseteq pending
    BY DEF Handled
  <1>2. [SchedNext]_schedVars
    BY StepsAreSteps DEF SchedulerStep, BooksInv
  <1>3. /\ \A i \in DOMAIN fromWorker : i \in Nat \ {0}
        /\ \A i \in DOMAIN fromWorker' : i \in Nat \ {0} /\ i + 1 \in DOMAIN fromWorker /\ fromWorker'[i] = fromWorker[i + 1]
        /\ \A i \in DOMAIN fromWorker : i # 1 => i - 1 \in DOMAIN fromWorker' /\ fromWorker'[i - 1] = fromWorker[i]
    BY <1>1, RestOf DEF WireTypes
  <1>4. \A r \in pending : r \in Requests /\ status[r] # "new"
    BY DEF BooksInv, SchedTypeOK, BooksAgree, With
  <1>5. ASSUME NEW i \in DOMAIN fromWorker', NEW r \in pending', DoneAt(fromWorker', i, r), NEW q \in pending',
               session'[q] = session'[r], q < r
        PROVE  \E j \in DOMAIN fromWorker' : j < i /\ AnswersAt(fromWorker', j, q)
    <2>1. r \in pending /\ q \in pending /\ q \in Requests
      BY <1>1, <1>4
    <2>2. session[q] = session[r]
      BY <1>2, <1>4, <1>5, <2>1, SessionsStay
    <2>3. i \in Nat /\ i + 1 \in DOMAIN fromWorker /\ DoneAt(fromWorker, i + 1, r)
      BY <1>3, <1>5 DEF DoneAt
    <2>4. PICK j \in DOMAIN fromWorker : j < i + 1 /\ AnswersAt(fromWorker, j, q)
      BY <1>5, <2>1, <2>2, <2>3 DEF OrderInv
    <2>5. j # 1
      BY <1>5, <2>1, <2>4 DEF Handled
    <2>6. j - 1 \in DOMAIN fromWorker' /\ fromWorker'[j - 1] = fromWorker[j] /\ j \in Nat
      BY <1>3, <2>5
    <2>7. j - 1 < i
      BY <2>3, <2>4, <2>6
    <2> QED
      BY <2>4, <2>6, <2>7 DEF AnswersAt
  <1>6. ASSUME NEW i \in DOMAIN fromWorker', NEW r \in Requests, AnswersAt(fromWorker', i, r)
        PROVE  status'[r] \notin {"new", "queued"}
    <2>1. i + 1 \in DOMAIN fromWorker /\ AnswersAt(fromWorker, i + 1, r)
      BY <1>3, <1>6 DEF AnswersAt
    <2>2. StatusGoesOn(r)
      BY <1>2, StatusSteps
    <2> QED
      BY <2>1, <2>2 DEF OrderInv, StatusGoesOn
  <1>7. /\ \A i, j \in DOMAIN toWorker' : i < j =>
             \A q \in pending', r \in Requests : BeginsAt(toWorker', i, q) /\ BeginsAt(toWorker', j, r) => q < r
        /\ \A r \in pending' : wk'.prompt[r] # "none" =>
             \A i \in DOMAIN toWorker', q \in Requests : BeginsAt(toWorker', i, q) => r < q
    BY <1>1 DEF OrderInv
  <1> QED
    BY <1>5, <1>6, <1>7 DEF OrderInv

\* What the worker does.
LEMMA WorkingOrder ==
  ASSUME BooksInv, WireTypes, CancelInv, StopInv, Somewhere, Worker, UNCHANGED <<schedVars, lifeVars>>, OrderInv
  PROVE  OrderInv'
  <1>1. status' = status /\ pending' = pending /\ session' = session
    BY DEF schedVars
  <1>2. (toWorker' = toWorker \/ Hears) /\ (fromWorker' = fromWorker \/ \E m : Says(m))
    BY WorkerWires
  <1>3. /\ \A r \in pending : r \in Requests
        /\ wk.prompt \in [Requests -> {"none", "running", "aborting"}]
    BY DEF BooksInv, SchedTypeOK, WireTypes, WorkerRecords
  <1>4. ASSUME Hears
        PROVE  /\ 1 \in DOMAIN toWorker /\ \A i \in DOMAIN toWorker : i \in Nat \ {0}
               /\ \A i \in DOMAIN toWorker' : i \in Nat \ {0} /\ i + 1 \in DOMAIN toWorker /\ toWorker'[i] = toWorker[i + 1]
    BY <1>4, WhatIsLeft
  <1>5. \* the messages are still in order
        ASSUME NEW i \in DOMAIN toWorker', NEW j \in DOMAIN toWorker', i < j, NEW q \in pending, NEW r \in Requests,
               BeginsAt(toWorker', i, q), BeginsAt(toWorker', j, r)
        PROVE  q < r
    <2>1. CASE toWorker' = toWorker
      BY <1>5, <2>1 DEF OrderInv
    <2>2. CASE Hears
      <3>1. i + 1 \in DOMAIN toWorker /\ j + 1 \in DOMAIN toWorker /\ i + 1 < j + 1
        BY <1>4, <1>5, <2>2
      <3>2. BeginsAt(toWorker, i + 1, q) /\ BeginsAt(toWorker, j + 1, r)
        BY <1>4, <1>5, <2>2 DEF BeginsAt
      <3> QED
        BY <3>1, <3>2 DEF OrderInv
    <2> QED
      BY <1>2, <2>1, <2>2
  <1>6. \* and come after what ran already, or is taken from the channel
        ASSUME NEW r \in pending, NEW i \in DOMAIN toWorker', NEW q \in Requests, BeginsAt(toWorker', i, q),
               wk.prompt[r] # "none" \/ (Hears /\ BeginsAt(toWorker, 1, r))
        PROVE  r < q
    <2>1. CASE wk.prompt[r] # "none"
      <3>1. PICK k \in DOMAIN toWorker : toWorker'[i] = toWorker[k]
        BY <1>2, WhatIsLeft
      <3> QED
        BY <1>6, <2>1, <3>1 DEF OrderInv, BeginsAt
    <2>2. CASE Hears /\ BeginsAt(toWorker, 1, r)
      <3>1. i + 1 \in DOMAIN toWorker /\ 1 < i + 1 /\ 1 \in DOMAIN toWorker
        BY <1>4, <2>2
      <3>2. BeginsAt(toWorker, i + 1, q)
        BY <1>4, <1>6, <2>2 DEF BeginsAt
      <3> QED
        BY <2>2, <3>1, <3>2 DEF OrderInv
    <2> QED
      BY <1>6, <2>1, <2>2
  <1>7. \* an answer that is not one of success
        ASSUME fromWorker' = fromWorker \/ \E m : Says(m) /\ m.type # "done"
        PROVE  \A i \in DOMAIN fromWorker', r \in pending : DoneAt(fromWorker', i, r) =>
                 \A q \in pending : session[q] = session[r] /\ q < r =>
                   \E j \in DOMAIN fromWorker' : j < i /\ AnswersAt(fromWorker', j, q)
    <2>1. CASE fromWorker' = fromWorker
      BY <2>1 DEF OrderInv
    <2>2. ASSUME NEW m, Says(m), m.type # "done" PROVE <1>7!2
      <3>1. PICK k \in DOMAIN fromWorker' :
              fromWorker'[k] = m /\ \A i \in DOMAIN fromWorker' : i = k \/ i \in DOMAIN fromWorker
        BY <2>2, LastIsSaid
      <3>2. \A i \in DOMAIN fromWorker : i \in DOMAIN fromWorker' /\ fromWorker'[i] = fromWorker[i]
        BY <2>2, LastIsSaid
      <3> SUFFICES ASSUME NEW i \in DOMAIN fromWorker', NEW r \in pending, DoneAt(fromWorker', i, r),
                          NEW q \in pending, session[q] = session[r], q < r
                   PROVE  \E j \in DOMAIN fromWorker' : j < i /\ AnswersAt(fromWorker', j, q)
        OBVIOUS
      <3>3. i \in DOMAIN fromWorker /\ DoneAt(fromWorker, i, r)
        BY <2>2, <3>1, <3>2 DEF DoneAt
      <3>4. PICK j \in DOMAIN fromWorker : j < i /\ AnswersAt(fromWorker, j, q)
        BY <3>3 DEF OrderInv
      <3> QED
        BY <3>2, <3>4 DEF AnswersAt
    <2> QED
      BY <1>7, <2>1, <2>2
  <1>8. \* an answer about nobody, or about a request that has been dispatched
        ASSUME \/ fromWorker' = fromWorker
               \/ \E m : Says(m) /\ \A r \in Requests : m.type \in {"done", "error"} /\ m.id = r => status[r] \notin {"new", "queued"}
        PROVE  \A i \in DOMAIN fromWorker', r \in Requests : AnswersAt(fromWorker', i, r) => status[r] \notin {"new", "queued"}
    <2>1. CASE fromWorker' = fromWorker
      BY <2>1 DEF OrderInv
    <2>2. ASSUME NEW m, Says(m), \A r \in Requests : m.type \in {"done", "error"} /\ m.id = r => status[r] \notin {"new", "queued"}
          PROVE  <1>8!2
      <3>1. PICK k \in DOMAIN fromWorker' :
              fromWorker'[k] = m /\ \A i \in DOMAIN fromWorker' : i = k \/ i \in DOMAIN fromWorker
        BY <2>2, LastIsSaid
      <3>2. \A i \in DOMAIN fromWorker : fromWorker'[i] = fromWorker[i]
        BY <2>2, LastIsSaid
      <3> QED
        BY <2>2, <3>1, <3>2 DEF OrderInv, AnswersAt
    <2> QED
      BY <1>8, <2>1, <2>2
  <1>9. \A r \in Requests : SaysError(r) => \E m : Says(m) /\ m.type = "error" /\ m.id = r
    BY DEF SaysError
  <1>10. SaysError(0) => \E m : Says(m) /\ m.type = "error" /\ m.id \notin Requests
    BY DEF SaysError, Requests
  <1>11. \* a step that adds no record and answers no request
         ASSUME fromWorker' = fromWorker \/ \E m : Says(m) /\ m.type # "done" /\ (m.type # "error" \/ m.id \notin Requests),
                \A r \in Requests : wk'.prompt[r] # "none" => wk.prompt[r] # "none"
         PROVE  OrderInv'
    BY <1>1, <1>3, <1>5, <1>6, <1>7, <1>8, <1>11 DEF OrderInv
  <1>12. CASE ReceiveInit
    <2>1. PromptsKept /\ (fromWorker' = fromWorker \/ SaysError(0))
      BY <1>12, AtInit
    <2> QED
      BY <1>10, <1>11, <2>1 DEF PromptsKept
  <1>13. CASE ModelLoads \/ ModelLoadFails
    <2>1. PromptsKept /\ (SaysError(0) \/ \E m : Says(m) /\ m.type = "ready")
      BY <1>13, AtLoad
    <2> QED
      BY <1>10, <1>11, <2>1 DEF PromptsKept
  <1>14. CASE ReceivePrompt
    <2>1. PICK p \in Requests : p = toWorker[1].id
      BY <1>14, AtPrompt
    <2>2. /\ Hears /\ BeginsAt(toWorker, 1, p)
          /\ \/ wk'.prompt = [wk.prompt EXCEPT ![p] = "running"] /\ fromWorker' = fromWorker
             \/ PromptsKept /\ SaysError(p)
      BY <1>14, <2>1, AtPrompt DEF BeginsAt
    <2>3. status[p] \notin {"new", "queued"}
      BY <1>4, <2>2 DEF CancelInv, CancelFollows
    <2>4. \A r \in pending : wk'.prompt[r] # "none" => wk.prompt[r] # "none" \/ (Hears /\ BeginsAt(toWorker, 1, r))
      BY <1>3, <2>2 DEF PromptsKept
    <2>5. fromWorker' = fromWorker \/ \E m : Says(m) /\ m.type = "error" /\ m.id = p
      BY <2>2 DEF SaysError
    <2>6. \A r \in pending : wk'.prompt[r] # "none" => \A i \in DOMAIN toWorker', q \in Requests : BeginsAt(toWorker', i, q) => r < q
      BY <1>6, <2>4
    <2>7. <1>7!2
      BY <1>7, <2>5
    <2>8. <1>8!2
      BY <1>8, <2>3, <2>5
    <2> QED
      BY <1>1, <1>5, <2>6, <2>7, <2>8 DEF OrderInv
  <1>15. \A R : \A r \in Requests : Aborting(R)[r] = "none" <=> wk.prompt[r] = "none"
    BY DEF Aborting
  <1>16. CASE ReceiveCancel
    <2>1. wk'.prompt = Aborting(toWorker[1].ids) /\ fromWorker' = fromWorker
      BY <1>16, AtCancel
    <2> QED
      BY <1>11, <1>15, <2>1
  <1>17. CASE ReceiveOperation
    <2>1. PromptsKept /\ fromWorker' = fromWorker
      BY <1>17, AtOperation
    <2> QED
      BY <1>11, <2>1 DEF PromptsKept
  <1>18. ASSUME NEW p \in Requests, PromptEnds(p) PROVE OrderInv'
    <2>1. /\ wk'.prompt = [wk.prompt EXCEPT ![p] = "none"] /\ HasTurn(p) /\ wk.prompt[p] # "none"
          /\ \/ wk.prompt[p] = "running" /\ \E m : Says(m) /\ m.type = "done" /\ m.id = p
             \/ fromWorker' = fromWorker
             \/ SaysError(p)
      BY <1>18, AtEnd
    <2>2. \A r \in Requests : wk'.prompt[r] # "none" => wk.prompt[r] # "none"
      BY <1>3, <2>1
    <2>3. status[p] \notin {"new", "queued"}
      BY <2>1 DEF CancelInv, CancelFollows
    <2>4. \E m : fromWorker' = fromWorker \/ (Says(m) /\ m.type \in {"done", "error"} /\ m.id = p)
      BY <2>1 DEF SaysError
    <2>5. <1>8!2
      BY <1>8, <2>3, <2>4
    <2>6. <1>7!2
      <3>1. CASE fromWorker' = fromWorker \/ SaysError(p)
        BY <1>7, <1>9, <3>1
      <3>2. ASSUME NEW m, Says(m), m.type = "done", m.id = p, wk.prompt[p] = "running" PROVE <1>7!2
        <4>1. PICK k \in DOMAIN fromWorker' :
                /\ fromWorker'[k] = m /\ \A i \in DOMAIN fromWorker' : i = k \/ i \in DOMAIN fromWorker
                /\ \A i \in DOMAIN fromWorker : i < k
          BY <3>2, LastIsSaid
        <4>2. \A i \in DOMAIN fromWorker : i \in DOMAIN fromWorker' /\ fromWorker'[i] = fromWorker[i]
          BY <3>2, LastIsSaid
        <4> SUFFICES ASSUME NEW i \in DOMAIN fromWorker', NEW r \in pending, DoneAt(fromWorker', i, r),
                            NEW q \in pending, session[q] = session[r], q < r
                     PROVE  \E j \in DOMAIN fromWorker' : j < i /\ AnswersAt(fromWorker', j, q)
          OBVIOUS
        <4>3. CASE i \in DOMAIN fromWorker
          <5>1. DoneAt(fromWorker, i, r)
            BY <4>2, <4>3 DEF DoneAt
          <5>2. PICK j \in DOMAIN fromWorker : j < i /\ AnswersAt(fromWorker, j, q)
            BY <4>3, <5>1 DEF OrderInv
          <5> QED
            BY <4>2, <5>2 DEF AnswersAt
        <4>4. CASE i = k
          <5>1. r = p /\ q \in Requests /\ q \in OfSession(session[r])
            BY <1>3, <3>2, <4>1, <4>4 DEF DoneAt, OfSession
          <5>2. wk.prompt[q] = "none"
            BY <2>1, <5>1 DEF HasTurn
          <5>3. ~wk.resetting
            BY <3>2 DEF StopInv
          <5>4. \A j \in DOMAIN toWorker : ~BeginsAt(toWorker, j, q)
            <6>1. \A j \in DOMAIN toWorker : BeginsAt(toWorker, j, q) => r < q
              BY <2>1, <5>1 DEF OrderInv
            <6>2. ~(r < q)
              BY <5>1 DEF Requests
            <6> QED
              BY <6>1, <6>2
          <5>5. PICK j \in DOMAIN fromWorker : AnswersAt(fromWorker, j, q)
            BY <5>2, <5>3, <5>4 DEF Somewhere
          <5> QED
            BY <4>1, <4>2, <4>4, <5>5 DEF AnswersAt
        <4> QED
          BY <4>1, <4>3, <4>4
      <3> QED
        BY <2>1, <3>1, <3>2
    <2>7. \A r \in pending : wk'.prompt[r] # "none" => \A i \in DOMAIN toWorker', q \in Requests : BeginsAt(toWorker', i, q) => r < q
      BY <1>3, <1>6, <2>2
    <2> QED
      BY <1>1, <1>5, <2>5, <2>6, <2>7 DEF OrderInv
  <1>19. CASE OperationBegins
    <2>1. \/ PromptsKept /\ SaysError(0)
          \/ wk'.prompt = Aborting(Affected(wk.ops[1])) /\ fromWorker' = fromWorker
      BY <1>19, AtBegin
    <2> QED
      BY <1>10, <1>11, <1>15, <2>1 DEF PromptsKept
  <1>20. CASE OperationEnds \/ OperationFails
    <2>1. PromptsKept /\ (SaysError(0) \/ \E m : Says(m) /\ m.type \in {"reset_done", "model_reset_done", "shutdown_done"})
      BY <1>20, AtFinish
    <2> QED
      BY <1>10, <1>11, <2>1 DEF PromptsKept
  <1> QED
    BY <1>12, <1>13, <1>14, <1>16, <1>17, <1>18, <1>19, <1>20 DEF Worker, WorkerStep

LEMMA OrderHolds == Spec => []OrderInv
  <1>0. toWorker = <<>> /\ fromWorker = <<>> => OrderInv
    BY FreshOrder
  <1>1. Init => OrderInv
    BY <1>0 DEF Init, WorkerInit
  <1>2. ASSUME BooksInv, FifoInv, BoundaryInv, LifeInv, WireInv, CycleInv, CancelInv, StopInv, Somewhere, OrderInv,
               [Next]_vars
        PROVE  OrderInv'
    <2>1. InitInv /\ CallTypes /\ WireTypes
      BY <1>2 DEF LifeInv, InitInv, WireInv
    <2>2. ParentActs \/ (Worker /\ UNCHANGED <<schedVars, lifeVars>>)
      BY <1>2, <2>1, StepsAct
    <2>3. ASSUME Stopped PROVE OrderInv'
      <3>1. (toWorker = <<>> /\ fromWorker = <<>>)'
        BY <2>3 DEF Stopped
      <3> QED
        BY <1>0, <3>1, PTL
    <2> QED
      BY <1>2, <2>1, <2>2, <2>3, SendingOrder, HandlingOrder, WorkingOrder DEF ParentActs
  <1> QED
    BY <1>1, <1>2, BooksHold, FifoHolds, BoundaryHolds, LifeHolds, WiresHold, CancelHolds, StopsHold, PTL DEF Spec

\* A request succeeds when the answer of success to it is handled.
LEMMA NewlyDone ==
  ASSUME BooksInv, [Next]_vars, NEW r \in Requests, status'[r] = "done", status[r] # "done"
  PROVE  fromWorker # <<>> /\ DoneAt(fromWorker, 1, r) /\ r \in pending
  <1>1. ~UNCHANGED status
    OBVIOUS
  <1>2. \A R, s : SetStatus(R, s) /\ s # "done" => FALSE
    BY DEF SetStatus
  <1>3. \A q, t : ~Enqueue(q, t)
    BY <1>2 DEF Enqueue
  <1>4. \A q : ~DrainShift(q) /\ ~Fail(q) /\ ~CancelQueued(q) /\ ~CancelRunning(q)
    BY <1>1, <1>2 DEF DrainShift, Fail, CancelQueued, CancelRunning, Leave
  <1>5. (\A v : ~CancelAllWith(v) /\ ~SetReady(v)) /\ \A s : ~CancelBySession(s)
    BY <1>1, <1>2 DEF CancelAllWith, SetReady, CancelBySession
  <1>6. (\A w : ~WaitForIdle(w)) /\ ~DrainEnd /\ ~UNCHANGED schedVars
    BY <1>1 DEF WaitForIdle, DrainEnd, schedVars
  <1>7. (\A in : ~StartAttempt(in)) /\ \A owner : ~StartCycle(owner)
    BY <1>5, <1>6 DEF StartAttempt, StartCycle
  <1>8. ~ApiCall
    BY <1>4, <1>5, <1>6, <1>7 DEF ApiCall, InitModel, Prompt, CancelPrompt, ResetSession, ResetModel, Shutdown
  <1>9. ~Failure /\ ~Worker /\ ~UNCHANGED vars
    BY <1>6 DEF Failure, PlanFails, ReadyTimesOut, ModelResetTimesOut, ShutdownTimesOut, SessionResetTimesOut, Worker, vars
  <1>10. ~Planned /\ ~AttemptStopped /\ ~Rested /\ ~ModelResetStopped
    BY <1>5, <1>6, <1>7 DEF Planned, AttemptStopped, Rested, ModelResetStopped
  <1>11. (\A s : ~PromptResumes(s)) /\ ~Dispatch /\ ~DispatchEnds
    BY <1>3, <1>4, <1>6 DEF PromptResumes, Dispatch, DispatchEnds
  <1>12. ~ShutdownDrained /\ ~DrainTimesOut /\ ~ShutdownStopped
    BY <1>5, <1>6 DEF ShutdownDrained, DrainTimesOut, ShutdownStopped
  <1>13. ~HandleReady /\ ~HandleResetDone /\ ~HandleModelResetDone /\ ~HandleShutdownDone
    BY <1>5, <1>6 DEF HandleReady, HandleResetDone, HandleModelResetDone, HandleShutdownDone
  <1>14. ~HandleError
    BY <1>4, <1>6 DEF HandleError
  <1>15. HandleDone
    BY <1>8, <1>9, <1>10, <1>11, <1>12, <1>13, <1>14 DEF Next, HandleWorkerMessage
  <1>16. PICK q : q = Head(fromWorker).id
    OBVIOUS
  <1>17. Complete(q) /\ q \in pending
    BY <1>6, <1>15, <1>16 DEF HandleDone
  <1>18. q = r
    BY <1>17 DEF Complete, Leave, SetStatus
  <1> QED
    BY <1>15, <1>16, <1>17, <1>18 DEF HandleDone, Handling, DoneAt

\* The prompts of a session are answered in the order they were accepted
\* (SessionOrder): the worker runs them in that order, since the channel brings them
\* in it, and neither of the channels changes it.
THEOREM SessionsAreAnsweredInOrder == Spec => []SessionOrder
  <1>1. Init => SessionOrder
    BY DEF Init, SchedInit, SessionOrder
  <1>2. ASSUME BooksInv, FifoInv, WireInv, OrderInv, SessionOrder, [Next]_vars
        PROVE  SessionOrder'
    <2> SUFFICES ASSUME NEW r \in Requests, NEW q \in Requests, session'[q] = session'[r], q < r, status'[r] = "done"
                 PROVE  status'[q] \notin {"queued", "running"}
      BY DEF SessionOrder, OfSession
    <2>1. [SchedNext]_schedVars
      BY <1>2, StepsAreSteps DEF SchedulerStep, BooksInv
    <2>2. status[r] \in Statuses /\ status[q] \in Statuses /\ r \in Nat /\ q \in Nat
      BY <1>2 DEF BooksInv, SchedTypeOK, Requests
    <2>3. ASSUME status[r] # "new", status[q] \notin {"queued", "running"} PROVE status'[q] \notin {"queued", "running"}
      <3>1. status[q] \in Ended
        BY <1>2, <2>2, <2>3 DEF FifoInv, Statuses, Ended
      <3>2. status'[q] \in Ended
        BY <1>2, <2>1, <3>1, EndedStays
      <3> QED
        BY <3>2 DEF Ended
    <2>4. ASSUME status[r] # "new" PROVE session[q] = session[r] /\ q \in OfSession(session[r])
      <3>1. status[q] # "new"
        BY <1>2, <2>4 DEF FifoInv
      <3>2. session'[q] = session[q] /\ session'[r] = session[r]
        BY <1>2, <2>1, <2>4, <3>1, SessionsStay
      <3> QED
        BY <3>2 DEF OfSession
    <2>5. CASE status[r] = "done"
      BY <1>2, <2>3, <2>4, <2>5 DEF SessionOrder
    <2>6. CASE status[r] # "done"
      <3>1. fromWorker # <<>> /\ DoneAt(fromWorker, 1, r) /\ r \in pending
        BY <1>2, <2>6, NewlyDone
      <3>2. status[r] = "running"
        BY <1>2, <3>1 DEF BooksInv, BooksAgree, With
      <3>3. status[q] # "queued"
        BY <1>2, <3>2 DEF FifoInv
      <3>4. q \notin pending
        <4>1. 1 \in DOMAIN fromWorker /\ \A j \in DOMAIN fromWorker : ~(j < 1)
          <5>1. fromWorker \in Seq(Replies) /\ fromWorker # <<>>
            BY <1>2, <3>1 DEF WireInv, WireTypes
          <5>2. 1 \in DOMAIN fromWorker /\ \A j \in DOMAIN fromWorker : j \in Nat \ {0}
            BY <5>1, RestOf
          <5> QED
            BY <5>2
        <4>2. session[q] = session[r]
          BY <2>4, <3>2
        <4> QED
          BY <1>2, <3>1, <4>1, <4>2 DEF OrderInv
      <3>5. status[q] # "running"
        BY <1>2, <3>4 DEF BooksInv, BooksAgree, With
      <3> QED
        BY <2>3, <3>2, <3>3, <3>5
    <2> QED
      BY <2>5, <2>6
  <1> QED
    BY <1>1, <1>2, BooksHold, FifoHolds, WiresHold, OrderHolds, PTL DEF Spec

--------------------------------------------------------------------------------
(* Resolved means ready: as long as callers cancel only prompts that have   *)
(* not ended and reset only what is ready, and nothing fails to dispose, no *)
(* operation is refused, and a boundary ends with the worker gone, a model  *)
(* that is ready again or an unhealthy runtime.                             *)

Disciplined == ~CancelEnded /\ ~ResetUnready /\ "dispose" \notin Faults

\* Nobody is about to take the model down; and it is the one that has become ready.
Standing == ~unhealthy /\ modelReset # "waiting" /\ ~GoingDown
Ordinary == Standing /\ init.resolved /\ modelReset # "terminating"

\* No error is one that resetModel() would take for its answer.
NoRefusal == \A i \in DOMAIN fromWorker : fromWorker[i].type = "error" /\ fromWorker[i].id = 0 => fromWorker[i].attempt # 0

\* A boundary begins when no other goes on and no cycle, with a model that is ready;
\* and no worker is started before a model reset does so itself.
TurnsInv ==
  /\ modelReset = "off" \/ shutdown = "off"
  /\ modelReset # "off" \/ shutdown \in Draining => ~unhealthy
  /\ shutdown # "off" => init.phase = "off"
  /\ init.phase = "waiting" => init.attempt # 0
  /\ modelReset \in {"waiting", "terminating"} => init.resolved
  /\ modelReset = "terminating" => ~workerUp
  /\ ResolvedMeansReady

\* What a step of the parent does about the model: it is not taken for granted again
\* unless the worker was stopped, or has answered that it is ready.
ModelGoesOn ==
  /\ Standing' => Standing \/ Stopped
  /\ Ordinary' => wk' = wk /\ (Ordinary \/ (Standing /\ ~NoReady))

LEMMA TurnsStay ==
  ASSUME TurnsInv, UNCHANGED <<modelReset, shutdown, unhealthy, wk>>, ready' = ready,
         init'.phase = init.phase, init'.resolved = init.resolved, init'.attempt = init.attempt,
         workerUp' => workerUp \/ modelReset # "terminating"
  PROVE  TurnsInv' /\ ModelGoesOn
  BY DEF TurnsInv, ModelGoesOn, Standing, Ordinary, GoingDown, Draining, ResolvedMeansReady, Operational

\* A step of the init cycle, or the call that begins it.
LEMMA CycleTurns ==
  ASSUME TurnsInv, CallTypes, ~init.resolved, ~init'.resolved, modelReset' \in {modelReset, "off"},
         UNCHANGED <<shutdown, unhealthy>>, shutdown = "off", init'.phase = "waiting" => init'.attempt # 0
  PROVE  TurnsInv' /\ ModelGoesOn
  BY DEF TurnsInv, ModelGoesOn, Standing, Ordinary, GoingDown, Draining, ResolvedMeansReady, CallTypes

LEMMA AttemptTurns ==
  ASSUME NEW in \in InitRecords, StartAttempt(in)
  PROVE  ~init'.resolved /\ init'.attempt # 0 /\ init'.phase = "waiting"
  <1>1. PICK n \in Nat : n = in.next + 1 /\ n # 0
    BY DEF InitRecords
  <1>2. init' = [in EXCEPT !.phase = "waiting", !.left = @ - 1, !.started = TRUE, !.resolved = FALSE,
                           !.barrier = "open", !.attempt = n, !.next = @ + 1]
    BY <1>1 DEF StartAttempt
  <1> QED
    BY <1>1, <1>2 DEF InitRecords

LEMMA BeginningTurns ==
  ASSUME InitInv, NEW owner \in {"initModel", "explicitInitModel", "prompt", "reset"}, StartCycle(owner),
         ~init.resolved \/ (owner = "reset" /\ init.lastPlan)
  PROVE  ~init'.resolved /\ (init'.phase = "waiting" => init'.attempt # 0)
  <1>1. CASE StartAttempt([init EXCEPT !.owner = owner, !.left = 1])
    <2>1. 1 \in 0..InitAttempts
      BY LifecycleAssumption
    <2>2. PICK in \in InitRecords : in = [init EXCEPT !.owner = owner, !.left = 1]
      BY <2>1 DEF InitInv, InitRecords
    <2> QED
      BY <1>1, <2>2, AttemptTurns
  <1>2. CASE ~StartAttempt([init EXCEPT !.owner = owner, !.left = 1])
    <2>1. /\ init' = [init EXCEPT !.phase = "planning", !.owner = owner]
          /\ ~(init.lastPlan /\ owner # "initModel" /\ owner # "explicitInitModel")
      BY <1>2 DEF StartCycle
    <2>2. init'.phase = "planning" /\ init'.resolved = init.resolved
      BY <2>1 DEF InitInv, InitRecords
    <2> QED
      BY <2>1, <2>2
  <1> QED
    BY <1>1, <1>2

\* What the callers do.
LEMMA CallsTurn ==
  ASSUME Disciplined, BooksInv, BoundaryInv, InitInv, CallTypes, CycleInv, TurnsInv, ApiCall
  PROVE  TurnsInv' /\ ModelGoesOn
  <1>1. modelReset = "terminating" => queue \union pending = {}
    BY DEF BoundaryInv, Boundary, IsIdle
  <1>2. ASSUME NEW owner \in {"initModel", "explicitInitModel"}, InitModel(owner) PROVE TurnsInv' /\ ModelGoesOn
    <2>1. ~init.resolved /\ StartCycle(owner) /\ UNCHANGED <<modelReset, shutdown, unhealthy>> /\ shutdown = "off"
      BY <1>2 DEF InitModel, Operational, CycleInv
    <2> QED
      BY <2>1, BeginningTurns, CycleTurns
  <1>3. ASSUME NEW s \in Sessions, Prompt(s) PROVE TurnsInv' /\ ModelGoesOn
    <2>1. UNCHANGED <<modelReset, shutdown, unhealthy>> /\ shutdown = "off"
      BY <1>3 DEF Prompt, Admitted, Operational
    <2>2. CASE UNCHANGED <<init, schedVars, workerVars>>
      BY <2>1, <2>2, TurnsStay DEF schedVars, workerVars
    <2>3. CASE StartCycle("prompt") /\ ~init.resolved
      BY <2>1, <2>3, BeginningTurns, CycleTurns
    <2> QED
      BY <1>3, <2>2, <2>3 DEF Prompt
  <1>4. ASSUME NEW r \in Requests, CancelPrompt(r) PROVE TurnsInv' /\ ModelGoesOn
    <2>1. modelReset # "terminating"
      BY <1>1, <1>4 DEF CancelPrompt, Disciplined
    <2>2. ready' = ready
      BY <1>4 DEF CancelPrompt, CancelQueued, CancelRunning, Leave, schedVars
    <2>3. UNCHANGED <<init, modelReset, shutdown, unhealthy, wk>>
      BY <1>4 DEF CancelPrompt
    <2> QED
      BY <2>1, <2>2, <2>3, TurnsStay
  <1>5. ASSUME NEW s \in Sessions, ResetSession(s) PROVE TurnsInv' /\ ModelGoesOn
    <2>1. modelReset # "terminating" /\ UNCHANGED <<init, modelReset, shutdown, unhealthy>>
      BY <1>5 DEF ResetSession, Operational
    <2>2. ready' = ready /\ wk' = wk
      BY <1>5 DEF ResetSession, CancelBySession, CancelAndSend
    <2> QED
      BY <2>1, <2>2, TurnsStay
  <1>6. CASE ResetModel
    <2>1. Operational /\ init.resolved /\ modelReset' = "waiting" /\ UNCHANGED <<init, shutdown, unhealthy>>
      BY <1>6 DEF ResetModel, Disciplined
    <2> QED
      BY <2>1 DEF TurnsInv, ModelGoesOn, Standing, Ordinary, Draining, ResolvedMeansReady, Operational
  <1>7. ASSUME NEW mode, Shutdown(mode) PROVE TurnsInv' /\ ModelGoesOn
    <2>1. Operational /\ init.phase = "off" /\ UNCHANGED <<init, modelReset, unhealthy>>
      BY <1>7 DEF Shutdown, InitActive
    <2>2. shutdown' \in {"waiting", "draining", "timedDraining"} /\ wk' = wk
      BY <1>7 DEF Shutdown, CancelAndSend, workerVars
    <2> QED
      BY <2>1, <2>2 DEF TurnsInv, ModelGoesOn, Standing, Ordinary, GoingDown, Draining, ResolvedMeansReady, Operational
  <1> QED
    BY <1>2, <1>3, <1>4, <1>5, <1>6, <1>7 DEF ApiCall

\* What the router does.
LEMMA RouterTurns ==
  ASSUME BooksInv, BoundaryInv, InitInv, CallTypes, WireInv, CycleInv, TurnsInv, NoRefusal, HandleWorkerMessage
  PROVE  TurnsInv' /\ ModelGoesOn
  <1>1. fromWorker # <<>>
    BY DEF HandleWorkerMessage, HandleReady, HandleResetDone, HandleModelResetDone, HandleShutdownDone,
           HandleDone, HandleError, Handling
  <1>2. 1 \in DOMAIN fromWorker
    BY <1>1, RestOf DEF WireInv, WireTypes
  <1>3. PICK m \in Replies : m = Head(fromWorker) /\ m = fromWorker[1]
    BY <1>1, RestOf DEF WireInv, WireTypes
  <1>4. UNCHANGED unhealthy
    BY DEF HandleWorkerMessage, HandleReady, HandleResetDone, HandleModelResetDone, HandleShutdownDone,
           HandleDone, HandleError, Handling
  <1>5. ASSUME Keep, ready' = ready, UNCHANGED <<init, modelReset, shutdown>> PROVE TurnsInv' /\ ModelGoesOn
    BY <1>4, <1>5, TurnsStay DEF Keep
  <1>6. UNCHANGED schedVars => ready' = ready
    BY DEF schedVars
  <1>7. CASE HandleReady
    <2>1. Awaited(m.attempt) /\ ~NoReady
      BY <1>2, <1>3, <1>7 DEF HandleReady, Handling, WireInv, LoadInv, NoReady
    <2>2. ready' = TRUE /\ CycleSucceeds /\ Keep /\ UNCHANGED shutdown
      BY <1>3, <1>7, <2>1 DEF HandleReady, Awaited, SetReady
    <2>3. init'.phase = "off" /\ init'.resolved
      BY <2>2 DEF CycleSucceeds, InitInv, InitRecords
    <2>4. init.phase = "waiting" /\ ~init.resolved /\ shutdown = "off"
      BY <2>1 DEF Awaited, CycleInv, TurnsInv
    <2>5. modelReset \in {"off", "reinit"} /\ modelReset' \in {modelReset, "off"}
      BY <2>2, <2>4 DEF TurnsInv, CallTypes, CycleSucceeds
    <2>6. wk' = wk
      BY <2>2 DEF Keep
    <2> QED
      BY <1>4, <2>1, <2>2, <2>3, <2>4, <2>5, <2>6
         DEF TurnsInv, ModelGoesOn, Standing, Ordinary, GoingDown, Draining, ResolvedMeansReady
  <1>8. CASE HandleResetDone
    BY <1>5, <1>6, <1>8 DEF HandleResetDone
  <1>9. CASE HandleDone
    BY <1>5, <1>6, <1>9 DEF HandleDone, Complete, Leave
  <1>10. CASE HandleModelResetDone
    <2>1. CASE modelReset = "waiting"
      <3>1. modelReset' = "terminating" /\ Terminate /\ UNCHANGED <<schedVars, init, shutdown>>
        BY <1>10, <2>1 DEF HandleModelResetDone
      <3>2. Stopped
        <4>1. pending = {}
          BY <2>1 DEF BoundaryInv, Boundary, IsIdle
        <4> QED
          BY <3>1, <4>1 DEF Terminate, Stopped, schedVars
      <3>3. ~workerUp'
        BY <3>2 DEF Stopped
      <3> QED
        BY <1>4, <2>1, <3>1, <3>2, <3>3 DEF TurnsInv, ModelGoesOn, Ordinary, Draining, ResolvedMeansReady, Operational
    <2>2. CASE modelReset # "waiting"
      BY <1>5, <1>6, <1>10, <2>2 DEF HandleModelResetDone
    <2> QED
      BY <2>1, <2>2
  <1>11. CASE HandleShutdownDone
    <2>1. CASE shutdown = "waiting"
      <3>1. shutdown' = "terminating" /\ UNCHANGED <<init, modelReset>>
        BY <1>11, <2>1 DEF HandleShutdownDone
      <3> QED
        BY <1>4, <2>1, <3>1
           DEF TurnsInv, ModelGoesOn, Standing, Ordinary, GoingDown, Draining, ResolvedMeansReady, Operational
    <2>2. CASE shutdown # "waiting"
      BY <1>5, <1>6, <1>11, <2>2 DEF HandleShutdownDone
    <2> QED
      BY <2>1, <2>2
  <1>12. CASE HandleError
    <2>1. m.type = "error"
      BY <1>3, <1>12 DEF HandleError, Handling
    <2>2. m.id = 0 => m.attempt # 0
      BY <1>2, <1>3, <2>1 DEF NoRefusal
    <2>3. CASE m.attempt = 0
      <3>1. /\ Keep /\ UNCHANGED <<init, modelReset, shutdown>>
            /\ IF m.id \in pending THEN Fail(m.id) ELSE UNCHANGED schedVars
        BY <1>3, <1>12, <2>2, <2>3 DEF HandleError
      <3>2. ready' = ready
        BY <1>6, <3>1 DEF Fail, Leave
      <3> QED
        BY <1>5, <3>1, <3>2
    <2>4. CASE m.attempt # 0
      <3>1. UNCHANGED <<schedVars, modelReset, shutdown>> /\ (RejectReady \/ (Keep /\ UNCHANGED init))
        BY <1>3, <1>12, <2>4 DEF HandleError
      <3>2. CASE Keep /\ UNCHANGED init
        BY <1>5, <1>6, <3>1, <3>2
      <3>3. CASE init.phase = "waiting" /\ AttemptFails("failed")
        <4>1. init'.phase = "stopping" /\ init'.resolved = init.resolved
          BY <3>3 DEF AttemptFails, InitInv, InitRecords
        <4>2. ~init.resolved /\ shutdown = "off"
          BY <3>3 DEF CycleInv, TurnsInv
        <4> QED
          BY <1>4, <3>1, <4>1, <4>2, CycleTurns
      <3>4. CASE init' = [init EXCEPT !.barrier = "failed"] /\ Keep
        <4>1. init'.phase = init.phase /\ init'.resolved = init.resolved /\ init'.attempt = init.attempt
          BY <3>4 DEF InitInv, InitRecords
        <4>2. UNCHANGED <<workerUp, wk>>
          BY <3>4 DEF Keep
        <4> QED
          BY <1>4, <1>6, <3>1, <4>1, <4>2, TurnsStay
      <3> QED
        BY <3>1, <3>2, <3>3, <3>4 DEF RejectReady
    <2> QED
      BY <2>3, <2>4
  <1> QED
    BY <1>7, <1>8, <1>9, <1>10, <1>11, <1>12 DEF HandleWorkerMessage

\* So does everything else that the parent does.
LEMMA StepsTurn ==
  ASSUME Disciplined, BooksInv, BoundaryInv, InitInv, CallTypes, WireInv, CycleInv, TurnsInv, NoRefusal, [Next]_vars
  PROVE  TurnsInv' /\ (ModelGoesOn \/ Worker)
  <1>1. init.phase # "off" => ~init.resolved /\ shutdown = "off"
    BY DEF CycleInv, TurnsInv
  <1>2. UNCHANGED schedVars => ready' = ready
    BY DEF schedVars
  <1>3. CASE UNCHANGED vars
    BY <1>3, TurnsStay DEF vars, lifeVars, schedVars, workerVars
  <1>4. CASE Worker
    <2>1. UNCHANGED <<workerUp, ready, init, modelReset, shutdown, unhealthy>>
      BY <1>4, WorkerWires DEF Worker, schedVars, lifeVars, WireInv
    <2> QED
      BY <1>4, <2>1 DEF TurnsInv, ResolvedMeansReady, Operational, Draining
  <1>5. CASE PlanFails
    <2>1. /\ init.phase = "planning" /\ UNCHANGED <<shutdown, unhealthy>> /\ modelReset' \in {modelReset, "off"}
          /\ init' = [init EXCEPT !.phase = "off", !.owner = "none", !.left = 0,
                                  !.explicitFailed = @ \/ init.owner = "explicitInitModel"]
      BY <1>5 DEF PlanFails, CycleFails
    <2>2. init'.phase = "off" /\ init'.resolved = init.resolved
      BY <2>1 DEF InitInv, InitRecords
    <2> QED
      BY <1>1, <2>1, <2>2, CycleTurns
  <1>6. CASE ReadyTimesOut
    <2>1. init.phase = "waiting" /\ UNCHANGED <<modelReset, shutdown, unhealthy>> /\ AttemptFails("open")
      BY <1>6 DEF ReadyTimesOut
    <2>2. init'.phase = "stopping" /\ init'.resolved = init.resolved
      BY <2>1 DEF AttemptFails, InitInv, InitRecords
    <2> QED
      BY <1>1, <2>1, <2>2, CycleTurns
  <1>7. CASE ModelResetTimesOut
    <2>1. unhealthy' /\ modelReset = "waiting" /\ modelReset' = "off" /\ UNCHANGED <<init, shutdown>>
      BY <1>7 DEF ModelResetTimesOut
    <2> QED
      BY <2>1 DEF TurnsInv, ModelGoesOn, Standing, Ordinary, Draining, ResolvedMeansReady, Operational
  <1>8. CASE ShutdownTimesOut
    <2>1. unhealthy' /\ shutdown = "waiting" /\ shutdown' = "failed" /\ UNCHANGED <<init, modelReset>>
      BY <1>8 DEF ShutdownTimesOut
    <2> QED
      BY <2>1 DEF TurnsInv, ModelGoesOn, Standing, Ordinary, Draining, ResolvedMeansReady, Operational
  <1>9. ASSUME NEW s \in Sessions, SessionResetTimesOut(s) PROVE TurnsInv' /\ ModelGoesOn
    BY <1>2, <1>9, TurnsStay DEF SessionResetTimesOut, workerVars
  <1>10. CASE Planned
    <2>1. InitAttempts \in 0..InitAttempts
      BY LifecycleAssumption
    <2>2. PICK in \in InitRecords : in = [init EXCEPT !.left = InitAttempts]
      BY <2>1 DEF InitInv, InitRecords
    <2>3. init.phase = "planning" /\ StartAttempt(in) /\ UNCHANGED <<modelReset, shutdown, unhealthy>>
      BY <1>10, <2>2 DEF Planned
    <2>4. ~init'.resolved /\ init'.attempt # 0
      BY <2>3, AttemptTurns
    <2> QED
      BY <1>1, <2>3, <2>4, CycleTurns
  <1>11. CASE Rested
    <2>1. init.phase = "resting" /\ StartAttempt(init) /\ UNCHANGED <<modelReset, shutdown, unhealthy>>
      BY <1>11 DEF Rested
    <2>2. ~init'.resolved /\ init'.attempt # 0
      BY <2>1, AttemptTurns DEF InitInv
    <2> QED
      BY <1>1, <2>1, <2>2, CycleTurns
  <1>12. CASE AttemptStopped
    <2>1. init.phase = "stopping" /\ UNCHANGED <<shutdown, unhealthy>>
      BY <1>12 DEF AttemptStopped
    <2>2. \/ CycleFails(WithoutAttempt(init)) \/ CycleFails(init)
          \/ init' = [init EXCEPT !.phase = "resting"] /\ UNCHANGED modelReset
      BY <1>12 DEF AttemptStopped
    <2>3. modelReset' \in {modelReset, "off"}
      BY <2>2 DEF CycleFails
    <2>4. init'.phase # "waiting" /\ ~init'.resolved
      <3>1. CASE CycleFails(WithoutAttempt(init))
        <4>1. PICK in : in = WithoutAttempt(init)
          OBVIOUS
        <4>2. in \in InitRecords /\ in.resolved = FALSE
          BY <4>1 DEF WithoutAttempt, InitInv, InitRecords
        <4>3. init'.phase = "off" /\ init'.resolved = in.resolved
          BY <3>1, <4>1, <4>2 DEF CycleFails, InitRecords
        <4> QED
          BY <4>2, <4>3
      <3>2. CASE CycleFails(init) \/ init' = [init EXCEPT !.phase = "resting"]
        BY <1>1, <2>1, <3>2 DEF CycleFails, InitInv, InitRecords
      <3> QED
        BY <2>2, <3>1, <3>2
    <2> QED
      BY <1>1, <2>1, <2>3, <2>4, CycleTurns
  <1>13. ASSUME NEW s \in Sessions, PromptResumes(s) PROVE TurnsInv' /\ ModelGoesOn
    <2>1. UNCHANGED <<workerUp, wk, init, modelReset, shutdown, unhealthy>>
      BY <1>13 DEF PromptResumes, workerVars
    <2>2. ready' = ready
      BY <1>2, <1>13 DEF PromptResumes, Enqueue
    <2> QED
      BY <2>1, <2>2, TurnsStay
  <1>14. CASE Dispatch
    <2>1. UNCHANGED <<wk, init, modelReset, shutdown, unhealthy>>
      BY <1>14 DEF Dispatch, lifeVars
    <2>2. ready' = ready /\ queue # {}
      BY <1>14 DEF Dispatch, DrainShift
    <2>3. modelReset # "terminating"
      BY <2>2 DEF BoundaryInv, Boundary, IsIdle
    <2> QED
      BY <2>1, <2>2, <2>3, TurnsStay
  <1>15. CASE DispatchEnds
    BY <1>15, TurnsStay DEF DispatchEnds, DrainEnd, lifeVars, workerVars
  <1>16. CASE ModelResetStopped
    <2>1. modelReset = "terminating" /\ UNCHANGED <<shutdown, unhealthy>> /\ ~workerUp /\ init.resolved /\ shutdown = "off"
      BY <1>16 DEF ModelResetStopped, TurnsInv
    <2>2. modelReset' = "reinit" /\ StartCycle("reset") /\ init.lastPlan
      BY <1>16, <2>1 DEF ModelResetStopped, CycleInv
    <2>3. ~init'.resolved /\ (init'.phase = "waiting" => init'.attempt # 0)
      BY <2>2, BeginningTurns
    <2> QED
      BY <2>1, <2>2, <2>3 DEF TurnsInv, ModelGoesOn, Standing, Ordinary, GoingDown, Draining, ResolvedMeansReady
  <1>17. CASE ShutdownDrained \/ DrainTimesOut
    <2>1. shutdown \in Draining /\ shutdown' = "waiting" /\ UNCHANGED <<init, modelReset, unhealthy>>
      BY <1>17 DEF ShutdownDrained, ShutdownResumes, DrainTimesOut, Draining
    <2> QED
      BY <2>1 DEF TurnsInv, ModelGoesOn, Standing, Ordinary, GoingDown, Draining, ResolvedMeansReady, Operational
  <1>18. CASE ShutdownStopped
    <2>1. shutdown = "terminating" /\ shutdown' = "down" /\ UNCHANGED <<init, modelReset, unhealthy>>
      BY <1>18 DEF ShutdownStopped
    <2> QED
      BY <2>1 DEF TurnsInv, ModelGoesOn, Standing, Ordinary, GoingDown, Draining, ResolvedMeansReady, Operational
  <1> QED
    BY <1>3, <1>4, <1>5, <1>6, <1>7, <1>8, <1>9, <1>10, <1>11, <1>12, <1>13, <1>14, <1>15, <1>16, <1>17, <1>18,
       CallsTurn, RouterTurns DEF Next, Failure

\* An operation that takes the model down, and one that insists on a model that is ready.
Takes(op) == op.type \in {"reset_model", "shutdown"}
Insists(op) == op.type \in {"reset_session", "reset_model"}

\* Unless it is going to be taken down, the model stays as it was when it became ready.
ModelStands ==
  Standing =>
    /\ \A i \in DOMAIN toWorker : ~Takes(toWorker[i])
    /\ \A i \in DOMAIN wk.ops : ~Takes(wk.ops[i])
    /\ ~wk.resetting /\ ~wk.shuttingDown
    /\ Ordinary \/ ~NoReady => wk.model = "loaded"

\* The operation that takes it down is the last.
TakenLast ==
  /\ \A i, j \in DOMAIN toWorker : Takes(toWorker[i]) /\ toWorker[j].type \in OperationTypes => j <= i
  /\ \A i \in DOMAIN wk.ops : Takes(wk.ops[i]) =>
       /\ \A j \in DOMAIN wk.ops : j <= i
       /\ \A j \in DOMAIN toWorker : toWorker[j].type \notin OperationTypes

\* So every operation that insists on a model will find one.
NoneRefused ==
  /\ \A i \in DOMAIN toWorker : Insists(toWorker[i]) => NativeReady
  /\ \A i \in DOMAIN wk.ops : Insists(wk.ops[i]) /\ (i # 1 \/ wk.phase = "idle") => NativeReady

WaysInv == ModelStands /\ TakenLast /\ NoneRefused /\ NoRefusal

LEMMA KindsOfOperations ==
  /\ \A m : Takes(m) \/ Insists(m) <=> m.type \in OperationTypes
  /\ \A op \in Operations : Takes(op) \/ Insists(op)
  <1>1. \A m : Takes(m) \/ Insists(m) <=> m.type \in OperationTypes
    BY DEF Takes, Insists, OperationTypes
  <1> QED
    BY <1>1, OperationFields

LEMMA FreshWays ==
  ASSUME toWorker = <<>>, fromWorker = <<>>, wk = FreshWorker, ~Ordinary
  PROVE  WaysInv
  <1>1. DOMAIN toWorker = {} /\ DOMAIN fromWorker = {}
    OBVIOUS
  <1>2. wk.ops = <<>> /\ ~wk.resetting /\ ~wk.shuttingDown
    BY DEF FreshWorker
  <1>3. DOMAIN wk.ops = {}
    BY <1>2
  <1> QED
    BY <1>1, <1>2, <1>3 DEF WaysInv, ModelStands, TakenLast, NoneRefused, NoRefusal, NoReady

\* What the parent sends.
LEMMA SendingWays ==
  ASSUME Disciplined, WireTypes, TurnsInv, WaysInv, ModelGoesOn, ~Stopped, NEW ms, Sent(ms)
  PROVE  WaysInv'
  <1>1. fromWorker' = fromWorker /\ wk' = wk /\ \A j \in DOMAIN ms : Due(ms[j])
    BY DEF Sent
  <1>2. PICK k \in Nat : /\ DOMAIN toWorker = 1..k /\ \A j \in DOMAIN ms : j \in Nat \ {0}
                         /\ \A i \in DOMAIN toWorker : i \in DOMAIN toWorker' /\ toWorker'[i] = toWorker[i]
                         /\ \A j \in DOMAIN ms : k + j \in DOMAIN toWorker' /\ toWorker'[k + j] = ms[j]
                         /\ \A i \in DOMAIN toWorker' : i \in DOMAIN toWorker \/ \E j \in DOMAIN ms : i = k + j
    BY WhatIsAdded
  <1>3. Standing' => Standing
    BY DEF ModelGoesOn
  <1>4. ASSUME NEW j \in DOMAIN ms, ms[j].type \in OperationTypes
        PROVE  Standing /\ (Insists(ms[j]) => Ordinary) /\ (Takes(ms[j]) => ~Standing')
    <2>1. Operational \/ shutdown \in Draining
      BY <1>1, <1>4 DEF Due
    <2>2. Standing
      BY <2>1 DEF TurnsInv, Operational, Standing, GoingDown, Draining
    <2>3. Insists(ms[j]) => Ordinary
      <3>1. Insists(ms[j]) => Operational /\ init.resolved
        BY <1>1 DEF Insists, Due, Disciplined, OperationTypes
      <3> QED
        BY <2>2, <3>1 DEF Ordinary, Operational
    <2>4. Takes(ms[j]) => modelReset' = "waiting" \/ GoingDown'
      BY <1>1 DEF Takes, Due, GoingDown
    <2> QED
      BY <2>2, <2>3, <2>4 DEF Standing
  <1>5. ModelStands'
    <2>1. ASSUME Standing', NEW i \in DOMAIN toWorker' PROVE ~Takes(toWorker'[i])
      <3>1. CASE i \in DOMAIN toWorker
        BY <1>2, <1>3, <2>1, <3>1 DEF WaysInv, ModelStands
      <3>2. ASSUME NEW j \in DOMAIN ms, i = k + j PROVE ~Takes(toWorker'[i])
        BY <1>2, <1>4, <2>1, <3>2, KindsOfOperations
      <3> QED
        BY <1>2, <3>1, <3>2
    <2>2. NoReady' <=> NoReady
      BY <1>1 DEF NoReady
    <2>3. Standing' /\ (Ordinary' \/ ~NoReady') => wk.model = "loaded"
      BY <1>3, <2>2 DEF ModelGoesOn, WaysInv, ModelStands
    <2>4. Standing' => ~wk.resetting /\ ~wk.shuttingDown /\ \A i \in DOMAIN wk.ops : ~Takes(wk.ops[i])
      BY <1>3 DEF WaysInv, ModelStands
    <2> QED
      BY <1>1, <2>1, <2>3, <2>4 DEF ModelStands
  <1>6. TakenLast'
    <2>1. ASSUME NEW i \in DOMAIN toWorker', NEW j \in DOMAIN toWorker', Takes(toWorker'[i]),
                 toWorker'[j].type \in OperationTypes
          PROVE  j <= i
      <3>1. CASE i \in DOMAIN toWorker /\ j \in DOMAIN toWorker
        BY <1>2, <2>1, <3>1 DEF WaysInv, TakenLast
      <3>2. ASSUME i \in DOMAIN toWorker, NEW n \in DOMAIN ms, j = k + n PROVE FALSE
        <4>1. Standing
          BY <1>2, <1>4, <2>1, <3>2
        <4> QED
          BY <1>2, <2>1, <3>2, <4>1 DEF WaysInv, ModelStands
      <3>3. ASSUME NEW l \in DOMAIN ms, i = k + l, j \in DOMAIN toWorker PROVE j <= i
        BY <1>2, <3>3
      <3>4. ASSUME NEW l \in DOMAIN ms, i = k + l, NEW n \in DOMAIN ms, j = k + n PROVE j <= i
        <4>1. ms[l].type \in OperationTypes /\ ms[n].type \in OperationTypes
          BY <1>2, <2>1, <3>4, KindsOfOperations
        <4>2. l = n
          BY <4>1 DEF Sent
        <4> QED
          BY <1>2, <3>4, <4>2
      <3> QED
        BY <1>2, <3>1, <3>2, <3>3, <3>4
    <2>2. ASSUME NEW i \in DOMAIN wk.ops, Takes(wk.ops[i]), NEW j \in DOMAIN toWorker', toWorker'[j].type \in OperationTypes
          PROVE  FALSE
      <3>1. CASE j \in DOMAIN toWorker
        BY <1>2, <2>2, <3>1 DEF WaysInv, TakenLast
      <3>2. ASSUME NEW n \in DOMAIN ms, j = k + n PROVE FALSE
        <4>1. Standing
          BY <1>2, <1>4, <2>2, <3>2
        <4> QED
          BY <2>2, <4>1 DEF WaysInv, ModelStands
      <3> QED
        BY <1>2, <3>1, <3>2
    <2> QED
      BY <1>1, <2>1, <2>2 DEF WaysInv, TakenLast
  <1>7. NoneRefused'
    <2>1. NativeReady' <=> NativeReady
      BY <1>1 DEF NativeReady
    <2>2. ASSUME NEW i \in DOMAIN toWorker', Insists(toWorker'[i]) PROVE NativeReady
      <3>1. CASE i \in DOMAIN toWorker
        BY <1>2, <2>2, <3>1 DEF WaysInv, NoneRefused
      <3>2. ASSUME NEW j \in DOMAIN ms, i = k + j PROVE NativeReady
        <4>1. Ordinary /\ Standing
          BY <1>2, <1>4, <2>2, <3>2, KindsOfOperations
        <4> QED
          BY <4>1 DEF WaysInv, ModelStands, NativeReady
      <3> QED
        BY <1>2, <3>1, <3>2
    <2> QED
      BY <1>1, <2>1, <2>2 DEF WaysInv, NoneRefused
  <1>8. NoRefusal'
    BY <1>1 DEF WaysInv, NoRefusal
  <1> QED
    BY <1>5, <1>6, <1>7, <1>8 DEF WaysInv

\* What it handles.
LEMMA HandlingWays ==
  ASSUME WireTypes, WaysInv, ModelGoesOn, ~Stopped, Handled
  PROVE  WaysInv'
  <1>1. UNCHANGED <<toWorker, wk>> /\ fromWorker # <<>> /\ fromWorker' = Tail(fromWorker)
    BY DEF Handled
  <1>2. \A i \in DOMAIN fromWorker' : i + 1 \in DOMAIN fromWorker /\ fromWorker'[i] = fromWorker[i + 1]
    BY <1>1, RestOf DEF WireTypes
  <1>3. NoReady => NoReady'
    BY <1>2 DEF NoReady
  <1>4. ModelStands'
    <2>1. Standing' => Standing
      BY DEF ModelGoesOn
    <2>2. Standing' /\ (Ordinary' \/ ~NoReady') => wk.model = "loaded"
      BY <1>3, <2>1 DEF ModelGoesOn, WaysInv, ModelStands
    <2> QED
      BY <1>1, <2>1, <2>2 DEF WaysInv, ModelStands
  <1>5. TakenLast' /\ NoneRefused'
    BY <1>1 DEF WaysInv, TakenLast, NoneRefused, NativeReady
  <1>6. NoRefusal'
    BY <1>2 DEF WaysInv, NoRefusal
  <1> QED
    BY <1>4, <1>5, <1>6 DEF WaysInv

\* The worker hears a message, or none; what it says is no refusal.
LEMMA HearingWays ==
  ASSUME WireTypes, WaysInv, toWorker' = toWorker \/ Hears
  PROVE  /\ \A i \in DOMAIN toWorker' : \E k \in DOMAIN toWorker : toWorker'[i] = toWorker[k]
         /\ \A i, j \in DOMAIN toWorker' : Takes(toWorker'[i]) /\ toWorker'[j].type \in OperationTypes => j <= i
  <1>1. CASE Hears
    <2>1. \A i \in DOMAIN toWorker' : i \in Nat /\ i + 1 \in DOMAIN toWorker /\ toWorker'[i] = toWorker[i + 1]
      BY <1>1, WhatIsLeft
    <2>2. ASSUME NEW i \in DOMAIN toWorker', NEW j \in DOMAIN toWorker', Takes(toWorker'[i]),
                 toWorker'[j].type \in OperationTypes
          PROVE  j <= i
      <3>1. j + 1 <= i + 1
        BY <2>1, <2>2 DEF WaysInv, TakenLast
      <3> QED
        BY <2>1, <3>1
    <2> QED
      BY <2>1, <2>2
  <1> QED
    BY <1>1 DEF WaysInv, TakenLast

LEMMA SayingWays ==
  ASSUME WireTypes, WaysInv,
         fromWorker' = fromWorker \/ \E m : Says(m) /\ (m.type = "error" /\ m.id = 0 => m.attempt # 0)
  PROVE  NoRefusal'
  <1>1. CASE fromWorker' = fromWorker
    BY <1>1 DEF WaysInv, NoRefusal
  <1>2. ASSUME NEW m, Says(m), m.type = "error" /\ m.id = 0 => m.attempt # 0 PROVE NoRefusal'
    <2>1. \A i \in DOMAIN fromWorker' : fromWorker'[i] = m \/ (i \in DOMAIN fromWorker /\ fromWorker'[i] = fromWorker[i])
      BY <1>2, LastIsSaid
    <2> QED
      BY <1>2, <2>1 DEF WaysInv, NoRefusal
  <1> QED
    BY <1>1, <1>2

\* It says nothing of a model that is ready.
LEMMA NotReadyIsSaid ==
  ASSUME WireTypes, fromWorker' = fromWorker \/ \E m : Says(m) /\ m.type # "ready"
  PROVE  NoReady' <=> NoReady
  <1>1. CASE fromWorker' = fromWorker
    BY <1>1 DEF NoReady
  <1>2. ASSUME NEW m, Says(m), m.type # "ready" PROVE NoReady' <=> NoReady
    <2>1. /\ \A i \in DOMAIN fromWorker' : fromWorker'[i] = m \/ (i \in DOMAIN fromWorker /\ fromWorker'[i] = fromWorker[i])
          /\ \A i \in DOMAIN fromWorker : i \in DOMAIN fromWorker' /\ fromWorker'[i] = fromWorker[i]
      BY <1>2, LastIsSaid
    <2> QED
      BY <1>2, <2>1 DEF NoReady
  <1> QED
    BY <1>1, <1>2

\* A message other than an operation changes nothing about the operations.
LEMMA WaysStay ==
  ASSUME WireTypes, WaysInv, UNCHANGED lifeVars, toWorker' = toWorker \/ Hears, OpsKept, ModelKept,
         \/ fromWorker' = fromWorker
         \/ \E m : Says(m) /\ m.type # "ready" /\ (m.type = "error" /\ m.id = 0 => m.attempt # 0)
  PROVE  WaysInv'
  <1>1. /\ \A i \in DOMAIN toWorker' : \E k \in DOMAIN toWorker : toWorker'[i] = toWorker[k]
        /\ \A i, j \in DOMAIN toWorker' : Takes(toWorker'[i]) /\ toWorker'[j].type \in OperationTypes => j <= i
    BY HearingWays
  <1>2. NoRefusal' /\ (NoReady' <=> NoReady)
    BY SayingWays, NotReadyIsSaid
  <1>3. (Standing' <=> Standing) /\ (Ordinary' <=> Ordinary)
    BY DEF lifeVars, Standing, Ordinary, GoingDown, Draining
  <1>4. NativeReady' <=> NativeReady
    BY DEF ModelKept, NativeReady
  <1>5. ModelStands'
    BY <1>1, <1>2, <1>3 DEF WaysInv, ModelStands, OpsKept, ModelKept
  <1>6. TakenLast'
    BY <1>1 DEF WaysInv, TakenLast, OpsKept
  <1>7. NoneRefused'
    BY <1>1, <1>4 DEF WaysInv, NoneRefused, OpsKept
  <1> QED
    BY <1>2, <1>5, <1>6, <1>7 DEF WaysInv

\* What the worker does.
LEMMA WorkingWays ==
  ASSUME Disciplined, BooksInv, WireInv, CycleInv, TurnsInv, Worker, UNCHANGED lifeVars, WaysInv
  PROVE  WaysInv'
  <1>1. WireTypes /\ (toWorker' = toWorker \/ Hears)
    BY WorkerWires DEF WireInv
  <1>2. /\ \A i \in DOMAIN toWorker' : \E k \in DOMAIN toWorker : toWorker'[i] = toWorker[k]
        /\ \A i, j \in DOMAIN toWorker' : Takes(toWorker'[i]) /\ toWorker'[j].type \in OperationTypes => j <= i
    BY <1>1, HearingWays
  <1>3. (Standing' <=> Standing) /\ (Ordinary' <=> Ordinary)
    BY DEF lifeVars, Standing, Ordinary, GoingDown, Draining
  <1>4. 0 \notin Requests
    BY DEF Requests
  <1>5. wk.ops \in Seq(Operations) /\ \A i \in DOMAIN wk.ops : i \in Nat \ {0} /\ wk.ops[i] \in Operations
    <2>1. wk.ops \in Seq(Operations)
      BY <1>1 DEF WireTypes, WorkerRecords
    <2>2. DOMAIN wk.ops = 1..Len(wk.ops) /\ Len(wk.ops) \in Nat
      BY <2>1, LenProperties
    <2> QED
      BY <2>1, <2>2
  <1>6. ASSUME NEW n, Awaited(n) PROVE n # 0 /\ ~Ordinary
    BY <1>6 DEF Awaited, TurnsInv, Ordinary, CycleInv
  <1>7. CASE ReceiveInit
    <2>1. Hears /\ 1 \in DOMAIN toWorker /\ toWorker[1].type = "init" /\ OpsKept
      BY <1>1, <1>7, AtInit, WhatIsLeft
    <2>2. Awaited(toWorker[1].attempt) /\ NoReady /\ wk.model \notin {"loading", "loaded"}
      BY <2>1 DEF WireInv, LoadInv
    <2>3. toWorker[1].attempt # 0 /\ ~Ordinary
      BY <1>6, <2>2
    <2>4. CASE wk'.resetting = wk.resetting /\ wk'.shuttingDown = wk.shuttingDown /\ fromWorker' = fromWorker
      <3>1. ~NativeReady
        BY <2>2 DEF NativeReady
      <3>2. NoReady' <=> NoReady
        BY <2>4 DEF NoReady
      <3>3. ModelStands'
        BY <1>2, <1>3, <2>1, <2>2, <2>3, <2>4, <3>2 DEF WaysInv, ModelStands, OpsKept
      <3>4. TakenLast'
        BY <1>2, <2>1 DEF WaysInv, TakenLast, OpsKept
      <3>5. NoneRefused'
        BY <1>2, <2>1, <3>1 DEF WaysInv, NoneRefused, OpsKept
      <3>6. NoRefusal'
        BY <2>4 DEF WaysInv, NoRefusal
      <3> QED
        BY <3>3, <3>4, <3>5, <3>6 DEF WaysInv
    <2>5. CASE ModelKept /\ SaysFailure(toWorker[1].attempt)
      <3>1. \E m : Says(m) /\ m.type # "ready" /\ (m.type = "error" /\ m.id = 0 => m.attempt # 0)
        BY <2>3, <2>5 DEF SaysFailure
      <3> QED
        BY <1>1, <2>1, <2>5, <3>1, WaysStay
    <2> QED
      BY <1>1, <1>7, <2>4, <2>5, AtInit DEF ModelKept
  <1>8. CASE ModelLoads \/ ModelLoadFails
    <2>1. toWorker' = toWorker /\ OpsKept /\ wk.model = "loading"
      BY <1>1, <1>8, AtLoad
    <2>2. Awaited(wk.attempt) /\ NoReady /\ ~NativeReady
      BY <2>1 DEF WireInv, LoadInv, NativeReady
    <2>3. wk.attempt # 0 /\ ~Ordinary
      BY <1>6, <2>2
    <2>4. TakenLast' /\ NoneRefused'
      BY <2>1, <2>2 DEF WaysInv, TakenLast, NoneRefused, OpsKept
    <2>5. CASE /\ wk'.model = "loaded" /\ ~wk'.resetting /\ ~wk'.shuttingDown
               /\ \E m : Says(m) /\ m.type = "ready" /\ m.attempt = wk.attempt
      <3>1. NoRefusal'
        BY <1>1, <2>5, SayingWays
      <3>2. ModelStands'
        BY <1>3, <2>1, <2>5 DEF WaysInv, ModelStands, OpsKept
      <3> QED
        BY <2>4, <3>1, <3>2 DEF WaysInv
    <2>6. CASE wk'.resetting = wk.resetting /\ wk'.shuttingDown = wk.shuttingDown /\ SaysFailure(wk.attempt)
      <3>1. \E m : Says(m) /\ m.type # "ready" /\ (m.type = "error" /\ m.id = 0 => m.attempt # 0)
        BY <2>3, <2>6 DEF SaysFailure
      <3>2. NoRefusal' /\ (NoReady' <=> NoReady)
        BY <1>1, <3>1, SayingWays, NotReadyIsSaid
      <3>3. ModelStands'
        BY <1>3, <2>1, <2>2, <2>3, <2>6, <3>2 DEF WaysInv, ModelStands, OpsKept
      <3> QED
        BY <2>4, <3>2, <3>3 DEF WaysInv
    <2> QED
      BY <1>1, <1>8, <2>5, <2>6, AtLoad
  <1>9. CASE ReceivePrompt
    <2>1. OpsKept /\ ModelKept /\ toWorker[1].id \in Requests
      BY <1>1, <1>9, AtPrompt
    <2>2. fromWorker' = fromWorker \/ SaysError(toWorker[1].id)
      BY <1>1, <1>9, AtPrompt
    <2>3. SaysError(toWorker[1].id) =>
            \E m : Says(m) /\ m.type # "ready" /\ (m.type = "error" /\ m.id = 0 => m.attempt # 0)
      BY <1>4, <2>1 DEF SaysError
    <2> QED
      BY <1>1, <2>1, <2>2, <2>3, WaysStay
  <1>10. CASE ReceiveCancel
    <2>1. OpsKept /\ ModelKept /\ fromWorker' = fromWorker
      BY <1>1, <1>10, AtCancel
    <2> QED
      BY <1>1, <2>1, WaysStay
  <1>11. ASSUME NEW r \in Requests, PromptEnds(r) PROVE WaysInv'
    <2>1. /\ OpsKept /\ ModelKept
          /\ \/ \E m : Says(m) /\ m.type = "done" /\ m.id = r
             \/ fromWorker' = fromWorker \/ SaysError(r)
      BY <1>1, <1>11, AtEnd
    <2>2. \/ fromWorker' = fromWorker
          \/ \E m : Says(m) /\ m.type # "ready" /\ (m.type = "error" /\ m.id = 0 => m.attempt # 0)
      BY <1>4, <2>1 DEF SaysError
    <2> QED
      BY <1>1, <2>1, <2>2, WaysStay
  <1>12. CASE ReceiveOperation
    <2>1. /\ Hears /\ toWorker[1] \in Operations /\ fromWorker' = fromWorker /\ ModelKept
          /\ wk'.ops = Append(wk.ops, toWorker[1]) /\ wk'.phase = wk.phase
      BY <1>1, <1>12, AtOperation
    <2>2. PICK op \in Operations : op = toWorker[1] /\ op.type \in OperationTypes
      BY <2>1, OperationFields
    <2>3. PICK n \in Nat : n = Len(wk.ops) /\ DOMAIN wk.ops = 1..n
      BY <1>5, LenProperties
    <2>4. /\ \A i \in DOMAIN wk.ops : i \in DOMAIN wk'.ops /\ wk'.ops[i] = wk.ops[i]
          /\ \A i \in DOMAIN wk'.ops : i \in DOMAIN wk.ops \/ i = n + 1
          /\ wk'.ops[n + 1] = op
      <3>1. PICK ops : ops = Append(wk.ops, op)
        OBVIOUS
      <3>2. /\ \A i \in DOMAIN wk.ops : i \in DOMAIN ops /\ ops[i] = wk.ops[i]
            /\ \A i \in DOMAIN ops : i \in DOMAIN wk.ops \/ i = n + 1
            /\ ops[n + 1] = op
        BY <1>5, <2>3, <3>1, OneMoreOf
      <3> QED
        BY <2>1, <2>2, <3>1, <3>2
    <2>5. /\ 1 \in DOMAIN toWorker
          /\ \A i \in DOMAIN toWorker' : i \in Nat \ {0} /\ i + 1 \in DOMAIN toWorker /\ toWorker'[i] = toWorker[i + 1]
      BY <1>1, <2>1, WhatIsLeft
    <2>6. \A i \in DOMAIN wk.ops : ~Takes(wk.ops[i])
      BY <2>2, <2>5 DEF WaysInv, TakenLast
    <2>7. (NativeReady' <=> NativeReady) /\ (NoReady' <=> NoReady)
      BY <2>1 DEF ModelKept, NativeReady, NoReady
    <2>8. ModelStands'
      <3>1. Standing => ~Takes(op)
        BY <2>2, <2>5 DEF WaysInv, ModelStands
      <3> QED
        BY <1>2, <1>3, <2>1, <2>4, <2>6, <2>7, <3>1 DEF WaysInv, ModelStands, ModelKept
    <2>9. TakenLast'
      <3>1. ASSUME NEW i \in DOMAIN wk'.ops, Takes(wk'.ops[i])
            PROVE  /\ \A j \in DOMAIN wk'.ops : j <= i
                   /\ \A j \in DOMAIN toWorker' : toWorker'[j].type \notin OperationTypes
        <4>1. i = n + 1 /\ Takes(op)
          BY <2>4, <2>6, <3>1
        <4>2. \A j \in DOMAIN wk'.ops : j <= n + 1
          BY <2>3, <2>4
        <4>3. ASSUME NEW j \in DOMAIN toWorker', toWorker'[j].type \in OperationTypes PROVE FALSE
          <5>1. j \in Nat \ {0} /\ j + 1 <= 1
            BY <2>2, <2>5, <4>1, <4>3 DEF WaysInv, TakenLast
          <5> QED
            BY <5>1
        <4> QED
          BY <4>1, <4>2, <4>3
      <3> QED
        BY <1>2, <3>1 DEF TakenLast
    <2>10. NoneRefused'
      <3>1. Insists(op) => NativeReady
        BY <2>2, <2>5 DEF WaysInv, NoneRefused
      <3>2. \A i \in DOMAIN wk'.ops : Insists(wk'.ops[i]) /\ (i # 1 \/ wk'.phase = "idle") => NativeReady
        BY <2>1, <2>4, <3>1 DEF WaysInv, NoneRefused
      <3>3. \A i \in DOMAIN toWorker' : Insists(toWorker'[i]) => NativeReady
        BY <1>2 DEF WaysInv, NoneRefused
      <3> QED
        BY <2>7, <3>2, <3>3 DEF NoneRefused
    <2>11. NoRefusal'
      BY <2>1 DEF WaysInv, NoRefusal
    <2> QED
      BY <2>8, <2>9, <2>10, <2>11 DEF WaysInv
  <1>13. CASE OperationBegins
    <2>1. toWorker' = toWorker /\ wk.ops # <<>> /\ wk.phase = "idle"
      BY <1>1, <1>13, AtBegin
    <2>2. 1 \in DOMAIN wk.ops /\ wk.ops[1] \in Operations
      BY <1>5, <2>1, RestOf
    <2>3. ~(wk.ops[1].type # "shutdown" /\ ~NativeReady)
      <3>1. wk.ops[1].type # "shutdown" => Insists(wk.ops[1])
        BY <2>2, OperationFields DEF Insists, OperationTypes
      <3> QED
        BY <2>1, <2>2, <3>1 DEF WaysInv, NoneRefused
    <2>4. /\ wk'.ops = wk.ops /\ wk'.phase = "waiting" /\ wk'.model = wk.model /\ fromWorker' = fromWorker
          /\ wk'.resetting = (wk.resetting \/ wk.ops[1].type = "reset_model")
          /\ wk'.shuttingDown = (wk.shuttingDown \/ wk.ops[1].type = "shutdown")
      BY <1>1, <1>13, <2>3, AtBegin
    <2>5. CASE Takes(wk.ops[1])
      <3>1. ~Standing'
        BY <1>3, <2>2, <2>5 DEF WaysInv, ModelStands
      <3>2. \A i \in DOMAIN wk.ops : i = 1
        <4>1. \A i \in DOMAIN wk.ops : i <= 1
          BY <2>2, <2>5 DEF WaysInv, TakenLast
        <4> QED
          BY <1>5, <4>1
      <3>3. \A i \in DOMAIN toWorker : toWorker[i].type \notin OperationTypes
        BY <2>2, <2>5 DEF WaysInv, TakenLast
      <3>4. NoneRefused'
        BY <2>1, <2>4, <3>2, <3>3, KindsOfOperations DEF NoneRefused
      <3>5. ModelStands' /\ TakenLast' /\ NoRefusal'
        BY <2>1, <2>4, <3>1 DEF WaysInv, ModelStands, TakenLast, NoRefusal
      <3> QED
        BY <3>4, <3>5 DEF WaysInv
    <2>6. CASE ~Takes(wk.ops[1])
      <3>1. wk'.resetting = wk.resetting /\ wk'.shuttingDown = wk.shuttingDown
        BY <2>4, <2>6 DEF Takes, WireInv, WireTypes, WorkerRecords
      <3>2. (NativeReady' <=> NativeReady) /\ (NoReady' <=> NoReady)
        BY <2>4, <3>1 DEF NativeReady, NoReady
      <3>3. ModelStands'
        BY <1>3, <2>1, <2>4, <3>1, <3>2 DEF WaysInv, ModelStands
      <3>4. TakenLast' /\ NoRefusal'
        BY <2>1, <2>4 DEF WaysInv, TakenLast, NoRefusal
      <3>5. NoneRefused'
        BY <2>1, <2>4, <3>2 DEF WaysInv, NoneRefused
      <3> QED
        BY <3>3, <3>4, <3>5 DEF WaysInv
    <2> QED
      BY <2>5, <2>6
  <1>14. CASE OperationEnds
    <2>1. /\ toWorker' = toWorker /\ wk.phase = "waiting" /\ NextOp
          /\ wk'.resetting = wk.resetting /\ wk'.shuttingDown = wk.shuttingDown
      BY <1>1, <1>14, AtFinish
    <2>2. PICK m : /\ Says(m)
                   /\ \/ ModelKept /\ wk.ops[1].type = "reset_session" /\ m.type = "reset_done"
                      \/ /\ wk.ops[1].type \in {"reset_model", "shutdown"}
                         /\ m.type \in {"model_reset_done", "shutdown_done"}
      BY <1>1, <1>14, AtFinish
    <2>3. NoRefusal' /\ (NoReady' <=> NoReady)
      <3>1. m.type \notin {"ready", "error"}
        BY <2>2
      <3> QED
        BY <1>1, <2>2, <3>1, SayingWays, NotReadyIsSaid
    <2>4. /\ 1 \in DOMAIN wk.ops
          /\ \A i \in DOMAIN wk'.ops : i \in Nat \ {0} /\ i + 1 \in DOMAIN wk.ops /\ wk'.ops[i] = wk.ops[i + 1]
      <3>1. PICK ops : ops = Tail(wk.ops)
        OBVIOUS
      <3>2. \A i \in DOMAIN ops : i \in Nat \ {0} /\ i + 1 \in DOMAIN wk.ops /\ ops[i] = wk.ops[i + 1]
        BY <1>5, <2>1, <3>1, RestOf DEF NextOp
      <3>3. 1 \in DOMAIN wk.ops
        BY <1>5, <2>1, RestOf DEF NextOp
      <3> QED
        BY <2>1, <3>1, <3>2, <3>3 DEF NextOp
    <2>5. TakenLast'
      <3>1. ASSUME NEW i \in DOMAIN wk'.ops, Takes(wk'.ops[i])
            PROVE  /\ \A j \in DOMAIN wk'.ops : j <= i
                   /\ \A j \in DOMAIN toWorker' : toWorker'[j].type \notin OperationTypes
        <4>1. i \in Nat /\ i + 1 \in DOMAIN wk.ops /\ Takes(wk.ops[i + 1])
          BY <2>4, <3>1
        <4>2. \A j \in DOMAIN wk.ops : j <= i + 1
          BY <4>1 DEF WaysInv, TakenLast
        <4>3. \A j \in DOMAIN wk'.ops : j <= i
          BY <2>4, <4>1, <4>2
        <4> QED
          BY <2>1, <4>1, <4>3 DEF WaysInv, TakenLast
      <3> QED
        BY <1>2, <3>1 DEF TakenLast
    <2>6. CASE Takes(wk.ops[1])
      <3>1. ~Standing'
        BY <1>3, <2>4, <2>6 DEF WaysInv, ModelStands
      <3>2. \A i \in DOMAIN wk'.ops : FALSE
        <4>1. \A i \in DOMAIN wk.ops : i <= 1
          BY <2>4, <2>6 DEF WaysInv, TakenLast
        <4> QED
          BY <2>4, <4>1
      <3>3. \A i \in DOMAIN toWorker : toWorker[i].type \notin OperationTypes
        BY <2>4, <2>6 DEF WaysInv, TakenLast
      <3>4. NoneRefused'
        BY <2>1, <3>2, <3>3, KindsOfOperations DEF NoneRefused
      <3>5. ModelStands'
        BY <3>1 DEF ModelStands
      <3> QED
        BY <2>3, <2>5, <3>4, <3>5 DEF WaysInv
    <2>7. CASE ~Takes(wk.ops[1])
      <3>1. ModelKept
        BY <2>2, <2>7 DEF Takes
      <3>2. NativeReady' <=> NativeReady
        BY <3>1 DEF NativeReady, ModelKept
      <3>3. \A i \in DOMAIN wk'.ops : i + 1 # 1
        BY <2>4
      <3>4. NoneRefused'
        BY <2>1, <2>4, <3>2, <3>3 DEF WaysInv, NoneRefused
      <3>5. ModelStands'
        BY <1>3, <2>1, <2>3, <2>4, <3>1 DEF WaysInv, ModelStands, ModelKept
      <3> QED
        BY <2>3, <2>5, <3>4, <3>5 DEF WaysInv
    <2> QED
      BY <2>6, <2>7
  <1>15. ~Fault("dispose")
    BY DEF Fault, Disciplined
  <1> QED
    BY <1>7, <1>8, <1>9, <1>10, <1>11, <1>12, <1>13, <1>14, <1>15 DEF Worker, WorkerStep

LEMMA WaysHold == ASSUME Disciplined PROVE Spec => [](TurnsInv /\ WaysInv)
  <1>1. Init => TurnsInv /\ WaysInv
    <2> SUFFICES ASSUME Init PROVE TurnsInv /\ WaysInv
      OBVIOUS
    <2>1. TurnsInv
      BY DEF Init, WorkerInit, NoInit, TurnsInv, ResolvedMeansReady, Draining
    <2>2. ~Ordinary
      BY DEF Init, NoInit, Ordinary
    <2> QED
      BY <2>1, <2>2, FreshWays DEF Init, WorkerInit
  <1>2. ASSUME BooksInv, BoundaryInv, LifeInv, WireInv, CycleInv, TurnsInv, WaysInv, [Next]_vars
        PROVE  TurnsInv' /\ WaysInv'
    <2>1. InitInv /\ CallTypes /\ WireTypes
      BY <1>2 DEF LifeInv, InitInv, WireInv
    <2>2. TurnsInv' /\ (ModelGoesOn \/ Worker)
      BY <1>2, <2>1, StepsTurn DEF WaysInv
    <2>3. CASE Worker
      <3>1. UNCHANGED lifeVars
        BY <2>3 DEF Worker
      <3> QED
        BY <1>2, <2>2, <2>3, <3>1, WorkingWays
    <2>4. CASE ~Worker
      <3>1. ParentActs /\ ModelGoesOn
        BY <1>2, <2>1, <2>2, <2>4, StepsAct
      <3>2. CASE Stopped
        <4>1. toWorker' = <<>> /\ fromWorker' = <<>> /\ wk' = FreshWorker
          BY <3>2 DEF Stopped
        <4>2. ~Ordinary'
          <5>1. SUFFICES ASSUME Ordinary' PROVE FALSE
            OBVIOUS
          <5>2. wk' = wk /\ Standing /\ (Ordinary \/ ~NoReady)
            BY <3>1, <5>1 DEF ModelGoesOn, Ordinary
          <5>3. wk.model = "loaded"
            BY <1>2, <5>2 DEF WaysInv, ModelStands
          <5> QED
            BY <4>1, <5>2, <5>3, FreshFields
        <4>3. (toWorker = <<>> /\ fromWorker = <<>> /\ wk = FreshWorker /\ ~Ordinary)'
          BY <4>1, <4>2 DEF FreshWorker
        <4>4. WaysInv'
          BY <4>3, FreshWays, PTL
        <4> QED
          BY <2>2, <4>4
      <3>3. CASE ~Stopped
        BY <1>2, <2>1, <2>2, <3>1, <3>3, SendingWays, HandlingWays DEF ParentActs
      <3> QED
        BY <3>2, <3>3
    <2> QED
      BY <2>3, <2>4
  <1> QED
    BY <1>1, <1>2, BooksHold, BoundaryHolds, LifeHolds, WiresHold, PTL DEF Spec

\* While prompts are accepted at once the scheduler also dispatches them
\* (ResolvedMeansReady), whatever times out and however often init fails, if callers
\* cancel only prompts that have not ended and reset only what is ready, and nothing
\* fails to dispose: resetModel() then never takes an error for its answer, and no
\* worker is started before it does so itself.
THEOREM ResolvedModelsDispatch == ASSUME Disciplined PROVE Spec => []ResolvedMeansReady
  <1>1. TurnsInv => ResolvedMeansReady
    BY DEF TurnsInv
  <1> QED
    BY <1>1, WaysHold, PTL
================================================================================
