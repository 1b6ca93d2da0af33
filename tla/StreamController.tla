----------------------------- MODULE StreamController -----------------------------
(***************************************************************************)
(* From the worker's tokens to the stream of a request                     *)
(* (runtime/stream/streamController.mjs, and the parts of the router and   *)
(* of the settlement of requests that use it).                             *)
(*                                                                         *)
(* Small tokens are held back in a batch, which is shown when it is long   *)
(* enough, at a boundary of words, when its timer goes off, or when the    *)
(* request is done.  The consumer of a stream may leave at any time; to    *)
(* enqueue on a stream that is not readable throws, out of a timer or of a *)
(* message handler, and nothing in the runtime catches that.               *)
(*                                                                         *)
(* Between the arrival of a token and its push the router tells the        *)
(* observer of it, and through it the listeners of an action, which may    *)
(* call anything, and cancel the prompt, before they return.               *)
(*                                                                         *)
(* Every request here streams: of the others the worker sends no tokens.   *)
(* The life of a request is RequestLifecycle's, each request by itself.    *)
(***************************************************************************)
EXTENDS Naturals, SequencesExt

CONSTANTS
  Requests,               \* the requests there are
  MaxTokens,              \* bound: how many tokens one of them has
  Tokens,                 \* the tokens, once normalized
  Length,                 \* how many characters each has
  Breaks,                 \* those that end with a space or a punctuation mark
  MaxBufferedChars,       \* config.runtime.maxBufferedChars
  MinBoundaryFlushChars,  \* config.runtime.minBoundaryFlushChars
  FlushOnBoundary,        \* config.runtime.flushOnBoundary
  ConsumersLeave          \* consumers may cancel a stream

ASSUME StreamAssumption ==
  /\ MaxTokens \in Nat
  /\ Length \in [Tokens -> Nat] /\ Breaks \subseteq Tokens
  /\ MaxBufferedChars \in Nat /\ MinBoundaryFlushChars \in Nat
  /\ FlushOnBoundary \in BOOLEAN /\ ConsumersLeave \in BOOLEAN

VARIABLES
  batching,  \* config.runtime.enableMicroBatching
  status,    \* of each request: req.status
  result,    \* what `done` was settled with
  text,      \* req.finalText
  heard,     \* the token that the router is telling listeners of, before it pushes it
  batch,     \* streamBuffers: the data held back; there is a buffer when it is not empty
  timer,     \* buf.timer is set
  shown,     \* what has been enqueued on the stream
  stream,    \* the state of the stream
  crashed,   \* the request on whose stream an enqueue threw, which ended the process
  cut        \* auxiliary: the requests that a listener cancelled on hearing of a token

vars == <<batching, status, result, text, heard, batch, timer, shown, stream, crashed, cut>>

Init ==
  /\ batching \in BOOLEAN
  /\ status = [r \in Requests |-> "queued"]
  /\ result = [r \in Requests |-> "pending"]
  /\ text = [r \in Requests |-> <<>>]
  /\ heard = [r \in Requests |-> <<>>]
  /\ batch = [r \in Requests |-> <<>>]
  /\ timer = [r \in Requests |-> FALSE]
  /\ shown = [r \in Requests |-> <<>>]
  /\ stream = [r \in Requests |-> "readable"]
  /\ crashed = {}
  /\ cut = {}

\* No listener is being called: the thread is free for a message or a timer.
Idle == crashed = {} /\ \A r \in Requests : heard[r] = <<>>

--------------------------------------------------------------------------------
(* Streams, and what decides when a batch is shown                         *)

\* controller.enqueue(chunk)
Enqueue(r, chunk) ==
  IF stream[r] = "readable"
  THEN shown' = [shown EXCEPT ![r] = shown[r] \o chunk] /\ UNCHANGED crashed
  ELSE crashed' = {r} /\ UNCHANGED shown

\* safeClose() and safeError() do nothing to a stream that is not readable.
Finish(r, state) ==
  stream' = [stream EXCEPT ![r] = IF stream[r] = "readable" THEN state ELSE stream[r]]

Chars(t) == FoldLeft(LAMBDA n, token : n + Length[token], 0, t)

\* The last character of a text, whichever token it came with
EndsAtBoundary(t) ==
  \E i \in DOMAIN t :
    t[i] \in Breaks /\ \A j \in DOMAIN t : j > i => Length[t[j]] = 0

\* shouldFlushOnBoundary(), or a buffer that is full
FlushesAtOnce(t) ==
  \/ Chars(t) >= MaxBufferedChars
  \/ FlushOnBoundary /\ Chars(t) >= MinBoundaryFlushChars /\ EndsAtBoundary(t)

\* clearTimeout() and streamBuffers.delete()
DropBatch(r) ==
  /\ batch' = [batch EXCEPT ![r] = <<>>]
  /\ timer' = [timer EXCEPT ![r] = FALSE]

--------------------------------------------------------------------------------
(* Tokens                                                                  *)

\* Mutant: a batch that a timer has emptied once gets no timer again.
HoldWithoutTimer(r, t) ==
  /\ batch' = [batch EXCEPT ![r] = Append(batch[r], t)]
  /\ timer' = [timer EXCEPT ![r] = timer[r] \/ shown[r] = <<>>]
  /\ UNCHANGED <<shown, crashed>>

\* The token joins the batch, which has a timer from its first token on.
Hold(r, t) ==
  /\ batch' = [batch EXCEPT ![r] = Append(batch[r], t)]
  /\ timer' = [timer EXCEPT ![r] = TRUE]
  /\ UNCHANGED <<shown, crashed>>

\* Mutant: a batch that is full is shown by itself, and the token after it stays.
PushStreamLate(r, t) ==
  IF ~batching
  THEN Enqueue(r, <<t>>) /\ UNCHANGED <<batch, timer>>
  ELSE IF FlushesAtOnce(Append(batch[r], t))
       THEN Enqueue(r, <<t>>) /\ UNCHANGED <<batch, timer>>
       ELSE Hold(r, t)

\* Mutant: whether to flush is decided before the token has joined the batch.
PushStreamUnjoined(r, t) ==
  IF ~batching
  THEN Enqueue(r, <<t>>) /\ UNCHANGED <<batch, timer>>
  ELSE IF FlushesAtOnce(batch[r])
       THEN DropBatch(r) /\ Enqueue(r, Append(batch[r], t))
       ELSE Hold(r, t)

\* pushStream(req, token, config)
PushStream(r, t) ==
  IF ~batching
  THEN Enqueue(r, <<t>>) /\ UNCHANGED <<batch, timer>>
  ELSE LET joined == Append(batch[r], t) IN
       IF FlushesAtOnce(joined)
       THEN DropBatch(r) /\ Enqueue(r, joined)
       ELSE Hold(r, t)

\* Mutant: the tokens of a request that has been cancelled are pushed as well.
StreamMessageAlways(r, t) ==
  /\ Idle
  /\ status[r] \in {"running", "canceled"} /\ Len(text[r]) < MaxTokens
  /\ text' = [text EXCEPT ![r] = Append(text[r], t)]
  /\ heard' = [heard EXCEPT ![r] = <<t>>]
  /\ UNCHANGED <<batching, status, result, batch, timer, shown, stream, crashed, cut>>

\* The router has a `stream` message, and calls the observer.  The worker sends them
\* while it generates, and goes on for a while after a cancellation; those are ignored.
StreamMessage(r, t) ==
  /\ Idle
  /\ status[r] \in {"running", "canceled"} /\ Len(text[r]) < MaxTokens
  /\ IF status[r] = "canceled"
     THEN UNCHANGED <<text, heard>>
     ELSE /\ text' = [text EXCEPT ![r] = Append(text[r], t)]
          /\ heard' = [heard EXCEPT ![r] = <<t>>]
  /\ UNCHANGED <<batching, status, result, batch, timer, shown, stream, crashed, cut>>

\* The observer has returned.  Nobody looks at the status again.
ObserversReturn(r) ==
  /\ crashed = {}
  /\ heard[r] # <<>>
  /\ heard' = [heard EXCEPT ![r] = <<>>]
  /\ PushStream(r, heard[r][1])
  /\ UNCHANGED <<batching, status, result, text, stream, cut>>

\* Mutant: the timer's callback does not delete the buffer.
BatchTimeoutKept(r) ==
  /\ Idle
  /\ timer[r]
  /\ timer' = [timer EXCEPT ![r] = FALSE]
  /\ Enqueue(r, batch[r])
  /\ UNCHANGED <<batching, status, result, text, heard, batch, stream, cut>>

\* The timer of a batch goes off.
BatchTimeout(r) ==
  /\ Idle
  /\ timer[r]
  /\ DropBatch(r)
  /\ Enqueue(r, batch[r])
  /\ UNCHANGED <<batching, status, result, text, heard, stream, cut>>

--------------------------------------------------------------------------------
(* The end of a request                                                    *)

\* resolvePromptResult(): the streamed text wins, when there is any.
PromptResult(r) == IF Chars(text[r]) > 0 THEN "text" ELSE "res"

\* Mutant: closeStream() does not flush.
CloseStreamOnly(r) ==
  /\ DropBatch(r)
  /\ Finish(r, "closed")
  /\ result' = [result EXCEPT ![r] = PromptResult(r)]
  /\ UNCHANGED <<shown, crashed>>

\* closeStream(req), and the rest of settleCompletedRequest(), which is not reached
\* when the flush throws.
CloseAndResolve(r) ==
  IF batch[r] # <<>> /\ stream[r] # "readable"
  THEN /\ timer' = [timer EXCEPT ![r] = FALSE]
       /\ Enqueue(r, batch[r])
       /\ UNCHANGED <<batch, stream, result>>
  ELSE /\ DropBatch(r)
       /\ IF batch[r] # <<>> THEN Enqueue(r, batch[r]) ELSE UNCHANGED <<shown, crashed>>
       /\ Finish(r, "closed")
       /\ result' = [result EXCEPT ![r] = PromptResult(r)]

\* The router has a `done` message: scheduler.complete(), settleCompletedRequest().
Completed(r) ==
  /\ Idle
  /\ status[r] = "running"
  /\ status' = [status EXCEPT ![r] = "done"]
  /\ CloseAndResolve(r)
  /\ UNCHANGED <<batching, text, heard, cut>>

\* errorStream(req, err) and rejectDone(err)
ErrorAndReject(r) ==
  /\ DropBatch(r)
  /\ Finish(r, "errored")
  /\ result' = [result EXCEPT ![r] = "rejected"]

\* The router has an `error` message: scheduler.fail(), settleFailedRequest().
Failed(r) ==
  /\ Idle
  /\ status[r] = "running"
  /\ status' = [status EXCEPT ![r] = "error"]
  /\ ErrorAndReject(r)
  /\ UNCHANGED <<batching, text, heard, shown, crashed, cut>>

\* Mutant: cancelStream() closes the stream and leaves the batch to its timer.
CloseAndRejectOnly(r) ==
  /\ Finish(r, "closed")
  /\ result' = [result EXCEPT ![r] = "rejected"]
  /\ UNCHANGED <<batch, timer>>

\* cancelStream(req) and rejectDone()
CloseAndReject(r) ==
  /\ DropBatch(r)
  /\ Finish(r, "closed")
  /\ result' = [result EXCEPT ![r] = "rejected"]

\* cancelPrompt(), a reset or a shutdown cancels the request, at any time and from a
\* listener too.
Canceled(r) ==
  /\ crashed = {}
  /\ status[r] \in {"queued", "running"}
  /\ status' = [status EXCEPT ![r] = "canceled"]
  /\ CloseAndReject(r)
  /\ cut' = IF heard[r] = <<>> THEN cut ELSE cut \union {r}
  /\ UNCHANGED <<batching, text, heard, shown, crashed>>

--------------------------------------------------------------------------------
(* The scheduler and the consumer                                          *)

\* drain() gives the request to the worker.
Dispatched(r) ==
  /\ Idle
  /\ status[r] = "queued"
  /\ status' = [status EXCEPT ![r] = "running"]
  /\ UNCHANGED <<batching, result, text, heard, batch, timer, shown, stream, crashed, cut>>

\* The consumer cancels the stream, or leaves a loop over it.
ConsumerLeaves(r) ==
  /\ crashed = {}
  /\ ConsumersLeave
  /\ stream[r] = "readable"
  /\ stream' = [stream EXCEPT ![r] = "left"]
  /\ UNCHANGED <<batching, status, result, text, heard, batch, timer, shown, crashed, cut>>

Next ==
  \E r \in Requests :
    \/ Dispatched(r)
    \/ \E t \in Tokens : StreamMessage(r, t)
    \/ ObserversReturn(r)
    \/ BatchTimeout(r)
    \/ Completed(r) \/ Failed(r) \/ Canceled(r)
    \/ ConsumerLeaves(r)

Spec == Init /\ [][Next]_vars

\* A timer that is set goes off, and listeners return.  No token, answer or consumer
\* has to come.
FairSpec == Spec /\ \A r \in Requests : WF_vars(BatchTimeout(r)) /\ WF_vars(ObserversReturn(r))

--------------------------------------------------------------------------------
(* Safety                                                                  *)

\* What is held back is not what would be shown at once.
BatchesAreShort == \A r \in Requests : batch[r] = <<>> \/ ~FlushesAtOnce(batch[r])

\* The types; a batch stays below config.runtime.maxBufferedChars.
StreamTypeOK ==
  /\ batching \in BOOLEAN /\ crashed \subseteq Requests
  /\ status \in [Requests -> {"queued", "running", "done", "error", "canceled"}]
  /\ result \in [Requests -> {"pending", "text", "res", "rejected"}]
  /\ text \in [Requests -> Seq(Tokens)]
  /\ heard \in [Requests -> Seq(Tokens)] /\ cut \subseteq Requests
  /\ batch \in [Requests -> Seq(Tokens)]
  /\ BatchesAreShort
  /\ timer \in [Requests -> BOOLEAN]
  /\ shown \in [Requests -> Seq(Tokens)]
  /\ stream \in [Requests -> {"readable", "closed", "errored", "left"}]

\* As long as the prompt goes on, what was shown, what is held back and the token
\* that listeners hear of make up req.finalText: no flush, by a timer, a boundary or a
\* full buffer, loses tokens, repeats them or changes their order.
NothingIsLost ==
  crashed = {} => \A r \in Requests :
    result[r] = "pending" => text[r] = shown[r] \o batch[r] \o heard[r]

\* Who reads the stream of a prompt to its end has read what `done` resolves to.
DoneIsShown ==
  \A r \in Requests : result[r] \in {"text", "res"} => shown[r] = text[r]

\* What is held back has a timer that will show it, and a timer that is set finds
\* something to show on behalf of a prompt that still runs: one that outlives its
\* batch would throw on a stream that has been closed.  The one exception is a prompt
\* that a listener cancelled on hearing of a token: the router pushes that token.
HeldTextIsTimed ==
  crashed = {} => \A r \in Requests :
    /\ batch[r] # <<>> <=> timer[r]
    /\ timer[r] => status[r] = "running" \/ r \in cut

\* An enqueue throws only on a stream that its consumer has left, or whose prompt a
\* listener has cancelled on hearing of its token (which the router's "Stream observers
\* must not affect prompt streaming behavior" overlooks): in whichever other order
\* tokens, timers, answers and cancellations come, the runtime's own closing, failing
\* and cancelling of streams never meets a late enqueue.
OnlyCallersCrashIt == \A r \in crashed : stream[r] = "left" \/ r \in cut

\* How far the promise `done` of each request is.
End == [r \in Requests |->
          CASE result[r] = "pending" -> "open"
            [] result[r] = "rejected" -> "failed"
            [] OTHER -> "done"]

\* What the stream promises, whatever the batches and timers are.
Promise == INSTANCE TokenStream WITH end <- End
ImplementsTokenStream == Promise!Spec

--------------------------------------------------------------------------------
(* Liveness                                                                *)

\* Every token that has come is shown after a while, whether or not another one
\* comes, unless the prompt fails or is cancelled first.
TokensAreShown ==
  \A r \in Requests : \A n \in 1..MaxTokens :
    Len(text[r]) >= n ~> Len(shown[r]) >= n \/ result[r] = "rejected" \/ crashed # {}
================================================================================
