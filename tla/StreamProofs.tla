------------------------------ MODULE StreamProofs ------------------------------
(***************************************************************************)
(* The stream controller keeps its promise, for all requests and tokens,   *)
(* any number of them, and any configuration.  No proof looks at how long  *)
(* a token is or what a boundary is: when a batch is shown does not        *)
(* matter, only that it is shown whole, after what came before it.         *)
(***************************************************************************)
EXTENDS StreamController, SequenceTheorems, TLAPS

\* While the process is up, a promise is pending as long as its request is, its
\* stream is closed by nobody else, and only a batching runtime holds text back.  What
\* listeners hear of is a single token of a prompt that runs, or that one of them has just
\* cancelled.
StreamsFollowStatus ==
  crashed = {} => \A r \in Requests :
    /\ result[r] = "pending" <=> status[r] \in {"queued", "running"}
    /\ result[r] = "pending" => stream[r] \in {"readable", "left"}
    /\ result[r] # "pending" => stream[r] # "readable"
    /\ ~batching => batch[r] = <<>>
    /\ heard[r] # <<>> =>
         /\ heard[r][1] \in Tokens /\ heard[r] = <<heard[r][1]>>
         /\ status[r] = "running" \/ r \in cut
    /\ r \in cut => status[r] = "canceled"

\* The inductive invariant.  The properties lean on each other: the text shown at
\* the end is all of it because nothing was lost before, and a flush does not throw
\* because timers and batches do not outlive the pending promise.
StreamInv ==
  /\ StreamTypeOK
  /\ StreamsFollowStatus
  /\ NothingIsLost
  /\ DoneIsShown
  /\ HeldTextIsTimed
  /\ OnlyCallersCrashIt

--------------------------------------------------------------------------------
(* Sequences                                                               *)

\* A sequence is a prefix of itself with something after it.
LEMMA PrefixOfConcat ==
  ASSUME NEW S, NEW s \in Seq(S), NEW u \in Seq(S)
  PROVE  IsPrefix(s, s \o u)
  <1>1. s \o u \in Seq(S) /\ Len(s) \in Nat /\ Len(s \o u) = Len(s) + Len(u) /\ Len(u) \in Nat
    BY ConcatProperties, LenProperties
  <1>2. SubSeq(s, 1, Len(s)) = SubSeq(s \o u, 1, Len(s))
    <2>1. CASE s = <<>>
      <3>1. Len(s) = 0
        BY <2>1, EmptySeq
      <3> QED
        BY <3>1, SubSeqEmpty
    <2>2. CASE s # <<>>
      <3>1. Len(s) \in Nat \ {0}
        BY <2>2, EmptySeq
      <3> QED
        BY <3>1, SubSeqOfConcat1
    <2> QED
      BY <2>1, <2>2
  <1> QED
    BY <1>1, <1>2 DEF IsPrefix

\* In particular of itself.
LEMMA PrefixOfItself ==
  ASSUME NEW S, NEW s \in Seq(S)
  PROVE  IsPrefix(s, s)
  <1>1. s \o <<>> = s /\ <<>> \in Seq(S)
    BY ConcatEmptySeq, EmptySeq
  <1> QED
    BY <1>1, PrefixOfConcat

\* A token that joins what is held back comes after all that has been shown.
LEMMA TokenJoins ==
  \A a, b \in Seq(Tokens), t \in Tokens :
    /\ Append(a \o b, t) = a \o Append(b, t)
    /\ Append(b, t) \in Seq(Tokens) /\ Append(b, t) # <<>>
  <1> TAKE a, b \in Seq(Tokens), t \in Tokens
  <1>1. <<t>> \in Seq(Tokens) /\ a \o b \in Seq(Tokens)
    BY ConcatProperties
  <1>2. Append(a \o b, t) = (a \o b) \o <<t>> /\ Append(b, t) = b \o <<t>>
    BY <1>1, AppendIsConcat
  <1>3. (a \o b) \o <<t>> = a \o (b \o <<t>>)
    BY <1>1, ConcatAssociative
  <1> QED
    BY <1>2, <1>3, AppendProperties

\* As a text of its own, it comes last.
LEMMA TokenComesLast ==
  \A a, b \in Seq(Tokens), t \in Tokens : Append(a \o b, t) = a \o b \o <<t>>
  <1> TAKE a, b \in Seq(Tokens), t \in Tokens
  <1>1. a \o b \in Seq(Tokens)
    BY ConcatProperties
  <1> QED
    BY <1>1, AppendIsConcat

\* Nothing at the end of a text is no part of it.
LEMMA NothingJoins ==
  \A a, b \in Seq(Tokens) : a \o b \o <<>> = a \o b /\ a \o <<>> = a
  <1> TAKE a, b \in Seq(Tokens)
  <1>1. a \o b \in Seq(Tokens)
    BY ConcatProperties
  <1> QED
    BY <1>1, ConcatEmptySeq

--------------------------------------------------------------------------------
(* The invariant holds at the start, and every action keeps it             *)

\* What pushStream() does comes to this: all that is held back, and the token, are
\* shown, or the token is held back too.
LEMMA PushShowsOrHolds ==
  ASSUME StreamInv, crashed = {}, NEW r \in Requests, NEW t \in Tokens, PushStream(r, t)
  PROVE  \/ DropBatch(r) /\ Enqueue(r, Append(batch[r], t))
         \/ batching /\ ~FlushesAtOnce(Append(batch[r], t)) /\ Hold(r, t)
  <1>1. CASE ~batching
    <2>1. batch[r] = <<>> /\ timer[r] = FALSE
      BY <1>1 DEF StreamInv, StreamsFollowStatus, HeldTextIsTimed, StreamTypeOK
    <2>2. Append(batch[r], t) = <<t>>
      BY <2>1
    <2>3. batch = [batch EXCEPT ![r] = <<>>] /\ timer = [timer EXCEPT ![r] = FALSE]
      BY <2>1 DEF StreamInv, StreamTypeOK
    <2> QED
      BY <1>1, <2>2, <2>3 DEF PushStream, DropBatch
  <1>2. CASE batching
    BY <1>2 DEF PushStream
  <1> QED
    BY <1>1, <1>2

LEMMA StreamInit == Init => StreamInv
  <1> SUFFICES ASSUME Init PROVE StreamInv
    OBVIOUS
  <1>1. <<>> \in Seq(Tokens) /\ <<>> \o <<>> = <<>>
    BY EmptySeq, ConcatEmptySeq
  <1>2. StreamTypeOK
    BY <1>1 DEF Init, StreamTypeOK, BatchesAreShort
  <1>3. StreamsFollowStatus /\ DoneIsShown /\ HeldTextIsTimed /\ OnlyCallersCrashIt
    BY DEF Init, StreamsFollowStatus, DoneIsShown, HeldTextIsTimed, OnlyCallersCrashIt
  <1>4. NothingIsLost
    BY <1>1 DEF Init, NothingIsLost
  <1> QED
    BY <1>2, <1>3, <1>4 DEF StreamInv

\* To show all that is held back, and the token that was heard, keeps the invariant,
\* and throws only when the consumer has left.
LEMMA ShowingKeepsInv ==
  ASSUME StreamInv, crashed = {}, NEW r \in Requests, status[r] = "running",
         NEW chunk \in Seq(Tokens), text[r] = shown[r] \o chunk,
         DropBatch(r), Enqueue(r, chunk), heard' = [heard EXCEPT ![r] = <<>>],
         UNCHANGED <<batching, status, result, text, stream, cut>>
  PROVE  StreamInv'
  <1> USE DEF StreamInv
  <1>1. result[r] = "pending" /\ stream[r] \in {"readable", "left"}
    BY DEF StreamsFollowStatus
  <1>2. /\ shown' \in [Requests -> Seq(Tokens)] /\ crashed' \subseteq Requests
        /\ \A q \in Requests \ {r} : shown'[q] = shown[q]
        /\ crashed' = {} => shown'[r] = shown[r] \o chunk
        /\ crashed' # {} => crashed' = {r} /\ stream[r] = "left"
    <2>1. shown[r] \o chunk \in Seq(Tokens)
      BY ConcatProperties DEF StreamTypeOK
    <2> QED
      BY <1>1, <2>1 DEF Enqueue, StreamTypeOK
  <1>3. /\ batch' \in [Requests -> Seq(Tokens)] /\ timer' \in [Requests -> BOOLEAN]
        /\ batch'[r] = <<>> /\ timer'[r] = FALSE
        /\ \A q \in Requests \ {r} : batch'[q] = batch[q] /\ timer'[q] = timer[q]
    BY EmptySeq DEF DropBatch, StreamTypeOK
  <1>4. /\ heard' \in [Requests -> Seq(Tokens)] /\ heard'[r] = <<>>
        /\ \A q \in Requests \ {r} : heard'[q] = heard[q]
    BY EmptySeq DEF StreamTypeOK
  <1>5. StreamTypeOK'
    <2>1. BatchesAreShort'
      BY <1>3 DEF StreamTypeOK, BatchesAreShort
    <2> QED
      BY <1>2, <1>3, <1>4, <2>1 DEF StreamTypeOK
  <1>6. StreamsFollowStatus' /\ HeldTextIsTimed'
    BY <1>3, <1>4 DEF StreamsFollowStatus, HeldTextIsTimed
  <1>7. NothingIsLost'
    <2>1. crashed' = {} => text'[r] = shown'[r] \o batch'[r] \o heard'[r]
      <3>1. shown'[r] \in Seq(Tokens) /\ <<>> \in Seq(Tokens)
        BY <1>2, EmptySeq
      <3>2. shown'[r] \o <<>> \o <<>> = shown'[r]
        BY <3>1, NothingJoins, Zenon
      <3> QED
        BY <1>2, <1>3, <1>4, <3>2
    <2> QED
      BY <1>2, <1>3, <1>4, <2>1 DEF NothingIsLost
  <1>8. DoneIsShown'
    BY <1>1, <1>2 DEF DoneIsShown
  <1>9. OnlyCallersCrashIt'
    BY <1>2 DEF OnlyCallersCrashIt
  <1> QED
    BY <1>5, <1>6, <1>7, <1>8, <1>9

\* To show anything of a prompt that a listener has cut short throws.
LEMMA LateShowThrows ==
  ASSUME StreamInv, crashed = {}, NEW r \in Requests, status[r] = "canceled", r \in cut,
         NEW chunk, DropBatch(r), Enqueue(r, chunk), heard' = [heard EXCEPT ![r] = <<>>],
         UNCHANGED <<batching, status, result, text, stream, cut>>
  PROVE  StreamInv' /\ UNCHANGED shown
  <1> USE DEF StreamInv
  <1>1. crashed' = {r} /\ UNCHANGED shown
    BY DEF StreamsFollowStatus, Enqueue
  <1>2. StreamTypeOK'
    <2>1. /\ batch' \in [Requests -> Seq(Tokens)] /\ timer' \in [Requests -> BOOLEAN]
          /\ batch'[r] = <<>> /\ \A q \in Requests \ {r} : batch'[q] = batch[q]
          /\ heard' \in [Requests -> Seq(Tokens)]
      BY EmptySeq DEF DropBatch, StreamTypeOK
    <2>2. BatchesAreShort'
      BY <2>1 DEF StreamTypeOK, BatchesAreShort
    <2> QED
      BY <1>1, <2>1, <2>2 DEF StreamTypeOK
  <1>3. /\ StreamsFollowStatus' /\ NothingIsLost' /\ DoneIsShown' /\ HeldTextIsTimed'
        /\ OnlyCallersCrashIt'
    BY <1>1 DEF StreamsFollowStatus, NothingIsLost, DoneIsShown, HeldTextIsTimed, OnlyCallersCrashIt
  <1> QED
    BY <1>1, <1>2, <1>3

\* A token that has come is part of the text, and is heard.
LEMMA MessageKeepsInv ==
  ASSUME StreamInv, NEW r \in Requests, NEW t \in Tokens, StreamMessage(r, t),
         status[r] = "running"
  PROVE  StreamInv'
  <1> USE DEF StreamInv
  <1>1. /\ crashed = {} /\ heard[r] = <<>>
        /\ text' = [text EXCEPT ![r] = Append(text[r], t)]
        /\ heard' = [heard EXCEPT ![r] = <<t>>]
        /\ UNCHANGED <<batching, status, result, batch, timer, shown, stream, crashed, cut>>
    BY DEF StreamMessage, Idle
  <1>2. /\ shown[r] \in Seq(Tokens) /\ batch[r] \in Seq(Tokens) /\ text[r] \in Seq(Tokens)
        /\ text[r] = shown[r] \o batch[r] \o heard[r] /\ result[r] = "pending"
    BY <1>1 DEF StreamTypeOK, NothingIsLost, StreamsFollowStatus
  <1>3. text[r] = shown[r] \o batch[r]
    BY <1>1, <1>2, NothingJoins, Zenon
  <1>4. /\ Append(text[r], t) = shown[r] \o batch[r] \o <<t>>
        /\ <<t>> \in Seq(Tokens) /\ <<t>> # <<>> /\ <<t>>[1] = t
    <2>1. Append(shown[r] \o batch[r], t) = shown[r] \o batch[r] \o <<t>>
      BY <1>2, TokenComesLast, Zenon
    <2> QED
      BY <1>3, <2>1
  <1>5. /\ text' \in [Requests -> Seq(Tokens)] /\ text'[r] = Append(text[r], t)
        /\ \A q \in Requests \ {r} : text'[q] = text[q]
        /\ heard' \in [Requests -> Seq(Tokens)] /\ heard'[r] = <<t>>
        /\ \A q \in Requests \ {r} : heard'[q] = heard[q]
    <2>1. Append(text[r], t) \in Seq(Tokens)
      BY <1>2, AppendProperties
    <2> QED
      BY <1>1, <1>4, <2>1 DEF StreamTypeOK
  <1>6. StreamTypeOK'
    BY <1>1, <1>5 DEF StreamTypeOK, BatchesAreShort
  <1>7. StreamsFollowStatus' /\ HeldTextIsTimed'
    BY <1>1, <1>4, <1>5 DEF StreamsFollowStatus, HeldTextIsTimed
  <1>8. NothingIsLost' /\ DoneIsShown' /\ OnlyCallersCrashIt'
    BY <1>1, <1>2, <1>4, <1>5 DEF NothingIsLost, DoneIsShown, OnlyCallersCrashIt
  <1> QED
    BY <1>6, <1>7, <1>8

\* The token that was heard of a prompt that still runs joins what is held back.
LEMMA HeardJoins ==
  ASSUME StreamInv, crashed = {}, NEW r \in Requests, heard[r] # <<>>, status[r] = "running"
  PROVE  /\ heard[r][1] \in Tokens /\ Append(batch[r], heard[r][1]) \in Seq(Tokens)
         /\ Append(batch[r], heard[r][1]) # <<>>
         /\ text[r] = shown[r] \o Append(batch[r], heard[r][1])
  <1>1. /\ shown[r] \in Seq(Tokens) /\ batch[r] \in Seq(Tokens)
        /\ text[r] = shown[r] \o batch[r] \o heard[r]
        /\ heard[r][1] \in Tokens /\ heard[r] = <<heard[r][1]>>
    BY DEF StreamInv, StreamTypeOK, NothingIsLost, StreamsFollowStatus
  <1>2. PICK t \in Tokens : t = heard[r][1]
    BY <1>1
  <1>3. /\ Append(shown[r] \o batch[r], t) = shown[r] \o Append(batch[r], t)
        /\ Append(batch[r], t) \in Seq(Tokens) /\ Append(batch[r], t) # <<>>
    BY <1>1, TokenJoins, Zenon
  <1>4. Append(shown[r] \o batch[r], t) = shown[r] \o batch[r] \o <<t>>
    BY <1>1, TokenComesLast, Zenon
  <1>5. text[r] = shown[r] \o batch[r] \o <<t>>
    BY <1>1, <1>2, Zenon
  <1> QED
    BY <1>1, <1>2, <1>3, <1>4, <1>5, Zenon

\* Whether its prompt still runs when it is pushed, or a listener has cut it short.
LEMMA PushKeepsInv ==
  ASSUME StreamInv, NEW r \in Requests, ObserversReturn(r)
  PROVE  StreamInv'
  <1> USE DEF StreamInv
  <1> DEFINE t == heard[r][1]
  <1>1. /\ crashed = {} /\ heard[r] # <<>> /\ PushStream(r, t)
        /\ heard' = [heard EXCEPT ![r] = <<>>]
        /\ UNCHANGED <<batching, status, result, text, stream, cut>>
    BY DEF ObserversReturn
  <1>2. /\ t \in Tokens /\ batch[r] \in Seq(Tokens)
        /\ status[r] = "running" \/ (status[r] = "canceled" /\ r \in cut)
    BY <1>1 DEF StreamsFollowStatus, StreamTypeOK
  <1>3. Append(batch[r], t) \in Seq(Tokens) /\ Append(batch[r], t) # <<>>
    BY <1>2, AppendProperties
  <1>4. CASE DropBatch(r) /\ Enqueue(r, Append(batch[r], t))
    <2>1. CASE status[r] = "running"
      BY <1>1, <1>3, <1>4, <2>1, HeardJoins, ShowingKeepsInv
    <2>2. CASE status[r] # "running"
      BY <1>1, <1>2, <1>4, <2>2, LateShowThrows
    <2> QED
      BY <2>1, <2>2
  <1>5. CASE batching /\ ~FlushesAtOnce(Append(batch[r], t)) /\ Hold(r, t)
    <2>1. /\ batch' \in [Requests -> Seq(Tokens)] /\ timer' \in [Requests -> BOOLEAN]
          /\ batch'[r] = Append(batch[r], t) /\ timer'[r] = TRUE
          /\ \A q \in Requests \ {r} : batch'[q] = batch[q] /\ timer'[q] = timer[q]
          /\ UNCHANGED <<shown, crashed>>
      BY <1>3, <1>5 DEF Hold, StreamTypeOK
    <2>2. /\ heard' \in [Requests -> Seq(Tokens)] /\ heard'[r] = <<>>
          /\ \A q \in Requests \ {r} : heard'[q] = heard[q]
      BY <1>1, EmptySeq DEF StreamTypeOK
    <2>3. StreamTypeOK'
      <3>1. BatchesAreShort'
        BY <1>5, <2>1 DEF StreamTypeOK, BatchesAreShort
      <3> QED
        BY <1>1, <2>1, <2>2, <3>1 DEF StreamTypeOK
    <2>4. StreamsFollowStatus' /\ HeldTextIsTimed'
      BY <1>1, <1>2, <1>3, <1>5, <2>1, <2>2 DEF StreamsFollowStatus, HeldTextIsTimed
    <2>5. NothingIsLost'
      <3>1. result[r] = "pending" => text[r] = shown[r] \o batch'[r] \o heard'[r]
        <4>1. ASSUME result[r] = "pending" PROVE text[r] = shown[r] \o batch'[r]
          BY <1>1, <1>2, <2>1, <4>1, HeardJoins DEF StreamsFollowStatus
        <4>2. shown[r] \in Seq(Tokens) /\ batch'[r] \in Seq(Tokens)
          BY <1>3, <2>1 DEF StreamTypeOK
        <4>3. shown[r] \o batch'[r] \o <<>> = shown[r] \o batch'[r]
          BY <4>2, NothingJoins, Zenon
        <4> QED
          BY <2>2, <4>1, <4>3
      <3> QED
        BY <1>1, <2>1, <2>2, <3>1 DEF NothingIsLost
    <2>6. DoneIsShown' /\ OnlyCallersCrashIt'
      BY <1>1, <2>1 DEF DoneIsShown, OnlyCallersCrashIt
    <2> QED
      BY <2>3, <2>4, <2>5, <2>6
  <1> HIDE DEF t
  <1> QED
    BY <1>1, <1>2, <1>4, <1>5, PushShowsOrHolds

LEMMA TimeoutKeepsInv ==
  ASSUME StreamInv, NEW r \in Requests, BatchTimeout(r)
  PROVE  StreamInv'
  <1> USE DEF StreamInv
  <1>1. /\ crashed = {} /\ heard[r] = <<>> /\ heard' = [heard EXCEPT ![r] = <<>>]
        /\ status[r] = "running" \/ r \in cut
        /\ DropBatch(r) /\ Enqueue(r, batch[r])
        /\ UNCHANGED <<batching, status, result, text, stream, cut>>
    BY DEF BatchTimeout, Idle, HeldTextIsTimed, StreamTypeOK
  <1>2. batch[r] \in Seq(Tokens) /\ shown[r] \in Seq(Tokens)
    BY DEF StreamTypeOK
  <1>3. CASE status[r] = "running"
    <2>1. text[r] = shown[r] \o batch[r]
      <3>1. text[r] = shown[r] \o batch[r] \o <<>>
        BY <1>1, <1>3 DEF NothingIsLost, StreamsFollowStatus
      <3> QED
        BY <1>2, <3>1, NothingJoins, Zenon
    <2> QED
      BY <1>1, <1>2, <1>3, <2>1, ShowingKeepsInv
  <1>4. CASE status[r] # "running"
    <2>1. status[r] = "canceled"
      BY <1>1, <1>4 DEF StreamsFollowStatus
    <2> QED
      BY <1>1, <1>4, <2>1, LateShowThrows
  <1> QED
    BY <1>3, <1>4

\* A prompt that is done has shown all its text, or the flush has thrown.
LEMMA CompletedKeepsInv ==
  ASSUME StreamInv, NEW r \in Requests, Completed(r)
  PROVE  StreamInv'
  <1> USE DEF StreamInv
  <1>1. /\ crashed = {} /\ heard[r] = <<>> /\ status[r] = "running" /\ result[r] = "pending"
        /\ status' = [status EXCEPT ![r] = "done"] /\ UNCHANGED <<batching, text, heard, cut>>
        /\ stream[r] \in {"readable", "left"} /\ text[r] = shown[r] \o batch[r] /\ r \notin cut
        /\ shown[r] \in Seq(Tokens) /\ batch[r] \in Seq(Tokens) /\ text[r] \in Seq(Tokens)
    <2>1. /\ crashed = {} /\ heard[r] = <<>> /\ status[r] = "running" /\ result[r] = "pending"
          /\ text[r] = shown[r] \o batch[r] \o heard[r]
          /\ shown[r] \in Seq(Tokens) /\ batch[r] \in Seq(Tokens)
      BY DEF Completed, Idle, StreamsFollowStatus, NothingIsLost, StreamTypeOK
    <2>2. text[r] = shown[r] \o batch[r]
      BY <2>1, NothingJoins, Zenon
    <2> QED
      BY <2>1, <2>2 DEF Completed, StreamsFollowStatus, StreamTypeOK
  <1>2. CASE batch[r] # <<>> /\ stream[r] # "readable"
    <2>1. /\ crashed' = {r} /\ stream[r] = "left"
          /\ timer' = [timer EXCEPT ![r] = FALSE]
          /\ UNCHANGED <<batch, stream, result, shown>>
      BY <1>1, <1>2 DEF Completed, CloseAndResolve, Enqueue
    <2>2. StreamTypeOK'
      BY <1>1, <2>1 DEF StreamTypeOK, BatchesAreShort
    <2> QED
      BY <1>1, <2>1, <2>2
      DEF StreamsFollowStatus, NothingIsLost, DoneIsShown, HeldTextIsTimed, OnlyCallersCrashIt
  <1>3. CASE ~(batch[r] # <<>> /\ stream[r] # "readable")
    <2>1. /\ DropBatch(r) /\ Finish(r, "closed") /\ UNCHANGED crashed
          /\ result' = [result EXCEPT ![r] = PromptResult(r)]
          /\ shown' = [shown EXCEPT ![r] = text[r]]
      <3>1. CASE batch[r] = <<>>
        <4>1. shown[r] = text[r]
          BY <1>1, <3>1, ConcatEmptySeq
        <4>2. shown = [shown EXCEPT ![r] = text[r]]
          BY <4>1 DEF StreamTypeOK
        <4> QED
          BY <1>3, <3>1, <4>2 DEF Completed, CloseAndResolve
      <3>2. CASE batch[r] # <<>>
        BY <1>1, <1>3, <3>2 DEF Completed, CloseAndResolve, Enqueue
      <3> QED
        BY <3>1, <3>2
    <2>2. /\ batch' \in [Requests -> Seq(Tokens)] /\ timer' \in [Requests -> BOOLEAN]
          /\ batch'[r] = <<>> /\ timer'[r] = FALSE
          /\ \A q \in Requests \ {r} : batch'[q] = batch[q] /\ timer'[q] = timer[q]
      BY <2>1, EmptySeq DEF DropBatch, StreamTypeOK
    <2>3. result'[r] \in {"text", "res"} /\ result' \in [Requests -> {"pending", "text", "res", "rejected"}]
      BY <2>1 DEF PromptResult, StreamTypeOK
    <2>4. BatchesAreShort'
      BY <2>2 DEF StreamTypeOK, BatchesAreShort
    <2>5. StreamTypeOK'
      BY <1>1, <2>1, <2>2, <2>3, <2>4 DEF StreamTypeOK, Finish
    <2>6. StreamsFollowStatus' /\ HeldTextIsTimed'
      BY <1>1, <2>1, <2>2, <2>3 DEF StreamsFollowStatus, HeldTextIsTimed, StreamTypeOK, Finish
    <2>7. NothingIsLost' /\ DoneIsShown' /\ OnlyCallersCrashIt'
      BY <1>1, <2>1, <2>2, <2>3
      DEF NothingIsLost, DoneIsShown, OnlyCallersCrashIt, StreamTypeOK
    <2> QED
      BY <2>5, <2>6, <2>7
  <1> QED
    BY <1>2, <1>3

\* A prompt that fails or is cancelled drops its batch, timer and all.
LEMMA BrokenKeepsInv ==
  ASSUME StreamInv, crashed = {}, NEW r \in Requests, status[r] \in {"queued", "running"},
         NEW how \in {"error", "canceled"}, NEW last \in {"errored", "closed"},
         status' = [status EXCEPT ![r] = how],
         DropBatch(r), Finish(r, last), result' = [result EXCEPT ![r] = "rejected"],
         cut' = IF heard[r] = <<>> THEN cut ELSE cut \union {r},
         how = "canceled" \/ heard[r] = <<>>,
         UNCHANGED <<batching, text, heard, shown, crashed>>
  PROVE  StreamInv'
  <1> USE DEF StreamInv
  <1>1. /\ batch' \in [Requests -> Seq(Tokens)] /\ timer' \in [Requests -> BOOLEAN]
        /\ batch'[r] = <<>> /\ timer'[r] = FALSE
        /\ \A q \in Requests \ {r} : batch'[q] = batch[q] /\ timer'[q] = timer[q]
    BY EmptySeq DEF DropBatch, StreamTypeOK
  <1>2. BatchesAreShort'
    BY <1>1 DEF StreamTypeOK, BatchesAreShort
  <1>3. StreamTypeOK'
    BY <1>1, <1>2 DEF StreamTypeOK, Finish
  <1>4. /\ r \notin cut
        /\ cut' \subseteq cut \union {r} /\ cut \subseteq cut'
        /\ r \in cut' => how = "canceled"
        /\ heard[r] # <<>> => r \in cut'
    BY DEF StreamsFollowStatus
  <1>5. StreamsFollowStatus'
    BY <1>1, <1>4 DEF StreamsFollowStatus, StreamTypeOK, Finish
  <1>6. HeldTextIsTimed'
    BY <1>1, <1>4 DEF HeldTextIsTimed, StreamTypeOK
  <1>7. NothingIsLost' /\ DoneIsShown' /\ OnlyCallersCrashIt'
    BY <1>1 DEF NothingIsLost, DoneIsShown, OnlyCallersCrashIt, StreamTypeOK
  <1> QED
    BY <1>3, <1>5, <1>6, <1>7

LEMMA StreamStep == StreamInv /\ [Next]_vars => StreamInv'
  <1> SUFFICES ASSUME StreamInv, [Next]_vars PROVE StreamInv'
    OBVIOUS
  <1> USE DEF StreamInv
  <1>1. CASE UNCHANGED vars
    BY <1>1 DEF vars, StreamTypeOK, BatchesAreShort, StreamsFollowStatus, NothingIsLost,
                DoneIsShown, HeldTextIsTimed, OnlyCallersCrashIt
  <1>2. ASSUME NEW r \in Requests, Dispatched(r)
        PROVE  StreamInv'
    BY <1>2 DEF Dispatched, Idle, StreamTypeOK, BatchesAreShort, StreamsFollowStatus, NothingIsLost,
                DoneIsShown, HeldTextIsTimed, OnlyCallersCrashIt
  <1>3. ASSUME NEW r \in Requests, NEW t \in Tokens, StreamMessage(r, t)
        PROVE  StreamInv'
    <2>1. CASE status[r] = "running"
      BY <1>3, <2>1, MessageKeepsInv
    <2>2. CASE status[r] = "canceled"
      BY <1>1, <1>3, <2>2 DEF StreamMessage, vars
    <2> QED
      BY <1>3, <2>1, <2>2 DEF StreamMessage
  <1>4. ASSUME NEW r \in Requests, BatchTimeout(r)
        PROVE  StreamInv'
    BY <1>4, TimeoutKeepsInv
  <1>5. ASSUME NEW r \in Requests, Completed(r)
        PROVE  StreamInv'
    BY <1>5, CompletedKeepsInv
  <1>6. ASSUME NEW r \in Requests, Failed(r)
        PROVE  StreamInv'
    BY <1>6, BrokenKeepsInv DEF Failed, Idle, ErrorAndReject
  <1>7. ASSUME NEW r \in Requests, Canceled(r)
        PROVE  StreamInv'
    BY <1>7, BrokenKeepsInv DEF Canceled, CloseAndReject
  <1>8. ASSUME NEW r \in Requests, ConsumerLeaves(r)
        PROVE  StreamInv'
    BY <1>8 DEF ConsumerLeaves, StreamTypeOK, BatchesAreShort, StreamsFollowStatus, NothingIsLost,
                DoneIsShown, HeldTextIsTimed, OnlyCallersCrashIt
  <1>9. ASSUME NEW r \in Requests, ObserversReturn(r)
        PROVE  StreamInv'
    BY <1>9, PushKeepsInv
  <1> QED
    BY <1>1, <1>2, <1>3, <1>4, <1>5, <1>6, <1>7, <1>8, <1>9 DEF Next

--------------------------------------------------------------------------------
(* Theorems                                                                *)

\* The types are right, and no batch outgrows its limit.
THEOREM StreamTypeCorrect == Spec => []StreamTypeOK
  <1>1. StreamInv => StreamTypeOK
    BY DEF StreamInv
  <1> QED
    BY <1>1, StreamInit, StreamStep, PTL DEF Spec

\* While a prompt goes on, what it has shown and what is held back are its text.
THEOREM NoTokenIsLost == Spec => []NothingIsLost
  <1>1. StreamInv => NothingIsLost
    BY DEF StreamInv
  <1> QED
    BY <1>1, StreamInit, StreamStep, PTL DEF Spec

\* The stream of a prompt that is done has shown what `done` resolves to.
THEOREM DoneIsAllShown == Spec => []DoneIsShown
  <1>1. StreamInv => DoneIsShown
    BY DEF StreamInv
  <1> QED
    BY <1>1, StreamInit, StreamStep, PTL DEF Spec

\* A batch has a timer, and a timer has a batch of a prompt that runs, or that a listener
\* has cancelled on hearing of a token.
THEOREM TimersFollowBatches == Spec => []HeldTextIsTimed
  <1>1. StreamInv => HeldTextIsTimed
    BY DEF StreamInv
  <1> QED
    BY <1>1, StreamInit, StreamStep, PTL DEF Spec

\* An enqueue throws only on a stream that its consumer has left, or whose prompt a
\* listener has cancelled on hearing of a token.
THEOREM NoLateEnqueue == Spec => []OnlyCallersCrashIt
  <1>1. StreamInv => OnlyCallersCrashIt
    BY DEF StreamInv
  <1> QED
    BY <1>1, StreamInit, StreamStep, PTL DEF Spec

\* To show a chunk, or nothing because the enqueue throws, is to show more of a text
\* that begins with what was shown and the chunk.
LEMMA EnqueueShows ==
  ASSUME NEW r \in Requests, shown \in [Requests -> Seq(Tokens)],
         NEW chunk \in Seq(Tokens), Enqueue(r, chunk)
  PROVE  Promise!Shows(r, shown[r] \o chunk)
  <1>1. shown[r] \in Seq(Tokens) /\ shown[r] \o chunk \in Seq(Tokens)
    BY ConcatProperties
  <1>2. /\ IsPrefix(shown[r], shown[r]) /\ IsPrefix(shown[r], shown[r] \o chunk)
        /\ IsPrefix(shown[r] \o chunk, shown[r] \o chunk)
    BY <1>1, PrefixOfItself, PrefixOfConcat
  <1>3. CASE shown' = [shown EXCEPT ![r] = shown[r] \o chunk]
    BY <1>2, <1>3 DEF Promise!Shows, Promise!IsPrefix, IsPrefix
  <1>4. CASE shown' = shown
    BY <1>2, <1>4 DEF Promise!Shows, Promise!IsPrefix, IsPrefix
  <1> QED
    BY <1>3, <1>4 DEF Enqueue

\* Each step is one of the promise, or leaves it alone.
LEMMA StepsKeepThePromise ==
  ASSUME StreamInv, [Next]_vars
  PROVE  [Promise!Next]_<<text, shown, End>>
  <1> USE DEF StreamInv
  <1> DEFINE Stutters == UNCHANGED <<text, shown, result>>
  <1>1. Stutters => UNCHANGED <<text, shown, End>>
    BY DEF End
  <1>2. CASE UNCHANGED vars
    BY <1>1, <1>2 DEF vars
  <1>3. ASSUME NEW r \in Requests, Dispatched(r) \/ ConsumerLeaves(r)
        PROVE  Stutters
    BY <1>3 DEF Dispatched, ConsumerLeaves
  <1>4. ASSUME NEW r \in Requests, NEW t \in Tokens, StreamMessage(r, t), status[r] = "running"
        PROVE  Promise!Receive(r)
    <2>1. /\ crashed = {} /\ heard[r] = <<>> /\ text' = [text EXCEPT ![r] = Append(text[r], t)]
          /\ UNCHANGED <<shown, result>> /\ result[r] = "pending"
          /\ text[r] = shown[r] \o batch[r] \o heard[r]
          /\ shown[r] \in Seq(Tokens) /\ batch[r] \in Seq(Tokens)
      BY <1>4 DEF StreamMessage, Idle, StreamsFollowStatus, NothingIsLost, StreamTypeOK
    <2>2. text[r] = shown[r] \o batch[r]
      BY <2>1, NothingJoins, Zenon
    <2>3. /\ Append(text[r], t) = shown[r] \o Append(batch[r], t)
          /\ Append(batch[r], t) \in Seq(Tokens)
      <3>1. /\ Append(shown[r] \o batch[r], t) = shown[r] \o Append(batch[r], t)
            /\ Append(batch[r], t) \in Seq(Tokens)
        BY <1>4, <2>1, TokenJoins, Zenon
      <3> QED
        BY <2>2, <3>1
    <2>4. Promise!Shows(r, Append(text[r], t))
      BY <2>1, <2>3, PrefixOfItself, PrefixOfConcat
      DEF Promise!Shows, Promise!IsPrefix, IsPrefix, StreamTypeOK
    <2>5. End[r] = "open" /\ End' = End
      BY <2>1 DEF End
    <2> QED
      BY <2>1, <2>4, <2>5 DEF Promise!Receive
  <1>5. ASSUME NEW r \in Requests, BatchTimeout(r) \/ ObserversReturn(r)
        PROVE  Promise!Show(r) \/ Stutters
    <2>1. crashed = {} /\ UNCHANGED <<text, result>> /\ shown \in [Requests -> Seq(Tokens)]
      BY <1>5 DEF BatchTimeout, Idle, ObserversReturn, StreamTypeOK
    <2>2. status[r] = "running" \/ (status[r] = "canceled" /\ r \in cut)
      BY <1>5, <2>1 DEF BatchTimeout, ObserversReturn, HeldTextIsTimed, StreamsFollowStatus
    <2>3. CASE status[r] = "canceled"
      <3>1. \E chunk : Enqueue(r, chunk) \/ UNCHANGED shown
        BY <1>5 DEF BatchTimeout, ObserversReturn, PushStream, Hold
      <3> QED
        BY <2>1, <2>3, <3>1 DEF Enqueue, StreamsFollowStatus
    <2>4. CASE status[r] = "running"
      <3>1. /\ \/ \E chunk \in Seq(Tokens) : text[r] = shown[r] \o chunk /\ Enqueue(r, chunk)
               \/ UNCHANGED shown
            /\ result[r] = "pending"
        <4>1. CASE BatchTimeout(r)
          <5>1. /\ heard[r] = <<>> /\ text[r] = shown[r] \o batch[r] \o heard[r] /\ result[r] = "pending"
                /\ shown[r] \in Seq(Tokens) /\ batch[r] \in Seq(Tokens) /\ Enqueue(r, batch[r])
            BY <2>1, <2>4, <4>1 DEF BatchTimeout, Idle, StreamsFollowStatus, NothingIsLost, StreamTypeOK
          <5>2. text[r] = shown[r] \o batch[r]
            BY <5>1, NothingJoins, Zenon
          <5> QED
            BY <5>1, <5>2
        <4>2. CASE ObserversReturn(r)
          <5>1. heard[r] # <<>> /\ PushStream(r, heard[r][1]) /\ result[r] = "pending"
            BY <2>1, <2>4, <4>2 DEF ObserversReturn, StreamsFollowStatus
          <5> QED
            BY <2>1, <2>4, <5>1, HeardJoins, PushShowsOrHolds DEF Hold
        <4> QED
          BY <1>5, <4>1, <4>2
      <3>2. CASE UNCHANGED shown
        BY <2>1, <3>2
      <3>3. ASSUME NEW chunk \in Seq(Tokens), text[r] = shown[r] \o chunk, Enqueue(r, chunk)
            PROVE  Promise!Show(r)
        <4>1. Promise!Shows(r, text[r])
          BY <2>1, <3>3, EnqueueShows
        <4>2. End[r] = "open" /\ End' = End
          BY <2>1, <3>1 DEF End
        <4> QED
          BY <2>1, <4>1, <4>2 DEF Promise!Show
      <3> QED
        BY <3>1, <3>2, <3>3
    <2> QED
      BY <2>2, <2>3, <2>4
  <1>6. ASSUME NEW r \in Requests, Completed(r)
        PROVE  Promise!Complete(r) \/ Stutters
    <2>1. /\ result[r] = "pending" /\ text[r] = shown[r] \o batch[r] /\ UNCHANGED text
          /\ shown[r] \in Seq(Tokens) /\ CloseAndResolve(r)
      <3>1. /\ result[r] = "pending" /\ UNCHANGED text /\ CloseAndResolve(r) /\ heard[r] = <<>>
            /\ text[r] = shown[r] \o batch[r] \o heard[r]
            /\ shown[r] \in Seq(Tokens) /\ batch[r] \in Seq(Tokens)
        BY <1>6 DEF Completed, Idle, StreamsFollowStatus, NothingIsLost, StreamTypeOK
      <3>2. text[r] = shown[r] \o batch[r]
        BY <3>1, NothingJoins, Zenon
      <3> QED
        BY <3>1, <3>2
    <2>2. CASE batch[r] # <<>> /\ stream[r] # "readable"
      BY <2>1, <2>2 DEF CloseAndResolve, Enqueue
    <2>3. CASE ~(batch[r] # <<>> /\ stream[r] # "readable")
      <3>1. shown' = [shown EXCEPT ![r] = text[r]]
        <4>1. CASE batch[r] = <<>>
          <5>1. shown[r] = text[r]
            BY <2>1, <4>1, ConcatEmptySeq
          <5> QED
            BY <2>1, <2>3, <4>1, <5>1 DEF CloseAndResolve, StreamTypeOK
        <4>2. CASE batch[r] # <<>>
          BY <2>1, <2>3, <4>2 DEF CloseAndResolve, Enqueue
        <4> QED
          BY <4>1, <4>2
      <3>2. /\ result' = [result EXCEPT ![r] = PromptResult(r)]
            /\ PromptResult(r) \in {"text", "res"}
        BY <2>1, <2>3 DEF CloseAndResolve, PromptResult
      <3>3. End[r] = "open" /\ End' = [End EXCEPT ![r] = "done"]
        BY <2>1, <3>2 DEF StreamTypeOK, End
      <3> QED
        BY <2>1, <3>1, <3>3 DEF Promise!Complete
    <2> QED
      BY <2>2, <2>3
  <1>7. ASSUME NEW r \in Requests, Failed(r) \/ Canceled(r)
        PROVE  Promise!Break(r)
    <2>1. /\ result[r] = "pending" /\ UNCHANGED <<text, shown>>
          /\ result' = [result EXCEPT ![r] = "rejected"]
      BY <1>7 DEF Failed, Idle, Canceled, ErrorAndReject, CloseAndReject, StreamsFollowStatus
    <2>2. End[r] = "open" /\ End' = [End EXCEPT ![r] = "failed"]
      BY <2>1 DEF StreamTypeOK, End
    <2> QED
      BY <2>1, <2>2 DEF Promise!Break
  <1>8. ASSUME NEW r \in Requests, NEW t \in Tokens, StreamMessage(r, t), status[r] # "running"
        PROVE  Stutters
    BY <1>8 DEF StreamMessage
  <1> HIDE DEF Stutters
  <1> QED
    BY <1>1, <1>2, <1>3, <1>4, <1>5, <1>6, <1>7, <1>8 DEF Next, Promise!Next

\* The stream controller implements the promise of TokenStream.  A token that comes
\* is a Receive; its push and a timer are each a Show, or show nothing; the answers and
\* the cancellations end the promise, except where a flush throws.
THEOREM StreamsKeepTheirPromise == Spec => ImplementsTokenStream
  <1>1. Init => Promise!Init
    BY DEF Init, Promise!Init, End
  <1>2. StreamInv /\ [Next]_vars => [Promise!Next]_<<text, shown, End>>
    BY StepsKeepThePromise
  <1> QED
    BY <1>1, <1>2, StreamInit, StreamStep, PTL
    DEF Spec, ImplementsTokenStream, Promise!Spec, Promise!streamVars

================================================================================
