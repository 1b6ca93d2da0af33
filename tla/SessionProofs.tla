------------------------------ MODULE SessionProofs ------------------------------
(***************************************************************************)
(* What holds inside the worker for any number of prompts, sessions and    *)
(* resets.                                                                 *)
(***************************************************************************)
EXTENDS WorkerSessions, SequenceTheorems, FiniteSetTheorems, TLAPS

Entries == [s : Sessions, context : Requests]
PromptRecords ==
  [s : Sessions \union {NoSession}, phase : Phases, left : 0..Profiles, victim : Sessions \union {NoSession},
   context : Requests \union {0}, aborting : BOOLEAN]
Resets == [phase : {"idle", "waiting", "disposing"}, waits : SUBSET Requests]

\* A session has at most one entry.
Distinct(m) == \A i, j \in DOMAIN m : m[i].s = m[j].s => i = j

Types ==
  /\ maxCount \in Nat
  /\ sessions \in Seq(Entries) /\ Distinct(sessions)
  /\ made \subseteq Requests /\ disposed \subseteq made
  /\ prompt \in [Requests -> PromptRecords]
  /\ ops \in Seq(Sessions) /\ reset \in Resets
  /\ blocked \subseteq Sessions /\ failed \subseteq blocked

\* A context is created by a request of its session.
OwnedBy(c, s) == c \in made /\ prompt[c].s = s

\* A prompt generates with a context of its own session.
PromptOK(r) ==
  /\ prompt[r].phase # "new" => prompt[r].s \in Sessions
  /\ prompt[r].phase = "creating" => prompt[r].left > 0
  /\ r \in made => prompt[r].phase \in {"generating", "ended"}
  /\ prompt[r].context \in made \union {0}
  /\ prompt[r].phase = "generating" => OwnedBy(prompt[r].context, prompt[r].s)

PromptsOK == \A r \in Requests : PromptOK(r)

\* An entry is that of a context of its session.
MapOK == \A i \in DOMAIN sessions : OwnedBy(sessions[i].context, sessions[i].s)

\* A session is reset once at a time and is blocked meanwhile; the reset in progress
\* waits for every prompt the session has, and disposes of nothing before they end.
ChainOK ==
  /\ \A i, j \in DOMAIN ops : ops[i] = ops[j] => i = j
  /\ \A i \in DOMAIN ops : ops[i] \in blocked \ failed
  /\ reset.phase # "idle" => ops # <<>> /\ ActiveOf(Head(ops)) \subseteq reset.waits
  /\ reset.phase = "disposing" =>
       /\ ActiveOf(Head(ops)) = {}
       /\ \A i \in DOMAIN sessions : sessions[i].s = Head(ops) => sessions[i].context \in disposed

\* Requests arrive in order, and a prompt that has begun is the first of its session.
InOrder ==
  /\ \A q, r \in Requests : q < r /\ prompt[q].phase = "new" => prompt[r].phase = "new"
  /\ \A r \in Requests :
       prompt[r].phase \in {"evicting", "creating", "generating"} => \A q \in ActiveOf(prompt[r].s) : q >= r

\* A session has no context while one of its prompts creates it.
CreatesWhatIsMissing ==
  \A r \in Requests : prompt[r].phase \in {"evicting", "creating"} => prompt[r].s \notin Cached

\* With room for every session nothing is evicted, so what is disposed of belongs to a
\* session being reset that has no prompts left.
RoomyInv ==
  /\ \A r \in Requests : prompt[r].phase # "evicting"
  /\ \A i \in DOMAIN sessions :
       sessions[i].context \in disposed => sessions[i].s \in blocked /\ ActiveOf(sessions[i].s) = {}
  /\ \A r \in Requests : Generating(r) => prompt[r].context \notin disposed
  /\ \A c \in made \ disposed : \E i \in DOMAIN sessions : sessions[i].context = c

\* The inductive invariant, and its part for a Map with room
SessionsInv == Types /\ PromptsOK /\ MapOK /\ ChainOK /\ InOrder /\ CreatesWhatIsMissing
RoomInv == Roomy => RoomyInv

--------------------------------------------------------------------------------
(* The Map.                                                                 *)

\* A sequence without one of its places.
LEMMA RemovedPlace ==
  ASSUME NEW m \in Seq(Entries), NEW k \in DOMAIN m
  PROVE  /\ RemoveAt(m, k) \in Seq(Entries)
         /\ Len(RemoveAt(m, k)) = Len(m) - 1
         /\ \A j \in 1..(Len(m) - 1) : RemoveAt(m, k)[j] = m[IF j < k THEN j ELSE j + 1]
  <1>1. /\ Len(m) \in Nat /\ DOMAIN m = 1..Len(m) /\ k \in 1..Len(m)
        /\ \A i \in 1..Len(m) : m[i] \in Entries
    BY LenProperties
  <1>2. /\ SubSeq(m, 1, k - 1) \in Seq(Entries)
        /\ Len(SubSeq(m, 1, k - 1)) = k - 1
        /\ \A i \in 1..(k - 1) : SubSeq(m, 1, k - 1)[i] = m[i]
    <2>1. \A i \in 1..(k - 1) : m[i] \in Entries
      BY <1>1
    <2> QED
      BY <1>1, <2>1, SubSeqProperties
  <1>3. /\ SubSeq(m, k + 1, Len(m)) \in Seq(Entries)
        /\ Len(SubSeq(m, k + 1, Len(m))) = Len(m) - k
        /\ \A i \in 1..(Len(m) - k) : SubSeq(m, k + 1, Len(m))[i] = m[k + i]
    <2>1. \A i \in (k + 1)..Len(m) : m[i] \in Entries
      BY <1>1
    <2>2. /\ SubSeq(m, k + 1, Len(m)) \in Seq(Entries)
          /\ Len(SubSeq(m, k + 1, Len(m))) = IF k + 1 <= Len(m) THEN Len(m) - (k + 1) + 1 ELSE 0
          /\ \A i \in 1..(Len(m) - (k + 1) + 1) : SubSeq(m, k + 1, Len(m))[i] = m[k + 1 + i - 1]
      BY <1>1, <2>1, SubSeqProperties
    <2>3. (IF k + 1 <= Len(m) THEN Len(m) - (k + 1) + 1 ELSE 0) = Len(m) - k
      BY <1>1
    <2>4. ASSUME NEW i \in 1..(Len(m) - k) PROVE SubSeq(m, k + 1, Len(m))[i] = m[k + i]
      <3>1. i \in 1..(Len(m) - (k + 1) + 1) /\ k + 1 + i - 1 = k + i
        BY <1>1
      <3>2. SubSeq(m, k + 1, Len(m))[i] = m[k + 1 + i - 1]
        BY <2>2, <3>1
      <3> QED
        BY <3>1, <3>2
    <2> QED
      BY <2>2, <2>3, <2>4
  <1>4. PICK t \in Seq(Entries) :
          /\ t = SubSeq(m, 1, k - 1) /\ Len(t) = k - 1
          /\ \A i \in 1..(k - 1) : t[i] = m[i]
    BY <1>2
  <1>5. PICK u \in Seq(Entries) :
          /\ u = SubSeq(m, k + 1, Len(m)) /\ Len(u) = Len(m) - k
          /\ \A i \in 1..(Len(m) - k) : u[i] = m[k + i]
    BY <1>3
  <1>6. /\ t \o u \in Seq(Entries)
        /\ Len(t \o u) = Len(m) - 1
        /\ \A i \in 1..(Len(m) - 1) : (t \o u)[i] = IF i <= k - 1 THEN t[i] ELSE u[i - (k - 1)]
    <2>1. (k - 1) + (Len(m) - k) = Len(m) - 1
      BY <1>1
    <2>2. /\ t \o u \in Seq(Entries)
          /\ Len(t \o u) = Len(t) + Len(u)
          /\ \A i \in 1..(Len(t) + Len(u)) : (t \o u)[i] = IF i <= Len(t) THEN t[i] ELSE u[i - Len(t)]
      BY ConcatProperties
    <2>3. Len(t) = k - 1 /\ Len(u) = Len(m) - k
      BY <1>4, <1>5
    <2> QED
      BY <2>1, <2>2, <2>3
  <1>7. ASSUME NEW j \in 1..(Len(m) - 1) PROVE (t \o u)[j] = m[IF j < k THEN j ELSE j + 1]
    <2>1. CASE j < k
      <3>1. j <= k - 1 /\ j \in 1..(k - 1)
        BY <1>1, <2>1
      <3> QED
        BY <1>4, <1>6, <2>1, <3>1
    <2>2. CASE ~(j < k)
      <3>1. ~(j <= k - 1) /\ j - (k - 1) \in 1..(Len(m) - k) /\ k + (j - (k - 1)) = j + 1
        BY <1>1, <2>2
      <3> QED
        BY <1>5, <1>6, <2>2, <3>1
    <2> QED
      BY <2>1, <2>2
  <1> QED
    BY <1>4, <1>5, <1>6, <1>7 DEF RemoveAt

\* A session has one entry of the Map.
LEMMA PlaceOfEntry ==
  ASSUME Distinct(sessions), NEW s \in Cached
  PROVE  /\ Place(s) \in DOMAIN sessions /\ sessions[Place(s)].s = s
         /\ \A i \in DOMAIN sessions : sessions[i].s = s => i = Place(s)
  <1>1. \E i \in DOMAIN sessions : sessions[i].s = s
    BY DEF Cached
  <1>2. Place(s) \in DOMAIN sessions /\ sessions[Place(s)].s = s
    BY <1>1 DEF Place
  <1> QED
    BY <1>2 DEF Distinct

\* The Map without a session: what is left, and that the rest is kept.
LEMMA WithoutEntries ==
  ASSUME sessions \in Seq(Entries), Distinct(sessions), NEW s
  PROVE  /\ Without(s) \in Seq(Entries) /\ Distinct(Without(s))
         /\ \A j \in DOMAIN Without(s) :
              Without(s)[j].s # s /\ \E i \in DOMAIN sessions : sessions[i] = Without(s)[j]
         /\ \A i \in DOMAIN sessions :
              sessions[i].s # s => \E j \in DOMAIN Without(s) : Without(s)[j] = sessions[i]
  <1>1. CASE s \notin Cached
    BY <1>1 DEF Without, Cached
  <1>2. CASE s \in Cached
    <2> DEFINE k == Place(s)
    <2>1. /\ k \in DOMAIN sessions /\ sessions[k].s = s
          /\ \A i \in DOMAIN sessions : sessions[i].s = s => i = k
      BY <1>2, PlaceOfEntry
    <2>2. DOMAIN sessions = 1..Len(sessions) /\ Len(sessions) \in Nat
      BY LenProperties
    <2>3. PICK n : n = Without(s) /\ n = RemoveAt(sessions, k)
      BY <1>2 DEF Without
    <2>4. /\ n \in Seq(Entries) /\ Len(n) = Len(sessions) - 1
          /\ \A j \in 1..(Len(sessions) - 1) : n[j] = sessions[IF j < k THEN j ELSE j + 1]
      BY <2>1, <2>3, RemovedPlace
    <2> HIDE DEF k
    <2>5. DOMAIN n = 1..(Len(sessions) - 1)
      BY <2>2, <2>4, LenProperties
    <2>6. \A j \in DOMAIN n : n[j].s # s /\ \E i \in DOMAIN sessions : sessions[i] = n[j]
      <3> TAKE j \in DOMAIN n
      <3>1. PICK i \in DOMAIN sessions : i = (IF j < k THEN j ELSE j + 1) /\ n[j] = sessions[i] /\ i # k
        BY <2>1, <2>2, <2>4, <2>5
      <3> QED
        BY <2>1, <3>1
    <2>7. \A i \in DOMAIN sessions : sessions[i].s # s => \E j \in DOMAIN n : n[j] = sessions[i]
      <3> SUFFICES ASSUME NEW i \in DOMAIN sessions, sessions[i].s # s PROVE \E j \in DOMAIN n : n[j] = sessions[i]
        OBVIOUS
      <3>1. i # k
        BY <2>1
      <3>2. PICK j \in DOMAIN n : i = (IF j < k THEN j ELSE j + 1)
        <4>1. CASE i < k
          BY <2>1, <2>2, <2>5, <4>1
        <4>2. CASE i > k
          <5>1. i - 1 \in DOMAIN n /\ ~(i - 1 < k) /\ i = (i - 1) + 1
            BY <2>1, <2>2, <2>5, <4>2
          <5> QED
            BY <5>1
        <4> QED
          BY <2>1, <2>2, <3>1, <4>1, <4>2
      <3> QED
        BY <2>4, <2>5, <3>2
    <2>8. Distinct(n)
      <3> SUFFICES ASSUME NEW i \in DOMAIN n, NEW j \in DOMAIN n, n[i].s = n[j].s PROVE i = j
        BY DEF Distinct
      <3>1. PICK a \in DOMAIN sessions : a = (IF i < k THEN i ELSE i + 1) /\ n[i] = sessions[a]
        BY <2>1, <2>2, <2>4, <2>5
      <3>2. PICK b \in DOMAIN sessions : b = (IF j < k THEN j ELSE j + 1) /\ n[j] = sessions[b]
        BY <2>1, <2>2, <2>4, <2>5
      <3>3. a = b
        BY <3>1, <3>2 DEF Distinct
      <3> QED
        BY <2>1, <2>2, <2>5, <3>1, <3>2, <3>3
    <2> QED
      BY <2>3, <2>4, <2>6, <2>7, <2>8
  <1> QED
    BY <1>1, <1>2

--------------------------------------------------------------------------------
(* How prompts get on, whatever the step.                                   *)

\* A prompt that has had its turn
Begun == {"evicting", "creating", "generating"}

\* What a context is that a request has after a step.
ContextFrom(r) ==
  \/ prompt'[r].phase # "generating" /\ prompt'[r].context \in {0, prompt[r].context}
  \/ prompt[r].phase = "generating" /\ prompt'[r].context = prompt[r].context
  \/ HasTurn(r) /\ prompt[r].s \in Cached /\ prompt'[r].context = Entry(prompt[r].s)
  \/ prompt[r].phase = "creating" /\ prompt'[r].context = r /\ r \in made'

\* A request keeps its session and gets on, begins something only when it has
\* its turn, and arrives after those before it, for a session not being reset.
GetsOn(r) ==
  /\ prompt[r].phase # "new" => prompt'[r].s = prompt[r].s /\ prompt'[r].phase # "new"
  /\ prompt[r].phase = "new" /\ prompt'[r].phase # "new" =>
       /\ prompt'[r].phase = "waiting" /\ prompt'[r].s \in Sessions \ blocked
       /\ \A q \in 1..(r - 1) : prompt[q].phase # "new"
  /\ prompt'[r].phase \in Begun => prompt[r].phase \in Begun \/ HasTurn(r)
  /\ prompt[r].phase = "ended" => prompt'[r].phase = "ended"
  /\ prompt[r].phase = "generating" => prompt'[r].phase \in {"generating", "ended"}
  /\ prompt'[r].phase \in {"evicting", "creating"} =>
       prompt[r].phase \in {"evicting", "creating"} \/ prompt[r].s \in Sessions \ Cached
  /\ prompt'[r].phase = "evicting" =>
       \/ prompt[r].phase = "evicting"
       \/ prompt[r].s \in Sessions \ Cached /\ Len(sessions) >= maxCount
  /\ prompt'[r].phase = "creating" => prompt'[r].left > 0
  /\ ContextFrom(r)

AllGetOn == prompt' \in [Requests -> PromptRecords] /\ \A r \in Requests : GetsOn(r)

\* One request gets on by itself.
LEMMA OneGetsOn ==
  ASSUME Types, PromptsOK, NEW r \in Requests, NEW p \in PromptRecords, prompt' = [prompt EXCEPT ![r] = p],
         GetsOn(r)
  PROVE  AllGetOn
  <1>1. prompt' \in [Requests -> PromptRecords]
    BY DEF Types
  <1>2. \A q \in Requests \ {r} : prompt'[q] = prompt[q]
    BY DEF Types
  <1>3. ASSUME NEW q \in Requests \ {r} PROVE GetsOn(q)
    BY <1>2 DEF GetsOn, ContextFrom, Begun, PromptsOK, PromptOK
  <1> QED
    BY <1>1, <1>3 DEF AllGetOn

\* An abort only flags prompts.
LEMMA AbortedGetOn ==
  ASSUME Types, PromptsOK, NEW R, prompt' = Aborting(R)
  PROVE  AllGetOn /\ \A q \in Requests : prompt'[q].s = prompt[q].s /\ prompt'[q].phase = prompt[q].phase
  <1>1. ASSUME NEW q \in Requests
        PROVE  /\ prompt'[q] \in PromptRecords
               /\ prompt'[q].s = prompt[q].s /\ prompt'[q].phase = prompt[q].phase
               /\ prompt'[q].left = prompt[q].left /\ prompt'[q].context = prompt[q].context
    <2>1. prompt[q] \in PromptRecords
      BY DEF Types
    <2>2. prompt'[q] = prompt[q] \/ prompt'[q] = [prompt[q] EXCEPT !.aborting = TRUE]
      BY DEF Aborting
    <2> QED
      BY <2>1, <2>2 DEF PromptRecords
  <1>2. prompt' \in [Requests -> PromptRecords]
    BY <1>1 DEF Aborting
  <1>3. ASSUME NEW q \in Requests PROVE GetsOn(q)
    BY <1>1 DEF GetsOn, ContextFrom, Begun, PromptsOK, PromptOK
  <1> QED
    BY <1>1, <1>2, <1>3 DEF AllGetOn

\* A request that has not arrived is a record of its type.
LEMMA NoPromptIsRecord == NoPrompt \in PromptRecords /\ NoPrompt.context = 0
  <1>1. 0 \in 0..Profiles
    BY WorkerSessionsAssumption
  <1> QED
    BY <1>1 DEF NoPrompt, PromptRecords, Phases

\* What a request ends with.
LEMMA EndedGetOn ==
  ASSUME Types, PromptsOK, NEW r \in Requests, prompt[r].phase \in Phases \ {"new"}, Ends(r)
  PROVE  /\ AllGetOn
         /\ prompt'[r].phase = "ended"
         /\ \A q \in Requests \ {r} : prompt'[q] = prompt[q]
  <1> DEFINE p == [NoPrompt EXCEPT !.s = prompt[r].s, !.phase = "ended"]
  <1>1. p \in PromptRecords /\ p.s = prompt[r].s /\ p.phase = "ended" /\ p.context = 0
    <2>1. prompt[r].s \in Sessions \union {NoSession}
      BY DEF Types, PromptRecords
    <2> QED
      BY <2>1, NoPromptIsRecord DEF PromptRecords, Phases
  <1>2. prompt' = [prompt EXCEPT ![r] = p]
    BY DEF Ends
  <1> HIDE DEF p
  <1>3. prompt'[r] = p /\ \A q \in Requests \ {r} : prompt'[q] = prompt[q]
    BY <1>2 DEF Types
  <1>4. GetsOn(r)
    BY <1>1, <1>3 DEF GetsOn, ContextFrom, Begun
  <1>5. AllGetOn
    BY <1>1, <1>2, <1>4, OneGetsOn
  <1> QED
    BY <1>1, <1>3, <1>5

\* Every step is one of getting on.
LEMMA PromptsGetOn ==
  ASSUME Types, PromptsOK, MapOK, [Next]_vars
  PROVE  AllGetOn
  <1>1. CASE UNCHANGED prompt
    BY <1>1 DEF Types, AllGetOn, GetsOn, ContextFrom, PromptsOK, PromptOK
  <1>2. ASSUME NEW r \in Requests, NEW s \in Sessions, PromptArrives(r, s) PROVE AllGetOn
    <2> DEFINE p == [NoPrompt EXCEPT !.s = s, !.phase = "waiting"]
    <2>1. p \in PromptRecords /\ p.s = s /\ p.phase = "waiting" /\ p.context = 0
      BY NoPromptIsRecord DEF PromptRecords, Phases
    <2>2. prompt' = [prompt EXCEPT ![r] = p]
      BY <1>2 DEF PromptArrives
    <2> HIDE DEF p
    <2>3. prompt'[r] = p
      BY <2>2 DEF Types
    <2>4. GetsOn(r)
      BY <1>2, <2>1, <2>3 DEF GetsOn, PromptArrives, Begun, ContextFrom
    <2> QED
      BY <2>1, <2>2, <2>4, OneGetsOn
  <1>3. ASSUME NEW r \in Requests, CancelArrives(r) PROVE AllGetOn
    <2>1. [prompt[r] EXCEPT !.aborting = TRUE] \in PromptRecords
      BY DEF Types, PromptRecords
    <2>2. PICK p \in PromptRecords : p = [prompt[r] EXCEPT !.aborting = TRUE]
      BY <2>1
    <2>3. p.s = prompt[r].s /\ p.phase = prompt[r].phase /\ p.left = prompt[r].left /\ p.context = prompt[r].context
      BY <2>2 DEF Types, PromptRecords
    <2>4. prompt' = [prompt EXCEPT ![r] = p]
      BY <1>3, <2>2 DEF CancelArrives
    <2>5. prompt'[r] = p
      BY <2>4 DEF Types
    <2>6. GetsOn(r)
      BY <1>3, <2>3, <2>5 DEF CancelArrives, Active, GetsOn, Begun, ContextFrom, PromptsOK, PromptOK
    <2> QED
      BY <2>4, <2>6, OneGetsOn
  <1>4. ASSUME NEW r \in Requests, prompt[r].phase \in Phases \ {"new"}, Ends(r) PROVE AllGetOn
    BY <1>4, EndedGetOn
  <1>5. ASSUME NEW r \in Requests, Creating(r),
               \/ HasTurn(r) /\ prompt[r].s \notin Cached
               \/ prompt[r].phase = "evicting"
        PROVE  AllGetOn
    <2>1. PICK p : p = [prompt[r] EXCEPT !.phase = "creating", !.left = Profiles, !.victim = NoSession]
      OBVIOUS
    <2>2. p \in PromptRecords
      <3>1. Profiles \in 0..Profiles
        BY WorkerSessionsAssumption
      <3> QED
        BY <2>1, <3>1 DEF Types, PromptRecords, Phases
    <2>3. p.s = prompt[r].s /\ p.phase = "creating" /\ p.left = Profiles /\ p.context = prompt[r].context
      BY <2>1 DEF Types, PromptRecords
    <2>4. prompt' = [prompt EXCEPT ![r] = p]
      BY <1>5, <2>1 DEF Creating
    <2>5. prompt'[r] = p
      BY <2>4 DEF Types
    <2>6. prompt'[r].left > 0
      BY <2>3, <2>5, WorkerSessionsAssumption
    <2>7. prompt[r].phase # "new" => prompt[r].s \in Sessions
      BY DEF PromptsOK, PromptOK
    <2>8. GetsOn(r)
      BY <1>5, <2>3, <2>5, <2>6, <2>7 DEF HasTurn, GetsOn, Begun, ContextFrom
    <2> QED
      BY <2>2, <2>4, <2>8, OneGetsOn
  <1>6. ASSUME NEW r \in Requests, NEW c \in Requests \union {0},
               \/ HasTurn(r) /\ prompt[r].s \in Cached /\ c = Entry(prompt[r].s)
               \/ prompt[r].phase = "creating" /\ c = r /\ r \in made',
               prompt' = [prompt EXCEPT ![r] = [@ EXCEPT !.phase = "generating", !.context = c]]
        PROVE  AllGetOn
    <2>1. PICK p : p = [prompt[r] EXCEPT !.phase = "generating", !.context = c]
      OBVIOUS
    <2>2. p \in PromptRecords
      BY <2>1 DEF Types, PromptRecords, Phases
    <2>3. p.s = prompt[r].s /\ p.phase = "generating" /\ p.context = c
      BY <2>1 DEF Types, PromptRecords
    <2>4. prompt' = [prompt EXCEPT ![r] = p]
      BY <1>6, <2>1
    <2>5. prompt'[r] = p
      BY <2>4 DEF Types
    <2>6. GetsOn(r)
      BY <1>6, <2>3, <2>5 DEF HasTurn, GetsOn, Begun, ContextFrom
    <2> QED
      BY <2>2, <2>4, <2>6, OneGetsOn
  <1>7. ASSUME NEW r \in Requests, NEW v \in Sessions,
               HasTurn(r), prompt[r].s \notin Cached, Len(sessions) >= maxCount,
               prompt' = [prompt EXCEPT ![r] = [@ EXCEPT !.phase = "evicting", !.victim = v]]
        PROVE  AllGetOn
    <2>1. PICK p : p = [prompt[r] EXCEPT !.phase = "evicting", !.victim = v]
      OBVIOUS
    <2>2. p \in PromptRecords
      BY <2>1 DEF Types, PromptRecords, Phases
    <2>3. p.s = prompt[r].s /\ p.phase = "evicting" /\ p.context = prompt[r].context
      BY <2>1 DEF Types, PromptRecords
    <2>4. prompt' = [prompt EXCEPT ![r] = p]
      BY <1>7, <2>1
    <2>5. prompt'[r] = p
      BY <2>4 DEF Types
    <2>6. prompt[r].s \in Sessions
      BY <1>7 DEF PromptsOK, PromptOK, HasTurn
    <2>7. GetsOn(r)
      BY <1>7, <2>3, <2>5, <2>6 DEF HasTurn, GetsOn, Begun, ContextFrom
    <2> QED
      BY <2>2, <2>4, <2>7, OneGetsOn
  <1>8. ASSUME NEW r \in Requests, ContextFails(r) PROVE AllGetOn
    <2>1. CASE prompt[r].aborting \/ prompt[r].left = 1
      BY <1>4, <1>8, <2>1 DEF ContextFails, Phases
    <2>2. CASE ~(prompt[r].aborting \/ prompt[r].left = 1)
      <3>1. prompt[r].left - 1 \in 0..Profiles /\ prompt[r].left - 1 > 0
        BY WorkerSessionsAssumption, <1>8, <2>2 DEF Types, PromptRecords, PromptsOK, PromptOK, ContextFails
      <3>2. PICK p : p = [prompt[r] EXCEPT !.left = prompt[r].left - 1]
        OBVIOUS
      <3>3. /\ p \in PromptRecords /\ p.s = prompt[r].s /\ p.phase = prompt[r].phase
            /\ p.left = prompt[r].left - 1 /\ p.context = prompt[r].context
        BY <3>1, <3>2 DEF Types, PromptRecords
      <3>4. prompt' = [prompt EXCEPT ![r] = p]
        BY <1>8, <2>2, <3>2 DEF ContextFails
      <3>5. prompt'[r] = p
        BY <3>4 DEF Types
      <3>6. prompt[r].phase = "creating"
        BY <1>8 DEF ContextFails
      <3>7. GetsOn(r)
        BY <3>1, <3>3, <3>5, <3>6 DEF GetsOn, Begun, ContextFrom
      <3> QED
        BY <3>3, <3>4, <3>7, OneGetsOn
    <2> QED
      BY <2>1, <2>2
  <1>9. ASSUME NEW r \in Requests, TurnAborted(r) \/ Refused(r) \/ Generated(r) \/ EvictionFails(r) PROVE AllGetOn
    BY <1>4, <1>9 DEF TurnAborted, Refused, Generated, EvictionFails, Wanted, HasTurn, Phases
  <1>10. ASSUME NEW r \in Requests, Reuses(r) PROVE AllGetOn
    <2>1. Entry(prompt[r].s) \in Requests \union {0}
      BY <1>10, PlaceOfEntry DEF Types, MapOK, OwnedBy, Reuses, Entry
    <2> QED
      BY <1>6, <1>10, <2>1 DEF Reuses, Wanted
  <1>11. ASSUME NEW r \in Requests, NEW v \in Sessions, Evicts(r, v) PROVE AllGetOn
    BY <1>5, <1>7, <1>11 DEF Evicts, Wanted
  <1>12. ASSUME NEW r \in Requests, Creates(r) PROVE AllGetOn
    BY <1>5, <1>12 DEF Creates, Wanted
  <1>13. ASSUME NEW r \in Requests, Evicted(r) PROVE AllGetOn
    BY <1>4, <1>5, <1>13 DEF Evicted, Phases
  <1>14. ASSUME NEW r \in Requests, ContextCreated(r) PROVE AllGetOn
    BY <1>4, <1>6, <1>14 DEF ContextCreated, Phases
  <1>15. ASSUME NEW s \in Sessions, ResetArrives(s) PROVE AllGetOn
    BY <1>15, AbortedGetOn DEF ResetArrives
  <1>16. CASE ResetBegins
    BY <1>16, AbortedGetOn DEF ResetBegins
  <1>17. ResetDisposes \/ ResetEnds \/ ResetFails \/ UNCHANGED vars => UNCHANGED prompt
    BY DEF ResetDisposes, ResetEnds, ResetFails, vars
  <1> QED
    BY <1>1, <1>2, <1>3, <1>8, <1>9, <1>10, <1>11, <1>12, <1>13, <1>14, <1>15, <1>16, <1>17
       DEF Next, PromptStep, TakesTurn, ResetStep

--------------------------------------------------------------------------------
(* The invariant.                                                           *)

\* Both hold when the worker starts.
LEMMA Started == Init => SessionsInv /\ RoomInv
  <1> SUFFICES ASSUME Init PROVE SessionsInv /\ RoomInv
    OBVIOUS
  <1>1. /\ sessions = <<>> /\ ops = <<>> /\ reset = Idle /\ DOMAIN sessions = {} /\ DOMAIN ops = {}
        /\ made = {} /\ disposed = {} /\ blocked = {} /\ failed = {}
    BY DEF Init
  <1>2. \A r \in Requests : prompt[r] = NoPrompt
    BY DEF Init
  <1>3. Types
    <2>1. prompt \in [Requests -> PromptRecords]
      BY NoPromptIsRecord DEF Init
    <2>2. reset \in Resets
      BY <1>1 DEF Resets, Idle
    <2>3. maxCount \in Nat
      BY WorkerSessionsAssumption DEF Init
    <2>4. sessions \in Seq(Entries) /\ ops \in Seq(Sessions)
      BY <1>1
    <2> QED
      BY <1>1, <2>1, <2>2, <2>3, <2>4 DEF Types, Distinct
  <1>4. PromptsOK /\ InOrder /\ CreatesWhatIsMissing
    BY <1>1, <1>2 DEF NoPrompt, PromptsOK, PromptOK, InOrder, CreatesWhatIsMissing
  <1>5. MapOK /\ ChainOK
    BY <1>1 DEF MapOK, ChainOK, Idle
  <1>6. RoomyInv
    BY <1>1, <1>2 DEF RoomyInv, NoPrompt, Generating
  <1> QED
    BY <1>3, <1>4, <1>5, <1>6 DEF SessionsInv, RoomInv

\* Requests arrive in order, and only the first of a session has begun.
LEMMA OrderKept ==
  ASSUME Types, InOrder, AllGetOn
  PROVE  InOrder'
  <1>1. ASSUME NEW q \in Requests, NEW r \in Requests, q < r, prompt'[q].phase = "new"
        PROVE  prompt'[r].phase = "new"
    <2>1. prompt[q].phase = "new"
      BY <1>1 DEF AllGetOn, GetsOn
    <2>2. prompt[r].phase = "new"
      BY <1>1, <2>1 DEF InOrder
    <2>3. q \in 1..(r - 1)
      BY <1>1, WorkerSessionsAssumption DEF Requests
    <2> QED
      BY <2>1, <2>2, <2>3 DEF AllGetOn, GetsOn
  <1>2. ASSUME NEW r \in Requests, prompt'[r].phase \in Begun, NEW q \in Requests,
               Active(q)', prompt'[q].s = prompt'[r].s
        PROVE  q >= r
    <2>1. prompt[r].phase # "new" /\ (prompt[r].phase \in Begun \/ HasTurn(r)) /\ prompt'[r].s = prompt[r].s
      BY <1>2 DEF AllGetOn, GetsOn, HasTurn, Begun
    <2>2. \A x \in ActiveOf(prompt[r].s) : x >= r
      BY <2>1 DEF InOrder, HasTurn, Begun
    <2>3. CASE prompt[q].phase = "new"
      <3>1. ~(q < r)
        BY <2>1, <2>3 DEF InOrder
      <3> QED
        BY <3>1, WorkerSessionsAssumption DEF Requests
    <2>4. CASE prompt[q].phase # "new"
      <3>1. Active(q) /\ prompt[q].s = prompt'[q].s
        BY <1>2, <2>4 DEF AllGetOn, GetsOn, Active
      <3> QED
        BY <1>2, <2>1, <2>2, <3>1 DEF ActiveOf
    <2> QED
      BY <2>3, <2>4
  <1> QED
    BY <1>1, <1>2 DEF InOrder, ActiveOf, Begun

\* The prompts of a session after the step.
ActiveNext(s) == {r \in Requests : Active(r)' /\ prompt'[r].s = s}

\* While a session is being reset its prompts only end.
LEMMA BlockedOnlyEnds ==
  ASSUME AllGetOn, NEW s \in blocked
  PROVE  ActiveNext(s) \subseteq ActiveOf(s)
  <1> SUFFICES ASSUME NEW q \in Requests, Active(q)', prompt'[q].s = s PROVE Active(q) /\ prompt[q].s = s
    BY DEF ActiveOf, ActiveNext
  <1> QED
    BY DEF AllGetOn, GetsOn, Active

\* Owners do not change.
LEMMA OwnedKept ==
  ASSUME Types, PromptsOK, AllGetOn, made \subseteq made', NEW c, NEW s, OwnedBy(c, s)
  PROVE  OwnedBy(c, s)'
  <1>1. c \in Requests /\ prompt[c].phase # "new"
    BY DEF Types, PromptsOK, PromptOK, OwnedBy
  <1> QED
    BY <1>1 DEF AllGetOn, GetsOn, OwnedBy

\* What becomes of the Map and of the contexts, whatever the step.
NewEntry(r) == [s |-> prompt[r].s, context |-> r]
Adds(r) == prompt[r].phase = "creating" /\ made' = made \union {r} /\ prompt'[r].phase \in {"generating", "ended"}

MapGoesOn ==
  /\ sessions' \in Seq(Entries) /\ Distinct(sessions')
  /\ made' = made \/ \E r \in Requests : Adds(r)
  /\ disposed \subseteq disposed' /\ disposed' \subseteq made'
  /\ \A j \in DOMAIN sessions' :
       \/ \E i \in DOMAIN sessions : sessions[i] = sessions'[j]
       \/ \E r \in Requests :
            Adds(r) /\ prompt'[r].phase = "generating" /\ sessions'[j] = NewEntry(r) /\ disposed' = disposed

\* Every step leaves the Map as MapGoesOn says.
LEMMA MapSteps ==
  ASSUME Types, PromptsOK, MapOK, [Next]_vars
  PROVE  MapGoesOn
  <1>1. CASE UNCHANGED cacheVars
    BY <1>1 DEF cacheVars, Types, MapGoesOn
  <1>2. ASSUME NEW s, sessions' = Without(s), UNCHANGED <<made, disposed>> PROVE MapGoesOn
    BY <1>2, WithoutEntries DEF Types, MapGoesOn
  <1>3. ASSUME NEW s \in Cached PROVE Entry(s) \in made
    BY <1>3, PlaceOfEntry DEF Types, MapOK, OwnedBy, Entry
  <1>4. ASSUME NEW s \in Cached, disposed' = disposed \union {Entry(s)}, UNCHANGED <<made, sessions>>
        PROVE  MapGoesOn
    BY <1>3, <1>4 DEF Types, MapGoesOn
  <1>5. ASSUME NEW r \in Requests, NEW v \in Sessions, Evicts(r, v) PROVE MapGoesOn
    BY <1>2, <1>4, <1>5 DEF Evicts, Evictable, Cached
  <1>6. ASSUME NEW r \in Requests, ContextCreated(r) PROVE MapGoesOn
    <2>1. prompt[r].phase = "creating" /\ made' = made \union {r}
      BY <1>6 DEF ContextCreated
    <2>2. CASE prompt[r].aborting
      <3>1. UNCHANGED sessions /\ disposed' = disposed \union {r} /\ Ends(r)
        BY <1>6, <2>2 DEF ContextCreated
      <3>2. prompt'[r].phase = "ended"
        BY <2>1, <3>1, EndedGetOn DEF Phases
      <3> QED
        BY <2>1, <3>1, <3>2 DEF Types, MapGoesOn, Adds
    <2>3. CASE ~prompt[r].aborting
      <3> DEFINE n == Without(prompt[r].s)
      <3>1. sessions' = Append(n, NewEntry(r)) /\ UNCHANGED disposed
        BY <1>6, <2>3 DEF ContextCreated, NewEntry
      <3>2. prompt'[r].phase = "generating"
        BY <1>6, <2>3 DEF ContextCreated, Types, PromptRecords
      <3>3. Adds(r)
        BY <2>1, <3>2 DEF Adds
      <3>4. /\ n \in Seq(Entries) /\ Distinct(n)
            /\ \A j \in DOMAIN n : n[j].s # prompt[r].s /\ \E i \in DOMAIN sessions : sessions[i] = n[j]
        BY WithoutEntries DEF Types
      <3>5. NewEntry(r) \in Entries /\ NewEntry(r).s = prompt[r].s
        BY <2>1 DEF NewEntry, Entries, PromptsOK, PromptOK
      <3> HIDE DEF n
      <3>6. /\ sessions' \in Seq(Entries) /\ Len(sessions') = Len(n) + 1
            /\ \A j \in 1..Len(n) : sessions'[j] = n[j]
            /\ sessions'[Len(n) + 1] = NewEntry(r)
        BY <3>1, <3>4, <3>5, AppendProperties
      <3>7. Len(n) \in Nat /\ DOMAIN n = 1..Len(n) /\ DOMAIN sessions' = 1..(Len(n) + 1)
        BY <3>4, <3>6, LenProperties
      <3>8. ASSUME NEW j \in DOMAIN sessions' PROVE (j \in DOMAIN n /\ sessions'[j] = n[j]) \/ j = Len(n) + 1
        BY <3>6, <3>7
      <3>9. Distinct(sessions')
        <4> SUFFICES ASSUME NEW i \in DOMAIN sessions', NEW j \in DOMAIN sessions', sessions'[i].s = sessions'[j].s
                     PROVE  i = j
          BY DEF Distinct
        <4> QED
          BY <3>4, <3>5, <3>6, <3>8 DEF Distinct
      <3>10. \A j \in DOMAIN sessions' :
               \/ \E i \in DOMAIN sessions : sessions[i] = sessions'[j]
               \/ sessions'[j] = NewEntry(r)
        BY <3>4, <3>6, <3>8
      <3>11. disposed \subseteq disposed' /\ disposed' \subseteq made'
        BY <2>1, <3>1 DEF Types
      <3> QED
        BY <3>1, <3>2, <3>3, <3>6, <3>9, <3>10, <3>11 DEF MapGoesOn
    <2> QED
      BY <2>2, <2>3
  <1>7. ASSUME NEW r \in Requests, Evicted(r) PROVE MapGoesOn
    BY <1>2, <1>7 DEF Evicted
  <1>8. CASE ResetDisposes
    BY <1>2, <1>4, <1>8 DEF ResetDisposes, ResetDone
  <1>9. CASE ResetEnds
    BY <1>2, <1>9 DEF ResetEnds, ResetDone
  <1>10. ASSUME NEW r \in Requests,
                \/ \E s \in Sessions : PromptArrives(r, s)
                \/ CancelArrives(r) \/ TurnAborted(r) \/ Reuses(r) \/ Creates(r) \/ Refused(r)
                \/ ContextFails(r) \/ Generated(r) \/ EvictionFails(r)
         PROVE  MapGoesOn
    BY <1>1, <1>10 DEF PromptArrives, CancelArrives, TurnAborted, Reuses, Creates, Refused, ContextFails,
                       Generated, EvictionFails
  <1>11. ASSUME NEW s \in Sessions, ResetArrives(s) PROVE MapGoesOn
    BY <1>1, <1>11 DEF ResetArrives
  <1>12. CASE ResetBegins \/ ResetFails \/ UNCHANGED vars
    BY <1>1, <1>12 DEF ResetBegins, ResetFails, vars
  <1> QED
    BY <1>5, <1>6, <1>7, <1>8, <1>9, <1>10, <1>11, <1>12 DEF Next, PromptStep, TakesTurn, ResetStep

\* Every entry stays that of the session its context was created for.
LEMMA MapKept ==
  ASSUME Types, PromptsOK, MapOK, AllGetOn, MapGoesOn
  PROVE  MapOK'
  <1>1. made \subseteq made'
    BY DEF MapGoesOn, Adds
  <1> SUFFICES ASSUME NEW j \in DOMAIN sessions' PROVE OwnedBy(sessions[j].context, sessions[j].s)'
    BY DEF MapOK
  <1>2. ASSUME NEW i \in DOMAIN sessions, sessions[i] = sessions'[j]
        PROVE  OwnedBy(sessions[j].context, sessions[j].s)'
    <2>1. OwnedBy(sessions'[j].context, sessions'[j].s)
      BY <1>2 DEF MapOK
    <2>2. PICK c, s : c = sessions'[j].context /\ s = sessions'[j].s
      OBVIOUS
    <2>3. OwnedBy(c, s)'
      BY <1>1, <2>1, <2>2, OwnedKept
    <2> QED
      BY <2>2, <2>3 DEF OwnedBy
  <1>3. ASSUME NEW r \in Requests, Adds(r), sessions'[j] = NewEntry(r)
        PROVE  OwnedBy(sessions[j].context, sessions[j].s)'
    <2>1. prompt'[r].s = prompt[r].s
      BY <1>3 DEF Adds, AllGetOn, GetsOn
    <2> QED
      BY <1>3, <2>1 DEF OwnedBy, NewEntry, Adds
  <1> QED
    BY <1>2, <1>3 DEF MapGoesOn

\* Every prompt keeps a context of its own session.
LEMMA PromptsKept ==
  ASSUME Types, PromptsOK, MapOK, AllGetOn, MapGoesOn
  PROVE  PromptsOK'
  <1>1. made \subseteq made'
    BY DEF MapGoesOn, Adds
  <1> SUFFICES ASSUME NEW r \in Requests PROVE PromptOK(r)'
    BY DEF PromptsOK
  <1>2. PromptOK(r) /\ GetsOn(r)
    BY DEF PromptsOK, AllGetOn
  <1>3. prompt'[r].phase # "new" => prompt'[r].s \in Sessions
    BY <1>2 DEF PromptOK, GetsOn
  <1>4. r \in made' => prompt'[r].phase \in {"generating", "ended"}
    BY <1>2 DEF PromptOK, GetsOn, MapGoesOn, Adds
  <1>5. /\ prompt'[r].context \in made' \union {0}
        /\ prompt'[r].phase = "generating" => OwnedBy(prompt[r].context, prompt[r].s)'
    <2>1. CASE prompt'[r].phase # "generating" /\ prompt'[r].context \in {0, prompt[r].context}
      BY <1>1, <1>2, <2>1 DEF PromptOK
    <2>2. ASSUME prompt[r].phase # "new", OwnedBy(prompt'[r].context, prompt[r].s)
          PROVE  prompt'[r].context \in made' /\ OwnedBy(prompt[r].context, prompt[r].s)'
      <3>1. prompt'[r].s = prompt[r].s
        BY <1>2, <2>2 DEF GetsOn
      <3>2. PICK c, s : c = prompt'[r].context /\ s = prompt'[r].s
        OBVIOUS
      <3>3. OwnedBy(c, s)'
        BY <1>1, <2>2, <3>1, <3>2, OwnedKept
      <3> QED
        BY <3>2, <3>3 DEF OwnedBy
    <2>3. CASE prompt[r].phase = "generating" /\ prompt'[r].context = prompt[r].context
      BY <1>2, <2>2, <2>3 DEF PromptOK, OwnedBy
    <2>4. CASE HasTurn(r) /\ prompt[r].s \in Cached /\ prompt'[r].context = Entry(prompt[r].s)
      <3>1. OwnedBy(Entry(prompt[r].s), prompt[r].s)
        BY <2>4, PlaceOfEntry DEF Types, MapOK, Entry, OwnedBy
      <3> QED
        BY <2>2, <2>4, <3>1 DEF HasTurn, OwnedBy
    <2>5. CASE prompt[r].phase = "creating" /\ prompt'[r].context = r /\ r \in made'
      BY <1>2, <2>5 DEF OwnedBy, GetsOn
    <2> QED
      BY <1>2, <2>1, <2>3, <2>4, <2>5 DEF GetsOn, ContextFrom
  <1>6. prompt'[r].phase = "creating" => prompt'[r].left > 0
    BY <1>2 DEF GetsOn
  <1> QED
    BY <1>3, <1>4, <1>5, <1>6 DEF PromptOK, OwnedBy

\* Nobody else gives a session a context while one of its prompts creates one.
LEMMA MissingKept ==
  ASSUME Types, PromptsOK, InOrder, CreatesWhatIsMissing, AllGetOn, MapGoesOn
  PROVE  CreatesWhatIsMissing'
  <1> SUFFICES ASSUME NEW r \in Requests, prompt'[r].phase \in {"evicting", "creating"},
                      NEW j \in DOMAIN sessions', sessions'[j].s = prompt'[r].s
               PROVE  FALSE
    BY DEF CreatesWhatIsMissing, Cached
  <1>1. /\ prompt[r].phase \in Begun \/ HasTurn(r)
        /\ prompt[r].phase \in {"evicting", "creating"} \/ prompt[r].s \notin Cached
        /\ prompt[r].phase \notin {"new", "ended"} /\ prompt'[r].s = prompt[r].s
    BY DEF AllGetOn, GetsOn, Begun, HasTurn
  <1>2. prompt[r].s \notin Cached
    BY <1>1 DEF CreatesWhatIsMissing
  <1>3. ~\E i \in DOMAIN sessions : sessions[i] = sessions'[j]
    BY <1>1, <1>2 DEF Cached
  <1>4. PICK x \in Requests : Adds(x) /\ prompt'[x].phase = "generating" /\ sessions'[j] = NewEntry(x)
    BY <1>3 DEF MapGoesOn
  <1>5. prompt[x].s = prompt[r].s /\ x # r /\ prompt[x].phase = "creating"
    BY <1>1, <1>4 DEF NewEntry, Adds
  <1>6. x \in ActiveOf(prompt[r].s) /\ r \in ActiveOf(prompt[x].s)
    BY <1>1, <1>5 DEF ActiveOf, Active
  <1>7. x >= r /\ r >= x
    BY <1>1, <1>5, <1>6 DEF InOrder, HasTurn, Begun
  <1> QED
    BY <1>5, <1>7, WorkerSessionsAssumption DEF Requests

--------------------------------------------------------------------------------
(* The chain of operations.                                                 *)

\* What becomes of the operations, whatever the step: one more, or the first
\* gone.  ResetDone also ends the block of its session.
Begins ==
  /\ reset.phase = "idle" /\ ops # <<>>
  /\ reset' = [phase |-> "waiting", waits |-> ActiveOf(Head(ops))]
  /\ UNCHANGED <<ops, blocked, failed>>
Disposes ==
  /\ reset.phase = "waiting" /\ ~\E r \in reset.waits : Active(r)
  /\ Head(ops) \in Cached /\ Entry(Head(ops)) \notin disposed
  /\ disposed' = disposed \union {Entry(Head(ops))}
  /\ reset' = [reset EXCEPT !.phase = "disposing"]
  /\ UNCHANGED <<sessions, made, prompt, ops, blocked, failed>>
Done ==
  /\ \/ reset.phase = "disposing"
     \/ /\ reset.phase = "waiting" /\ ~\E r \in reset.waits : Active(r)
        /\ Head(ops) \in Cached => Entry(Head(ops)) \in disposed
  /\ ResetDone(Head(ops))
  /\ UNCHANGED <<made, disposed, prompt>>
Fails ==
  /\ reset.phase = "disposing"
  /\ ops' = Tail(ops) /\ reset' = Idle /\ failed' = failed \union {Head(ops)}
  /\ UNCHANGED <<sessions, blocked>>
Joins ==
  \E s \in Sessions \ blocked :
    ops' = Append(ops, s) /\ blocked' = blocked \union {s} /\ UNCHANGED <<sessions, disposed, reset, failed>>

ChainGoesOn == UNCHANGED <<ops, reset, blocked, failed>> \/ Begins \/ Disposes \/ Done \/ Fails \/ Joins

\* Every step leaves the chain as ChainGoesOn says.
LEMMA ChainSteps ==
  ASSUME [Next]_vars
  PROVE  ChainGoesOn
  <1>1. ASSUME NEW r \in Requests,
               \/ \E s \in Sessions : PromptArrives(r, s) \/ Evicts(r, s)
               \/ CancelArrives(r) \/ TurnAborted(r) \/ Reuses(r) \/ Creates(r) \/ Refused(r)
               \/ Evicted(r) \/ ContextCreated(r) \/ ContextFails(r) \/ Generated(r) \/ EvictionFails(r)
        PROVE  ChainGoesOn
    <2>1. UNCHANGED resetVars
      BY <1>1 DEF PromptArrives, Evicts, CancelArrives, TurnAborted, Reuses, Creates, Refused, Evicted,
                  ContextCreated, ContextFails, Generated, EvictionFails
    <2> QED
      BY <2>1 DEF resetVars, ChainGoesOn
  <1>2. ASSUME NEW s \in Sessions, ResetArrives(s) PROVE ChainGoesOn
    BY <1>2 DEF ResetArrives, cacheVars, Joins, ChainGoesOn
  <1>3. CASE ResetBegins
    BY <1>3 DEF ResetBegins, Affected, Begins, ChainGoesOn
  <1>4. CASE ResetDisposes
    BY <1>4 DEF ResetDisposes, Disposes, Done, ChainGoesOn
  <1>5. CASE ResetEnds
    BY <1>5 DEF ResetEnds, Done, ChainGoesOn
  <1>6. CASE ResetFails
    BY <1>6 DEF ResetFails, cacheVars, Fails, ChainGoesOn
  <1>7. CASE UNCHANGED vars
    BY <1>7 DEF vars, resetVars, ChainGoesOn
  <1> QED
    BY <1>1, <1>2, <1>3, <1>4, <1>5, <1>6, <1>7 DEF Next, PromptStep, TakesTurn, ResetStep

\* The chain without its first operation.
LEMMA FirstGone ==
  ASSUME Types, ChainOK, ops # <<>>
  PROVE  /\ Head(ops) \in Sessions /\ Head(ops) \in blocked \ failed
         /\ Tail(ops) \in Seq(Sessions)
         /\ \A i, j \in DOMAIN Tail(ops) : Tail(ops)[i] = Tail(ops)[j] => i = j
         /\ \A i \in DOMAIN Tail(ops) : Tail(ops)[i] \in blocked \ failed /\ Tail(ops)[i] # Head(ops)
  <1>1. /\ ops \in Seq(Sessions) /\ Len(ops) \in Nat /\ DOMAIN ops = 1..Len(ops) /\ Len(ops) # 0
    BY LenProperties, EmptySeq DEF Types
  <1>2. Head(ops) = ops[1] /\ 1 \in DOMAIN ops
    BY <1>1
  <1>3. PICK n : n = Tail(ops)
    OBVIOUS
  <1>4. n \in Seq(Sessions) /\ Len(n) = Len(ops) - 1 /\ \A i \in 1..Len(n) : n[i] = ops[i + 1]
    BY <1>1, <1>3, HeadTailProperties
  <1>5. DOMAIN n = 1..(Len(ops) - 1)
    BY <1>4, LenProperties
  <1>6. ASSUME NEW i \in DOMAIN n PROVE i \in Nat /\ i + 1 \in DOMAIN ops /\ i + 1 # 1 /\ n[i] = ops[i + 1]
    BY <1>1, <1>4, <1>5, <1>6
  <1>7. ASSUME NEW i \in DOMAIN n, NEW j \in DOMAIN n, n[i] = n[j] PROVE i = j
    <2>1. i + 1 = j + 1
      BY <1>6, <1>7 DEF ChainOK
    <2> QED
      BY <1>6, <2>1
  <1>8. ASSUME NEW i \in DOMAIN n PROVE n[i] \in blocked \ failed /\ n[i] # ops[1]
    BY <1>2, <1>6 DEF ChainOK
  <1>9. ops[1] \in Sessions /\ ops[1] \in blocked \ failed
    BY <1>1, <1>2 DEF ChainOK
  <1> QED
    BY <1>2, <1>3, <1>4, <1>7, <1>8, <1>9

\* The chain with one operation more.
LEMMA OneMore ==
  ASSUME Types, ChainOK, NEW s \in Sessions \ blocked
  PROVE  /\ Append(ops, s) \in Seq(Sessions) /\ Append(ops, s) # <<>>
         /\ \A i, j \in DOMAIN Append(ops, s) : Append(ops, s)[i] = Append(ops, s)[j] => i = j
         /\ \A i \in DOMAIN Append(ops, s) : Append(ops, s)[i] \in (blocked \union {s}) \ failed
         /\ ops # <<>> => Head(Append(ops, s)) = Head(ops)
  <1>1. ops \in Seq(Sessions) /\ Len(ops) \in Nat /\ DOMAIN ops = 1..Len(ops)
    BY LenProperties DEF Types
  <1>2. PICK n : n = Append(ops, s)
    OBVIOUS
  <1>3. /\ n \in Seq(Sessions) /\ Len(n) = Len(ops) + 1
        /\ \A i \in 1..Len(ops) : n[i] = ops[i]
        /\ n[Len(ops) + 1] = s
    BY <1>1, <1>2, AppendProperties
  <1>4. DOMAIN n = 1..(Len(ops) + 1)
    BY <1>3, LenProperties
  <1>5. ASSUME NEW i \in DOMAIN n
        PROVE  \/ i \in DOMAIN ops /\ n[i] = ops[i] /\ n[i] \in blocked \ failed
               \/ i = Len(ops) + 1 /\ n[i] = s
    BY <1>1, <1>3, <1>4 DEF ChainOK
  <1>6. \A i, j \in DOMAIN n : n[i] = n[j] => i = j
    BY <1>5 DEF ChainOK
  <1>7. \A i \in DOMAIN n : n[i] \in (blocked \union {s}) \ failed
    BY <1>5 DEF Types
  <1>8. n # <<>> /\ Head(n) = n[1]
    BY <1>1, <1>3
  <1>9. ASSUME ops # <<>> PROVE Head(n) = Head(ops)
    <2>1. 1 \in 1..Len(ops) /\ Head(ops) = ops[1]
      BY <1>1, <1>9, EmptySeq
    <2> QED
      BY <1>3, <1>8, <2>1
  <1> QED
    BY <1>2, <1>3, <1>6, <1>7, <1>8, <1>9

\* The configuration does not change while the model is loaded.
LEMMA MaxCountKept == [Next]_vars => UNCHANGED maxCount
  BY DEF Next, PromptArrives, Evicts, CancelArrives, TurnAborted, Reuses, Creates, Refused, Evicted,
         ContextCreated, ContextFails, Generated, EvictionFails, ResetArrives, ResetBegins, ResetDisposes,
         ResetEnds, ResetFails, vars, PromptStep, TakesTurn, ResetStep

\* Every variable keeps its type.
LEMMA TypesKept ==
  ASSUME Types, ChainOK, AllGetOn, MapGoesOn, ChainGoesOn, [Next]_vars
  PROVE  Types'
  <1>1. /\ sessions' \in Seq(Entries) /\ Distinct(sessions')
        /\ made' \subseteq Requests /\ disposed' \subseteq made'
        /\ prompt' \in [Requests -> PromptRecords]
    BY DEF Types, MapGoesOn, Adds, AllGetOn
  <1>2. maxCount' = maxCount
    BY MaxCountKept
  <1>3. Idle \in Resets
    BY DEF Idle, Resets
  <1>4. ops' \in Seq(Sessions) /\ reset' \in Resets /\ blocked' \subseteq Sessions /\ failed' \subseteq blocked'
    <2>1. CASE UNCHANGED <<ops, reset, blocked, failed>>
      BY <2>1 DEF Types
    <2>2. CASE Begins
      BY <2>2 DEF Begins, Types, Resets, ActiveOf
    <2>3. CASE Disposes
      BY <2>3 DEF Disposes, Types, Resets
    <2>4. CASE Done
      BY <1>3, <2>4, FirstGone DEF Done, ResetDone, Types, ChainOK
    <2>5. CASE Fails
      BY <1>3, <2>5, FirstGone DEF Fails, Types, ChainOK
    <2>6. CASE Joins
      BY <2>6, OneMore DEF Joins, Types
    <2> QED
      BY <2>1, <2>2, <2>3, <2>4, <2>5, <2>6 DEF ChainGoesOn
  <1>5. (sessions \in Seq(Entries) /\ Distinct(sessions))'
    BY <1>1 DEF Distinct
  <1> QED
    BY <1>1, <1>2, <1>4, <1>5 DEF Types

\* What is disposed of belongs to nobody's prompt.
LEMMA OnlyUnused ==
  ASSUME Types, PromptsOK, MapOK, ChainOK, [Next]_vars, NEW c \in disposed' \ disposed
  PROVE  \/ \E s \in Sessions : c \in made /\ OwnedBy(c, s) /\ ActiveOf(s) = {}
         \/ c \in Requests /\ Adds(c) /\ prompt'[c].phase = "ended"
  <1>1. ASSUME NEW s \in Cached PROVE OwnedBy(Entry(s), s) /\ s \in Sessions
    <2>1. Place(s) \in DOMAIN sessions /\ sessions[Place(s)].s = s
      BY <1>1, PlaceOfEntry DEF Types
    <2>2. sessions[Place(s)] \in Entries
      BY <2>1 DEF Types
    <2> QED
      BY <2>1, <2>2 DEF MapOK, Entry, Entries
  <1>2. ASSUME NEW r \in Requests, NEW v \in Sessions, Evicts(r, v)
        PROVE  \E s \in Sessions : c \in made /\ OwnedBy(c, s) /\ ActiveOf(s) = {}
    <2>1. v \in Cached /\ ActiveOf(v) = {}
      BY <1>2 DEF Evicts, Evictable, Cached
    <2>2. c = Entry(v)
      BY <1>2 DEF Evicts
    <2> QED
      BY <1>1, <2>1, <2>2 DEF OwnedBy
  <1>3. CASE ResetDisposes
    <2>1. Head(ops) \in Cached /\ c = Entry(Head(ops))
      BY <1>3 DEF ResetDisposes
    <2>2. ActiveOf(Head(ops)) = {}
      BY <1>3 DEF ResetDisposes, ChainOK, ActiveOf
    <2> QED
      BY <1>1, <2>1, <2>2 DEF OwnedBy
  <1>4. ASSUME NEW r \in Requests, ContextCreated(r)
        PROVE  c \in Requests /\ Adds(c) /\ prompt'[c].phase = "ended"
    <2>1. prompt[r].phase = "creating" /\ prompt[r].aborting /\ Ends(r) /\ c = r /\ made' = made \union {r}
      BY <1>4 DEF ContextCreated
    <2>2. prompt'[r].phase = "ended"
      BY <2>1, EndedGetOn DEF Phases
    <2> QED
      BY <2>1, <2>2 DEF Adds
  <1>5. ASSUME UNCHANGED disposed PROVE FALSE
    BY <1>5
  <1>6. ASSUME NEW r \in Requests,
               \/ \E s \in Sessions : PromptArrives(r, s)
               \/ CancelArrives(r) \/ TurnAborted(r) \/ Reuses(r) \/ Creates(r) \/ Refused(r) \/ Evicted(r)
               \/ ContextFails(r) \/ Generated(r) \/ EvictionFails(r)
        PROVE  UNCHANGED disposed
    BY <1>6 DEF cacheVars, PromptArrives, CancelArrives, TurnAborted, Reuses, Creates, Refused, Evicted,
                ContextFails, Generated, EvictionFails
  <1>7. ASSUME \/ \E s \in Sessions : ResetArrives(s)
               \/ ResetBegins \/ ResetEnds \/ ResetFails \/ UNCHANGED vars
        PROVE  UNCHANGED disposed
    BY <1>7 DEF cacheVars, vars, ResetArrives, ResetBegins, ResetEnds, ResetFails
  <1> QED
    BY <1>2, <1>3, <1>4, <1>5, <1>6, <1>7 DEF Next, PromptStep, TakesTurn, ResetStep

\* The reset in progress goes on to wait for every prompt of its session.
LEMMA ChainKept ==
  ASSUME Types, PromptsOK, ChainOK, AllGetOn, MapGoesOn, ChainGoesOn
  PROVE  ChainOK'
  <1>2. /\ \A i, j \in DOMAIN ops' : ops'[i] = ops'[j] => i = j
        /\ \A i \in DOMAIN ops' : ops'[i] \in blocked' \ failed'
    <2>1. CASE UNCHANGED <<ops, blocked, failed>>
      BY <2>1 DEF ChainOK
    <2>2. CASE ops # <<>> /\ ops' = Tail(ops) /\ blocked' = blocked \ {Head(ops)} /\ UNCHANGED failed
      BY <2>2, FirstGone
    <2>3. CASE ops # <<>> /\ ops' = Tail(ops) /\ failed' = failed \union {Head(ops)} /\ UNCHANGED blocked
      BY <2>3, FirstGone
    <2>4. CASE Joins
      BY <2>4, OneMore DEF Joins
    <2> QED
      BY <2>1, <2>2, <2>3, <2>4 DEF ChainGoesOn, Begins, Disposes, Done, ResetDone, Fails, ChainOK
  <1>3. ASSUME reset'.phase # "idle" PROVE ops # <<>> /\ ops' # <<>> /\ Head(ops') = Head(ops)
    <2>1. CASE UNCHANGED <<ops, reset, blocked, failed>> \/ Begins \/ Disposes
      BY <1>3, <2>1 DEF Begins, Disposes, ChainOK
    <2>2. CASE Joins
      BY <1>3, <2>2, OneMore DEF Joins, ChainOK
    <2>3. Done \/ Fails => reset' = Idle
      BY DEF Done, ResetDone, Fails
    <2> QED
      BY <1>3, <2>1, <2>2, <2>3 DEF ChainGoesOn, Idle
  <1>4. ASSUME reset'.phase # "idle"
        PROVE  ActiveNext(Head(ops)) \subseteq ActiveOf(Head(ops)) /\ ActiveOf(Head(ops)) \subseteq reset'.waits
    <2>1. Head(ops) \in blocked
      BY <1>3, <1>4, FirstGone
    <2>2. ActiveNext(Head(ops)) \subseteq ActiveOf(Head(ops))
      BY <2>1, BlockedOnlyEnds
    <2>3. PICK s : s = Head(ops)
      OBVIOUS
    <2>4. ActiveOf(s) \subseteq reset'.waits
      <3>1. CASE UNCHANGED reset
        BY <1>4, <2>3, <3>1 DEF ChainOK
      <3>2. CASE Begins
        BY <2>3, <3>2 DEF Begins
      <3>3. CASE Disposes
        <4>1. reset'.waits = reset.waits /\ reset.phase # "idle"
          BY <3>3 DEF Disposes, Types, Resets
        <4> QED
          BY <2>3, <4>1 DEF ChainOK
      <3>4. Done \/ Fails => reset' = Idle
        BY DEF Done, ResetDone, Fails
      <3> QED
        BY <1>4, <3>1, <3>2, <3>3, <3>4 DEF ChainGoesOn, Idle, Joins
    <2> QED
      BY <2>2, <2>3, <2>4
  <1>5. ASSUME reset'.phase = "disposing"
        PROVE  /\ ActiveOf(Head(ops)) = {}
               /\ \A j \in DOMAIN sessions' : sessions'[j].s = Head(ops) => sessions'[j].context \in disposed'
    <2>1. CASE Disposes
      <3>1. ActiveOf(Head(ops)) = {}
        BY <2>1 DEF Disposes, ChainOK, ActiveOf
      <3>2. \A i \in DOMAIN sessions : sessions[i].s = Head(ops) => sessions[i].context = Entry(Head(ops))
        BY <2>1, PlaceOfEntry DEF Disposes, Types, Entry
      <3> QED
        BY <2>1, <3>1, <3>2 DEF Disposes
    <2>2. CASE UNCHANGED reset
      <3>1. /\ ActiveOf(Head(ops)) = {}
            /\ \A i \in DOMAIN sessions : sessions[i].s = Head(ops) => sessions[i].context \in disposed
        BY <1>5, <2>2 DEF ChainOK
      <3>2. ASSUME NEW r \in Requests, Adds(r) PROVE NewEntry(r).s # Head(ops)
        BY <3>1, <3>2 DEF Adds, NewEntry, ActiveOf, Active
      <3> QED
        BY <3>1, <3>2 DEF MapGoesOn
    <2>3. Done \/ Fails => reset' = Idle
      BY DEF Done, ResetDone, Fails
    <2>4. Begins => reset'.phase = "waiting"
      BY DEF Begins
    <2> QED
      BY <1>5, <2>1, <2>2, <2>3, <2>4 DEF ChainGoesOn, Idle, Joins
  <1>6. (ActiveOf(Head(ops)))' = ActiveNext(Head(ops'))
    BY DEF ActiveOf, ActiveNext
  <1>7. reset'.phase # "idle" => ops' # <<>> /\ (ActiveOf(Head(ops)))' \subseteq reset'.waits
    BY <1>3, <1>4, <1>6
  <1>8. ASSUME reset'.phase = "disposing"
        PROVE  /\ (ActiveOf(Head(ops)))' = {}
               /\ \A j \in DOMAIN sessions' : sessions'[j].s = Head(ops') => sessions'[j].context \in disposed'
    BY <1>3, <1>4, <1>5, <1>6, <1>8
  <1> QED
    BY <1>2, <1>7, <1>8 DEF ChainOK

\* The invariant is inductive.
LEMMA InvariantKept ==
  ASSUME SessionsInv, [Next]_vars
  PROVE  SessionsInv' /\ AllGetOn /\ MapGoesOn /\ ChainGoesOn
  <1>1. AllGetOn /\ MapGoesOn /\ ChainGoesOn
    BY PromptsGetOn, MapSteps, ChainSteps DEF SessionsInv
  <1>2. Types' /\ InOrder'
    BY <1>1, TypesKept, OrderKept DEF SessionsInv
  <1>3. PromptsOK' /\ MapOK'
    BY <1>1, PromptsKept, MapKept DEF SessionsInv
  <1>4. ChainOK' /\ CreatesWhatIsMissing'
    BY <1>1, ChainKept, MissingKept DEF SessionsInv
  <1> QED
    BY <1>1, <1>2, <1>3, <1>4 DEF SessionsInv

--------------------------------------------------------------------------------
(* While there is room.                                                     *)

\* The Map has an entry less than there are sessions, if one has none.
LEMMA RoomForOne ==
  ASSUME Types, NEW s \in Sessions \ Cached
  PROVE  Len(sessions) < Cardinality(Sessions) /\ Cardinality(Sessions) \in Nat /\ Len(sessions) \in Nat
  <1> DEFINE f == [i \in 1..Len(sessions) |-> sessions[i].s]
  <1>1. /\ Len(sessions) \in Nat /\ DOMAIN sessions = 1..Len(sessions)
        /\ \A i \in 1..Len(sessions) : sessions[i] \in Entries
    BY LenProperties DEF Types
  <1>2. IsFiniteSet(Sessions \ {s}) /\ Cardinality(Sessions \ {s}) = Cardinality(Sessions) - 1
    BY FS_RemoveElement, WorkerSessionsAssumption
  <1>3. IsFiniteSet(1..Len(sessions)) /\ Cardinality(1..Len(sessions)) = Len(sessions)
    <2>1. Cardinality(1..Len(sessions)) = IF 1 > Len(sessions) THEN 0 ELSE Len(sessions) - 1 + 1
      BY <1>1, FS_Interval
    <2> QED
      BY <1>1, <2>1, FS_Interval
  <1>4. f \in Injection(1..Len(sessions), Sessions \ {s})
    <2>1. \A i \in 1..Len(sessions) : f[i] \in Sessions \ {s}
      BY <1>1 DEF Entries, Cached
    <2>2. \A i, j \in 1..Len(sessions) : f[i] = f[j] => i = j
      BY <1>1 DEF Types, Distinct
    <2>3. f \in [1..Len(sessions) -> Sessions \ {s}]
      BY <2>1
    <2> HIDE DEF f
    <2> QED
      BY <2>2, <2>3 DEF Injection, IsInjective
  <1>5. Cardinality(1..Len(sessions)) <= Cardinality(Sessions \ {s})
    BY <1>2, <1>4, FS_Injection
  <1>6. Cardinality(Sessions) \in Nat
    BY FS_CardinalityType, WorkerSessionsAssumption
  <1> QED
    BY <1>1, <1>2, <1>3, <1>5, <1>6

\* With room for every session getSession() never has to evict.
LEMMA NothingIsEvicted ==
  ASSUME Types, Roomy, NEW s \in Sessions \ Cached
  PROVE  ~(Len(sessions) >= maxCount)
  BY RoomForOne DEF Types, Roomy

\* No entry is lost but that of a session whose reset is done.
LEMMA EntriesKept ==
  ASSUME SessionsInv, RoomyInv, Roomy, [Next]_vars, NEW i \in DOMAIN sessions,
         sessions[i].context \notin disposed'
  PROVE  \E j \in DOMAIN sessions' : sessions'[j] = sessions[i]
  <1>1. ASSUME UNCHANGED sessions PROVE \E j \in DOMAIN sessions' : sessions'[j] = sessions[i]
    BY <1>1
  <1>2. ASSUME NEW r \in Requests, NEW v \in Sessions, Evicts(r, v) PROVE FALSE
    BY <1>2, NothingIsEvicted DEF Evicts, Wanted, HasTurn, SessionsInv, PromptsOK, PromptOK
  <1>3. ASSUME NEW r \in Requests, Evicted(r) PROVE FALSE
    BY <1>3 DEF Evicted, RoomyInv
  <1>4. ASSUME NEW r \in Requests, ContextCreated(r) PROVE \E j \in DOMAIN sessions' : sessions'[j] = sessions[i]
    <2>1. CASE UNCHANGED sessions
      BY <2>1
    <2>2. CASE sessions' = Append(Without(prompt[r].s), [s |-> prompt[r].s, context |-> r])
      <3>1. prompt[r].phase = "creating" /\ prompt[r].s \notin Cached /\ prompt[r].s \in Sessions
        BY <1>4 DEF ContextCreated, SessionsInv, CreatesWhatIsMissing, PromptsOK, PromptOK
      <3>2. Without(prompt[r].s) = sessions
        BY <3>1 DEF Without
      <3>3. sessions \in Seq(Entries) /\ NewEntry(r) \in Entries
        BY <3>1 DEF SessionsInv, Types, Entries, NewEntry
      <3>4. Len(sessions) \in Nat /\ DOMAIN sessions = 1..Len(sessions)
        BY <3>3, LenProperties
      <3>5. sessions' = Append(sessions, NewEntry(r))
        BY <2>2, <3>2 DEF NewEntry
      <3>6. /\ sessions' \in Seq(Entries) /\ Len(sessions') = Len(sessions) + 1
            /\ \A j \in 1..Len(sessions) : sessions'[j] = sessions[j]
        BY <3>3, <3>5, AppendProperties
      <3>7. i \in DOMAIN sessions' /\ sessions'[i] = sessions[i]
        <4>1. DOMAIN sessions' = 1..(Len(sessions) + 1)
          BY <3>6, LenProperties
        <4> QED
          BY <3>4, <3>6, <4>1
      <3> QED
        BY <3>7
    <2> QED
      BY <1>4, <2>1, <2>2 DEF ContextCreated
  <1>5. ASSUME Done PROVE \E j \in DOMAIN sessions' : sessions'[j] = sessions[i]
    <2>1. sessions' = Without(Head(ops)) /\ disposed' = disposed
      BY <1>5 DEF Done, ResetDone
    <2>2. sessions[i].s # Head(ops)
      <3>1. CASE reset.phase = "disposing"
        BY <2>1, <3>1 DEF SessionsInv, ChainOK
      <3>2. CASE Head(ops) \in Cached => Entry(Head(ops)) \in disposed
        BY <2>1, <3>2, PlaceOfEntry DEF SessionsInv, Types, Cached, Entry
      <3> QED
        BY <1>5, <3>1, <3>2 DEF Done
    <2> QED
      BY <2>1, <2>2, WithoutEntries DEF SessionsInv, Types
  <1>6. ASSUME NEW r \in Requests,
               \/ \E s \in Sessions : PromptArrives(r, s)
               \/ CancelArrives(r) \/ TurnAborted(r) \/ Reuses(r) \/ Creates(r) \/ Refused(r)
               \/ ContextFails(r) \/ Generated(r) \/ EvictionFails(r)
        PROVE  UNCHANGED sessions
    BY <1>6 DEF cacheVars, PromptArrives, CancelArrives, TurnAborted, Reuses, Creates, Refused,
                ContextFails, Generated, EvictionFails
  <1>7. ASSUME \/ \E s \in Sessions : ResetArrives(s)
               \/ ResetBegins \/ ResetFails \/ UNCHANGED vars
        PROVE  UNCHANGED sessions
    BY <1>7 DEF cacheVars, vars, ResetArrives, ResetBegins, ResetFails
  <1>8. ASSUME ResetDisposes \/ ResetEnds PROVE Done \/ UNCHANGED sessions
    BY <1>8 DEF ResetDisposes, ResetEnds, Done
  <1> QED
    BY <1>1, <1>2, <1>3, <1>4, <1>5, <1>6, <1>7, <1>8 DEF Next, PromptStep, TakesTurn, ResetStep

\* So is what holds while there is room.
LEMMA RoomKept ==
  ASSUME SessionsInv, RoomyInv, Roomy, [Next]_vars
  PROVE  RoomyInv'
  <1>1. SessionsInv' /\ AllGetOn /\ MapGoesOn /\ ChainGoesOn
    BY InvariantKept
  <1>2. ASSUME NEW r \in Requests PROVE prompt'[r].phase # "evicting"
    BY <1>1, NothingIsEvicted DEF AllGetOn, GetsOn, RoomyInv, SessionsInv
  \* What is disposed of in this step is the context of the session being reset.
  <1>3. ASSUME NEW c \in disposed' \ disposed, NEW s, OwnedBy(c, s)
        PROVE  s \in blocked /\ ActiveOf(s) = {}
    <2>1. CASE Disposes
      <3>1. c = Entry(Head(ops)) /\ OwnedBy(c, Head(ops))
        <4>1. Place(Head(ops)) \in DOMAIN sessions /\ sessions[Place(Head(ops))].s = Head(ops)
          BY <2>1, PlaceOfEntry DEF Disposes, SessionsInv, Types
        <4>2. c = Entry(Head(ops))
          BY <2>1 DEF Disposes
        <4> QED
          BY <4>1, <4>2 DEF SessionsInv, MapOK, Entry
      <3>2. s = Head(ops)
        BY <1>3, <3>1 DEF OwnedBy
      <3>3. ops # <<>> /\ ActiveOf(Head(ops)) = {}
        BY <2>1 DEF Disposes, SessionsInv, ChainOK, ActiveOf
      <3> QED
        BY <3>2, <3>3, FirstGone DEF SessionsInv
    <2>2. ASSUME NEW r \in Requests, ContextCreated(r) PROVE FALSE
      <3>1. c = r /\ prompt[r].phase = "creating"
        BY <2>2 DEF ContextCreated
      <3> QED
        BY <1>3, <3>1 DEF OwnedBy, SessionsInv, PromptsOK, PromptOK
    <2>3. ASSUME NEW r \in Requests, NEW v \in Sessions, Evicts(r, v) PROVE FALSE
      BY <2>3, NothingIsEvicted DEF Evicts, Wanted, HasTurn, SessionsInv, PromptsOK, PromptOK
    <2>4. ASSUME UNCHANGED disposed PROVE FALSE
      BY <1>3, <2>4
    <2>5. ASSUME NEW r \in Requests,
                 \/ \E t \in Sessions : PromptArrives(r, t)
                 \/ CancelArrives(r) \/ TurnAborted(r) \/ Reuses(r) \/ Creates(r) \/ Refused(r) \/ Evicted(r)
                 \/ ContextFails(r) \/ Generated(r) \/ EvictionFails(r)
          PROVE  UNCHANGED disposed
      BY <2>5 DEF cacheVars, PromptArrives, CancelArrives, TurnAborted, Reuses, Creates, Refused, Evicted,
                  ContextFails, Generated, EvictionFails
    <2>6. ASSUME \/ \E t \in Sessions : ResetArrives(t)
                 \/ ResetBegins \/ ResetEnds \/ ResetFails \/ UNCHANGED vars
          PROVE  UNCHANGED disposed
      BY <2>6 DEF cacheVars, vars, ResetArrives, ResetBegins, ResetEnds, ResetFails
    <2>7. ASSUME ResetDisposes PROVE Disposes \/ UNCHANGED disposed
      BY <2>7 DEF ResetDisposes, Disposes
    <2> QED
      BY <2>1, <2>2, <2>3, <2>4, <2>5, <2>6, <2>7 DEF Next, PromptStep, TakesTurn, ResetStep
  <1>4. ASSUME NEW i \in DOMAIN sessions, sessions[i].context \in disposed'
        PROVE  sessions[i].s \in blocked /\ ActiveOf(sessions[i].s) = {}
    <2>1. OwnedBy(sessions[i].context, sessions[i].s)
      BY DEF SessionsInv, MapOK
    <2> QED
      BY <1>3, <1>4, <2>1 DEF RoomyInv
  <1>5. ASSUME NEW j \in DOMAIN sessions', sessions'[j].context \in disposed'
        PROVE  sessions'[j].s \in blocked' /\ ActiveNext(sessions'[j].s) = {}
    <2>1. CASE \E i \in DOMAIN sessions : sessions[i] = sessions'[j]
      <3>1. sessions'[j].s \in blocked /\ ActiveOf(sessions'[j].s) = {}
        BY <1>4, <1>5, <2>1
      <3>2. ActiveNext(sessions'[j].s) = {}
        BY <1>1, <3>1, BlockedOnlyEnds
      <3>3. CASE Done
        <4>1. sessions' = Without(Head(ops)) /\ blocked' = blocked \ {Head(ops)}
          BY <3>3 DEF Done, ResetDone
        <4>2. sessions'[j].s # Head(ops)
          BY <4>1, WithoutEntries DEF SessionsInv, Types
        <4> QED
          BY <3>1, <3>2, <4>1, <4>2
      <3>4. ~Done => blocked \subseteq blocked'
        BY <1>1 DEF ChainGoesOn, Begins, Disposes, Fails, Joins
      <3> QED
        BY <3>1, <3>2, <3>3, <3>4
    <2>2. ASSUME NEW r \in Requests, Adds(r), sessions'[j] = NewEntry(r), disposed' = disposed PROVE FALSE
      <3>1. r \in made /\ prompt[r].phase = "creating"
        BY <1>5, <2>2 DEF NewEntry, Adds, SessionsInv, Types
      <3> QED
        BY <3>1 DEF SessionsInv, PromptsOK, PromptOK
    <2> QED
      BY <1>1, <2>1, <2>2 DEF MapGoesOn
  <1>6. ASSUME NEW r \in Requests, prompt'[r].phase = "generating" PROVE prompt'[r].context \notin disposed'
    <2>1. ASSUME NEW s, OwnedBy(prompt'[r].context, s), Active(r), prompt[r].s = s,
                 prompt'[r].context \notin disposed
          PROVE  prompt'[r].context \notin disposed'
      BY <1>3, <2>1 DEF ActiveOf
    <2>2. CASE prompt[r].phase = "generating" /\ prompt'[r].context = prompt[r].context
      BY <2>1, <2>2 DEF SessionsInv, PromptsOK, PromptOK, RoomyInv, Generating, Active
    <2>3. CASE HasTurn(r) /\ prompt[r].s \in Cached /\ prompt'[r].context = Entry(prompt[r].s)
      <3>1. Place(prompt[r].s) \in DOMAIN sessions /\ sessions[Place(prompt[r].s)].s = prompt[r].s
        BY <2>3, PlaceOfEntry DEF SessionsInv, Types
      <3>2. r \in ActiveOf(prompt[r].s)
        BY <2>3 DEF HasTurn, ActiveOf, Active
      <3> QED
        BY <1>4, <2>3, <3>1, <3>2 DEF Entry
    <2>4. CASE prompt[r].phase = "creating" /\ prompt'[r].context = r /\ r \in made'
      <3>1. r \notin made /\ r \notin disposed
        BY <2>4 DEF SessionsInv, PromptsOK, PromptOK, Types
      <3>2. ASSUME r \in disposed' PROVE FALSE
        <4>1. \/ r \in made
              \/ prompt'[r].phase = "ended"
          BY <3>1, <3>2, OnlyUnused DEF SessionsInv
        <4> QED
          BY <1>6, <3>1, <4>1
      <3> QED
        BY <2>4, <3>2
    <2> QED
      BY <1>1, <1>6, <2>2, <2>3, <2>4 DEF AllGetOn, GetsOn, ContextFrom
  <1>7. ASSUME NEW c \in made' \ disposed' PROVE \E j \in DOMAIN sessions' : sessions'[j].context = c
    <2>1. CASE c \in made
      <3>1. PICK i \in DOMAIN sessions : sessions[i].context = c
        BY <1>1, <1>7, <2>1 DEF RoomyInv, MapGoesOn
      <3>2. PICK j \in DOMAIN sessions' : sessions'[j] = sessions[i]
        BY <1>7, <3>1, EntriesKept
      <3> QED
        BY <3>1, <3>2
    <2>2. CASE c \notin made
      <3>1. ASSUME NEW r \in Requests, ContextCreated(r)
            PROVE  \E j \in DOMAIN sessions' : sessions'[j].context = c
        <4>1. c = r /\ r \notin disposed' /\ prompt[r].phase = "creating"
          BY <1>7, <2>2, <3>1 DEF ContextCreated
        <4>2. sessions' = Append(Without(prompt[r].s), NewEntry(r))
          BY <3>1, <4>1 DEF ContextCreated, NewEntry
        <4>3. PICK n \in Seq(Entries) : n = Without(prompt[r].s)
          BY WithoutEntries DEF SessionsInv, Types
        <4>4. NewEntry(r) \in Entries /\ NewEntry(r).context = r
          BY <4>1 DEF NewEntry, Entries, SessionsInv, PromptsOK, PromptOK
        <4>5. /\ sessions' \in Seq(Entries) /\ Len(sessions') = Len(n) + 1
              /\ sessions'[Len(n) + 1] = NewEntry(r)
          BY <4>2, <4>3, <4>4, AppendProperties
        <4>6. Len(n) \in Nat /\ Len(n) + 1 \in DOMAIN sessions'
          BY <4>3, <4>5, LenProperties
        <4> QED
          BY <4>1, <4>4, <4>5, <4>6
      <3>2. ASSUME ~\E r \in Requests : ContextCreated(r) PROVE made' = made
        BY <3>2 DEF Next, PromptArrives, Evicts, CancelArrives, TurnAborted, Reuses, Creates, Refused, Evicted,
                    ContextFails, Generated, EvictionFails, ResetArrives, ResetBegins, ResetDisposes,
                    ResetEnds, ResetFails, vars, PromptStep, TakesTurn, ResetStep, cacheVars
      <3> QED
        BY <1>7, <2>2, <3>1, <3>2
    <2> QED
      BY <2>1, <2>2
  <1>8. \A j \in DOMAIN sessions' :
          sessions'[j].context \in disposed' =>
            sessions'[j].s \in blocked' /\ {r \in Requests : Active(r)' /\ prompt'[r].s = sessions'[j].s} = {}
    BY <1>5 DEF ActiveNext
  <1> QED
    BY <1>2, <1>6, <1>7, <1>8 DEF RoomyInv, Generating, ActiveOf

\* Both hold in every state the worker reaches.
LEMMA SessionsInvariant == Spec => [](SessionsInv /\ RoomInv)
  <1>1. ASSUME SessionsInv /\ RoomInv, [Next]_vars PROVE (SessionsInv /\ RoomInv)'
    <2>1. SessionsInv'
      BY <1>1, InvariantKept
    <2>2. ASSUME Roomy' PROVE RoomyInv'
      <3>1. Roomy
        BY <1>1, <2>2, MaxCountKept DEF Roomy
      <3> QED
        BY <1>1, <3>1, RoomKept DEF RoomInv
    <2> QED
      BY <2>1, <2>2 DEF RoomInv
  <1> QED
    BY <1>1, Started, PTL DEF Spec

--------------------------------------------------------------------------------
(* The theorems.                                                            *)

\* Every entry of the Map has a context that was created, every prompt one that
\* was created or none, an attempt is left to whoever creates one, and a session
\* whose reset failed stays blocked.
THEOREM SessionsTypeCorrect == Spec => []SessionsTypeOK
  <1>1. ASSUME SessionsInv PROVE SessionsTypeOK
    <2>1. ASSUME NEW i \in DOMAIN sessions PROVE sessions[i] \in [s : Sessions, context : made]
      <3>1. sessions[i] \in Entries /\ sessions[i].context \in made
        BY <1>1 DEF SessionsInv, Types, MapOK, OwnedBy
      <3> QED
        BY <3>1 DEF Entries
    <2>2. prompt \in [Requests -> [s : Sessions \union {NoSession}, phase : Phases,
                                   left : 0..Profiles, victim : Sessions \union {NoSession},
                                   context : made \union {0}, aborting : BOOLEAN]]
      <3>1. ASSUME NEW r \in Requests
            PROVE  prompt[r] \in [s : Sessions \union {NoSession}, phase : Phases,
                                  left : 0..Profiles, victim : Sessions \union {NoSession},
                                  context : made \union {0}, aborting : BOOLEAN]
        <4>1. prompt[r] \in PromptRecords /\ prompt[r].context \in made \union {0}
          BY <1>1 DEF SessionsInv, Types, PromptsOK, PromptOK
        <4> QED
          BY <4>1 DEF PromptRecords
      <3> QED
        BY <1>1, <3>1 DEF SessionsInv, Types
    <2>3. \A r \in Requests : prompt[r].phase = "creating" => prompt[r].left > 0
      BY <1>1 DEF SessionsInv, PromptsOK, PromptOK
    <2>4. reset.phase \in {"idle", "waiting", "disposing"} /\ reset.waits \subseteq Requests
      BY <1>1 DEF SessionsInv, Types, Resets
    <2> QED
      BY <1>1, <2>1, <2>2, <2>3, <2>4 DEF SessionsTypeOK, SessionsInv, Types
  <1> QED
    BY <1>1, SessionsInvariant, PTL

\* disposeSessionById(), called by an eviction or by a reset, never takes the
\* context a prompt is generating with.
THEOREM DisposalSparesUsers == Spec => NoDisposalUnderUse
  <1>1. ASSUME SessionsInv, [Next]_vars
        PROVE  [\A r \in Requests :
                  Generating(r) /\ prompt[r].context \in disposed' => prompt[r].context \in disposed]_vars
    <2> SUFFICES ASSUME NEW r \in Requests, Generating(r), prompt[r].context \in disposed' \ disposed
                 PROVE  FALSE
      OBVIOUS
    <2>1. /\ OwnedBy(prompt[r].context, prompt[r].s) /\ r \in ActiveOf(prompt[r].s)
          /\ prompt[r].context \in made
      BY <1>1 DEF SessionsInv, PromptsOK, PromptOK, Generating, ActiveOf, Active, OwnedBy
    <2>2. ASSUME NEW s, OwnedBy(prompt[r].context, s) PROVE ActiveOf(s) # {}
      BY <2>1, <2>2 DEF OwnedBy
    <2>3. ~Adds(prompt[r].context)
      BY <1>1, <2>1 DEF Adds, SessionsInv, PromptsOK, PromptOK, Types
    <2> QED
      BY <1>1, <2>2, <2>3, OnlyUnused DEF SessionsInv
  <1> QED
    BY <1>1, SessionsInvariant, PTL DEF Spec, NoDisposalUnderUse

\* Every session in use having room, getSession() never serves a prompt from a
\* context that somebody is disposing of.
THEOREM RoomyPromptsAreServed == Spec => []RoomyContextsAreLive
  <1>1. RoomInv => RoomyContextsAreLive
    BY DEF RoomInv, RoomyInv, RoomyContextsAreLive
  <1> QED
    BY <1>1, SessionsInvariant, PTL

\* Every session in use having room, a context that nobody disposes of is in the
\* Map, where the next reset finds it.
THEOREM RoomyContextsAreFound == Spec => []RoomyContextsAreKept
  <1>1. RoomInv => RoomyContextsAreKept
    BY DEF RoomInv, RoomyInv, RoomyContextsAreKept
  <1> QED
    BY <1>1, SessionsInvariant, PTL

\* When resetSession() reports that it is done its session has no context and no
\* prompt, however prompts, cancellations and evictions come between.
THEOREM ResetsAreClean == Spec => ResetStartsAfresh
  <1>1. ASSUME SessionsInv, [Next]_vars
        PROVE  [\A s \in blocked \ blocked' :
                  s \notin Cached' /\ \A r \in Requests : prompt[r].s = s => ~Active(r)]_vars
    <2> SUFFICES ASSUME NEW s \in blocked \ blocked'
                 PROVE  s \notin Cached' /\ \A r \in Requests : prompt[r].s = s => ~Active(r)
      OBVIOUS
    <2>1. Done
      BY <1>1, ChainSteps DEF ChainGoesOn, Begins, Disposes, Fails, Joins
    <2>2. s = Head(ops) /\ sessions' = Without(s)
      BY <2>1 DEF Done, ResetDone
    <2>3. ActiveOf(s) = {}
      BY <1>1, <2>1, <2>2 DEF Done, SessionsInv, ChainOK, ActiveOf
    <2>4. s \notin Cached'
      BY <1>1, <2>2, WithoutEntries DEF Cached, SessionsInv, Types
    <2> QED
      BY <2>3, <2>4 DEF ActiveOf
  <1> QED
    BY <1>1, SessionsInvariant, PTL DEF Spec, ResetStartsAfresh
================================================================================
