------------------------------ MODULE WorkerSessions ------------------------------
(***************************************************************************)
(* Inside the worker thread: which native context each session has.        *)
(*                                                                         *)
(* getSession() serves a prompt from the Map `sessions`, or evicts another *)
(* session when the Map is full and creates a context; resetSession() ends *)
(* the prompts of a session and disposes of its context.  They interleave  *)
(* wherever one of them awaits: a prompt its predecessors, a disposal, the *)
(* creation of a context (tried with one profile after another), its text; *)
(* a reset the prompts it aborted, and a disposal.                         *)
(*                                                                         *)
(* The model is loaded throughout: the operations that unload it end every *)
(* prompt first, and the thread is terminated after them.  The parent      *)
(* thread is the scheduler's limit and the block of a session that is      *)
(* being reset.  A cancel message also stands for the note on the cancel   *)
(* port that precedes it.                                                  *)
(***************************************************************************)
EXTENDS Naturals, SequencesExt, FiniteSets

CONSTANTS
  MaxRequests,  \* bound: how many prompts arrive
  MaxInFlight,  \* config.runtime.maxInFlight
  Sessions,     \* the session names in use
  NoSession,    \* no session
  MaxCounts,    \* the values of config.sessions.maxCount
  Profiles,     \* how many profiles buildContextRetryProfiles() returns
  MaxResets,    \* bound: how many session resets arrive
  MaxFaults     \* bound: how many disposals throw

Requests == 1..MaxRequests

ASSUME WorkerSessionsAssumption ==
  /\ MaxRequests \in Nat /\ MaxInFlight \in Nat \ {0}
  /\ IsFiniteSet(Sessions) /\ NoSession \notin Sessions
  /\ MaxCounts \subseteq Nat \ {0} /\ MaxCounts # {}
  /\ Profiles \in Nat \ {0}
  /\ MaxResets \in Nat /\ MaxFaults \in Nat

VARIABLES
  maxCount,  \* state.activeConfig.sessions.maxCount
  sessions,  \* the Map, in the order of insertion: which context a session has
  made,      \* the contexts created; the request that created it names each
  disposed,  \* those whose disposal has begun
  prompt,    \* the active requests, and where runPromptTask() is
  ops,       \* workerOperationChain: the sessions to reset
  reset,     \* where the first of them is, and the requests it waits for
  blocked,   \* the parent: sessionsResetting
  failed,    \* sessions whose reset has failed (ghost)
  resets,    \* resets so far
  faults     \* disposals that threw so far

cacheVars == <<sessions, made, disposed>>
resetVars == <<ops, reset, blocked, failed, resets>>
vars == <<maxCount, cacheVars, prompt, resetVars, faults>>

\* A request that has not arrived
NoPrompt ==
  [s |-> NoSession, phase |-> "new", left |-> 0, victim |-> NoSession, context |-> 0,
   aborting |-> FALSE]

Phases == {"new", "waiting", "evicting", "creating", "generating", "ended"}

Idle == [phase |-> "idle", waits |-> {}]

Init ==
  /\ maxCount \in MaxCounts
  /\ sessions = <<>>
  /\ made = {}
  /\ disposed = {}
  /\ prompt = [r \in Requests |-> NoPrompt]
  /\ ops = <<>>
  /\ reset = Idle
  /\ blocked = {}
  /\ failed = {}
  /\ resets = 0
  /\ faults = 0

--------------------------------------------------------------------------------
(* The Map and the active requests                                         *)

Cached == {sessions[i].s : i \in DOMAIN sessions}

Place(s) == CHOOSE i \in DOMAIN sessions : sessions[i].s = s

Entry(s) == sessions[Place(s)].context

Without(s) == IF s \in Cached THEN RemoveAt(sessions, Place(s)) ELSE sessions

Active(r) == prompt[r].phase \notin {"new", "ended"}

\* getActiveRequestRecords() of a session
ActiveOf(s) == {r \in Requests : Active(r) /\ prompt[r].s = s}

\* Mutant: the session that was created first is evicted.
EvictableAny(s) == s \in Cached /\ s = sessions[1].s

\* findEvictableSessionId() returns s: the first one without an active request.
Evictable(s) ==
  \E i \in DOMAIN sessions :
    /\ s = sessions[i].s /\ ActiveOf(s) = {}
    /\ \A j \in 1..(i - 1) : ActiveOf(sessions[j].s) # {}

\* handlePromptMessage() posts what became of the prompt, which does not matter here,
\* and forgets the request.
Ends(r) == prompt' = [prompt EXCEPT ![r] = [NoPrompt EXCEPT !.s = prompt[r].s, !.phase = "ended"]]

--------------------------------------------------------------------------------
(* What the parent sends                                                   *)

\* "prompt": the scheduler has a slot, and the session is not being reset.
PromptArrives(r, s) ==
  /\ prompt[r].phase = "new"
  /\ \A q \in 1..(r - 1) : prompt[q].phase # "new"
  /\ Cardinality({q \in Requests : Active(q) /\ ~prompt[q].aborting}) < MaxInFlight
  /\ s \notin blocked
  /\ prompt' = [prompt EXCEPT ![r] = [NoPrompt EXCEPT !.s = s, !.phase = "waiting"]]
  /\ UNCHANGED <<maxCount, cacheVars, resetVars, faults>>

\* "cancel"
CancelArrives(r) ==
  /\ Active(r) /\ ~prompt[r].aborting
  /\ prompt' = [prompt EXCEPT ![r].aborting = TRUE]
  /\ UNCHANGED <<maxCount, cacheVars, resetVars, faults>>

Aborting(R) ==
  [r \in Requests |-> IF r \in R THEN [prompt[r] EXCEPT !.aborting = TRUE] ELSE prompt[r]]

\* "reset_session", after a "cancel" for each prompt of the session
ResetArrives(s) ==
  /\ s \notin blocked
  /\ resets < MaxResets
  /\ resets' = resets + 1
  /\ blocked' = blocked \union {s}
  /\ prompt' = Aborting(ActiveOf(s))
  /\ ops' = Append(ops, s)
  /\ UNCHANGED <<maxCount, cacheVars, reset, failed, faults>>

--------------------------------------------------------------------------------
(* A prompt: runPromptTask(), getSession(), createSessionContextWithRetry()*)

\* Mutant: a prompt waits for all the others of its session.
HasTurnLast(r) ==
  /\ prompt[r].phase = "waiting"
  /\ ActiveOf(prompt[r].s) = {r}

\* waitForPriorSessionRequestBoundaries()
HasTurn(r) ==
  /\ prompt[r].phase = "waiting"
  /\ \A q \in ActiveOf(prompt[r].s) : q >= r

\* The prompt was cancelled while it waited.
TurnAborted(r) ==
  /\ HasTurn(r) /\ prompt[r].aborting
  /\ Ends(r)
  /\ UNCHANGED <<maxCount, cacheVars, resetVars, faults>>

Wanted(r) == HasTurn(r) /\ ~prompt[r].aborting

\* The session has a context.
Reuses(r) ==
  /\ Wanted(r)
  /\ prompt[r].s \in Cached
  /\ prompt' = [prompt EXCEPT ![r] = [@ EXCEPT !.phase = "generating", !.context = Entry(prompt[r].s)]]
  /\ UNCHANGED <<maxCount, cacheVars, resetVars, faults>>

Creating(r) ==
  prompt' = [prompt EXCEPT ![r] = [@ EXCEPT !.phase = "creating", !.left = Profiles, !.victim = NoSession]]

\* It has none, and there is room for one.
Creates(r) ==
  /\ Wanted(r)
  /\ prompt[r].s \notin Cached /\ Len(sessions) < maxCount
  /\ Creating(r)
  /\ UNCHANGED <<maxCount, cacheVars, resetVars, faults>>

\* "Cannot create session: all sessions are active"
Refused(r) ==
  /\ Wanted(r)
  /\ prompt[r].s \notin Cached /\ Len(sessions) >= maxCount
  /\ ~\E v \in Sessions : Evictable(v)
  /\ Ends(r)
  /\ UNCHANGED <<maxCount, cacheVars, resetVars, faults>>

\* disposeSessionById() of another session.  If somebody is disposing of it already
\* there is nothing to await.
Evicts(r, v) ==
  /\ Wanted(r)
  /\ prompt[r].s \notin Cached /\ Len(sessions) >= maxCount
  /\ Evictable(v)
  /\ IF Entry(v) \in disposed
     THEN /\ sessions' = Without(v)
          /\ Creating(r)
          /\ UNCHANGED disposed
     ELSE /\ disposed' = disposed \union {Entry(v)}
          /\ prompt' = [prompt EXCEPT ![r] = [@ EXCEPT !.phase = "evicting", !.victim = v]]
          /\ UNCHANGED sessions
  /\ UNCHANGED <<maxCount, made, resetVars, faults>>

\* The disposal is over.
Evicted(r) ==
  /\ prompt[r].phase = "evicting"
  /\ sessions' = Without(prompt[r].victim)
  /\ IF prompt[r].aborting THEN Ends(r) ELSE Creating(r)
  /\ UNCHANGED <<maxCount, made, disposed, resetVars, faults>>

\* It throws: the Map keeps what is left of the session.
EvictionFails(r) ==
  /\ prompt[r].phase = "evicting"
  /\ faults < MaxFaults
  /\ faults' = faults + 1
  /\ Ends(r)
  /\ UNCHANGED <<maxCount, cacheVars, resetVars>>

\* The context is there; that of a cancelled prompt is disposed of at once.
ContextCreated(r) ==
  /\ prompt[r].phase = "creating"
  /\ made' = made \union {r}
  /\ IF prompt[r].aborting
     THEN /\ disposed' = disposed \union {r}
          /\ Ends(r)
          /\ UNCHANGED sessions
     ELSE /\ sessions' = Append(Without(prompt[r].s), [s |-> prompt[r].s, context |-> r])
          /\ prompt' = [prompt EXCEPT ![r] = [@ EXCEPT !.phase = "generating", !.context = r]]
          /\ UNCHANGED disposed
  /\ UNCHANGED <<maxCount, resetVars, faults>>

\* Mutant: one attempt more than there are profiles.
ContextFailsOffByOne(r) ==
  /\ prompt[r].phase = "creating"
  /\ IF prompt[r].aborting \/ prompt[r].left = 0
     THEN Ends(r)
     ELSE prompt' = [prompt EXCEPT ![r].left = @ - 1]
  /\ UNCHANGED <<maxCount, cacheVars, resetVars, faults>>

\* createContext() throws: the next profile's turn, if there is one.
ContextFails(r) ==
  /\ prompt[r].phase = "creating"
  /\ IF prompt[r].aborting \/ prompt[r].left = 1
     THEN Ends(r)
     ELSE prompt' = [prompt EXCEPT ![r].left = @ - 1]
  /\ UNCHANGED <<maxCount, cacheVars, resetVars, faults>>

\* session.prompt() is over, or throws.
Generated(r) ==
  /\ prompt[r].phase = "generating"
  /\ Ends(r)
  /\ UNCHANGED <<maxCount, cacheVars, resetVars, faults>>

--------------------------------------------------------------------------------
(* A reset: resetSession() in the chain of operations                      *)

\* Mutant: a reset does not wait for the prompts it aborts.
AffectedNone(s) == {}

\* The records it aborts and waits for
Affected(s) == ActiveOf(s)

ResetBegins ==
  /\ ops # <<>> /\ reset.phase = "idle"
  /\ prompt' = Aborting(ActiveOf(Head(ops)))
  /\ reset' = [phase |-> "waiting", waits |-> Affected(Head(ops))]
  /\ UNCHANGED <<maxCount, cacheVars, ops, blocked, failed, resets, faults>>

\* Mutant: the Map keeps the session.
ResetDoneKeeping(s) ==
  /\ UNCHANGED sessions
  /\ ops' = Tail(ops) /\ reset' = Idle
  /\ blocked' = blocked \ {s}
  /\ UNCHANGED failed

\* The session is deleted from the Map; "reset_done" ends its block.
ResetDone(s) ==
  /\ sessions' = Without(s)
  /\ ops' = Tail(ops) /\ reset' = Idle
  /\ blocked' = blocked \ {s}
  /\ UNCHANGED failed

\* Mutant: the entry is deleted and its context forgotten.
ResetDisposesNothing ==
  /\ reset.phase = "waiting"
  /\ ~\E r \in reset.waits : Active(r)
  /\ ResetDone(Head(ops))
  /\ UNCHANGED <<maxCount, made, disposed, prompt, resets, faults>>

\* The prompts have ended: disposeSessionById(), which has nothing to await when the
\* session has no context or somebody is disposing of it already.
ResetDisposes ==
  /\ reset.phase = "waiting"
  /\ ~\E r \in reset.waits : Active(r)
  /\ LET s == Head(ops) IN
     IF s \in Cached /\ Entry(s) \notin disposed
     THEN /\ disposed' = disposed \union {Entry(s)}
          /\ reset' = [reset EXCEPT !.phase = "disposing"]
          /\ UNCHANGED <<sessions, ops, blocked, failed>>
     ELSE ResetDone(s) /\ UNCHANGED disposed
  /\ UNCHANGED <<maxCount, made, prompt, resets, faults>>

\* The disposal is over.
ResetEnds ==
  /\ reset.phase = "disposing"
  /\ ResetDone(Head(ops))
  /\ UNCHANGED <<maxCount, made, disposed, prompt, resets, faults>>

\* Mutant: an operation that throws ends the chain.
ResetFailsForGood ==
  /\ reset.phase = "disposing"
  /\ faults < MaxFaults
  /\ faults' = faults + 1
  /\ failed' = failed \union {Head(ops)}
  /\ reset' = [reset EXCEPT !.phase = "dead"]
  /\ UNCHANGED <<maxCount, cacheVars, prompt, ops, blocked, resets>>

\* It throws: the chain goes on, and the session stays in the Map and blocked.
ResetFails ==
  /\ reset.phase = "disposing"
  /\ faults < MaxFaults
  /\ faults' = faults + 1
  /\ failed' = failed \union {Head(ops)}
  /\ ops' = Tail(ops) /\ reset' = Idle
  /\ UNCHANGED <<maxCount, cacheVars, prompt, blocked, resets>>

--------------------------------------------------------------------------------
TakesTurn(r) ==
  \/ TurnAborted(r) \/ Reuses(r) \/ Creates(r) \/ Refused(r)
  \/ \E v \in Sessions : Evicts(r, v)

PromptStep(r) ==
  TakesTurn(r) \/ Evicted(r) \/ ContextCreated(r) \/ ContextFails(r) \/ Generated(r)

ResetStep == ResetBegins \/ ResetDisposes \/ ResetEnds

Next ==
  \/ \E r \in Requests :
       \/ \E s \in Sessions : PromptArrives(r, s)
       \/ CancelArrives(r)
       \/ PromptStep(r)
       \/ EvictionFails(r)
  \/ \E s \in Sessions : ResetArrives(s)
  \/ ResetStep
  \/ ResetFails

Spec == Init /\ [][Next]_vars

\* Every promise the thread waits for settles: native calls return, and an operation
\* of the chain has its turn.
Fairness == (\A r \in Requests : WF_vars(PromptStep(r))) /\ WF_vars(ResetStep)

FairSpec == Spec /\ Fairness

--------------------------------------------------------------------------------
(* Safety                                                                  *)

SessionsTypeOK ==
  /\ \A i \in DOMAIN sessions : sessions[i] \in [s : Sessions, context : made]
  /\ made \subseteq Requests /\ disposed \subseteq made
  /\ prompt \in [Requests -> [s : Sessions \union {NoSession}, phase : Phases,
                              left : 0..Profiles, victim : Sessions \union {NoSession},
                              context : made \union {0}, aborting : BOOLEAN]]
  /\ \A r \in Requests : prompt[r].phase = "creating" => prompt[r].left > 0
  /\ blocked \subseteq Sessions /\ failed \subseteq blocked
  /\ reset.phase \in {"idle", "waiting", "disposing"} /\ reset.waits \subseteq Requests

Generating(r) == prompt[r].phase = "generating"

\* No context is disposed of under a prompt that generates with it, by an eviction or
\* by a reset, whoever else evicts, resets or is cancelled meanwhile.
NoDisposalUnderUse ==
  [][\A r \in Requests :
       Generating(r) /\ prompt[r].context \in disposed' => prompt[r].context \in disposed]_vars

\* Every session that is in use has room.
Roomy == maxCount >= Cardinality(Sessions)

\* As long as nothing is evicted, a prompt never gets a context that is being or has
\* been disposed of: resets, cancelled creations and failed disposals hand on none.
RoomyContextsAreLive == Roomy => \A r \in Requests : Generating(r) => prompt[r].context \notin disposed

\* As long as nothing is evicted, no context is lost: one that is not disposed of is
\* that of its session, so that a reset will find it.
RoomyContextsAreKept ==
  Roomy => \A c \in made \ disposed : \E i \in DOMAIN sessions : sessions[i].context = c

\* When a reset reports that it is done, no prompt of the session is active and the
\* session has no context: the next prompt starts afresh.
ResetStartsAfresh ==
  [][\A s \in blocked \ blocked' :
       s \notin Cached' /\ \A r \in Requests : prompt[r].s = s => ~Active(r)]_vars

\* "This prevents disposing session/context resources still used by a native prompt."
\* (docs/dev-notes.04:215, of the eviction)
EvictedContextsAreUnused ==
  \A r \in Requests : Generating(r) => prompt[r].context \notin disposed

\* "the oldest session/context should be disposed before deleting the map entry"
\* (docs/dev-notes.01:97, of the eviction)
DisposedBeforeDeleted ==
  \A c \in made \ disposed : \E i \in DOMAIN sessions : sessions[i].context = c

--------------------------------------------------------------------------------
(* Liveness                                                                *)

\* Every prompt ends, whatever it waits for: its predecessors, an eviction, a row of
\* contexts that cannot be created.
PromptsEnd == \A r \in Requests : Active(r) ~> ~Active(r)

\* Every reset is answered, also the ones behind a reset that fails.
ResetsAreAnswered == \A s \in Sessions : s \in blocked ~> s \notin blocked \/ s \in failed
================================================================================
