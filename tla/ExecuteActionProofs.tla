--------------------------- MODULE ExecuteActionProofs ---------------------------
(***************************************************************************)
(* What the registry of action ids guarantees for any number of runs, ids, *)
(* listeners and errors, and any registries, plans and descriptors that    *)
(* callers hand in: an id belongs to one run, from its reservation until   *)
(* the outcome of that run has been announced; and what is accepted of     *)
(* what callers hand in is coherent, is accepted again after the id has    *)
(* been reserved, and has valid outcomes.                                  *)
(***************************************************************************)
EXTENDS ExecuteAction, FiniteSetTheorems, SequenceTheorems, TLAPS

Waiting == {"reserved", "queued"}
Bound == {"running", "announced"}
Phases == Waiting \union Bound \union {"released", "refused"}

RunRecords ==
  [action: Actions, phase: Phases, end: Ends \union {NotQueued, Open}, runnable: BOOLEAN]

ActiveRecords == [state: {"none", "reserved", "bound"}, request: 0..MaxRuns]

RegistryTypes ==
  /\ runs \in Seq(RunRecords) /\ Len(runs) <= MaxRuns
  /\ active \in [Actions -> ActiveRecords]

\* A run that is under way holds its id: what the release, which asks nobody,
\* relies on.
RunsHoldTheirIds ==
  \A r \in Runs :
    /\ runs[r].phase \in Waiting => active[runs[r].action].state = "reserved"
    /\ runs[r].phase \in Bound =>
         active[runs[r].action].state = "bound" /\ active[runs[r].action].request = r

\* And an id that is taken is held by a run that is under way.
HeldAsRecorded(a) ==
  /\ active[a].state = "none" => active[a] = NoRecord
  /\ active[a].state = "reserved" => \E r \in Runs : runs[r].action = a /\ runs[r].phase \in Waiting
  /\ active[a].state = "bound" =>
       /\ active[a].request \in Runs
       /\ runs[active[a].request].action = a
       /\ runs[active[a].request].phase \in Bound

IdsAreHeld == \A a \in Actions : HeldAsRecorded(a)

\* A request tells the bound runs of an id apart; two waiting ones it would not.
OneWaits ==
  \A q, r \in Runs :
    runs[q].action = runs[r].action /\ runs[q].phase \in Waiting /\ runs[r].phase \in Waiting => q = r

\* The inductive invariant. That an id has one holder is not inductive alone:
\* a release frees it whoever holds it, and a reservation looks at the record
\* and not at the runs.
RegistryInv == RegistryTypes /\ RunsHoldTheirIds /\ IdsAreHeld /\ OneWaits

--------------------------------------------------------------------------------
(* How a run goes on.                                                       *)

LEMMA RunTypes ==
  ASSUME RegistryTypes
  PROVE  \A r \in Runs : runs[r] \in RunRecords /\ runs[r].action \in Actions
  <1>1. \A r \in Runs : runs[r] \in RunRecords
    BY DEF RegistryTypes, Runs
  <1> QED
    BY <1>1 DEF RunRecords

\* A step of one run leaves the others, and its own action, as they were.
LEMMA RunGoesOn ==
  ASSUME RegistryTypes, NEW r \in Runs, NEW p \in Phases, Goes(r, p)
  PROVE  /\ runs' \in Seq(RunRecords) /\ Len(runs') = Len(runs) /\ Runs' = Runs
         /\ \A q \in Runs : runs'[q].action = runs[q].action
         /\ \A q \in Runs : runs'[q].phase = IF q = r THEN p ELSE runs[q].phase
  <1>1. runs[r] \in RunRecords
    BY DEF RegistryTypes, Runs
  <1>2. [runs[r] EXCEPT !.phase = p] \in RunRecords
    BY <1>1 DEF RunRecords
  <1>3. runs' = [runs EXCEPT ![r] = [runs[r] EXCEPT !.phase = p]]
    BY DEF Goes
  <1>4. runs' \in Seq(RunRecords) /\ Len(runs') = Len(runs) /\ Runs' = Runs
    BY <1>2, <1>3, ExceptSeq DEF RegistryTypes, Runs
  <1>5. \A q \in Runs : runs'[q] = IF q = r THEN [runs[r] EXCEPT !.phase = p] ELSE runs[q]
    BY <1>3 DEF RegistryTypes, Runs
  <1> QED
    BY <1>1, <1>4, <1>5 DEF RunRecords

\* When its request ends nothing of the registry's concern changes.
LEMMA EndIsNoConcern ==
  ASSUME RegistryInv, NEW r \in Runs, NEW end \in Ends,
         runs' = [runs EXCEPT ![r].end = end], UNCHANGED active
  PROVE  RegistryInv'
  <1> DEFINE run == [runs[r] EXCEPT !.end = end]
  <1>1. runs[r] \in RunRecords
    BY DEF RegistryInv, RegistryTypes, Runs
  <1>2. run \in RunRecords /\ run.action = runs[r].action /\ run.phase = runs[r].phase
    BY <1>1 DEF RunRecords
  <1>3. runs' = [runs EXCEPT ![r] = run]
    OBVIOUS
  <1> HIDE DEF run
  <1>4. runs' \in Seq(RunRecords) /\ Len(runs') = Len(runs) /\ Runs' = Runs
    BY <1>2, <1>3, ExceptSeq DEF RegistryInv, RegistryTypes, Runs
  <1>5. \A q \in Runs : runs'[q] = IF q = r THEN run ELSE runs[q]
    BY <1>3 DEF RegistryInv, RegistryTypes, Runs
  <1>6. \A q \in Runs : runs'[q].action = runs[q].action /\ runs'[q].phase = runs[q].phase
    BY <1>2, <1>5
  <1>7. RegistryTypes'
    BY <1>4 DEF RegistryInv, RegistryTypes
  <1>8. RunsHoldTheirIds' /\ IdsAreHeld' /\ OneWaits'
    BY <1>4, <1>6 DEF RegistryInv, RunsHoldTheirIds, IdsAreHeld, HeldAsRecorded, OneWaits
  <1> QED
    BY <1>7, <1>8 DEF RegistryInv

\* Nor when a run moves on without the registry.
LEMMA PhaseIsNoConcern ==
  ASSUME RegistryInv, NEW r \in Runs, NEW p \in Phases, Goes(r, p), UNCHANGED active,
         \/ runs[r].phase \in Waiting /\ p \in Waiting
         \/ runs[r].phase \in Bound /\ p \in Bound
  PROVE  RegistryInv'
  <1>1. /\ runs' \in Seq(RunRecords) /\ Len(runs') = Len(runs) /\ Runs' = Runs
        /\ \A q \in Runs : runs'[q].action = runs[q].action
        /\ \A q \in Runs : runs'[q].phase = IF q = r THEN p ELSE runs[q].phase
    BY RunGoesOn DEF RegistryInv
  <1>2. Waiting \cap Bound = {}
    BY DEF Waiting, Bound
  <1>3. \A q \in Runs : /\ runs'[q].phase \in Waiting <=> runs[q].phase \in Waiting
                        /\ runs'[q].phase \in Bound <=> runs[q].phase \in Bound
    BY <1>1, <1>2
  <1>4. RegistryTypes'
    BY <1>1 DEF RegistryInv, RegistryTypes
  <1>5. RunsHoldTheirIds' /\ IdsAreHeld' /\ OneWaits'
    BY <1>1, <1>3 DEF RegistryInv, RunsHoldTheirIds, IdsAreHeld, HeldAsRecorded, OneWaits
  <1> QED
    BY <1>4, <1>5 DEF RegistryInv

\* A new run takes an id that nobody holds.
LEMMA ReserveKeeps ==
  ASSUME RegistryInv, NEW o, ReserveAndRun(o)
  PROVE  RegistryInv'
  <1>1. PICK a \in Actions :
          /\ Len(runs) < MaxRuns
          /\ active[a] = NoRecord
          /\ active' = [active EXCEPT ![a] = [state |-> "reserved", request |-> 0]]
          /\ runs' = Append(runs, [action |-> a, phase |-> "reserved", end |-> NotQueued, runnable |-> Runnable(o)])
    BY DEF ReserveAndRun, ReserveActionRequest
  <1> DEFINE run == [action |-> a, phase |-> "reserved", end |-> NotQueued, runnable |-> Runnable(o)]
             n == Len(runs) + 1
  <1>2. Runnable(o) \in BOOLEAN
    BY DEF Runnable
  <1>3. run \in RunRecords
    BY <1>2 DEF RunRecords, Phases, Waiting
  <1>4. run.action = a /\ run.phase = "reserved"
    OBVIOUS
  <1>5. runs' = Append(runs, run)
    BY <1>1
  <1> HIDE DEF run
  <1>6. /\ runs' \in Seq(RunRecords) /\ Len(runs') = n /\ Runs' = Runs \union {n} /\ n \notin Runs
        /\ \A q \in Runs : runs'[q] = runs[q]
        /\ runs'[n] = run
    BY <1>3, <1>5, AppendProperties DEF RegistryInv, RegistryTypes, Runs
  <1>7. active' \in [Actions -> ActiveRecords]
    BY <1>1, BusAssumption DEF RegistryInv, RegistryTypes, ActiveRecords
  <1>8. /\ active'[a].state = "reserved"
        /\ \A b \in Actions \ {a} : active'[b] = active[b]
    BY <1>1 DEF RegistryInv, RegistryTypes
  <1>9. \A q \in Runs : runs[q] \in RunRecords
    BY DEF RegistryInv, RegistryTypes, Runs
  <1>10. \A q \in Runs : runs[q].action = a => runs[q].phase \notin Waiting \union Bound
    BY <1>1 DEF RegistryInv, RunsHoldTheirIds, NoRecord
  <1>11. \A q \in Runs' : runs'[q].action = a /\ runs'[q].phase \in Waiting \union Bound => q = n
    BY <1>6, <1>10
  <1>12. RegistryTypes'
    <2>1. Len(runs) \in Nat /\ MaxRuns \in Nat
      BY BusAssumption, LenProperties DEF RegistryInv, RegistryTypes
    <2> QED
      BY <1>1, <1>6, <1>7, <2>1 DEF RegistryTypes
  <1>13. RunsHoldTheirIds'
    <2>1. \A q \in Runs : (runs'[q].phase \in Waiting => active'[runs'[q].action].state = "reserved")
                          /\ (runs'[q].phase \in Bound => active'[runs'[q].action].state = "bound"
                                                          /\ active'[runs'[q].action].request = q)
      BY <1>6, <1>8, <1>9, <1>10 DEF RegistryInv, RunsHoldTheirIds, RunRecords
    <2>2. runs'[n].phase \notin Bound /\ active'[runs'[n].action].state = "reserved"
      BY <1>4, <1>6, <1>8 DEF Bound
    <2> QED
      BY <1>6, <2>1, <2>2 DEF RunsHoldTheirIds
  <1>14. IdsAreHeld'
    <2>1. \A b \in Actions \ {a} : active'[b] = active[b]
      BY <1>8
    <2>2. n \in Runs' /\ runs'[n].action = a /\ runs'[n].phase \in Waiting
      BY <1>4, <1>6 DEF Waiting
    <2>3. Runs \subseteq Runs' /\ \A q \in Runs : runs'[q] = runs[q]
      BY <1>6
    <2>4. ASSUME NEW b \in Actions \ {a} PROVE HeldAsRecorded(b)'
      <3>1. HeldAsRecorded(b)
        BY DEF RegistryInv, IdsAreHeld
      <3> QED
        BY <2>1, <2>3, <3>1 DEF HeldAsRecorded, NoRecord
    <2>5. HeldAsRecorded(a)'
      BY <1>8, <2>2 DEF HeldAsRecorded
    <2> QED
      BY <2>4, <2>5 DEF IdsAreHeld, HeldAsRecorded
  <1>15. OneWaits'
    BY <1>4, <1>6, <1>11 DEF RegistryInv, OneWaits
  <1> QED
    BY <1>12, <1>13, <1>14, <1>15 DEF RegistryInv

\* A release frees the id of the run that holds it: it is its only holder.
LEMMA ReleaseKeeps ==
  ASSUME RegistryInv, NEW r \in Runs, runs[r].phase \in Waiting \union Bound,
         NEW p \in {"released", "refused"}, Goes(r, p), ReleaseActionRequest(runs[r].action)
  PROVE  RegistryInv'
  <1>0. PICK a \in Actions : a = runs[r].action
    BY RunTypes DEF RegistryInv
  <1>1. /\ runs' \in Seq(RunRecords) /\ Len(runs') = Len(runs) /\ Runs' = Runs
        /\ \A q \in Runs : runs'[q].action = runs[q].action
        /\ \A q \in Runs : runs'[q].phase = IF q = r THEN p ELSE runs[q].phase
    BY RunGoesOn DEF RegistryInv, Phases
  <1>2. p \notin Waiting \union Bound
    BY DEF Waiting, Bound
  <1>3. \A q \in Runs : runs[q].action \in Actions
    BY RunTypes DEF RegistryInv
  <1>4. NoRecord \in ActiveRecords
    BY BusAssumption DEF NoRecord, ActiveRecords
  <1>5. /\ active' \in [Actions -> ActiveRecords]
        /\ active'[a] = NoRecord
        /\ \A b \in Actions \ {a} : active'[b] = active[b]
    BY <1>0, <1>4 DEF RegistryInv, RegistryTypes, ReleaseActionRequest
  <1>6. \A q \in Runs : runs[q].action = a /\ runs[q].phase \in Waiting \union Bound => q = r
    <2>1. \A q \in Runs : runs[q].action = a /\ runs[q].phase \in Waiting =>
            active[a].state = "reserved"
      BY DEF RegistryInv, RunsHoldTheirIds
    <2>2. \A q \in Runs : runs[q].action = a /\ runs[q].phase \in Bound =>
            active[a].state = "bound" /\ active[a].request = q
      BY DEF RegistryInv, RunsHoldTheirIds
    <2> QED
      BY <1>0, <2>1, <2>2 DEF RegistryInv, OneWaits
  <1>7. \A q \in Runs : runs'[q].phase \in Waiting \union Bound => q # r /\ runs'[q].action # a
    BY <1>0, <1>1, <1>2, <1>6
  <1>8. RegistryTypes'
    BY <1>1, <1>5 DEF RegistryInv, RegistryTypes
  <1>9. RunsHoldTheirIds'
    BY <1>1, <1>3, <1>5, <1>7 DEF RegistryInv, RunsHoldTheirIds
  <1>10. IdsAreHeld'
    <2>1. ASSUME NEW b \in Actions \ {a} PROVE HeldAsRecorded(b)'
      <3>1. HeldAsRecorded(b)
        BY DEF RegistryInv, IdsAreHeld
      <3>2. \A q \in Runs : runs[q].action = b => runs'[q].phase = runs[q].phase
        BY <1>0, <1>1
      <3> QED
        BY <1>1, <1>5, <3>1, <3>2 DEF HeldAsRecorded, NoRecord
    <2>2. HeldAsRecorded(a)'
      BY <1>5 DEF HeldAsRecorded, NoRecord
    <2> QED
      BY <2>1, <2>2 DEF IdsAreHeld, HeldAsRecorded
  <1>11. OneWaits'
    BY <1>1, <1>7 DEF RegistryInv, OneWaits
  <1> QED
    BY <1>8, <1>9, <1>10, <1>11 DEF RegistryInv

\* A binding turns the only waiting run of an id into its bound one.
LEMMA BindKeeps ==
  ASSUME RegistryInv, NEW r \in Runs, runs[r].phase = "queued",
         BindActionRequest(runs[r].action, r), Goes(r, "running")
  PROVE  RegistryInv'
  <1>0. PICK a \in Actions : a = runs[r].action
    BY RunTypes DEF RegistryInv
  <1>1. /\ runs' \in Seq(RunRecords) /\ Len(runs') = Len(runs) /\ Runs' = Runs
        /\ \A q \in Runs : runs'[q].action = runs[q].action
        /\ \A q \in Runs : runs'[q].phase = IF q = r THEN "running" ELSE runs[q].phase
    BY RunGoesOn DEF RegistryInv, Phases, Bound
  <1>2. "running" \in Bound /\ "queued" \in Waiting /\ "running" \notin Waiting
    BY DEF Waiting, Bound
  <1>3. \A q \in Runs : runs[q].action \in Actions
    BY RunTypes DEF RegistryInv
  <1>4. r \in 0..MaxRuns
    BY BusAssumption DEF RegistryInv, RegistryTypes, Runs
  <1>5. /\ active[a].state = "reserved"
        /\ active' \in [Actions -> ActiveRecords]
        /\ active'[a].state = "bound" /\ active'[a].request = r
        /\ \A b \in Actions \ {a} : active'[b] = active[b]
    BY <1>0, <1>4 DEF RegistryInv, RegistryTypes, BindActionRequest, ActiveRecords
  <1>6. \A q \in Runs : runs[q].action = a /\ runs[q].phase \in Waiting \union Bound => q = r
    BY <1>0, <1>2, <1>5 DEF RegistryInv, RunsHoldTheirIds, OneWaits
  <1>7. RegistryTypes'
    BY <1>1, <1>5 DEF RegistryInv, RegistryTypes
  <1>8. RunsHoldTheirIds'
    BY <1>0, <1>1, <1>2, <1>3, <1>5, <1>6 DEF RegistryInv, RunsHoldTheirIds
  <1>9. IdsAreHeld'
    <2>1. ASSUME NEW b \in Actions \ {a} PROVE HeldAsRecorded(b)'
      <3>1. HeldAsRecorded(b)
        BY DEF RegistryInv, IdsAreHeld
      <3>2. \A q \in Runs : runs[q].action = b => runs'[q].phase = runs[q].phase
        BY <1>0, <1>1
      <3> QED
        BY <1>1, <1>5, <3>1, <3>2 DEF HeldAsRecorded, NoRecord
    <2>2. HeldAsRecorded(a)'
      BY <1>0, <1>1, <1>2, <1>5 DEF HeldAsRecorded
    <2> QED
      BY <2>1, <2>2 DEF IdsAreHeld, HeldAsRecorded
  <1>10. OneWaits'
    BY <1>1, <1>2 DEF RegistryInv, OneWaits
  <1> QED
    BY <1>7, <1>8, <1>9, <1>10 DEF RegistryInv

--------------------------------------------------------------------------------
(* The invariant.                                                           *)

LEMMA RegistryHoldsInitially ==
  ASSUME BusInit PROVE RegistryInv
  <1>1. runs = <<>> /\ Runs = {} /\ Len(runs) = 0
    BY DEF BusInit, Runs
  <1>2. runs \in Seq(RunRecords)
    BY <1>1
  <1>3. NoRecord \in ActiveRecords /\ NoRecord.state = "none"
    BY BusAssumption DEF NoRecord, ActiveRecords
  <1>4. active = [a \in Actions |-> NoRecord]
    BY DEF BusInit
  <1>5. RegistryTypes
    BY <1>1, <1>2, <1>3, <1>4, BusAssumption DEF RegistryTypes
  <1>6. IdsAreHeld
    BY <1>3, <1>4 DEF IdsAreHeld, HeldAsRecorded
  <1> QED
    BY <1>1, <1>5, <1>6 DEF RegistryInv, RunsHoldTheirIds, OneWaits

\* Most of what happens does not touch the registry.
LEMMA OthersKeep ==
  ASSUME RegistryInv, UNCHANGED <<runs, active>>
  PROVE  RegistryInv'
  BY DEF RegistryInv, RegistryTypes, RunsHoldTheirIds, IdsAreHeld, HeldAsRecorded, OneWaits, Runs

LEMMA QueueKeeps ==
  ASSUME RegistryInv, NEW r \in Runs, RequestQueued(r)
  PROVE  RegistryInv'
  <1>0. runs[r] \in RunRecords
    BY RunTypes DEF RegistryInv
  <1> DEFINE run == [runs[r] EXCEPT !.phase = "queued", !.end = Open]
  <1>1. run \in RunRecords /\ run.action = runs[r].action /\ run.phase = "queued"
    BY <1>0 DEF RunRecords, Phases, Waiting
  <1>2. runs' = [runs EXCEPT ![r] = run] /\ UNCHANGED active /\ runs[r].phase = "reserved"
    BY DEF RequestQueued
  <1> HIDE DEF run
  <1>3. runs' \in Seq(RunRecords) /\ Len(runs') = Len(runs) /\ Runs' = Runs
    BY <1>1, <1>2, ExceptSeq DEF RegistryInv, RegistryTypes, Runs
  <1>4. \A q \in Runs : runs'[q] = IF q = r THEN run ELSE runs[q]
    BY <1>2 DEF RegistryInv, RegistryTypes, Runs
  <1>5. \A q \in Runs : runs'[q].action = runs[q].action
    BY <1>1, <1>4
  <1>6. \A q \in Runs : /\ runs'[q].phase \in Waiting <=> runs[q].phase \in Waiting
                        /\ runs'[q].phase \in Bound <=> runs[q].phase \in Bound
    BY <1>1, <1>2, <1>4 DEF Waiting, Bound
  <1>7. RegistryTypes'
    BY <1>2, <1>3 DEF RegistryInv, RegistryTypes
  <1>8. RunsHoldTheirIds' /\ IdsAreHeld' /\ OneWaits'
    BY <1>2, <1>3, <1>5, <1>6 DEF RegistryInv, RunsHoldTheirIds, IdsAreHeld, HeldAsRecorded, OneWaits
  <1> QED
    BY <1>7, <1>8 DEF RegistryInv

\* Each step a run takes by itself, one by one.
LEMMA ProgressKeeps ==
  ASSUME RegistryInv, NEW r \in Runs, Progress(r)
  PROVE  RegistryInv'
  <1>1. CASE RequestQueued(r)
    BY <1>1, QueueKeeps
  <1>2. CASE RequestRefused(r)
    <2>1. runs[r].phase \in Waiting \union Bound /\ Goes(r, "refused") /\ ReleaseActionRequest(runs[r].action)
      BY <1>2 DEF RequestRefused, Waiting
    <2> QED
      BY <2>1, ReleaseKeeps
  <1>3. CASE Bind(r)
    <2>1. runs[r].phase = "queued" /\ BindActionRequest(runs[r].action, r) /\ Goes(r, "running")
      BY <1>3 DEF Bind
    <2> QED
      BY <2>1, BindKeeps
  <1>4. CASE RequestEnds(r)
    <2>1. PICK end \in Ends : runs' = [runs EXCEPT ![r].end = end]
      BY <1>4 DEF RequestEnds
    <2>2. UNCHANGED active
      BY <1>4 DEF RequestEnds
    <2> QED
      BY <2>1, <2>2, EndIsNoConcern
  <1>5. CASE PublishOutcome(r)
    <2>1. /\ runs[r].phase \in Bound /\ "announced" \in Bound /\ "announced" \in Phases
          /\ Goes(r, "announced") /\ UNCHANGED active
      BY <1>5 DEF PublishOutcome, Bound, Phases
    <2> QED
      BY <2>1, PhaseIsNoConcern
  <1>6. CASE Release(r)
    <2>1. runs[r].phase \in Waiting \union Bound /\ Goes(r, "released") /\ ReleaseActionRequest(runs[r].action)
      BY <1>6 DEF Release, Bound
    <2> QED
      BY <2>1, ReleaseKeeps
  <1> QED
    BY <1>1, <1>2, <1>3, <1>4, <1>5, <1>6 DEF Progress

\* A cancellation ends the request, not the run.
LEMMA CancelKeeps ==
  ASSUME RegistryInv, NEW a \in Actions, CancelAction(a)
  PROVE  RegistryInv'
  <1>1. active[a].state = "bound" /\ active[a].request \in Runs
    BY DEF CancelAction, RegistryInv, IdsAreHeld, HeldAsRecorded
  <1>2. PromptCanceled \in Ends
    BY DEF Ends
  <1>3. runs' = [runs EXCEPT ![active[a].request].end = PromptCanceled] /\ UNCHANGED active
    BY DEF CancelAction
  <1> QED
    BY <1>1, <1>2, <1>3, EndIsNoConcern

LEMMA RegistryStep ==
  ASSUME RegistryInv, [BusNext]_busVars
  PROVE  RegistryInv'
  <1>1. CASE UNCHANGED busVars
    BY <1>1, OthersKeep DEF busVars, runVars
  <1>2. CASE Prepare
    BY <1>2, OthersKeep DEF Prepare, runVars
  <1>3. CASE Calls
    <2>1. ASSUME NEW a \in Actions, Execute(a) PROVE RegistryInv'
      BY <2>1, ReserveKeeps DEF Execute
    <2>2. ASSUME NEW a \in Actions, CancelAction(a) PROVE RegistryInv'
      BY <2>2, CancelKeeps
    <2>3. CASE ExecuteDraft
      BY <2>3, ReserveKeeps DEF ExecuteDraft
    <2>4. CASE UNCHANGED <<logVars, draft, runVars>>
      BY <2>4, OthersKeep DEF runVars
    <2> QED
      BY <1>3, <2>1, <2>2, <2>3, <2>4 DEF Calls
  <1>4. CASE Delivery \/ LogSettles
    BY <1>4, OthersKeep DEF Delivery, LogSettles, runVars
  <1>5. ASSUME NEW r \in Runs, Progress(r) PROVE RegistryInv'
    BY <1>5, ProgressKeeps
  <1>6. ASSUME NEW r \in Runs, StreamDelta(r) PROVE RegistryInv'
    BY <1>6, OthersKeep DEF StreamDelta
  <1> QED
    BY <1>1, <1>2, <1>3, <1>4, <1>5, <1>6 DEF BusNext

--------------------------------------------------------------------------------
(* What follows from it.                                                    *)

LEMMA OneIsOne ==
  ASSUME NEW S, NEW r \in S, \A q \in S : q = r
  PROVE  Cardinality(S) = 1
  <1>1. S = {r}
    OBVIOUS
  <1> QED
    BY <1>1, FS_Singleton

LEMMA InvImpliesOneRun ==
  ASSUME RegistryInv PROVE ActiveIdsHaveOneRun
  <1> DEFINE holders(a, phases) == {r \in Runs : runs[r].action = a /\ runs[r].phase \in phases}
  <1>1. ASSUME NEW a \in Actions, active[a].state = "none"
        PROVE  holders(a, {"reserved", "queued", "running", "announced"}) = {}
    BY <1>1 DEF RegistryInv, RunsHoldTheirIds, Waiting, Bound
  <1>2. ASSUME NEW a \in Actions, active[a].state = "reserved"
        PROVE  /\ Cardinality(holders(a, {"reserved", "queued"})) = 1
               /\ holders(a, {"running", "announced"}) = {}
    <2>1. PICK r \in holders(a, {"reserved", "queued"}) : TRUE
      BY <1>2 DEF RegistryInv, IdsAreHeld, HeldAsRecorded, Waiting
    <2>2. \A q \in holders(a, {"reserved", "queued"}) : q = r
      BY <2>1 DEF RegistryInv, OneWaits, Waiting
    <2>3. holders(a, {"running", "announced"}) = {}
      BY <1>2 DEF RegistryInv, RunsHoldTheirIds, Bound
    <2> QED
      BY <2>1, <2>2, <2>3, OneIsOne
  <1>3. ASSUME NEW a \in Actions, active[a].state = "bound"
        PROVE  /\ holders(a, {"running", "announced"}) = {active[a].request}
               /\ holders(a, {"reserved", "queued"}) = {}
    <2>1. active[a].request \in holders(a, {"running", "announced"})
      BY <1>3 DEF RegistryInv, IdsAreHeld, HeldAsRecorded, Bound
    <2>2. \A q \in holders(a, {"running", "announced"}) : q = active[a].request
      BY DEF RegistryInv, RunsHoldTheirIds, Bound
    <2>3. holders(a, {"reserved", "queued"}) = {}
      BY <1>3 DEF RegistryInv, RunsHoldTheirIds, Waiting
    <2> QED
      BY <2>1, <2>2, <2>3
  <1>4. \A a \in Actions : active[a].state \in {"none", "reserved", "bound"}
    BY DEF RegistryInv, RegistryTypes, ActiveRecords
  <1> QED
    BY <1>1, <1>2, <1>3, <1>4 DEF ActiveIdsHaveOneRun

\* The registry knows exactly the runs that are under way (ActiveIdsHaveOneRun):
\* an id is reserved for one run that waits for its request, bound to the
\* request of one run that has been announced, or free, and whatever
\* cancelAction() and the release find under an id is the run they mean.
THEOREM IdsBelongToOneRun == BusSpec => []ActiveIdsHaveOneRun
  <1>1. BusInit => RegistryInv
    BY RegistryHoldsInitially
  <1>2. RegistryInv /\ [BusNext]_busVars => RegistryInv'
    BY RegistryStep
  <1>3. RegistryInv => ActiveIdsHaveOneRun
    BY InvImpliesOneRun
  <1> QED
    BY <1>1, <1>2, <1>3, PTL DEF BusSpec

--------------------------------------------------------------------------------
(* What callers have in their hands: plain objects, of which only the names *)
(* of the fields that normalization keeps are known, not what is in them.   *)

HasFields(x, fields) == DOMAIN x = fields /\ x = [f \in fields |-> x[f]]

ActionFields == {"actionId", "runId", "capability", "prompt", "stream", "timeoutMs", "contextRefs", "broken"}
OrchestrationFields == {"action", "plan", "skeleton", "descriptor", "boundary", "version"}

RoutePlanShape(p) ==
  /\ HasFields(p, {"busAction", "route", "version"})
  /\ HasFields(p.busAction, {"action", "definition", "version"})
  /\ HasFields(p.busAction.action, ActionFields)

BackendPlanShape(b) ==
  /\ HasFields(b, {"servicePlan", "adapter", "version"})
  /\ HasFields(b.servicePlan, {"routePlan", "service", "version"})
  /\ RoutePlanShape(b.servicePlan.routePlan)

\* An execution plan, or the backend plan it was made from.
ExecutionPlanShape(x) ==
  \/ HasFields(x, {"backendPlan", "invocation", "version"}) /\ BackendPlanShape(x.backendPlan)
  \/ BackendPlanShape(x)

PlanShape(p) ==
  /\ HasFields(p, DOMAIN p)
  /\ "executionPlan" \in DOMAIN p /\ "boundary" \notin DOMAIN p
  /\ ExecutionPlanShape(p.executionPlan)

OrchestrationShape(o) == HasFields(o, OrchestrationFields) /\ PlanShape(o.plan)

BackendOf(x) == IF IsExecutionPlan(x) THEN x.backendPlan ELSE x
RoutePlanIn(p) == BackendOf(p.executionPlan).servicePlan.routePlan

\* What `Planned` asks of a route plan.
Fits(r) ==
  LET d == r.busAction.definition
      action == r.busAction.action
  IN  /\ d.status # "deprecated" /\ SelectableRoute(r.route.status)
      /\ r.route.backendKind \in d.backendKinds
      /\ d.modelBundleRequired => r.route.modelBundleId # Absent
      /\ action.stream => r.route.streaming # "unsupported"
      /\ action.contextRefs => d.contextRefs

DraftFields == {"stage", "value", "registries", "changes", "touched"}

\* Changes keep the names of the fields, and as long as nothing was changed since it
\* was made, the plan fits.
DraftOk(d) ==
  /\ HasFields(d, DraftFields)
  /\ d.stage \in {"none", "action", "plan", "orchestration"}
  /\ d.stage = "action" => HasFields(d.value, ActionFields)
  /\ d.stage = "plan" => PlanShape(d.value) /\ (d.touched \/ Fits(RoutePlanIn(d.value)))
  /\ d.stage = "orchestration" =>
       OrchestrationShape(d.value) /\ (d.touched \/ Fits(RoutePlanIn(d.value.plan)))

\* The inductive invariant.
DraftInv == DraftOk(draft)

LEMMA FieldsStay ==
  ASSUME NEW x, NEW F, HasFields(x, F)
  PROVE  /\ DOMAIN x = F
         /\ \A c, v : /\ HasFields([x EXCEPT ![c] = v], F)
                      /\ DOMAIN [x EXCEPT ![c] = v] = F
                      /\ \A f \in F : [x EXCEPT ![c] = v][f] = IF f = c THEN v ELSE x[f]
  BY DEF HasFields

LEMMA SameFields ==
  ASSUME NEW F, NEW x, NEW y, HasFields(x, F), HasFields(y, F), \A f \in F : x[f] = y[f]
  PROVE  x = y
  BY DEF HasFields

LEMMA SameValue ==
  ASSUME NEW x, NEW F, HasFields(x, F), NEW f
  PROVE  [x EXCEPT ![f] = x[f]] = x
  <1>1. PICK y : y = [x EXCEPT ![f] = x[f]]
    OBVIOUS
  <1>2. HasFields(y, F) /\ \A g \in F : y[g] = x[g]
    BY <1>1, FieldsStay
  <1>3. y = x
    BY <1>2, SameFields
  <1> QED
    BY <1>1, <1>3

--------------------------------------------------------------------------------
(* What is normalized twice: blanks are taken away once.                    *)

LEMMA TrimmedStays == \A label : Trim(Trim(label)) = Trim(label)
  BY LabelsAssumption DEF Trim

LEMMA ActionsAgain ==
  ASSUME NEW a, HasFields(a, ActionFields)
  PROVE  LET n == NormalizeActionEnvelope(a)
         IN  /\ HasFields(n, ActionFields)
             /\ n.actionId = Trim(a.actionId) /\ n.runId = Trim(a.runId)
             /\ n.capability = a.capability /\ n.stream = a.stream /\ n.timeoutMs = a.timeoutMs
             /\ n.contextRefs = a.contextRefs /\ n.broken = a.broken
             /\ NormalizeActionEnvelope(n) = n
             /\ ActionEnvelopeOk(a) /\ Present(n.actionId) => ActionEnvelopeOk(n)
  <1>1. PICK n : n = NormalizeActionEnvelope(a)
    OBVIOUS
  <1>2. n = [f \in ActionFields |-> IF f \in {"actionId", "runId"} THEN Trim(a[f]) ELSE a[f]]
    BY <1>1 DEF NormalizeActionEnvelope, HasFields, ActionFields
  <1>3. HasFields(n, ActionFields) /\ \A f \in ActionFields : n[f] = IF f \in {"actionId", "runId"} THEN Trim(a[f]) ELSE a[f]
    BY <1>2 DEF HasFields
  <1>4. /\ n.actionId = Trim(a.actionId) /\ n.runId = Trim(a.runId)
        /\ n.capability = a.capability /\ n.stream = a.stream /\ n.timeoutMs = a.timeoutMs
        /\ n.contextRefs = a.contextRefs /\ n.broken = a.broken
    BY <1>3 DEF ActionFields
  <1>5. NormalizeActionEnvelope(n) = n
    <2>1. PICK m : m = NormalizeActionEnvelope(n)
      OBVIOUS
    <2>2. m = [f \in ActionFields |-> IF f \in {"actionId", "runId"} THEN Trim(n[f]) ELSE n[f]]
      BY <1>3, <2>1 DEF NormalizeActionEnvelope, HasFields, ActionFields
    <2>3. HasFields(m, ActionFields) /\ \A f \in ActionFields : m[f] = n[f]
      BY <1>3, <2>2, TrimmedStays DEF HasFields
    <2> QED
      BY <1>3, <2>1, <2>3, SameFields
  <1>6. ActionEnvelopeOk(a) /\ Present(n.actionId) => ActionEnvelopeOk(n)
    BY <1>4 DEF ActionEnvelopeOk, ActionFieldsOk, WellFormed
  <1> QED
    BY <1>1, <1>3, <1>4, <1>5, <1>6

LEMMA RoutePlansAgain ==
  ASSUME NEW p, RoutePlanShape(p)
  PROVE  LET q == RoutePlanAgain(p)
         IN  /\ RoutePlanShape(q) /\ RoutePlanAgain(q) = q
             /\ q.route = p.route /\ q.version = p.version
             /\ q.busAction.definition = p.busAction.definition /\ q.busAction.version = p.busAction.version
             /\ q.busAction.action = NormalizeActionEnvelope(p.busAction.action)
             /\ Fits(p) => Fits(q)
  <1> DEFINE PF == {"busAction", "route", "version"}
             BF == {"action", "definition", "version"}
             a == p.busAction.action
             n == NormalizeActionEnvelope(a)
  <1>1. PICK q : q = RoutePlanAgain(p)
    OBVIOUS
  <1>2. HasFields(p, PF) /\ HasFields(p.busAction, BF) /\ HasFields(a, ActionFields)
    BY DEF RoutePlanShape
  <1>3. PICK b : b = [p.busAction EXCEPT !.action = n]
    OBVIOUS
  <1>4. q = [p EXCEPT !.busAction = b]
    BY <1>1, <1>2, <1>3, FieldsStay DEF RoutePlanAgain, BusActionAgain
  <1>5. /\ HasFields(b, BF) /\ b.action = n
        /\ b.definition = p.busAction.definition /\ b.version = p.busAction.version
    BY <1>2, <1>3, FieldsStay
  <1>6. HasFields(q, PF) /\ q.busAction = b /\ q.route = p.route /\ q.version = p.version
    BY <1>2, <1>4, FieldsStay
  <1>7. /\ HasFields(n, ActionFields) /\ NormalizeActionEnvelope(n) = n
        /\ n.stream = a.stream /\ n.contextRefs = a.contextRefs
    BY <1>2, ActionsAgain
  <1>8. RoutePlanShape(q)
    BY <1>5, <1>6, <1>7 DEF RoutePlanShape
  <1>9. RoutePlanAgain(q) = q
    <2>1. [b EXCEPT !.action = n] = b
      BY <1>5, SameValue
    <2>2. [q EXCEPT !.busAction = b] = q
      BY <1>6, SameValue
    <2> QED
      BY <1>5, <1>6, <1>7, <2>1, <2>2 DEF RoutePlanAgain, BusActionAgain
  <1>10. Fits(p) => Fits(q)
    BY <1>5, <1>6, <1>7 DEF Fits
  <1> QED
    BY <1>1, <1>5, <1>6, <1>8, <1>9, <1>10

\* A service or backend plan is made again of the parts of the one that comes back.
LEMMA BackendPlanParts ==
  ASSUME NEW b, BackendPlanAgainOk(b)
  PROVE  /\ BackendPlanAgain(b) =
              [servicePlan |-> [routePlan |-> RoutePlanAgain(b.servicePlan.routePlan),
                                service |-> b.servicePlan.service, version |-> "service.v1"],
               adapter |-> b.adapter, version |-> "backend.v1"]
         /\ ServicePlanAgainOk(b.servicePlan)
         /\ ServiceCompatible(b.servicePlan.routePlan, b.servicePlan.service)
         /\ SelectableService(b.servicePlan.service.status)
         /\ b.adapter \in AdaptersOf(b.servicePlan.routePlan.route, Registry(b.adapter))
         /\ AdapterCompatible(ServicePlanAgain(b.servicePlan), b.adapter)
  <1> DEFINE s == b.servicePlan
             route == s.routePlan.route
  <1>1. \A entry : Entries(Registry(entry)) = {entry}
    BY DEF Entries, Registry
  <1>2. BackendPlanOk(s, Registry(b.adapter))
    BY DEF BackendPlanAgainOk
  <1>3. AdaptersOf(route, Registry(b.adapter)) \subseteq {b.adapter}
    BY <1>1 DEF AdaptersOf
  <1>4. /\ AdaptersOf(route, Registry(b.adapter)) = {b.adapter}
        /\ AdapterCompatible(ServicePlanAgain(s), b.adapter)
    BY <1>2, <1>3 DEF BackendPlanOk
  <1>5. ServicePlanAgainOk(s)
    BY <1>2 DEF BackendPlanOk
  <1>6. ServicePlanOk(s.routePlan, Registry(s.service))
    BY <1>5 DEF ServicePlanAgainOk
  <1>7. ServicesOf(s.routePlan, Registry(s.service)) \subseteq {s.service}
    BY <1>1 DEF ServicesOf
  <1>8. /\ ServicesOf(s.routePlan, Registry(s.service)) = {s.service}
        /\ SelectableService(s.service.status) /\ ServiceCompatible(s.routePlan, s.service)
    BY <1>6, <1>7 DEF ServicePlanOk
  <1>9. ServicePlanAgain(s) =
          [routePlan |-> RoutePlanAgain(s.routePlan), service |-> s.service, version |-> "service.v1"]
    BY <1>8 DEF ServicePlanAgain, ServicePlan
  <1> QED
    BY <1>4, <1>5, <1>8, <1>9 DEF BackendPlanAgain, BackendPlan

\* It is accepted again and does not change again, when blanks are not all there is
\* to the id.
LEMMA BackendPlansAgain ==
  ASSUME NEW b, BackendPlanShape(b), BackendPlanAgainOk(b),
         NEW n, n = BackendPlanAgain(b), Present(n.servicePlan.routePlan.busAction.action.actionId)
  PROVE  /\ BackendPlanShape(n) /\ BackendPlanAgainOk(n) /\ BackendPlanAgain(n) = n
         /\ n.servicePlan.routePlan = RoutePlanAgain(b.servicePlan.routePlan)
  <1> DEFINE s == b.servicePlan
             p == s.routePlan
             q == RoutePlanAgain(p)
             t == [routePlan |-> q, service |-> s.service, version |-> "service.v1"]
  <1>1. n = [servicePlan |-> t, adapter |-> b.adapter, version |-> "backend.v1"]
    BY BackendPlanParts
  <1>2. /\ n.servicePlan = t /\ n.adapter = b.adapter /\ n.version = "backend.v1"
        /\ t.routePlan = q /\ t.service = s.service /\ t.version = "service.v1"
    BY <1>1
  <1>3. RoutePlanShape(p) /\ HasFields(p.busAction.action, ActionFields)
    BY DEF BackendPlanShape, RoutePlanShape
  <1>4. /\ RoutePlanShape(q) /\ RoutePlanAgain(q) = q
        /\ q.route = p.route /\ q.version = p.version
        /\ q.busAction.definition = p.busAction.definition /\ q.busAction.version = p.busAction.version
        /\ q.busAction.action = NormalizeActionEnvelope(p.busAction.action)
    BY <1>3, RoutePlansAgain
  <1> HIDE DEF q, t
  <1>5. BackendPlanShape(n)
    <2>1. HasFields(n, {"servicePlan", "adapter", "version"})
      BY <1>1 DEF HasFields
    <2>2. HasFields(t, {"routePlan", "service", "version"})
      BY DEF HasFields, t
    <2> QED
      BY <1>2, <1>4, <2>1, <2>2 DEF BackendPlanShape
  <1>6. /\ q.busAction.action.capability = p.busAction.action.capability
        /\ q.busAction.action.stream = p.busAction.action.stream
        /\ q.busAction.action.timeoutMs = p.busAction.action.timeoutMs
        /\ q.busAction.action.contextRefs = p.busAction.action.contextRefs
        /\ ActionEnvelopeOk(p.busAction.action) => ActionEnvelopeOk(q.busAction.action)
    BY <1>2, <1>3, <1>4, ActionsAgain
  <1>7. ServicePlanAgainOk(s) /\ ServiceCompatible(p, s.service) /\ SelectableService(s.service.status)
    BY BackendPlanParts
  <1>8. RoutePlanAgainOk(q)
    <2>1. RoutePlanAgainOk(p)
      BY <1>7 DEF ServicePlanAgainOk, ServicePlanOk
    <2> QED
      BY <1>4, <1>6, <2>1 DEF RoutePlanAgainOk, BusActionAgainOk
  <1>9. ServiceCompatible(q, s.service)
    BY <1>4, <1>6, <1>7 DEF ServiceCompatible
  <1>10. ServicePlanAgainOk(t)
    <2>1. /\ ServiceDefinitionOk(s.service) /\ ServiceRegistryOk(Registry(s.service))
          /\ \E x \in ServicesOf(p, Registry(s.service)) : TRUE
      BY <1>7 DEF ServicePlanAgainOk, ServicePlanOk
    <2>2. /\ ServicesOf(q, Registry(s.service)) = ServicesOf(p, Registry(s.service))
          /\ \A x \in ServicesOf(p, Registry(s.service)) : x = s.service
      BY <1>4 DEF ServicesOf, Entries, Registry
    <2>3. ServicePlanOk(q, Registry(s.service))
      BY <1>7, <1>8, <1>9, <2>1, <2>2 DEF ServicePlanOk
    <2> QED
      BY <1>2, <2>1, <2>3 DEF ServicePlanAgainOk
  <1>11. ServicePlanAgain(t) = t /\ ServicePlanAgain(s) = t
    <2>1. ServicePlanAgain(s) = t
      BY <1>1, <1>2 DEF BackendPlanAgain, BackendPlan
    <2>2. /\ ServicesOf(q, Registry(s.service)) = ServicesOf(p, Registry(s.service))
      BY <1>4 DEF ServicesOf
    <2> QED
      BY <1>2, <1>4, <2>1, <2>2 DEF ServicePlanAgain, ServicePlan, t, q
  <1>12. BackendPlanAgainOk(n)
    <2>1. AdapterDefinitionOk(b.adapter) /\ BackendPlanOk(s, Registry(b.adapter))
      BY DEF BackendPlanAgainOk
    <2>2. BackendPlanOk(t, Registry(b.adapter))
      BY <1>2, <1>4, <1>10, <1>11, <2>1 DEF BackendPlanOk
    <2> QED
      BY <1>2, <2>1, <2>2 DEF BackendPlanAgainOk
  <1>13. BackendPlanAgain(n) = n
    <2>1. BackendPlanAgain(n) =
            [servicePlan |-> [routePlan |-> RoutePlanAgain(q), service |-> s.service, version |-> "service.v1"],
             adapter |-> b.adapter, version |-> "backend.v1"]
      BY <1>2, <1>12, BackendPlanParts
    <2> QED
      BY <1>1, <1>4, <2>1 DEF t
  <1> QED
    BY <1>2, <1>5, <1>12, <1>13 DEF q

LEMMA InvocationFields ==
  ASSUME NEW n
  PROVE  LET i == InvocationOf(n)
             action == n.servicePlan.routePlan.busAction.action
             route == n.servicePlan.routePlan.route
         IN  /\ i.actionId = action.actionId /\ i.runId = action.runId /\ i.capability = action.capability
             /\ i.serviceId = n.servicePlan.service.serviceId /\ i.adapterId = n.adapter.adapterId
             /\ i.backendKind = n.adapter.backendKind /\ i.routeId = route.routeId
             /\ i.modelBundleId = route.modelBundleId /\ i.hardwareProfileId = route.hardwareProfileId
             /\ Identity(i) = Identity(action)
             /\ \A a, r, c : a = i.actionId /\ r = i.runId /\ c = i.capability =>
                  /\ [i EXCEPT !.actionId = a, !.runId = r] = i
                  /\ [i EXCEPT !.actionId = a, !.runId = r, !.capability = c] = i
  <1> DEFINE action == n.servicePlan.routePlan.busAction.action
             route == n.servicePlan.routePlan.route
  <1>1. PICK i : i = InvocationOf(n)
    OBVIOUS
  <1>2. /\ i.actionId = action.actionId /\ i.runId = action.runId /\ i.capability = action.capability
        /\ i.serviceId = n.servicePlan.service.serviceId /\ i.adapterId = n.adapter.adapterId
        /\ i.backendKind = n.adapter.backendKind /\ i.routeId = route.routeId
        /\ i.modelBundleId = route.modelBundleId /\ i.hardwareProfileId = route.hardwareProfileId
    BY <1>1 DEF InvocationOf
  <1>3. PICK F : HasFields(i, F)
    BY <1>1 DEF InvocationOf, HasFields
  <1>4. ASSUME NEW a, NEW r, NEW c, a = i.actionId, r = i.runId, c = i.capability
        PROVE  /\ [i EXCEPT !.actionId = a, !.runId = r] = i
               /\ [i EXCEPT !.actionId = a, !.runId = r, !.capability = c] = i
    <2>1. [i EXCEPT !.actionId = a] = i
      BY <1>3, <1>4, SameValue
    <2>2. [i EXCEPT !.runId = r] = i
      BY <1>3, <1>4, SameValue
    <2>3. [i EXCEPT !.capability = c] = i
      BY <1>3, <1>4, SameValue
    <2> QED
      BY <2>1, <2>2, <2>3
  <1> QED
    BY <1>1, <1>2, <1>4, Zenon DEF Identity

\* Whatever form an execution plan comes in, it becomes the one of its backend plan.
LEMMA ExecutionPlansAgain ==
  ASSUME NEW x, ExecutionPlanShape(x), ExecutionPlanOk(x)
  PROVE  LET b == BackendOf(x)
             n == BackendPlanAgain(b)
             e == ExecutionPlanAgain(x)
         IN  /\ BackendPlanShape(n) /\ BackendPlanAgainOk(n) /\ BackendPlanAgain(n) = n
             /\ n.servicePlan.routePlan = RoutePlanAgain(b.servicePlan.routePlan)
             /\ RoutePlanShape(b.servicePlan.routePlan)
             /\ n.servicePlan.routePlan.busAction.action =
                  NormalizeActionEnvelope(b.servicePlan.routePlan.busAction.action)
             /\ e = [backendPlan |-> n, invocation |-> InvocationOf(n), version |-> "executor.v1"]
             /\ ExecutionPlanShape(e) /\ ExecutionPlanOk(e) /\ ExecutionPlanAgain(e) = e
  <1> DEFINE EF == {"backendPlan", "invocation", "version"}
             b == BackendOf(x)
             n == BackendPlanAgain(b)
             c == [backendPlan |-> n, invocation |-> InvocationOf(n), version |-> "executor.v1"]
  <1>1. BackendPlanShape(x) => ~IsExecutionPlan(x)
    BY FieldsStay DEF BackendPlanShape, IsExecutionPlan
  <1>2. IsExecutionPlan(x) => HasFields(x, EF) /\ BackendPlanShape(b)
    BY <1>1 DEF ExecutionPlanShape, BackendOf
  <1>3. ~IsExecutionPlan(x) => BackendPlanShape(b)
    <2>1. HasFields(x, EF) => IsExecutionPlan(x)
      BY FieldsStay DEF IsExecutionPlan
    <2> QED
      BY <2>1 DEF ExecutionPlanShape, BackendOf
  <1>4. /\ BackendPlanAgainOk(b) /\ ExecutionPlanAgain(x) = c
        /\ Present(n.servicePlan.routePlan.busAction.action.actionId)
        /\ ExecutionInvocationOk(InvocationOf(n), n)
    <2>1. CASE IsExecutionPlan(x)
      <3>1. x.version = "executor.v1" /\ BackendPlanAgainOk(b) /\ ExecutionInvocationOk(x.invocation, n)
        BY <2>1 DEF ExecutionPlanOk, NormalizedExecutionPlanOk, BackendOf
      <3>2. x.invocation = InvocationOf(n) /\ Present(x.invocation.actionId)
        BY <3>1 DEF ExecutionInvocationOk
      <3>3. PICK e : e = [x EXCEPT !.backendPlan = n]
        OBVIOUS
      <3>4. HasFields(e, EF) /\ \A f \in EF : e[f] = IF f = "backendPlan" THEN n ELSE x[f]
        BY <1>2, <2>1, <3>3, FieldsStay
      <3>5. HasFields(c, EF)
        BY DEF HasFields
      <3>6. e = c
        BY <3>1, <3>2, <3>4, <3>5, SameFields
      <3>7. ExecutionPlanAgain(x) = e
        BY <2>1, <3>3 DEF ExecutionPlanAgain, BackendOf
      <3> QED
        BY <3>1, <3>2, <3>6, <3>7, InvocationFields, Zenon
    <2>2. CASE ~IsExecutionPlan(x)
      <3>1. b = x /\ ExecutionPlan(x) = c /\ ExecutionPlanAgain(x) = c
        BY <2>2 DEF BackendOf, ExecutionPlan, ExecutionPlanAgain
      <3>2. BackendPlanAgainOk(b) /\ NormalizedExecutionPlanOk(c)
        BY <2>2, <3>1 DEF ExecutionPlanOk
      <3>3. c.backendPlan = n /\ c.invocation = InvocationOf(n)
        OBVIOUS
      <3>4. BackendPlanAgainOk(n) /\ ExecutionInvocationOk(InvocationOf(n), BackendPlanAgain(n))
        BY <3>2, <3>3 DEF NormalizedExecutionPlanOk
      <3>5. Present(InvocationOf(n).actionId)
        BY <3>4 DEF ExecutionInvocationOk
      <3>6. Present(n.servicePlan.routePlan.busAction.action.actionId)
        BY <3>5, InvocationFields, Zenon
      <3>7. BackendPlanAgain(n) = n
        BY <1>3, <2>2, <3>2, <3>6, BackendPlansAgain
      <3> QED
        BY <3>1, <3>2, <3>4, <3>6, <3>7
    <2> QED
      BY <2>1, <2>2
  <1>5. /\ BackendPlanShape(b) /\ BackendPlanShape(n) /\ BackendPlanAgainOk(n) /\ BackendPlanAgain(n) = n
        /\ n.servicePlan.routePlan = RoutePlanAgain(b.servicePlan.routePlan)
    BY <1>2, <1>3, <1>4, BackendPlansAgain
  <1>6. /\ RoutePlanShape(b.servicePlan.routePlan)
        /\ n.servicePlan.routePlan.busAction.action =
             NormalizeActionEnvelope(b.servicePlan.routePlan.busAction.action)
    BY <1>5, RoutePlansAgain DEF BackendPlanShape
  <1> HIDE DEF n
  <1>7. /\ HasFields(c, EF) /\ c.backendPlan = n /\ c.invocation = InvocationOf(n)
        /\ c.version = "executor.v1" /\ IsExecutionPlan(c) /\ "backendPlan" \in DOMAIN c
    BY DEF HasFields, IsExecutionPlan
  <1>8. ExecutionPlanShape(c)
    BY <1>5, <1>7 DEF ExecutionPlanShape
  <1> HIDE DEF c
  <1>9. ExecutionPlanOk(c)
    BY <1>4, <1>5, <1>7 DEF ExecutionPlanOk, NormalizedExecutionPlanOk
  <1>10. ExecutionPlanAgain(c) = c
    <2>1. [c EXCEPT !.backendPlan = n] = c
      BY <1>7, SameValue
    <2> QED
      BY <1>5, <1>7, <2>1 DEF ExecutionPlanAgain
  <1> QED
    BY <1>4, <1>5, <1>6, <1>8, <1>9, <1>10 DEF c, n

\* The skeleton and the descriptor of an execution plan, which come back as they are.
LEMMA SkeletonsAgain ==
  ASSUME NEW x, ExecutionPlanShape(x), ExecutionPlanOk(x), NEW e, e = ExecutionPlanAgain(x)
  PROVE  LET k == Skeleton(e)
             d == Descriptor(e.invocation)
         IN  /\ SkeletonAgain(e) = k /\ SkeletonAgain(k) = k
             /\ DescriptorAgain(k) = d /\ DescriptorAgain(d) = d /\ d.invocation = e.invocation
             /\ SkeletonInvocationOk(e.invocation, e) <=> SkeletonOk(e)
             /\ SkeletonInvocationOk(e.invocation, e) => SkeletonOk(k)
  <1> DEFINE n == BackendPlanAgain(BackendOf(x))
             i == InvocationOf(n)
             KF == {"executionPlan", "invocation", "boundary", "version"}
  <1>1. /\ e = [backendPlan |-> n, invocation |-> i, version |-> "executor.v1"]
        /\ ExecutionPlanOk(e) /\ ExecutionPlanAgain(e) = e
        /\ n.servicePlan.routePlan.busAction.action =
             NormalizeActionEnvelope(BackendOf(x).servicePlan.routePlan.busAction.action)
        /\ RoutePlanShape(BackendOf(x).servicePlan.routePlan)
    BY ExecutionPlansAgain
  <1>2. e.invocation = i /\ ~IsSkeleton(e)
    BY <1>1 DEF IsSkeleton
  <1>3. PICK k : k = Skeleton(e)
    OBVIOUS
  <1>4. /\ HasFields(k, KF) /\ k.executionPlan = e /\ k.invocation = i
        /\ k.boundary = SkeletonBoundary /\ k.version = "executor-skeleton.v1"
    BY <1>2, <1>3 DEF Skeleton, HasFields
  <1>5. DOMAIN k = KF /\ IsSkeleton(k)
    BY <1>4, FieldsStay DEF IsSkeleton
  <1>6. SkeletonAgain(e) = k
    BY <1>1, <1>2, <1>3 DEF SkeletonAgain
  <1>7. SkeletonAgain(k) = k
    <2>1. [k EXCEPT !.executionPlan = e] = k
      BY <1>4, SameValue
    <2> QED
      BY <1>1, <1>4, <1>5, <2>1 DEF SkeletonAgain
  <1>8. PICK d : d = Descriptor(i)
    OBVIOUS
  <1>9. DescriptorAgain(k) = d
    <2>1. ~IsDescriptor(k)
      BY <1>4 DEF IsDescriptor, SkeletonBoundary
    <2>2. InvocationIn(k) = i
      BY <1>2, <1>4, <1>5, <1>7 DEF InvocationIn
    <2> QED
      BY <1>8, <2>1, <2>2 DEF DescriptorAgain
  <1>10. Trim(i.actionId) = i.actionId /\ Trim(i.runId) = i.runId
    <2>1. PICK a : a = BackendOf(x).servicePlan.routePlan.busAction.action
      OBVIOUS
    <2>2. HasFields(a, ActionFields)
      BY <1>1, <2>1 DEF RoutePlanShape
    <2>3. /\ n.servicePlan.routePlan.busAction.action.actionId = Trim(a.actionId)
          /\ n.servicePlan.routePlan.busAction.action.runId = Trim(a.runId)
      BY <1>1, <2>1, <2>2, ActionsAgain
    <2>4. i.actionId = Trim(a.actionId) /\ i.runId = Trim(a.runId)
      BY <2>3, InvocationFields, Zenon
    <2> QED
      BY <2>4, TrimmedStays
  <1>11. [i EXCEPT !.actionId = Trim(@), !.runId = Trim(@)] = i
    <2>1. [i EXCEPT !.actionId = i.actionId, !.runId = i.runId] = i
      BY InvocationFields, Zenon
    <2> QED
      BY <1>10, <2>1
  <1>12. d.invocation = i /\ d.boundary = DescriptorBoundary /\ "boundary" \in DOMAIN d
    <2>1. PICK j : j = [i EXCEPT !.actionId = Trim(@), !.runId = Trim(@)]
      OBVIOUS
    <2>2. d = [invocation |-> j, boundary |-> DescriptorBoundary, version |-> "backend-adapter-invocation.v1"]
      BY <1>8, <2>1 DEF Descriptor
    <2> QED
      BY <1>11, <2>1, <2>2
  <1>13. DescriptorAgain(d) = d
    <2>1. IsDescriptor(d)
      BY <1>12 DEF IsDescriptor, DescriptorBoundary
    <2> QED
      BY <1>8, <1>12, <2>1 DEF DescriptorAgain
  <1>14. /\ NormalizedSkeletonOk(k) <=> SkeletonInvocationOk(i, e)
         /\ SkeletonOk(k) <=> NormalizedSkeletonOk(k)
         /\ SkeletonOk(e) <=> NormalizedSkeletonOk(k)
    <2>1. NormalizedSkeletonOk(k) <=> SkeletonInvocationOk(i, e)
      BY <1>1, <1>4 DEF NormalizedSkeletonOk
    <2>2. SkeletonOk(k) <=> NormalizedSkeletonOk(k)
      BY <1>5 DEF SkeletonOk
    <2>3. SkeletonOk(e) <=> NormalizedSkeletonOk(k)
      BY <1>1, <1>2, <1>3 DEF SkeletonOk
    <2> QED
      BY <2>1, <2>2, <2>3
  <1> HIDE DEF i
  <1> QED
    BY <1>2, <1>3, <1>6, <1>7, <1>8, <1>9, <1>12, <1>13, <1>14

\* An accepted plan is the plan of its execution plan.
LEMMA AcceptedPlansAgain ==
  ASSUME NEW p, PlanShape(p), AcceptedPlanOk(p), NEW e, e = ExecutionPlanAgain(p.executionPlan)
  PROVE  LET q == PlanOf(e)
         IN  /\ AcceptedPlan(p) = q /\ AcceptedPlan(q) = q
             /\ PlanShape(q) /\ AcceptedPlanOk(q)
             /\ IdentityOk(q.action) /\ q.action = Identity(e.invocation) /\ q.executionPlan = e
             /\ ExecutionPlanOk(p.executionPlan) /\ ExecutionPlanShape(p.executionPlan)
  <1>1. /\ ExecutionPlanOk(p.executionPlan) /\ ExecutionPlanShape(p.executionPlan)
        /\ IdentityOk(p.action) /\ p.action = Identity(e.invocation)
    BY DEF AcceptedPlanOk, PlanShape
  <1>2. /\ ExecutionPlanShape(e) /\ ExecutionPlanOk(e) /\ ExecutionPlanAgain(e) = e
        /\ e.invocation = InvocationOf(e.backendPlan)
    BY <1>1, ExecutionPlansAgain
  <1>3. PICK q : q = PlanOf(e)
    OBVIOUS
  <1>4. /\ q.action = Identity(e.backendPlan.servicePlan.routePlan.busAction.action)
        /\ q.executionPlan = e /\ q.version = "execute-action.v1"
        /\ HasFields(q, DOMAIN q) /\ "executionPlan" \in DOMAIN q /\ "boundary" \notin DOMAIN q
    BY <1>3, Zenon DEF PlanOf, HasFields
  <1>5. q.action = Identity(e.invocation)
    BY <1>2, <1>4, InvocationFields, Zenon
  <1>6. \A action : action = q.action => [q EXCEPT !.action = action] = q
    BY <1>4, SameValue
  <1>7. AcceptedPlan(p) = q
    BY <1>1, <1>3, <1>5, <1>6 DEF AcceptedPlan
  <1>8. AcceptedPlan(q) = q
    BY <1>2, <1>3, <1>4, <1>6 DEF AcceptedPlan
  <1>9. AcceptedPlanOk(q)
    BY <1>1, <1>2, <1>3, <1>4, <1>5 DEF AcceptedPlanOk
  <1>10. PlanShape(q)
    BY <1>2, <1>4 DEF PlanShape
  <1> QED
    BY <1>1, <1>3, <1>4, <1>5, <1>7, <1>8, <1>9, <1>10

\* The parts of a backend plan that was accepted are valid, each by itself.
LEMMA PartsAreValid ==
  ASSUME NEW n, BackendPlanAgainOk(n)
  PROVE  LET p == n.servicePlan.routePlan
         IN  /\ RouteDefinitionOk(p.route) /\ CapabilityDefinitionOk(p.busAction.definition)
             /\ ServiceDefinitionOk(n.servicePlan.service) /\ AdapterDefinitionOk(n.adapter)
             /\ p.route.capability = p.busAction.action.capability
             /\ p.busAction.definition.capability = p.busAction.action.capability
  <1> DEFINE p == n.servicePlan.routePlan
  <1>1. ServicePlanAgainOk(n.servicePlan) /\ AdapterDefinitionOk(n.adapter)
    BY DEF BackendPlanAgainOk, BackendPlanOk
  <1>2. RoutePlanAgainOk(p) /\ ServiceDefinitionOk(n.servicePlan.service)
    BY <1>1 DEF ServicePlanAgainOk, ServicePlanOk
  <1> QED
    BY <1>1, <1>2 DEF RoutePlanAgainOk, BusActionAgainOk

LEMMA InvocationsHaveLabels ==
  ASSUME NEW n, BackendPlanAgainOk(n), IdentityOk(Identity(InvocationOf(n)))
  PROVE  /\ \A label \in InvocationLabels(InvocationOf(n)) : Label(label)
         /\ \A label \in OptionalInvocationLabels(InvocationOf(n)) : OptionalLabel(label)
  <1> DEFINE i == InvocationOf(n)
             route == n.servicePlan.routePlan.route
  <1>1. Label(i.actionId) /\ OptionalLabel(i.runId) /\ Label(i.capability)
    BY DEF IdentityOk, Identity
  <1>2. /\ Label(n.servicePlan.service.serviceId) /\ Label(n.adapter.adapterId) /\ Label(n.adapter.backendKind)
        /\ Label(route.routeId) /\ OptionalLabel(route.modelBundleId) /\ OptionalLabel(route.hardwareProfileId)
    BY PartsAreValid DEF RouteDefinitionOk, ServiceDefinitionOk, AdapterDefinitionOk
  <1>3. /\ Label(i.serviceId) /\ Label(i.adapterId) /\ Label(i.backendKind) /\ Label(i.routeId)
        /\ OptionalLabel(i.modelBundleId) /\ OptionalLabel(i.hardwareProfileId)
    BY <1>2, InvocationFields, Zenon
  <1> HIDE DEF i
  <1>4. /\ \A label \in InvocationLabels(i) : Label(label)
        /\ \A label \in OptionalInvocationLabels(i) : OptionalLabel(label)
    BY <1>1, <1>3 DEF InvocationLabels, OptionalInvocationLabels
  <1> QED
    BY <1>4 DEF i

\* The descriptor that is made of an execution plan.
Composed(e) ==
  [action |-> Identity(e.invocation), plan |-> PlanOf(e), skeleton |-> Skeleton(e),
   descriptor |-> Descriptor(e.invocation), boundary |-> OrchestrationBoundary,
   version |-> "execute-action-orchestration.v1"]

\* Whatever is accepted, an accepted plan or an orchestration descriptor with parts
\* in any form, is normalized to what is made of the execution plan in it.
LEMMA WhatIsAccepted ==
  ASSUME NEW x, PlanShape(x) \/ OrchestrationShape(x), OrchestrationOk(x),
         NEW p, p = (IF IsOrchestration(x) THEN x.plan ELSE x),
         NEW e, e = ExecutionPlanAgain(p.executionPlan)
  PROVE  /\ PlanShape(p) /\ AcceptedPlanOk(p) /\ SkeletonInvocationOk(e.invocation, e)
         /\ NormalizeOrchestration(x) = Composed(e)
  <1> DEFINE q == PlanOf(e)
             k == Skeleton(e)
             d == Descriptor(e.invocation)
  <1>1. PlanShape(x) => ~IsOrchestration(x)
    BY DEF PlanShape, IsOrchestration
  <1>2. OrchestrationShape(x) => IsOrchestration(x)
    BY FieldsStay DEF OrchestrationShape, OrchestrationFields, IsOrchestration
  <1>3. PlanShape(p) /\ AcceptedPlanOk(p)
    BY <1>1, <1>2 DEF OrchestrationShape, OrchestrationOk, NormalizedOrchestrationOk
  <1>4. /\ AcceptedPlan(p) = q /\ q.executionPlan = e /\ q.action = Identity(e.invocation)
        /\ ExecutionPlanOk(p.executionPlan) /\ ExecutionPlanShape(p.executionPlan)
    BY <1>3, AcceptedPlansAgain
  <1>5. /\ SkeletonAgain(e) = k /\ DescriptorAgain(k) = d
        /\ SkeletonInvocationOk(e.invocation, e) <=> SkeletonOk(e)
    BY <1>4, SkeletonsAgain
  <1> HIDE DEF q, k, d
  <1>6. Orchestration(q) = Composed(e)
    BY <1>4, <1>5 DEF Orchestration, Composed, q, k, d
  <1>7. CASE ~IsOrchestration(x)
    <2>1. p = x /\ SkeletonOk(e)
      BY <1>4, <1>7 DEF OrchestrationOk
    <2>2. NormalizeOrchestration(x) = Orchestration(q)
      BY <1>4, <1>7 DEF NormalizeOrchestration
    <2> QED
      BY <1>3, <1>5, <1>6, <2>1, <2>2
  <1>8. CASE IsOrchestration(x)
    <2>1. /\ p = x.plan /\ NormalizedOrchestrationOk(x) /\ HasFields(x, OrchestrationFields)
      BY <1>1, <1>8 DEF OrchestrationOk, OrchestrationShape
    <2>2. /\ SkeletonOk(x.skeleton) /\ SkeletonAgain(x.skeleton) = k
          /\ DescriptorAgain(x.descriptor) = d
          /\ x.action = Identity(e.invocation) /\ x.boundary = OrchestrationBoundary
          /\ x.version = "execute-action-orchestration.v1"
      BY <1>4, <1>5, <2>1 DEF NormalizedOrchestrationOk, OrchestrationActionOk
    <2>3. \A label \in InvocationLabels(k.invocation) \union OptionalInvocationLabels(k.invocation) : label \notin PathLike
      <3>1. CASE IsSkeleton(x.skeleton)
        <4>1. PICK s : s = x.skeleton
          OBVIOUS
        <4>2. NormalizedSkeletonOk(s) /\ k = [s EXCEPT !.executionPlan = ExecutionPlanAgain(s.executionPlan)]
          BY <2>2, <3>1, <4>1 DEF SkeletonOk, SkeletonAgain
        <4>3. DOMAIN k = {"executionPlan", "invocation", "boundary", "version"}
          BY DEF k, Skeleton
        <4>4. DOMAIN s = DOMAIN k
          BY <4>2
        <4>5. k.invocation = s.invocation
          BY <4>2, <4>3, <4>4
        <4> QED
          BY <4>2, <4>5 DEF NormalizedSkeletonOk, SkeletonInvocationOk
      <3>2. CASE ~IsSkeleton(x.skeleton)
        <4>1. NormalizedSkeletonOk(k)
          BY <2>2, <3>2 DEF SkeletonOk, SkeletonAgain
        <4> QED
          BY <4>1 DEF NormalizedSkeletonOk, SkeletonInvocationOk
      <3> QED
        BY <3>1, <3>2
    <2>4. SkeletonInvocationOk(e.invocation, e)
      BY <2>3 DEF SkeletonInvocationOk, k, Skeleton
    <2>5. NormalizeOrchestration(x) = [x EXCEPT !.plan = q, !.skeleton = k, !.descriptor = d]
      BY <1>4, <1>8, <2>1, <2>2 DEF NormalizeOrchestration, OrchestrationAgain
    <2>6. [x EXCEPT !.plan = q, !.skeleton = k, !.descriptor = d] = Composed(e)
      <3>1. PICK y : y = [x EXCEPT !.plan = q]
        OBVIOUS
      <3>2. PICK z : z = [y EXCEPT !.skeleton = k]
        OBVIOUS
      <3>3. PICK w : w = [z EXCEPT !.descriptor = d]
        OBVIOUS
      <3>4. /\ HasFields(y, OrchestrationFields) /\ HasFields(z, OrchestrationFields) /\ HasFields(w, OrchestrationFields)
        <4>1. HasFields(y, OrchestrationFields)
          BY <2>1, <3>1, FieldsStay
        <4>2. HasFields(z, OrchestrationFields)
          BY <3>2, <4>1, FieldsStay
        <4> QED
          BY <3>3, <4>1, <4>2, FieldsStay
      <3>5. \A f \in OrchestrationFields :
              w[f] = IF f = "plan" THEN q ELSE IF f = "skeleton" THEN k ELSE IF f = "descriptor" THEN d ELSE x[f]
        <4>1. \A f \in OrchestrationFields : y[f] = IF f = "plan" THEN q ELSE x[f]
          BY <2>1, <3>1, FieldsStay
        <4>2. \A f \in OrchestrationFields : z[f] = IF f = "skeleton" THEN k ELSE y[f]
          BY <3>2, <3>4, FieldsStay
        <4>3. \A f \in OrchestrationFields : w[f] = IF f = "descriptor" THEN d ELSE z[f]
          BY <3>3, <3>4, FieldsStay
        <4> QED
          BY <4>1, <4>2, <4>3
      <3>6. HasFields(Composed(e), OrchestrationFields)
        BY DEF HasFields, Composed, OrchestrationFields
      <3>7. \A f \in OrchestrationFields : w[f] = Composed(e)[f]
        <4>1. /\ Composed(e).action = x.action /\ Composed(e).plan = q /\ Composed(e).skeleton = k
              /\ Composed(e).descriptor = d /\ Composed(e).boundary = x.boundary
              /\ Composed(e).version = x.version
          BY <2>2 DEF Composed, q, k, d
        <4> QED
          BY <3>5, <4>1 DEF OrchestrationFields
      <3>8. w = Composed(e)
        BY <3>4, <3>6, <3>7, SameFields
      <3> QED
        BY <3>1, <3>2, <3>3, <3>8
    <2> QED
      BY <1>3, <2>4, <2>5, <2>6
  <1> QED
    BY <1>7, <1>8

\* What was made of an accepted plan is accepted again, as it is.
LEMMA ComposedAgain ==
  ASSUME NEW p, PlanShape(p), AcceptedPlanOk(p),
         NEW e, e = ExecutionPlanAgain(p.executionPlan), SkeletonInvocationOk(e.invocation, e),
         NEW o, o = Composed(e)
  PROVE  /\ OrchestrationShape(o) /\ OrchestrationOk(o) /\ NormalizeOrchestration(o) = o
  <1> DEFINE q == PlanOf(e)
             k == Skeleton(e)
             d == Descriptor(e.invocation)
             i == e.invocation
  <1>1. /\ AcceptedPlan(q) = q /\ PlanShape(q) /\ AcceptedPlanOk(q)
        /\ IdentityOk(q.action) /\ q.action = Identity(i) /\ q.executionPlan = e
        /\ ExecutionPlanOk(p.executionPlan) /\ ExecutionPlanShape(p.executionPlan)
    BY AcceptedPlansAgain
  <1>2. /\ SkeletonAgain(e) = k /\ SkeletonAgain(k) = k /\ SkeletonOk(k)
        /\ DescriptorAgain(k) = d /\ DescriptorAgain(d) = d /\ d.invocation = i
    BY <1>1, SkeletonsAgain
  <1>3. PICK n : n = BackendPlanAgain(BackendOf(p.executionPlan))
    OBVIOUS
  <1>4. BackendPlanAgainOk(n) /\ i = InvocationOf(n)
    BY <1>1, <1>3, ExecutionPlansAgain
  <1>5. DescriptorInvocationOk(i)
    BY <1>1, <1>4, InvocationsHaveLabels DEF DescriptorInvocationOk
  <1>6. DescriptorOk(d)
    <2>1. /\ d.boundary = DescriptorBoundary /\ d.version = "backend-adapter-invocation.v1"
          /\ "boundary" \in DOMAIN d
      BY DEF Descriptor
    <2>2. IsDescriptor(d)
      BY <2>1 DEF IsDescriptor, DescriptorBoundary
    <2> QED
      BY <1>2, <1>5, <2>1, <2>2 DEF DescriptorOk, NormalizedDescriptorOk
  <1>7. /\ o.action = q.action /\ o.plan = q /\ o.skeleton = k /\ o.descriptor = d
        /\ o.boundary = OrchestrationBoundary /\ o.version = "execute-action-orchestration.v1"
        /\ HasFields(o, OrchestrationFields) /\ IsOrchestration(o)
    <2>1. o.action = q.action
      BY <1>1 DEF Composed
    <2>2. HasFields(o, OrchestrationFields)
      BY DEF Composed, HasFields, OrchestrationFields
    <2>3. IsOrchestration(o)
      BY DEF Composed, IsOrchestration
    <2> QED
      BY <2>1, <2>2, <2>3 DEF Composed
  <1> HIDE DEF q, k, d
  <1>8. NormalizedOrchestrationOk(o)
    <2>1. q.action.actionId = i.actionId
      BY <1>1 DEF Identity
    <2>2. OrchestrationActionOk(o)
      BY <1>1, <1>2, <1>7, <2>1 DEF OrchestrationActionOk
    <2> QED
      BY <1>1, <1>2, <1>6, <1>7, <2>2 DEF NormalizedOrchestrationOk
  <1>9. OrchestrationAgain(o) = o
    <2>1. [o EXCEPT !.plan = q] = o
      BY <1>7, SameValue
    <2>2. [o EXCEPT !.skeleton = k] = o
      BY <1>7, SameValue
    <2>3. [o EXCEPT !.descriptor = d] = o
      BY <1>7, SameValue
    <2>4. [o EXCEPT !.plan = q, !.skeleton = k, !.descriptor = d] = o
      BY <2>1, <2>2, <2>3
    <2>5. OrchestrationAgain(o) = [o EXCEPT !.plan = q, !.skeleton = k, !.descriptor = d]
      BY <1>1, <1>2, <1>7 DEF OrchestrationAgain
    <2> QED
      BY <2>4, <2>5
  <1> QED
    BY <1>1, <1>7, <1>8, <1>9 DEF OrchestrationShape, OrchestrationOk, NormalizeOrchestration

\* And coherent: what its plans were found to be when they were made again.
LEMMA ComposedIsCoherent ==
  ASSUME NEW p, PlanShape(p), AcceptedPlanOk(p),
         NEW e, e = ExecutionPlanAgain(p.executionPlan)
  PROVE  Coherent(Composed(e))
  <1> DEFINE n == BackendPlanAgain(BackendOf(p.executionPlan))
             s == n.servicePlan
             route == s.routePlan.route
             action == s.routePlan.busAction.action
             q == PlanOf(e)
  <1>1. /\ IdentityOk(q.action) /\ q.action = Identity(e.invocation)
        /\ ExecutionPlanOk(p.executionPlan) /\ ExecutionPlanShape(p.executionPlan)
    BY AcceptedPlansAgain
  <1>2. /\ e.backendPlan = n /\ e.invocation = InvocationOf(n)
        /\ BackendPlanAgainOk(n) /\ BackendPlanAgain(n) = n
    BY <1>1, ExecutionPlansAgain
  <1>3. Descriptor(e.invocation).invocation = e.invocation
    BY <1>1, SkeletonsAgain
  <1> HIDE DEF n
  <1>4. /\ ServiceCompatible(s.routePlan, s.service) /\ SelectableService(s.service.status)
        /\ n.adapter \in AdaptersOf(route, Registry(n.adapter))
        /\ AdapterCompatible(ServicePlanAgain(s), n.adapter)
    BY <1>2, BackendPlanParts
  <1>5. ServicePlanAgain(s) = s
    <2>1. BackendPlanAgain(n).servicePlan = ServicePlanAgain(s)
      BY DEF BackendPlanAgain, BackendPlan
    <2> QED
      BY <1>2, <2>1
  <1>6. /\ RouteDefinitionOk(route) /\ AdapterDefinitionOk(n.adapter)
        /\ route.capability = action.capability
        /\ s.routePlan.busAction.definition.capability = action.capability
    BY <1>2, PartsAreValid
  <1>7. route.backendId \in {Absent, n.adapter.adapterId}
    BY <1>4, <1>6 DEF AdaptersOf, Entries, Registry, RouteDefinitionOk, OptionalLabel, Label
  <1>8. \A f \in {"streaming", "cancellation", "timeout"} :
          route[f] = "required" => "unsupported" \notin {s.service[f], n.adapter[f]}
    <2>1. ServesLevels(route, s.service) /\ ServesLevels(route, n.adapter)
      BY <1>4, <1>5 DEF ServiceCompatible, AdapterCompatible
    <2> QED
      BY <2>1 DEF ServesLevels, ServesLevel
  <1>9. /\ s.service.capability = action.capability /\ route.serviceId = s.service.serviceId
        /\ action.stream => "unsupported" \notin {s.service.streaming, s.service.streamingDeltas}
        /\ action.timeoutMs => s.service.timeout # "unsupported"
        /\ action.contextRefs => s.service.contextRefs # "unsupported"
        /\ s.service.modelBundleRequired => route.modelBundleId # Absent
        /\ s.service.hardwareProfileRequired => route.hardwareProfileId # Absent
    BY <1>4, <1>6, Zenon DEF ServiceCompatible, Present
  <1>10. /\ action.capability \in n.adapter.capabilities /\ s.service.serviceId \in n.adapter.services
         /\ route.backendKind = n.adapter.backendKind /\ SelectableAdapter(n.adapter.status)
         /\ action.stream => "unsupported" \notin {n.adapter.streaming, n.adapter.streamingDeltas}
         /\ action.timeoutMs => n.adapter.timeout # "unsupported"
         /\ n.adapter.modelBundleRequired => route.modelBundleId # Absent
         /\ n.adapter.hardwareProfileRequired => route.hardwareProfileId # Absent
    BY <1>4, <1>5, <1>6, Zenon DEF AdapterCompatible, Present
  <1>11. \A label \in InvocationLabels(e.invocation) : Label(label)
    BY <1>1, <1>2, InvocationsHaveLabels
  <1>12. /\ q.executionPlan = e /\ q.action = Identity(action)
         /\ Skeleton(e).invocation = e.invocation /\ Skeleton(e).executionPlan = e
    BY <1>2 DEF PlanOf, Skeleton
  <1>13. PICK o : o = Composed(e)
    OBVIOUS
  <1>14. /\ o.plan = q /\ o.skeleton = Skeleton(e) /\ o.descriptor = Descriptor(e.invocation)
         /\ o.action = q.action
    BY <1>1, <1>13 DEF Composed
  <1> HIDE DEF q
  <1>15. /\ o.action = Identity(action) /\ o.plan.action = o.action
         /\ {e.invocation, o.skeleton.invocation, o.descriptor.invocation} = {InvocationOf(e.backendPlan)}
         /\ o.skeleton.executionPlan = e
         /\ \A copy \in Copies : o.plan[copy] = PlanOf(e)[copy]
    <2>1. o.skeleton.invocation = e.invocation /\ o.descriptor.invocation = e.invocation
      BY <1>3, <1>12, <1>14
    <2>2. e.invocation = InvocationOf(e.backendPlan)
      BY <1>2
    <2>3. \A copy \in Copies : o.plan[copy] = PlanOf(e)[copy]
      BY <1>14 DEF q
    <2> QED
      BY <1>12, <1>14, <2>1, <2>2, <2>3
  <1>16. o.plan.executionPlan = e /\ e.backendPlan = n
    BY <1>2, <1>12, <1>14
  <1>17. /\ {route.capability, s.service.capability, s.routePlan.busAction.definition.capability} = {action.capability}
         /\ action.stream => "unsupported" \notin {s.service.streaming, s.service.streamingDeltas,
                                                  n.adapter.streaming, n.adapter.streamingDeltas}
         /\ action.timeoutMs => "unsupported" \notin {s.service.timeout, n.adapter.timeout}
         /\ s.service.modelBundleRequired \/ n.adapter.modelBundleRequired => route.modelBundleId # Absent
         /\ s.service.hardwareProfileRequired \/ n.adapter.hardwareProfileRequired => route.hardwareProfileId # Absent
    BY <1>6, <1>9, <1>10
  <1>18. Coherent(o)
    BY <1>4, <1>7, <1>8, <1>9, <1>10, <1>11, <1>15, <1>16, <1>17 DEF Coherent
  <1> QED
    BY <1>13, <1>18

\* A plan that fits does so when it is made again.
LEMMA FitsAgain ==
  ASSUME NEW p, PlanShape(p), AcceptedPlanOk(p), Fits(RoutePlanIn(p)),
         NEW e, e = ExecutionPlanAgain(p.executionPlan)
  PROVE  Planned(Composed(e)) /\ Fits(RoutePlanIn(PlanOf(e)))
  <1> DEFINE n == BackendPlanAgain(BackendOf(p.executionPlan))
  <1>1. ExecutionPlanOk(p.executionPlan) /\ ExecutionPlanShape(p.executionPlan)
    BY AcceptedPlansAgain
  <1>2. /\ e = [backendPlan |-> n, invocation |-> InvocationOf(n), version |-> "executor.v1"]
        /\ n.servicePlan.routePlan = RoutePlanAgain(RoutePlanIn(p)) /\ RoutePlanShape(RoutePlanIn(p))
    BY <1>1, ExecutionPlansAgain DEF RoutePlanIn
  <1>3. Fits(n.servicePlan.routePlan)
    BY <1>2, RoutePlansAgain
  <1> HIDE DEF n
  <1>4. e.backendPlan = n /\ IsExecutionPlan(e)
    BY <1>2 DEF IsExecutionPlan
  <1>5. RoutePlanIn(PlanOf(e)) = n.servicePlan.routePlan /\ PlanOf(e).routePlan = n.servicePlan.routePlan
    BY <1>4 DEF RoutePlanIn, PlanOf, BackendOf
  <1>6. Composed(e).plan = PlanOf(e)
    BY DEF Composed
  <1> QED
    BY <1>3, <1>5, <1>6 DEF Planned, Fits

\* A plan that has just been made fits: the registries have no second definition of
\* the capability and no second route that is open, so those that were looked at are
\* those that were taken.
LEMMA PlansFit ==
  ASSUME NEW a, HasFields(a, ActionFields), NEW registries, PlanOk(a, registries)
  PROVE  PlanShape(Plan(a, registries)) /\ Fits(RoutePlanIn(Plan(a, registries)))
  <1> DEFINE b == BusAction(a, registries.capability)
             r == RoutePlan(b, registries.router)
             s == ServicePlan(r, registries.service)
             x == BackendPlan(s, registries.adapter)
             e == ExecutionPlanAgain(x)
  <1>1. /\ BusActionOk(a, registries.capability) /\ RoutePlanOk(b, registries.router)
        /\ ExecutionPlanOk(x) /\ Plan(a, registries) = PlanOf(e)
    BY DEF PlanOk, Plan
  <1>2. /\ HasFields(b, {"action", "definition", "version"}) /\ HasFields(b.action, ActionFields)
        /\ b.definition.status # "deprecated" /\ NormalizeActionEnvelope(b.action) = b.action
    <2>1. HasFields(b, {"action", "definition", "version"})
      BY DEF BusAction, HasFields
    <2>2. /\ b.action = NormalizeActionEnvelope(a)
          /\ b.definition = CHOOSE d \in DefinitionsOf(a.capability, registries.capability) : TRUE
      BY DEF BusAction
    <2>3. \A c, d \in DefinitionsOf(a.capability, registries.capability) : c = d
      BY <1>1 DEF BusActionOk, CapabilityRegistryOk, DifferIn, Everywhere, DefinitionsOf, Entries
    <2>4. PICK d \in DefinitionsOf(a.capability, registries.capability) : d.status # "deprecated"
      BY <1>1 DEF BusActionOk
    <2>5. b.definition = d
      BY <2>2, <2>3, <2>4
    <2> QED
      BY <2>1, <2>2, <2>4, <2>5, ActionsAgain
  <1> HIDE DEF b
  <1>3. /\ r.route \in SelectableRoutes(b, registries.router) /\ RouteCompatible(b, r.route)
        /\ r.busAction = BusActionAgain(b) /\ HasFields(r, {"busAction", "route", "version"})
    <2>1. HasFields(r, {"busAction", "route", "version"})
      BY DEF RoutePlan, HasFields
    <2>2. /\ r.busAction = BusActionAgain(b)
          /\ r.route = CHOOSE q \in SelectableRoutes(b, registries.router) : TRUE
      BY DEF RoutePlan
    <2>3. \A p, q \in SelectableRoutes(b, registries.router) : p = q
      BY <1>1 DEF RoutePlanOk, RouterRegistryOk, DifferIn, Selectable, SelectableRoutes, Entries
    <2>4. PICK q \in SelectableRoutes(b, registries.router) : RouteCompatible(b, q)
      BY <1>1 DEF RoutePlanOk
    <2>5. r.route = q
      BY <2>2, <2>3, <2>4
    <2> QED
      BY <2>1, <2>2, <2>4, <2>5
  <1>4. r.busAction = b
    <2>1. [b EXCEPT !.action = b.action] = b
      BY <1>2, SameValue
    <2> QED
      BY <1>2, <1>3, <2>1 DEF BusActionAgain
  <1>5. RoutePlanShape(r) /\ Fits(r)
    BY <1>2, <1>3, <1>4, Zenon DEF RoutePlanShape, Fits, RouteCompatible, SelectableRoutes, Present
  <1> HIDE DEF r
  <1>6. x.servicePlan.routePlan = RoutePlanAgain(RoutePlanAgain(r))
    <2>1. s.routePlan = RoutePlanAgain(r)
      BY DEF ServicePlan
    <2>2. x.servicePlan = ServicePlanAgain(s)
      BY DEF BackendPlan
    <2>3. ServicePlanAgain(s).routePlan = RoutePlanAgain(s.routePlan)
      BY DEF ServicePlanAgain, ServicePlan
    <2> QED
      BY <2>1, <2>2, <2>3
  <1>7. RoutePlanShape(x.servicePlan.routePlan) /\ Fits(x.servicePlan.routePlan)
    BY <1>5, <1>6, RoutePlansAgain
  <1>8. BackendPlanShape(x)
    <2>1. HasFields(x, {"servicePlan", "adapter", "version"})
      BY DEF BackendPlan, HasFields
    <2>2. HasFields(x.servicePlan, {"routePlan", "service", "version"})
      BY DEF BackendPlan, ServicePlanAgain, ServicePlan, HasFields
    <2> QED
      BY <1>7, <2>1, <2>2 DEF BackendPlanShape
  <1> HIDE DEF x
  <1>9. ExecutionPlanShape(x) /\ BackendOf(x) = x
    BY <1>8, FieldsStay DEF ExecutionPlanShape, BackendPlanShape, BackendOf, IsExecutionPlan
  <1>10. PICK n : n = BackendPlanAgain(x)
    OBVIOUS
  <1>11. /\ e = [backendPlan |-> n, invocation |-> InvocationOf(n), version |-> "executor.v1"]
         /\ n.servicePlan.routePlan = RoutePlanAgain(x.servicePlan.routePlan) /\ ExecutionPlanShape(e)
    BY <1>1, <1>9, <1>10, ExecutionPlansAgain
  <1> HIDE DEF e
  <1>12. e.backendPlan = n /\ IsExecutionPlan(e)
    BY <1>11 DEF IsExecutionPlan
  <1>13. /\ PlanOf(e).executionPlan = e /\ HasFields(PlanOf(e), DOMAIN PlanOf(e))
         /\ "executionPlan" \in DOMAIN PlanOf(e) /\ "boundary" \notin DOMAIN PlanOf(e)
    BY DEF PlanOf, HasFields
  <1>14. Fits(RoutePlanIn(PlanOf(e)))
    BY <1>7, <1>11, <1>12, <1>13, RoutePlansAgain DEF RoutePlanIn, BackendOf
  <1> QED
    BY <1>1, <1>11, <1>13, <1>14 DEF PlanShape, e

--------------------------------------------------------------------------------
(* The outcomes of what was accepted.                                       *)

LEMMA StatesAreOk == PartsOk(AcceptedOutcome) /\ PartsOk(StartedOutcome)
  BY DEF PartsOk, AcceptedOutcome, StartedOutcome, Parts, NoError, EventTypeByResultStatus, ResultEnvelopeOk,
         ResultErrorOk, StatusSemanticsOk, ActionEventOk, EventDataOk, OutcomePairOk

LEMMA CompletedIsOk == PartsOk(CompletedOutcome) /\ CompletedOutcome.event.type = "completed"
  BY DEF PartsOk, CompletedOutcome, Parts, NoError, EventTypeByResultStatus, ResultEnvelopeOk, ResultErrorOk,
         StatusSemanticsOk, ActionEventOk, EventDataOk, OutcomePairOk

LEMMA ErrorsAreOk ==
  ASSUME NEW error, error.code = Absent, error.kind = Absent
  PROVE  /\ PartsOk(FailedOutcome(error)) /\ FailedOutcome(error).event.type = "failed"
         /\ PartsOk(CancelledOutcome(error)) /\ CancelledOutcome(error).event.type = "cancelled"
         /\ PartsOk(TimeoutOutcome(error)) /\ TimeoutOutcome(error).event.type = "timeout"
         /\ PartsOk(PolicyDeniedOutcome(error))
  <1> DEFINE Good(e) == Present(e.message) /\ e.code \in SnakeCase /\ e.kind \in ErrorKinds /\ e # NoError
  <1>1. ASSUME NEW code \in SnakeCase, NEW kind \in ErrorKinds PROVE Good(NormalizeError(error, code, kind))
    <2>1. /\ NormalizeError(error, code, kind).code = code
          /\ NormalizeError(error, code, kind).kind = kind
          /\ Present(NormalizeError(error, code, kind).message)
      BY Zenon DEF NormalizeError, Or, Present, Absent
    <2>2. code # Absent
      BY DEF SnakeCase, Absent
    <2>3. NormalizeError(error, code, kind) # NoError
      BY <2>1, <2>2 DEF NoError
    <2> QED
      BY <2>1, <2>3
  <1>2. ASSUME NEW e, Good(e), NEW why
        PROVE  /\ PartsOk(Parts("failed", e, Absent, Absent))
               /\ PartsOk(Parts("cancelled", e, why, Absent))
               /\ PartsOk(Parts("timeout", e, why, Absent))
               /\ PartsOk(Parts("policy_denied", e, Absent, why))
    BY <1>2 DEF PartsOk, Parts, EventTypeByResultStatus, ResultEnvelopeOk, ResultErrorOk,
                StatusSemanticsOk, ActionEventOk, EventDataOk, OutcomePairOk
  <1>3. \A e, why : /\ Parts("failed", e, why, Absent).event.type = "failed"
                    /\ Parts("cancelled", e, why, Absent).event.type = "cancelled"
                    /\ Parts("timeout", e, why, Absent).event.type = "timeout"
    BY DEF Parts, EventTypeByResultStatus
  <1>4. /\ Good(NormalizeError(error, "capability_bus_execute_action_failed", "runtime"))
        /\ Good(NormalizeError(error, "capability_bus_execute_action_cancelled", "cancellation"))
        /\ Good(NormalizeError(error, "capability_bus_execute_action_timeout", "timeout"))
        /\ Good(NormalizeError(error, "capability_bus_execute_action_policy_denied", "policy"))
    <2>1. /\ "capability_bus_execute_action_failed" \in SnakeCase /\ "runtime" \in ErrorKinds
          /\ "capability_bus_execute_action_cancelled" \in SnakeCase /\ "cancellation" \in ErrorKinds
          /\ "capability_bus_execute_action_timeout" \in SnakeCase /\ "timeout" \in ErrorKinds
          /\ "capability_bus_execute_action_policy_denied" \in SnakeCase /\ "policy" \in ErrorKinds
      BY DEF SnakeCase, ErrorKinds
    <2> QED
      BY <1>1, <2>1
  <1> HIDE DEF Good
  <1> QED
    BY <1>2, <1>3, <1>4 DEF FailedOutcome, CancelledOutcome, TimeoutOutcome, PolicyDeniedOutcome

\* An outcome repeats the identity of the action and the labels of the invocation.
LEMMA OutcomesAreOk ==
  ASSUME NEW p, PlanShape(p), AcceptedPlanOk(p),
         NEW e, e = ExecutionPlanAgain(p.executionPlan),
         NEW o, o = Composed(e), OrchestrationOk(o), NormalizeOrchestration(o) = o,
         NEW parts, PartsOk(parts)
  PROVE  OutcomeOk(OutcomeDescriptor(o, parts))
  <1> DEFINE i == e.invocation
  <1>1. /\ IdentityOk(PlanOf(e).action) /\ PlanOf(e).action = Identity(i)
        /\ ExecutionPlanOk(p.executionPlan) /\ ExecutionPlanShape(p.executionPlan)
    BY AcceptedPlansAgain
  <1>2. PICK n : n = BackendPlanAgain(BackendOf(p.executionPlan))
    OBVIOUS
  <1>3. BackendPlanAgainOk(n) /\ i = InvocationOf(n)
    BY <1>1, <1>2, ExecutionPlansAgain
  <1>4. Descriptor(i).invocation = i
    BY <1>1, SkeletonsAgain
  <1> HIDE DEF i
  <1>5. o.action = Identity(i) /\ o.descriptor = Descriptor(i)
    BY DEF Composed, i
  <1>6. /\ o.action.actionId = i.actionId /\ o.action.runId = i.runId /\ o.action.capability = i.capability
        /\ Identity(o.action) = o.action
    BY <1>5 DEF Identity
  <1>7. OutcomeMetadata(o, parts).invocation = i
    <2>1. PICK j : j = [i EXCEPT !.actionId = o.action.actionId, !.runId = o.action.runId,
                                 !.capability = o.action.capability]
      OBVIOUS
    <2>2. j = i
      BY <1>3, <1>6, <2>1, InvocationFields, Zenon
    <2> QED
      BY <1>4, <1>5, <2>1, <2>2, Zenon DEF OutcomeMetadata
  <1>8. /\ \A label \in InvocationLabels(i) : Label(label)
        /\ \A label \in OptionalInvocationLabels(i) : OptionalLabel(label)
    BY <1>1, <1>3, InvocationsHaveLabels
  <1>9. PICK d : d = OutcomeDescriptor(o, parts)
    OBVIOUS
  <1>10. /\ d.action = o.action /\ d.boundary = OutcomeBoundary /\ d.orchestration = o
         /\ d.resultEnvelope = o.action /\ d.actionEvent = o.action
         /\ d.parts = parts /\ d.metadata = OutcomeMetadata(o, parts)
    BY <1>6, <1>9 DEF OutcomeDescriptor
  <1>11. OutcomeMetadataOk(d)
    BY <1>7, <1>8, <1>10 DEF OutcomeMetadataOk
  <1>12. OutcomeActionOk(d)
    BY <1>1, <1>5, <1>10 DEF OutcomeActionOk
  <1> QED
    BY <1>9, <1>10, <1>11, <1>12 DEF OutcomeOk

\* What was accepted runs as what it was accepted for.
LEMMA AcceptedIsCoherent ==
  ASSUME NEW x, PlanShape(x) \/ OrchestrationShape(x), OrchestrationOk(x)
  PROVE  LET p == IF IsOrchestration(x) THEN x.plan ELSE x
             o == NormalizeOrchestration(x)
         IN  /\ Coherent(o) /\ OrchestrationShape(o) /\ OrchestrationOk(o) /\ NormalizeOrchestration(o) = o
             /\ Fits(RoutePlanIn(p)) => Planned(o) /\ Fits(RoutePlanIn(o.plan))
             /\ \A parts : PartsOk(parts) => OutcomeOk(OutcomeDescriptor(o, parts))
  <1>1. PICK p : p = IF IsOrchestration(x) THEN x.plan ELSE x
    OBVIOUS
  <1>2. PICK e : e = ExecutionPlanAgain(p.executionPlan)
    OBVIOUS
  <1>3. PICK o : o = Composed(e)
    OBVIOUS
  <1>4. /\ PlanShape(p) /\ AcceptedPlanOk(p) /\ SkeletonInvocationOk(e.invocation, e)
        /\ NormalizeOrchestration(x) = o
    BY <1>1, <1>2, <1>3, WhatIsAccepted
  <1>5. OrchestrationShape(o) /\ OrchestrationOk(o) /\ NormalizeOrchestration(o) = o
    BY <1>2, <1>3, <1>4, ComposedAgain
  <1>6. Coherent(o)
    BY <1>2, <1>3, <1>4, ComposedIsCoherent
  <1>7. Fits(RoutePlanIn(p)) => Planned(o) /\ Fits(RoutePlanIn(o.plan))
    <2>1. o.plan = PlanOf(e)
      BY <1>3 DEF Composed
    <2> QED
      BY <1>2, <1>3, <1>4, <2>1, FitsAgain
  <1>8. \A parts : PartsOk(parts) => OutcomeOk(OutcomeDescriptor(o, parts))
    BY <1>2, <1>3, <1>4, <1>5, OutcomesAreOk
  <1> QED
    BY <1>1, <1>4, <1>5, <1>6, <1>7, <1>8

--------------------------------------------------------------------------------
(* What a caller changes keeps its form.                                    *)

LEMMA ChangedKeeps ==
  ASSUME NEW x, NEW F, HasFields(x, F), NEW changes
  PROVE  \A y \in Changed(x, changes) : HasFields(y, F)
  BY FieldsStay DEF Changed

LEMMA RoutePlanChanges ==
  ASSUME NEW p, RoutePlanShape(p)
  PROVE  \A x \in ChangedRoutePlan(p) : RoutePlanShape(x)
  <1> DEFINE PF == {"busAction", "route", "version"}
             BF == {"action", "definition", "version"}
             b == p.busAction
  <1>1. HasFields(p, PF) /\ HasFields(b, BF) /\ HasFields(b.action, ActionFields)
    BY DEF RoutePlanShape
  <1>2. ASSUME NEW c, HasFields(c, BF), HasFields(c.action, ActionFields)
        PROVE  RoutePlanShape([p EXCEPT !.busAction = c])
    <2>1. PICK x : x = [p EXCEPT !.busAction = c]
      OBVIOUS
    <2>2. HasFields(x, PF) /\ x.busAction = c
      BY <1>1, <2>1, FieldsStay
    <2> QED
      BY <1>2, <2>1, <2>2 DEF RoutePlanShape
  <1>3. ASSUME NEW v, NEW f \in {"route", "version"}
        PROVE  RoutePlanShape([p EXCEPT ![f] = v])
    <2>1. PICK x : x = [p EXCEPT ![f] = v]
      OBVIOUS
    <2>2. HasFields(x, PF) /\ x.busAction = b
      <3>1. HasFields(x, PF) /\ \A g \in PF : x[g] = IF g = f THEN v ELSE p[g]
        BY <1>1, <2>1, FieldsStay, Zenon
      <3>2. f # "busAction"
        OBVIOUS
      <3> QED
        BY <3>1, <3>2
    <2>3. RoutePlanShape(x)
      BY <1>1, <2>2 DEF RoutePlanShape
    <2> QED
      BY <2>1, <2>3
  <1>4. ASSUME NEW a \in Changed(b.action, ActionChanges)
        PROVE  RoutePlanShape([p EXCEPT !.busAction.action = a])
    <2>1. PICK c : c = [b EXCEPT !.action = a]
      OBVIOUS
    <2>2. HasFields(a, ActionFields)
      BY <1>1, ChangedKeeps
    <2>3. HasFields(c, BF) /\ c.action = a
      BY <1>1, <2>1, FieldsStay
    <2> QED
      BY <1>2, <2>1, <2>2, <2>3
  <1>5. ASSUME NEW d
        PROVE  RoutePlanShape([p EXCEPT !.busAction.definition = d])
    <2>1. PICK c : c = [b EXCEPT !.definition = d]
      OBVIOUS
    <2>2. HasFields(c, BF) /\ c.action = b.action
      BY <1>1, <2>1, FieldsStay
    <2> QED
      BY <1>1, <1>2, <2>1, <2>2
  <1>6. \A x \in Changed(p, {<<"version", "other">>}) : RoutePlanShape(x)
    <2>1. \A x \in Changed(p, {<<"version", "other">>}) : x = [p EXCEPT !["version"] = "other"]
      BY DEF Changed
    <2> QED
      BY <1>3, <2>1
  <1>7. \A v : RoutePlanShape([p EXCEPT !.route = v])
    BY <1>3
  <1> QED
    BY <1>4, <1>5, <1>6, <1>7 DEF ChangedRoutePlan

LEMMA BackendPlanChanges ==
  ASSUME NEW b, BackendPlanShape(b)
  PROVE  \A x \in ChangedBackendPlan(b) : BackendPlanShape(x)
  <1> DEFINE BF == {"servicePlan", "adapter", "version"}
             SF == {"routePlan", "service", "version"}
             s == b.servicePlan
  <1>1. HasFields(b, BF) /\ HasFields(s, SF) /\ RoutePlanShape(s.routePlan)
    BY DEF BackendPlanShape
  <1>2. ASSUME NEW t, HasFields(t, SF), RoutePlanShape(t.routePlan)
        PROVE  BackendPlanShape([b EXCEPT !.servicePlan = t])
    <2>1. PICK x : x = [b EXCEPT !.servicePlan = t]
      OBVIOUS
    <2>2. HasFields(x, BF) /\ x.servicePlan = t
      BY <1>1, <2>1, FieldsStay
    <2> QED
      BY <1>2, <2>1, <2>2 DEF BackendPlanShape
  <1>3. ASSUME NEW p \in ChangedRoutePlan(s.routePlan)
        PROVE  BackendPlanShape([b EXCEPT !.servicePlan.routePlan = p])
    <2>1. PICK t : t = [s EXCEPT !.routePlan = p]
      OBVIOUS
    <2>2. RoutePlanShape(p)
      BY <1>1, RoutePlanChanges
    <2>3. HasFields(t, SF) /\ t.routePlan = p
      BY <1>1, <2>1, FieldsStay
    <2> QED
      BY <1>2, <2>1, <2>2, <2>3
  <1>4. ASSUME NEW v
        PROVE  BackendPlanShape([b EXCEPT !.servicePlan.service = v])
    <2>1. PICK t : t = [s EXCEPT !.service = v]
      OBVIOUS
    <2>2. HasFields(t, SF) /\ t.routePlan = s.routePlan
      BY <1>1, <2>1, FieldsStay
    <2> QED
      BY <1>1, <1>2, <2>1, <2>2
  <1>5. ASSUME NEW v
        PROVE  BackendPlanShape([b EXCEPT !.adapter = v])
    <2>1. PICK x : x = [b EXCEPT !.adapter = v]
      OBVIOUS
    <2>2. HasFields(x, BF) /\ x.servicePlan = s
      BY <1>1, <2>1, FieldsStay
    <2> QED
      BY <1>1, <2>1, <2>2 DEF BackendPlanShape
  <1> QED
    BY <1>3, <1>4, <1>5 DEF ChangedBackendPlan

LEMMA ExecutionPlanChanges ==
  ASSUME NEW e, ExecutionPlanShape(e)
  PROVE  \A x \in ChangedExecutionPlan(e) : ExecutionPlanShape(x)
  <1> DEFINE EF == {"backendPlan", "invocation", "version"}
  <1>1. CASE BackendPlanShape(e)
    <2>1. ~IsExecutionPlan(e)
      BY <1>1, FieldsStay DEF BackendPlanShape, IsExecutionPlan
    <2>2. ChangedExecutionPlan(e) = ChangedBackendPlan(e)
      BY <2>1 DEF ChangedExecutionPlan
    <2>3. \A x \in ChangedBackendPlan(e) : BackendPlanShape(x)
      BY <1>1, BackendPlanChanges
    <2> QED
      BY <2>2, <2>3 DEF ExecutionPlanShape
  <1>2. CASE HasFields(e, EF) /\ BackendPlanShape(e.backendPlan)
    <2>1. IsExecutionPlan(e)
      BY <1>2, FieldsStay DEF IsExecutionPlan
    <2>2. ASSUME NEW b \in ChangedBackendPlan(e.backendPlan)
          PROVE  ExecutionPlanShape([e EXCEPT !.backendPlan = b])
      <3>1. PICK x : x = [e EXCEPT !.backendPlan = b]
        OBVIOUS
      <3>2. HasFields(x, EF) /\ x.backendPlan = b
        BY <1>2, <3>1, FieldsStay
      <3>3. BackendPlanShape(b)
        BY <1>2, BackendPlanChanges
      <3> QED
        BY <3>1, <3>2, <3>3 DEF ExecutionPlanShape
    <2>3. ASSUME NEW i
          PROVE  ExecutionPlanShape([e EXCEPT !.invocation = i])
      <3>1. PICK x : x = [e EXCEPT !.invocation = i]
        OBVIOUS
      <3>2. HasFields(x, EF) /\ x.backendPlan = e.backendPlan
        BY <1>2, <3>1, FieldsStay
      <3> QED
        BY <1>2, <3>1, <3>2 DEF ExecutionPlanShape
    <2>4. ExecutionPlanShape(e.backendPlan)
      BY <1>2 DEF ExecutionPlanShape
    <2>5. \A x \in ChangedExecutionPlan(e) :
            \/ \E b \in ChangedBackendPlan(e.backendPlan) : x = [e EXCEPT !.backendPlan = b]
            \/ \E i : x = [e EXCEPT !.invocation = i]
            \/ x = e.backendPlan
      BY <2>1 DEF ChangedExecutionPlan
    <2> QED
      BY <2>2, <2>3, <2>4, <2>5
  <1> QED
    BY <1>1, <1>2 DEF ExecutionPlanShape

LEMMA PlanChanges ==
  ASSUME NEW p, PlanShape(p)
  PROVE  \A x \in ChangedPlan(p) : PlanShape(x)
  <1>1. PICK F : F = DOMAIN p
    OBVIOUS
  <1>2. /\ HasFields(p, F) /\ "executionPlan" \in F /\ "boundary" \notin F
        /\ ExecutionPlanShape(p.executionPlan)
    BY <1>1 DEF PlanShape
  <1>3. ASSUME NEW q, NEW G, HasFields(q, G), "executionPlan" \in G, "boundary" \notin G,
               NEW x \in ChangedExecutionPlan(p.executionPlan)
        PROVE  PlanShape([q EXCEPT !.executionPlan = x])
    <2>1. PICK r : r = [q EXCEPT !.executionPlan = x]
      OBVIOUS
    <2>2. HasFields(r, G) /\ r.executionPlan = x
      BY <1>3, <2>1, FieldsStay
    <2>3. DOMAIN r = G
      BY <2>2, FieldsStay
    <2>4. ExecutionPlanShape(x)
      BY <1>2, ExecutionPlanChanges
    <2> QED
      BY <1>3, <2>1, <2>2, <2>3, <2>4 DEF PlanShape
  <1>4. ASSUME NEW f, f # "executionPlan", NEW v
        PROVE  PlanShape([p EXCEPT ![f] = v])
    <2>1. PICK r : r = [p EXCEPT ![f] = v]
      OBVIOUS
    <2>2. HasFields(r, F) /\ r.executionPlan = p.executionPlan
      BY <1>2, <1>4, <2>1, FieldsStay
    <2>3. DOMAIN r = F
      BY <2>2, FieldsStay
    <2> QED
      BY <1>2, <2>1, <2>2, <2>3 DEF PlanShape
  <1>5. ASSUME NEW x \in ChangedExecutionPlan(p.executionPlan)
        PROVE  PlanShape([Without(p, Copies) EXCEPT !.executionPlan = x])
    <2>1. PICK q : q = Without(p, Copies)
      OBVIOUS
    <2>2. PICK G : G = F \ Copies
      OBVIOUS
    <2>3. HasFields(q, G) /\ "executionPlan" \in G /\ "boundary" \notin G
      BY <1>1, <1>2, <2>1, <2>2 DEF Without, HasFields, Copies
    <2> QED
      BY <1>3, <2>1, <2>3
  <1>6. \A x \in ChangedExecutionPlan(p.executionPlan) : PlanShape([p EXCEPT !.executionPlan = x])
    BY <1>2, <1>3
  <1>7. \A v : PlanShape([p EXCEPT !.action = v]) /\ PlanShape([p EXCEPT !.routePlan = v])
    BY <1>4
  <1>8. \A x \in Changed(p, {<<"version", "other">>}) : PlanShape(x)
    <2>1. \A x \in Changed(p, {<<"version", "other">>}) : x = [p EXCEPT !["version"] = "other"]
      BY DEF Changed
    <2> QED
      BY <1>4, <2>1
  <1> QED
    BY <1>5, <1>6, <1>7, <1>8 DEF ChangedPlan

LEMMA OrchestrationChanges ==
  ASSUME NEW o, OrchestrationShape(o)
  PROVE  \A x \in ChangedOrchestration(o) : OrchestrationShape(x)
  <1>1. HasFields(o, OrchestrationFields) /\ PlanShape(o.plan) /\ "plan" \in OrchestrationFields
    BY DEF OrchestrationShape, OrchestrationFields
  <1>2. ASSUME NEW f, f # "plan", NEW v
        PROVE  OrchestrationShape([o EXCEPT ![f] = v])
    <2>1. PICK r : r = [o EXCEPT ![f] = v]
      OBVIOUS
    <2>2. HasFields(r, OrchestrationFields) /\ r.plan = o.plan
      BY <1>1, <1>2, <2>1, FieldsStay
    <2> QED
      BY <1>1, <2>1, <2>2 DEF OrchestrationShape
  <1>3. ASSUME NEW p \in ChangedPlan(o.plan)
        PROVE  OrchestrationShape([o EXCEPT !.plan = p])
    <2>1. PICK r : r = [o EXCEPT !.plan = p]
      OBVIOUS
    <2>2. HasFields(r, OrchestrationFields) /\ r.plan = p
      BY <1>1, <2>1, FieldsStay
    <2>3. PlanShape(p)
      BY <1>1, PlanChanges
    <2> QED
      BY <2>1, <2>2, <2>3 DEF OrchestrationShape
  <1>4. \A v : /\ OrchestrationShape([o EXCEPT !.skeleton = v])
               /\ OrchestrationShape([o EXCEPT !.descriptor = v])
               /\ OrchestrationShape([o EXCEPT !.action = v])
    BY <1>2
  <1> QED
    BY <1>3, <1>4 DEF ChangedOrchestration

--------------------------------------------------------------------------------
(* The caller's steps.                                                      *)

LEMMA DraftsBegin == DraftOk(NoDraft)
  BY DEF DraftOk, NoDraft, HasFields, DraftFields

LEMMA DraftPrepared ==
  ASSUME NEW d, DraftOk(d), d.stage = "none", NEW a
  PROVE  DraftOk([d EXCEPT !.stage = "action", !.value = DefaultAction(a)])
  <1>1. PICK e : e = [d EXCEPT !.stage = "action", !.value = DefaultAction(a)]
    OBVIOUS
  <1>2. HasFields(e, DraftFields) /\ e.stage = "action" /\ e.value = DefaultAction(a)
    BY <1>1, FieldsStay DEF DraftOk, DraftFields, HasFields
  <1>3. HasFields(DefaultAction(a), ActionFields)
    BY DEF DefaultAction, HasFields, ActionFields
  <1> QED
    BY <1>1, <1>2, <1>3 DEF DraftOk

LEMMA InputChanged ==
  ASSUME NEW d, DraftOk(d), d.stage = "action", NEW c, NEW x, NEW r
  PROVE  /\ x \in Changed(d.value, ActionChanges) => DraftOk([d EXCEPT !.value = x, !.changes = c])
         /\ DraftOk([d EXCEPT !.registries = r, !.changes = c])
  <1>1. HasFields(d, DraftFields) /\ HasFields(d.value, ActionFields)
    BY DEF DraftOk
  <1>2. ASSUME x \in Changed(d.value, ActionChanges)
        PROVE  DraftOk([d EXCEPT !.value = x, !.changes = c])
    <2>1. PICK e : e = [d EXCEPT !.value = x, !.changes = c]
      OBVIOUS
    <2>2. HasFields(e, DraftFields) /\ e.stage = "action" /\ e.value = x
      BY <1>1, <2>1 DEF HasFields, DraftFields
    <2>3. HasFields(x, ActionFields)
      BY <1>1, <1>2, ChangedKeeps
    <2> QED
      BY <2>1, <2>2, <2>3 DEF DraftOk
  <1>3. DraftOk([d EXCEPT !.registries = r, !.changes = c])
    <2>1. PICK e : e = [d EXCEPT !.registries = r, !.changes = c]
      OBVIOUS
    <2>2. HasFields(e, DraftFields) /\ e.stage = "action" /\ e.value = d.value
      BY <1>1, <2>1 DEF HasFields, DraftFields
    <2> QED
      BY <1>1, <2>1, <2>2 DEF DraftOk
  <1> QED
    BY <1>2, <1>3

LEMMA PlanMade ==
  ASSUME NEW d, DraftOk(d), d.stage = "action", PlanOk(d.value, d.registries), NEW r
  PROVE  DraftOk([d EXCEPT !.stage = "plan", !.value = Plan(d.value, d.registries), !.registries = r])
  <1>1. HasFields(d, DraftFields) /\ HasFields(d.value, ActionFields)
    BY DEF DraftOk
  <1>2. PICK x : x = Plan(d.value, d.registries)
    OBVIOUS
  <1>3. PlanShape(x) /\ Fits(RoutePlanIn(x))
    BY <1>1, <1>2, PlansFit
  <1>4. PICK e : e = [d EXCEPT !.stage = "plan", !.value = x, !.registries = r]
    OBVIOUS
  <1>5. HasFields(e, DraftFields) /\ e.stage = "plan" /\ e.value = x
    BY <1>1, <1>4 DEF HasFields, DraftFields
  <1>6. DraftOk(e)
    BY <1>3, <1>5 DEF DraftOk
  <1> QED
    BY <1>2, <1>4, <1>6

LEMMA PlanOrchestrated ==
  ASSUME NEW d, DraftOk(d), d.stage \in {"plan", "orchestration"}, OrchestrationOk(d.value)
  PROVE  DraftOk([d EXCEPT !.stage = "orchestration", !.value = NormalizeOrchestration(d.value)])
  <1>1. PICK x : x = d.value
    OBVIOUS
  <1>2. PICK o : o = NormalizeOrchestration(x)
    OBVIOUS
  <1>3. PICK p : p = IF IsOrchestration(x) THEN x.plan ELSE x
    OBVIOUS
  <1>4. HasFields(d, DraftFields)
    BY DEF DraftOk
  <1>5. (PlanShape(x) \/ OrchestrationShape(x)) /\ (d.touched \/ Fits(RoutePlanIn(p)))
    <2>1. PlanShape(x) => ~IsOrchestration(x)
      BY DEF PlanShape, IsOrchestration
    <2>2. OrchestrationShape(x) => IsOrchestration(x)
      BY FieldsStay DEF OrchestrationShape, OrchestrationFields, IsOrchestration
    <2> QED
      BY <1>1, <1>3, <2>1, <2>2 DEF DraftOk
  <1>6. OrchestrationShape(o) /\ (Fits(RoutePlanIn(p)) => Fits(RoutePlanIn(o.plan)))
    BY <1>1, <1>2, <1>3, <1>5, AcceptedIsCoherent
  <1>7. PICK e : e = [d EXCEPT !.stage = "orchestration", !.value = o]
    OBVIOUS
  <1>8. HasFields(e, DraftFields) /\ e.stage = "orchestration" /\ e.value = o /\ e.touched = d.touched
    BY <1>4, <1>7 DEF HasFields, DraftFields
  <1>9. DraftOk(e)
    BY <1>5, <1>6, <1>8 DEF DraftOk
  <1> QED
    BY <1>1, <1>2, <1>7, <1>9

LEMMA PlanTouched ==
  ASSUME NEW d, DraftOk(d), NEW c, NEW x,
         \/ d.stage = "plan" /\ x \in ChangedPlan(d.value)
         \/ d.stage = "orchestration" /\ x \in ChangedOrchestration(d.value)
  PROVE  DraftOk([d EXCEPT !.value = x, !.changes = c, !.touched = TRUE])
  <1>1. HasFields(d, DraftFields)
    BY DEF DraftOk
  <1>2. PICK e : e = [d EXCEPT !.value = x, !.changes = c, !.touched = TRUE]
    OBVIOUS
  <1>3. HasFields(e, DraftFields) /\ e.stage = d.stage /\ e.value = x /\ e.touched = TRUE
    BY <1>1, <1>2 DEF HasFields, DraftFields
  <1>4. \/ e.stage = "plan" /\ PlanShape(x)
        \/ e.stage = "orchestration" /\ OrchestrationShape(x)
    BY <1>3, PlanChanges, OrchestrationChanges DEF DraftOk
  <1>5. DraftOk(e)
    BY <1>3, <1>4 DEF DraftOk
  <1> QED
    BY <1>2, <1>5

LEMMA DraftStep ==
  ASSUME DraftInv, PrepareDraft
  PROVE  DraftOk(draft')
  <1>1. DraftOk(draft)
    BY DEF DraftInv
  <1>2. ASSUME NEW a, PrepareAction(a) PROVE DraftOk(draft')
    BY <1>1, <1>2, DraftPrepared, Zenon DEF PrepareAction
  <1>3. ASSUME ChangeInput PROVE DraftOk(draft')
    <2>1. draft.stage = "action"
      BY <1>3, Zenon DEF ChangeInput
    <2>2. \/ \E x \in Changed(draft.value, ActionChanges) :
               draft' = [draft EXCEPT !.value = x, !.changes = draft.changes + 1]
          \/ \E x : draft' = [draft EXCEPT !.registries = x, !.changes = draft.changes + 1]
      BY <1>3, Zenon DEF ChangeInput
    <2>3. ASSUME NEW x \in Changed(draft.value, ActionChanges),
                 draft' = [draft EXCEPT !.value = x, !.changes = draft.changes + 1]
          PROVE  DraftOk(draft')
      BY <1>1, <2>1, <2>3, InputChanged, Zenon
    <2>4. ASSUME NEW r, draft' = [draft EXCEPT !.registries = r, !.changes = draft.changes + 1]
          PROVE  DraftOk(draft')
      <3>1. \A c, x : DraftOk([draft EXCEPT !.registries = r, !.changes = c])
        BY <1>1, <2>1, InputChanged, Zenon
      <3> QED
        BY <2>4, <3>1, Zenon
    <2> QED
      BY <2>2, <2>3, <2>4, Zenon
  <1>4. ASSUME MakePlan PROVE DraftOk(draft')
    BY <1>1, <1>4, PlanMade, Zenon DEF MakePlan
  <1>5. ASSUME Orchestrate PROVE DraftOk(draft')
    BY <1>1, <1>5, PlanOrchestrated, Zenon DEF Orchestrate
  <1>6. ASSUME ChangePlan PROVE DraftOk(draft')
    <2>1. PICK x \in ChangedPlan(draft.value) :
            draft' = [draft EXCEPT !.value = x, !.changes = draft.changes + 1, !.touched = TRUE]
      BY <1>6, Zenon DEF ChangePlan
    <2>2. draft.stage = "plan"
      BY <1>6 DEF ChangePlan
    <2> QED
      BY <1>1, <2>1, <2>2, PlanTouched, Zenon
  <1>7. ASSUME ChangeOrchestration PROVE DraftOk(draft')
    <2>1. PICK x \in ChangedOrchestration(draft.value) :
            draft' = [draft EXCEPT !.value = x, !.changes = draft.changes + 1, !.touched = TRUE]
      BY <1>7, Zenon DEF ChangeOrchestration
    <2>2. draft.stage = "orchestration"
      BY <1>7 DEF ChangeOrchestration
    <2> QED
      BY <1>1, <2>1, <2>2, PlanTouched, Zenon
  <1> QED
    BY <1>2, <1>3, <1>4, <1>5, <1>6, <1>7 DEF PrepareDraft

\* Only its caller works on a draft; a call of executeAction() uses it up.
LEMMA DraftGoesOn ==
  ASSUME BusNext
  PROVE  PrepareDraft \/ draft' \in {NoDraft, draft}
  <1>1. Prepare => PrepareDraft
    BY DEF Prepare
  <1>2. Calls => draft' \in {NoDraft, draft}
    BY DEF Calls, Execute, CancelAction, ExecuteDraft
  <1>3. Delivery \/ LogSettles => draft' = draft
    BY DEF Delivery, LogSettles
  <1>4. ASSUME NEW r \in Runs, Progress(r) PROVE draft' = draft
    BY <1>4 DEF Progress, RequestQueued, RequestRefused, Bind, RequestEnds, PublishOutcome, Release
  <1>5. ASSUME NEW r \in Runs, StreamDelta(r) PROVE draft' = draft
    BY <1>5, Zenon DEF StreamDelta
  <1> QED
    BY <1>1, <1>2, <1>3, <1>4, <1>5 DEF BusNext

LEMMA DraftStays ==
  ASSUME DraftInv, [BusNext]_busVars
  PROVE  DraftInv'
  <1>1. DraftOk(draft')
    <2>1. CASE BusNext
      BY <2>1, DraftGoesOn, DraftStep, DraftsBegin DEF DraftInv
    <2>2. CASE UNCHANGED busVars
      BY <2>2 DEF DraftInv, busVars
    <2> QED
      BY <2>1, <2>2
  <1> QED
    BY <1>1 DEF DraftInv, DraftOk

\* Whatever stage a draft is at when it is handed in.
LEMMA DraftsAreCoherent ==
  ASSUME DraftInv
  PROVE  OnlyCoherentActionsRun
  <1> SUFFICES ASSUME Accepts(draft) PROVE OnlyCoherentActionsRun
    BY DEF OnlyCoherentActionsRun
  <1>1. PICK x : x = IF draft.stage = "action" THEN Plan(draft.value, DefaultRegistries) ELSE draft.value
    OBVIOUS
  <1>2. PICK p : p = IF IsOrchestration(x) THEN x.plan ELSE x
    OBVIOUS
  <1>3. PICK o : o = NormalizeOrchestration(x)
    OBVIOUS
  <1>4. Accepted(draft) = o /\ OrchestrationOk(x)
    BY <1>1, <1>3 DEF Accepts, Accepted
  <1>5. (PlanShape(x) \/ OrchestrationShape(x)) /\ (draft.touched \/ Fits(RoutePlanIn(p)))
    <2>1. PlanShape(x) => ~IsOrchestration(x)
      BY DEF PlanShape, IsOrchestration
    <2>2. OrchestrationShape(x) => IsOrchestration(x)
      BY FieldsStay DEF OrchestrationShape, OrchestrationFields, IsOrchestration
    <2>3. CASE draft.stage = "action"
      <3>1. PlanShape(x) /\ Fits(RoutePlanIn(x))
        BY <1>1, <2>3, PlansFit DEF Accepts, DraftInv, DraftOk
      <3> QED
        BY <1>2, <2>1, <3>1
    <2>4. CASE draft.stage # "action"
      <3>1. x = draft.value /\ draft.stage \in {"plan", "orchestration"}
        BY <1>1, <2>4 DEF Accepts, DraftInv, DraftOk
      <3> QED
        BY <1>2, <2>1, <2>2, <3>1 DEF DraftInv, DraftOk
    <2> QED
      BY <2>3, <2>4
  <1>6. /\ Coherent(o) /\ OrchestrationOk(o) /\ NormalizeOrchestration(o) = o
        /\ draft.touched \/ Planned(o)
        /\ \A parts : PartsOk(parts) => OutcomeOk(OutcomeDescriptor(o, parts))
    BY <1>2, <1>3, <1>4, <1>5, AcceptedIsCoherent
  <1>7. \A parts \in {AcceptedOutcome, StartedOutcome, CompletedOutcome, FailedOutcome(NoError),
                      CancelledOutcome(PromptCanceled.error), TimeoutOutcome(NoError), PolicyDeniedOutcome(NoError)} :
          PartsOk(parts)
    <2>1. /\ NoError.code = Absent /\ NoError.kind = Absent
          /\ PromptCanceled.error.code = Absent /\ PromptCanceled.error.kind = Absent
      BY Zenon DEF NoError, PromptCanceled, Fails, Says
    <2> QED
      BY <2>1, StatesAreOk, CompletedIsOk, ErrorsAreOk
  <1> QED
    BY <1>4, <1>6, <1>7 DEF OnlyCoherentActionsRun

\* What executeAction() takes is coherent and is taken again, and its outcomes are
\* valid (OnlyCoherentActionsRun), whatever labels and capabilities there are and
\* however often callers change their actions, registries, plans and descriptors.
THEOREM CoherentActionsRun == BusSpec => []OnlyCoherentActionsRun
  <1>1. BusInit => DraftInv
    BY DraftsBegin DEF BusInit, DraftInit, DraftInv
  <1>2. DraftInv /\ [BusNext]_busVars => DraftInv'
    BY DraftStays
  <1>3. DraftInv => OnlyCoherentActionsRun
    BY DraftsAreCoherent
  <1> QED
    BY <1>1, <1>2, <1>3, PTL DEF BusSpec
================================================================================
