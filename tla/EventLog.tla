-------------------------------- MODULE EventLog --------------------------------
(***************************************************************************)
(* The handing on of recorded events to a durable log (actionEventLog/):   *)
(* which options make an integration, which events become entries, what an *)
(* adapter may answer, at once or later, and who hears of a failure. The   *)
(* adapter is a part that is plugged in; the runtime itself is wired       *)
(* without one.                                                            *)
(*                                                                         *)
(* A flag of an option is "yes", "no", "absent" or, of another type, "bad".*)
(***************************************************************************)
EXTENDS Naturals, SequencesExt

CONSTANT LogOptions  \* options the integration may be created with

VARIABLES
  integration, \* what createActionEventLogIntegration() returned
  appends,     \* one record for every entry handed to the adapter, in order
  logErrors    \* calls of onAppendError

logVars == <<integration, appends, logErrors>>

LogDurableTypes == {"accepted", "started", "completed", "failed", "cancelled", "timeout", "policyDenied"}
HighVolumeTypes == {"stream.delta"}
Durabilities == {"default", "audit", "ephemeral"}
NoAdapter == [adapterId |-> "none"]

\* validateActionEventLogStoreAdapter(): append and read are a must.
AdapterOk(a) ==
  /\ a.contractVersion = "runtime.actionEventLogStore.v1"
  /\ a.adapterId # ""
  /\ a.append = "yes" /\ a.read = "yes"
  /\ a.cursorRead # "bad" /\ a.highVolumeEvents # "bad"
  /\ a.functions = {"appendEvent", "readEvents"}

\* What is left of the options, each by its default when it is absent.
Flag(value, default) == IF value = "absent" THEN default ELSE value = "yes"

IntegrationOk(o) ==
  /\ o.adapter # NoAdapter => AdapterOk(o.adapter)
  /\ o.enabled # "bad" /\ o.includeHighVolumeEvents # "bad"
  /\ o.durability \in Durabilities \union {"absent"}
  /\ o.includeHighVolumeEvents = "yes" /\ o.adapter # NoAdapter
       => o.adapter.highVolumeEvents = "yes"

Integration(o) ==
  [plugged |-> o.adapter # NoAdapter,
   enabled |-> Flag(o.enabled, TRUE),
   highVolume |-> Flag(o.includeHighVolumeEvents, FALSE),
   durability |-> IF o.durability = "absent" THEN "default" ELSE o.durability]

LogInit ==
  /\ integration \in {Integration(o) : o \in {x \in LogOptions : IntegrationOk(x)}}
  /\ appends = <<>>
  /\ logErrors = 0

\* shouldSkipEventType(): deltas when asked for, and the durable types.
Eligible(type) ==
  \/ type \in HighVolumeTypes /\ integration.highVolume
  \/ type \in LogDurableTypes

\* validateActionEventLogAppendEntry(): the same test again on the entry made
\* of the event, and the fields the integration adds.
EntryOk(entry, includeHighVolume) ==
  /\ entry.event.id # <<>> /\ entry.event.sequence > 0
  /\ entry.event.type \in LogDurableTypes \/ (entry.event.type \in HighVolumeTypes /\ includeHighVolume)
  /\ entry.durability \in Durabilities

\* validateActionEventLogAppendResult(): accepted, with the id of an event and
\* numbers that are numbers. Whose id it is, nobody looks.
Results ==
  [accepted: BOOLEAN, eventId: {"own", "other", ""}, sequence: {"absent", "number", "bad"}]

ResultOk(r) == r.accepted /\ r.eventId # "" /\ r.sequence # "bad"

\* The adapter answers at once, with a promise, or by throwing.
Answers == {"failed", "promise"} \union {IF ResultOk(r) THEN "accepted" ELSE "failed" : r \in Results}

Failures(answer) == IF answer = "failed" THEN 1 ELSE 0

AppendEvent(event) ==
  IF integration.enabled /\ integration.plugged /\ Eligible(event.type)
    THEN LET entry == [event |-> event, durability |-> integration.durability]
         IN  IF EntryOk(entry, integration.highVolume)
               THEN \E answer \in Answers :
                      /\ appends' = Append(appends, [sequence |-> event.sequence, answer |-> answer,
                                                     late |-> answer = "promise"])
                      /\ logErrors' = logErrors + Failures(answer)
                      /\ UNCHANGED integration
               ELSE /\ logErrors' = logErrors + 1
                    /\ UNCHANGED <<integration, appends>>
    ELSE UNCHANGED logVars

\* A promise settles, in whichever order the adapter settles them.
SettleAppend ==
  /\ \E i \in DOMAIN appends, answer \in Answers \ {"promise"} :
       /\ appends[i].answer = "promise"
       /\ appends' = [appends EXCEPT ![i].answer = answer]
       /\ logErrors' = logErrors + Failures(answer)
  /\ UNCHANGED integration
================================================================================
