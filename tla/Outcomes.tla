-------------------------------- MODULE Outcomes --------------------------------
(***************************************************************************)
(* The outcomes of an action: how the end of its request becomes a result  *)
(* envelope and an action event, and what makes the two valid together     *)
(* (capabilityBusExecuteActionOutcome.mjs, resultEnvelope.mjs,             *)
(* actionEvent.mjs). Texts are told apart by what the classification of an *)
(* error looks for in them; an absent field is Absent.                     *)
(***************************************************************************)
EXTENDS ContractChain

\* Texts, codes and kinds in which the classification finds its words.
CancelTexts == {"Prompt canceled", "cancellation", "capability_bus_execute_action_cancelled"}
TimeoutTexts == {"native timeout", "timeout", "capability_bus_execute_action_timeout"}

SnakeCase ==
  {"capability_bus_execute_action_failed", "capability_bus_execute_action_cancelled",
   "capability_bus_execute_action_timeout", "capability_bus_execute_action_policy_denied"}

ErrorKinds == {"validation", "policy", "runtime", "backend", "timeout", "cancellation", "unknown"}

NoError == [message |-> Absent, code |-> Absent, kind |-> Absent]

\* How a request ends: with its text, or with an error.
Text == [how |-> "text", error |-> NoError]
Fails(error) == [how |-> "error", error |-> error]
Says(message) == [message |-> message, code |-> Absent, kind |-> Absent]

PromptCanceled == Fails(Says("Prompt canceled"))

--------------------------------------------------------------------------------
(* The mapping of `done`. *)

Texts(error) == {error.message, error.code, error.kind}
IsCancellationError(error) == Texts(error) \cap CancelTexts # {}
IsTimeoutError(error) == Texts(error) \cap TimeoutTexts # {}

Or(field, default) == IF Present(field) THEN field ELSE default

NormalizeError(error, code, kind) ==
  [message |-> Or(error.message, "Capability Bus execute-action failed"),
   code |-> Or(error.code, code), kind |-> Or(error.kind, kind)]

EventTypeByResultStatus ==
  [accepted |-> "accepted", running |-> "started", completed |-> "completed", failed |-> "failed",
   cancelled |-> "cancelled", timeout |-> "timeout", policy_denied |-> "policyDenied"]

\* A result and an event made of the same fields.
Parts(status, error, cancellationReason, policyReason) ==
  [result |-> [status |-> status, result |-> status = "completed", partial |-> FALSE, error |-> error,
               cancellationReason |-> cancellationReason, policyReason |-> policyReason],
   event |-> [type |-> EventTypeByResultStatus[status], error |-> error,
              cancellationReason |-> cancellationReason, policyReason |-> policyReason]]

AcceptedOutcome == Parts("accepted", NoError, Absent, Absent)
StartedOutcome == Parts("running", NoError, Absent, Absent)
CompletedOutcome == Parts("completed", NoError, Absent, Absent)

FailedOutcome(error) ==
  Parts("failed", NormalizeError(error, "capability_bus_execute_action_failed", "runtime"), Absent, Absent)

CancelledOutcome(error) ==
  LET e == NormalizeError(error, "capability_bus_execute_action_cancelled", "cancellation")
  IN  Parts("cancelled", e, e.message, Absent)

TimeoutOutcome(error) ==
  LET e == NormalizeError(error, "capability_bus_execute_action_timeout", "timeout")
  IN  Parts("timeout", e, e.message, Absent)

PolicyDeniedOutcome(error) ==
  LET e == NormalizeError(error, "capability_bus_execute_action_policy_denied", "policy")
  IN  Parts("policy_denied", e, Absent, e.message)

MapDoneToOutcomeUncancelled(end) ==
  CASE end.how = "text" -> CompletedOutcome
    [] end.how = "error" /\ IsTimeoutError(end.error) -> TimeoutOutcome(end.error)
    [] OTHER -> FailedOutcome(end.error)

MapDoneToOutcome(end) ==
  CASE end.how = "text" -> CompletedOutcome
    [] end.how = "error" /\ IsCancellationError(end.error) -> CancelledOutcome(end.error)
    [] end.how = "error" /\ ~IsCancellationError(end.error) /\ IsTimeoutError(end.error) -> TimeoutOutcome(end.error)
    [] OTHER -> FailedOutcome(end.error)

--------------------------------------------------------------------------------
(* What makes a result and an event valid. *)

ResultErrorOk(error) ==
  error # NoError =>
    Present(error.message) /\ error.code \in SnakeCase /\ error.kind \in ErrorKinds

StatusSemanticsOk(r) ==
  CASE r.status = "completed" -> r.result \/ r.partial
    [] r.status = "failed" -> r.error # NoError
    [] r.status \in {"timeout", "cancelled"} -> r.error # NoError \/ r.cancellationReason # Absent
    [] r.status = "policy_denied" -> r.error # NoError \/ r.policyReason # Absent
    [] OTHER -> TRUE

ResultEnvelopeOk(r) ==
  /\ r.status \in DOMAIN EventTypeByResultStatus \union {"queued"}
  /\ ResultErrorOk(r.error)
  /\ StatusSemanticsOk(r)

EventDataOk(e) ==
  CASE e.type = "failed" -> e.error # NoError
    [] e.type \in {"timeout", "cancelled"} -> e.error # NoError \/ e.cancellationReason # Absent
    [] e.type = "policyDenied" -> e.error # NoError \/ e.policyReason # Absent
    [] OTHER -> TRUE

ActionEventOk(e) == ResultErrorOk(e.error) /\ EventDataOk(e)

\* An outcome with both; validateOutcomePair() knows no queued one.
OutcomePairOk(parts) ==
  /\ parts.result.status # "queued"
  /\ parts.event.type = EventTypeByResultStatus[parts.result.status]

PartsOk(parts) ==
  /\ ResultEnvelopeOk(parts.result) /\ ActionEventOk(parts.event)
  /\ OutcomePairOk(parts)

OutcomeMetadata(o, parts) ==
  LET i == o.descriptor.invocation
  IN  [invocation |-> [i EXCEPT !.actionId = o.action.actionId, !.runId = o.action.runId,
                                !.capability = o.action.capability],
       resultStatus |-> parts.result.status, eventType |-> parts.event.type]

OutcomeBoundary ==
  [outcome |-> "result-event-contract-only", executable |-> FALSE, runtimeSettlement |-> "not-wired"]

OutcomeDescriptor(o, parts) ==
  [action |-> o.action, boundary |-> OutcomeBoundary, orchestration |-> o, resultEnvelope |-> Identity(o.action),
   actionEvent |-> Identity(o.action), parts |-> parts, metadata |-> OutcomeMetadata(o, parts)]

OutcomeActionOk(d) ==
  /\ IdentityOk(d.action)
  /\ d.action = d.orchestration.action /\ d.action = d.resultEnvelope /\ d.action = d.actionEvent

OutcomeMetadataOk(d) ==
  LET i == d.metadata.invocation
  IN  /\ \A label \in InvocationLabels(i) : Label(label)
      /\ \A label \in OptionalInvocationLabels(i) : OptionalLabel(label)
      /\ d.metadata = OutcomeMetadata(NormalizeOrchestration(d.orchestration), d.parts)

\* validateNormalizedCapabilityBusExecuteActionOutcomeDescriptor()
OutcomeOk(d) ==
  /\ OrchestrationOk(d.orchestration)
  /\ PartsOk(d.parts)
  /\ OutcomeActionOk(d)
  /\ d.boundary = OutcomeBoundary
  /\ OutcomeMetadataOk(d)

\* The type of the event that the end of a request is announced with, or none:
\* an outcome that is not valid is thrown away, and `done` rejects.
OutcomeEventType(end) ==
  IF PartsOk(MapDoneToOutcome(end)) THEN MapDoneToOutcome(end).event.type ELSE Absent
================================================================================
