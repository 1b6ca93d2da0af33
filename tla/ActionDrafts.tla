------------------------------ MODULE ActionDrafts ------------------------------
(***************************************************************************)
(* What a caller may hand to executeAction(): an action, an accepted plan  *)
(* it had made, or an orchestration descriptor; and what may have happened *)
(* to them in its hands, for they are plain objects that nobody froze.     *)
(***************************************************************************)
EXTENDS Outcomes

CONSTANTS
  DraftIds,    \* ids that callers give their actions
  MaxChanges   \* bound: changes made to one draft

VARIABLE draft

NoDraft == [stage |-> "none", value |-> Absent, registries |-> DefaultRegistries, changes |-> 0, touched |-> FALSE]

DraftInit == draft = NoDraft

\* A change is a field and the value it is given.
Changed(x, changes) == {[x EXCEPT ![c[1]] = c[2]] : c \in changes}

ActionChanges ==
  {<<"runId", "run">>, <<"prompt", FALSE>>, <<"stream", FALSE>>, <<"timeoutMs", TRUE>>,
   <<"contextRefs", TRUE>>, <<"capability", "other.capability">>, <<"broken", {"policy"}>>}
  \union ({"actionId"} \X (DraftIds \union DOMAIN Padded \union PathLike))

DefinitionChanges ==
  {<<"capability", "other.capability">>, <<"status", "deprecated">>, <<"backendKinds", {"other"}>>,
   <<"contextRefs", FALSE>>, <<"broken", {"contracts"}>>}

RouteChanges ==
  {<<"capability", "other.capability">>, <<"status", "disabled">>, <<"serviceId", "other">>,
   <<"backendKind", "other">>, <<"backendId", Absent>>, <<"modelBundleId", Absent>>,
   <<"hardwareProfileId", Absent>>, <<"timeout", "required">>}
  \union ({"routeId"} \X PathLike) \union ({"streaming"} \X {"unsupported", "required"})

ServiceChanges ==
  {<<"serviceId", "other">>, <<"status", "disabled">>, <<"backendKinds", {"nativeWorkerBackend", "other"}>>,
   <<"contextRefs", "unsupported">>, <<"streamingDeltas", "unsupported">>, <<"timeout", "unsupported">>,
   <<"modelBundleRequired", FALSE>>, <<"hardwareProfileRequired", FALSE>>}

AdapterChanges ==
  {<<"adapterId", "other">>, <<"status", "disabled">>, <<"compatibleKind", "other">>, <<"services", {"other"}>>,
   <<"capabilities", {}>>, <<"streaming", "unsupported">>, <<"timeout", "unsupported">>,
   <<"errorNormalization", "unsupported">>, <<"modelBundleRequired", FALSE>>, <<"hardwareProfileRequired", FALSE>>}

InvocationChanges ==
  {<<"runId", "run">>, <<"capability", "other.capability">>, <<"serviceId", "other">>, <<"backendKind", "other">>,
   <<"modelBundleId", Absent>>, <<"stream", FALSE>>, <<"timeoutMs", TRUE>>}
  \union ({"actionId"} \X (DraftIds \union DOMAIN Padded \union PathLike))

IdentityChanges == {<<"runId", "run">>} \union ({"actionId"} \X (DraftIds \union DOMAIN Padded))

--------------------------------------------------------------------------------
(* What becomes of registries, plans and descriptors. *)

ChangedRegistry(registry, changes) ==
  {[registry EXCEPT !.entries[1] = entry] : entry \in Changed(registry.entries[1], changes)}
  \union {[registry EXCEPT !.entries = Append(@, entry)] : entry \in Changed(registry.entries[1], changes)}
  \union {[registry EXCEPT !.broken = {"keys"}]}

ChangedRegistries(r) ==
  {[r EXCEPT !.capability = x] : x \in ChangedRegistry(r.capability, DefinitionChanges)}
  \union {[r EXCEPT !.router = x] : x \in ChangedRegistry(r.router, RouteChanges)}
  \union {[r EXCEPT !.service = x] : x \in ChangedRegistry(r.service, ServiceChanges)}
  \union {[r EXCEPT !.adapter = x] : x \in ChangedRegistry(r.adapter, AdapterChanges)}

ChangedRoutePlan(p) ==
  {[p EXCEPT !.busAction.action = x] : x \in Changed(p.busAction.action, ActionChanges)}
  \union {[p EXCEPT !.busAction.definition = x] : x \in Changed(p.busAction.definition, DefinitionChanges)}
  \union {[p EXCEPT !.route = x] : x \in Changed(p.route, RouteChanges)}
  \union Changed(p, {<<"version", "other">>})

ChangedBackendPlan(b) ==
  {[b EXCEPT !.servicePlan.routePlan = x] : x \in ChangedRoutePlan(b.servicePlan.routePlan)}
  \union {[b EXCEPT !.servicePlan.service = x] : x \in Changed(b.servicePlan.service, ServiceChanges)}
  \union {[b EXCEPT !.adapter = x] : x \in Changed(b.adapter, AdapterChanges)}

\* An execution plan may also be replaced by the backend plan it was made from.
ChangedExecutionPlan(e) ==
  IF IsExecutionPlan(e)
    THEN {[e EXCEPT !.backendPlan = x] : x \in ChangedBackendPlan(e.backendPlan)}
         \union {[e EXCEPT !.invocation = x] : x \in Changed(e.invocation, InvocationChanges)}
         \union {e.backendPlan}
    ELSE ChangedBackendPlan(e)

Without(x, fields) == [f \in DOMAIN x \ fields |-> x[f]]

ChangedPlan(p) ==
  {[Without(p, Copies) EXCEPT !.executionPlan = x] : x \in ChangedExecutionPlan(p.executionPlan)}
  \union {[p EXCEPT !.executionPlan = x] : x \in ChangedExecutionPlan(p.executionPlan)}
  \union {[p EXCEPT !.action = x] : x \in Changed(p.action, IdentityChanges)}
  \union {[p EXCEPT !.routePlan = x] : x \in UNION {ChangedRoutePlan(p[f]) : f \in {"routePlan"} \cap DOMAIN p}}
  \union Changed(p, {<<"version", "other">>})

ChangedInvocation(x) ==
  IF "invocation" \in DOMAIN x
    THEN {[x EXCEPT !.invocation = i] : i \in Changed(x.invocation, InvocationChanges)}
    ELSE {}

ChangedOrchestration(o) ==
  {[o EXCEPT !.plan = x] : x \in ChangedPlan(o.plan)}
  \union {[o EXCEPT !.skeleton = x] : x \in {o.plan.executionPlan}}
  \union {[o EXCEPT !.skeleton = x] : x \in ChangedInvocation(o.skeleton)}
  \union {[o EXCEPT !.descriptor = x] : x \in {o.skeleton, o.plan.executionPlan}}
  \union {[o EXCEPT !.descriptor = x] : x \in ChangedInvocation(o.descriptor)}
  \union {[o EXCEPT !.action = x] : x \in Changed(o.action, IdentityChanges)}

--------------------------------------------------------------------------------
(* The caller's steps. *)

PrepareAction(a) ==
  /\ draft.stage = "none"
  /\ draft' = [draft EXCEPT !.stage = "action", !.value = DefaultAction(a)]

\* The caller changes its action, or plans with registries of its own.
ChangeInput ==
  /\ draft.stage = "action"
  /\ draft.changes < MaxChanges
  /\ \/ \E x \in Changed(draft.value, ActionChanges) :
          draft' = [draft EXCEPT !.value = x, !.changes = @ + 1]
     \/ \E x \in ChangedRegistries(draft.registries) :
          draft' = [draft EXCEPT !.registries = x, !.changes = @ + 1]

\* A step that the chain refuses throws, and leaves the caller with what it had.
MakePlan ==
  /\ draft.stage = "action"
  /\ draft' = IF PlanOk(draft.value, draft.registries)
                THEN [draft EXCEPT !.stage = "plan", !.value = Plan(draft.value, draft.registries),
                                   !.registries = DefaultRegistries]
                ELSE draft

Orchestrate ==
  /\ draft.stage \in {"plan", "orchestration"}
  /\ draft' = IF OrchestrationOk(draft.value)
                THEN [draft EXCEPT !.stage = "orchestration", !.value = NormalizeOrchestration(draft.value)]
                ELSE draft

ChangePlan ==
  /\ draft.stage = "plan"
  /\ draft.changes < MaxChanges
  /\ \E x \in ChangedPlan(draft.value) :
       draft' = [draft EXCEPT !.value = x, !.changes = @ + 1, !.touched = TRUE]

ChangeOrchestration ==
  /\ draft.stage = "orchestration"
  /\ draft.changes < MaxChanges
  /\ \E x \in ChangedOrchestration(draft.value) :
       draft' = [draft EXCEPT !.value = x, !.changes = @ + 1, !.touched = TRUE]

PrepareDraft ==
  \/ \E a \in DraftIds : PrepareAction(a)
  \/ ChangeInput
  \/ MakePlan
  \/ ChangePlan
  \/ Orchestrate
  \/ ChangeOrchestration

--------------------------------------------------------------------------------
(* What executeAction() makes of it. *)

\* runExecuteActionDispatch(): an action is planned with the default registries.
Accepts(d) ==
  IF d.stage = "action"
    THEN PlanOk(d.value, DefaultRegistries) /\ OrchestrationOk(Plan(d.value, DefaultRegistries))
    ELSE d.stage # "none" /\ OrchestrationOk(d.value)

Accepted(d) ==
  NormalizeOrchestration(IF d.stage = "action" THEN Plan(d.value, DefaultRegistries) ELSE d.value)

\* Whatever a caller does to plans and descriptors, what executeAction() takes
\* is coherent: identity, route, service, adapter and all three copies of the
\* invocation agree and support what the action asks for, and a plan that was
\* not touched also fits the definition of its capability. It stays accepted,
\* unchanged, when it is validated again after the id has been reserved, and
\* every outcome that can be made for it is valid: else the id would be lost.
OnlyCoherentActionsRun ==
  Accepts(draft) =>
    LET o == Accepted(draft)
    IN  /\ Coherent(o)
        /\ draft.touched \/ Planned(o)
        /\ OrchestrationOk(o) /\ NormalizeOrchestration(o) = o
        /\ \A parts \in {AcceptedOutcome, StartedOutcome, CompletedOutcome, FailedOutcome(NoError),
                         CancelledOutcome(PromptCanceled.error), TimeoutOutcome(NoError), PolicyDeniedOutcome(NoError)} :
             OutcomeOk(OutcomeDescriptor(o, parts))
================================================================================
