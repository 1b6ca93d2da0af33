------------------------------ MODULE ContractChain ------------------------------
(***************************************************************************)
(* The contract chain in front of executeAction(): an action becomes a bus *)
(* action, a route plan, a service plan, a backend plan and an execution   *)
(* plan, together an accepted plan; the plan becomes an orchestration      *)
(* descriptor with a skeleton and the invocation of the backend. Every     *)
(* stage validates again what it is given, because plans and descriptors   *)
(* are plain objects that pass through the hands of the caller.            *)
(*                                                                         *)
(* A stage is a pure function: XOk says whether its validator accepts, X   *)
(* what it then returns.                                                   *)
(***************************************************************************)
EXTENDS Contracts

--------------------------------------------------------------------------------
(* From an action to a backend plan. *)

\* validateCapabilityBusAction(): nobody after it asks for `deprecated`.
DefinitionsOf(capability, registry) ==
  {d \in Entries(registry) : d.capability = capability}

BusActionOk(action, registry) ==
  /\ ActionEnvelopeOk(action)
  /\ CapabilityRegistryOk(registry)
  /\ \E d \in DefinitionsOf(action.capability, registry) : d.status # "deprecated"

BusAction(action, registry) ==
  [action |-> NormalizeActionEnvelope(action),
   definition |-> CHOOSE d \in DefinitionsOf(action.capability, registry) : TRUE,
   version |-> "bus.v1"]

\* A bus action that comes back: validated by the route, service and every later plan.
BusActionAgainOk(b) ==
  /\ b.version = "bus.v1"
  /\ ActionEnvelopeOk(b.action) /\ CapabilityDefinitionOk(b.definition)
  /\ b.action.capability = b.definition.capability

BusActionAgain(b) == [b EXCEPT !.action = NormalizeActionEnvelope(@)]

SelectableRoutes(b, registry) ==
  {r \in Entries(registry) : r.capability = b.action.capability /\ SelectableRoute(r.status)}

RouteCompatible(b, route) ==
  /\ route.backendKind \in b.definition.backendKinds
  /\ b.definition.modelBundleRequired => Present(route.modelBundleId)
  /\ ~(b.action.stream /\ route.streaming = "unsupported")
  /\ b.action.contextRefs => b.definition.contextRefs

RoutePlanOk(b, registry) ==
  /\ BusActionAgainOk(b)
  /\ RouterRegistryOk(registry)
  /\ \E r \in SelectableRoutes(b, registry) : RouteCompatible(b, r)

RoutePlan(b, registry) ==
  [busAction |-> BusActionAgain(b), route |-> CHOOSE r \in SelectableRoutes(b, registry) : TRUE,
   version |-> "router.v1"]

\* The service and backend plans look at the route of a route plan again, but
\* neither at its status nor at what RouteCompatible() asks for.
RoutePlanAgainOk(p) ==
  /\ p.version = "router.v1"
  /\ BusActionAgainOk(p.busAction) /\ RouteDefinitionOk(p.route)
  /\ p.route.capability = p.busAction.action.capability

RoutePlanAgain(p) == [p EXCEPT !.busAction = BusActionAgain(@)]

ServesLevel(asked, offered) == asked = "required" => offered \in {"supported", "required"}

ServesLevels(route, offered) ==
  /\ ServesLevel(route.streaming, offered.streaming)
  /\ ServesLevel(route.cancellation, offered.cancellation)
  /\ ServesLevel(route.timeout, offered.timeout)

ServiceCompatible(p, service) ==
  LET action == p.busAction.action
      route == p.route
  IN  /\ service.capability = route.capability
      /\ service.serviceId = route.serviceId
      /\ route.backendKind \in service.backendKinds
      /\ service.modelBundleRequired => Present(route.modelBundleId)
      /\ service.hardwareProfileRequired => Present(route.hardwareProfileId)
      /\ action.stream => "unsupported" \notin {service.streaming, service.streamingDeltas}
      /\ ServesLevels(route, service)
      /\ action.timeoutMs => service.timeout # "unsupported"
      /\ action.contextRefs => service.contextRefs # "unsupported"
      /\ ~p.busAction.definition.contextRefs => service.contextRefs # "required"

ServicesOf(p, registry) == {s \in Entries(registry) : s.serviceId = p.route.serviceId}

ServicePlanOk(p, registry) ==
  /\ RoutePlanAgainOk(p)
  /\ ServiceRegistryOk(registry)
  /\ \E s \in ServicesOf(p, registry) : SelectableService(s.status) /\ ServiceCompatible(p, s)

ServicePlan(p, registry) ==
  [routePlan |-> RoutePlanAgain(p), service |-> CHOOSE s \in ServicesOf(p, registry) : TRUE,
   version |-> "service.v1"]

\* A service plan that comes back is planned again, with its own service for a registry.
ServicePlanAgainOk(p) ==
  /\ p.version = "service.v1"
  /\ ServiceDefinitionOk(p.service)
  /\ ServicePlanOk(p.routePlan, Registry(p.service))

ServicePlanAgain(p) == ServicePlan(p.routePlan, Registry(p.service))

AdapterCompatible(p, adapter) ==
  LET action == p.routePlan.busAction.action
      route == p.routePlan.route
      service == p.service
  IN  /\ SelectableAdapter(adapter.status)
      /\ adapter.backendKind = route.backendKind
      /\ adapter.compatibleKind = adapter.backendKind
      /\ {service.capability, route.capability} \subseteq adapter.capabilities
      /\ service.serviceId \in adapter.services
      /\ adapter.modelBundleRequired => Present(route.modelBundleId)
      /\ adapter.hardwareProfileRequired => Present(route.hardwareProfileId)
      /\ action.stream => "unsupported" \notin {adapter.streaming, adapter.streamingDeltas}
      /\ ServesLevels(route, adapter)
      /\ action.timeoutMs => adapter.timeout # "unsupported"
      /\ service.streamingDeltas = "required" => adapter.streamingDeltas # "unsupported"
      /\ adapter.errorNormalization # "unsupported"

\* By the id that the route names, or the only one of its kind that is selectable.
AdaptersOf(route, registry) ==
  IF Present(route.backendId)
    THEN {a \in Entries(registry) : a.adapterId = route.backendId}
    ELSE {a \in Entries(registry) : a.backendKind = route.backendKind /\ SelectableAdapter(a.status)}

BackendPlanOk(p, registry) ==
  /\ ServicePlanAgainOk(p)
  /\ AdapterRegistryOk(registry)
  /\ Cardinality(AdaptersOf(p.routePlan.route, registry)) = 1
  /\ \E a \in AdaptersOf(p.routePlan.route, registry) : AdapterCompatible(ServicePlanAgain(p), a)

BackendPlan(p, registry) ==
  [servicePlan |-> ServicePlanAgain(p), adapter |-> CHOOSE a \in AdaptersOf(p.routePlan.route, registry) : TRUE,
   version |-> "backend.v1"]

--------------------------------------------------------------------------------
(* From a backend plan to the invocation of the backend. *)

\* createCapabilityExecutionInvocation()
InvocationOf(b) ==
  LET action == b.servicePlan.routePlan.busAction.action
      route == b.servicePlan.routePlan.route
  IN  [actionId |-> action.actionId, runId |-> action.runId, capability |-> action.capability,
       serviceId |-> b.servicePlan.service.serviceId, adapterId |-> b.adapter.adapterId,
       backendKind |-> b.adapter.backendKind, routeId |-> route.routeId,
       modelBundleId |-> route.modelBundleId, hardwareProfileId |-> route.hardwareProfileId,
       stream |-> action.stream, timeoutMs |-> action.timeoutMs, contracts |-> "v1"]

InvocationLabels(i) ==
  {i.actionId, i.capability, i.serviceId, i.adapterId, i.backendKind, i.routeId}

OptionalInvocationLabels(i) == {i.runId, i.modelBundleId, i.hardwareProfileId}

\* A backend plan that comes back is planned again, with its own adapter for a registry.
BackendPlanAgainOk(b) ==
  /\ b.version = "backend.v1"
  /\ AdapterDefinitionOk(b.adapter)
  /\ BackendPlanOk(b.servicePlan, Registry(b.adapter))

BackendPlanAgain(b) == BackendPlan(b.servicePlan, Registry(b.adapter))

ExecutionPlan(b) ==
  [backendPlan |-> BackendPlanAgain(b), invocation |-> InvocationOf(BackendPlanAgain(b)),
   version |-> "executor.v1"]

\* Every field of the invocation is compared with what it comes from.
ExecutionInvocationOk(i, b) ==
  /\ Present(i.actionId) /\ i.capability \in Capabilities
  /\ OptionalLabel(i.modelBundleId) /\ OptionalLabel(i.hardwareProfileId)
  /\ i = InvocationOf(b)

NormalizedExecutionPlanOk(e) ==
  /\ e.version = "executor.v1"
  /\ BackendPlanAgainOk(e.backendPlan)
  /\ ExecutionInvocationOk(e.invocation, BackendPlanAgain(e.backendPlan))

\* The stages from here on also take what the stage before them makes, and do
\* its work first: an execution plan may be given as a backend plan, ...
IsExecutionPlan(x) == {"backendPlan", "invocation"} \cap DOMAIN x # {}

ExecutionPlanOk(x) ==
  IF IsExecutionPlan(x)
    THEN "backendPlan" \in DOMAIN x /\ NormalizedExecutionPlanOk(x)
    ELSE BackendPlanAgainOk(x) /\ NormalizedExecutionPlanOk(ExecutionPlan(x))

ExecutionPlanAgain(x) ==
  IF IsExecutionPlan(x) THEN [x EXCEPT !.backendPlan = BackendPlanAgain(@)] ELSE ExecutionPlan(x)

SkeletonBoundary ==
  [executor |-> "skeleton-only", executable |-> FALSE, adapterInvocation |-> "not-implemented"]

Skeleton(e) ==
  [executionPlan |-> e, invocation |-> e.invocation, boundary |-> SkeletonBoundary,
   version |-> "executor-skeleton.v1"]

SkeletonInvocationOk(i, e) ==
  /\ i = e.invocation
  /\ \A label \in InvocationLabels(i) \union OptionalInvocationLabels(i) : label \notin PathLike

NormalizedSkeletonOk(s) ==
  /\ s.version = "executor-skeleton.v1"
  /\ ExecutionPlanOk(s.executionPlan)
  /\ SkeletonInvocationOk(s.invocation, ExecutionPlanAgain(s.executionPlan))
  /\ s.boundary = SkeletonBoundary

\* ... a skeleton as an execution plan, ...
IsSkeleton(x) == {"executionPlan", "boundary"} \cap DOMAIN x # {}

SkeletonOk(x) ==
  IF IsSkeleton(x)
    THEN "executionPlan" \in DOMAIN x /\ NormalizedSkeletonOk(x)
    ELSE ExecutionPlanOk(x) /\ NormalizedSkeletonOk(Skeleton(ExecutionPlanAgain(x)))

SkeletonAgain(x) ==
  IF IsSkeleton(x) THEN [x EXCEPT !.executionPlan = ExecutionPlanAgain(@)] ELSE Skeleton(ExecutionPlanAgain(x))

DescriptorBoundary ==
  [adapterInvocation |-> "contract-only", executable |-> FALSE, nativeExecution |-> "not-wired"]

Descriptor(i) ==
  [invocation |-> [i EXCEPT !.actionId = Trim(@), !.runId = Trim(@)],
   boundary |-> DescriptorBoundary, version |-> "backend-adapter-invocation.v1"]

\* An invocation descriptor has nothing in it to be compared with.
DescriptorInvocationOk(i) ==
  /\ \A label \in InvocationLabels(i) : Label(label)
  /\ \A label \in OptionalInvocationLabels(i) : OptionalLabel(label)

NormalizedDescriptorOk(d) ==
  /\ d.version = "backend-adapter-invocation.v1"
  /\ DescriptorInvocationOk(d.invocation)
  /\ d.boundary = DescriptorBoundary

\* ... and an invocation descriptor as either of them.
IsDescriptor(x) == "boundary" \in DOMAIN x /\ "nativeExecution" \in DOMAIN x.boundary

InvocationIn(x) ==
  IF IsSkeleton(x) THEN SkeletonAgain(x).executionPlan.invocation ELSE ExecutionPlanAgain(x).invocation

DescriptorOk(x) ==
  IF IsDescriptor(x)
    THEN NormalizedDescriptorOk(x)
    ELSE /\ IF IsSkeleton(x) THEN SkeletonOk(x) ELSE "backendPlan" \in DOMAIN x /\ ExecutionPlanOk(x)
         /\ NormalizedDescriptorOk(Descriptor(InvocationIn(x)))

DescriptorAgain(x) ==
  IF IsDescriptor(x) THEN Descriptor(x.invocation) ELSE Descriptor(InvocationIn(x))

--------------------------------------------------------------------------------
(* The accepted plan and the orchestration descriptor. *)

Identity(x) == [actionId |-> x.actionId, runId |-> x.runId, capability |-> x.capability]

IdentityOk(i) == Label(i.actionId) /\ OptionalLabel(i.runId) /\ Label(i.capability)

\* validateCapabilityBusExecuteActionPlan(): the stages one after another.
PlanOk(action, registries) ==
  /\ BusActionOk(action, registries.capability)
  /\ LET b == BusAction(action, registries.capability)
     IN  /\ RoutePlanOk(b, registries.router)
         /\ LET r == RoutePlan(b, registries.router)
            IN  /\ ServicePlanOk(r, registries.service)
                /\ LET s == ServicePlan(r, registries.service)
                   IN  /\ BackendPlanOk(s, registries.adapter)
                       /\ ExecutionPlanOk(BackendPlan(s, registries.adapter))

PlanOf(executionPlan) ==
  LET backend == executionPlan.backendPlan
  IN  [action |-> Identity(backend.servicePlan.routePlan.busAction.action),
       busAction |-> backend.servicePlan.routePlan.busAction,
       routePlan |-> backend.servicePlan.routePlan,
       servicePlan |-> backend.servicePlan,
       backendPlan |-> backend,
       executionPlan |-> executionPlan,
       version |-> "execute-action.v1"]

Plan(action, registries) ==
  LET b == BusAction(action, registries.capability)
      r == RoutePlan(b, registries.router)
      s == ServicePlan(r, registries.service)
  IN  PlanOf(ExecutionPlanAgain(BackendPlan(s, registries.adapter)))

\* A plan that comes back: what counts is its execution plan. Its copies of the
\* earlier plans may be missing; if they are there they must be the same.
Copies == {"busAction", "routePlan", "servicePlan", "backendPlan"}

AcceptedPlanOk(p) ==
  /\ p.version = "execute-action.v1"
  /\ ExecutionPlanOk(p.executionPlan)
  /\ LET e == ExecutionPlanAgain(p.executionPlan)
     IN  /\ IdentityOk(p.action) /\ p.action = Identity(e.invocation)
         /\ \A copy \in Copies \cap DOMAIN p : p[copy] = PlanOf(e)[copy]

AcceptedPlan(p) == [PlanOf(ExecutionPlanAgain(p.executionPlan)) EXCEPT !.action = p.action]

OrchestrationBoundary == [orchestration |-> "composition-only", executable |-> FALSE]

Orchestration(p) ==
  [action |-> p.action, plan |-> p, skeleton |-> SkeletonAgain(p.executionPlan),
   descriptor |-> DescriptorAgain(SkeletonAgain(p.executionPlan)),
   boundary |-> OrchestrationBoundary, version |-> "execute-action-orchestration.v1"]

OrchestrationActionOk(o) ==
  /\ IdentityOk(o.action) /\ o.action = AcceptedPlan(o.plan).action
  /\ o.action.actionId = DescriptorAgain(o.descriptor).invocation.actionId

NormalizedOrchestrationUnpaired(o) ==
  /\ o.version = "execute-action-orchestration.v1"
  /\ AcceptedPlanOk(o.plan) /\ SkeletonOk(o.skeleton) /\ DescriptorOk(o.descriptor)
  /\ OrchestrationActionOk(o)
  /\ o.boundary = OrchestrationBoundary
  /\ SkeletonAgain(o.skeleton) = SkeletonAgain(AcceptedPlan(o.plan).executionPlan)

\* Its parts are validated one by one, and then each with the one it comes from.
NormalizedOrchestrationOk(o) ==
  /\ o.version = "execute-action-orchestration.v1"
  /\ AcceptedPlanOk(o.plan) /\ SkeletonOk(o.skeleton) /\ DescriptorOk(o.descriptor)
  /\ OrchestrationActionOk(o)
  /\ o.boundary = OrchestrationBoundary
  /\ SkeletonAgain(o.skeleton) = SkeletonAgain(AcceptedPlan(o.plan).executionPlan)
  /\ DescriptorAgain(o.descriptor) = DescriptorAgain(SkeletonAgain(o.skeleton))

OrchestrationAgain(o) ==
  [o EXCEPT !.plan = AcceptedPlan(@), !.skeleton = SkeletonAgain(@), !.descriptor = DescriptorAgain(@)]

IsOrchestration(x) == "boundary" \in DOMAIN x

OrchestrationOk(x) ==
  IF IsOrchestration(x)
    THEN NormalizedOrchestrationOk(x)
    ELSE /\ AcceptedPlanOk(x)
         /\ SkeletonOk(AcceptedPlan(x).executionPlan)
         /\ DescriptorOk(SkeletonAgain(AcceptedPlan(x).executionPlan))
         /\ NormalizedOrchestrationOk(Orchestration(AcceptedPlan(x)))

NormalizeOrchestration(x) ==
  IF IsOrchestration(x) THEN OrchestrationAgain(x) ELSE Orchestration(AcceptedPlan(x))

--------------------------------------------------------------------------------
(* What the chain promises of an orchestration descriptor it accepts, with  *)
(* no regard to the way it came.                                            *)

Coherent(o) ==
  LET e == o.plan.executionPlan
      p == e.backendPlan.servicePlan
      action == p.routePlan.busAction.action
      route == p.routePlan.route
      adapter == e.backendPlan.adapter
  IN  /\ o.action = Identity(action) /\ o.plan.action = o.action
      /\ {e.invocation, o.skeleton.invocation, o.descriptor.invocation} = {InvocationOf(e.backendPlan)}
      /\ o.skeleton.executionPlan = e
      /\ \A copy \in Copies : o.plan[copy] = PlanOf(e)[copy]
      /\ \A label \in InvocationLabels(e.invocation) : Label(label)
      /\ {route.capability, p.service.capability, p.routePlan.busAction.definition.capability} = {action.capability}
      /\ action.capability \in adapter.capabilities
      /\ route.serviceId = p.service.serviceId /\ p.service.serviceId \in adapter.services
      /\ route.backendKind = adapter.backendKind /\ route.backendId \in {Absent, adapter.adapterId}
      /\ SelectableService(p.service.status) /\ SelectableAdapter(adapter.status)
      /\ action.stream =>
           "unsupported" \notin {p.service.streaming, p.service.streamingDeltas, adapter.streaming, adapter.streamingDeltas}
      /\ action.timeoutMs => "unsupported" \notin {p.service.timeout, adapter.timeout}
      /\ action.contextRefs => p.service.contextRefs # "unsupported"
      /\ \A f \in {"streaming", "cancellation", "timeout"} :
           route[f] = "required" => "unsupported" \notin {p.service[f], adapter[f]}
      /\ p.service.modelBundleRequired \/ adapter.modelBundleRequired => route.modelBundleId # Absent
      /\ p.service.hardwareProfileRequired \/ adapter.hardwareProfileRequired => route.hardwareProfileId # Absent

\* And of a plan just made: it fits the definition of the capability, and the route is open.
Planned(o) ==
  LET r == o.plan.routePlan
      d == r.busAction.definition
  IN  /\ d.status # "deprecated" /\ SelectableRoute(r.route.status)
      /\ r.route.backendKind \in d.backendKinds
      /\ d.modelBundleRequired => r.route.modelBundleId # Absent
      /\ r.busAction.action.stream => r.route.streaming # "unsupported"
      /\ r.busAction.action.contextRefs => d.contextRefs
================================================================================
