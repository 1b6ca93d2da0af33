-------------------------------- MODULE Contracts --------------------------------
(***************************************************************************)
(* The descriptors that the contract chain puts together: an action, the   *)
(* definition of its capability, a route, a service and a backend adapter, *)
(* what makes each of them valid by itself, and the registries they are    *)
(* looked up in (bus/, router/, backends/).                                *)
(*                                                                         *)
(* A descriptor is a record with the fields that later stages look at; the *)
(* field `broken` names the others that are not of the form their          *)
(* validator asks for ("keys" stands for keys that are forbidden or        *)
(* unknown). A support level or an optional label may be Absent. A label   *)
(* may be padded with blanks, which normalization takes away.              *)
(***************************************************************************)
EXTENDS Naturals, Sequences, FiniteSets

CONSTANTS
  Capabilities,  \* the capabilities of the taxonomy
  PathLike,      \* labels that look like a path or carry a payload
  Padded         \* a function: labels with blanks around, to what is left of them

ASSUME LabelsAssumption ==
  /\ \A x \in DOMAIN Padded : Padded[x] \notin DOMAIN Padded
  /\ Capabilities \cap (PathLike \union DOMAIN Padded) = {}

Absent == "absent"
Present(label) == label \notin {Absent, ""}
Trim(label) == IF label \in DOMAIN Padded THEN Padded[label] ELSE label

Label(label) == Present(label) /\ label \notin PathLike
OptionalLabel(label) == label = Absent \/ Label(label)

SupportLevels == {"supported", "unsupported", "required"}
RouteStatuses == {"contract-only", "planned", "implemented", "disabled", "deprecated"}
DefinitionStatuses == {"contract-only", "planned", "experimental", "implemented", "deprecated"}
Statuses == RouteStatuses \union {"experimental"}

SelectableRoute(status) == status \in {"contract-only", "planned", "implemented"}
SelectableService(status) == status \in {"contract-only", "planned", "experimental", "implemented"}
SelectableAdapter(status) == status \in {"contract-only", "planned", "experimental", "implemented"}

--------------------------------------------------------------------------------
(* The descriptors, each by itself. *)

WellFormed(x, fields) == x.broken \cap fields = {}

ActionFieldsOk(a) ==
  WellFormed(a, {"runId", "source", "intent", "input", "requirements", "policy", "trace"})

\* validateActionEnvelope(): an id need not be a label here.
ActionEnvelopeOk(a) ==
  /\ Present(a.actionId)
  /\ a.capability \in Capabilities
  /\ WellFormed(a, {"keys"}) /\ ActionFieldsOk(a)

NormalizeActionEnvelope(a) ==
  [a EXCEPT !.actionId = Trim(@), !.runId = Trim(@)]

DefinitionContractsOk(d) == WellFormed(d, {"contracts", "requirements"})

DefinitionCompatibilityOk(d) ==
  /\ \A k \in d.backendKinds : Label(k)
  /\ WellFormed(d, {"policy", "compatibility"})

CapabilityDefinitionOk(d) ==
  /\ d.capability \in Capabilities
  /\ d.status \in DefinitionStatuses
  /\ WellFormed(d, {"keys", "version", "summary"})
  /\ DefinitionContractsOk(d) /\ DefinitionCompatibilityOk(d)

RouteRequirementsOk(r) == {r.streaming, r.cancellation, r.timeout} \subseteq SupportLevels \union {Absent}

RouteDefinitionOk(r) ==
  /\ r.capability \in Capabilities
  /\ r.status \in RouteStatuses
  /\ Label(r.routeId) /\ Label(r.serviceId) /\ Label(r.backendKind)
  /\ OptionalLabel(r.backendId) /\ OptionalLabel(r.modelBundleId) /\ OptionalLabel(r.hardwareProfileId)
  /\ RouteRequirementsOk(r)
  /\ WellFormed(r, {"keys"})

\* The levels a service or an adapter states; none of them may be left out.
LevelsOk(x, levels) == \A f \in levels : x[f] \in SupportLevels

ServiceContractsOk(s) ==
  /\ LevelsOk(s, {"contextRefs", "streamingDeltas"})
  /\ WellFormed(s, {"contracts", "input", "result"})

ServiceCompatibilityOk(s) ==
  /\ LevelsOk(s, {"streaming", "cancellation", "timeout"})
  /\ \A k \in s.backendKinds : Label(k)
  /\ WellFormed(s, {"requirements", "compatibility"})

ServiceDefinitionOk(s) ==
  /\ s.capability \in Capabilities
  /\ s.status \in Statuses
  /\ Label(s.serviceId)
  /\ WellFormed(s, {"keys", "version", "summary"})
  /\ ServiceContractsOk(s) /\ ServiceCompatibilityOk(s)

AdapterContractsOk(a) ==
  /\ a.capabilities \subseteq Capabilities
  /\ LevelsOk(a, {"streamingDeltas", "errorNormalization"})
  /\ WellFormed(a, {"contracts", "result"})

AdapterCompatibilityOk(a) ==
  /\ LevelsOk(a, {"streaming", "cancellation", "timeout"})
  /\ \A s \in a.services : Label(s)
  /\ WellFormed(a, {"requirements", "compatibility"})

AdapterDefinitionOk(a) ==
  /\ Label(a.adapterId) /\ Label(a.backendKind)
  /\ a.compatibleKind = a.backendKind
  /\ a.status \in Statuses
  /\ WellFormed(a, {"keys", "version", "summary"})
  /\ AdapterContractsOk(a) /\ AdapterCompatibilityOk(a)

--------------------------------------------------------------------------------
(* Registries: a sequence of descriptors, and what is wrong with the rest. *)

Entries(registry) == {registry.entries[i] : i \in DOMAIN registry.entries}

\* The entries at the positions I differ from one another in f.
DifferIn(registry, f, I) ==
  \A i, j \in I : i # j => registry.entries[i][f] # registry.entries[j][f]

Everywhere(registry) == DOMAIN registry.entries
Selectable(registry) == {i \in DOMAIN registry.entries : SelectableRoute(registry.entries[i].status)}

RegistryShapeOk(registry) == registry.broken \cap {"keys", "schemaVersion"} = {}

CapabilityRegistryOk(registry) ==
  /\ RegistryShapeOk(registry)
  /\ \A d \in Entries(registry) : CapabilityDefinitionOk(d)
  /\ DifferIn(registry, "capability", Everywhere(registry))

\* One route of a capability can be selected, and no more.
RouterRegistryOk(registry) ==
  /\ RegistryShapeOk(registry)
  /\ \A r \in Entries(registry) : RouteDefinitionOk(r)
  /\ DifferIn(registry, "routeId", Everywhere(registry))
  /\ DifferIn(registry, "capability", Selectable(registry))

ServiceRegistryOk(registry) ==
  /\ RegistryShapeOk(registry)
  /\ \A s \in Entries(registry) : ServiceDefinitionOk(s)
  /\ DifferIn(registry, "serviceId", Everywhere(registry))

AdapterRegistryOk(registry) ==
  /\ RegistryShapeOk(registry)
  /\ \A a \in Entries(registry) : AdapterDefinitionOk(a)
  /\ DifferIn(registry, "adapterId", Everywhere(registry))

--------------------------------------------------------------------------------
(* createDefaultExecuteActionRegistries(): one entry of each kind. *)

TextGenerate == "text.generate"
NativeWorker == "nativeWorkerBackend"
NativeWorkerAdapter == "native-worker.default"
TextService == "text.generate.default"

DefaultDefinition ==
  [capability |-> TextGenerate, status |-> "contract-only", backendKinds |-> {NativeWorker},
   modelBundleRequired |-> TRUE, contextRefs |-> TRUE, broken |-> {}]

DefaultRoute ==
  [routeId |-> "text-generate-default", capability |-> TextGenerate, status |-> "contract-only",
   serviceId |-> TextService, backendKind |-> NativeWorker, backendId |-> NativeWorkerAdapter,
   modelBundleId |-> "mistral-text-local", hardwareProfileId |-> "laptopFallback",
   streaming |-> "supported", cancellation |-> "supported", timeout |-> "supported", broken |-> {}]

DefaultService ==
  [serviceId |-> TextService, capability |-> TextGenerate, status |-> "contract-only",
   backendKinds |-> {NativeWorker}, modelBundleRequired |-> TRUE, hardwareProfileRequired |-> TRUE,
   contextRefs |-> "supported", streamingDeltas |-> "supported",
   streaming |-> "supported", cancellation |-> "supported", timeout |-> "supported", broken |-> {}]

DefaultAdapter ==
  [adapterId |-> NativeWorkerAdapter, backendKind |-> NativeWorker, status |-> "contract-only",
   capabilities |-> {TextGenerate}, services |-> {TextService}, compatibleKind |-> NativeWorker,
   modelBundleRequired |-> TRUE, hardwareProfileRequired |-> TRUE,
   streamingDeltas |-> "supported", errorNormalization |-> "supported",
   streaming |-> "supported", cancellation |-> "supported", timeout |-> "supported", broken |-> {}]

Registry(entry) == [entries |-> <<entry>>, broken |-> {}]

DefaultRegistries ==
  [capability |-> Registry(DefaultDefinition), router |-> Registry(DefaultRoute),
   service |-> Registry(DefaultService), adapter |-> Registry(DefaultAdapter)]

DefaultAction(id) ==
  [actionId |-> id, runId |-> Absent, capability |-> TextGenerate, prompt |-> TRUE,
   stream |-> TRUE, timeoutMs |-> FALSE, contextRefs |-> FALSE, broken |-> {}]
================================================================================
