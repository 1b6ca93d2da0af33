----------------------------- MODULE MCExecuteAction -----------------------------
(***************************************************************************)
(* Actions that run, and the events of them, for small numbers of calls.   *)
(***************************************************************************)
EXTENDS ExecuteAction

MCPadded == [x \in {" a1 "} |-> "a1"]

MCErrors == {Says("Session reset"), Says("native timeout")}

\* Everything; all that is recorded of one action, one event at a time.
MCAsks ==
  {[action |-> AnyField, type |-> AnyField, deltas |-> TRUE, limit |-> NoLimit],
   [action |-> "a1", type |-> AnyField, deltas |-> FALSE, limit |-> 1]}

Adapter ==
  [contractVersion |-> "runtime.actionEventLogStore.v1", adapterId |-> "log", append |-> "yes", read |-> "yes",
   cursorRead |-> "absent", highVolumeEvents |-> "absent", functions |-> {"appendEvent", "readEvents"}]

\* The runtime's own, one with a log, and two that are refused.
Options(adapter, highVolume) ==
  [adapter |-> adapter, enabled |-> "absent", includeHighVolumeEvents |-> highVolume, durability |-> "absent"]

MCLogOptions ==
  {Options(NoAdapter, "absent"), Options(Adapter, "absent"), Options(Adapter, "yes"),
   Options([Adapter EXCEPT !.append = "no"], "absent")}
================================================================================
