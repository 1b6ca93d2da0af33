--------------------------- MODULE MCRuntimeLifecycle ---------------------------
(***************************************************************************)
(* The runtime with its worker thread, for small numbers of calls.         *)
(***************************************************************************)
EXTENDS RuntimeLifecycle, TLC

CONSTANTS SessionResets, ModelResets, Shutdowns, Cancels

MCCalls ==
  [resetSession |-> SessionResets, resetModel |-> ModelResets,
   shutdown |-> Shutdowns, cancelPrompt |-> Cancels]

\* Nothing tells one session from another.
Symmetry == Permutations(Sessions)
================================================================================
