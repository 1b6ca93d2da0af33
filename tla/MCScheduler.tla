------------------------------ MODULE MCScheduler ------------------------------
(***************************************************************************)
(* The scheduler on its own with more requests than slots, two sessions    *)
(* and a caller that waits for it to be idle.                              *)
(***************************************************************************)
EXTENDS Scheduler
================================================================================
