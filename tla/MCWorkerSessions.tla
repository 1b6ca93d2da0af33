---------------------------- MODULE MCWorkerSessions ----------------------------
(***************************************************************************)
(* The worker's sessions, with room for all of them and with too little.   *)
(***************************************************************************)
EXTENDS WorkerSessions
================================================================================
