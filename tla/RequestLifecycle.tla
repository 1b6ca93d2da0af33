---------------------------- MODULE RequestLifecycle ----------------------------
(***************************************************************************)
(* What the runtime promises about a prompt request, with no mention of    *)
(* how it is scheduled: a request is created, waits, is run, and ends      *)
(* once; requests start in the order they were created; at most            *)
(* MaxInFlight run at a time; one that ended never comes back.             *)
(***************************************************************************)
EXTENDS Naturals, FiniteSets

CONSTANTS
  MaxRequests,  \* bound: how many requests are ever created
  MaxInFlight   \* how many of them run at a time

Requests == 1..MaxRequests

Ended == {"done", "error", "canceled"}

VARIABLE state  \* of each request; "new" before it is created

Init == state = [r \in Requests |-> "new"]

In(s) == {r \in Requests : state[r] = s}

\* Requests are created in the order of their ids.
Submit ==
  \E r \in In("new") :
    /\ \A q \in In("new") : r <= q
    /\ state' = [state EXCEPT ![r] = "queued"]

\* The oldest waiting request starts.
Start ==
  /\ Cardinality(In("running")) < MaxInFlight
  /\ \E r \in In("queued") :
       /\ \A q \in In("queued") : r <= q
       /\ state' = [state EXCEPT ![r] = "running"]

\* The worker answers for a running request.
Answer ==
  \E r \in In("running"), end \in {"done", "error"} :
    state' = [state EXCEPT ![r] = end]

\* Callers cancel any of the requests that have not ended.
Abandon ==
  \E R \in SUBSET (In("queued") \union In("running")) :
    state' = [r \in Requests |-> IF r \in R THEN "canceled" ELSE state[r]]

Next == Submit \/ Start \/ Answer \/ Abandon

Spec == Init /\ [][Next]_state
================================================================================
