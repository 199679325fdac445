--------------------------- MODULE MCRunLifecycle ---------------------------
(***************************************************************************)
(* Instances of RunLifecycle for TLC, and what the comments of the code    *)
(* say of a run that TLC refutes on the smallest instances.                *)
(***************************************************************************)
EXTENDS RunLifecycle

(***************************************************************************)
(* service.py:91-93: "Starts are idempotent per (company_id, period): when *)
(* an in-flight run already exists for the same period it is returned      *)
(* instead of creating a duplicate run."                                   *)
(***************************************************************************)
OneInFlightPerKey ==
  \A r, q \in Runs :
    /\ r # q
    /\ status[r] \in InFlight
    /\ status[q] \in InFlight
    => key[r] # key[q]

(***************************************************************************)
(* service.py:72-74: recovery at startup is there "so runs interrupted by  *)
(* a crash are surfaced as failed instead of staying pending/running       *)
(* forever".                                                               *)
(***************************************************************************)
InterruptedSurfaced ==
  \A r \in Runs :
    (status[r] \in InFlight /\ \A t \in Threads : cur[t] # r)
      ~> status[r] \notin InFlight
=============================================================================
