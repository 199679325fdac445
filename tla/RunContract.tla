---------------------------- MODULE RunContract ----------------------------
(***************************************************************************)
(* What the reconciliation subsystem promises about the rows of            *)
(* reconciliation_runs and reconciliation_results, with no web worker, no  *)
(* request and no failure in sight: a run's results appear in the same     *)
(* step that completes it, only a run without results is failed or         *)
(* restarted, and a completed run never changes again -- except one whose  *)
(* completing commit was not acknowledged, which the service disowns.      *)
(***************************************************************************)

CONSTANT Runs        \* the primary keys a run may get

VARIABLES
  status,            \* status[r]: the status column of run r
  saved,             \* saved[r]: the result rows of run r are in the database
  unacked            \* runs whose completing commit was not acknowledged

vars == <<status, saved, unacked>>

InFlight == {"pending", "running"}

Init ==
  /\ status = [r \in Runs |-> "absent"]
  /\ saved  = [r \in Runs |-> FALSE]
  /\ unacked = {}

Create(r) ==
  /\ status[r] = "absent"
  /\ status' = [status EXCEPT ![r] = "pending"]
  /\ UNCHANGED <<saved, unacked>>

(***************************************************************************)
(* A run is started, or restarted when it had been failed without results. *)
(***************************************************************************)
Begin(r) ==
  /\ status[r] \in {"pending", "failed"}
  /\ ~saved[r]
  /\ status' = [status EXCEPT ![r] = "running"]
  /\ UNCHANGED <<saved, unacked>>

Complete(r) ==
  /\ status[r] \in InFlight
  /\ ~saved[r]
  /\ status' = [status EXCEPT ![r] = "completed"]
  /\ saved'  = [saved EXCEPT ![r] = TRUE]
  /\ unacked' \in {unacked, unacked \union {r}}

(***************************************************************************)
(* Any number of in-flight runs are failed at once: one by its own         *)
(* request, several by a recovery statement.                               *)
(***************************************************************************)
Fail(S) ==
  /\ \A r \in S : status[r] \in InFlight /\ ~saved[r]
  /\ status' = [r \in Runs |-> IF r \in S THEN "failed" ELSE status[r]]
  /\ UNCHANGED <<saved, unacked>>

(***************************************************************************)
(* The one way a completed run is lost: its results stay, its status says  *)
(* failed.                                                                 *)
(***************************************************************************)
Disown(r) ==
  /\ status[r] = "completed"
  /\ r \in unacked
  /\ status' = [status EXCEPT ![r] = "failed"]
  /\ UNCHANGED <<saved, unacked>>

Next ==
  \/ \E r \in Runs : Create(r) \/ Begin(r) \/ Complete(r) \/ Disown(r)
  \/ \E S \in SUBSET Runs : Fail(S)

Spec == Init /\ [][Next]_vars
=============================================================================
