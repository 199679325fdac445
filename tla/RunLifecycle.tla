---------------------------- MODULE RunLifecycle ----------------------------
(***************************************************************************)
(* The life of a reconciliation run: POST /api/reconciliation/runs served  *)
(* by the threads of several gunicorn workers over one MySQL database,     *)
(* together with the recovery statement every worker runs while it boots.  *)
(*                                                                         *)
(* Each repository call borrows a connection, runs one transaction and     *)
(* gives the connection back, so the steps of a request are its            *)
(* transactions; other threads, crashes and restarts come in between.      *)
(***************************************************************************)
EXTENDS Naturals

CONSTANTS
  Workers,           \* the gunicorn worker processes
  ThreadsPerWorker,  \* request threads of a worker
  Keys,              \* the (company_id, period) pairs a request may name
  MaxRuns,           \* bound: how many runs are ever created
  DbOutcomes,        \* what a database call may do, see DbOutcomesAssumption
  MayCrash,          \* whether a worker may be killed
  NULL               \* SQL NULL, Python None

(***************************************************************************)
(* A database call answers ("ok"), raises with nothing applied ("error"),  *)
(* or raises although its transaction was committed, the connection having *)
(* dropped before the acknowledgement arrived ("lost").                    *)
(***************************************************************************)
ASSUME DbOutcomesAssumption ==
  "ok" \in DbOutcomes /\ DbOutcomes \subseteq {"ok", "error", "lost"}
ASSUME BoundsAssumption ==
  MaxRuns \in Nat /\ ThreadsPerWorker \in Nat /\ MayCrash \in BOOLEAN
ASSUME NullAssumption == NULL \notin Keys /\ NULL \notin 1..MaxRuns

Runs    == 1..MaxRuns
Threads == Workers \X (1..ThreadsPerWorker)

VARIABLES
  status,    \* reconciliation_runs.status, "absent" before the INSERT
  key,       \* (company_id, period) of the run
  age,       \* started_at: never set, within the last hour, or older
  saved,     \* the run's result and error rows are in the database
  flagged,   \* history: runs a recovery statement has marked failed
  notified,  \* history: runs whose summary emails were sent off
  unacked,   \* history: runs whose completing commit was not acknowledged
  pc,        \* pc[t]: the next step of the request served by thread t
  cur,       \* cur[t]: run.id in that request
  up         \* up[w]: worker w has booted and serves requests

rows == <<status, key, age, saved>>
vars == <<status, key, age, saved, flagged, notified, unacked, pc, cur, up>>

InFlight == {"pending", "running"}
Active(k) == {r \in Runs : key[r] = k /\ status[r] \in InFlight}

Init ==
  /\ status = [r \in Runs |-> "absent"]
  /\ key = [r \in Runs |-> NULL]
  /\ age = [r \in Runs |-> "never"]
  /\ saved = [r \in Runs |-> FALSE]
  /\ flagged = {}
  /\ notified = {}
  /\ unacked = {}
  /\ pc = [t \in Threads |-> "idle"]
  /\ cur = [t \in Threads |-> NULL]
  /\ up = [w \in Workers |-> FALSE]

(***************************************************************************)
(* The steps of a request                                                  *)
(***************************************************************************)

Goto(t, label) ==
  /\ pc'  = [pc EXCEPT ![t] = label]
  /\ cur' = IF label = "idle" THEN [cur EXCEPT ![t] = NULL] ELSE cur

\* Fault: creation without the re-check under the company lock.
RequestUnchecked(t, k) ==
  /\ pc[t] = "idle"
  /\ up[t[1]]
  /\ \E r \in Runs :
       /\ status[r] = "absent"
       /\ \A q \in 1..(r - 1) : status[q] # "absent"
       /\ status' = [status EXCEPT ![r] = "pending"]
       /\ key' = [key EXCEPT ![r] = k]
       /\ pc' = [pc EXCEPT ![t] = "start"]
       /\ cur' = [cur EXCEPT ![t] = r]
  /\ UNCHANGED <<age, saved, flagged, notified, unacked, up>>

(***************************************************************************)
(* create_run_exclusive holds the lock of the company row from its         *)
(* re-check to its commit: check and INSERT are one step.  When the commit *)
(* is not acknowledged the request is over and the run there.              *)
(***************************************************************************)
CreateRunExclusive(t, k) ==
  /\ Active(k) = {}
  /\ \E r \in Runs, o \in DbOutcomes \ {"error"} :
       /\ status[r] = "absent"
       /\ \A q \in 1..(r - 1) : status[q] # "absent"
       /\ status' = [status EXCEPT ![r] = "pending"]
       /\ key' = [key EXCEPT ![r] = k]
       /\ IF o = "ok"
            THEN /\ pc' = [pc EXCEPT ![t] = "start"]
                 /\ cur' = [cur EXCEPT ![t] = r]
            ELSE UNCHANGED <<pc, cur>>

(***************************************************************************)
(* POST /runs up to the row of its run.  When the period has a run in      *)
(* flight the request is answered with that run and changes nothing, as    *)
(* does one that is refused for its period or tolerance.                   *)
(***************************************************************************)
Request(t, k) ==
  /\ pc[t] = "idle"
  /\ up[t[1]]
  /\ CreateRunExclusive(t, k)
  /\ UNCHANGED <<age, saved, flagged, notified, unacked, up>>

(***************************************************************************)
(* The status UPDATE of start_run names the id and nothing else, and the   *)
(* call stands outside both try blocks: an exception ends the request and  *)
(* leaves the run as it is.                                                *)
(***************************************************************************)
StartRun(t) ==
  /\ pc[t] = "start"
  /\ \E o \in DbOutcomes :
       /\ IF o = "error"
            THEN UNCHANGED <<status, age>>
            ELSE /\ status' = [status EXCEPT ![cur[t]] = "running"]
                 /\ age' = [age EXCEPT ![cur[t]] = "recent"]
       /\ Goto(t, IF o = "ok" THEN "reconcile" ELSE "idle")
  /\ UNCHANGED <<key, saved, flagged, notified, unacked, up>>

(***************************************************************************)
(* Both datasets are read and handed to the engine.                        *)
(***************************************************************************)
Reconcile(t) ==
  /\ pc[t] = "reconcile"
  /\ \E o \in DbOutcomes : Goto(t, IF o = "ok" THEN "finish" ELSE "fail")
  /\ UNCHANGED <<rows, flagged, notified, unacked, up>>

\* Fault: the status is committed apart from the result rows.
FinishInTwoCommits(t) ==
  /\ pc[t] = "finish"
  /\ \E o \in DbOutcomes :
       /\ status' = IF status[cur[t]] \in InFlight
                    THEN [status EXCEPT ![cur[t]] = "completed"] ELSE status
       /\ saved' = IF o = "error" THEN saved ELSE [saved EXCEPT ![cur[t]] = TRUE]
       /\ Goto(t, IF o = "ok" THEN "reload" ELSE "fail")
  /\ UNCHANGED <<key, age, flagged, notified, unacked, up>>

\* Fault: the completing UPDATE names the id only, as start_run and fail_run do.
FinishUnguarded(t) ==
  /\ pc[t] = "finish"
  /\ \E o \in DbOutcomes :
       /\ IF o = "error"
            THEN UNCHANGED <<status, saved>>
            ELSE /\ status' = [status EXCEPT ![cur[t]] = "completed"]
                 /\ saved' = [saved EXCEPT ![cur[t]] = TRUE]
       /\ unacked' = IF o = "lost" THEN unacked \union {cur[t]} ELSE unacked
       /\ Goto(t, IF o = "ok" THEN "reload" ELSE "fail")
  /\ UNCHANGED <<key, age, flagged, notified, up>>

\* Fault: start_run ignores what finish_run_transaction returns.
FinishResultIgnored(t) ==
  /\ pc[t] = "finish"
  /\ \E o \in DbOutcomes :
       LET applied == o # "error" /\ status[cur[t]] \in InFlight
       IN /\ IF applied
               THEN /\ status' = [status EXCEPT ![cur[t]] = "completed"]
                    /\ saved' = [saved EXCEPT ![cur[t]] = TRUE]
               ELSE UNCHANGED <<status, saved>>
          /\ unacked' = IF applied /\ o = "lost"
                          THEN unacked \union {cur[t]} ELSE unacked
          /\ Goto(t, IF o = "ok" THEN "reload" ELSE "fail")
  /\ UNCHANGED <<key, age, flagged, notified, up>>

(***************************************************************************)
(* finish_run_transaction inserts the result rows and completes the run if *)
(* it is still in flight; otherwise it rolls the inserts back.             *)
(***************************************************************************)
FinishRun(t) ==
  /\ pc[t] = "finish"
  /\ \E o \in DbOutcomes :
       LET applied == o # "error" /\ status[cur[t]] \in InFlight
       IN /\ IF applied
               THEN /\ status' = [status EXCEPT ![cur[t]] = "completed"]
                    /\ saved' = [saved EXCEPT ![cur[t]] = TRUE]
               ELSE UNCHANGED <<status, saved>>
          /\ unacked' = IF applied /\ o = "lost"
                          THEN unacked \union {cur[t]} ELSE unacked
          /\ Goto(t, IF applied /\ o = "ok" THEN "reload" ELSE "fail")
  /\ UNCHANGED <<key, age, flagged, notified, up>>

\* Fault: a status the schema's CHECK does not know.
FailAsError(t) ==
  /\ pc[t] = "fail"
  /\ status' = [status EXCEPT ![cur[t]] = "error"]
  /\ Goto(t, "idle")
  /\ UNCHANGED <<key, age, saved, flagged, notified, unacked, up>>

(***************************************************************************)
(* _fail_run: an UPDATE that names the id and nothing else, its exceptions *)
(* swallowed; the request then ends with the error that brought it here.   *)
(***************************************************************************)
FailRun(t) ==
  /\ pc[t] = "fail"
  /\ \E o \in DbOutcomes :
       status' = IF o = "error" THEN status
                 ELSE [status EXCEPT ![cur[t]] = "failed"]
  /\ Goto(t, "idle")
  /\ UNCHANGED <<key, age, saved, flagged, notified, unacked, up>>

Reload(t) ==
  /\ pc[t] = "reload"
  /\ \E o \in DbOutcomes : Goto(t, IF o = "ok" THEN "notify" ELSE "idle")
  /\ UNCHANGED <<rows, flagged, notified, unacked, up>>

(***************************************************************************)
(* Mails are sent, or some, or none: whatever _notify_discrepancies raises *)
(* is logged and the request answers 201.                                  *)
(***************************************************************************)
Notify(t) ==
  /\ pc[t] = "notify"
  /\ notified' \in {notified, notified \union {cur[t]}}
  /\ Goto(t, "idle")
  /\ UNCHANGED <<rows, flagged, unacked, up>>

Step(t) ==
  \/ StartRun(t)
  \/ Reconcile(t)
  \/ FinishRun(t)
  \/ FailRun(t)
  \/ Reload(t)
  \/ Notify(t)

(***************************************************************************)
(* Workers, and the passing of time                                        *)
(***************************************************************************)

\* Fault: runs that never started are not selected.
InterruptedStarted == {r \in Runs : status[r] \in InFlight /\ age[r] = "old"}

(***************************************************************************)
(* The runs recover_interrupted_runs selects, and its UPDATE.              *)
(***************************************************************************)
Interrupted ==
  {r \in Runs : status[r] \in InFlight /\ age[r] \in {"never", "old"}}

RecoverInterruptedRuns ==
  \E o \in DbOutcomes :
    LET S == IF o = "error" THEN {} ELSE Interrupted
    IN /\ status' = [r \in Runs |-> IF r \in S THEN "failed" ELSE status[r]]
       /\ flagged' = flagged \union S

(***************************************************************************)
(* A worker boots: create_app runs the recovery statement, swallowing its  *)
(* exceptions, and only then are requests served.                          *)
(***************************************************************************)
Boot(w) ==
  /\ ~up[w]
  /\ RecoverInterruptedRuns
  /\ up' = [up EXCEPT ![w] = TRUE]
  /\ UNCHANGED <<key, age, saved, notified, unacked, pc, cur>>

Crash(w) ==
  /\ MayCrash
  /\ up[w]
  /\ up' = [up EXCEPT ![w] = FALSE]
  /\ pc' = [t \in Threads |-> IF t[1] = w THEN "idle" ELSE pc[t]]
  /\ cur' = [t \in Threads |-> IF t[1] = w THEN NULL ELSE cur[t]]
  /\ UNCHANGED <<rows, flagged, notified, unacked>>

(***************************************************************************)
(* Sixty minutes have gone by since started_at was set.                    *)
(***************************************************************************)
HourPasses(r) ==
  /\ age[r] = "recent"
  /\ age' = [age EXCEPT ![r] = "old"]
  /\ UNCHANGED <<status, key, saved, flagged, notified, unacked, pc, cur, up>>

Next ==
  \/ \E t \in Threads, k \in Keys : Request(t, k)
  \/ \E t \in Threads : Step(t)
  \/ \E w \in Workers : Boot(w) \/ Crash(w)
  \/ \E r \in Runs : HourPasses(r)

Spec == Init /\ [][Next]_vars

(***************************************************************************)
(* Threads that have a request carry it on, gunicorn restarts dead workers *)
(* and the clock moves; nobody is obliged to send a request or to crash.   *)
(***************************************************************************)
Fairness ==
  /\ \A t \in Threads : WF_vars(Step(t))
  /\ \A w \in Workers : WF_vars(Boot(w))
  /\ \A r \in Runs : WF_vars(HourPasses(r))

FairSpec == Spec /\ Fairness

-----------------------------------------------------------------------------

Statuses == {"absent", "pending", "running", "completed", "failed"}
Labels == {"idle", "start", "reconcile", "finish", "fail", "reload", "notify"}

TypeOK ==
  /\ status \in [Runs -> Statuses]
  /\ key \in [Runs -> Keys \union {NULL}]
  /\ age \in [Runs -> {"never", "recent", "old"}]
  /\ saved \in [Runs -> BOOLEAN]
  /\ flagged \subseteq Runs
  /\ notified \subseteq Runs
  /\ unacked \subseteq Runs
  /\ pc \in [Threads -> Labels]
  /\ cur \in [Threads -> Runs \union {NULL}]
  /\ up \in [Workers -> BOOLEAN]

(***************************************************************************)
(* The premise of recovery (repository.py, recover_interrupted_runs): "no  *)
(* results exist for a run still in a temporary state", whoever failed,    *)
(* restarted or crashed in between; and a completed run has all of them.   *)
(***************************************************************************)
ResultsWithCompletion ==
  \A r \in Runs :
    /\ status[r] \in InFlight => ~saved[r]
    /\ status[r] = "completed" => saved[r]

(***************************************************************************)
(* What is left of "starts are idempotent per (company_id, period)": two   *)
(* runs of one period are in flight together only when a recovery had      *)
(* failed one of them under the thread that was about to start it.         *)
(***************************************************************************)
DuplicateOnlyAfterRecovery ==
  \A r, q \in Runs :
    /\ r # q
    /\ key[r] = key[q]
    /\ {status[r], status[q]} \subseteq InFlight
    => {r, q} \intersect flagged # {}

(***************************************************************************)
(* A taxpayer is only ever mailed about a run whose results stand: the run *)
(* is completed when the mail goes out and no later step of any request,   *)
(* recovery or restart takes that back.                                    *)
(***************************************************************************)
NotifiedStandsCompleted ==
  \A r \in notified : status[r] = "completed" /\ saved[r]

(***************************************************************************)
(* Whatever fails, the rows move as RunContract allows, although start_run *)
(* and fail_run update by id without looking at the status: a completed    *)
(* run is final and no failed run shows results, the runs whose completing *)
(* commit was not acknowledged excepted.                                   *)
(***************************************************************************)
Contract ==
  INSTANCE RunContract WITH
    Runs    <- Runs,
    status  <- status,
    saved   <- saved,
    unacked <- unacked
ContractSpec == Contract!Spec

(***************************************************************************)
(* Booting is what settles the runs that failures and crashes leave over:  *)
(* if again and again a worker boots and its recovery statement gets       *)
(* through, no run stays in flight forever.                                *)
(***************************************************************************)
RecoveryPasses ==
  \E w \in Workers : Boot(w) /\ \A r \in Interrupted : status'[r] = "failed"
BootsSettleRuns ==
  ([]<><<RecoveryPasses>>_vars) =>
    \A r \in Runs : status[r] \in InFlight ~> status[r] \notin InFlight

(***************************************************************************)
(* Why the safety properties hold: a run belongs to the one request that   *)
(* inserted it, and what that request may still do to it is tied to the    *)
(* request's place in start_run.                                           *)
(***************************************************************************)
OneRequestPerRun ==
  \A t, u \in Threads : t # u /\ cur[t] # NULL => cur[t] # cur[u]

BusyHasRun == \A t \in Threads : pc[t] = "idle" <=> cur[t] = NULL

RunIsInserted ==
  \A t \in Threads : cur[t] # NULL => status[cur[t]] # "absent"

StartsPendingOrFlagged ==
  \A t \in Threads :
    pc[t] = "start" => \/ status[cur[t]] = "pending"
                       \/ status[cur[t]] = "failed" /\ cur[t] \in flagged

SavedAfterFinish ==
  \A t \in Threads :
    /\ pc[t] \in {"start", "reconcile", "finish"} => ~saved[cur[t]]
    /\ pc[t] \in {"reload", "notify"} => status[cur[t]] = "completed"

AbsentHasNothing ==
  \A r \in Runs : status[r] = "absent" => ~saved[r]

NotifiedIsReleased ==
  \A r \in notified : \A t \in Threads : cur[t] # r

OwnershipInv ==
  /\ OneRequestPerRun
  /\ BusyHasRun
  /\ RunIsInserted
  /\ StartsPendingOrFlagged
  /\ SavedAfterFinish
  /\ AbsentHasNothing
  /\ NotifiedIsReleased

SafetyInv ==
  /\ ResultsWithCompletion
  /\ DuplicateOnlyAfterRecovery
  /\ NotifiedStandsCompleted

(***************************************************************************)
(* What the implementation of the contract needs on top of that.           *)
(***************************************************************************)
SavedIsCompleted ==
  \A r \in Runs : saved[r] => status[r] = "completed" \/ r \in unacked

FailsUnsaved ==
  \A t \in Threads :
    pc[t] = "fail" /\ saved[cur[t]] => cur[t] \in unacked

ContractInv == SavedIsCompleted /\ FailsUnsaved
=============================================================================
