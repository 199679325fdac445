---------------------------- MODULE ImportBatch ----------------------------
(***************************************************************************)
(* Uploads of accounting files: POST /api/imports served by the threads of *)
(* several gunicorn workers over one MySQL database, together with the     *)
(* recovery statement every worker runs while it boots.                    *)
(*                                                                         *)
(* A file is the sequence of its invoices as group_rows leaves them.  The  *)
(* counters of a batch are the set of the invoices whose rows they count.  *)
(* A step is one transaction, as in RunLifecycle.                          *)
(***************************************************************************)
EXTENDS Naturals, Sequences

CONSTANTS
  Workers,           \* the gunicorn worker processes
  ThreadsPerWorker,  \* request threads of a worker
  Companies,         \* company ids
  Identities,        \* UUIDs and invoice numbers
  Uploads,           \* what may be uploaded: a company and a file
  MaxBatches,        \* bound: how many batches are ever created
  DbOutcomes,        \* what a database call may do, see DbOutcomesAssumption
  MayCrash,          \* whether a worker may be killed
  NULL               \* SQL NULL, Python None

(***************************************************************************)
(* An invoice of a file: validate_group has no complaint about it, and its *)
(* amounts fit the 28 digits of Python's decimal context.                  *)
(***************************************************************************)
Group == [uuid : Identities \union {NULL}, number : Identities,
          valid : BOOLEAN, fits : BOOLEAN]

(***************************************************************************)
(* A file is refused as unreadable (type, size or content), refused for    *)
(* its header row, has a number beyond the decimal context, or is good.    *)
(***************************************************************************)
Upload == [company : Companies,
           kind : {"unreadable", "header", "overflow", "good"},
           groups : Seq(Group)]

\* group_rows: what the rows of a file are collected under.
GroupKey(g) == IF g.uuid # NULL THEN <<"uuid", g.uuid>> ELSE <<"number", g.number>>

ASSUME DbOutcomesAssumption ==
  "ok" \in DbOutcomes /\ DbOutcomes \subseteq {"ok", "error", "lost"}
ASSUME BoundsAssumption ==
  MaxBatches \in Nat /\ ThreadsPerWorker \in Nat /\ MayCrash \in BOOLEAN
ASSUME UploadsAssumption ==
  /\ Uploads \subseteq Upload
  /\ \A u \in Uploads : \A i, k \in DOMAIN u.groups :
       GroupKey(u.groups[i]) = GroupKey(u.groups[k]) => i = k
ASSUME NullAssumption ==
  NULL \notin Identities /\ NULL \notin Uploads /\ NULL \notin 1..MaxBatches

Batches == 1..MaxBatches
Threads == Workers \X (1..ThreadsPerWorker)

VARIABLES
  status,    \* import_batches.status, "absent" before the INSERT
  age,       \* started_at: never set, within the last hour, or older
  upload,    \* company_id of the batch and the file it was made for
  processed, \* processed_rows: the groups whose rows are counted
  invoices,  \* the invoices stored: <<batch, place of the group in the file>>
  flagged,   \* history: batches a recovery statement has marked failed
  mishaps,   \* history: <<batch, group, outcome>> of writes that did not answer
  pc,        \* pc[t]: the next step of the request served by thread t
  cur,       \* cur[t]: batch.id in that request
  next,      \* next[t]: the group _detect_duplicates is looking at
  plan,      \* plan[t]: groups_to_persist that are not inserted yet
  persisted, \* persisted[t]: the groups persisted_invoice_rows counts
  up         \* up[w]: worker w has booted and serves requests

table == <<status, age, upload, processed, invoices>>
local == <<cur, next, plan, persisted>>
vars  == <<table, flagged, mishaps, pc, local, up>>

GroupsOf(b) == upload[b].groups
GroupAt(b, i) == GroupsOf(b)[i]

Init ==
  /\ status = [b \in Batches |-> "absent"]
  /\ age = [b \in Batches |-> "never"]
  /\ upload = [b \in Batches |-> NULL]
  /\ processed = [b \in Batches |-> {}]
  /\ invoices = {}
  /\ flagged = {}
  /\ mishaps = {}
  /\ pc = [t \in Threads |-> "idle"]
  /\ cur = [t \in Threads |-> NULL]
  /\ next = [t \in Threads |-> 1]
  /\ plan = [t \in Threads |-> {}]
  /\ persisted = [t \in Threads |-> {}]
  /\ up = [w \in Workers |-> FALSE]

(***************************************************************************)
(* The unique keys of the invoices table: uuid over all companies, the     *)
(* number within one.                                                      *)
(***************************************************************************)
Clash(b, i, c, k) ==
  \/ GroupAt(b, i).uuid # NULL /\ GroupAt(b, i).uuid = GroupAt(c, k).uuid
  \/ /\ upload[b].company = upload[c].company
     /\ GroupAt(b, i).number = GroupAt(c, k).number

Collides(b, i) == \E inv \in invoices : Clash(b, i, inv[1], inv[2])

\* Fault: the lookup does not name the company.
ExistsAnywhere(b, i) ==
  \E inv \in invoices :
    IF GroupAt(b, i).uuid # NULL
      THEN GroupAt(inv[1], inv[2]).uuid = GroupAt(b, i).uuid
      ELSE GroupAt(inv[1], inv[2]).number = GroupAt(b, i).number

GetByUuid(company, uuid) ==
  {inv \in invoices : /\ upload[inv[1]].company = company
                      /\ GroupAt(inv[1], inv[2]).uuid = uuid}

GetByCompanyAndNumber(company, number) ==
  {inv \in invoices : /\ upload[inv[1]].company = company
                      /\ GroupAt(inv[1], inv[2]).number = number}

(***************************************************************************)
(* _find_existing_invoice looks in the company's own invoices, by UUID if  *)
(* the group has one and by number only if it has none.                    *)
(***************************************************************************)
Exists(b, i) ==
  LET company == upload[b].company
      group   == GroupAt(b, i)
  IN IF group.uuid # NULL
       THEN GetByUuid(company, group.uuid) # {}
       ELSE GetByCompanyAndNumber(company, group.number) # {}

(***************************************************************************)
(* The steps of a request                                                  *)
(***************************************************************************)

Goto(t, label) ==
  /\ pc'  = [pc EXCEPT ![t] = label]
  /\ cur' = IF label = "idle" THEN [cur EXCEPT ![t] = NULL] ELSE cur

EndOf(S) ==
  /\ next' = [t \in Threads |-> IF t \in S THEN 1 ELSE next[t]]
  /\ plan' = [t \in Threads |-> IF t \in S THEN {} ELSE plan[t]]
  /\ persisted' = [t \in Threads |-> IF t \in S THEN {} ELSE persisted[t]]

(***************************************************************************)
(* import_file inserts the batch before it looks at the file.              *)
(***************************************************************************)
Create(t, u) ==
  /\ pc[t] = "idle"
  /\ up[t[1]]
  /\ \E b \in Batches, o \in DbOutcomes \ {"error"} :
       /\ status[b] = "absent"
       /\ \A c \in 1..(b - 1) : status[c] # "absent"
       /\ status' = [status EXCEPT ![b] = "uploaded"]
       /\ upload' = [upload EXCEPT ![b] = u]
       /\ IF o = "ok"
            THEN /\ pc' = [pc EXCEPT ![t] = "open"]
                 /\ cur' = [cur EXCEPT ![t] = b]
            ELSE UNCHANGED <<pc, cur>>
  /\ UNCHANGED <<age, processed, invoices, flagged, mishaps, next, plan,
                 persisted, up>>

(***************************************************************************)
(* update_counts names the batch's id and nothing else.                    *)
(***************************************************************************)
UpdateCounts(b, groups, newStatus, o) ==
  IF o = "error"
    THEN UNCHANGED <<status, processed>>
    ELSE /\ status' = [status EXCEPT ![b] = newStatus]
         /\ processed' = [processed EXCEPT ![b] = groups]

(***************************************************************************)
(* _finish_failed for a file that cannot be read: outside the try block.   *)
(***************************************************************************)
RefuseFile(t) ==
  /\ pc[t] = "open"
  /\ upload[cur[t]].kind = "unreadable"
  /\ \E o \in DbOutcomes : UpdateCounts(cur[t], {}, "failed", o)
  /\ Goto(t, "idle")
  /\ UNCHANGED <<age, upload, invoices, flagged, mishaps, next, plan,
                 persisted, up>>

(***************************************************************************)
(* start, outside the try block too.                                       *)
(***************************************************************************)
Start(t) ==
  /\ pc[t] = "open"
  /\ upload[cur[t]].kind # "unreadable"
  /\ \E o \in DbOutcomes :
       /\ IF o = "error"
            THEN UNCHANGED <<status, age>>
            ELSE /\ status' = [status EXCEPT ![cur[t]] = "processing"]
                 /\ age' = [age EXCEPT ![cur[t]] = "recent"]
       /\ Goto(t, IF o = "ok" THEN "check" ELSE "idle")
  /\ UNCHANGED <<upload, processed, invoices, flagged, mishaps, next, plan,
                 persisted, up>>

\* _finish_failed for the header row: an exception goes to the except branch.
RefuseHeader(t) ==
  /\ pc[t] = "check"
  /\ upload[cur[t]].kind = "header"
  /\ \E o \in DbOutcomes :
       /\ UpdateCounts(cur[t], {}, "failed", o)
       /\ Goto(t, IF o = "ok" THEN "idle" ELSE "abort")
  /\ UNCHANGED <<age, upload, invoices, flagged, mishaps, next, plan,
                 persisted, up>>

(***************************************************************************)
(* _detect_duplicates, for the next group.  Without a query it drops an    *)
(* invalid group and one whose key or number the file has used before.     *)
(***************************************************************************)
SeenInFile(t, i) ==
  \E k \in plan[t] :
    \/ GroupKey(GroupAt(cur[t], k)) = GroupKey(GroupAt(cur[t], i))
    \/ GroupAt(cur[t], k).number = GroupAt(cur[t], i).number

Checking(t) ==
  /\ pc[t] = "check"
  /\ upload[cur[t]].kind = "good"
  /\ next[t] \in DOMAIN GroupsOf(cur[t])

Drop(t) ==
  /\ Checking(t)
  /\ ~GroupAt(cur[t], next[t]).valid \/ SeenInFile(t, next[t])
  /\ next' = [next EXCEPT ![t] = @ + 1]
  /\ UNCHANGED <<table, flagged, mishaps, pc, cur, plan, persisted, up>>

LookUp(t) ==
  /\ Checking(t)
  /\ GroupAt(cur[t], next[t]).valid
  /\ ~SeenInFile(t, next[t])
  /\ \E o \in DbOutcomes :
       IF o = "ok"
         THEN /\ next' = [next EXCEPT ![t] = @ + 1]
              /\ plan' = IF Exists(cur[t], next[t]) THEN plan
                         ELSE [plan EXCEPT ![t] = @ \union {next[t]}]
              /\ UNCHANGED pc
         ELSE /\ pc' = [pc EXCEPT ![t] = "abort"]
              /\ UNCHANGED <<next, plan>>
  /\ UNCHANGED <<table, flagged, mishaps, cur, persisted, up>>

Checked(t) ==
  /\ pc[t] = "check"
  /\ upload[cur[t]].kind = "good"
  /\ next[t] \notin DOMAIN GroupsOf(cur[t])
  /\ Goto(t, "store")
  /\ UNCHANGED <<table, flagged, mishaps, next, plan, persisted, up>>

NextPlanned(t, i) == i \in plan[t] /\ \A k \in plan[t] : i <= k

(***************************************************************************)
(* The InvalidOperation of a quantize, in the rows or in _build_invoice:   *)
(* nothing before the except branch catches it.                            *)
(***************************************************************************)
Overflow(t) ==
  /\ \/ pc[t] = "check" /\ upload[cur[t]].kind = "overflow"
     \/ /\ pc[t] = "store"
        /\ \E i \in plan[t] : NextPlanned(t, i) /\ ~GroupAt(cur[t], i).fits
  /\ Goto(t, "abort")
  /\ UNCHANGED <<table, flagged, mishaps, next, plan, persisted, up>>

\* Fault: the rows of an invoice are counted whether or not it was stored.
InsertCountsAll(t) ==
  /\ pc[t] = "store"
  /\ \E i \in plan[t], o \in DbOutcomes :
       LET applied == o # "error" /\ ~Collides(cur[t], i)
       IN /\ NextPlanned(t, i)
          /\ GroupAt(cur[t], i).fits
          /\ invoices' = IF applied THEN invoices \union {<<cur[t], i>>} ELSE invoices
          /\ persisted' = [persisted EXCEPT ![t] = @ \union {i}]
          /\ mishaps' = IF o = "ok" THEN mishaps
                        ELSE mishaps \union {<<cur[t], i, o>>}
          /\ plan' = [plan EXCEPT ![t] = @ \ {i}]
  /\ UNCHANGED <<status, age, upload, processed, flagged, pc, cur, next, up>>

(***************************************************************************)
(* The insertion of one invoice with its items.  Whatever is raised, a     *)
(* unique key included, is reported and the next invoice is tried.         *)
(***************************************************************************)
Insert(t) ==
  /\ pc[t] = "store"
  /\ \E i \in plan[t], o \in DbOutcomes :
       LET applied == o # "error" /\ ~Collides(cur[t], i)
       IN /\ NextPlanned(t, i)
          /\ GroupAt(cur[t], i).fits
          /\ invoices' = IF applied THEN invoices \union {<<cur[t], i>>} ELSE invoices
          /\ persisted' = IF applied /\ o = "ok"
                            THEN [persisted EXCEPT ![t] = @ \union {i}] ELSE persisted
          /\ mishaps' = IF o = "ok" THEN mishaps
                        ELSE mishaps \union {<<cur[t], i, o>>}
          /\ plan' = [plan EXCEPT ![t] = @ \ {i}]
  /\ UNCHANGED <<status, age, upload, processed, flagged, pc, cur, next, up>>

(***************************************************************************)
(* When no row was persisted, some row or group has an error or the file   *)
(* has no rows.                                                            *)
(***************************************************************************)
Outcome(t) == IF persisted[t] = {} THEN "failed" ELSE "completed"

Finish(t) ==
  /\ pc[t] = "store"
  /\ plan[t] = {}
  /\ \E o \in DbOutcomes :
       /\ UpdateCounts(cur[t], persisted[t], Outcome(t), o)
       /\ mishaps' = IF o = "lost" THEN mishaps \union {<<cur[t], 0, o>>} ELSE mishaps
       /\ Goto(t, IF o = "ok" THEN "idle" ELSE "abort")
       /\ IF o = "ok" THEN EndOf({t}) ELSE UNCHANGED <<next, plan, persisted>>
  /\ UNCHANGED <<age, upload, invoices, flagged, up>>

\* Fault: a status the schema's CHECK does not know.
AbortAsError(t) ==
  /\ pc[t] = "abort"
  /\ UpdateCounts(cur[t], persisted[t], "error", "ok")
  /\ Goto(t, "idle")
  /\ EndOf({t})
  /\ UNCHANGED <<age, upload, invoices, flagged, mishaps, up>>

\* Fault: once marked failed, the batch is finished all the same.
AbortAndRetry(t) ==
  /\ pc[t] = "abort"
  /\ \E o \in DbOutcomes : UpdateCounts(cur[t], persisted[t], "failed", o)
  /\ Goto(t, "store")
  /\ UNCHANGED <<age, upload, invoices, flagged, mishaps, next, plan, persisted, up>>

(***************************************************************************)
(* The except branch of import_file: its own update may fail as well, and  *)
(* the request ends with the exception that led here.                      *)
(***************************************************************************)
Abort(t) ==
  /\ pc[t] = "abort"
  /\ \E o \in DbOutcomes : UpdateCounts(cur[t], persisted[t], "failed", o)
  /\ Goto(t, "idle")
  /\ EndOf({t})
  /\ UNCHANGED <<age, upload, invoices, flagged, mishaps, up>>

Step(t) ==
  \/ RefuseFile(t)
  \/ Start(t)
  \/ RefuseHeader(t)
  \/ Drop(t)
  \/ LookUp(t)
  \/ Checked(t)
  \/ Overflow(t)
  \/ Insert(t)
  \/ Finish(t)
  \/ Abort(t)

(***************************************************************************)
(* Workers, and the passing of time                                        *)
(***************************************************************************)

Unfinished == {"uploaded", "processing"}

\* Fault: the statement does not look at the status.
InterruptedByAge == {b \in Batches : status[b] # "absent" /\ age[b] \in {"never", "old"}}

(***************************************************************************)
(* The batches recover_interrupted_batches selects, and its UPDATE.        *)
(***************************************************************************)
Interrupted ==
  {b \in Batches : status[b] \in Unfinished /\ age[b] \in {"never", "old"}}

RecoverInterruptedBatches ==
  \E o \in DbOutcomes :
    LET S == IF o = "error" THEN {} ELSE Interrupted
    IN /\ status' = [b \in Batches |-> IF b \in S THEN "failed" ELSE status[b]]
       /\ flagged' = flagged \union S

Boot(w) ==
  /\ ~up[w]
  /\ RecoverInterruptedBatches
  /\ up' = [up EXCEPT ![w] = TRUE]
  /\ UNCHANGED <<age, upload, processed, invoices, mishaps, pc, local>>

Crash(w) ==
  /\ MayCrash
  /\ up[w]
  /\ up' = [up EXCEPT ![w] = FALSE]
  /\ pc' = [t \in Threads |-> IF t[1] = w THEN "idle" ELSE pc[t]]
  /\ cur' = [t \in Threads |-> IF t[1] = w THEN NULL ELSE cur[t]]
  /\ EndOf({t \in Threads : t[1] = w})
  /\ UNCHANGED <<table, flagged, mishaps>>

HourPasses(b) ==
  /\ age[b] = "recent"
  /\ age' = [age EXCEPT ![b] = "old"]
  /\ UNCHANGED <<status, upload, processed, invoices, flagged, mishaps, pc,
                 local, up>>

Next ==
  \/ \E t \in Threads, u \in Uploads : Create(t, u)
  \/ \E t \in Threads : Step(t)
  \/ \E w \in Workers : Boot(w) \/ Crash(w)
  \/ \E b \in Batches : HourPasses(b)

Spec == Init /\ [][Next]_vars

-----------------------------------------------------------------------------

Statuses == {"absent", "uploaded", "processing", "completed", "failed"}
Labels == {"idle", "open", "check", "store", "abort"}

TypeOK ==
  /\ status \in [Batches -> Statuses]
  /\ age \in [Batches -> {"never", "recent", "old"}]
  /\ upload \in [Batches -> Uploads \union {NULL}]
  /\ processed \in [Batches -> SUBSET Nat]
  /\ invoices \subseteq Batches \X Nat
  /\ flagged \subseteq Batches
  /\ mishaps \subseteq Batches \X Nat \X {"error", "lost"}
  /\ pc \in [Threads -> Labels]
  /\ cur \in [Threads -> Batches \union {NULL}]
  /\ next \in [Threads -> Nat]
  /\ plan \in [Threads -> SUBSET Nat]
  /\ persisted \in [Threads -> SUBSET Nat]
  /\ up \in [Workers -> BOOLEAN]

(***************************************************************************)
(* The counters a user reads beside a completed batch are the truth about  *)
(* the invoices table, although they are written once, at the end: a group *)
(* is counted exactly when its invoice is stored, those aside whose commit *)
(* was not acknowledged.  And it is completed only with an invoice stored. *)
(***************************************************************************)
StoredOf(b) == {i \in DOMAIN GroupsOf(b) : <<b, i>> \in invoices}
Unacked(b)  == {i \in DOMAIN GroupsOf(b) : <<b, i, "lost">> \in mishaps}

CountedExactly ==
  \A b \in Batches :
    status[b] = "completed" =>
      /\ processed[b] \subseteq StoredOf(b)
      /\ StoredOf(b) \subseteq processed[b] \union Unacked(b)
      /\ processed[b] # {}

(***************************************************************************)
(* No invoice is left out without a reason: once its batch is completed, a *)
(* valid group is stored, or an invoice that shares a unique key with it   *)
(* is, or its number appears earlier in the file, or its INSERT failed.    *)
(***************************************************************************)
LandsOrCollides(b, i) ==
  \/ ~GroupAt(b, i).valid
  \/ Collides(b, i)
  \/ \E k \in 1..(i - 1) : GroupAt(b, k).number = GroupAt(b, i).number
  \/ <<b, i, "error">> \in mishaps

GroupsLandOrCollide ==
  \A b \in Batches :
    status[b] = "completed" =>
      \A i \in DOMAIN GroupsOf(b) : LandsOrCollides(b, i)

(***************************************************************************)
(* A completed batch is history: its counters and its invoices stay as     *)
(* they are and it is never failed or processed again, unless the commit   *)
(* that completed it was not acknowledged.                                 *)
(***************************************************************************)
CompletedIsFrozen ==
  [][\A b \in Batches :
       status[b] = "completed" /\ <<b, 0, "lost">> \notin mishaps =>
         /\ status'[b] = "completed"
         /\ processed'[b] = processed[b]
         /\ StoredOf(b)' = StoredOf(b)]_vars

(***************************************************************************)
(* Although start and update_counts look at no status, a batch comes back  *)
(* from failed only when a recovery had failed it under its owner.         *)
(***************************************************************************)
RevivedOnlyAfterRecovery ==
  [][\A b \in Batches :
       status[b] = "failed" /\ status'[b] # "failed" => b \in flagged]_vars

(***************************************************************************)
(* Why they hold: a batch belongs to the request that inserted it, and     *)
(* what is stored of it is what that request has counted so far.           *)
(***************************************************************************)
OneRequestPerBatch ==
  \A t, u \in Threads : t # u /\ cur[t] # NULL => cur[t] # cur[u]

BusyHasBatch == \A t \in Threads : pc[t] = "idle" <=> cur[t] = NULL

BatchIsInserted ==
  \A t \in Threads : cur[t] # NULL => status[cur[t]] # "absent"

NotYetCompleted ==
  \A t \in Threads :
    /\ pc[t] \in {"open", "check", "store"} => status[cur[t]] # "completed"
    /\ pc[t] = "abort" /\ status[cur[t]] = "completed" => <<cur[t], 0, "lost">> \in mishaps

FailedUnderOwner ==
  \A t \in Threads :
    pc[t] \in {"open", "check", "store"} /\ status[cur[t]] = "failed" => cur[t] \in flagged

PersistedAreStored ==
  \A t \in Threads :
    /\ cur[t] = NULL => plan[t] = {} /\ persisted[t] = {}
    /\ cur[t] # NULL =>
         /\ plan[t] \subseteq DOMAIN GroupsOf(cur[t])
         /\ persisted[t] \subseteq StoredOf(cur[t])
         /\ StoredOf(cur[t]) \subseteq persisted[t] \union Unacked(cur[t])

PlansGoodFiles ==
  \A t \in Threads :
    cur[t] # NULL /\ (pc[t] = "open" \/ upload[cur[t]].kind # "good") =>
      plan[t] = {} /\ persisted[t] = {}

AbsentHasNothing ==
  \A b \in Batches : status[b] = "absent" => \A inv \in invoices : inv[1] # b

OwnershipInv ==
  /\ OneRequestPerBatch
  /\ BusyHasBatch
  /\ BatchIsInserted
  /\ NotYetCompleted
  /\ FailedUnderOwner
  /\ PersistedAreStored
  /\ PlansGoodFiles
  /\ AbsentHasNothing

(***************************************************************************)
(* Why no group is forgotten: all groups before the next one are planned   *)
(* or have their reason not to be.                                         *)
(***************************************************************************)
InsertedHasUpload == \A b \in Batches : status[b] # "absent" => upload[b] \in Uploads

NextFollowsPlan ==
  \A t \in Threads :
    /\ next[t] >= 1
    /\ plan[t] \subseteq 1..(next[t] - 1)
    /\ pc[t] \in {"idle", "open"} \/ upload[cur[t]].kind # "good" => next[t] = 1
    /\ pc[t] = "store" => DOMAIN GroupsOf(cur[t]) \subseteq 1..(next[t] - 1)

GroupsPlanned ==
  \A t \in Threads :
    pc[t] \in {"check", "store"} =>
      \A i \in 1..(next[t] - 1) : i \in plan[t] \/ LandsOrCollides(cur[t], i)

PlanInv ==
  /\ InsertedHasUpload
  /\ NextFollowsPlan
  /\ GroupsPlanned
=============================================================================
