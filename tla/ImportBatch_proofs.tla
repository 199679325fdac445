------------------------- MODULE ImportBatch_proofs -------------------------
(***************************************************************************)
(* Proofs about ImportBatch, for every number of workers, threads, batches *)
(* and files and for every way the database may fail.                      *)
(***************************************************************************)
EXTENDS ImportBatch, TLAPS

(***************************************************************************)
(* The type invariant is inductive together with BusyHasBatch.             *)
(***************************************************************************)
LEMMA TypeInductive ==
  /\ Init => TypeOK /\ BusyHasBatch
  /\ TypeOK /\ BusyHasBatch /\ [Next]_vars => TypeOK' /\ BusyHasBatch'
<1>n. NULL \notin Batches
  BY NullAssumption DEF Batches
<1> USE <1>n, DbOutcomesAssumption
    DEF TypeOK, Statuses, Labels, table, local, BusyHasBatch, Goto, EndOf,
        UpdateCounts
<1>1. Init => TypeOK /\ BusyHasBatch
  BY DEF Init
<1>2. ASSUME TypeOK, BusyHasBatch, [Next]_vars
      PROVE  TypeOK' /\ BusyHasBatch'
  <2>1. ASSUME NEW t \in Threads, NEW u \in Uploads, Create(t, u) PROVE TypeOK' /\ BusyHasBatch'
    <3>1. PICK b \in Batches :
            /\ status' = [status EXCEPT ![b] = "uploaded"]
            /\ upload' = [upload EXCEPT ![b] = u]
            /\ \/ pc' = [pc EXCEPT ![t] = "open"] /\ cur' = [cur EXCEPT ![t] = b]
               \/ pc' = pc /\ cur' = cur
            /\ UNCHANGED <<age, processed, invoices, flagged, mishaps, next,
                           plan, persisted, up>>
      BY <2>1 DEF Create
    <3>2. TypeOK'
      BY <1>2, <3>1
    <3>3. BusyHasBatch'
      BY <1>2, <3>1
    <3>4. QED
      BY <3>2, <3>3
  <2>2. ASSUME NEW t \in Threads, RefuseFile(t) PROVE TypeOK' /\ BusyHasBatch'
    BY <1>2, <2>2 DEF RefuseFile
  <2>3. ASSUME NEW t \in Threads, Start(t) PROVE TypeOK' /\ BusyHasBatch'
    BY <1>2, <2>3 DEF Start
  <2>4. ASSUME NEW t \in Threads, RefuseHeader(t) PROVE TypeOK' /\ BusyHasBatch'
    BY <1>2, <2>4 DEF RefuseHeader
  <2>5. ASSUME NEW t \in Threads, Drop(t) PROVE TypeOK' /\ BusyHasBatch'
    BY <1>2, <2>5 DEF Drop, Checking
  <2>6. ASSUME NEW t \in Threads, LookUp(t) PROVE TypeOK' /\ BusyHasBatch'
    BY <1>2, <2>6 DEF LookUp, Checking
  <2>7. ASSUME NEW t \in Threads, Checked(t) PROVE TypeOK' /\ BusyHasBatch'
    BY <1>2, <2>7 DEF Checked
  <2>8. ASSUME NEW t \in Threads, Insert(t) PROVE TypeOK' /\ BusyHasBatch'
    <3>1. PICK i \in plan[t], o \in DbOutcomes :
            /\ invoices' = invoices \/ invoices' = invoices \union {<<cur[t], i>>}
            /\ persisted' = persisted \/ persisted' = [persisted EXCEPT ![t] = @ \union {i}]
            /\ \/ mishaps' = mishaps
               \/ o \in {"error", "lost"} /\ mishaps' = mishaps \union {<<cur[t], i, o>>}
            /\ plan' = [plan EXCEPT ![t] = @ \ {i}]
      BY <2>8 DEF Insert
    <3>2. UNCHANGED <<status, age, upload, processed, flagged, pc, cur, next, up>>
      BY <2>8 DEF Insert
    <3>3. cur[t] \in Batches /\ i \in Nat
      BY <1>2, <2>8, <3>1 DEF Insert
    <3>4. QED
      BY <1>2, <3>1, <3>2, <3>3
  <2>9. ASSUME NEW t \in Threads, Finish(t) PROVE TypeOK' /\ BusyHasBatch'
    BY <1>2, <2>9 DEF Finish, Outcome
  <2>10. ASSUME NEW t \in Threads, Abort(t) PROVE TypeOK' /\ BusyHasBatch'
    BY <1>2, <2>10 DEF Abort
  <2>11. ASSUME NEW w \in Workers, Boot(w) PROVE TypeOK' /\ BusyHasBatch'
    BY <1>2, <2>11 DEF Boot, RecoverInterruptedBatches, Interrupted
  <2>12. ASSUME NEW w \in Workers, Crash(w) PROVE TypeOK' /\ BusyHasBatch'
    BY <1>2, <2>12 DEF Crash
  <2>13. ASSUME NEW b \in Batches, HourPasses(b) PROVE TypeOK' /\ BusyHasBatch'
    BY <1>2, <2>13 DEF HourPasses
  <2>14. ASSUME NEW t \in Threads, Overflow(t) PROVE TypeOK' /\ BusyHasBatch'
    BY <1>2, <2>14 DEF Overflow
  <2>15. CASE UNCHANGED vars
    BY <1>2, <2>15 DEF vars
  <2>16. QED
    BY <1>2, <2>1, <2>2, <2>3, <2>4, <2>5, <2>6, <2>7, <2>8, <2>9, <2>10,
       <2>11, <2>12, <2>13, <2>14, <2>15 DEF Next, Step
<1>3. QED
  BY <1>1, <1>2

(***************************************************************************)
(* Every column and every request variable keeps its type.                 *)
(***************************************************************************)
THEOREM ImportTypes == Spec => []TypeOK
<1>1. Spec => [](TypeOK /\ BusyHasBatch)
  BY TypeInductive, PTL DEF Spec
<1>2. QED
  BY <1>1, PTL

(***************************************************************************)
(* The inductive invariant: the ownership of a batch by the request that   *)
(* inserted it, and what that makes of the counters.                       *)
(***************************************************************************)
IInv == TypeOK /\ OwnershipInv /\ CountedExactly

LEMMA InitSafe == Init => IInv
BY NullAssumption, TypeInductive
   DEF Init, IInv, OwnershipInv, OneRequestPerBatch, BatchIsInserted,
       NotYetCompleted, FailedUnderOwner, PersistedAreStored, PlansGoodFiles,
       AbsentHasNothing, CountedExactly

(***************************************************************************)
(* What the steps with several outcomes do.                                *)
(***************************************************************************)
LEMMA OwnsBatch ==
  ASSUME IInv, NEW t \in Threads, pc[t] # "idle"
  PROVE  cur[t] \in Batches /\ cur[t] # NULL /\ status[cur[t]] # "absent"
BY DEF IInv, TypeOK, OwnershipInv, BusyHasBatch, BatchIsInserted

\* The request moves on to a step, or ends.
MovesTo(t, label) == pc' = [pc EXCEPT ![t] = label] /\ cur' = cur
Ends(t) == pc' = [pc EXCEPT ![t] = "idle"] /\ cur' = [cur EXCEPT ![t] = NULL]

LEMMA StartStep ==
  ASSUME NEW t \in Threads, Start(t)
  PROVE  /\ pc[t] = "open"
         /\ \/ status' = status
            \/ status' = [status EXCEPT ![cur[t]] = "processing"]
         /\ MovesTo(t, "check") \/ Ends(t)
         /\ UNCHANGED <<upload, processed, invoices, flagged, mishaps, next,
                        plan, persisted, up>>
BY DEF Start, Goto, MovesTo, Ends

LEMMA RefuseHeaderStep ==
  ASSUME NEW t \in Threads, RefuseHeader(t)
  PROVE  /\ pc[t] = "check"
         /\ upload[cur[t]].kind = "header"
         /\ \/ status' = status /\ processed' = processed
            \/ /\ status' = [status EXCEPT ![cur[t]] = "failed"]
               /\ processed' = [processed EXCEPT ![cur[t]] = {}]
         /\ MovesTo(t, "abort") \/ Ends(t)
         /\ UNCHANGED <<age, upload, invoices, flagged, mishaps, next, plan,
                        persisted, up>>
BY DEF RefuseHeader, Goto, UpdateCounts, MovesTo, Ends

LEMMA InsertStep ==
  ASSUME NEW t \in Threads, Insert(t)
  PROVE  /\ pc[t] = "store"
         /\ \E i \in plan[t] :
              /\ \/ invoices' = invoices /\ persisted' = persisted
                 \/ /\ invoices' = invoices \union {<<cur[t], i>>}
                    /\ \/ persisted' = [persisted EXCEPT ![t] = @ \union {i}]
                       \/ /\ persisted' = persisted
                          /\ <<cur[t], i, "lost">> \in mishaps'
              /\ plan' = [plan EXCEPT ![t] = @ \ {i}]
         /\ mishaps \subseteq mishaps'
         /\ UNCHANGED <<status, age, upload, processed, flagged, pc, cur, next, up>>
BY DbOutcomesAssumption DEF Insert

LEMMA FinishStep ==
  ASSUME NEW t \in Threads, Finish(t)
  PROVE  /\ pc[t] = "store"
         /\ \/ status' = status /\ processed' = processed
            \/ /\ status' = [status EXCEPT ![cur[t]] = Outcome(t)]
               /\ processed' = [processed EXCEPT ![cur[t]] = persisted[t]]
         /\ mishaps \subseteq mishaps'
         /\ \/ Ends(t) /\ EndOf({t})
            \/ /\ MovesTo(t, "abort")
               /\ UNCHANGED <<next, plan, persisted>>
               /\ <<cur[t], 0, "lost">> \in mishaps' \/ status' = status
         /\ UNCHANGED <<age, upload, invoices, flagged, up>>
BY DbOutcomesAssumption DEF Finish, Goto, UpdateCounts, MovesTo, Ends

LEMMA StepSafe == IInv /\ [Next]_vars => IInv'
<1> SUFFICES ASSUME IInv, [Next]_vars PROVE IInv'
  OBVIOUS
<1>t. TypeOK' /\ BusyHasBatch'
  BY TypeInductive DEF IInv, OwnershipInv
<1>n. NULL \notin Batches
  BY NullAssumption DEF Batches
<1> USE <1>n
    DEF IInv, OwnershipInv, OneRequestPerBatch, BusyHasBatch, BatchIsInserted,
        NotYetCompleted, FailedUnderOwner, PersistedAreStored, PlansGoodFiles,
        AbsentHasNothing, CountedExactly, StoredOf, Unacked, GroupsOf,
        TypeOK, Statuses, Labels, table, local, Goto, EndOf, UpdateCounts, MovesTo, Ends
<1>1. ASSUME NEW t \in Threads, NEW u \in Uploads, Create(t, u) PROVE IInv'
  <2>1. PICK b \in Batches :
          /\ status[b] = "absent"
          /\ status' = [status EXCEPT ![b] = "uploaded"]
          /\ upload' = [upload EXCEPT ![b] = u]
          /\ pc[t] = "idle"
          /\ \/ pc' = [pc EXCEPT ![t] = "open"] /\ cur' = [cur EXCEPT ![t] = b]
             \/ pc' = pc /\ cur' = cur
          /\ UNCHANGED <<age, processed, invoices, flagged, mishaps, next,
                         plan, persisted, up>>
    BY <1>1 DEF Create
  <2>2. \A v \in Threads : cur[v] # b
    BY <2>1                      \* b was absent, so no request had it
  <2>3. /\ OneRequestPerBatch'
        /\ BatchIsInserted'
        /\ AbsentHasNothing'
    <3> HIDE DEF NotYetCompleted, FailedUnderOwner, PersistedAreStored,
                 PlansGoodFiles, CountedExactly
    <3>1. OneRequestPerBatch'
      BY <2>1, <2>2
    <3>2. BatchIsInserted'
      BY <2>1, <2>2
    <3>3. AbsentHasNothing'
      BY <2>1, <2>2
    <3>4. QED
      BY <3>1, <3>2, <3>3
  <2>4. NotYetCompleted' /\ FailedUnderOwner' /\ PlansGoodFiles'
    BY <1>t, <2>1, <2>2
  <2>5. \A j : <<b, j>> \notin invoices
    BY <2>1
  <2>6. PersistedAreStored' /\ CountedExactly'
    BY <1>t, <2>1, <2>2, <2>5
  <2>7. QED
    BY <1>t, <2>3, <2>4, <2>6
<1>2. ASSUME NEW t \in Threads, RefuseFile(t) PROVE IInv'
  <2> HIDE DEF OneRequestPerBatch, BatchIsInserted, NotYetCompleted,
               FailedUnderOwner, PersistedAreStored, PlansGoodFiles,
               AbsentHasNothing, CountedExactly
  <2>1. pc[t] = "open" /\ cur[t] \in Batches /\ cur[t] # NULL /\ status[cur[t]] # "absent"
    BY <1>2, OwnsBatch DEF RefuseFile
  <2>2. /\ \/ status' = status /\ processed' = processed
           \/ /\ status' = [status EXCEPT ![cur[t]] = "failed"]
              /\ processed' = [processed EXCEPT ![cur[t]] = {}]
        /\ Ends(t)
        /\ UNCHANGED <<upload, invoices, flagged, mishaps, next, plan, persisted>>
    BY <1>2 DEF RefuseFile
  <2>3. OneRequestPerBatch'
    BY <2>1, <2>2 DEF OneRequestPerBatch
  <2>4. BatchIsInserted'
    BY <2>1, <2>2 DEF BatchIsInserted
  <2>5. NotYetCompleted'
    BY <2>1, <2>2 DEF NotYetCompleted, OneRequestPerBatch
  <2>6. FailedUnderOwner'
    BY <2>1, <2>2 DEF FailedUnderOwner, OneRequestPerBatch
  <2>7. PlansGoodFiles'
    BY <2>1, <2>2 DEF PlansGoodFiles
  <2>8. PersistedAreStored'
    BY <2>1, <2>2 DEF PersistedAreStored, PlansGoodFiles
  <2>9. AbsentHasNothing'
    BY <2>1, <2>2 DEF AbsentHasNothing
  <2>10. CountedExactly'
    BY <2>1, <2>2 DEF CountedExactly
  <2>11. QED
    BY <1>t, <2>3, <2>4, <2>5, <2>6, <2>7, <2>8, <2>9, <2>10
<1>3. ASSUME NEW t \in Threads, Start(t) PROVE IInv'
  <2> HIDE DEF OneRequestPerBatch, BatchIsInserted, NotYetCompleted,
               FailedUnderOwner, PersistedAreStored, PlansGoodFiles,
               AbsentHasNothing, CountedExactly
  <2>1. pc[t] = "open" /\ cur[t] \in Batches /\ cur[t] # NULL /\ status[cur[t]] # "absent"
    BY <1>3, OwnsBatch, StartStep
  <2>2. /\ \/ status' = status
           \/ status' = [status EXCEPT ![cur[t]] = "processing"]
        /\ MovesTo(t, "check") \/ Ends(t)
        /\ UNCHANGED <<upload, processed, invoices, flagged, mishaps, next,
                       plan, persisted>>
    BY <1>3, StartStep
  <2>3. OneRequestPerBatch'
    BY <2>1, <2>2 DEF OneRequestPerBatch
  <2>4. BatchIsInserted'
    BY <2>1, <2>2 DEF BatchIsInserted
  <2>5. NotYetCompleted'
    BY <2>1, <2>2 DEF NotYetCompleted, OneRequestPerBatch
  <2>6. FailedUnderOwner'
    BY <2>1, <2>2 DEF FailedUnderOwner, OneRequestPerBatch
  <2>7. PlansGoodFiles'
    BY <2>1, <2>2 DEF PlansGoodFiles
  <2>8. PersistedAreStored'
    BY <2>1, <2>2 DEF PersistedAreStored, PlansGoodFiles
  <2>9. AbsentHasNothing'
    BY <2>1, <2>2 DEF AbsentHasNothing
  <2>10. CountedExactly'
    BY <2>1, <2>2 DEF CountedExactly
  <2>11. QED
    BY <1>t, <2>3, <2>4, <2>5, <2>6, <2>7, <2>8, <2>9, <2>10
<1>4. ASSUME NEW t \in Threads, RefuseHeader(t) PROVE IInv'
  <2> HIDE DEF OneRequestPerBatch, BatchIsInserted, NotYetCompleted,
               FailedUnderOwner, PersistedAreStored, PlansGoodFiles,
               AbsentHasNothing, CountedExactly
  <2>1. pc[t] = "check" /\ cur[t] \in Batches /\ cur[t] # NULL /\ status[cur[t]] # "absent"
    BY <1>4, OwnsBatch, RefuseHeaderStep
  <2>2. /\ upload[cur[t]].kind = "header"
        /\ \/ status' = status /\ processed' = processed
           \/ /\ status' = [status EXCEPT ![cur[t]] = "failed"]
              /\ processed' = [processed EXCEPT ![cur[t]] = {}]
        /\ MovesTo(t, "abort") \/ Ends(t)
        /\ UNCHANGED <<upload, invoices, flagged, mishaps, next, plan, persisted>>
    BY <1>4, RefuseHeaderStep
  <2>3. OneRequestPerBatch'
    BY <2>1, <2>2 DEF OneRequestPerBatch
  <2>4. BatchIsInserted'
    BY <2>1, <2>2 DEF BatchIsInserted
  <2>5. NotYetCompleted'
    BY <2>1, <2>2 DEF NotYetCompleted, OneRequestPerBatch
  <2>6. FailedUnderOwner'
    BY <2>1, <2>2 DEF FailedUnderOwner, OneRequestPerBatch
  <2>7. PlansGoodFiles'
    BY <2>1, <2>2 DEF PlansGoodFiles
  <2>8. PersistedAreStored'
    BY <2>1, <2>2 DEF PersistedAreStored, PlansGoodFiles
  <2>9. AbsentHasNothing'
    BY <2>1, <2>2 DEF AbsentHasNothing
  <2>10. CountedExactly'
    BY <2>1, <2>2 DEF CountedExactly
  <2>11. QED
    BY <1>t, <2>3, <2>4, <2>5, <2>6, <2>7, <2>8, <2>9, <2>10
<1>5. ASSUME NEW t \in Threads, Drop(t) PROVE IInv'
  BY <1>t, <1>5 DEF Drop, Checking
<1>6. ASSUME NEW t \in Threads, LookUp(t) PROVE IInv'
  <2> HIDE DEF OneRequestPerBatch, BatchIsInserted, NotYetCompleted,
               FailedUnderOwner, PersistedAreStored, PlansGoodFiles,
               AbsentHasNothing, CountedExactly
  <2>1. pc[t] = "check" /\ cur[t] \in Batches /\ cur[t] # NULL
    BY <1>6, OwnsBatch DEF LookUp, Checking
  <2>2. /\ upload[cur[t]].kind = "good" /\ next[t] \in DOMAIN GroupsOf(cur[t])
        /\ pc' = pc \/ pc' = [pc EXCEPT ![t] = "abort"]
        /\ plan' = plan \/ plan' = [plan EXCEPT ![t] = @ \union {next[t]}]
        /\ UNCHANGED <<status, upload, processed, invoices, flagged, mishaps, cur, persisted>>
    BY <1>6 DEF LookUp, Checking
  <2>3. OneRequestPerBatch'
    BY <2>1, <2>2 DEF OneRequestPerBatch
  <2>4. BatchIsInserted'
    BY <2>1, <2>2 DEF BatchIsInserted
  <2>5. NotYetCompleted'
    BY <2>1, <2>2 DEF NotYetCompleted, OneRequestPerBatch
  <2>6. FailedUnderOwner'
    BY <2>1, <2>2 DEF FailedUnderOwner, OneRequestPerBatch
  <2>7. PlansGoodFiles'
    BY <2>1, <2>2 DEF PlansGoodFiles
  <2>8. PersistedAreStored'
    BY <2>1, <2>2 DEF PersistedAreStored, PlansGoodFiles
  <2>9. AbsentHasNothing'
    BY <2>1, <2>2 DEF AbsentHasNothing
  <2>10. CountedExactly'
    BY <2>1, <2>2 DEF CountedExactly
  <2>11. QED
    BY <1>t, <2>3, <2>4, <2>5, <2>6, <2>7, <2>8, <2>9, <2>10
<1>7. ASSUME NEW t \in Threads, Checked(t) PROVE IInv'
  BY <1>t, <1>7 DEF Checked
<1>8. ASSUME NEW t \in Threads, Insert(t) PROVE IInv'
  <2>1. PICK i \in plan[t] :
          /\ \/ invoices' = invoices /\ persisted' = persisted
             \/ /\ invoices' = invoices \union {<<cur[t], i>>}
                /\ \/ persisted' = [persisted EXCEPT ![t] = @ \union {i}]
                   \/ persisted' = persisted /\ <<cur[t], i, "lost">> \in mishaps'
          /\ plan' = [plan EXCEPT ![t] = @ \ {i}]
          /\ mishaps \subseteq mishaps'
          /\ UNCHANGED <<status, age, upload, processed, flagged, pc, cur, next, up>>
    BY <1>8, InsertStep
  <2>2. /\ pc[t] = "store" /\ cur[t] \in Batches /\ cur[t] # NULL
        /\ status[cur[t]] # "absent"
    BY <1>8, OwnsBatch, InsertStep
  <2>n. status[cur[t]] # "completed" /\ upload[cur[t]].kind = "good"
    BY <2>1, <2>2
  <2>3. OneRequestPerBatch' /\ BatchIsInserted' /\ FailedUnderOwner'
    BY <2>1
  <2>4. NotYetCompleted' /\ PlansGoodFiles' /\ AbsentHasNothing'
    BY <1>t, <2>1, <2>2, <2>n
  <2>5. ASSUME NEW b \in Batches, b # cur[t]
        PROVE  StoredOf(b)' = StoredOf(b) /\ Unacked(b) \subseteq Unacked(b)'
    BY <2>1, <2>5
  <2>6. PersistedAreStored'
    <3>1. ASSUME NEW v \in Threads, v # t, cur[v] # NULL
          PROVE  /\ plan'[v] \subseteq DOMAIN upload[cur[v]].groups
                 /\ persisted'[v] \subseteq StoredOf(cur[v])'
                 /\ StoredOf(cur[v])' \subseteq persisted'[v] \union Unacked(cur[v])'
      <4>1. cur[v] \in Batches /\ cur[v] # cur[t]
        BY <2>2, <3>1
      <4>2. plan'[v] = plan[v] /\ persisted'[v] = persisted[v]
        BY <2>1, <3>1
      <4>3. QED
        BY <2>1, <2>5, <3>1, <4>1, <4>2
    <3>2. /\ plan'[t] \subseteq DOMAIN upload[cur[t]].groups
          /\ persisted'[t] \subseteq StoredOf(cur[t])'
          /\ StoredOf(cur[t])' \subseteq persisted'[t] \union Unacked(cur[t])'
      <4>1. /\ plan[t] \subseteq DOMAIN upload[cur[t]].groups
            /\ persisted[t] \subseteq StoredOf(cur[t])
            /\ StoredOf(cur[t]) \subseteq persisted[t] \union Unacked(cur[t])
        BY <2>2
      <4>2. plan'[t] = plan[t] \ {i}
        BY <2>1
      <4>3. \/ invoices' = invoices /\ persisted'[t] = persisted[t]
            \/ /\ invoices' = invoices \union {<<cur[t], i>>}
               /\ \/ persisted'[t] = persisted[t] \union {i}
                  \/ /\ persisted'[t] = persisted[t]
                     /\ <<cur[t], i, "lost">> \in mishaps'
        BY <2>1
      <4>4. i \in DOMAIN upload[cur[t]].groups /\ Unacked(cur[t]) \subseteq Unacked(cur[t])'
        BY <2>1, <4>1
      <4>5. CASE invoices' = invoices /\ persisted'[t] = persisted[t]
        BY <2>1, <4>1, <4>2, <4>4, <4>5
      <4>6. CASE invoices' = invoices \union {<<cur[t], i>>}
        <5>1. StoredOf(cur[t])' = StoredOf(cur[t]) \union {i}
          BY <2>1, <4>4, <4>6
        <5>2. i \in persisted'[t] \/ i \in Unacked(cur[t])'
          <6>1. CASE i \in persisted'[t]
            BY <6>1
          <6>2. CASE <<cur[t], i, "lost">> \in mishaps'
            BY <2>1, <4>4, <6>2
          <6>3. CASE invoices' = invoices /\ persisted'[t] = persisted[t]
            <7>1. i \in StoredOf(cur[t])
              BY <4>4, <4>6, <6>3
            <7>2. QED
              BY <4>1, <4>4, <6>3, <7>1
          <6>4. QED
            BY <4>3, <6>1, <6>2, <6>3
        <5>3. persisted[t] \subseteq persisted'[t] /\ persisted'[t] \subseteq persisted[t] \union {i}
          BY <4>3
        <5>4. QED
          BY <4>1, <4>2, <4>4, <5>1, <5>2, <5>3
      <4>7. QED
        BY <4>3, <4>5, <4>6
    <3>3. \A v \in Threads : cur[v] = NULL => plan'[v] = {} /\ persisted'[v] = {}
      BY <2>1, <2>2
    <3>4. QED
      BY <2>1, <3>1, <3>2, <3>3
  <2>7. CountedExactly'
    BY <2>1, <2>2, <2>n, <2>5
  <2>8. QED
    BY <1>t, <2>3, <2>4, <2>6, <2>7
<1>9. ASSUME NEW t \in Threads, Finish(t) PROVE IInv'
  <2>1. pc[t] = "store" /\ cur[t] \in Batches /\ cur[t] # NULL
    BY <1>9, OwnsBatch, FinishStep
  <2>2. /\ status[cur[t]] # "completed"
        /\ status[cur[t]] = "failed" => cur[t] \in flagged
    BY <2>1
  <2>3. /\ \/ status' = status /\ processed' = processed
           \/ /\ \/ status' = [status EXCEPT ![cur[t]] = "completed"] /\ persisted[t] # {}
                 \/ status' = [status EXCEPT ![cur[t]] = "failed"]
              /\ processed' = [processed EXCEPT ![cur[t]] = persisted[t]]
        /\ mishaps \subseteq mishaps'
        /\ UNCHANGED <<age, upload, invoices, flagged, up>>
    BY <1>9, FinishStep DEF Outcome
  <2>4. AbsentHasNothing'
    BY <1>t, <2>1, <2>3
  <2>5. CountedExactly'
    <3>1. ASSUME NEW b \in Batches
          PROVE  StoredOf(b)' = StoredOf(b) /\ Unacked(b) \subseteq Unacked(b)'
      BY <2>3
    <3>2. persisted[t] \subseteq StoredOf(cur[t]) /\ StoredOf(cur[t]) \subseteq persisted[t] \union Unacked(cur[t])
      BY <2>1
    <3>3. ASSUME NEW b \in Batches, status'[b] = "completed", b # cur[t]
          PROVE  status[b] = "completed" /\ processed'[b] = processed[b]
      BY <2>1, <2>3, <3>3
    <3>4. status'[cur[t]] = "completed" => processed'[cur[t]] = persisted[t] /\ persisted[t] # {}
      BY <2>1, <2>2, <2>3
    <3>5. QED
      BY <3>1, <3>2, <3>3, <3>4
  <2>6. CASE Ends(t) /\ EndOf({t})
    <3>1. OneRequestPerBatch' /\ BatchIsInserted'
      BY <1>t, <2>1, <2>3, <2>6
    <3>2. NotYetCompleted' /\ FailedUnderOwner'
      BY <1>t, <2>1, <2>3, <2>6
    <3>3. PlansGoodFiles'
      BY <1>t, <2>1, <2>3, <2>6
    <3>4. PersistedAreStored'
      BY <1>t, <2>1, <2>3, <2>6
    <3>5. QED
      BY <1>t, <2>4, <2>5, <3>1, <3>2, <3>3, <3>4
  <2>7. CASE /\ MovesTo(t, "abort")
             /\ UNCHANGED <<next, plan, persisted>>
             /\ <<cur[t], 0, "lost">> \in mishaps' \/ status' = status
    <3>1. OneRequestPerBatch' /\ BatchIsInserted'
      BY <1>t, <2>1, <2>3, <2>7
    <3>2. NotYetCompleted' /\ FailedUnderOwner'
      BY <1>t, <2>1, <2>2, <2>3, <2>7
    <3>3. PlansGoodFiles'
      BY <1>t, <2>1, <2>3, <2>7
    <3>4. PersistedAreStored'
      BY <1>t, <2>1, <2>3, <2>7
    <3>5. QED
      BY <1>t, <2>4, <2>5, <3>1, <3>2, <3>3, <3>4
  <2>8. QED
    BY <1>9, <2>6, <2>7, FinishStep
<1>10. ASSUME NEW t \in Threads, Abort(t) PROVE IInv'
  <2> HIDE DEF OneRequestPerBatch, BatchIsInserted, NotYetCompleted,
               FailedUnderOwner, PersistedAreStored, PlansGoodFiles,
               AbsentHasNothing, CountedExactly
  <2>1. pc[t] = "abort" /\ cur[t] \in Batches /\ cur[t] # NULL /\ status[cur[t]] # "absent"
    BY <1>10, OwnsBatch DEF Abort
  <2>2. /\ \/ status' = status /\ processed' = processed
           \/ /\ status' = [status EXCEPT ![cur[t]] = "failed"]
              /\ processed' = [processed EXCEPT ![cur[t]] = persisted[t]]
        /\ Ends(t) /\ EndOf({t})
        /\ UNCHANGED <<upload, invoices, flagged, mishaps>>
    BY <1>10 DEF Abort
  <2>3. OneRequestPerBatch'
    BY <2>1, <2>2 DEF OneRequestPerBatch
  <2>4. BatchIsInserted'
    BY <2>1, <2>2 DEF BatchIsInserted
  <2>5. NotYetCompleted'
    BY <2>1, <2>2 DEF NotYetCompleted, OneRequestPerBatch
  <2>6. FailedUnderOwner'
    BY <2>1, <2>2 DEF FailedUnderOwner, OneRequestPerBatch
  <2>7. PlansGoodFiles'
    BY <2>1, <2>2 DEF PlansGoodFiles
  <2>8. PersistedAreStored'
    BY <2>1, <2>2 DEF PersistedAreStored, PlansGoodFiles
  <2>9. AbsentHasNothing'
    BY <2>1, <2>2 DEF AbsentHasNothing
  <2>10. CountedExactly'
    BY <2>1, <2>2 DEF CountedExactly
  <2>11. QED
    BY <1>t, <2>3, <2>4, <2>5, <2>6, <2>7, <2>8, <2>9, <2>10
<1>11. ASSUME NEW w \in Workers, Boot(w) PROVE IInv'
  BY <1>t, <1>11 DEF Boot, RecoverInterruptedBatches, Interrupted, Unfinished
<1>12. ASSUME NEW w \in Workers, Crash(w) PROVE IInv'
  BY <1>t, <1>12 DEF Crash
<1>13. ASSUME NEW b \in Batches, HourPasses(b) PROVE IInv'
  BY <1>t, <1>13 DEF HourPasses
<1>14. ASSUME NEW t \in Threads, Overflow(t) PROVE IInv'
  BY <1>t, <1>14 DEF Overflow
<1>15. CASE UNCHANGED vars
  BY <1>t, <1>15 DEF vars
<1>16. QED
  BY <1>1, <1>2, <1>3, <1>4, <1>5, <1>6, <1>7, <1>8, <1>9, <1>10, <1>11,
     <1>12, <1>13, <1>14, <1>15 DEF Next, Step

LEMMA Safe == Spec => []IInv
BY InitSafe, StepSafe, PTL DEF Spec

(***************************************************************************)
(* The counters of a completed batch are what the invoices table holds.    *)
(***************************************************************************)
THEOREM CountedTheorem == Spec => []CountedExactly
<1>1. IInv => CountedExactly
  BY DEF IInv
<1>2. QED
  BY Safe, <1>1, PTL

(***************************************************************************)
(* A batch completed with an acknowledged commit stays as it is.           *)
(***************************************************************************)
Frozen(b) ==
  status[b] = "completed" /\ <<b, 0, "lost">> \notin mishaps =>
    /\ status'[b] = "completed"
    /\ processed'[b] = processed[b]
    /\ StoredOf(b)' = StoredOf(b)

LEMMA StepFreezes ==
  ASSUME IInv, [Next]_vars, NEW b \in Batches
  PROVE  Frozen(b)
<1> SUFFICES ASSUME status[b] = "completed", <<b, 0, "lost">> \notin mishaps
             PROVE  /\ status'[b] = "completed"
                    /\ processed'[b] = processed[b]
                    /\ StoredOf(b)' = StoredOf(b)
  BY DEF Frozen
<1>o. ASSUME NEW t \in Threads PROVE pc[t] # "idle" => cur[t] # b
  BY DEF IInv, OwnershipInv, NotYetCompleted, TypeOK, Labels
<1> USE DEF IInv, TypeOK, StoredOf, GroupsOf, UpdateCounts, table
<1>1. ASSUME NEW t \in Threads, NEW u \in Uploads, Create(t, u)
      PROVE  UNCHANGED <<status[b], processed[b], upload[b], invoices>>
  BY <1>1 DEF Create
<1>2. ASSUME NEW t \in Threads, RefuseFile(t) \/ RefuseHeader(t) \/ Abort(t)
      PROVE  UNCHANGED <<status[b], processed[b], upload[b], invoices>>
  <2>1. cur[t] # b
    BY <1>o, <1>2 DEF RefuseFile, RefuseHeader, Abort
  <2>2. QED
    BY <1>2, <2>1 DEF RefuseFile, RefuseHeader, Abort
<1>3. ASSUME NEW t \in Threads, Start(t)
      PROVE  UNCHANGED <<status[b], processed[b], upload[b], invoices>>
  BY <1>o, <1>3, StartStep
<1>4. ASSUME NEW t \in Threads, Drop(t) \/ LookUp(t) \/ Checked(t) \/ Overflow(t)
      PROVE  UNCHANGED <<status[b], processed[b], upload[b], invoices>>
  BY <1>4 DEF Drop, LookUp, Checked, Overflow
<1>5. ASSUME NEW t \in Threads, Insert(t)
      PROVE  UNCHANGED <<status[b], processed[b], upload[b], StoredOf(b)>>
  BY <1>o, <1>5, InsertStep
<1>6. ASSUME NEW t \in Threads, Finish(t)
      PROVE  UNCHANGED <<status[b], processed[b], upload[b], invoices>>
  BY <1>o, <1>6, FinishStep
<1>7. ASSUME NEW w \in Workers, Boot(w) \/ Crash(w)
      PROVE  UNCHANGED <<status[b], processed[b], upload[b], invoices>>
  BY <1>7 DEF Boot, RecoverInterruptedBatches, Crash, Interrupted, Unfinished
<1>8. ASSUME NEW c \in Batches, HourPasses(c)
      PROVE  UNCHANGED <<status[b], processed[b], upload[b], invoices>>
  BY <1>8 DEF HourPasses
<1>9. CASE UNCHANGED vars
  BY <1>9 DEF vars
<1>10. QED
  BY <1>1, <1>2, <1>3, <1>4, <1>5, <1>6, <1>7, <1>8, <1>9 DEF Next, Step

THEOREM FrozenTheorem == Spec => CompletedIsFrozen
<1>1. IInv /\ [Next]_vars => [\A b \in Batches : Frozen(b)]_vars
  BY StepFreezes
<1>2. QED
  BY Safe, <1>1, PTL DEF Spec, CompletedIsFrozen, Frozen

(***************************************************************************)
(* A failed batch comes back only after a recovery has failed it.          *)
(***************************************************************************)
Revived(b) == status[b] = "failed" /\ status'[b] # "failed" => b \in flagged

LEMMA StepRevives ==
  ASSUME IInv, [Next]_vars, NEW b \in Batches
  PROVE  Revived(b)
<1> SUFFICES ASSUME status[b] = "failed", status'[b] # "failed" PROVE b \in flagged
  BY DEF Revived
<1>o. ASSUME NEW t \in Threads, pc[t] \in {"open", "check", "store"}, cur[t] = b
      PROVE  b \in flagged
  BY <1>o DEF IInv, OwnershipInv, FailedUnderOwner
<1> USE DEF IInv, TypeOK, UpdateCounts, table
<1>1. ASSUME NEW t \in Threads, NEW u \in Uploads, Create(t, u) PROVE b \in flagged
  BY <1>1 DEF Create
<1>2. ASSUME NEW t \in Threads, RefuseFile(t) \/ RefuseHeader(t) \/ Abort(t)
      PROVE  b \in flagged
  BY <1>2 DEF RefuseFile, RefuseHeader, Abort
<1>3. ASSUME NEW t \in Threads, Start(t) PROVE b \in flagged
  BY <1>o, <1>3, StartStep
<1>4. ASSUME NEW t \in Threads, Drop(t) \/ LookUp(t) \/ Checked(t) \/ Overflow(t)
      PROVE  b \in flagged
  BY <1>4 DEF Drop, LookUp, Checked, Overflow
<1>5. ASSUME NEW t \in Threads, Insert(t) PROVE b \in flagged
  BY <1>5, InsertStep
<1>6. ASSUME NEW t \in Threads, Finish(t) PROVE b \in flagged
  BY <1>o, <1>6, FinishStep
<1>7. ASSUME NEW w \in Workers, Boot(w) \/ Crash(w) PROVE b \in flagged
  BY <1>7 DEF Boot, RecoverInterruptedBatches, Crash, Interrupted
<1>8. ASSUME NEW c \in Batches, HourPasses(c) PROVE b \in flagged
  BY <1>8 DEF HourPasses
<1>9. CASE UNCHANGED vars
  BY <1>9 DEF vars
<1>10. QED
  BY <1>1, <1>2, <1>3, <1>4, <1>5, <1>6, <1>7, <1>8, <1>9 DEF Next, Step

THEOREM RevivedTheorem == Spec => RevivedOnlyAfterRecovery
<1>1. IInv /\ [Next]_vars => [\A b \in Batches : Revived(b)]_vars
  BY StepRevives
<1>2. QED
  BY Safe, <1>1, PTL DEF Spec, RevivedOnlyAfterRecovery, Revived

-----------------------------------------------------------------------------
(***************************************************************************)
(* No valid group of a completed batch is left out without a reason.       *)
(***************************************************************************)
LandInv == PlanInv /\ GroupsLandOrCollide

LEMMA InitPlans == Init => LandInv
BY DEF Init, LandInv, PlanInv, InsertedHasUpload, NextFollowsPlan,
       GroupsPlanned, GroupsLandOrCollide

\* A group that has landed or collided has done so for good.
LEMMA LandedStays ==
  ASSUME IInv, NEW b \in Batches, NEW i, LandsOrCollides(b, i),
         invoices \subseteq invoices', mishaps \subseteq mishaps',
         status[b] # "absent",
         \A c \in Batches : status[c] # "absent" => upload'[c] = upload[c]
  PROVE  LandsOrCollides(b, i)'
<1>1. upload'[b] = upload[b]
  OBVIOUS
<1>2. ASSUME Collides(b, i) PROVE Collides(b, i)'
  <2>1. PICK inv \in invoices : Clash(b, i, inv[1], inv[2])
    BY <1>2 DEF Collides
  <2>2. inv[1] \in Batches /\ status[inv[1]] # "absent"
    BY <2>1 DEF IInv, TypeOK, OwnershipInv, AbsentHasNothing
  <2>3. inv \in invoices' /\ upload'[inv[1]] = upload[inv[1]]
    BY <2>1, <2>2
  <2>4. QED
    BY <1>1, <2>1, <2>3 DEF Collides, Clash, GroupAt, GroupsOf
<1>3. QED
  BY <1>1, <1>2 DEF LandsOrCollides, GroupAt, GroupsOf

\* The request that looks for a batch's duplicates by UUID or by number
\* finds only invoices that the unique keys would refuse.
LEMMA ExistsCollides ==
  ASSUME NEW b, NEW i, Exists(b, i)
  PROVE  Collides(b, i)
BY DEF Exists, GetByUuid, GetByCompanyAndNumber, Collides, Clash

\* What the insertion leaves out of the plan has a reason.
LEMMA InsertLands ==
  ASSUME NEW t \in Threads, Insert(t), NEW c, c = cur[t]
  PROVE  \E i \in plan[t] :
           /\ plan' = [plan EXCEPT ![t] = @ \ {i}]
           /\ LandsOrCollides(c, i)'
           /\ invoices \subseteq invoices'
           /\ mishaps \subseteq mishaps'
           /\ UNCHANGED <<status, upload, pc, cur, next>>
<1>1. PICK i \in plan[t], o \in DbOutcomes :
        LET applied == o # "error" /\ ~Collides(c, i)
        IN /\ invoices' = IF applied THEN invoices \union {<<c, i>>} ELSE invoices
           /\ mishaps' = IF o = "ok" THEN mishaps
                         ELSE mishaps \union {<<c, i, o>>}
           /\ plan' = [plan EXCEPT ![t] = @ \ {i}]
           /\ UNCHANGED <<status, upload, pc, cur, next>>
  BY DEF Insert
<1>2. invoices \subseteq invoices' /\ mishaps \subseteq mishaps'
  BY <1>1
<1>3. LandsOrCollides(c, i)'
  <2>1. CASE o = "error"
    BY <1>1, <2>1 DEF LandsOrCollides
  <2>2. CASE Collides(c, i)
    BY <1>1, <1>2, <2>2 DEF LandsOrCollides, Collides, Clash, GroupAt, GroupsOf
  <2>3. CASE o # "error" /\ ~Collides(c, i)
    <3>1. <<c, i>> \in invoices'
      BY <1>1, <2>3
    <3>2. Clash(c, i, c, i)'
      BY DEF Clash
    <3>3. Collides(c, i)'
      <4>1. \E inv \in invoices' : Clash(c, i, inv[1], inv[2])'
        <5>1. <<c, i>>[1] = c /\ <<c, i>>[2] = i
          OBVIOUS
        <5>2. Clash(c, i, <<c, i>>[1], <<c, i>>[2])'
          BY <3>2, <5>1
        <5>3. QED
          BY <3>1, <5>2
      <4>2. QED
        BY <4>1 DEF Collides
    <3>4. QED
      BY <3>3 DEF LandsOrCollides
  <2>4. QED
    BY <2>1, <2>2, <2>3
<1>4. QED
  BY <1>1, <1>2, <1>3

LEMMA StepPlans == IInv /\ LandInv /\ [Next]_vars => LandInv'
<1> SUFFICES ASSUME IInv, LandInv, [Next]_vars PROVE LandInv'
  OBVIOUS
<1>n. NULL \notin Batches
  BY NullAssumption DEF Batches
<1>o. ASSUME NEW t \in Threads, pc[t] # "idle"
      PROVE  cur[t] \in Batches /\ cur[t] # NULL /\ status[cur[t]] # "absent"
  BY <1>o, OwnsBatch
<1>e. /\ \A t \in Threads : plan[t] \in SUBSET Nat /\ next[t] \in Nat
      /\ pc \in [Threads -> Labels] /\ cur \in [Threads -> Batches \union {NULL}]
      /\ next \in [Threads -> Nat] /\ plan \in [Threads -> SUBSET Nat]
      /\ status \in [Batches -> Statuses] /\ upload \in [Batches -> Uploads \union {NULL}]
  BY DEF IInv, TypeOK
\* Most steps plan nothing, and store nothing.
<1>q. ASSUME UNCHANGED <<upload, invoices>>, mishaps \subseteq mishaps',
             \A b \in Batches : status'[b] # "absent" => status[b] # "absent",
             \A b \in Batches : status'[b] = "completed" =>
               \/ status[b] = "completed"
               \/ \A i \in DOMAIN GroupsOf(b) : LandsOrCollides(b, i),
             \A v \in Threads :
               \/ pc'[v] = "idle" /\ next'[v] = 1 /\ plan'[v] = {}
               \/ /\ pc'[v] = pc[v] \/ pc'[v] = "abort" \/ (pc[v] = "open" /\ pc'[v] = "check")
                  /\ pc[v] \in {"idle", "open"} => pc'[v] # "abort"
                  /\ cur'[v] = cur[v] /\ next'[v] = next[v] /\ plan'[v] = plan[v]
      PROVE  LandInv'
  <2>1. ASSUME NEW b \in Batches, NEW i, LandsOrCollides(b, i)
        PROVE  LandsOrCollides(b, i)'
    BY <1>q, <2>1 DEF LandsOrCollides, Collides, Clash, GroupAt, GroupsOf
  <2>2. GroupsLandOrCollide'
    BY <1>q, <2>1 DEF LandInv, GroupsLandOrCollide, GroupsOf
  <2>3. InsertedHasUpload'
    BY <1>q DEF LandInv, PlanInv, InsertedHasUpload
  <2>4. NextFollowsPlan'
    BY <1>q, <1>e DEF LandInv, PlanInv, NextFollowsPlan, GroupsOf
  <2>5. GroupsPlanned'
    <3>1. SUFFICES ASSUME NEW v \in Threads, pc'[v] \in {"check", "store"},
                          NEW i \in 1..(next'[v] - 1)
                   PROVE  i \in plan'[v] \/ LandsOrCollides(cur[v], i)'
      BY DEF GroupsPlanned
    <3>2. /\ cur'[v] = cur[v] /\ next'[v] = next[v] /\ plan'[v] = plan[v]
          /\ pc[v] \in {"open", "check", "store"}
      BY <1>q, <3>1
    <3>3. PICK c \in Batches : c = cur[v]
      BY <1>o, <3>2
    <3>4. CASE pc[v] \in {"check", "store"}
      <4>1. i \in plan[v] \/ LandsOrCollides(c, i)
        BY <3>1, <3>2, <3>3, <3>4 DEF LandInv, PlanInv, GroupsPlanned
      <4>2. i \in plan[v] \/ LandsOrCollides(c, i)'
        BY <2>1, <4>1
      <4>3. QED
        BY <3>2, <3>3, <4>2
    <3>5. CASE pc[v] = "open"
      BY <1>e, <3>1, <3>2, <3>5 DEF LandInv, PlanInv, NextFollowsPlan
    <3>6. QED
      BY <3>2, <3>4, <3>5
  <2>6. QED
    BY <2>2, <2>3, <2>4, <2>5 DEF LandInv, PlanInv
<1>1. ASSUME NEW t \in Threads, RefuseFile(t) PROVE LandInv'
  <2>1. cur[t] \in Batches /\ status[cur[t]] # "absent"
    BY <1>o, <1>1 DEF RefuseFile
  <2>2. next[t] = 1 /\ plan[t] = {}
    BY <1>1, <1>e DEF RefuseFile, LandInv, PlanInv, NextFollowsPlan
  <2>3. /\ UNCHANGED <<upload, invoices, mishaps, next, plan>>
        /\ Ends(t)
        /\ status' = status \/ status' = [status EXCEPT ![cur[t]] = "failed"]
    BY <1>1 DEF RefuseFile, UpdateCounts, Goto, Ends
  <2>4. QED
    BY <1>e, <1>q, <2>1, <2>2, <2>3 DEF Ends
<1>2. ASSUME NEW t \in Threads, Start(t) PROVE LandInv'
  <2>1. cur[t] \in Batches /\ status[cur[t]] # "absent"
    BY <1>o, <1>2, StartStep
  <2>2. next[t] = 1 /\ plan[t] = {}
    BY <1>2, <1>e, StartStep DEF LandInv, PlanInv, NextFollowsPlan
  <2>3. QED
    BY <1>2, <1>e, <1>q, <2>1, <2>2, StartStep DEF Ends, MovesTo
<1>3. ASSUME NEW t \in Threads, RefuseHeader(t) PROVE LandInv'
  <2>1. cur[t] \in Batches /\ status[cur[t]] # "absent"
    BY <1>o, <1>3, RefuseHeaderStep
  <2>2. next[t] = 1 /\ plan[t] = {}
    BY <1>3, <1>e, RefuseHeaderStep DEF LandInv, PlanInv, NextFollowsPlan
  <2>3. QED
    BY <1>3, <1>e, <1>q, <2>1, <2>2, RefuseHeaderStep DEF Ends, MovesTo
<1>4. ASSUME NEW t \in Threads, Abort(t) PROVE LandInv'
  <2>1. cur[t] \in Batches /\ status[cur[t]] # "absent"
    BY <1>o, <1>4 DEF Abort
  <2>2. /\ UNCHANGED <<upload, invoices, mishaps>>
        /\ Ends(t) /\ EndOf({t})
        /\ status' = status \/ status' = [status EXCEPT ![cur[t]] = "failed"]
    BY <1>4 DEF Abort, UpdateCounts, Goto, Ends
  <2>3. QED
    BY <1>e, <1>q, <2>1, <2>2 DEF Ends, EndOf
<1>5. ASSUME NEW w \in Workers, Boot(w) PROVE LandInv'
  BY <1>5, <1>e, <1>q DEF Boot, RecoverInterruptedBatches, local, Interrupted, Unfinished
<1>6. ASSUME NEW w \in Workers, Crash(w) PROVE LandInv'
  BY <1>6, <1>e, <1>q DEF Crash, EndOf, table
<1>7. ASSUME NEW b \in Batches, HourPasses(b) PROVE LandInv'
  BY <1>7, <1>e, <1>q DEF HourPasses, local
<1>8. CASE UNCHANGED vars
  BY <1>8, <1>e, <1>q DEF vars, local, table
<1>9. ASSUME NEW t \in Threads, Finish(t) PROVE LandInv'
  <2>1. PICK c \in Batches : c = cur[t] /\ status[c] # "absent"
    BY <1>o, <1>9, FinishStep
  <2>2. ASSUME NEW i \in DOMAIN GroupsOf(c) PROVE LandsOrCollides(c, i)
    <3>1. pc[t] = "store" /\ plan[t] = {}
      BY <1>9 DEF Finish
    <3>2. i \in 1..(next[t] - 1)
      BY <2>1, <3>1 DEF LandInv, PlanInv, NextFollowsPlan
    <3>3. QED
      BY <2>1, <3>1, <3>2 DEF LandInv, PlanInv, GroupsPlanned
  <2>3. \A b \in Batches : b # c => status'[b] = status[b]
    BY <1>9, <1>e, <2>1, FinishStep
  <2>4. /\ UNCHANGED <<upload, invoices>> /\ mishaps \subseteq mishaps'
        /\ \A b \in Batches : status'[b] # "absent" => status[b] # "absent"
        /\ \A b \in Batches : status'[b] = "completed" => status[b] = "completed" \/ b = c
    BY <1>9, <2>1, <2>3, FinishStep
  <2>5. ASSUME NEW v \in Threads
        PROVE  \/ pc'[v] = "idle" /\ next'[v] = 1 /\ plan'[v] = {}
               \/ /\ pc'[v] = pc[v] \/ pc'[v] = "abort"
                  /\ pc[v] \in {"idle", "open"} => pc'[v] # "abort"
                  /\ cur'[v] = cur[v] /\ next'[v] = next[v] /\ plan'[v] = plan[v]
    <3>1. CASE Ends(t) /\ EndOf({t})
      BY <1>e, <3>1 DEF Ends, EndOf
    <3>2. CASE MovesTo(t, "abort") /\ UNCHANGED <<next, plan, persisted>>
      BY <1>9, <1>e, <3>2, FinishStep DEF MovesTo
    <3>3. QED
      BY <1>9, <3>1, <3>2, FinishStep
  <2>6. QED
    BY <1>q, <2>2, <2>4, <2>5
<1>10. ASSUME NEW t \in Threads, NEW u \in Uploads, Create(t, u) PROVE LandInv'
  <2>1. PICK b \in Batches :
          /\ status[b] = "absent"
          /\ status' = [status EXCEPT ![b] = "uploaded"]
          /\ upload' = [upload EXCEPT ![b] = u]
          /\ pc[t] = "idle"
          /\ \/ pc' = [pc EXCEPT ![t] = "open"] /\ cur' = [cur EXCEPT ![t] = b]
             \/ pc' = pc /\ cur' = cur
          /\ UNCHANGED <<invoices, mishaps, next, plan>>
    BY <1>10 DEF Create
  <2>2. \A c \in Batches : status[c] # "absent" => upload'[c] = upload[c]
    BY <1>e, <2>1
  <2>3. ASSUME NEW c \in Batches, NEW i, LandsOrCollides(c, i), status[c] # "absent"
        PROVE  LandsOrCollides(c, i)'
    BY <2>1, <2>2, <2>3, LandedStays
  <2>4. InsertedHasUpload'
    BY <1>e, <2>1 DEF LandInv, PlanInv, InsertedHasUpload
  <2>5. GroupsLandOrCollide'
    <3>1. SUFFICES ASSUME NEW c \in Batches, status'[c] = "completed",
                          NEW i \in DOMAIN GroupsOf(c)'
                   PROVE  LandsOrCollides(c, i)'
      BY DEF GroupsLandOrCollide
    <3>2. status[c] = "completed"
      BY <1>e, <2>1, <3>1
    <3>3. GroupsOf(c)' = GroupsOf(c)
      BY <2>2, <3>2 DEF GroupsOf
    <3>4. QED
      BY <2>3, <3>1, <3>2, <3>3 DEF LandInv, GroupsLandOrCollide
  <2>6. ASSUME NEW v \in Threads, v # t \/ pc'[v] # "open"
        PROVE  /\ pc'[v] = pc[v] /\ cur'[v] = cur[v]
               /\ pc[v] # "idle" => upload'[cur[v]] = upload[cur[v]]
    BY <1>e, <1>o, <2>1, <2>2, <2>6
  <2>7. NextFollowsPlan'
    BY <1>e, <2>1, <2>6 DEF LandInv, PlanInv, NextFollowsPlan, GroupsOf
  <2>8. GroupsPlanned'
    <3>1. SUFFICES ASSUME NEW v \in Threads, pc'[v] \in {"check", "store"},
                          NEW i \in 1..(next'[v] - 1)
                   PROVE  i \in plan'[v] \/ LandsOrCollides(cur[v], i)'
      BY DEF GroupsPlanned
    <3>2. pc[v] \in {"check", "store"} /\ cur'[v] = cur[v]
      BY <2>6, <3>1
    <3>3. PICK c \in Batches : c = cur[v] /\ status[c] # "absent"
      BY <1>o, <3>2
    <3>4. i \in plan[v] \/ LandsOrCollides(c, i)
      BY <2>1, <3>1, <3>2, <3>3 DEF LandInv, PlanInv, GroupsPlanned
    <3>5. i \in plan'[v] \/ LandsOrCollides(c, i)'
      BY <2>1, <2>3, <3>3, <3>4
    <3>6. QED
      BY <3>2, <3>3, <3>5
  <2>9. QED
    BY <2>4, <2>5, <2>7, <2>8 DEF LandInv, PlanInv
\* A step of t that decides about the next group of its file.
<1>r. ASSUME NEW t \in Threads, Checking(t), UNCHANGED <<table, mishaps, pc, cur>>,
             next' = [next EXCEPT ![t] = @ + 1],
             \/ plan' = plan /\ LandsOrCollides(cur[t], next[t])
             \/ plan' = [plan EXCEPT ![t] = @ \union {next[t]}]
      PROVE  LandInv'
  <2>1. ASSUME NEW b, NEW i, LandsOrCollides(b, i) PROVE LandsOrCollides(b, i)'
    BY <1>r, <2>1 DEF LandsOrCollides, Collides, Clash, GroupAt, GroupsOf, table
  <2>2. InsertedHasUpload' /\ GroupsLandOrCollide'
    BY <1>r, <2>1 DEF LandInv, PlanInv, InsertedHasUpload, GroupsLandOrCollide, GroupsOf, table
  <2>3. NextFollowsPlan'
    <3>1. ASSUME NEW v \in Threads, v # t
          PROVE  next'[v] = next[v] /\ plan'[v] = plan[v]
      BY <1>r, <1>e, <3>1
    <3>2. /\ next'[t] = next[t] + 1 /\ plan'[t] \subseteq plan[t] \union {next[t]}
          /\ next[t] \in Nat /\ next[t] >= 1 /\ plan[t] \subseteq 1..(next[t] - 1)
      BY <1>r, <1>e DEF LandInv, PlanInv, NextFollowsPlan
    <3>3. next'[t] >= 1 /\ plan'[t] \subseteq 1..(next'[t] - 1)
      BY <3>2
    <3>4. UNCHANGED <<pc, cur, upload>> /\ pc[t] = "check" /\ upload[cur[t]].kind = "good"
      BY <1>r DEF table, Checking
    <3>5. QED
      BY <3>1, <3>3, <3>4 DEF LandInv, PlanInv, NextFollowsPlan, GroupsOf
  <2>4. GroupsPlanned'
    <3>1. SUFFICES ASSUME NEW v \in Threads, pc[v] \in {"check", "store"},
                          NEW i \in 1..(next'[v] - 1)
                   PROVE  i \in plan'[v] \/ LandsOrCollides(cur[v], i)'
      BY <1>r DEF GroupsPlanned
    <3>2. i \in 1..(next[v] - 1) \/ (v = t /\ i = next[t])
      BY <1>r, <1>e, <3>1
    <3>3. i \in plan'[v] \/ LandsOrCollides(cur[v], i)
      BY <1>r, <1>e, <3>1, <3>2 DEF LandInv, PlanInv, GroupsPlanned
    <3>4. PICK c : c = cur[v]
      OBVIOUS
    <3>5. i \in plan'[v] \/ LandsOrCollides(c, i)'
      BY <2>1, <3>3, <3>4
    <3>6. QED
      BY <1>r, <3>4, <3>5
  <2>5. QED
    BY <2>2, <2>3, <2>4 DEF LandInv, PlanInv
<1>11. ASSUME NEW t \in Threads, Drop(t) PROVE LandInv'
  <2>1. Checking(t) /\ next[t] \in Nat
    BY <1>11, <1>e DEF Drop
  <2>2. CASE ~GroupAt(cur[t], next[t]).valid
    BY <1>11, <1>r, <2>1, <2>2 DEF Drop, LandsOrCollides
  <2>3. CASE SeenInFile(t, next[t])
    <3>1. PICK k \in plan[t] :
            \/ GroupKey(GroupAt(cur[t], k)) = GroupKey(GroupAt(cur[t], next[t]))
            \/ GroupAt(cur[t], k).number = GroupAt(cur[t], next[t]).number
      BY <2>3 DEF SeenInFile
    <3>2. k \in 1..(next[t] - 1)
      BY <3>1 DEF LandInv, PlanInv, NextFollowsPlan
    <3>3. /\ upload[cur[t]] \in Uploads
          /\ k \in DOMAIN GroupsOf(cur[t]) /\ next[t] \in DOMAIN GroupsOf(cur[t])
      BY <1>o, <2>1, <3>1 DEF Checking, LandInv, PlanInv, InsertedHasUpload,
                              IInv, OwnershipInv, PersistedAreStored
    <3>4. GroupAt(cur[t], k).number = GroupAt(cur[t], next[t]).number
      BY <2>1, <3>1, <3>2, <3>3, UploadsAssumption DEF GroupAt, GroupsOf
    <3>5. LandsOrCollides(cur[t], next[t])
      BY <3>2, <3>4 DEF LandsOrCollides
    <3>6. QED
      BY <1>11, <1>r, <2>1, <3>5 DEF Drop
  <2>4. QED
    BY <1>11, <2>2, <2>3 DEF Drop
<1>12. ASSUME NEW t \in Threads, LookUp(t) PROVE LandInv'
  <2>1. CASE pc' = [pc EXCEPT ![t] = "abort"] /\ UNCHANGED <<next, plan>>
    BY <1>12, <1>e, <1>q, <2>1 DEF LookUp, Checking, table
  <2>2. CASE /\ next' = [next EXCEPT ![t] = @ + 1]
             /\ plan' = IF Exists(cur[t], next[t]) THEN plan
                        ELSE [plan EXCEPT ![t] = @ \union {next[t]}]
             /\ UNCHANGED pc
    <3>1. Exists(cur[t], next[t]) => LandsOrCollides(cur[t], next[t])
      BY ExistsCollides DEF LandsOrCollides
    <3>2. Checking(t) /\ UNCHANGED <<table, mishaps, cur>>
      BY <1>12 DEF LookUp
    <3>3. QED
      BY <1>r, <2>2, <3>1, <3>2
  <2>3. QED
    BY <1>12, <2>1, <2>2 DEF LookUp
<1>13. ASSUME NEW t \in Threads, Checked(t) PROVE LandInv'
  <2>1. /\ UNCHANGED <<table, mishaps, cur, next, plan>>
        /\ pc[t] = "check" /\ pc' = [pc EXCEPT ![t] = "store"]
        /\ upload[cur[t]].kind = "good"
        /\ next[t] \notin DOMAIN GroupsOf(cur[t])
    BY <1>13 DEF Checked, Goto
  <2>2. PICK c \in Batches : c = cur[t] /\ upload[c] \in Uploads
    BY <1>o, <2>1 DEF LandInv, PlanInv, InsertedHasUpload
  <2>3. DOMAIN GroupsOf(c) \subseteq 1..(next[t] - 1)
    <3>1. upload[c].groups \in Seq(Group)
      BY <2>2, UploadsAssumption DEF Upload
    <3>2. DOMAIN GroupsOf(c) = 1..Len(GroupsOf(c)) /\ Len(GroupsOf(c)) \in Nat
      BY <3>1 DEF GroupsOf
    <3>3. next[t] \in Nat /\ next[t] >= 1 /\ next[t] \notin DOMAIN GroupsOf(c)
      BY <1>e, <2>1, <2>2 DEF LandInv, PlanInv, NextFollowsPlan
    <3>4. QED
      BY <3>2, <3>3
  <2>4. ASSUME NEW b, NEW i, LandsOrCollides(b, i) PROVE LandsOrCollides(b, i)'
    BY <2>1, <2>4 DEF LandsOrCollides, Collides, Clash, GroupAt, GroupsOf, table
  <2>5. InsertedHasUpload' /\ GroupsLandOrCollide'
    BY <2>1, <2>4 DEF LandInv, PlanInv, InsertedHasUpload, GroupsLandOrCollide, GroupsOf, table
  <2>6. NextFollowsPlan'
    BY <1>e, <2>1, <2>2, <2>3 DEF LandInv, PlanInv, NextFollowsPlan, GroupsOf, table
  <2>7. GroupsPlanned'
    <3>1. SUFFICES ASSUME NEW v \in Threads, pc[v] \in {"check", "store"},
                          NEW i \in 1..(next[v] - 1)
                   PROVE  i \in plan[v] \/ LandsOrCollides(cur[v], i)'
      BY <1>e, <2>1 DEF GroupsPlanned
    <3>2. PICK d : d = cur[v]
      OBVIOUS
    <3>3. i \in plan[v] \/ LandsOrCollides(d, i)'
      BY <2>4, <3>1, <3>2 DEF LandInv, PlanInv, GroupsPlanned
    <3>4. QED
      BY <2>1, <3>2, <3>3
  <2>8. QED
    BY <2>5, <2>6, <2>7 DEF LandInv, PlanInv
<1>14. ASSUME NEW t \in Threads, Insert(t) PROVE LandInv'
  <2>1. PICK c \in Batches : c = cur[t] /\ status[c] # "absent"
    BY <1>o, <1>14 DEF Insert
  <2>2. PICK i \in plan[t] :
          /\ plan' = [plan EXCEPT ![t] = @ \ {i}]
          /\ LandsOrCollides(c, i)'
          /\ invoices \subseteq invoices'
          /\ mishaps \subseteq mishaps'
          /\ UNCHANGED <<status, upload, pc, cur, next>>
    BY <1>14, <2>1, InsertLands
  <2>3. ASSUME NEW b \in Batches, NEW k, LandsOrCollides(b, k), status[b] # "absent"
        PROVE  LandsOrCollides(b, k)'
    BY <2>2, <2>3, LandedStays
  <2>4. InsertedHasUpload' /\ GroupsLandOrCollide'
    BY <2>2, <2>3 DEF LandInv, PlanInv, InsertedHasUpload, GroupsLandOrCollide, GroupsOf
  <2>5. NextFollowsPlan'
    BY <1>e, <2>2 DEF LandInv, PlanInv, NextFollowsPlan, GroupsOf
  <2>6. GroupsPlanned'
    <3>1. SUFFICES ASSUME NEW v \in Threads, pc[v] \in {"check", "store"},
                          NEW k \in 1..(next[v] - 1)
                   PROVE  k \in plan'[v] \/ LandsOrCollides(cur[v], k)'
      BY <2>2 DEF GroupsPlanned
    <3>2. PICK d \in Batches : d = cur[v] /\ status[d] # "absent"
      BY <1>o, <3>1
    <3>3. k \in plan[v] \/ LandsOrCollides(d, k)
      BY <3>1, <3>2 DEF LandInv, PlanInv, GroupsPlanned
    <3>4. k \in plan'[v] \/ (d = c /\ k = i) \/ LandsOrCollides(d, k)
      BY <1>e, <2>1, <2>2, <3>2, <3>3
    <3>5. k \in plan'[v] \/ LandsOrCollides(d, k)'
      BY <2>2, <2>3, <3>2, <3>4
    <3>6. QED
      BY <2>2, <3>2, <3>5
  <2>7. QED
    BY <2>4, <2>5, <2>6 DEF LandInv, PlanInv
<1>15. ASSUME NEW t \in Threads, Overflow(t) PROVE LandInv'
  BY <1>15, <1>e, <1>q DEF Overflow, Goto, table
<1>16. QED
  BY <1>1, <1>2, <1>3, <1>4, <1>5, <1>6, <1>7, <1>8, <1>9, <1>10, <1>11,
     <1>12, <1>13, <1>14, <1>15 DEF Next, Step

(***************************************************************************)
(* Nothing valid is left out of a completed batch without a reason.        *)
(***************************************************************************)
THEOREM LandTheorem == Spec => []GroupsLandOrCollide
<1>1. Spec => [](IInv /\ LandInv)
  BY InitSafe, StepSafe, InitPlans, StepPlans, PTL DEF Spec
<1>2. IInv /\ LandInv => GroupsLandOrCollide
  BY DEF LandInv
<1>3. QED
  BY <1>1, <1>2, PTL
=============================================================================
