------------------------ MODULE RunLifecycle_proofs ------------------------
(***************************************************************************)
(* Proofs about RunLifecycle, for every number of workers, threads, keys   *)
(* and runs and for every way the database may fail.                       *)
(***************************************************************************)
EXTENDS RunLifecycle, TLAPS

(***************************************************************************)
(* The type invariant is inductive together with BusyHasRun: a request     *)
(* past its first step always knows the run it works on.                   *)
(***************************************************************************)
LEMMA TypeInductive ==
  /\ Init => TypeOK /\ BusyHasRun
  /\ TypeOK /\ BusyHasRun /\ [Next]_vars => TypeOK' /\ BusyHasRun'
<1> USE NullAssumption
    DEF TypeOK, Statuses, Labels, rows, BusyHasRun, Goto, Runs
<1>1. Init => TypeOK /\ BusyHasRun
  BY DEF Init
<1>2. ASSUME TypeOK, BusyHasRun, [Next]_vars
      PROVE  TypeOK' /\ BusyHasRun'
  <2>1. ASSUME NEW t \in Threads, NEW k \in Keys, Request(t, k) PROVE TypeOK' /\ BusyHasRun'
    BY <1>2, <2>1 DEF Request, CreateRunExclusive
  <2>2. ASSUME NEW t \in Threads, StartRun(t) PROVE TypeOK' /\ BusyHasRun'
    BY <1>2, <2>2 DEF StartRun
  <2>3. ASSUME NEW t \in Threads, Reconcile(t) PROVE TypeOK' /\ BusyHasRun'
    BY <1>2, <2>3 DEF Reconcile
  <2>4. ASSUME NEW t \in Threads, FinishRun(t) PROVE TypeOK' /\ BusyHasRun'
    <3>1. cur[t] \in Runs
      BY <1>2, <2>4 DEF FinishRun
    <3>f. /\ \/ status' = [status EXCEPT ![cur[t]] = "completed"]
                /\ saved' = [saved EXCEPT ![cur[t]] = TRUE]
             \/ UNCHANGED <<status, saved>>
          /\ unacked' = unacked \/ unacked' = unacked \union {cur[t]}
          /\ pc' = [pc EXCEPT ![t] = "reload"] \/ pc' = [pc EXCEPT ![t] = "fail"]
          /\ UNCHANGED <<cur, key, age, flagged, notified, up>>
      BY <2>4, DbOutcomesAssumption DEF FinishRun
    <3>2. TypeOK'
      BY <1>2, <3>1, <3>f
    <3>3. BusyHasRun'
      BY <1>2, <3>1, <3>f
    <3>4. QED
      BY <3>2, <3>3
  <2>5. ASSUME NEW t \in Threads, FailRun(t) PROVE TypeOK' /\ BusyHasRun'
    BY <1>2, <2>5 DEF FailRun
  <2>6. ASSUME NEW t \in Threads, Reload(t) PROVE TypeOK' /\ BusyHasRun'
    BY <1>2, <2>6 DEF Reload
  <2>7. ASSUME NEW t \in Threads, Notify(t) PROVE TypeOK' /\ BusyHasRun'
    BY <1>2, <2>7 DEF Notify
  <2>8. ASSUME NEW w \in Workers, Boot(w) PROVE TypeOK' /\ BusyHasRun'
    BY <1>2, <2>8 DEF Boot, RecoverInterruptedRuns, Interrupted
  <2>9. ASSUME NEW w \in Workers, Crash(w) PROVE TypeOK' /\ BusyHasRun'
    BY <1>2, <2>9 DEF Crash
  <2>10. ASSUME NEW r \in Runs, HourPasses(r) PROVE TypeOK' /\ BusyHasRun'
    BY <1>2, <2>10 DEF HourPasses
  <2>11. CASE UNCHANGED vars
    BY <1>2, <2>11 DEF vars
  <2>12. QED
    BY <1>2, <2>1, <2>2, <2>3, <2>4, <2>5, <2>6, <2>7, <2>8, <2>9, <2>10,
       <2>11 DEF Next, Step
<1>3. QED
  BY <1>1, <1>2

(***************************************************************************)
(* Every column and every request variable keeps its type.                 *)
(***************************************************************************)
THEOREM TypeCorrect == Spec => []TypeOK
<1>1. Spec => [](TypeOK /\ BusyHasRun)
  BY TypeInductive, PTL DEF Spec
<1>2. QED
  BY <1>1, PTL

(***************************************************************************)
(* The inductive invariant behind every safety theorem below.              *)
(***************************************************************************)
IInv == TypeOK /\ OwnershipInv /\ SafetyInv

LEMMA InitSafe == Init => IInv
BY NullAssumption, TypeInductive
   DEF Init, IInv, OwnershipInv, SafetyInv, OneRequestPerRun, BusyHasRun,
       RunIsInserted, StartsPendingOrFlagged, SavedAfterFinish,
       AbsentHasNothing, NotifiedIsReleased, ResultsWithCompletion,
       DuplicateOnlyAfterRecovery, NotifiedStandsCompleted, InFlight

LEMMA StepSafe == IInv /\ [Next]_vars => IInv'
<1> SUFFICES ASSUME IInv, [Next]_vars PROVE IInv'
  OBVIOUS
<1>t. TypeOK' /\ BusyHasRun'
  BY TypeInductive DEF IInv, OwnershipInv
<1>n. NULL \notin Runs
  BY NullAssumption DEF Runs
<1> USE <1>n
    DEF IInv, OwnershipInv, SafetyInv, OneRequestPerRun, BusyHasRun,
        RunIsInserted, StartsPendingOrFlagged, SavedAfterFinish,
        AbsentHasNothing, NotifiedIsReleased, ResultsWithCompletion,
        DuplicateOnlyAfterRecovery, NotifiedStandsCompleted, InFlight,
        TypeOK, Statuses, Labels, rows, Goto
<1>1. ASSUME NEW t \in Threads, NEW k \in Keys, Request(t, k) PROVE IInv'
  <2>1. PICK r \in Runs :
          /\ status[r] = "absent"
          /\ status' = [status EXCEPT ![r] = "pending"]
          /\ key' = [key EXCEPT ![r] = k]
          /\ \/ cur' = [cur EXCEPT ![t] = r] /\ pc' = [pc EXCEPT ![t] = "start"]
             \/ cur' = cur /\ pc' = pc
          /\ UNCHANGED <<age, saved, flagged, notified, unacked>>
    BY <1>1 DEF Request, CreateRunExclusive
  <2>2. \A u \in Threads : cur[u] # r
    BY <2>1                      \* r was absent, so nobody worked on it
  <2>3. OwnershipInv'
    <3>1. OneRequestPerRun' /\ NotifiedIsReleased'
      BY <1>t, <2>1, <2>2
    <3>2. RunIsInserted' /\ AbsentHasNothing'
      BY <1>t, <2>1
    <3>3. StartsPendingOrFlagged' /\ SavedAfterFinish'
      BY <1>t, <2>1, <2>2
    <3>4. QED
      BY <1>t, <3>1, <3>2, <3>3
  <2>4. \A q \in Runs : key[q] = k => status[q] \notin InFlight
    BY <1>1 DEF Request, CreateRunExclusive, Active  \* the re-check under the company lock
  <2>5. DuplicateOnlyAfterRecovery'
    BY <1>t, <2>1, <2>4
  <2>6. ResultsWithCompletion' /\ NotifiedStandsCompleted'
    BY <1>t, <2>1
  <2>7. QED
    BY <1>t, <2>3, <2>5, <2>6
<1>2. ASSUME NEW t \in Threads, StartRun(t) PROVE IInv'
  <2>1. OwnershipInv'
    BY <1>t, <1>2 DEF StartRun
  <2>2. \/ status[cur[t]] = "pending"
        \/ status[cur[t]] = "failed" /\ cur[t] \in flagged
    BY <1>2 DEF StartRun
  <2>3. DuplicateOnlyAfterRecovery'
    BY <1>t, <1>2, <2>2 DEF StartRun
  <2>4. ResultsWithCompletion' /\ NotifiedStandsCompleted'
    BY <1>t, <1>2 DEF StartRun
  <2>5. QED
    BY <1>t, <2>1, <2>3, <2>4
<1>3. ASSUME NEW t \in Threads, Reconcile(t) PROVE IInv'
  BY <1>t, <1>3 DEF Reconcile
<1>4. ASSUME NEW t \in Threads, FinishRun(t) PROVE IInv'
  <2>1. OwnershipInv'
    BY <1>t, <1>4 DEF FinishRun
  <2>2. ~saved[cur[t]]
    BY <1>4 DEF FinishRun
  <2>3. /\ cur[t] \in Runs
        /\ \/ UNCHANGED <<status, saved>>
           \/ /\ status' = [status EXCEPT ![cur[t]] = "completed"]
              /\ saved' = [saved EXCEPT ![cur[t]] = TRUE]
        /\ UNCHANGED <<key, flagged, notified>>
    BY <1>4 DEF FinishRun
  <2>4. ResultsWithCompletion' /\ NotifiedStandsCompleted'
    BY <1>t, <2>2, <2>3
  <2>5. DuplicateOnlyAfterRecovery'
    BY <1>t, <2>3
  <2>6. QED
    BY <1>t, <2>1, <2>4, <2>5
<1>5. ASSUME NEW t \in Threads, FailRun(t) PROVE IInv'
  <2>1. OwnershipInv'
    BY <1>t, <1>5 DEF FailRun
  <2>2. cur[t] \notin notified  \* the run still has a request
    BY <1>5 DEF FailRun
  <2>3. NotifiedStandsCompleted'
    BY <1>t, <1>5, <2>2 DEF FailRun
  <2>4. ResultsWithCompletion' /\ DuplicateOnlyAfterRecovery'
    BY <1>t, <1>5 DEF FailRun
  <2>5. QED
    BY <1>t, <2>1, <2>3, <2>4
<1>6. ASSUME NEW t \in Threads, Reload(t) PROVE IInv'
  BY <1>t, <1>6 DEF Reload
<1>7. ASSUME NEW t \in Threads, Notify(t) PROVE IInv'
  <2>1. status[cur[t]] = "completed"
    BY <1>7 DEF Notify
  <2>2. NotifiedStandsCompleted'
    BY <1>t, <1>7, <2>1 DEF Notify
  <2>3. NotifiedIsReleased'      \* the run's only request ends here
    <3>1. /\ notified' \subseteq notified \union {cur[t]}
          /\ cur' = [cur EXCEPT ![t] = NULL]
          /\ cur[t] # NULL
      BY <1>7 DEF Notify
    <3>2. ASSUME NEW u \in Threads, cur'[u] \in notified' PROVE FALSE
      <4>1. u # t /\ cur'[u] = cur[u]
        BY <1>t, <3>1, <3>2
      <4>2. QED
        BY <3>1, <3>2, <4>1
    <3>3. QED
      BY <3>2
  <2>4. QED
    BY <1>t, <1>7, <2>2, <2>3 DEF Notify
<1>8. ASSUME NEW w \in Workers, Boot(w) PROVE IInv'
  BY <1>t, <1>8 DEF Boot, RecoverInterruptedRuns, Interrupted
<1>9. ASSUME NEW w \in Workers, Crash(w) PROVE IInv'
  BY <1>t, <1>9 DEF Crash
<1>10. ASSUME NEW r \in Runs, HourPasses(r) PROVE IInv'
  BY <1>t, <1>10 DEF HourPasses
<1>11. CASE UNCHANGED vars
  <2>1. OwnershipInv'
    BY <1>t, <1>11 DEF vars
  <2>2. SafetyInv'
    BY <1>t, <1>11 DEF vars
  <2>3. QED
    BY <1>t, <2>1, <2>2
<1>12. QED
  BY <1>1, <1>2, <1>3, <1>4, <1>5, <1>6, <1>7, <1>8, <1>9, <1>10, <1>11
     DEF Next, Step

LEMMA Safe == Spec => []IInv
BY InitSafe, StepSafe, PTL DEF Spec

(***************************************************************************)
(* No run in flight has results and no completed run is without them.      *)
(***************************************************************************)
THEOREM ResultsTheorem == Spec => []ResultsWithCompletion
<1>1. IInv => ResultsWithCompletion
  BY DEF IInv, SafetyInv
<1>2. QED
  BY Safe, <1>1, PTL

(***************************************************************************)
(* Two runs of one period in flight together are the work of a recovery.   *)
(***************************************************************************)
THEOREM DuplicateTheorem == Spec => []DuplicateOnlyAfterRecovery
<1>1. IInv => DuplicateOnlyAfterRecovery
  BY DEF IInv, SafetyInv
<1>2. QED
  BY Safe, <1>1, PTL

(***************************************************************************)
(* Summary mails are about runs that are and stay completed.               *)
(***************************************************************************)
THEOREM NotifiedTheorem == Spec => []NotifiedStandsCompleted
<1>1. IInv => NotifiedStandsCompleted
  BY DEF IInv, SafetyInv
<1>2. QED
  BY Safe, <1>1, PTL

-----------------------------------------------------------------------------
(***************************************************************************)
(* The subsystem implements RunContract.                                   *)
(***************************************************************************)
LEMMA ContractInductive ==
  /\ Init => ContractInv
  /\ IInv /\ ContractInv /\ [Next]_vars => ContractInv'
<1>n. NULL \notin Runs
  BY NullAssumption DEF Runs
<1> USE <1>n
    DEF IInv, OwnershipInv, SafetyInv, OneRequestPerRun, BusyHasRun,
        RunIsInserted, SavedAfterFinish, AbsentHasNothing,
        ResultsWithCompletion, InFlight, TypeOK, Statuses, Labels, rows,
        Goto, ContractInv,
        SavedIsCompleted, FailsUnsaved
<1>1. Init => ContractInv
  BY DEF Init
<1>2. ASSUME IInv, ContractInv, [Next]_vars
      PROVE  ContractInv'
  <2>1. ASSUME NEW t \in Threads, NEW k \in Keys, Request(t, k) PROVE ContractInv'
    BY <1>2, <2>1 DEF Request, CreateRunExclusive
  <2>2. ASSUME NEW t \in Threads, StartRun(t) PROVE ContractInv'
    <3>1. ~saved[cur[t]]
      BY <1>2, <2>2 DEF StartRun
    <3>2. SavedIsCompleted'
      BY <1>2, <2>2, <3>1 DEF StartRun
    <3>3. FailsUnsaved'
      BY <1>2, <2>2 DEF StartRun
    <3>4. QED
      BY <3>2, <3>3
  <2>3. ASSUME NEW t \in Threads, Reconcile(t) PROVE ContractInv'
    BY <1>2, <2>3, DbOutcomesAssumption DEF Reconcile
  <2>4. ASSUME NEW t \in Threads, FinishRun(t) PROVE ContractInv'
    <3>1. \/ /\ pc' = [pc EXCEPT ![t] = "reload"]
             /\ status' = [status EXCEPT ![cur[t]] = "completed"]
             /\ saved' = [saved EXCEPT ![cur[t]] = TRUE]
             /\ unacked' = unacked
          \/ /\ pc' = [pc EXCEPT ![t] = "fail"]
             /\ status' = [status EXCEPT ![cur[t]] = "completed"]
             /\ saved' = [saved EXCEPT ![cur[t]] = TRUE]
             /\ unacked' = unacked \union {cur[t]}
          \/ /\ pc' = [pc EXCEPT ![t] = "fail"]
             /\ UNCHANGED <<status, saved, unacked>>
      BY <2>4, DbOutcomesAssumption DEF FinishRun
    <3>2. cur' = cur /\ cur[t] \in Runs /\ ~saved[cur[t]]
      BY <1>2, <2>4 DEF FinishRun
    <3>3. SavedIsCompleted'
      BY <1>2, <3>1, <3>2
    <3>4. FailsUnsaved'
      BY <1>2, <3>1, <3>2
    <3>5. QED
      BY <3>3, <3>4
  <2>5. ASSUME NEW t \in Threads, FailRun(t) PROVE ContractInv'
    BY <1>2, <2>5 DEF FailRun
  <2>6. ASSUME NEW t \in Threads, Reload(t) PROVE ContractInv'
    BY <1>2, <2>6 DEF Reload
  <2>7. ASSUME NEW t \in Threads, Notify(t) PROVE ContractInv'
    BY <1>2, <2>7 DEF Notify
  <2>8. ASSUME NEW w \in Workers, Boot(w) PROVE ContractInv'
    BY <1>2, <2>8 DEF Boot, RecoverInterruptedRuns, Interrupted
  <2>9. ASSUME NEW w \in Workers, Crash(w) PROVE ContractInv'
    BY <1>2, <2>9 DEF Crash
  <2>10. ASSUME NEW r \in Runs, HourPasses(r) PROVE ContractInv'
    BY <1>2, <2>10 DEF HourPasses
  <2>11. CASE UNCHANGED vars
    BY <1>2, <2>11 DEF vars
  <2>12. QED
    BY <1>2, <2>1, <2>2, <2>3, <2>4, <2>5, <2>6, <2>7, <2>8, <2>9, <2>10,
       <2>11 DEF Next, Step
<1>3. QED
  BY <1>1, <1>2

(***************************************************************************)
(* Every transaction of a request or of a recovery is one step of the      *)
(* contract or leaves status and results alone.                            *)
(***************************************************************************)
LEMMA StepImplements ==
  ASSUME IInv, ContractInv, [Next]_vars
  PROVE  [Contract!Next]_Contract!vars
<1>n. NULL \notin Runs
  BY NullAssumption DEF Runs
<1> USE <1>n DEF IInv, OwnershipInv, SafetyInv, BusyHasRun, TypeOK, Statuses,
                 Labels, rows, Goto, ContractInv, InFlight, Contract!vars
<1>1. ASSUME NEW t \in Threads, NEW k \in Keys, Request(t, k)
      PROVE  \E r \in Runs : Contract!Create(r)
  BY <1>1 DEF Request, CreateRunExclusive, Contract!Create
<1>2. ASSUME NEW t \in Threads, StartRun(t)
      PROVE  Contract!Begin(cur[t]) \/ UNCHANGED Contract!vars
  BY <1>2 DEF StartRun, Contract!Begin, StartsPendingOrFlagged,
              SavedAfterFinish
<1>3. ASSUME NEW t \in Threads, FinishRun(t)
      PROVE  Contract!Complete(cur[t]) \/ UNCHANGED Contract!vars
  BY <1>3 DEF FinishRun, Contract!Complete, Contract!InFlight,
              SavedAfterFinish
<1>4. ASSUME NEW t \in Threads, FailRun(t)
      PROVE  \/ \E S \in SUBSET Runs : Contract!Fail(S)
             \/ Contract!Disown(cur[t])
             \/ UNCHANGED Contract!vars
  <2>1. /\ cur[t] \in Runs
        /\ status[cur[t]] \in InFlight \union {"completed", "failed"}
        /\ UNCHANGED <<saved, unacked>>
    BY <1>4 DEF FailRun, RunIsInserted
  <2>2. CASE status' = status
    BY <2>1, <2>2
  <2>3. CASE status' = [status EXCEPT ![cur[t]] = "failed"]
    <3>1. CASE status[cur[t]] = "failed"
      BY <2>1, <2>3, <3>1
    <3>2. CASE status[cur[t]] \in InFlight
      <4>1. Contract!Fail({cur[t]})
        <5>1. ~saved[cur[t]]
          BY <2>1, <3>2 DEF ResultsWithCompletion
        <5>2. status' = [r \in Runs |-> IF r \in {cur[t]} THEN "failed" ELSE status[r]]
          BY <2>1, <2>3
        <5>3. QED
          BY <2>1, <3>2, <5>1, <5>2 DEF Contract!Fail, Contract!InFlight
      <4>2. QED
        BY <2>1, <4>1
    <3>3. CASE status[cur[t]] = "completed"
      <4>1. cur[t] \in unacked
        BY <1>4, <2>1, <3>3 DEF FailRun, FailsUnsaved, ResultsWithCompletion
      <4>2. QED
        BY <2>1, <2>3, <3>3, <4>1 DEF Contract!Disown
    <3>4. QED
      BY <2>1, <3>1, <3>2, <3>3
  <2>4. QED
    BY <1>4, <2>2, <2>3 DEF FailRun
<1>5. ASSUME NEW w \in Workers, Boot(w)
      PROVE  \E S \in SUBSET Runs : Contract!Fail(S)
  <2> DEFINE Failed(S) == [r \in Runs |-> IF r \in S THEN "failed" ELSE status[r]]
  <2>1. Interrupted \in SUBSET Runs /\ {} \in SUBSET Runs
    BY DEF Interrupted
  <2>2. UNCHANGED <<saved, unacked>> /\ (status' = Failed(Interrupted) \/ status' = Failed({}))
    BY <1>5 DEF Boot, RecoverInterruptedRuns
  <2>3. \A r \in Interrupted : status[r] \in InFlight /\ ~saved[r]
    BY DEF Interrupted, ResultsWithCompletion
  <2>4. Contract!Fail(Interrupted) \/ Contract!Fail({})
    BY <2>2, <2>3 DEF Contract!Fail, Contract!InFlight
  <2>5. QED
    BY <2>1, <2>4
<1>6. ASSUME NEW t \in Threads, Reconcile(t) \/ Reload(t) \/ Notify(t)
      PROVE  UNCHANGED Contract!vars
  BY <1>6 DEF Reconcile, Reload, Notify
<1>7. ASSUME NEW w \in Workers, Crash(w)
      PROVE  UNCHANGED Contract!vars
  BY <1>7 DEF Crash
<1>8. ASSUME NEW r \in Runs, HourPasses(r)
      PROVE  UNCHANGED Contract!vars
  BY <1>8 DEF HourPasses
<1>9. CASE UNCHANGED vars
  BY <1>9 DEF vars
<1>10. ASSUME NEW t \in Threads, pc[t] # "idle" PROVE cur[t] \in Runs
  BY <1>10
<1>11. ASSUME NEW t \in Threads, Step(t)
       PROVE  [Contract!Next]_Contract!vars
  <2>1. cur[t] \in Runs
    BY <1>10, <1>11 DEF Step, StartRun, Reconcile, FinishRun, FailRun, Reload,
                        Notify
  <2>2. QED
    BY <1>2, <1>3, <1>4, <1>6, <1>11, <2>1 DEF Step, Contract!Next
<1>12. QED
  BY <1>1, <1>5, <1>7, <1>8, <1>9, <1>11 DEF Next, Contract!Next

(***************************************************************************)
(* Whatever fails: a completed run is final, and the runs with results are *)
(* the completed ones, unless the completing commit was not acknowledged.  *)
(***************************************************************************)
THEOREM ContractTheorem == Spec => ContractSpec
<1>1. Init => Contract!Init
  BY DEF Init, Contract!Init
<1>2. IInv /\ ContractInv /\ [Next]_vars => [Contract!Next]_Contract!vars
  BY StepImplements
<1>3. Spec => []ContractInv
  BY Safe, ContractInductive, PTL DEF Spec
<1>4. QED
  BY <1>1, <1>2, <1>3, Safe, PTL DEF Spec, ContractSpec, Contract!Spec
=============================================================================
