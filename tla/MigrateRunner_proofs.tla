------------------------ MODULE MigrateRunner_proofs ------------------------
(***************************************************************************)
(* Proofs about MigrateRunner, for any number of runners, mishaps and      *)
(* operations: its types, that nothing is applied twice but for the causes *)
(* that ReappliedForCause names, and that the tracker speaks for the       *)
(* schema.                                                                 *)
(*                                                                         *)
(* A file the database has seen whole is recorded, or has a cause, or is   *)
(* in the hands of the runner that is about to record it.  The other       *)
(* runners that may have it on their lists met that runner's list when     *)
(* they wrote theirs.  While a database is restored the runners rest; when *)
(* the restore is over, broken off or not, what is there without a row has *)
(* a cause.                                                                *)
(***************************************************************************)
EXTENDS MigrateRunner, FiniteSetTheorems, TLAPS

Facts ==
  [table : AppTables,
   name : {"columns", "idx_tax_invoices_company", "idx_tax_invoices_company_issue_datetime",
           "fk_audit_logs_actor"},
   def : {"release", "hand", "index", "constraint"}]
Sums == {"none", "null"} \union Versions

BackupType ==
  [kept : {TRUE}, schema : SUBSET Facts, tracker : [Names -> Sums],
   begun : SUBSET Names, completed : SUBSET Names, reapplied : SUBSET Names,
   causes : SUBSET Names, seeded : SUBSET Names, torn : BOOLEAN]

RestoreType == [pc : {"drop", "load"}, left : SUBSET ToSet(Dump)]

RunnerType ==
  [pc : {"idle", "seed", "audit", "pending", "backup", "check", "apply", "record"},
   accept : BOOLEAN, gate : SUBSET AppTables, todo : SUBSET Names, stmt : Nat,
   digest : {"none"} \union Versions]

DataTypes ==
  /\ schema \subseteq Facts
  /\ tracker \in [Names -> Sums]
  /\ content \in [Names -> {"absent"} \union Versions]
  /\ begun \subseteq Names /\ completed \subseteq Names /\ reapplied \subseteq Names
  /\ causes \subseteq Names /\ seeded \subseteq Names /\ torn \in BOOLEAN
  /\ mishaps \in 0..Mishaps /\ ops \in 0..MaxOps

Applying(r) == runner[r].pc \in {"backup", "check", "apply", "record"}

\* What a runner holds at each of its steps.
RunnerInv(r) ==
  /\ runner[r].pc \notin {"idle", "audit", "pending"} => runner[r].todo \subseteq Shipped
  /\ runner[r].pc \in {"idle", "audit", "pending"} => runner[r].todo = {}
  /\ runner[r].pc \in {"apply", "record"} =>
       /\ runner[r].todo # {} /\ runner[r].digest # "none"
       /\ runner[r].stmt \in 1..Len(Statements(Current(r)))

\* The file a runner is about to record.
AtRecord(r, f) == At(r, "record") /\ f = Current(r)

\* A file that is on a list again has a cause.
ListInv(r) ==
  Applying(r) =>
    \A f \in runner[r].todo : f \in completed => f \in causes \/ AtRecord(r, f)

RivalsInv ==
  \A q, r \in Runners :
    q # r /\ Applying(q) /\ Applying(r) => runner[q].todo \cap runner[r].todo \subseteq causes

RecordInv ==
  restoring = NoRestore =>
    \A f \in completed : IsApplied(f) \/ f \in causes \/ \E r \in Runners : AtRecord(r, f)

BackupInv ==
  /\ backup = NoBackup \/ backup \in BackupType
  /\ backup.kept => backup.reapplied \subseteq backup.causes

\* A restore has a backup to read and the database for itself.
RestoreInv ==
  \/ restoring = NoRestore
  \/ /\ restoring \in RestoreType /\ AllIdle /\ backup.kept
     /\ restoring.pc = "load" => restoring.left # {}

IInv ==
  /\ DataTypes /\ runner \in [Runners -> RunnerType]
  /\ \A r \in Runners : RunnerInv(r) /\ ListInv(r)
  /\ RivalsInv /\ RecordInv /\ BackupInv /\ RestoreInv /\ ReappliedForCause

(***************************************************************************)
(* The catalog and its statements.                                         *)
(***************************************************************************)
LEMMA NamesAre ==
  /\ DOMAIN Files = 1..3
  /\ Names = {Files[1], Files[2], Files[3]}
  /\ Files[1] = "000_foundation_schema" /\ Files[2] = "008_audit_logs"
  /\ Files[3] = "010_performance_indexes"
BY DEF Files, Names, ToSet

\* The first file of a list is on it.
LEMMA FirstIsListed ==
  ASSUME NEW S \in SUBSET Names, S # {} PROVE First(S) \in S
<1>1. Places(S) \in SUBSET (1..3) /\ Places(S) # {}
  BY NamesAre DEF Places
<1>2. \E i \in Places(S) : \A j \in Places(S) : i <= j
  <2>1. CASE 1 \in Places(S)
    BY <1>1, <2>1
  <2>2. CASE 1 \notin Places(S) /\ 2 \in Places(S)
    BY <1>1, <2>2
  <2>3. CASE 1 \notin Places(S) /\ 2 \notin Places(S)
    BY <1>1, <2>3
  <2>4. QED
    BY <2>1, <2>2, <2>3
<1>3. Min(Places(S)) \in Places(S)
  BY <1>2 DEF Min
<1>4. QED
  BY <1>3 DEF First, Places

StatementType ==
  [op : {"create", "add", "drop", "rename"}, table : AppTables, facts : SUBSET Facts]

LEMMA StatementsAre ==
  ASSUME NEW f \in Names
  PROVE  /\ Len(Statements(f)) \in {1, 2}
         /\ DOMAIN Statements(f) = 1..Len(Statements(f))
         /\ \A i \in 1..Len(Statements(f)) : Statements(f)[i] \in StatementType
<1>1. ByCompany \in Facts /\ ByIssue \in Facts /\ ActorKey \in Facts
        /\ ByCompany.table = "tax_invoices" /\ ByIssue.table = "tax_invoices"
  BY DEF ByCompany, ByIssue, ActorKey, Index, Constraint, Facts, AppTables
<1>2. Table("tax_invoices", "release") \in Facts /\ Table("audit_logs", "release") \in Facts
  BY DEF Table, Facts, AppTables
<1>3. /\ Create("tax_invoices", {Table("tax_invoices", "release"), ByCompany}) \in StatementType
      /\ Create("audit_logs", {Table("audit_logs", "release"), ActorKey}) \in StatementType
  BY <1>1, <1>2 DEF Create, StatementType, AppTables
<1>4. Add(ByIssue) \in StatementType /\ Drop(ByCompany) \in StatementType
  BY <1>1 DEF Add, Drop, StatementType, AppTables
<1>5. RenameAside \in StatementType
  BY DEF RenameAside, StatementType, AppTables
<1>6. CASE f = "000_foundation_schema"
  BY <1>3, <1>6 DEF Statements
<1>7. CASE f = "008_audit_logs"
  BY <1>3, <1>5, <1>7 DEF Statements
<1>8. CASE f = "010_performance_indexes"
  BY <1>4, <1>8 DEF Statements
<1>9. QED
  BY <1>6, <1>7, <1>8, NamesAre

\* Statements touch the application's tables only.
LEMMA ExecutedType ==
  ASSUME NEW s \in StatementType, NEW facts \in SUBSET Facts
  PROVE  Executed(s, facts) \in SUBSET Facts
<1>1. CASE s.op = "rename"
  <2>1. ASSUME NEW x \in Facts PROVE [x EXCEPT !.table = "audit_logs_legacy"] \in Facts
    BY DEF Facts, AppTables
  <2>2. QED
    BY <1>1, <2>1 DEF Executed
<1>2. CASE s.op # "rename"
  BY <1>2 DEF Executed, StatementType
<1>3. QED
  BY <1>1, <1>2

LEMMA IdleType == Idle \in RunnerType /\ Idle.pc = "idle" /\ Idle.todo = {}
BY DEF Idle, RunnerType

\* A runner at work has no restore beside it.
LEMMA Busy ==
  ASSUME IInv, NEW r \in Runners, runner[r].pc # "idle" PROVE restoring = NoRestore
BY DEF IInv, RestoreInv, AllIdle, At

LEMMA CurrentIsListed ==
  ASSUME IInv, NEW r \in Runners, runner[r].todo # {}
  PROVE  Current(r) \in runner[r].todo /\ Current(r) \in Names
<1>1. runner[r].todo \in SUBSET Names
  BY DEF IInv, RunnerType
<1>2. QED
  BY <1>1, FirstIsListed DEF Current

(***************************************************************************)
(* A step of one runner keeps the invariant of all when it adds no file    *)
(* to the completed ones but one of its list, forgets no cause and no row, *)
(* and says why when it leaves a completed file behind.                    *)
(***************************************************************************)
LEMMA RunnerStep ==
  ASSUME IInv, NEW r \in Runners, NEW s \in RunnerType,
         runner' = [runner EXCEPT ![r] = s],
         restoring = NoRestore, UNCHANGED <<content, restoring>>,
         DataTypes', BackupInv', ReappliedForCause',
         causes \subseteq causes',
         \A f \in Names : IsApplied(f) => IsApplied(f)',
         \A f \in completed' \ completed : Applying(r) /\ f \in runner[r].todo,
         \A f \in completed' : \/ IsApplied(f)' \/ f \in causes' \/ AtRecord(r, f)'
                               \/ f \in completed /\ ~AtRecord(r, f),
         RunnerInv(r)', ListInv(r)',
         Applying(r)' => \A q \in Runners : q # r /\ Applying(q) =>
                           runner[q].todo \cap s.todo \subseteq causes'
  PROVE  IInv'
<1>1. runner'[r] = s /\ \A q \in Runners \ {r} : runner'[q] = runner[q]
  BY DEF IInv
<1>2. runner' \in [Runners -> RunnerType]
  BY DEF IInv
<1>3. /\ Shipped' = Shipped
      /\ \A q \in Runners \ {r} :
           /\ Current(q)' = Current(q) /\ (Applying(q)' <=> Applying(q))
           /\ \A f : AtRecord(q, f)' <=> AtRecord(q, f)
  BY <1>1 DEF Shipped, Current, Applying, AtRecord, At
<1>4. ASSUME NEW q \in Runners PROVE RunnerInv(q)'
  <2>1. CASE q # r
    <3>1. RunnerInv(q) /\ runner'[q] = runner[q] /\ Current(q)' = Current(q)
      BY <1>1, <1>3, <2>1 DEF IInv
    <3>2. QED
      BY <1>3, <3>1 DEF RunnerInv
  <2>2. QED
    BY <2>1
<1>5. ASSUME NEW q \in Runners PROVE ListInv(q)'
  <2>1. CASE q # r
    <3>1. SUFFICES ASSUME Applying(q), NEW f \in runner[q].todo, f \in completed'
                   PROVE  f \in causes' \/ AtRecord(q, f)
      BY <1>1, <1>3, <2>1 DEF ListInv
    <3>2. CASE f \in completed
      BY <3>1, <3>2 DEF IInv, ListInv
    <3>3. CASE f \notin completed
      BY <2>1, <3>1, <3>3 DEF IInv, RivalsInv
    <3>4. QED
      BY <3>2, <3>3
  <2>2. QED
    BY <2>1
<1>6. RivalsInv'
  <2>1. SUFFICES ASSUME NEW p \in Runners, NEW q \in Runners, p # q, Applying(p)', Applying(q)'
                 PROVE  runner'[p].todo \cap runner'[q].todo \subseteq causes'
    BY DEF RivalsInv
  <2>2. CASE p # r /\ q # r
    BY <1>1, <1>3, <2>1, <2>2 DEF IInv, RivalsInv
  <2>3. CASE p = r
    BY <1>1, <1>3, <2>1, <2>3
  <2>4. CASE q = r
    BY <1>1, <1>3, <2>1, <2>4
  <2>5. QED
    BY <2>2, <2>3, <2>4
<1>7. RecordInv'
  <2>1. SUFFICES ASSUME NEW f \in completed', f \in completed, ~AtRecord(r, f)
                 PROVE  IsApplied(f)' \/ f \in causes' \/ \E q \in Runners : AtRecord(q, f)'
    BY DEF RecordInv
  <2>2. f \in Names
    BY DEF IInv, DataTypes
  <2>3. CASE \E q \in Runners : AtRecord(q, f)
    BY <1>3, <2>1, <2>3
  <2>4. CASE IsApplied(f) \/ f \in causes
    BY <2>2, <2>4
  <2>5. QED
    BY <2>3, <2>4 DEF IInv, RecordInv
<1>8. RestoreInv'
  BY DEF RestoreInv
<1>9. QED
  BY <1>2, <1>4, <1>5, <1>6, <1>7, <1>8 DEF IInv

LEMMA BackupStays ==
  ASSUME IInv, UNCHANGED backup PROVE BackupInv'
BY DEF IInv, BackupInv

\* A runner that ends, with a cause if it was about to record.
LEMMA EndKeeps ==
  ASSUME IInv, NEW r \in Runners, End(r),
         runner[r].pc # "idle",
         UNCHANGED <<tracker, content, completed, reapplied, backup, restoring>>,
         DataTypes', causes \subseteq causes',
         At(r, "record") => Current(r) \in causes'
  PROVE  IInv'
<1>1. runner' = [runner EXCEPT ![r] = Idle] /\ runner'[r] = Idle
  BY DEF End, IInv
<1>2. BackupInv' /\ ReappliedForCause'
  BY BackupStays DEF IInv, ReappliedForCause
<1>3. RunnerInv(r)' /\ ListInv(r)' /\ ~Applying(r)'
  BY <1>1, IdleType DEF RunnerInv, ListInv, Applying
<1>4. \A f \in completed' : f \in causes' \/ (f \in completed /\ ~AtRecord(r, f))
  BY DEF AtRecord
<1>5. \A f \in Names : IsApplied(f) => IsApplied(f)'
  BY DEF IsApplied
<1>6. QED
  BY <1>1, <1>2, <1>3, <1>4, <1>5, IdleType, Busy, RunnerStep

(***************************************************************************)
(* Starting, seeding and the audit.                                        *)
(***************************************************************************)
LEMMA CountIsNat == ASSUME NEW lost \in SomeLost PROVE Cardinality(lost) \in Nat
<1>1. lost = {} \/ \E f \in Names : lost = {f}
  BY DEF SomeLost
<1>2. IsFiniteSet(lost)
  BY <1>1, FS_EmptySet, FS_Singleton
<1>3. QED
  BY <1>2, FS_CardinalityType

LEMMA AnsweredType ==
  ASSUME NEW lost \in SomeLost, mishaps \in 0..Mishaps, Answered(lost)
  PROVE  mishaps' \in 0..Mishaps
BY CountIsNat, BoundsAssumption DEF Answered

LEMMA StartKeeps ==
  ASSUME IInv, NEW r \in Runners, NEW mode, NEW gate \in SUBSET AppTables,
         Start(r, mode, gate)
  PROVE  IInv'
<1> DEFINE s == [Idle EXCEPT !.pc = IF mode = "--record-existing" THEN "seed" ELSE "audit",
                             !.todo = IF mode = "--record-existing" THEN Shipped ELSE {},
                             !.accept = mode = "--accept-drift", !.gate = gate]
<1>1. /\ At(r, "idle") /\ restoring = NoRestore /\ runner' = [runner EXCEPT ![r] = s]
      /\ ops < MaxOps /\ ops' = ops + 1
      /\ UNCHANGED <<schema, tracker, content, backup, restoring, begun, completed,
                     reapplied, causes, seeded, torn, mishaps>>
  BY DEF Start, history, past
<1>2. Shipped \in SUBSET Names
  BY DEF Shipped
<1>3. /\ s \in RunnerType /\ s.pc \in {"seed", "audit"}
      /\ (s.pc = "audit" => s.todo = {}) /\ s.todo \subseteq Shipped
  BY <1>2 DEF Idle, RunnerType
<1> HIDE DEF s
<1>4. runner'[r] = s /\ Shipped' = Shipped
  BY <1>1 DEF IInv, Shipped
<1>5. DataTypes'
  BY <1>1, BoundsAssumption DEF IInv, DataTypes
<1>6. BackupInv' /\ ReappliedForCause'
  BY <1>1, BackupStays DEF IInv, ReappliedForCause
<1>7. RunnerInv(r)' /\ ListInv(r)' /\ ~Applying(r)'
  BY <1>3, <1>4 DEF RunnerInv, ListInv, Applying
<1>8. ~\E f : AtRecord(r, f)
  BY <1>1 DEF AtRecord, At
<1>9. \A f \in Names : IsApplied(f) => IsApplied(f)'
  BY <1>1 DEF IsApplied
<1>10. QED
  BY <1>1, <1>3, <1>5, <1>6, <1>7, <1>8, <1>9, RunnerStep

LEMMA SeedKeeps ==
  ASSUME IInv, NEW r \in Runners, Seed(r) PROVE IInv'
<1>1. /\ At(r, "seed") /\ runner[r].todo \subseteq Shipped
      /\ restoring = NoRestore
      /\ UNCHANGED <<schema, content, backup, restoring, begun, completed, reapplied, causes,
                     torn, mishaps, ops>>
  BY Busy DEF Seed, At, IInv, RunnerInv
<1>2. CASE runner[r].todo = {}
  <2>1. End(r) /\ UNCHANGED <<tracker, seeded>>
    BY <1>2 DEF Seed
  <2>2. DataTypes'
    BY <1>1, <2>1 DEF IInv, DataTypes
  <2>3. QED
    BY <1>1, <2>1, <2>2, EndKeeps DEF At
<1>3. CASE runner[r].todo # {}
  <2> DEFINE f == Current(r)
             s == [runner[r] EXCEPT !.todo = Rest(r)]
  <2>1. /\ f \in runner[r].todo /\ f \in Names /\ f \in Shipped
        /\ content[f] \in Versions
    BY <1>1, <1>3, CurrentIsListed DEF IInv, DataTypes, Shipped
  <2>2. /\ tracker' = (IF tracker[f] \in {"none", "null"}
                         THEN [tracker EXCEPT ![f] = content[f]] ELSE tracker)
        /\ seeded' = (IF tracker[f] = "none" /\ f \notin completed
                        THEN seeded \union {f} ELSE seeded)
        /\ runner' = [runner EXCEPT ![r] = s]
    BY <1>3 DEF Seed
  <2>3. s \in RunnerType /\ s.pc = "seed" /\ s.todo \subseteq Shipped
    BY <1>1 DEF IInv, RunnerType, Rest, At
  <2> HIDE DEF s
  <2>4. runner'[r] = s /\ Shipped' = Shipped
    BY <1>1, <2>2 DEF IInv, Shipped
  <2>5. DataTypes'
    BY <1>1, <2>1, <2>2 DEF IInv, DataTypes, Sums
  <2>6. BackupInv' /\ ReappliedForCause'
    BY <1>1, BackupStays DEF IInv, ReappliedForCause
  <2>7. RunnerInv(r)' /\ ListInv(r)' /\ ~Applying(r)'
    BY <2>3, <2>4 DEF RunnerInv, ListInv, Applying
  <2>8. ~\E g : AtRecord(r, g)
    BY <1>1 DEF AtRecord, At
  <2>9. \A g \in Names : IsApplied(g) => IsApplied(g)'
    BY <2>1, <2>2 DEF IsApplied, IInv, DataTypes, Versions
  <2>10. QED
    BY <1>1, <2>2, <2>3, <2>5, <2>6, <2>7, <2>8, <2>9, RunnerStep
<1>4. QED
  BY <1>2, <1>3

LEMMA AuditKeeps ==
  ASSUME IInv, NEW r \in Runners, Audit(r) PROVE IInv'
<1>1. /\ At(r, "audit") /\ runner[r].todo = {} /\ restoring = NoRestore
      /\ UNCHANGED <<schema, tracker, content, backup, restoring, begun, completed,
                     reapplied, causes, seeded, torn, ops>>
  BY Busy DEF Audit, At, IInv, RunnerInv, history, past
<1>2. PICK lost \in SomeLost : Answered(lost)
  BY DEF Audit
<1>3. DataTypes'
  BY <1>1, <1>2, AnsweredType DEF IInv, DataTypes
<1>4. CASE End(r)
  BY <1>1, <1>3, <1>4, EndKeeps DEF At
<1>5. CASE Go(r, "pending")
  <2> DEFINE s == [runner[r] EXCEPT !.pc = "pending"]
  <2>1. runner' = [runner EXCEPT ![r] = s]
    BY <1>5 DEF Go
  <2>2. s \in RunnerType /\ s.pc = "pending" /\ s.todo = {}
    BY <1>1 DEF IInv, RunnerType
  <2> HIDE DEF s
  <2>3. runner'[r] = s
    BY <2>1 DEF IInv
  <2>4. BackupInv' /\ ReappliedForCause'
    BY <1>1, BackupStays DEF IInv, ReappliedForCause
  <2>5. RunnerInv(r)' /\ ListInv(r)' /\ ~Applying(r)'
    BY <2>2, <2>3 DEF RunnerInv, ListInv, Applying
  <2>6. ~\E g : AtRecord(r, g)
    BY <1>1 DEF AtRecord, At
  <2>7. \A g \in Names : IsApplied(g) => IsApplied(g)'
    BY <1>1 DEF IsApplied
  <2>8. QED
    BY <1>1, <1>3, <2>1, <2>2, <2>4, <2>5, <2>6, <2>7, RunnerStep
<1>6. QED
  BY <1>4, <1>5 DEF Audit

(***************************************************************************)
(* The list: a file that looks pending and is not, or that a rival has on  *)
(* its list, becomes a cause here.                                         *)
(***************************************************************************)
LEMMA ListPendingKeeps ==
  ASSUME IInv, NEW r \in Runners, ListPending(r) PROVE IInv'
<1>1. /\ At(r, "pending") /\ restoring = NoRestore
      /\ UNCHANGED <<schema, tracker, content, backup, restoring, begun, completed,
                     reapplied, seeded, torn, ops>>
  BY Busy DEF ListPending, At
<1> DEFINE Listing(lost, pending, rivals) ==
        /\ pending = {f \in Shipped : ~SeenApplied(f, lost)}
        /\ rivals = UNION {runner[q].todo : q \in Runners \ {r}}
        /\ Answered(lost)
        /\ causes' = causes \union {f \in pending : f \in rivals \/ IsApplied(f)}
        /\ IF pending = {} THEN End(r)
           ELSE runner' = [runner EXCEPT ![r].pc = "backup", ![r].todo = pending]
<1>0. PICK lost \in SomeLost : \E pending, rivals : Listing(lost, pending, rivals)
  BY DEF ListPending
<1>2. PICK pending, rivals : Listing(lost, pending, rivals)
  BY <1>0
<1>3. pending \in SUBSET Names /\ pending \subseteq Shipped
  BY <1>2 DEF Shipped
<1>4. DataTypes'
  <2>1. mishaps' \in 0..Mishaps
    BY <1>2, AnsweredType DEF IInv, DataTypes
  <2>2. QED
    BY <1>1, <1>2, <1>3, <2>1 DEF IInv, DataTypes
<1>5. causes \subseteq causes'
  BY <1>2
<1>6. CASE pending = {}
  BY <1>1, <1>2, <1>4, <1>5, <1>6, EndKeeps DEF At
<1>7. CASE pending # {}
  <2> DEFINE s == [runner[r] EXCEPT !.pc = "backup", !.todo = pending]
  <2>1. runner' = [runner EXCEPT ![r] = s]
    BY <1>2, <1>7
  <2>2. s \in RunnerType /\ s.pc = "backup" /\ s.todo = pending
    BY <1>3 DEF IInv, RunnerType
  <2> HIDE DEF s
  <2>3. runner'[r] = s /\ Shipped' = Shipped
    BY <1>1, <2>1 DEF IInv, Shipped
  <2>4. BackupInv' /\ ReappliedForCause'
    BY <1>1, <1>5, BackupStays DEF IInv, ReappliedForCause
  <2>5. ~\E g : AtRecord(r, g)
    BY <1>1 DEF AtRecord, At
  <2>6. \A g \in Names : IsApplied(g)' <=> IsApplied(g)
    BY <1>1 DEF IsApplied
  <2>7. RunnerInv(r)'
    BY <1>3, <2>2, <2>3 DEF RunnerInv
  <2>8. \A q \in Runners : q # r => runner[q].todo \cap pending \subseteq causes'
    BY <1>2
  <2>9. ListInv(r)'
    <3>1. SUFFICES ASSUME NEW f \in pending, f \in completed PROVE f \in causes'
      BY <1>1, <2>2, <2>3 DEF ListInv
    <3>2. CASE IsApplied(f)
      BY <1>2, <3>1, <3>2
    <3>3. CASE \E q \in Runners : AtRecord(q, f)
      <4>1. PICK q \in Runners : AtRecord(q, f)
        BY <3>3
      <4>2. q # r
        BY <2>5, <4>1
      <4>3. f \in runner[q].todo
        <5>1. runner[q].todo # {}
          BY <4>1 DEF AtRecord, At, IInv, RunnerInv
        <5>2. QED
          BY <4>1, <5>1, CurrentIsListed DEF AtRecord
      <4>4. QED
        BY <2>8, <3>1, <4>2, <4>3
    <3>4. CASE f \in causes
      BY <1>5, <3>4
    <3>5. QED
      BY <1>1, <3>1, <3>2, <3>3, <3>4 DEF IInv, RecordInv
  <2>10. QED
    BY <1>1, <1>4, <1>5, <2>1, <2>2, <2>4, <2>5, <2>6, <2>7, <2>8, <2>9, RunnerStep
<1>8. QED
  BY <1>6, <1>7

(***************************************************************************)
(* The backup, of a runner or the nightly one.                             *)
(***************************************************************************)
LEMMA SnapshotIs ==
  ASSUME IInv, backup' = Snapshot PROVE BackupInv'
<1>1. Snapshot \in BackupType
  BY DEF Snapshot, IInv, DataTypes, BackupType
<1>2. Snapshot.reapplied = reapplied /\ Snapshot.causes = causes
  BY DEF Snapshot
<1>3. QED
  BY <1>1, <1>2 DEF BackupInv, IInv, ReappliedForCause

LEMMA BackUpKeeps ==
  ASSUME IInv, NEW r \in Runners, BackUp(r) PROVE IInv'
<1>1. /\ At(r, "backup") /\ Applying(r) /\ RunnerInv(r) /\ restoring = NoRestore
      /\ UNCHANGED <<schema, tracker, content, restoring, begun, completed, reapplied,
                     causes, seeded, torn, mishaps, ops>>
  BY Busy DEF BackUp, At, Applying, IInv, history, past
<1>2. DataTypes' /\ ReappliedForCause'
  BY <1>1 DEF IInv, DataTypes, ReappliedForCause
<1>4. CASE End(r) /\ UNCHANGED backup
  BY <1>1, <1>2, <1>4, EndKeeps DEF At
<1>5. ASSUME Go(r, "check"), UNCHANGED backup \/ backup' = Snapshot
      PROVE  IInv'
  <2> DEFINE s == [runner[r] EXCEPT !.pc = "check"]
  <2>1. runner' = [runner EXCEPT ![r] = s]
    BY <1>5 DEF Go
  <2>2. s \in RunnerType /\ s.pc = "check" /\ s.todo = runner[r].todo
    BY DEF IInv, RunnerType
  <2> HIDE DEF s
  <2>3. runner'[r] = s /\ Shipped' = Shipped
    BY <1>1, <2>1 DEF IInv, Shipped
  <2>4. BackupInv'
    BY <1>5, BackupStays, SnapshotIs
  <2>5. RunnerInv(r)'
    BY <1>1, <2>2, <2>3 DEF RunnerInv, At
  <2>6. \A f : ~AtRecord(r, f)
    BY <1>1 DEF AtRecord, At
  <2>7. ListInv(r)'
    BY <1>1, <2>2, <2>3, <2>6 DEF IInv, ListInv
  <2>8. \A q \in Runners : q # r /\ Applying(q) => runner[q].todo \cap s.todo \subseteq causes'
    BY <1>1, <2>2 DEF IInv, RivalsInv
  <2>9. \A g \in Names : IsApplied(g) => IsApplied(g)'
    BY <1>1 DEF IsApplied
  <2>10. QED
    BY <1>1, <1>2, <2>1, <2>2, <2>4, <2>5, <2>6, <2>7, <2>8, <2>9, RunnerStep
<1>6. QED
  BY <1>4, <1>5 DEF BackUp

(***************************************************************************)
(* The loop over the list.                                                 *)
(***************************************************************************)
LEMMA CheckFileKeeps ==
  ASSUME IInv, NEW r \in Runners, CheckFile(r) PROVE IInv'
<1>1. /\ At(r, "check") /\ Applying(r) /\ runner[r].todo \subseteq Shipped
      /\ restoring = NoRestore
      /\ UNCHANGED <<schema, tracker, content, backup, restoring, begun, completed,
                     reapplied, causes, seeded, torn, ops>>
  BY Busy DEF CheckFile, At, Applying, IInv, RunnerInv, history, past
<1>2. mishaps' \in 0..Mishaps
  <2>1. CASE UNCHANGED mishaps
    BY <2>1 DEF IInv, DataTypes
  <2>2. ASSUME runner[r].todo # {}, NEW lost \in {{}, {Current(r)}}, Answered(lost)
        PROVE  mishaps' \in 0..Mishaps
    <3>1. lost \in SomeLost
      BY <2>2, CurrentIsListed DEF SomeLost
    <3>2. QED
      BY <2>2, <3>1, AnsweredType DEF IInv, DataTypes
  <2>3. QED
    BY <2>1, <2>2 DEF CheckFile
<1>3. DataTypes'
  BY <1>1, <1>2 DEF IInv, DataTypes
<1>4. CASE End(r)
  BY <1>1, <1>3, <1>4, EndKeeps DEF At
<1>5. ASSUME runner[r].todo # {},
             runner' = [runner EXCEPT ![r].pc = "apply", ![r].stmt = 1,
                                      ![r].digest = content[Current(r)]]
      PROVE  IInv'
  <2> DEFINE s == [runner[r] EXCEPT !.pc = "apply", !.stmt = 1,
                                    !.digest = content[Current(r)]]
  <2>1. runner' = [runner EXCEPT ![r] = s]
    BY <1>5
  <2>2. Current(r) \in Names /\ Current(r) \in runner[r].todo
    BY <1>5, CurrentIsListed
  <2>3. content[Current(r)] \in Versions
    BY <1>1, <2>2 DEF Shipped, IInv, DataTypes
  <2>4. /\ s \in RunnerType /\ s.pc = "apply" /\ s.todo = runner[r].todo /\ s.stmt = 1
        /\ s.digest # "none"
    BY <2>3 DEF IInv, RunnerType, Versions
  <2> HIDE DEF s
  <2>5. runner'[r] = s /\ Shipped' = Shipped
    BY <1>1, <2>1 DEF IInv, Shipped
  <2>6. Current(r)' = Current(r)
    BY <2>4, <2>5 DEF Current
  <2>7. BackupInv' /\ ReappliedForCause'
    BY <1>1, BackupStays DEF IInv, ReappliedForCause
  <2>8. RunnerInv(r)'
    <3>1. Len(Statements(Current(r))) \in {1, 2}
      BY <2>2, StatementsAre
    <3>2. 1 \in 1..Len(Statements(Current(r)))
      BY <3>1
    <3>3. QED
      BY <1>1, <1>5, <2>4, <2>5, <2>6, <3>2 DEF RunnerInv
  <2>9. \A f : ~AtRecord(r, f)
    BY <1>1 DEF AtRecord, At
  <2>10. ListInv(r)'
    BY <1>1, <2>4, <2>5, <2>9 DEF IInv, ListInv
  <2>11. \A q \in Runners : q # r /\ Applying(q) => runner[q].todo \cap s.todo \subseteq causes'
    BY <1>1, <2>4 DEF IInv, RivalsInv
  <2>12. \A g \in Names : IsApplied(g) => IsApplied(g)'
    BY <1>1 DEF IsApplied
  <2>13. QED
    BY <1>1, <1>3, <2>1, <2>4, <2>7, <2>8, <2>9, <2>10, <2>11, <2>12, RunnerStep
<1>6. QED
  BY <1>4, <1>5 DEF CheckFile

LEMMA ApplyKeeps ==
  ASSUME IInv, NEW r \in Runners, Apply(r) PROVE IInv'
<1> DEFINE f == Current(r)
           last == runner[r].stmt = Len(Statements(f))
           s == IF last THEN [runner[r] EXCEPT !.pc = "record"]
                ELSE [runner[r] EXCEPT !.stmt = @ + 1]
<1>1. /\ At(r, "apply") /\ Applying(r) /\ RunnerInv(r) /\ runner[r] \in RunnerType
      /\ restoring = NoRestore
      /\ UNCHANGED <<tracker, content, backup, restoring, causes, seeded, torn, mishaps, ops>>
  BY Busy DEF Apply, At, Applying, IInv
<1>2. /\ schema' = Executed(Statements(f)[runner[r].stmt], schema)
      /\ reapplied' = (IF f \in completed THEN reapplied \union {f} ELSE reapplied)
      /\ completed' = (IF last THEN completed \union {f} ELSE completed)
      /\ begun' = begun \union {f}
  BY DEF Apply
<1>3. /\ runner[r].todo # {} /\ runner[r].digest # "none" /\ runner[r].stmt \in Nat
      /\ runner[r].stmt \in 1..Len(Statements(f)) /\ runner[r].todo \subseteq Shipped
  BY <1>1 DEF RunnerInv, RunnerType, At
<1>4. f \in runner[r].todo /\ f \in Names
  BY <1>3, CurrentIsListed
<1>5. Len(Statements(f)) \in {1, 2} /\ Statements(f)[runner[r].stmt] \in StatementType
  BY <1>3, <1>4, StatementsAre
<1>6. runner' = [runner EXCEPT ![r] = s]
  BY DEF Apply, Advanced
<1> HIDE DEF f
<1>7. /\ s \in RunnerType /\ s.todo = runner[r].todo /\ s.digest = runner[r].digest
      /\ s.pc = (IF last THEN "record" ELSE "apply") /\ s.stmt \in 1..Len(Statements(f))
  BY <1>1, <1>3, <1>5 DEF RunnerType, At
<1> HIDE DEF s, last
<1>8. runner'[r] = s /\ Shipped' = Shipped
  BY <1>1, <1>6 DEF IInv, Shipped
<1>9. Current(r)' = f
  BY <1>7, <1>8 DEF Current, f
<1>10. DataTypes'
  <2>1. schema' \subseteq Facts
    BY <1>2, <1>5, ExecutedType DEF IInv, DataTypes
  <2>2. QED
    BY <1>1, <1>2, <1>4, <2>1 DEF IInv, DataTypes
<1>11. \A g : ~AtRecord(r, g)
  BY <1>1 DEF AtRecord, At
<1>12. f \in completed => f \in causes
  BY <1>1, <1>4, <1>11 DEF IInv, ListInv
<1>13. BackupInv' /\ ReappliedForCause'
  BY <1>1, <1>2, <1>12, BackupStays DEF IInv, ReappliedForCause
<1>14. RunnerInv(r)'
  BY <1>3, <1>7, <1>8, <1>9 DEF RunnerInv
<1>15. \A g : AtRecord(r, g)' <=> last /\ g = f
  BY <1>7, <1>8, <1>9 DEF AtRecord, At
<1>16. ListInv(r)'
  <2>1. SUFFICES ASSUME NEW g \in runner[r].todo, g \in completed'
                 PROVE  g \in causes' \/ AtRecord(r, g)'
    BY <1>7, <1>8 DEF ListInv
  <2>2. CASE g \in completed
    BY <1>1, <1>11, <2>1, <2>2 DEF IInv, ListInv
  <2>3. CASE g \notin completed
    BY <1>2, <1>15, <2>1, <2>3
  <2>4. QED
    BY <2>2, <2>3
<1>17. \A q \in Runners : q # r /\ Applying(q) => runner[q].todo \cap s.todo \subseteq causes'
  BY <1>1, <1>7 DEF IInv, RivalsInv
<1>18. \A g \in Names : IsApplied(g) => IsApplied(g)'
  BY <1>1 DEF IsApplied
<1>19. /\ \A g \in completed' \ completed : g \in runner[r].todo
       /\ \A g \in completed' : AtRecord(r, g)' \/ (g \in completed /\ ~AtRecord(r, g))
  BY <1>2, <1>4, <1>11, <1>15
<1>20. QED
  BY <1>1, <1>6, <1>7, <1>10, <1>13, <1>14, <1>16, <1>17, <1>18, <1>19, RunnerStep

LEMMA ApplyFailsKeeps ==
  ASSUME IInv, NEW r \in Runners, ApplyFails(r) PROVE IInv'
<1>1. At(r, "apply") /\ End(r)
        /\ UNCHANGED <<schema, tracker, content, backup, restoring, begun, completed,
                       reapplied, causes, seeded, torn, ops>>
  BY DEF ApplyFails, history, past
<1>2. mishaps' \in 0..Mishaps
  BY BoundsAssumption DEF ApplyFails, IInv, DataTypes
<1>3. DataTypes'
  BY <1>1, <1>2 DEF IInv, DataTypes
<1>4. QED
  BY <1>1, <1>3, EndKeeps DEF At

LEMMA RecordKeeps ==
  ASSUME IInv, NEW r \in Runners, Record(r) PROVE IInv'
<1> DEFINE f == Current(r)
           s == [runner[r] EXCEPT !.pc = "check", !.todo = Rest(r)]
<1>1. /\ At(r, "record") /\ Applying(r) /\ RunnerInv(r) /\ runner[r] \in RunnerType
      /\ tracker' = [tracker EXCEPT ![f] = runner[r].digest]
      /\ runner' = [runner EXCEPT ![r] = s]
      /\ restoring = NoRestore
      /\ UNCHANGED <<schema, content, backup, restoring, begun, completed, reapplied, causes,
                     seeded, torn, mishaps, ops>>
  BY Busy DEF Record, At, Applying, IInv, history, past
<1>2. /\ runner[r].todo # {} /\ runner[r].digest \in Versions
      /\ runner[r].todo \subseteq Shipped
  BY <1>1 DEF RunnerInv, RunnerType, At
<1>3. f \in runner[r].todo /\ f \in Names
  BY <1>2, CurrentIsListed
<1>4. /\ s \in RunnerType /\ s.pc = "check" /\ s.todo = runner[r].todo \ {f}
  BY <1>1 DEF RunnerType, Rest
<1> HIDE DEF s, f
<1>5. runner'[r] = s /\ Shipped' = Shipped
  BY <1>1 DEF IInv, Shipped
<1>6. DataTypes'
  BY <1>1, <1>2, <1>3 DEF IInv, DataTypes, Sums
<1>7. BackupInv' /\ ReappliedForCause'
  BY <1>1, BackupStays DEF IInv, ReappliedForCause
<1>8. RunnerInv(r)'
  BY <1>2, <1>4, <1>5 DEF RunnerInv
<1>9. \A g \in Names : (IsApplied(g) \/ g = f) => IsApplied(g)'
  BY <1>1, <1>2 DEF IsApplied, IInv, DataTypes, Versions
<1>10. \A g : AtRecord(r, g) <=> g = f
  BY <1>1 DEF AtRecord, f
<1>11. ListInv(r)'
  BY <1>1, <1>4, <1>5, <1>10 DEF IInv, ListInv
<1>12. \A q \in Runners : q # r /\ Applying(q) => runner[q].todo \cap s.todo \subseteq causes'
  BY <1>1, <1>4 DEF IInv, RivalsInv
<1>13. \A g \in completed' : IsApplied(g)' \/ (g \in completed /\ ~AtRecord(r, g))
  BY <1>1, <1>3, <1>9, <1>10
<1>14. QED
  BY <1>1, <1>4, <1>6, <1>7, <1>8, <1>9, <1>11, <1>12, <1>13, RunnerStep

LEMMA KillKeeps ==
  ASSUME IInv, NEW r \in Runners, Kill(r) PROVE IInv'
<1>1. /\ End(r) /\ ~At(r, "idle")
      /\ UNCHANGED <<schema, tracker, content, backup, restoring, begun, completed,
                     reapplied, seeded, torn, ops>>
      /\ causes' = (IF At(r, "record") THEN causes \union {Current(r)} ELSE causes)
      /\ mishaps' \in 0..Mishaps
  BY BoundsAssumption DEF Kill, IInv, DataTypes
<1>2. At(r, "record") => Current(r) \in Names
  BY CurrentIsListed DEF IInv, RunnerInv, At
<1>3. DataTypes'
  BY <1>1, <1>2 DEF IInv, DataTypes
<1>4. QED
  BY <1>1, <1>3, EndKeeps DEF At

(***************************************************************************)
(* The operator, while no runner is at work.                               *)
(***************************************************************************)
LEMMA IdleRunners ==
  ASSUME IInv, AllIdle
  PROVE  /\ \A r \in Runners : ~Applying(r) /\ RunnerInv(r) /\ runner[r].pc = "idle"
                               /\ \A f : ~AtRecord(r, f)
         /\ restoring = NoRestore => \A f \in completed : IsApplied(f) \/ f \in causes
<1>1. \A r \in Runners : runner[r].pc = "idle"
  BY DEF AllIdle, At
<1>2. \A r \in Runners : ~Applying(r) /\ \A f : ~AtRecord(r, f)
  BY <1>1 DEF Applying, AtRecord, At
<1>3. QED
  BY <1>1, <1>2 DEF IInv, RecordInv

LEMMA IdleKeeps ==
  ASSUME IInv, AllIdle, UNCHANGED runner, DataTypes', BackupInv', RestoreInv',
         ReappliedForCause',
         restoring' = NoRestore => \A f \in completed' : IsApplied(f)' \/ f \in causes'
  PROVE  IInv'
<1>1. ASSUME NEW r \in Runners PROVE RunnerInv(r)' /\ ListInv(r)' /\ ~Applying(r)'
  <2>1. runner'[r] = runner[r] /\ runner[r].pc = "idle" /\ runner[r].todo = {}
    BY IdleRunners DEF RunnerInv
  <2>2. QED
    BY <2>1 DEF RunnerInv, ListInv, Applying
<1>2. RivalsInv' /\ RecordInv'
  BY <1>1 DEF RivalsInv, RecordInv
<1>3. QED
  BY <1>1, <1>2 DEF IInv

LEMMA DeployKeeps ==
  ASSUME IInv, NEW f \in Names, Deploy(f) PROVE IInv'
<1>1. /\ AllIdle /\ restoring = NoRestore /\ ops < MaxOps /\ ops' = ops + 1
      /\ \E v \in Versions \union {"absent"} : content' = [content EXCEPT ![f] = v]
      /\ UNCHANGED <<schema, tracker, backup, runner, restoring, begun, completed, reapplied,
                     causes, seeded, torn, mishaps>>
  BY DEF Deploy, history, past
<1>2. DataTypes'
  <2>1. content' \in [Names -> {"absent"} \union Versions]
    BY <1>1 DEF IInv, DataTypes
  <2>2. ops' \in 0..MaxOps
    BY <1>1, BoundsAssumption DEF IInv, DataTypes
  <2>3. QED
    BY <1>1, <2>1, <2>2 DEF IInv, DataTypes
<1>3. BackupInv' /\ ReappliedForCause' /\ RestoreInv'
  BY <1>1, BackupStays DEF IInv, ReappliedForCause, RestoreInv
<1>4. \A g \in completed' : IsApplied(g)' \/ g \in causes'
  BY <1>1, IdleRunners DEF IsApplied
<1>5. QED
  BY <1>1, <1>2, <1>3, <1>4, IdleKeeps

LEMMA NightlyKeeps ==
  ASSUME IInv, NEW gate, BackUpNightly(gate) PROVE IInv'
<1>1. /\ restoring = NoRestore /\ ops < MaxOps /\ ops' = ops + 1 /\ backup' = Snapshot
      /\ UNCHANGED <<schema, tracker, content, runner, restoring, begun, completed,
                     reapplied, causes, seeded, torn, mishaps>>
  BY DEF BackUpNightly, history, past
<1>2. ops' \in 0..MaxOps
  BY <1>1, BoundsAssumption DEF IInv, DataTypes
<1>3. DataTypes' /\ BackupInv' /\ RestoreInv' /\ ReappliedForCause'
  BY <1>1, <1>2, SnapshotIs DEF IInv, DataTypes, RestoreInv, ReappliedForCause
<1>4. \A r \in Runners : RunnerInv(r)' /\ ListInv(r)'
  BY <1>1 DEF IInv, RunnerInv, ListInv, Shipped, Current, Applying, AtRecord, At
<1>5. RivalsInv' /\ RecordInv'
  BY <1>1 DEF IInv, RivalsInv, RecordInv, IsApplied, Current, Applying, AtRecord, At
<1>6. QED
  BY <1>1, <1>3, <1>4, <1>5 DEF IInv

LEMMA DumpIs ==
  /\ DOMAIN Dump = 1..4 /\ ToSet(Dump) = AppTables \union {"schema_migrations"}
  /\ ToSet(Dump) = {Dump[1], Dump[2], Dump[3], Dump[4]}
  /\ "schema_migrations" \notin AppTables
BY DEF Dump, ToSet, AppTables

\* The table a restore is at is one it has left.
LEMMA AtTableIsLeft ==
  ASSUME restoring \in RestoreType, restoring.left # {}
  PROVE  AtTable \in restoring.left
<1> DEFINE places == {i \in DOMAIN Dump : Dump[i] \in restoring.left}
<1>1. places \in SUBSET (1..4) /\ places # {}
  BY DumpIs DEF RestoreType
<1>2. \E i \in places : \A j \in places : i <= j
  <2>1. CASE 1 \in places
    BY <1>1, <2>1
  <2>2. CASE 1 \notin places /\ 2 \in places
    BY <1>1, <2>2
  <2>3. CASE 1 \notin places /\ 2 \notin places /\ 3 \in places
    BY <1>1, <2>3
  <2>4. CASE 1 \notin places /\ 2 \notin places /\ 3 \notin places
    BY <1>1, <2>4
  <2>5. QED
    BY <2>1, <2>2, <2>3, <2>4
<1>3. Min(places) \in places
  <2> HIDE DEF places
  <2>1. QED
    BY <1>2 DEF Min
<1>4. QED
  BY <1>3 DEF AtTable

\* What a restore finds.
LEMMA WhileRestoring ==
  ASSUME IInv, restoring.pc \in {"drop", "load"} \/ restoring.left # {}
  PROVE  /\ restoring \in RestoreType /\ AllIdle /\ backup \in BackupType
         /\ backup.kept /\ restoring # NoRestore
         /\ restoring.pc = "load" => restoring.left # {}
<1>1. restoring # NoRestore
  BY DEF NoRestore
<1>2. QED
  BY <1>1 DEF IInv, RestoreInv, BackupInv, NoBackup

\* A step of a restore that is not its last.
LEMMA RestoreStep ==
  ASSUME IInv, restoring.pc \in {"drop", "load"},
         restoring' \in RestoreType, restoring'.pc = "load" => restoring'.left # {},
         UNCHANGED <<backup, runner, reapplied, causes>>, DataTypes'
  PROVE  IInv'
<1>1. AllIdle /\ backup.kept
  BY WhileRestoring
<1>2. RestoreInv' /\ restoring' # NoRestore
  BY <1>1 DEF RestoreInv, AllIdle, At, RestoreType, NoRestore
<1>3. BackupInv' /\ ReappliedForCause'
  BY BackupStays DEF IInv, ReappliedForCause
<1>4. QED
  BY <1>1, <1>2, <1>3, IdleKeeps

LEMMA RestoreKeeps ==
  ASSUME IInv, NEW recreate \in BOOLEAN, Restore(recreate) PROVE IInv'
<1>1. /\ AllIdle /\ backup.kept /\ ops < MaxOps /\ ops' = ops + 1
      /\ restoring' = [pc |-> "drop", left |-> {"schema_migrations"} \union Tables(backup.schema)]
      /\ torn' = TRUE
      /\ UNCHANGED <<content, backup, runner, mishaps>>
  BY DEF Restore
<1>2. backup \in BackupType /\ backup.reapplied \subseteq backup.causes
  BY <1>1 DEF IInv, BackupInv, NoBackup
<1>3. ops' \in 0..MaxOps
  BY <1>1, BoundsAssumption DEF IInv, DataTypes
<1>4. restoring' \in RestoreType /\ restoring'.pc = "drop"
  <2>1. Tables(backup.schema) \subseteq AppTables
    BY <1>2 DEF BackupType, Tables, Facts
  <2>2. QED
    BY <1>1, <2>1, DumpIs DEF RestoreType
<1>5. RestoreInv' /\ restoring' # NoRestore
  BY <1>1, <1>4 DEF RestoreInv, AllIdle, At, NoRestore
<1>6. CASE recreate
  <2>1. /\ schema' = {} /\ tracker' = NoRows /\ begun' = {} /\ completed' = {} /\ seeded' = {}
        /\ reapplied' = backup.reapplied /\ causes' = backup.causes
    BY <1>6 DEF Restore
  <2>2. NoRows \in [Names -> Sums]
    BY DEF NoRows, RowsOf, Sums
  <2>3. DataTypes'
    BY <1>1, <1>2, <1>3, <2>1, <2>2 DEF IInv, DataTypes, BackupType
  <2>4. BackupInv' /\ ReappliedForCause'
    BY <1>1, <1>2, <2>1, BackupStays DEF ReappliedForCause
  <2>5. QED
    BY <1>1, <1>5, <2>3, <2>4, IdleKeeps
<1>7. CASE ~recreate
  <2>1. UNCHANGED <<schema, tracker, begun, completed, reapplied, causes, seeded>>
    BY <1>7 DEF Restore
  <2>2. DataTypes'
    BY <1>1, <1>3, <2>1 DEF IInv, DataTypes
  <2>3. BackupInv' /\ ReappliedForCause'
    BY <1>1, <2>1, BackupStays DEF IInv, ReappliedForCause
  <2>4. QED
    BY <1>1, <1>5, <2>2, <2>3, IdleKeeps
<1>8. QED
  BY <1>6, <1>7

LEMMA DropTableKeeps ==
  ASSUME IInv, DropTable PROVE IInv'
<1>1. /\ restoring.pc = "drop" /\ restoring.left # {}
      /\ restoring' = [restoring EXCEPT !.pc = "load"]
      /\ UNCHANGED <<content, backup, runner, reapplied, causes, torn, mishaps, ops>>
  BY DEF DropTable
<1>2. restoring \in RestoreType
  BY <1>1, WhileRestoring
<1>3. restoring' \in RestoreType /\ restoring'.left # {}
  BY <1>1, <1>2 DEF RestoreType
<1>4. NoRows \in [Names -> Sums]
  BY DEF NoRows, RowsOf, Sums
<1>5. /\ tracker' \in {tracker, NoRows} /\ seeded' \in {seeded, {}}
      /\ schema' \subseteq schema /\ begun' \subseteq begun /\ completed' \subseteq completed
  BY DEF DropTable
<1>6. DataTypes'
  BY <1>1, <1>4, <1>5 DEF IInv, DataTypes
<1>7. QED
  BY <1>1, <1>3, <1>6, RestoreStep

\* The statement that brings a table back.
LEMMA DumpedType ==
  ASSUME restoring \in RestoreType, restoring.left # {}, backup \in BackupType,
         AtTable # "schema_migrations"
  PROVE  Dumped \in StatementType /\ AtTable \in AppTables
<1>1. AtTable \in AppTables
  BY AtTableIsLeft, DumpIs DEF RestoreType
<1>2. {x \in backup.schema : x.table = AtTable} \in SUBSET Facts
  BY DEF BackupType
<1>3. QED
  BY <1>1, <1>2 DEF Dumped, Create, StatementType

LEMMA LoadTableKeeps ==
  ASSUME IInv, LoadTable PROVE IInv'
<1>1. /\ restoring.pc = "load"
      /\ restoring' = [pc |-> "drop", left |-> restoring.left \ {AtTable}]
      /\ UNCHANGED <<content, backup, runner, reapplied, causes, torn, mishaps, ops>>
  BY DEF LoadTable
<1>2. restoring \in RestoreType /\ restoring.left # {} /\ backup \in BackupType
  BY <1>1, WhileRestoring
<1>3. restoring' \in RestoreType /\ restoring'.pc = "drop"
  BY <1>1, <1>2 DEF RestoreType
<1>4. DataTypes'
  <2>1. CASE AtTable = "schema_migrations"
    <3>1. /\ tracker' = backup.tracker /\ seeded' = backup.seeded
          /\ UNCHANGED <<schema, begun, completed>>
      BY <2>1 DEF LoadTable
    <3>2. QED
      BY <1>1, <1>2, <3>1 DEF IInv, DataTypes, BackupType
  <2>2. CASE AtTable # "schema_migrations"
    <3>1. /\ schema' = Executed(Dumped, schema)
          /\ begun' \subseteq begun \union backup.begun
          /\ completed' \subseteq completed \union backup.completed
          /\ UNCHANGED <<tracker, seeded>>
      BY <2>2 DEF LoadTable
    <3>2. schema' \subseteq Facts
      BY <1>2, <2>2, <3>1, DumpedType, ExecutedType DEF IInv, DataTypes
    <3>3. QED
      BY <1>1, <1>2, <3>1, <3>2 DEF IInv, DataTypes, BackupType
  <2>3. QED
    BY <2>1, <2>2
<1>5. QED
  BY <1>1, <1>3, <1>4, RestoreStep

\* A restore that is over, one way or the other.
LEMMA RestoreOverKeeps ==
  ASSUME IInv, restoring # NoRestore, RestoreOver, mishaps' \in 0..Mishaps, torn' \in BOOLEAN
  PROVE  IInv'
<1>1. /\ restoring' = NoRestore /\ causes' = causes \union {f \in completed : ~IsApplied(f)}
      /\ UNCHANGED <<schema, tracker, content, backup, runner, begun, completed, reapplied,
                     seeded, ops>>
  BY DEF RestoreOver
<1>2. AllIdle
  BY DEF IInv, RestoreInv
<1>3. DataTypes'
  BY <1>1 DEF IInv, DataTypes
<1>4. BackupInv' /\ RestoreInv' /\ ReappliedForCause'
  BY <1>1, BackupStays DEF IInv, RestoreInv, ReappliedForCause
<1>5. \A f \in completed' : IsApplied(f)' \/ f \in causes'
  BY <1>1 DEF IsApplied
<1>6. QED
  BY <1>1, <1>2, <1>3, <1>4, <1>5, IdleKeeps

LEMMA RestoreEndsKeeps ==
  ASSUME IInv, RestoreEnds PROVE IInv'
<1>1. restoring.pc = "drop" /\ torn' = backup.torn /\ RestoreOver /\ UNCHANGED mishaps
  BY DEF RestoreEnds
<1>2. restoring # NoRestore /\ backup \in BackupType
  BY <1>1, WhileRestoring
<1>3. torn' \in BOOLEAN /\ mishaps' \in 0..Mishaps
  BY <1>1, <1>2 DEF BackupType, IInv, DataTypes
<1>4. QED
  BY <1>1, <1>2, <1>3, RestoreOverKeeps

LEMMA RestoreFailsKeeps ==
  ASSUME IInv, RestoreFails PROVE IInv'
<1>1. restoring.left # {} /\ RestoreOver /\ UNCHANGED torn
  BY DEF RestoreFails
<1>2. restoring # NoRestore
  BY <1>1, WhileRestoring
<1>3. mishaps' \in 0..Mishaps
  BY BoundsAssumption DEF RestoreFails, IInv, DataTypes
<1>4. QED
  BY <1>1, <1>2, <1>3, RestoreOverKeeps DEF IInv, DataTypes

(***************************************************************************)
(* The inductive invariant holds.                                          *)
(***************************************************************************)
LEMMA InvInit == Init => IInv
<1> SUFFICES ASSUME Init PROVE IInv
  OBVIOUS
<1>1. ByHand \subseteq Facts /\ Legacy \subseteq Facts
  BY DEF ByHand, Legacy, ByCompany, ActorKey, Index, Constraint, Table, Facts, AppTables
<1>2. schema \subseteq Facts
  BY <1>1 DEF Init
<1>3. \A sum \in {"none", "null", "v1"} : RowsOf(sum) \in [Names -> Sums]
  BY DEF RowsOf, Sums, Versions
<1>4. tracker \in [Names -> Sums]
  BY <1>3 DEF Init, NoRows
<1>5. completed \subseteq Names
  BY NamesAre DEF Init, Migrated
<1>6. DataTypes
  <2>1. /\ begun = completed /\ causes \subseteq completed
        /\ reapplied = {} /\ seeded = {} /\ mishaps = 0 /\ ops = 0
    BY DEF Init
  <2>2. content \in [Names -> {"absent"} \union Versions]
    BY DEF Init, Versions
  <2>3. torn \in BOOLEAN
    BY DEF Init
  <2>4. QED
    BY <1>2, <1>4, <1>5, <2>1, <2>2, <2>3, BoundsAssumption DEF DataTypes
<1>7. runner \in [Runners -> RunnerType]
  BY IdleType DEF Init
<1>8. \A r \in Runners : runner[r] = Idle
  BY DEF Init
<1>9. \A r \in Runners : RunnerInv(r) /\ ListInv(r) /\ ~Applying(r)
  BY <1>8, IdleType DEF RunnerInv, ListInv, Applying
<1>10. RecordInv /\ RestoreInv
  BY DEF Init, RecordInv, RestoreInv, IsApplied
<1>11. BackupInv /\ ReappliedForCause
  BY DEF Init, BackupInv, NoBackup, ReappliedForCause
<1>12. QED
  BY <1>6, <1>7, <1>9, <1>10, <1>11 DEF IInv, RivalsInv

LEMMA RunKeeps ==
  ASSUME IInv, NEW r \in Runners, Run(r) PROVE IInv'
<1>1. AppTables \in SUBSET AppTables /\ SomeGates \subseteq SUBSET AppTables
  BY DEF SomeGates, AppTables
<1>2. ASSUME NEW mode, NEW gate \in SUBSET AppTables, Start(r, mode, gate) PROVE IInv'
  BY <1>2, StartKeeps
<1>3. CASE Seed(r) \/ Audit(r) \/ ListPending(r) \/ BackUp(r) \/ CheckFile(r)
  BY <1>3, SeedKeeps, AuditKeeps, ListPendingKeeps, BackUpKeeps, CheckFileKeeps
<1>4. CASE Apply(r) \/ ApplyFails(r) \/ Record(r) \/ Kill(r)
  BY <1>4, ApplyKeeps, ApplyFailsKeeps, RecordKeeps, KillKeeps
<1>5. QED
  BY <1>1, <1>2, <1>3, <1>4 DEF Run

LEMMA InvInductive == IInv /\ [Next]_vars => IInv'
<1> SUFFICES ASSUME IInv, [Next]_vars PROVE IInv'
  OBVIOUS
<1>1. CASE UNCHANGED vars
  <2>1. UNCHANGED <<schema, tracker, content, backup, runner, restoring, begun, completed,
                    reapplied, causes, seeded, torn, mishaps, ops>>
    BY <1>1 DEF vars, history, past
  <2>2. DataTypes' /\ BackupInv' /\ RestoreInv' /\ ReappliedForCause'
    BY <2>1 DEF IInv, DataTypes, BackupInv, RestoreInv, AllIdle, At, ReappliedForCause
  <2>3. \A r \in Runners : RunnerInv(r)' /\ ListInv(r)'
    BY <2>1 DEF IInv, RunnerInv, ListInv, Shipped, IsApplied, Current, Applying, AtRecord, At
  <2>4. RivalsInv' /\ RecordInv'
    BY <2>1 DEF IInv, RivalsInv, RecordInv, IsApplied, Current, Applying, AtRecord, At
  <2>5. QED
    BY <2>1, <2>2, <2>3, <2>4 DEF IInv
<1>2. QED
  BY <1>1, RunKeeps, DeployKeeps, NightlyKeeps, RestoreKeeps, DropTableKeeps, LoadTableKeeps,
     RestoreEndsKeeps, RestoreFailsKeeps DEF Next

LEMMA InvAlways == Spec => []IInv
BY InvInit, InvInductive, PTL DEF Spec

\* A runner executes a statement of the file it holds, of a text it has the digest
\* of, and touches the application's tables only: TypeOK of MigrateRunner.
THEOREM MigrateTypes == Spec => []TypeOK
<1>1. IInv => TypeOK
  <2> SUFFICES ASSUME IInv PROVE TypeOK
    OBVIOUS
  <2>1. Tables(schema) \subseteq AppTables
    BY DEF IInv, DataTypes, Tables, Facts
  <2>2. ASSUME NEW r \in Runners, runner[r].pc \in {"apply", "record"}
        PROVE  runner[r].stmt \in DOMAIN Statements(Current(r))
    <3>1. /\ runner[r].todo # {} /\ runner[r].stmt \in 1..Len(Statements(Current(r)))
      BY <2>2 DEF IInv, RunnerInv
    <3>2. Current(r) \in Names
      BY <3>1, CurrentIsListed
    <3>3. DOMAIN Statements(Current(r)) = 1..Len(Statements(Current(r)))
      BY <3>2, StatementsAre
    <3>4. QED
      BY <3>1, <3>3
  <2>3. ASSUME NEW r \in Runners
        PROVE  /\ runner[r].pc \in {"idle", "seed", "audit", "pending", "backup", "check",
                                    "apply", "record"}
               /\ runner[r].digest \in {"none"} \union Versions
    BY DEF IInv, RunnerType
  <2>4. /\ restoring.pc \in {"none", "drop", "load"} /\ restoring.left \subseteq ToSet(Dump)
        /\ restoring.pc = "load" => AtTable \in restoring.left
    <3>1. CASE restoring = NoRestore
      BY <3>1 DEF NoRestore
    <3>2. CASE restoring \in RestoreType /\ (restoring.pc = "load" => restoring.left # {})
      BY <3>2, AtTableIsLeft DEF RestoreType
    <3>3. QED
      BY <3>1, <3>2 DEF IInv, RestoreInv
  <2>5. QED
    BY <2>1, <2>2, <2>3, <2>4 DEF IInv, DataTypes, Sums, TypeOK
<1>2. QED
  BY <1>1, InvAlways, PTL

\* No file is applied twice but for a runner that died before it recorded, a lost
\* answer, a rival or a tracker that is not the schema's: ReappliedForCause of
\* MigrateRunner.
THEOREM ReappliedTheorem == Spec => []ReappliedForCause
<1>1. IInv => ReappliedForCause
  BY DEF IInv
<1>2. QED
  BY <1>1, InvAlways, PTL

(***************************************************************************)
(* What the tracker says of the schema.  As long as nothing was applied    *)
(* twice, a completed file has left its tables and indexes behind, in the  *)
(* database and in the backup; of a file that was not begun there is       *)
(* nothing; a runner between the statements of 010 has made its index; and *)
(* who has a row was completed or recorded by hand.  This last is lost     *)
(* while a restore is unfinished and holds again at its end, for the rows  *)
(* and the tables are then all those of the backup.                        *)
(***************************************************************************)
TaxTable   == Table("tax_invoices", "release")
AuditTable == Table("audit_logs", "release")

\* No table has other facts than the files give it.
OnlyReleased(facts) ==
  /\ \A x \in facts : x.table = "tax_invoices" => x \in {TaxTable, ByCompany, ByIssue}
  /\ \A x \in facts : x.table = "audit_logs" => x \in {AuditTable, ActorKey}
  /\ "tax_invoices" \in Tables(facts) => TaxTable \in facts
  /\ "audit_logs" \in Tables(facts) => AuditTable \in facts /\ ActorKey \in facts

Left(facts, done, twice) ==
  /\ Files[1] \in done => TaxTable \in facts
  /\ Files[2] \in done \ twice => AuditTable \in facts
  /\ Files[3] \in done => TaxTable \in facts /\ ByIssue \in facts /\ ByCompany \notin facts

Untouched(facts, some) ==
  /\ Files[1] \notin some => "tax_invoices" \notin Tables(facts)
  /\ Files[2] \notin some => "audit_logs" \notin Tables(facts)
  /\ Files[3] \notin some => ByIssue \notin facts
  /\ Files[3] \notin some /\ "tax_invoices" \in Tables(facts) => ByCompany \in facts

Holds(facts, some, done, twice) ==
  OnlyReleased(facts) /\ Left(facts, done, twice) /\ Untouched(facts, some)

Known(sums, done, twice, hand) ==
  \A f \in Names : sums[f] # "none" => f \in done \union twice \union hand

HandsInv(r) ==
  /\ At(r, "record") => Current(r) \in completed
  /\ At(r, "apply") /\ Current(r) = Files[3] /\ runner[r].stmt = 2 => ByIssue \in schema

BackupSpeaks ==
  backup.kept =>
    /\ Holds(backup.schema, backup.begun, backup.completed, backup.reapplied)
    /\ backup.torn \/ Known(backup.tracker, backup.completed, backup.reapplied, backup.seeded)
    /\ backup.reapplied \subseteq reapplied

\* What a restore has brought back.
RestoreSpeaks ==
  restoring # NoRestore =>
    /\ torn
    /\ "schema_migrations" \notin restoring.left =>
         tracker = backup.tracker /\ seeded = backup.seeded
    /\ \A t \in Tables(backup.schema) \ restoring.left :
         backup.completed \cap Works(t) \subseteq completed
    /\ restoring.pc = "load" => AtTable \notin Tables(schema)

SpeaksInv ==
  /\ Holds(schema, begun, completed, reapplied)
  /\ torn \/ Known(tracker, completed, reapplied, seeded)
  /\ \A r \in Runners : HandsInv(r)
  /\ BackupSpeaks /\ RestoreSpeaks

LEMMA FactsDiffer ==
  /\ TaxTable.table = "tax_invoices" /\ ByCompany.table = "tax_invoices"
  /\ ByIssue.table = "tax_invoices" /\ AuditTable.table = "audit_logs"
  /\ ActorKey.table = "audit_logs"
  /\ TaxTable # ByCompany /\ TaxTable # ByIssue /\ ByCompany # ByIssue
BY DEF TaxTable, AuditTable, ByCompany, ByIssue, ActorKey, Table, Index, Constraint

\* The statements of each file.
LEMMA StatementsOf ==
  /\ Len(Statements(Files[1])) = 1
  /\ Statements(Files[1])[1] = Create("tax_invoices", {TaxTable, ByCompany})
  /\ Len(Statements(Files[2])) = 2
  /\ Statements(Files[2])[1] = RenameAside
  /\ Statements(Files[2])[2] = Create("audit_logs", {AuditTable, ActorKey})
  /\ Len(Statements(Files[3])) = 2
  /\ Statements(Files[3])[1] = Add(ByIssue)
  /\ Statements(Files[3])[2] = Drop(ByCompany)
BY NamesAre DEF Statements, TaxTable, AuditTable

LEMMA Creates ==
  ASSUME NEW t, NEW made, NEW facts
  PROVE  Executed(Create(t, made), facts)
           = IF t \in Tables(facts) THEN facts ELSE facts \union made
BY DEF Executed, Create

LEMMA Renames ==
  ASSUME NEW facts \in SUBSET Facts
  PROVE  /\ \A x \in facts : x.table # "audit_logs" => x \in Executed(RenameAside, facts)
         /\ \A x \in Executed(RenameAside, facts) :
              x \in facts \/ x.table = "audit_logs_legacy"
         /\ \A x \in Executed(RenameAside, facts) : x.table # "audit_logs"
<1>1. Executed(RenameAside, facts) =
        {IF x.table = "audit_logs" THEN [x EXCEPT !.table = "audit_logs_legacy"] ELSE x :
           x \in facts}
  BY DEF Executed, RenameAside
<1>2. \A x \in Facts : [x EXCEPT !.table = "audit_logs_legacy"].table = "audit_logs_legacy"
  BY DEF Facts
<1>3. QED
  BY <1>1, <1>2

LEMMA AddsDrops ==
  ASSUME NEW x, NEW facts
  PROVE  /\ Executed(Add(x), facts) = facts \union {x}
         /\ Executed(Drop(x), facts) = facts \ {x}
BY DEF Executed, Add, Drop

(***************************************************************************)
(* One statement of a file.                                                *)
(***************************************************************************)
LEMMA StatementSpeaks ==
  ASSUME NEW facts \in SUBSET Facts, NEW some, NEW done, NEW twice, NEW f \in Names,
         NEW n \in 1..Len(Statements(f)), Accepted(Statements(f)[n], facts),
         Holds(facts, some, done, twice),
         f = Files[3] /\ n = 2 => ByIssue \in facts
  PROVE  LET after == Executed(Statements(f)[n], facts)
             now   == IF n = Len(Statements(f)) THEN done \union {f} ELSE done
             again == IF f \in done THEN twice \union {f} ELSE twice
         IN /\ Holds(after, some \union {f}, now, again)
            /\ ByIssue \in facts => ByIssue \in after
            /\ f = Files[3] => ByIssue \in after
<1> DEFINE after == Executed(Statements(f)[n], facts)
           now   == IF n = Len(Statements(f)) THEN done \union {f} ELSE done
           again == IF f \in done THEN twice \union {f} ELSE twice
<1>1. Files[1] # Files[2] /\ Files[1] # Files[3] /\ Files[2] # Files[3]
  BY NamesAre
<1>0. OnlyReleased(facts) /\ Left(facts, done, twice) /\ Untouched(facts, some)
  BY DEF Holds
<1>2. CASE f = Files[1]
  <2>1. n = 1 /\ n = Len(Statements(f))
    BY <1>2, StatementsOf
  <2>2. after = IF "tax_invoices" \in Tables(facts) THEN facts
                ELSE facts \union {TaxTable, ByCompany}
    BY <1>2, <2>1, StatementsOf, Creates
  <2>3. now = done \union {Files[1]} /\ again \in {twice, twice \union {Files[1]}}
    BY <1>2, <2>1
  <2> HIDE DEF after, now, again
  <2>4. "tax_invoices" \notin Tables(facts) => TaxTable \notin facts
    BY FactsDiffer DEF Tables
  <2>5. /\ "tax_invoices" \in Tables(after)
        /\ "audit_logs" \in Tables(after) <=> "audit_logs" \in Tables(facts)
    BY <2>2, FactsDiffer DEF Tables
  <2>6. TaxTable \in after /\ facts \subseteq after
    BY <1>0, <2>2 DEF OnlyReleased
  <2>7. OnlyReleased(after)
    BY <1>0, <2>2, <2>5, <2>6, FactsDiffer DEF OnlyReleased
  <2>8. Left(after, now, again)
    BY <1>0, <1>1, <2>2, <2>3, <2>4, <2>6 DEF Left
  <2>9. Untouched(after, some \union {Files[1]})
    BY <1>0, <1>1, <2>2, <2>5, FactsDiffer DEF Untouched
  <2>10. QED
    BY <1>1, <1>2, <2>6, <2>7, <2>8, <2>9 DEF after, now, again, Holds
<1>3. CASE f = Files[2] /\ n = 1
  <2>1. after = Executed(RenameAside, facts) /\ now = done
        /\ again = IF Files[2] \in done THEN twice \union {Files[2]} ELSE twice
    BY <1>3, StatementsOf
  <2> HIDE DEF after, now, again
  <2>2. /\ \A x \in facts : x.table # "audit_logs" => x \in after
        /\ \A x \in after : x \in facts \/ x.table = "audit_logs_legacy"
        /\ \A x \in after : x.table # "audit_logs"
    BY <2>1, Renames
  <2>3. \A x \in {TaxTable, ByCompany, ByIssue} : x \in after <=> x \in facts
    BY <2>2, FactsDiffer
  <2>4. /\ "tax_invoices" \in Tables(after) <=> "tax_invoices" \in Tables(facts)
        /\ "audit_logs" \notin Tables(after)
    BY <2>2 DEF Tables
  <2>5. OnlyReleased(after)
    BY <1>0, <2>2, <2>3, <2>4 DEF OnlyReleased
  <2>6. Left(after, now, again)
    BY <1>0, <1>1, <2>1, <2>3 DEF Left
  <2>7. Untouched(after, some \union {Files[2]})
    BY <1>0, <1>1, <2>3, <2>4 DEF Untouched
  <2>8. QED
    BY <1>1, <1>3, <2>3, <2>5, <2>6, <2>7 DEF after, now, again, Holds
<1>4. CASE f = Files[2] /\ n = 2
  <2>1. after = IF "audit_logs" \in Tables(facts) THEN facts
                ELSE facts \union {AuditTable, ActorKey}
    <3>1. Statements(f)[n] = Create("audit_logs", {AuditTable, ActorKey})
      BY <1>4, StatementsOf
    <3>2. after = Executed(Create("audit_logs", {AuditTable, ActorKey}), facts)
      BY <3>1
    <3> HIDE DEF after
    <3>3. QED
      BY <3>2, Creates
  <2>2. now = done \union {Files[2]} /\ again \in {twice, twice \union {Files[2]}}
    BY <1>4, StatementsOf
  <2> HIDE DEF after, now, again
  <2>3. AuditTable \in after /\ ActorKey \in after
    BY <1>0, <2>1 DEF OnlyReleased
  <2>4. \A x \in {TaxTable, ByCompany, ByIssue} : x \in after <=> x \in facts
    BY <2>1, FactsDiffer
  <2>5. "tax_invoices" \in Tables(after) <=> "tax_invoices" \in Tables(facts)
    BY <2>1, FactsDiffer DEF Tables
  <2>6. OnlyReleased(after)
    BY <1>0, <2>1, <2>3, <2>4, <2>5, FactsDiffer DEF OnlyReleased
  <2>7. Left(after, now, again)
    BY <1>0, <1>1, <2>2, <2>3, <2>4 DEF Left
  <2>8. Untouched(after, some \union {Files[2]})
    BY <1>0, <1>1, <2>4, <2>5 DEF Untouched
  <2>9. QED
    BY <1>1, <1>4, <2>4, <2>6, <2>7, <2>8 DEF after, now, again, Holds
<1>5. CASE f = Files[3] /\ n = 1
  <2>1. after = facts \union {ByIssue} /\ now = done
    BY <1>5, StatementsOf, AddsDrops
  <2>2. again \in {twice, twice \union {Files[3]}}
    BY <1>5
  <2>3. "tax_invoices" \in Tables(facts)
    BY <1>5, StatementsOf, FactsDiffer DEF Accepted, Add
  <2> HIDE DEF after, now, again
  <2>4. "audit_logs" \in Tables(after) <=> "audit_logs" \in Tables(facts)
    BY <2>1, FactsDiffer DEF Tables
  <2>5. OnlyReleased(after)
    BY <1>0, <2>1, <2>3, <2>4, FactsDiffer DEF OnlyReleased
  <2>6. Left(after, now, again)
    BY <1>0, <1>1, <2>1, <2>2, FactsDiffer DEF Left
  <2>7. Untouched(after, some \union {Files[3]})
    BY <1>0, <1>1, <2>3, <2>4 DEF Untouched
  <2>8. QED
    BY <1>5, <2>1, <2>5, <2>6, <2>7 DEF after, now, again, Holds
<1>6. CASE f = Files[3] /\ n = 2
  <2>1. after = facts \ {ByCompany} /\ now = done \union {Files[3]}
    BY <1>6, StatementsOf, AddsDrops
  <2>2. again \in {twice, twice \union {Files[3]}}
    BY <1>6
  <2>3. ByCompany \in facts
    BY <1>6, StatementsOf DEF Accepted, Drop
  <2> HIDE DEF after, now, again
  <2>4. "tax_invoices" \in Tables(facts)
    BY <2>3, FactsDiffer DEF Tables
  <2>5. TaxTable \in after /\ ByIssue \in after /\ ByCompany \notin after
    BY <1>0, <1>6, <2>1, <2>4, FactsDiffer DEF OnlyReleased
  <2>6. "audit_logs" \in Tables(after) <=> "audit_logs" \in Tables(facts)
    BY <2>1, FactsDiffer DEF Tables
  <2>7. /\ AuditTable \in facts => AuditTable \in after
        /\ ActorKey \in facts => ActorKey \in after
    BY <2>1, FactsDiffer
  <2>8. OnlyReleased(after)
    BY <1>0, <2>1, <2>5, <2>6, <2>7 DEF OnlyReleased
  <2>9. Left(after, now, again)
    BY <1>0, <1>1, <2>1, <2>2, <2>5, <2>7 DEF Left
  <2>10. Untouched(after, some \union {Files[3]})
    BY <1>0, <1>1, <2>4, <2>6 DEF Untouched
  <2>11. QED
    BY <1>6, <2>5, <2>8, <2>9, <2>10 DEF after, now, again, Holds
<1>7. f = Files[1] \/ (f \in {Files[2], Files[3]} /\ n \in {1, 2})
  BY NamesAre, StatementsOf
<1>8. QED
  BY <1>2, <1>3, <1>4, <1>5, <1>6, <1>7

(***************************************************************************)
(* The steps.                                                              *)
(***************************************************************************)
LEMMA SpeaksInit == Init => SpeaksInv
<1> SUFFICES ASSUME Init PROVE SpeaksInv
  OBVIOUS
<1>1. \A r \in Runners : HandsInv(r)
  BY DEF Init, HandsInv, At, Idle
<1>2. BackupSpeaks /\ RestoreSpeaks
  BY DEF Init, BackupSpeaks, NoBackup, RestoreSpeaks
<1>3. CASE schema = {} /\ tracker = NoRows /\ completed = {}
  <2>1. Holds(schema, begun, completed, reapplied)
    BY <1>3 DEF Holds, OnlyReleased, Left, Untouched, Tables
  <2>2. \A f \in Names : tracker[f] = "none"
    BY <1>3 DEF NoRows, RowsOf
  <2>3. QED
    BY <1>1, <1>2, <2>1, <2>2 DEF SpeaksInv, Known
<1>4. ASSUME NEW old \in {{}, Legacy}, schema = ByHand \union old,
             NEW sum, tracker = RowsOf(sum), completed = Migrated
      PROVE  SpeaksInv
  <2>1. ByHand = {TaxTable, ByCompany, AuditTable, ActorKey}
    BY DEF ByHand, TaxTable, AuditTable
  <2>2. \A x \in old : x.table = "audit_logs_legacy"
    BY <1>4 DEF Legacy, Table
  <2>3. \A x \in {"tax_invoices", "audit_logs"} : x # "audit_logs_legacy"
    OBVIOUS
  <2>4. OnlyReleased(schema)
    BY <1>4, <2>1, <2>2, <2>3, FactsDiffer DEF OnlyReleased
  <2>5. completed = {Files[1], Files[2]} /\ Files[3] \notin completed /\ begun = completed
    BY <1>4, NamesAre DEF Migrated, Init
  <2>6. Left(schema, completed, reapplied)
    BY <1>4, <2>1, <2>5 DEF Left
  <2>7. Untouched(schema, begun)
    BY <1>4, <2>1, <2>2, <2>3, <2>5, FactsDiffer DEF Untouched
  <2>8. \A f \in Names : tracker[f] # "none" => f \in completed
    BY <1>4 DEF RowsOf
  <2>9. QED
    BY <1>1, <1>2, <2>4, <2>6, <2>7, <2>8 DEF SpeaksInv, Holds, Known
<1>5. QED
  BY <1>3, <1>4 DEF Init

\* A step of a runner that leaves the schema and the backup alone.
LEMMA SpeaksStays ==
  ASSUME SpeaksInv, restoring = NoRestore,
         UNCHANGED <<schema, begun, completed, reapplied, torn, backup, restoring>>,
         torn \/ Known(tracker, completed, reapplied, seeded)',
         \A r \in Runners : HandsInv(r)'
  PROVE  SpeaksInv'
<1>1. Holds(schema, begun, completed, reapplied)'
  BY DEF SpeaksInv
<1>2. BackupSpeaks' /\ RestoreSpeaks'
  BY DEF SpeaksInv, BackupSpeaks, RestoreSpeaks
<1>3. QED
  BY <1>1, <1>2 DEF SpeaksInv

\* A runner that is not at a statement holds nothing, and the others go on.
LEMMA HandsStay ==
  ASSUME IInv, SpeaksInv, NEW r \in Runners, NEW s, runner' = [runner EXCEPT ![r] = s],
         UNCHANGED <<schema, completed>>,
         s.pc = "record" => Current(r)' \in completed,
         ~(s.pc = "apply" /\ Current(r)' = Files[3] /\ s.stmt = 2)
  PROVE  \A q \in Runners : HandsInv(q)'
<1>1. runner'[r] = s /\ \A q \in Runners \ {r} : runner'[q] = runner[q]
  BY DEF IInv
<1>2. \A q \in Runners \ {r} : Current(q)' = Current(q)
  BY <1>1 DEF Current
<1>3. ASSUME NEW q \in Runners \ {r} PROVE HandsInv(q)'
  BY <1>1, <1>2 DEF SpeaksInv, HandsInv, At
<1>4. HandsInv(r)'
  BY <1>1 DEF HandsInv, At
<1>5. QED
  BY <1>3, <1>4

\* What a runner does that neither executes nor records.
LEMMA QuietStep ==
  ASSUME IInv, SpeaksInv, NEW r \in Runners, NEW s, runner' = [runner EXCEPT ![r] = s],
         restoring = NoRestore,
         UNCHANGED <<schema, tracker, begun, completed, reapplied, seeded, torn, backup,
                     restoring>>,
         s.pc \notin {"apply", "record"}
  PROVE  SpeaksInv'
<1>1. \A q \in Runners : HandsInv(q)'
  BY HandsStay
<1>2. torn \/ Known(tracker, completed, reapplied, seeded)'
  BY DEF SpeaksInv
<1>3. QED
  BY <1>1, <1>2, SpeaksStays

LEMMA EndSpeaks ==
  ASSUME IInv, SpeaksInv, NEW r \in Runners, End(r), runner[r].pc # "idle",
         UNCHANGED <<schema, tracker, begun, completed, reapplied, seeded, torn, backup,
                     restoring>>
  PROVE  SpeaksInv'
BY IdleType, QuietStep, Busy DEF End

LEMMA StartSpeaks ==
  ASSUME IInv, SpeaksInv, NEW r \in Runners, NEW mode, NEW gate, Start(r, mode, gate)
  PROVE  SpeaksInv'
<1> DEFINE s == [Idle EXCEPT !.pc = IF mode = "--record-existing" THEN "seed" ELSE "audit",
                             !.todo = IF mode = "--record-existing" THEN Shipped ELSE {},
                             !.accept = mode = "--accept-drift", !.gate = gate]
<1>1. /\ runner' = [runner EXCEPT ![r] = s] /\ restoring = NoRestore
      /\ UNCHANGED <<schema, tracker, begun, completed, reapplied, seeded, torn, backup,
                     restoring>>
  BY DEF Start, history, past
<1>2. s.pc \notin {"apply", "record"}
  BY DEF Idle
<1> HIDE DEF s
<1>3. QED
  BY <1>1, <1>2, QuietStep

LEMMA SeedSpeaks ==
  ASSUME IInv, SpeaksInv, NEW r \in Runners, Seed(r) PROVE SpeaksInv'
<1>1. /\ runner[r].pc # "idle" /\ restoring = NoRestore
      /\ UNCHANGED <<schema, begun, completed, reapplied, torn, backup, restoring>>
  BY Busy DEF Seed, At
<1>2. CASE runner[r].todo = {}
  BY <1>1, <1>2, EndSpeaks DEF Seed
<1>3. CASE runner[r].todo # {}
  <2> DEFINE f == Current(r)
             s == [runner[r] EXCEPT !.todo = Rest(r)]
  <2>1. /\ tracker' = (IF tracker[f] \in {"none", "null"}
                         THEN [tracker EXCEPT ![f] = content[f]] ELSE tracker)
        /\ seeded' = (IF tracker[f] = "none" /\ f \notin completed
                        THEN seeded \union {f} ELSE seeded)
        /\ runner' = [runner EXCEPT ![r] = s]
    BY <1>3 DEF Seed
  <2>2. s.pc = "seed"
    BY DEF IInv, RunnerType, Seed, At
  <2> HIDE DEF s
  <2>3. \A q \in Runners : HandsInv(q)'
    BY <1>1, <2>1, <2>2, HandsStay
  <2>4. ASSUME ~torn, NEW g \in Names, tracker'[g] # "none"
        PROVE  g \in completed \union reapplied \union seeded'
    <3>1. tracker[g] # "none" => g \in completed \union reapplied \union seeded
      BY <2>4 DEF SpeaksInv, Known
    <3>2. CASE g = f
      BY <2>1, <3>1, <3>2
    <3>3. CASE g # f
      BY <2>1, <2>4, <3>1, <3>3 DEF IInv, DataTypes
    <3>4. QED
      BY <3>2, <3>3
  <2>5. torn \/ Known(tracker, completed, reapplied, seeded)'
    BY <1>1, <2>4 DEF Known
  <2>6. QED
    BY <1>1, <2>3, <2>5, SpeaksStays
<1>4. QED
  BY <1>2, <1>3

LEMMA AuditSpeaks ==
  ASSUME IInv, SpeaksInv, NEW r \in Runners, Audit(r) PROVE SpeaksInv'
<1>1. /\ runner[r].pc # "idle" /\ restoring = NoRestore
      /\ UNCHANGED <<schema, tracker, begun, completed, reapplied, seeded, torn, backup,
                     restoring>>
  BY Busy DEF Audit, At, history, past
<1>2. CASE End(r)
  BY <1>1, <1>2, EndSpeaks
<1>3. CASE Go(r, "pending")
  <2> DEFINE s == [runner[r] EXCEPT !.pc = "pending"]
  <2>1. runner' = [runner EXCEPT ![r] = s] /\ s.pc = "pending"
    BY <1>3 DEF Go, IInv, RunnerType
  <2> HIDE DEF s
  <2>2. QED
    BY <1>1, <2>1, QuietStep
<1>4. QED
  BY <1>2, <1>3 DEF Audit

LEMMA ListPendingSpeaks ==
  ASSUME IInv, SpeaksInv, NEW r \in Runners, ListPending(r) PROVE SpeaksInv'
<1>1. /\ runner[r].pc # "idle" /\ restoring = NoRestore
      /\ UNCHANGED <<schema, tracker, begun, completed, reapplied, seeded, torn, backup,
                     restoring>>
  BY Busy DEF ListPending, At
<1>2. CASE End(r)
  BY <1>1, <1>2, EndSpeaks
<1>3. ASSUME NEW pending, runner' = [runner EXCEPT ![r].pc = "backup", ![r].todo = pending]
      PROVE  SpeaksInv'
  <2> DEFINE s == [runner[r] EXCEPT !.pc = "backup", !.todo = pending]
  <2>1. runner' = [runner EXCEPT ![r] = s] /\ s.pc = "backup"
    BY <1>3 DEF IInv, RunnerType
  <2> HIDE DEF s
  <2>2. QED
    BY <1>1, <2>1, QuietStep
<1>4. QED
  BY <1>2, <1>3 DEF ListPending

\* A snapshot of a database that speaks.
LEMMA SnapshotSpeaks ==
  ASSUME SpeaksInv, backup' = Snapshot, UNCHANGED reapplied PROVE BackupSpeaks'
<1>1. /\ Snapshot.schema = schema /\ Snapshot.tracker = tracker /\ Snapshot.begun = begun
      /\ Snapshot.completed = completed /\ Snapshot.reapplied = reapplied
      /\ Snapshot.seeded = seeded /\ Snapshot.torn = torn
  BY DEF Snapshot
<1>2. QED
  BY <1>1 DEF SpeaksInv, BackupSpeaks

LEMMA BackUpSpeaks ==
  ASSUME IInv, SpeaksInv, NEW r \in Runners, BackUp(r) PROVE SpeaksInv'
<1>1. /\ runner[r].pc # "idle" /\ restoring = NoRestore
      /\ UNCHANGED <<schema, tracker, begun, completed, reapplied, seeded, torn, restoring>>
  BY Busy DEF BackUp, At, history, past
<1>2. CASE End(r) /\ UNCHANGED backup
  BY <1>1, <1>2, EndSpeaks
<1>3. ASSUME Go(r, "check"), UNCHANGED backup \/ backup' = Snapshot
      PROVE  SpeaksInv'
  <2> DEFINE s == [runner[r] EXCEPT !.pc = "check"]
  <2>1. runner' = [runner EXCEPT ![r] = s] /\ s.pc = "check"
    BY <1>3 DEF Go, IInv, RunnerType
  <2> HIDE DEF s
  <2>2. \A q \in Runners : HandsInv(q)'
    BY <1>1, <2>1, HandsStay
  <2>3. /\ Holds(schema, begun, completed, reapplied)'
        /\ (torn \/ Known(tracker, completed, reapplied, seeded))'
    BY <1>1 DEF SpeaksInv
  <2>4. RestoreSpeaks'
    BY <1>1 DEF RestoreSpeaks
  <2>5. CASE UNCHANGED backup
    <3>1. BackupSpeaks'
      BY <1>1, <2>5 DEF SpeaksInv, BackupSpeaks
    <3>2. QED
      BY <2>2, <2>3, <2>4, <3>1 DEF SpeaksInv
  <2>6. CASE backup' = Snapshot
    BY <1>1, <2>2, <2>3, <2>4, <2>6, SnapshotSpeaks DEF SpeaksInv
  <2>7. QED
    BY <1>3, <2>5, <2>6
<1>4. QED
  BY <1>2, <1>3 DEF BackUp

LEMMA NightlySpeaks ==
  ASSUME SpeaksInv, NEW gate, BackUpNightly(gate) PROVE SpeaksInv'
<1>1. /\ restoring = NoRestore /\ backup' = Snapshot
      /\ UNCHANGED <<schema, tracker, runner, restoring, begun, completed, reapplied, seeded,
                     torn>>
  BY DEF BackUpNightly, history, past
<1>2. BackupSpeaks' /\ RestoreSpeaks'
  BY <1>1, SnapshotSpeaks DEF RestoreSpeaks
<1>3. /\ Holds(schema, begun, completed, reapplied)'
      /\ (torn \/ Known(tracker, completed, reapplied, seeded))'
  BY <1>1 DEF SpeaksInv
<1>4. \A q \in Runners : HandsInv(q)'
  BY <1>1 DEF SpeaksInv, HandsInv, At, Current
<1>5. QED
  BY <1>2, <1>3, <1>4 DEF SpeaksInv

LEMMA CheckFileSpeaks ==
  ASSUME IInv, SpeaksInv, NEW r \in Runners, CheckFile(r) PROVE SpeaksInv'
<1>1. /\ runner[r].pc # "idle" /\ restoring = NoRestore
      /\ UNCHANGED <<schema, tracker, begun, completed, reapplied, seeded, torn, backup,
                     restoring>>
  BY Busy DEF CheckFile, At, history, past
<1>2. CASE End(r)
  BY <1>1, <1>2, EndSpeaks
<1>3. ASSUME runner' = [runner EXCEPT ![r].pc = "apply", ![r].stmt = 1,
                                      ![r].digest = content[Current(r)]]
      PROVE  SpeaksInv'
  <2> DEFINE s == [runner[r] EXCEPT !.pc = "apply", !.stmt = 1,
                                    !.digest = content[Current(r)]]
  <2>1. runner' = [runner EXCEPT ![r] = s] /\ s.pc = "apply" /\ s.stmt = 1
    BY <1>3 DEF IInv, RunnerType
  <2> HIDE DEF s
  <2>2. \A q \in Runners : HandsInv(q)'
    <3>1. s.pc # "record" /\ s.stmt # 2
      BY <2>1
    <3>2. QED
      BY <1>1, <2>1, <3>1, HandsStay
  <2>3. torn \/ Known(tracker, completed, reapplied, seeded)'
    BY <1>1 DEF SpeaksInv
  <2>4. QED
    BY <1>1, <2>2, <2>3, SpeaksStays
<1>4. QED
  BY <1>2, <1>3 DEF CheckFile

\* The table of each file.
LEMMA WorksAre ==
  ASSUME NEW t, NEW f \in Works(t)
  PROVE  /\ f \in {Files[1], Files[3]} => t = "tax_invoices"
         /\ f = Files[2] => t = "audit_logs"
<1>1. f \in Names /\ \E n \in 1..Len(Statements(f)) : Statements(f)[n].table = t
  BY StatementsAre DEF Works, ToSet
<1>2. PICK n \in 1..Len(Statements(f)) : Statements(f)[n].table = t
  BY <1>1
<1>3. /\ Create("tax_invoices", {TaxTable, ByCompany}).table = "tax_invoices"
      /\ Create("audit_logs", {AuditTable, ActorKey}).table = "audit_logs"
      /\ RenameAside.table = "audit_logs" /\ Add(ByIssue).table = "tax_invoices"
      /\ Drop(ByCompany).table = "tax_invoices"
  BY FactsDiffer DEF Create, RenameAside, Add, Drop
<1>4. CASE f = Files[1]
  <2>1. n = 1 /\ f # Files[2]
    BY <1>4, StatementsOf, NamesAre
  <2>2. QED
    BY <1>2, <1>3, <1>4, <2>1, StatementsOf
<1>5. CASE f = Files[2]
  <2>1. (n = 1 \/ n = 2) /\ f # Files[1] /\ f # Files[3]
    BY <1>5, StatementsOf, NamesAre
  <2>2. QED
    BY <1>2, <1>3, <1>5, <2>1, StatementsOf
<1>6. CASE f = Files[3]
  <2>1. (n = 1 \/ n = 2) /\ f # Files[2]
    BY <1>6, StatementsOf, NamesAre
  <2>2. QED
    BY <1>2, <1>3, <1>6, <2>1, StatementsOf
<1>7. QED
  BY <1>1, <1>4, <1>5, <1>6, NamesAre

LEMMA WorksHave ==
  /\ Files[1] \in Works("tax_invoices") /\ Files[3] \in Works("tax_invoices")
  /\ Files[2] \in Works("audit_logs")
<1>1. ASSUME NEW f \in Names PROVE f \in Works(Statements(f)[1].table)
  <2>1. 1 \in DOMAIN Statements(f)
    BY StatementsAre
  <2>2. Statements(f)[1] \in ToSet(Statements(f))
    BY <2>1 DEF ToSet
  <2>3. QED
    BY <2>2 DEF Works
<1>2. /\ Statements(Files[1])[1].table = "tax_invoices"
      /\ Statements(Files[2])[1].table = "audit_logs"
      /\ Statements(Files[3])[1].table = "tax_invoices"
  BY StatementsOf, FactsDiffer DEF Create, RenameAside, Add
<1>3. QED
  BY <1>1, <1>2, NamesAre

LEMMA ApplySpeaks ==
  ASSUME IInv, SpeaksInv, NEW r \in Runners, Apply(r) PROVE SpeaksInv'
<1> DEFINE f == Current(r)
           n == runner[r].stmt
           last == n = Len(Statements(f))
           s == IF last THEN [runner[r] EXCEPT !.pc = "record"]
                ELSE [runner[r] EXCEPT !.stmt = @ + 1]
<1>1. /\ At(r, "apply") /\ runner[r] \in RunnerType /\ Accepted(Statements(f)[n], schema)
      /\ runner[r].todo # {} /\ n \in 1..Len(Statements(f)) /\ n \in Nat
      /\ restoring = NoRestore
      /\ UNCHANGED <<tracker, backup, seeded, torn, restoring>>
  BY Busy DEF Apply, At, IInv, RunnerInv, RunnerType
<1>2. /\ schema' = Executed(Statements(f)[n], schema)
      /\ reapplied' = (IF f \in completed THEN reapplied \union {f} ELSE reapplied)
      /\ completed' = (IF last THEN completed \union {f} ELSE completed)
      /\ begun' = begun \union {f}
      /\ runner' = [runner EXCEPT ![r] = s]
  BY DEF Apply, Advanced
<1>3. f \in Names /\ schema \in SUBSET Facts
  BY <1>1, CurrentIsListed DEF IInv, DataTypes
<1>4. f = Files[3] /\ n = 2 => ByIssue \in schema
  BY <1>1 DEF SpeaksInv, HandsInv
<1>5. /\ Holds(schema', begun', completed', reapplied')
      /\ ByIssue \in schema => ByIssue \in schema'
      /\ f = Files[3] => ByIssue \in schema'
  <2>1. Holds(schema, begun, completed, reapplied)
    BY DEF SpeaksInv
  <2> HIDE DEF f, n
  <2>2. QED
    BY <1>1, <1>2, <1>3, <1>4, <2>1, StatementSpeaks
<1>6. (torn \/ Known(tracker, completed, reapplied, seeded))'
  BY <1>1, <1>2 DEF SpeaksInv, Known
<1>7. BackupSpeaks' /\ RestoreSpeaks'
  BY <1>1, <1>2 DEF SpeaksInv, BackupSpeaks, RestoreSpeaks
<1>8. /\ runner'[r] = s /\ s.todo = runner[r].todo
      /\ s.pc = (IF last THEN "record" ELSE "apply")
      /\ s.stmt = (IF last THEN n ELSE n + 1)
      /\ \A q \in Runners \ {r} : runner'[q] = runner[q]
  BY <1>1, <1>2 DEF IInv, RunnerType, At
<1> HIDE DEF s
<1>9. Current(r)' = f /\ \A q \in Runners \ {r} : Current(q)' = Current(q)
  BY <1>8 DEF Current
<1>10. ASSUME NEW q \in Runners \ {r} PROVE HandsInv(q)'
  BY <1>2, <1>5, <1>8, <1>9 DEF SpeaksInv, HandsInv, At
<1>11. HandsInv(r)'
  BY <1>2, <1>5, <1>8, <1>9 DEF HandsInv, At
<1>12. QED
  BY <1>5, <1>6, <1>7, <1>10, <1>11 DEF SpeaksInv

LEMMA RecordSpeaks ==
  ASSUME IInv, SpeaksInv, NEW r \in Runners, Record(r) PROVE SpeaksInv'
<1> DEFINE f == Current(r)
           s == [runner[r] EXCEPT !.pc = "check", !.todo = Rest(r)]
<1>1. /\ tracker' = [tracker EXCEPT ![f] = runner[r].digest]
      /\ runner' = [runner EXCEPT ![r] = s]
      /\ restoring = NoRestore
      /\ UNCHANGED <<schema, begun, completed, reapplied, seeded, torn, backup, restoring>>
  BY Busy DEF Record, At, history, past
<1>2. s.pc = "check"
  BY DEF IInv, RunnerType
<1>3. f \in completed
  BY DEF Record, SpeaksInv, HandsInv
<1> HIDE DEF s
<1>4. \A q \in Runners : HandsInv(q)'
  BY <1>1, <1>2, HandsStay
<1>5. torn \/ Known(tracker, completed, reapplied, seeded)'
  BY <1>1, <1>3 DEF SpeaksInv, Known, IInv, DataTypes
<1>6. QED
  BY <1>1, <1>4, <1>5, SpeaksStays

LEMMA RunSpeaks ==
  ASSUME IInv, SpeaksInv, NEW r \in Runners, Run(r) PROVE SpeaksInv'
<1>1. CASE ApplyFails(r) \/ Kill(r)
  <2>1. /\ End(r) /\ runner[r].pc # "idle"
        /\ UNCHANGED <<schema, tracker, begun, completed, reapplied, seeded, torn, backup,
                       restoring>>
    BY <1>1 DEF ApplyFails, Kill, At, history, past
  <2>2. QED
    BY <2>1, EndSpeaks
<1>2. QED
  BY <1>1, StartSpeaks, SeedSpeaks, AuditSpeaks, ListPendingSpeaks, BackUpSpeaks,
     CheckFileSpeaks, ApplySpeaks, RecordSpeaks DEF Run

LEMMA DeploySpeaks ==
  ASSUME SpeaksInv, NEW f \in Names, Deploy(f) PROVE SpeaksInv'
<1>1. UNCHANGED <<schema, tracker, backup, runner, restoring, begun, completed, reapplied,
                  seeded, torn>>
  BY DEF Deploy, history, past
<1>2. BackupSpeaks' /\ RestoreSpeaks'
  BY <1>1 DEF SpeaksInv, BackupSpeaks, RestoreSpeaks, AtTable
<1>3. \A r \in Runners : HandsInv(r)'
  BY <1>1 DEF SpeaksInv, HandsInv, At, Current
<1>4. QED
  BY <1>1, <1>2, <1>3 DEF SpeaksInv

(***************************************************************************)
(* A restore, into a new database or on top, table by table.               *)
(***************************************************************************)
LEMMA RestoreStarts ==
  ASSUME IInv, SpeaksInv, NEW recreate \in BOOLEAN, Restore(recreate) PROVE SpeaksInv'
<1>1. /\ AllIdle /\ backup.kept /\ torn'
      /\ restoring' = [pc |-> "drop", left |-> {"schema_migrations"} \union Tables(backup.schema)]
      /\ UNCHANGED <<content, backup, runner>>
  BY DEF Restore
<1>2. \A r \in Runners : HandsInv(r)'
  BY <1>1 DEF AllIdle, At, HandsInv
<1>3. RestoreSpeaks'
  BY <1>1 DEF RestoreSpeaks
<1>4. CASE recreate
  <2>1. /\ schema' = {} /\ begun' = {} /\ completed' = {} /\ reapplied' = backup.reapplied
    BY <1>4 DEF Restore
  <2>2. Holds(schema, begun, completed, reapplied)'
    BY <2>1 DEF Holds, OnlyReleased, Left, Untouched, Tables
  <2>3. BackupSpeaks'
    BY <1>1, <2>1 DEF SpeaksInv, BackupSpeaks
  <2>4. QED
    BY <1>1, <1>2, <1>3, <2>2, <2>3 DEF SpeaksInv
<1>5. CASE ~recreate
  <2>1. UNCHANGED <<schema, begun, completed, reapplied>>
    BY <1>5 DEF Restore
  <2>2. BackupSpeaks'
    BY <1>1, <2>1 DEF SpeaksInv, BackupSpeaks
  <2>3. QED
    BY <1>1, <1>2, <1>3, <2>1, <2>2 DEF SpeaksInv
<1>6. QED
  BY <1>4, <1>5

\* A table is dropped, and its files with it.
LEMMA DropHolds ==
  ASSUME NEW facts, NEW some, NEW done, NEW twice, NEW t, Holds(facts, some, done, twice)
  PROVE  Holds({x \in facts : x.table # t}, some \ Works(t), done \ Works(t), twice)
<1> DEFINE after == {x \in facts : x.table # t}
<1>1. \A x : x \in after <=> x \in facts /\ x.table # t
  OBVIOUS
<1>2. \A u : u \in Tables(after) <=> u \in Tables(facts) /\ u # t
  BY DEF Tables
<1>3. /\ Files[1] \in Works(t) <=> t = "tax_invoices"
      /\ Files[3] \in Works(t) <=> t = "tax_invoices"
      /\ Files[2] \in Works(t) <=> t = "audit_logs"
  BY WorksAre, WorksHave
<1> HIDE DEF after
<1>4. OnlyReleased(after)
  BY <1>1, <1>2, FactsDiffer DEF Holds, OnlyReleased
<1>5. Left(after, done \ Works(t), twice)
  BY <1>1, <1>3, FactsDiffer DEF Holds, Left
<1>6. Untouched(after, some \ Works(t))
  BY <1>1, <1>2, <1>3, FactsDiffer DEF Holds, Untouched
<1>7. QED
  BY <1>4, <1>5, <1>6 DEF Holds, after

\* A table that is not there is brought back from facts that hold themselves.
LEMMA LoadHolds ==
  ASSUME NEW facts, NEW some, NEW done, NEW twice, NEW t, t \notin Tables(facts),
         Holds(facts, some, done, twice),
         NEW kept, NEW some0, NEW done0, NEW twice0, Holds(kept, some0, done0, twice0),
         twice0 \subseteq twice
  PROVE  Holds(facts \union {x \in kept : x.table = t}, some \union (some0 \cap Works(t)),
               done \union (done0 \cap Works(t)), twice)
<1> DEFINE after == facts \union {x \in kept : x.table = t}
           whole == done \union (done0 \cap Works(t))
           begins == some \union (some0 \cap Works(t))
<1>1. \A x : x \in after <=> x \in facts \/ (x \in kept /\ x.table = t)
  OBVIOUS
<1>2. \A u : u \in Tables(after) <=> u \in Tables(facts) \/ (u = t /\ t \in Tables(kept))
  BY DEF Tables
<1>3. \A x \in facts : x.table # t
  BY DEF Tables
<1>4. /\ Files[1] \in Works(t) <=> t = "tax_invoices"
      /\ Files[3] \in Works(t) <=> t = "tax_invoices"
      /\ Files[2] \in Works(t) <=> t = "audit_logs"
  BY WorksAre, WorksHave
<1> HIDE DEF after
<1>5. OnlyReleased(after)
  BY <1>1, <1>2, <1>3, FactsDiffer DEF Holds, OnlyReleased
<1>6. Left(after, whole, twice)
  <2>1. Left(facts, done, twice) /\ Left(kept, done0, twice0)
    BY DEF Holds
  <2>2. \A f : f \in whole <=> f \in done \/ (f \in done0 /\ f \in Works(t))
    OBVIOUS
  <2> HIDE DEF whole
  <2>3. QED
    BY <1>1, <1>3, <1>4, <2>1, <2>2, FactsDiffer DEF Left
<1>7. Untouched(after, begins)
  <2>1. Untouched(facts, some) /\ Untouched(kept, some0)
    BY DEF Holds
  <2>2. \A f : f \in begins <=> f \in some \/ (f \in some0 /\ f \in Works(t))
    OBVIOUS
  <2> HIDE DEF begins
  <2>3. QED
    BY <1>1, <1>2, <1>3, <1>4, <2>1, <2>2, FactsDiffer DEF Untouched
<1>8. QED
  BY <1>5, <1>6, <1>7 DEF Holds, after

\* A step of a restore changes no runner and no backup.
LEMMA RestoreStepSpeaks ==
  ASSUME IInv, SpeaksInv, restoring # NoRestore, UNCHANGED <<backup, runner, reapplied, torn>>,
         Holds(schema, begun, completed, reapplied)', RestoreSpeaks'
  PROVE  SpeaksInv'
<1>1. AllIdle /\ torn
  BY DEF IInv, RestoreInv, SpeaksInv, RestoreSpeaks
<1>2. \A r \in Runners : HandsInv(r)'
  BY <1>1 DEF AllIdle, At, HandsInv
<1>3. BackupSpeaks'
  BY DEF SpeaksInv, BackupSpeaks
<1>4. QED
  BY <1>1, <1>2, <1>3 DEF SpeaksInv

LEMMA DropTableSpeaks ==
  ASSUME IInv, SpeaksInv, DropTable PROVE SpeaksInv'
<1>1. /\ restoring.pc = "drop" /\ restoring.left # {}
      /\ restoring' = [restoring EXCEPT !.pc = "load"]
      /\ UNCHANGED <<backup, runner, reapplied, torn>>
  BY DEF DropTable
<1>2. restoring \in RestoreType /\ restoring # NoRestore
  BY <1>1, WhileRestoring
<1>3. restoring'.left = restoring.left /\ AtTable' = AtTable /\ AtTable \in restoring.left
  BY <1>1, <1>2, AtTableIsLeft DEF RestoreType, AtTable
<1>4. /\ torn
      /\ "schema_migrations" \notin restoring.left =>
           tracker = backup.tracker /\ seeded = backup.seeded
      /\ \A t \in Tables(backup.schema) \ restoring.left :
           backup.completed \cap Works(t) \subseteq completed
  BY <1>2 DEF SpeaksInv, RestoreSpeaks
<1>5. CASE AtTable = "schema_migrations"
  <2>1. UNCHANGED <<schema, begun, completed>>
    BY <1>5 DEF DropTable
  <2>2. "schema_migrations" \notin Tables(schema)
    BY DumpIs DEF IInv, DataTypes, Tables, Facts
  <2>3. RestoreSpeaks'
    BY <1>1, <1>3, <1>4, <1>5, <2>1, <2>2 DEF RestoreSpeaks
  <2>4. Holds(schema, begun, completed, reapplied)'
    BY <1>1, <2>1 DEF SpeaksInv
  <2>5. QED
    BY <1>1, <1>2, <2>3, <2>4, RestoreStepSpeaks
<1>6. CASE AtTable # "schema_migrations"
  <2>1. /\ schema' = {x \in schema : x.table # AtTable}
        /\ begun' = begun \ Works(AtTable) /\ completed' = completed \ Works(AtTable)
        /\ UNCHANGED <<tracker, seeded>>
    BY <1>6 DEF DropTable
  <2>2. Holds(schema, begun, completed, reapplied)'
    BY <1>1, <2>1, DropHolds DEF SpeaksInv
  <2>3. AtTable \notin Tables(schema')
    BY <2>1 DEF Tables
  <2>4. ASSUME NEW t \in Tables(backup.schema) \ restoring.left
        PROVE  backup.completed \cap Works(t) \subseteq completed'
    <3>1. t # AtTable
      BY <1>3
    <3>2. \A f \in Works(t) : f \in Names
      BY DEF Works
    <3>3. \A f \in Works(t) : f \notin Works(AtTable)
      BY <3>1, <3>2, WorksAre, NamesAre
    <3>4. QED
      BY <1>4, <2>1, <3>3
  <2>5. RestoreSpeaks'
    BY <1>1, <1>3, <1>4, <2>1, <2>3, <2>4 DEF RestoreSpeaks
  <2>6. QED
    BY <1>1, <1>2, <2>2, <2>5, RestoreStepSpeaks
<1>7. QED
  BY <1>5, <1>6

LEMMA LoadTableSpeaks ==
  ASSUME IInv, SpeaksInv, LoadTable PROVE SpeaksInv'
<1>1. /\ restoring.pc = "load"
      /\ restoring' = [pc |-> "drop", left |-> restoring.left \ {AtTable}]
      /\ UNCHANGED <<backup, runner, reapplied, torn>>
  BY DEF LoadTable
<1>2. restoring \in RestoreType /\ restoring # NoRestore /\ backup.kept
  BY <1>1, WhileRestoring
<1>3. /\ torn
      /\ "schema_migrations" \notin restoring.left =>
           tracker = backup.tracker /\ seeded = backup.seeded
      /\ \A t \in Tables(backup.schema) \ restoring.left :
           backup.completed \cap Works(t) \subseteq completed
      /\ AtTable \notin Tables(schema)
  BY <1>1, <1>2 DEF SpeaksInv, RestoreSpeaks
<1>4. restoring'.pc = "drop" /\ restoring'.left = restoring.left \ {AtTable}
  BY <1>1
<1>5. CASE AtTable = "schema_migrations"
  <2>1. /\ tracker' = backup.tracker /\ seeded' = backup.seeded
        /\ UNCHANGED <<schema, begun, completed>>
    BY <1>5 DEF LoadTable
  <2>2. "schema_migrations" \notin Tables(backup.schema)
    <3>1. backup \in BackupType
      BY <1>1, WhileRestoring
    <3>2. QED
      BY <3>1, DumpIs DEF BackupType, Tables, Facts
  <2>3. RestoreSpeaks'
    BY <1>1, <1>3, <1>4, <1>5, <2>1, <2>2 DEF RestoreSpeaks
  <2>4. Holds(schema, begun, completed, reapplied)'
    BY <1>1, <2>1 DEF SpeaksInv
  <2>5. QED
    BY <1>1, <1>2, <2>3, <2>4, RestoreStepSpeaks
<1>6. CASE AtTable # "schema_migrations"
  <2>1. /\ schema' = Executed(Dumped, schema)
        /\ begun' = begun \union (backup.begun \cap Works(AtTable))
        /\ completed' = completed \union (backup.completed \cap Works(AtTable))
        /\ UNCHANGED <<tracker, seeded>>
    BY <1>6 DEF LoadTable
  <2>2. schema' = schema \union {x \in backup.schema : x.table = AtTable}
    BY <1>3, <2>1, Creates DEF Dumped
  <2>3. /\ Holds(backup.schema, backup.begun, backup.completed, backup.reapplied)
        /\ backup.reapplied \subseteq reapplied
    BY <1>2 DEF SpeaksInv, BackupSpeaks
  <2>4. Holds(schema, begun, completed, reapplied)
    BY DEF SpeaksInv
  <2>5. Holds(schema', begun', completed', reapplied)
    BY <1>3, <2>1, <2>2, <2>3, <2>4, LoadHolds
  <2>6. Holds(schema, begun, completed, reapplied)'
    BY <1>1, <2>5
  <2>7. RestoreSpeaks'
    BY <1>1, <1>3, <1>4, <1>6, <2>1 DEF RestoreSpeaks
  <2>8. QED
    BY <1>1, <1>2, <2>6, <2>7, RestoreStepSpeaks
<1>7. QED
  BY <1>5, <1>6

\* At the end of a restore the rows are the backup's, and so are the tables they speak of.
LEMMA RestoreEndsSpeaks ==
  ASSUME IInv, SpeaksInv, RestoreEnds PROVE SpeaksInv'
<1>1. /\ restoring.pc = "drop" /\ restoring.left = {} /\ torn' = backup.torn
      /\ restoring' = NoRestore
      /\ UNCHANGED <<schema, tracker, backup, runner, begun, completed, reapplied, seeded>>
  BY DEF RestoreEnds, RestoreOver
<1>2. restoring # NoRestore /\ backup.kept /\ AllIdle
  BY <1>1, WhileRestoring
<1>3. /\ tracker = backup.tracker /\ seeded = backup.seeded
      /\ \A t \in Tables(backup.schema) : backup.completed \cap Works(t) \subseteq completed
  BY <1>1, <1>2 DEF SpeaksInv, RestoreSpeaks
<1>4. /\ Holds(backup.schema, backup.begun, backup.completed, backup.reapplied)
      /\ backup.torn \/ Known(backup.tracker, backup.completed, backup.reapplied, backup.seeded)
      /\ backup.reapplied \subseteq reapplied
  BY <1>2 DEF SpeaksInv, BackupSpeaks
<1>5. ASSUME NEW f \in Names, f \in backup.completed PROVE f \in completed \union reapplied
  <2>1. /\ TaxTable \in backup.schema => "tax_invoices" \in Tables(backup.schema)
        /\ AuditTable \in backup.schema => "audit_logs" \in Tables(backup.schema)
    BY FactsDiffer DEF Tables
  <2>2. Left(backup.schema, backup.completed, backup.reapplied)
    BY <1>4 DEF Holds
  <2>3. CASE f = Files[1]
    BY <1>3, <1>5, <2>1, <2>2, <2>3, WorksHave DEF Left
  <2>4. CASE f = Files[2]
    BY <1>3, <1>4, <1>5, <2>1, <2>2, <2>4, WorksHave DEF Left
  <2>5. CASE f = Files[3]
    BY <1>3, <1>5, <2>1, <2>2, <2>5, WorksHave DEF Left
  <2>6. QED
    BY <2>3, <2>4, <2>5, NamesAre
<1>6. backup.torn \/ Known(tracker, completed, reapplied, seeded)
  BY <1>3, <1>4, <1>5 DEF Known
<1>7. (torn \/ Known(tracker, completed, reapplied, seeded))'
  BY <1>1, <1>6
<1>8. \A r \in Runners : HandsInv(r)'
  BY <1>1, <1>2 DEF AllIdle, At, HandsInv
<1>9. BackupSpeaks' /\ RestoreSpeaks'
  BY <1>1 DEF SpeaksInv, BackupSpeaks, RestoreSpeaks
<1>10. Holds(schema, begun, completed, reapplied)'
  BY <1>1 DEF SpeaksInv
<1>11. QED
  BY <1>7, <1>8, <1>9, <1>10 DEF SpeaksInv

LEMMA RestoreFailsSpeaks ==
  ASSUME IInv, SpeaksInv, RestoreFails PROVE SpeaksInv'
<1>1. /\ restoring.left # {} /\ restoring' = NoRestore
      /\ UNCHANGED <<schema, tracker, backup, runner, begun, completed, reapplied, seeded, torn>>
  BY DEF RestoreFails, RestoreOver
<1>2. restoring # NoRestore
  BY <1>1, WhileRestoring
<1>3. RestoreSpeaks'
  BY <1>1 DEF RestoreSpeaks
<1>4. Holds(schema, begun, completed, reapplied)'
  BY <1>1 DEF SpeaksInv
<1>5. QED
  BY <1>1, <1>2, <1>3, <1>4, RestoreStepSpeaks

LEMMA SpeaksInductive == IInv /\ SpeaksInv /\ [Next]_vars => SpeaksInv'
<1> SUFFICES ASSUME IInv, SpeaksInv, [Next]_vars PROVE SpeaksInv'
  OBVIOUS
<1>1. CASE UNCHANGED vars
  <2>1. UNCHANGED <<schema, tracker, backup, runner, restoring, begun, completed, reapplied,
                    seeded, torn>>
    BY <1>1 DEF vars, history, past
  <2>2. BackupSpeaks' /\ RestoreSpeaks'
    BY <2>1 DEF SpeaksInv, BackupSpeaks, RestoreSpeaks, AtTable
  <2>3. \A r \in Runners : HandsInv(r)'
    BY <2>1 DEF SpeaksInv, HandsInv, At, Current
  <2>4. QED
    BY <2>1, <2>2, <2>3 DEF SpeaksInv
<1>2. QED
  BY <1>1, RunSpeaks, DeploySpeaks, NightlySpeaks, RestoreStarts, DropTableSpeaks,
     LoadTableSpeaks, RestoreEndsSpeaks, RestoreFailsSpeaks DEF Next

LEMMA SpeaksAlways == Spec => []SpeaksInv
BY SpeaksInit, SpeaksInductive, InvAlways, PTL DEF Spec

(***************************************************************************)
(* The schema of a release, statement by statement.                        *)
(***************************************************************************)
LEMMA ReleaseIs ==
  ASSUME NEW S
  PROVE  LET a == IF Files[1] \in S THEN {TaxTable, ByCompany} ELSE {}
             b == IF Files[2] \in S THEN a \union {AuditTable, ActorKey} ELSE a
         IN SchemaOf(S) = IF Files[3] \in S THEN (b \union {ByIssue}) \ {ByCompany} ELSE b
<1> DEFINE a == IF Files[1] \in S THEN {TaxTable, ByCompany} ELSE {}
           b == IF Files[2] \in S THEN a \union {AuditTable, ActorKey} ELSE a
           c == IF Files[3] \in S THEN (b \union {ByIssue}) \ {ByCompany} ELSE b
<1>1. Through(Files[1], {}) = {TaxTable, ByCompany}
  <2>1. "tax_invoices" \notin Tables({})
    BY DEF Tables
  <2>2. Executed(Create("tax_invoices", {TaxTable, ByCompany}), {}) = {TaxTable, ByCompany}
    BY <2>1, Creates
  <2>3. QED
    BY <2>2, StatementsOf DEF Through
<1>2. Through(Files[2], a) = a \union {AuditTable, ActorKey}
  <2>1. Executed(RenameAside, a) = {IF x.table = "audit_logs"
                                      THEN [x EXCEPT !.table = "audit_logs_legacy"] ELSE x :
                                      x \in a}
    BY DEF Executed, RenameAside
  <2>2. \A x \in a : x.table # "audit_logs"
    BY FactsDiffer
  <2> HIDE DEF a
  <2>3. Executed(RenameAside, a) = a /\ "audit_logs" \notin Tables(a)
    BY <2>1, <2>2 DEF Tables
  <2>4. Executed(Create("audit_logs", {AuditTable, ActorKey}), a)
          = a \union {AuditTable, ActorKey}
    BY <2>3, Creates
  <2>5. QED
    BY <2>3, <2>4, StatementsOf DEF Through
<1>3. Through(Files[3], b) = (b \union {ByIssue}) \ {ByCompany}
  <2> HIDE DEF b
  <2>1. Executed(Drop(ByCompany), Executed(Add(ByIssue), b)) = (b \union {ByIssue}) \ {ByCompany}
    BY AddsDrops
  <2>2. QED
    BY <2>1, StatementsOf DEF Through
<1>4. SchemaOf(S) =
        LET x == IF Files[1] \in S THEN Through(Files[1], {}) ELSE {}
            y == IF Files[2] \in S THEN Through(Files[2], x) ELSE x
        IN IF Files[3] \in S THEN Through(Files[3], y) ELSE y
  BY DEF SchemaOf
<1>5. a = IF Files[1] \in S THEN Through(Files[1], {}) ELSE {}
  BY <1>1
<1>6. b = IF Files[2] \in S THEN Through(Files[2], a) ELSE a
  BY <1>2
<1>7. c = IF Files[3] \in S THEN Through(Files[3], b) ELSE b
  BY <1>3
<1> HIDE DEF a, b, c
<1>8. SchemaOf(S) = c
  BY <1>4, <1>5, <1>6, <1>7
<1>9. QED
  BY <1>8 DEF a, b, c

\* A schema in which the files of a release are complete and of the others there is
\* nothing has the facts of that release.
LEMMA AsReleased ==
  ASSUME NEW facts, NEW S, NEW some, NEW done, Holds(facts, some, done, {}),
         some \subseteq S, \A f \in Names \cap S : f \in done
  PROVE  /\ \A x \in SchemaOf(S) \union facts :
              x.table \in {"tax_invoices", "audit_logs"} => (x \in SchemaOf(S) <=> x \in facts)
         /\ \A x \in SchemaOf(S) : x.table \in {"tax_invoices", "audit_logs"}
<1> DEFINE E == SchemaOf(S)
<1>1. OnlyReleased(facts) /\ Left(facts, done, {}) /\ Untouched(facts, some)
  BY DEF Holds
<1>2. /\ Files[1] \in S => Files[1] \in done
      /\ Files[2] \in S => Files[2] \in done
      /\ Files[3] \in S => Files[3] \in done
  BY NamesAre
<1>3. \A x : x \in E <=> \/ x \in {TaxTable, ByCompany} /\ Files[1] \in S
                            /\ ~(x = ByCompany /\ Files[3] \in S)
                         \/ x \in {AuditTable, ActorKey} /\ Files[2] \in S
                         \/ x = ByIssue /\ Files[3] \in S
  BY ReleaseIs, FactsDiffer
<1> HIDE DEF E
<1>4. /\ TaxTable \in facts => "tax_invoices" \in Tables(facts)
      /\ AuditTable \in facts => "audit_logs" \in Tables(facts)
      /\ \A x \in facts : x.table \in Tables(facts)
  BY FactsDiffer DEF Tables
<1>5. /\ TaxTable \in facts <=> Files[1] \in S
      /\ ByIssue \in facts <=> Files[3] \in S
      /\ ByCompany \in facts <=> Files[1] \in S /\ Files[3] \notin S
      /\ Files[3] \in S => Files[1] \in S
  BY <1>1, <1>2, <1>4, FactsDiffer DEF OnlyReleased, Left, Untouched
<1>6. /\ AuditTable \in facts <=> Files[2] \in S
      /\ ActorKey \in facts <=> Files[2] \in S
  BY <1>1, <1>2, <1>4, FactsDiffer DEF OnlyReleased, Left, Untouched
<1>7. ASSUME NEW x \in E \union facts, x.table \in {"tax_invoices", "audit_logs"}
      PROVE  x \in E <=> x \in facts
  <2>1. x \in {TaxTable, ByCompany, ByIssue, AuditTable, ActorKey}
    BY <1>1, <1>3, <1>7 DEF OnlyReleased
  <2>2. QED
    BY <1>3, <1>5, <1>6, <2>1, FactsDiffer
<1>8. \A x \in E : x.table \in {"tax_invoices", "audit_logs"}
  BY <1>3, FactsDiffer
<1>9. QED
  BY <1>7, <1>8 DEF E

\* When the runs are over and the tracker says of every file of the release that it is
\* applied, and of no other, the schema is the release's, but for rows recorded by hand,
\* files applied twice, a restore broken off and a file begun and taken back:
\* TrackerSpeaksForSchema of MigrateRunner.
THEOREM TrackerTheorem == Spec => []TrackerSpeaksForSchema
<1>1. IInv /\ SpeaksInv => TrackerSpeaksForSchema
  <2>1. SUFFICES ASSUME IInv, SpeaksInv,
                        \A f \in Names :
                          Status(f) \in IF f \in Shipped THEN {"current", "legacy"}
                                        ELSE {"pending"},
                        seeded = {}, reapplied = {}, ~torn, begun \subseteq Shipped
                 PROVE  InSync
    BY DEF TrackerSpeaksForSchema
  <2>2. \A f \in Names \cap Shipped : tracker[f] # "none"
    BY <2>1 DEF Status
  <2>3. \A f \in Names \cap Shipped : f \in completed
    BY <2>1, <2>2 DEF SpeaksInv, Known
  <2> DEFINE release == SchemaOf(Shipped)
             expected == CollectFacts(release)
             actual == CollectFacts(schema)
  <2>4. /\ \A x \in release \union schema :
             x.table \in {"tax_invoices", "audit_logs"} => (x \in release <=> x \in schema)
        /\ \A x \in release : x.table \in {"tax_invoices", "audit_logs"}
    <3>1. Holds(schema, begun, completed, {})
      BY <2>1 DEF SpeaksInv
    <3>2. QED
      BY <2>1, <2>3, <3>1, AsReleased
  <2>5. Tables(schema) \subseteq AppTables
    BY <2>1 DEF IInv, DataTypes, Tables, Facts
  <2> HIDE DEF release
  <2>6. Manifest = expected
    BY DEF Manifest, release
  <2>7. DOMAIN expected = Tables(release) /\ DOMAIN actual = Tables(schema)
    BY DEF CollectFacts
  <2>8. \A t : t \in Tables(release) <=> t \in Tables(schema) /\ t # "audit_logs_legacy"
    <3>1. ASSUME NEW x \in release PROVE x \in schema /\ x.table # "audit_logs_legacy"
      BY <2>4
    <3>2. ASSUME NEW x \in schema, x.table # "audit_logs_legacy" PROVE x \in release
      <4>1. x.table \in AppTables
        BY <2>5 DEF Tables
      <4>2. QED
        BY <2>4, <3>2, <4>1 DEF AppTables
    <3>3. QED
      BY <3>1, <3>2 DEF Tables
  <2>9. ASSUME NEW t \in Tables(release) PROVE expected[t] = actual[t]
    <3>1. t \in Tables(schema) /\ t \in {"tax_invoices", "audit_logs"}
      BY <2>4, <2>8 DEF Tables
    <3>2. {x \in release : x.table = t} = {x \in schema : x.table = t}
      BY <2>4, <3>1
    <3>3. QED
      BY <2>9, <3>1, <3>2 DEF CollectFacts
  <2> HIDE DEF expected, actual
  <2>10. DOMAIN expected \ DOMAIN actual = {}
    BY <2>7, <2>8
  <2>11. UNION {SymDiff(expected[t], actual[t]) : t \in DOMAIN expected \cap DOMAIN actual} = {}
    <3>1. \A t \in DOMAIN expected : SymDiff(expected[t], actual[t]) = {}
      BY <2>7, <2>9 DEF SymDiff
    <3>2. QED
      BY <3>1
  <2>12. (DOMAIN actual \ DOMAIN expected) \ AllowedExtra = {}
    BY <2>7, <2>8 DEF AllowedExtra
  <2>13. QED
    BY <2>6, <2>10, <2>11, <2>12 DEF InSync, Drifts, actual
<1>2. QED
  BY <1>1, InvAlways, SpeaksAlways, PTL
===========================================================================
