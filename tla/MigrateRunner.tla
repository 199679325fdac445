--------------------------- MODULE MigrateRunner ---------------------------
(***************************************************************************)
(* The schema migrations runner: deploy/migrate.sh with the backup it      *)
(* takes, the nightly one, the restore an operator answers a failure with, *)
(* the status of the tracker (backend/database/migration_audit.py) and the *)
(* comparison of the database with the release's schema (schema_verify.py).*)
(* Two runners may be at work at once: nothing locks the tracker.          *)
(* Statements commit one by one, MySQL has no transactional DDL; so do     *)
(* those of a dump that is restored.                                       *)
(*                                                                         *)
(* A fact is what information_schema says of a table, of one of its        *)
(* indexes or of its foreign key.  Three files stand for the catalog: tables created IF NOT      *)
(* EXISTS, the guarded rename of 008, and the indexes of 010 that cannot   *)
(* be added twice.  The text of a file is its version; every version has   *)
(* the same statements.                                                    *)
(***************************************************************************)
EXTENDS Integers, SequencesExt, FiniteSetsExt

CONSTANTS Runners,      \* processes executing migrate.sh
          Mishaps,      \* bound: kills, lost connections and lost queries
          MaxOps        \* bound: runs started, releases, nightly backups, restores

ASSUME BoundsAssumption == Mishaps \in Nat /\ MaxOps \in Nat

Files == <<"000_foundation_schema", "008_audit_logs", "010_performance_indexes">>
Names == ToSet(Files)

\* The catalog is sorted by name, and every list of files with it.
Places(files) == {i \in DOMAIN Files : Files[i] \in files}
First(files)  == Files[Min(Places(files))]
Latest(files) == Files[Max(Places(files))]

Table(t, made) == [table |-> t, name |-> "columns", def |-> made]
Index(t, n)    == [table |-> t, name |-> n, def |-> "index"]
Constraint(t, n) == [table |-> t, name |-> n, def |-> "constraint"]

\* A statement acts on facts; fails says when MySQL refuses it.
Create(t, facts) == [op |-> "create", table |-> t, facts |-> facts]
Add(fact)        == [op |-> "add", table |-> fact.table, facts |-> {fact}]
Drop(fact)       == [op |-> "drop", table |-> fact.table, facts |-> {fact}]
RenameAside      == [op |-> "rename", table |-> "audit_logs", facts |-> {}]

ByCompany == Index("tax_invoices", "idx_tax_invoices_company")
ByIssue   == Index("tax_invoices", "idx_tax_invoices_company_issue_datetime")
ActorKey  == Constraint("audit_logs", "fk_audit_logs_actor")

Statements(f) ==
  CASE f = "000_foundation_schema" ->
         <<Create("tax_invoices", {Table("tax_invoices", "release"), ByCompany})>>
    [] f = "008_audit_logs" ->
         <<RenameAside, Create("audit_logs", {Table("audit_logs", "release"), ActorKey})>>
    [] f = "010_performance_indexes" -> <<Add(ByIssue), Drop(ByCompany)>>

Tables(facts) == {x.table : x \in facts}

\* The files that make a table or change it.
Works(t) == {f \in Names : \E s \in ToSet(Statements(f)) : s.table = t}

\* A schema has a foreign key's name once, and a renamed table keeps the names of its own.
NameTaken(s, facts) ==
  \E x \in s.facts, y \in facts : x.def = "constraint" /\ y.def = "constraint" /\ x.name = y.name

Accepted(s, facts) ==
  CASE s.op = "create" -> s.table \in Tables(facts) \/ ~NameTaken(s, facts)
    [] s.op = "rename" -> ~{"audit_logs", "audit_logs_legacy"} \subseteq Tables(facts)
    [] s.op = "add"    -> s.table \in Tables(facts) /\ s.facts \cap facts = {}
    [] s.op = "drop"   -> s.facts \subseteq facts

Executed(s, facts) ==
  CASE s.op = "create" -> IF s.table \in Tables(facts) THEN facts ELSE facts \union s.facts
    [] s.op = "rename" -> {IF x.table = s.table THEN [x EXCEPT !.table = "audit_logs_legacy"]
                             ELSE x : x \in facts}
    [] s.op = "add"    -> facts \union s.facts
    [] s.op = "drop"   -> facts \ s.facts

\* What a file makes of a schema; none has more than two statements.
Through(f, facts) ==
  LET s == Statements(f)
  IN IF Len(s) = 1 THEN Executed(s[1], facts) ELSE Executed(s[2], Executed(s[1], facts))

\* What a release makes of an empty database, one file after the other.
SchemaOf(files) ==
  LET after(k, facts) == IF Files[k] \in files THEN Through(Files[k], facts) ELSE facts
  IN after(3, after(2, after(1, {})))

(***************************************************************************)
(* backup.sh rejects a dump that lacks one of APP_TABLES, which has a      *)
(* table only databases older than the tracker get.                        *)
(***************************************************************************)
AppTables == {"tax_invoices", "audit_logs", "audit_logs_legacy"}
SomeGates == {AppTables, {"tax_invoices"}}   \* the environment may override it
AllowedExtra == {"audit_logs_legacy"}

VARIABLES
  schema,     \* the facts of the database
  tracker,    \* schema_migrations: the checksum of each recorded file
  content,    \* the version of each file in the deployed release
  backup,     \* the newest verified backup, NoBackup before there is one
  runner,     \* what each process is at
  restoring,  \* what restore.sh is at, NoRestore when it does not run
  begun,      \* history: files of which the database has seen a statement
  completed,  \* history: those of which it has seen all
  reapplied,  \* history: completed files that were run again
  causes,     \* history: files it was to be expected of
  seeded,     \* history: files recorded by hand that the database never saw
  torn,       \* history: a restore was begun and did not come to its end
  mishaps, ops

past == <<begun, completed, reapplied, causes, seeded, torn>>
history == <<past, restoring>>
vars == <<schema, tracker, content, backup, runner, history, mishaps, ops>>

Versions == {"v1", "v2"}
NoBackup == [kept |-> FALSE]
NoRestore == [pc |-> "none", left |-> {}]
Idle == [pc |-> "idle", accept |-> FALSE, gate |-> AppTables, todo |-> {},
         stmt |-> 1, digest |-> "none"]

Shipped == {f \in Names : content[f] # "absent"}

(***************************************************************************)
(* A database nobody migrated yet, one migrated by hand up to 008 or with  *)
(* a tracker from before checksums, with or without the table that 008     *)
(* finds from earlier times.                                               *)
(***************************************************************************)
Legacy == {Table("audit_logs_legacy", "hand")}
ByHand == {Table("tax_invoices", "release"), ByCompany,
           Table("audit_logs", "release"), ActorKey}
Migrated == {Files[1], Files[2]}
RowsOf(sum) == [f \in Names |-> IF f \in Migrated THEN sum ELSE "none"]
NoRows == RowsOf("none")

Init ==
  /\ \/ schema = {} /\ tracker = NoRows /\ completed = {}
     \/ /\ \E old \in {{}, Legacy} : schema = ByHand \union old
        /\ \E sum \in {"none", "null", "v1"} : tracker = RowsOf(sum)
        /\ completed = Migrated
  /\ causes = {f \in completed : tracker[f] = "none"}
  /\ content = [f \in Names |-> IF f = Files[3] THEN "absent" ELSE "v1"]
  /\ backup = NoBackup
  /\ runner = [r \in Runners |-> Idle]
  /\ begun = completed
  /\ reapplied = {} /\ seeded = {} /\ torn = FALSE
  /\ restoring = NoRestore
  /\ mishaps = 0 /\ ops = 0

-----------------------------------------------------------------------------

At(r, pc)  == runner[r].pc = pc
Current(r) == First(runner[r].todo)
Rest(r)    == runner[r].todo \ {Current(r)}
Go(r, pc) == runner' = [runner EXCEPT ![r].pc = pc]
End(r)    == runner' = [runner EXCEPT ![r] = Idle]

\* Fault: is_applied asks for the checksum as well.
IsAppliedAsShipped(f) == tracker[f] = content[f]

IsApplied(f) == tracker[f] # "none"

(***************************************************************************)
(* _db_query ends in "|| true": the question about a file that is lost is  *)
(* answered with nothing, and the file looks as if it was not recorded.    *)
(***************************************************************************)
Answered(lost) ==
  /\ mishaps + Cardinality(lost) <= Mishaps
  /\ mishaps' = mishaps + Cardinality(lost)

SomeLost == {{}} \union {{f} : f \in Names}
SeenApplied(f, lost) == IsApplied(f) /\ f \notin lost

Start(r, mode, gate) ==
  /\ At(r, "idle") /\ restoring = NoRestore
  /\ ops < MaxOps
  /\ ops' = ops + 1
  /\ runner' = [runner EXCEPT ![r] =
       [Idle EXCEPT !.pc = IF mode = "--record-existing" THEN "seed" ELSE "audit",
                    !.todo = IF mode = "--record-existing" THEN Shipped ELSE {},
                    !.accept = mode = "--accept-drift", !.gate = gate]]
  /\ UNCHANGED <<schema, tracker, content, backup, history, mishaps>>

(***************************************************************************)
(* --record-existing: one file after the other.                            *)
(***************************************************************************)
Seed(r) ==
  /\ At(r, "seed")
  /\ IF runner[r].todo = {}
       THEN End(r) /\ UNCHANGED <<tracker, seeded>>
       ELSE LET f == Current(r)
            IN /\ tracker' = IF tracker[f] \in {"none", "null"}
                               THEN [tracker EXCEPT ![f] = content[f]] ELSE tracker
               /\ seeded' = IF tracker[f] = "none" /\ f \notin completed
                              THEN seeded \union {f} ELSE seeded
               /\ runner' = [runner EXCEPT ![r].todo = Rest(r)]
  /\ UNCHANGED <<schema, content, backup, restoring, begun, completed, reapplied, causes,
                 torn, mishaps, ops>>

(***************************************************************************)
(* The audit.  A drift ends the run whatever the mode: the line that would *)
(* report it is a substitution bash refuses.                               *)
(***************************************************************************)
Drifted(f, lost) ==
  SeenApplied(f, lost) /\ tracker[f] \notin {"null", content[f]}
Orphans == {f \in Names : IsApplied(f) /\ content[f] = "absent"}

Audit(r) ==
  /\ At(r, "audit")
  /\ \E lost \in SomeLost :
       /\ Answered(lost)
       /\ IF \/ \E f \in Shipped : Drifted(f, lost)
             \/ Orphans \ lost # {} /\ ~runner[r].accept
            THEN End(r) ELSE Go(r, "pending")
  /\ UNCHANGED <<schema, tracker, content, backup, history, ops>>

ListPending(r) ==
  /\ At(r, "pending")
  /\ \E lost \in SomeLost :
       LET pending == {f \in Shipped : ~SeenApplied(f, lost)}
           rivals == UNION {runner[q].todo : q \in Runners \ {r}}
       IN /\ Answered(lost)
          /\ causes' = causes \union {f \in pending : f \in rivals \/ IsApplied(f)}
          /\ IF pending = {} THEN End(r)
               ELSE runner' = [runner EXCEPT ![r].pc = "backup", ![r].todo = pending]
  /\ UNCHANGED <<schema, tracker, content, backup, restoring, begun, completed, reapplied,
                 seeded, torn, ops>>

(***************************************************************************)
(* backup.sh, unless the database is empty; a rejected dump ends the run.  *)
(* The dump is a snapshot: a table that changes while it is read fails it. *)
(***************************************************************************)
Snapshot == [kept |-> TRUE, schema |-> schema, tracker |-> tracker, begun |-> begun,
             completed |-> completed, reapplied |-> reapplied, causes |-> causes,
             seeded |-> seeded, torn |-> torn]

BackUp(r) ==
  /\ At(r, "backup")
  /\ IF schema = {} THEN Go(r, "check") /\ UNCHANGED backup
     ELSE IF runner[r].gate \subseteq Tables(schema)
       THEN Go(r, "check") /\ backup' = Snapshot
       ELSE End(r) /\ UNCHANGED backup
  /\ UNCHANGED <<schema, tracker, content, history, mishaps, ops>>

(***************************************************************************)
(* The loop over the pending files: refuse a file that is recorded with    *)
(* another checksum by now, feed it to mysql, record it.                   *)
(***************************************************************************)
CheckFile(r) ==
  /\ At(r, "check")
  /\ IF runner[r].todo = {} THEN End(r) /\ UNCHANGED mishaps
     ELSE LET f == Current(r)
          IN \E lost \in {{}, {f}} :
               /\ Answered(lost)
               /\ IF Drifted(f, lost) THEN End(r)
                  ELSE runner' = [runner EXCEPT ![r].pc = "apply", ![r].stmt = 1,
                                                ![r].digest = content[f]]
  /\ UNCHANGED <<schema, tracker, content, backup, history, ops>>

Advanced(r) ==
  IF runner[r].stmt = Len(Statements(Current(r)))
    THEN runner' = [runner EXCEPT ![r].pc = "record"]
    ELSE runner' = [runner EXCEPT ![r].stmt = @ + 1]

Apply(r) ==
  /\ At(r, "apply")
  /\ LET f == Current(r)
         s == Statements(f)[runner[r].stmt]
     IN /\ Accepted(s, schema)
        /\ schema' = Executed(s, schema)
        /\ reapplied' = IF f \in completed THEN reapplied \union {f} ELSE reapplied
        /\ begun' = begun \union {f}
        /\ completed' = IF runner[r].stmt = Len(Statements(f))
                          THEN completed \union {f} ELSE completed
        /\ Advanced(r)
  /\ UNCHANGED <<tracker, content, backup, restoring, causes, seeded, torn, mishaps, ops>>

\* Fault: mysql --force goes on behind a statement that failed.
ApplyFailsOn(r) ==
  /\ At(r, "apply")
  /\ \/ ~Accepted(Statements(Current(r))[runner[r].stmt], schema) /\ UNCHANGED mishaps
     \/ mishaps < Mishaps /\ mishaps' = mishaps + 1
  /\ Advanced(r)
  /\ UNCHANGED <<schema, tracker, content, backup, history, ops>>

\* The statement fails, of itself or because the connection is lost.
ApplyFails(r) ==
  /\ At(r, "apply")
  /\ \/ ~Accepted(Statements(Current(r))[runner[r].stmt], schema) /\ UNCHANGED mishaps
     \/ mishaps < Mishaps /\ mishaps' = mishaps + 1
  /\ End(r)
  /\ UNCHANGED <<schema, tracker, content, backup, history, ops>>

\* Fault: the digest is taken from the file that follows.
RecordNext(r) ==
  /\ At(r, "record")
  /\ tracker' = [tracker EXCEPT ![Current(r)] = content[Latest(Names)]]
  /\ runner' = [runner EXCEPT ![r].pc = "check", ![r].todo = Rest(r)]
  /\ UNCHANGED <<schema, content, backup, history, mishaps, ops>>

Record(r) ==
  /\ At(r, "record")
  /\ tracker' = [tracker EXCEPT ![Current(r)] = runner[r].digest]
  /\ runner' = [runner EXCEPT ![r].pc = "check", ![r].todo = Rest(r)]
  /\ UNCHANGED <<schema, content, backup, history, mishaps, ops>>

(***************************************************************************)
(* The process dies, or a command it runs fails under "set -e".  A file    *)
(* that is through but not recorded is pending for the next run.           *)
(***************************************************************************)
Kill(r) ==
  /\ ~At(r, "idle")
  /\ mishaps < Mishaps
  /\ mishaps' = mishaps + 1
  /\ causes' = IF At(r, "record") THEN causes \union {Current(r)} ELSE causes
  /\ End(r)
  /\ UNCHANGED <<schema, tracker, content, backup, restoring, begun, completed, reapplied,
                 seeded, torn, ops>>

-----------------------------------------------------------------------------

AllIdle == \A r \in Runners : At(r, "idle")

(***************************************************************************)
(* The operator: another release (the next file, an edited file, or the    *)
(* release before it), and the nightly backup, whatever the runners are    *)
(* at.                                                                     *)
(***************************************************************************)
Deploy(f) ==
  /\ AllIdle /\ restoring = NoRestore
  /\ ops < MaxOps
  /\ ops' = ops + 1
  /\ \E v \in Versions \union {"absent"} :
       /\ v # content[f]
       /\ v = "absent" => f = Latest(Shipped) /\ Shipped # {f}
       /\ content' = [content EXCEPT ![f] = v]
  /\ UNCHANGED <<schema, tracker, backup, runner, history, mishaps>>

BackUpNightly(gate) ==
  /\ restoring = NoRestore
  /\ schema # {} /\ gate \subseteq Tables(schema)
  /\ ops < MaxOps
  /\ ops' = ops + 1
  /\ backup' = Snapshot
  /\ UNCHANGED <<schema, tracker, content, runner, history, mishaps>>

(***************************************************************************)
(* restore.sh: the newest backup, into a database created anew or on top   *)
(* of what is there, where the tables that the dump does not have stay.    *)
(* The dump drops and creates one table after the other, by name, and each *)
(* statement commits.  The history follows the tables.                     *)
(***************************************************************************)
Dump == <<"audit_logs", "audit_logs_legacy", "schema_migrations", "tax_invoices">>

Restore(recreate) ==
  /\ AllIdle /\ restoring = NoRestore
  /\ backup.kept
  /\ ops < MaxOps
  /\ ops' = ops + 1
  /\ restoring' = [pc |-> "drop", left |-> {"schema_migrations"} \union Tables(backup.schema)]
  /\ torn' = TRUE
  /\ IF recreate
       THEN /\ schema' = {} /\ tracker' = NoRows
            /\ begun' = {} /\ completed' = {} /\ seeded' = {}
            /\ reapplied' = backup.reapplied /\ causes' = backup.causes
       ELSE UNCHANGED <<schema, tracker, begun, completed, reapplied, causes, seeded>>
  /\ UNCHANGED <<content, backup, runner, mishaps>>

AtTable == Dump[Min({i \in DOMAIN Dump : Dump[i] \in restoring.left})]

DropTable ==
  /\ restoring.pc = "drop" /\ restoring.left # {}
  /\ restoring' = [restoring EXCEPT !.pc = "load"]
  /\ IF AtTable = "schema_migrations"
       THEN /\ tracker' = NoRows /\ seeded' = {}
            /\ UNCHANGED <<schema, begun, completed>>
       ELSE /\ schema' = {x \in schema : x.table # AtTable}
            /\ begun' = begun \ Works(AtTable)
            /\ completed' = completed \ Works(AtTable)
            /\ UNCHANGED <<tracker, seeded>>
  /\ UNCHANGED <<content, backup, runner, reapplied, causes, torn, mishaps, ops>>

Dumped == Create(AtTable, {x \in backup.schema : x.table = AtTable})

LoadTable ==
  /\ restoring.pc = "load"
  /\ restoring' = [pc |-> "drop", left |-> restoring.left \ {AtTable}]
  /\ IF AtTable = "schema_migrations"
       THEN /\ tracker' = backup.tracker /\ seeded' = backup.seeded
            /\ UNCHANGED <<schema, begun, completed>>
       ELSE /\ Accepted(Dumped, schema)
            /\ schema' = Executed(Dumped, schema)
            /\ begun' = begun \union (backup.begun \cap Works(AtTable))
            /\ completed' = completed \union (backup.completed \cap Works(AtTable))
            /\ UNCHANGED <<tracker, seeded>>
  /\ UNCHANGED <<content, backup, runner, reapplied, causes, torn, mishaps, ops>>

\* The restore is over; what it leaves without a row will be run again.
RestoreOver ==
  /\ restoring' = NoRestore
  /\ causes' = causes \union {f \in completed : ~IsApplied(f)}
  /\ UNCHANGED <<schema, tracker, content, backup, runner, begun, completed, reapplied,
                 seeded, ops>>

RestoreEnds ==
  /\ restoring.pc = "drop" /\ restoring.left = {}
  /\ torn' = backup.torn
  /\ RestoreOver
  /\ UNCHANGED mishaps

\* It dies, or mysql gives up at a table whose foreign key another table holds.
RestoreFails ==
  /\ restoring.left # {}
  /\ \/ /\ restoring.pc = "load" /\ AtTable # "schema_migrations"
        /\ ~Accepted(Dumped, schema)
        /\ UNCHANGED mishaps
     \/ mishaps < Mishaps /\ mishaps' = mishaps + 1
  /\ RestoreOver
  /\ UNCHANGED torn

Run(r) ==
  \/ \E mode \in {"--accept-drift", "--record-existing"} : Start(r, mode, AppTables)
  \/ \E gate \in SomeGates : Start(r, "", gate)
  \/ Seed(r) \/ Audit(r) \/ ListPending(r) \/ BackUp(r) \/ CheckFile(r)
  \/ Apply(r) \/ ApplyFails(r) \/ Record(r) \/ Kill(r)

Next ==
  \/ \E r \in Runners : Run(r)
  \/ \E f \in Names : Deploy(f)
  \/ \E gate \in SomeGates : BackUpNightly(gate)
  \/ \E recreate \in BOOLEAN : Restore(recreate)
  \/ DropTable \/ LoadTable \/ RestoreEnds \/ RestoreFails

Spec == Init /\ [][Next]_vars

-----------------------------------------------------------------------------

\* migration_audit.analyze_tracker.
Status(f) ==
  IF tracker[f] = "none" THEN "pending"
  ELSE IF content[f] = "absent" THEN "orphan"
  ELSE CASE tracker[f] = "null"     -> "legacy"
         [] tracker[f] = content[f] -> "current"
         [] OTHER                   -> "mismatch"

\* The tables of a database, each with its columns and indexes.
CollectFacts(facts) == [t \in Tables(facts) |-> {x \in facts : x.table = t}]

\* The manifest of a release is that of its files.
Manifest == CollectFacts(SchemaOf(Shipped))

(***************************************************************************)
(* diff_schema: a missing table is one difference whatever it should hold, *)
(* and so is a table nobody expects, unless it is allowed.                 *)
(***************************************************************************)
Drifts(expected, actual) ==
  [missing    |-> DOMAIN expected \ DOMAIN actual,
   differing  |-> UNION {SymDiff(expected[t], actual[t]) :
                           t \in DOMAIN expected \cap DOMAIN actual},
   unexpected |-> (DOMAIN actual \ DOMAIN expected) \ AllowedExtra]

InSync == Drifts(Manifest, CollectFacts(schema))
            = [missing |-> {}, differing |-> {}, unexpected |-> {}]

TypeOK ==
  /\ tracker \in [Names -> {"none", "null"} \union Versions]
  /\ content \in [Names -> {"absent"} \union Versions]
  /\ Tables(schema) \subseteq AppTables
  /\ \A r \in Runners :
       /\ runner[r].pc \in {"idle", "seed", "audit", "pending", "backup", "check",
                            "apply", "record"}
       /\ runner[r].digest \in {"none"} \union Versions
       /\ runner[r].pc \in {"apply", "record"} =>
            runner[r].stmt \in DOMAIN Statements(Current(r))
  /\ restoring.pc \in {"none", "drop", "load"} /\ restoring.left \subseteq ToSet(Dump)
  /\ restoring.pc = "load" => AtTable \in restoring.left
  /\ begun \union completed \union reapplied \union causes \union seeded \subseteq Names
  /\ torn \in BOOLEAN
  /\ mishaps \in 0..Mishaps /\ ops \in 0..MaxOps

(***************************************************************************)
(* schema_drill.sh, "ends in exactly the state described by the expected   *)
(* schema manifest": when the runs are over and the tracker says of every  *)
(* file of the release that it is applied, and of no other, schema_verify  *)
(* finds no difference.  Four things may make the tracker speak for a      *)
(* schema that is not there: rows written by --record-existing; a file of  *)
(* the kind of 008 that was run again and broken off; a restore that was   *)
(* broken off; and a file that was begun and then taken back with its      *)
(* release.                                                                *)
(***************************************************************************)
TrackerSpeaksForSchema ==
  (/\ AllIdle
   /\ \A f \in Names :
        Status(f) \in IF f \in Shipped THEN {"current", "legacy"} ELSE {"pending"}
   /\ seeded = {}
   /\ reapplied = {}
   /\ ~torn
   /\ begun \subseteq Shipped)
  => InSync

(***************************************************************************)
(* Nothing is applied twice (a second 008 puts the audit trail aside),     *)
(* unless the runner died between applying and recording, the answer about *)
(* that file was lost, another runner had it on its list, or the tracker   *)
(* was not that of the schema: a migration by hand, a restore on top, one  *)
(* broken off, or one of a backup taken between applying and recording.    *)
(***************************************************************************)
ReappliedForCause == reapplied \subseteq causes
=============================================================================
