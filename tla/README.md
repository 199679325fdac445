# A formal model of the e-invoice reconciliation system

The repository is an accounting back office for electronic invoices: a company
uploads its invoices, the tax authority's copies arrive by another channel, and
a reconciliation run compares the two lists of a month and reports what does not
agree. It is a Flask application over MySQL (`src/backend`), served by several
gunicorn workers, with a JavaScript single page front end (`src/frontend`) and
shell scripts that migrate, back up and restore the database (`src/deploy`).

This directory holds TLA+ modules of its parts, TLC configurations that check
them on small instances, and TLAPS proofs of what matters most for every size.

## 1. Inventory

Processes: three gunicorn workers of two threads each
(`deploy/systemd/e-invoice.service`), every thread serving one request at a time;
browsers; an operator's shell. All lasting state is in MySQL. Every repository
method borrows a pooled connection, runs one transaction and returns the
connection: **the transaction is the unit of atomicity, and a request is a
sequence of them with anything in between**. A worker may be killed at any
point (gunicorn's timeout, a deployment, the system) and is started again by
gunicorn or systemd; each one runs recovery statements in `create_app` before it
serves.

| Part | State | Operations | Hard behaviour | What makes it correct |
|---|---|---|---|---|
| Run lifecycle (`reconciliation/service.py`, `repository.py`, `app.py`) | `reconciliation_runs` and its result and error rows | create exclusively, start, finish in one transaction, fail, recover at startup | recovery of one worker against a request of another, crashes, lost commits | results exist exactly for completed runs; one run per period in flight; every run settles; mails only for what stands |
| Engine (`reconciliation/engine.py`) | local: indexes, claimed set, outcome | match by UUID or number, compare, classify the rest | two identities of one invoice, sums and tolerances, spelling | every invoice answered once, no pair reported apart, errors explain results, the outcome fits the table's keys |
| Reports and export | none | select a month's lists; page, filter, export, summarise | pages by offset, batches by id, date filters | all readings of a run tell the same rows; what is missing is missing in the books |
| Import pipeline (`imports/service.py`, `repository.py`) | `import_batches`, `import_batch_errors`, `invoices` | upload, normalise, group, find duplicates, insert one by one, count | commits per invoice, recovery of a live batch, two uploads of one file | counters add up to what is stored, one invoice per identity, a finished batch stays finished |
| Import rows (`grouping.py`, `normalizer.py`, `validator.py`) | none | rows to invoices, totals from lines | zero against missing, contradictory headers, rounding against the table's CHECKs | every row stored or reported, totals are those of the stored lines |
| Email (`email/service.py`, `repository.py`) | `email_deliveries`, unique per run and recipient | plan, send, mark, resend | an accepted mail that cannot be marked, crash between, resend race | every recipient has a row that says what happened |
| Users (`users/service.py`, `repository.py`) | `users`, `user_roles` | create, update, roles, deactivate, delete | guard outside and inside the lock, full-row writes | a company with an administrator keeps one |
| Companies, settings | rows of `companies`, `application_settings` | read, validate, write back | full-row write of a stale copy | no lost update |
| Authentication (`auth/`) | `token_blocklist`, tokens | login, refresh, logout | two inserts per logout, refresh against logout | a revoked session stays closed |
| Rate limiter | counters per process | allow | window edges, one copy per worker | the documented limit |
| Connection pool (`database/connection.py`) | queue of connections | borrow, return, replenish, close | outage while a connection is out | the pool regains its size |
| Audit trail | `audit_logs` | append | failures swallowed | append only, depends on nothing |
| Front end client (`api/client.js`, `auth/store.js`, `app.js`) | token pair in storage, current route | request, refresh and retry, sign out, route | every `await` is a switch point | no token after sign-out, the last route wins |
| Migrations, backup, restore (`deploy/*.sh`) | `schema_migrations`, dump files and markers | audit, back up, apply, record; dump, verify, publish, prune | interrupted between two steps | nothing is applied twice, a published backup is verified |

How they interact: a run reads `invoices` (written by imports) and
`tax_invoices` (written by an integration that is not in the repository), hands
both lists to the engine, stores the outcome and asks the email service to
notify. Settings give the engine its tolerance. Everything reports to the audit
trail. The browser reaches all of it through the API client.

`PROJECT.json` lists every part with its status, and every hazard at its line.

## 2. Plan

Order: what decides whether users are told the truth comes first.

1. **Run lifecycle** - `RunContract` (abstract), `RunLifecycle`. Done, proved.
2. **Engine and reports** - `InvoiceComparison`, `ReconcileEngine`,
   `ReconcileReport`, which composes the selection of the lists, the engine and
   the readings of its outcome. Done, proved.
3. **Imports** - `ImportBatch` (workers, batches, invoices, recovery) and
   `ImportFile` (one file, its rows and amounts). Done, proved.
4. **Email** - `EmailContract` (abstract), `EmailDelivery`. Done, proved.
5. **Users** - `UserAdmin`. Done, proved.
6. **Sessions** - `Session`: client, authentication, blocklist. Done, proved.
7. **Migrations** - `MigrateRunner` with backup and restore. Done, proved.

Every safety and action property of the passing runs is proved; what is left to TLC
is at the end of section 5.

## 3. The modules

### RunContract and RunLifecycle

`RunContract` is what a reader of the database may rely on: a status and a
`saved` flag per run. `Create`, `Begin`, `Complete` and `Fail` are the moves, of
which only `Complete` shows results and none leaves a completed run; `Disown` is
the one exception, for a completion whose acknowledgement got lost.

`RunLifecycle` is the code. One variable per column (`status`, `key` for company
and period, `age` for `started_at` as recovery looks at it, `saved` for the
result and error rows), a program counter and a run per request thread, a flag
per worker. Each action is one transaction:

| Action | Code |
|---|---|
| `Request` | `create_run_exclusive`: check and INSERT under the company row's lock |
| `StartRun` | `start_run`'s UPDATE by id, outside every try |
| `Reconcile` | loading both lists and the engine |
| `FinishRun` | `finish_run_transaction`: rows and status together, only if still in flight |
| `FailRun` | `_fail_run`: UPDATE by id, errors swallowed |
| `Reload`, `Notify` | `get_run_by_id`, audit, `_notify_discrepancies` |
| `Boot`, `Crash` | `create_app` with `recover_interrupted_runs`; the end of a process |
| `HourPasses` | sixty minutes since `started_at` |

Every database call chooses an outcome: it answers, it raises with nothing
applied, or it was applied and raises because the answer got lost. Three history
variables (`flagged`, `notified`, `unacked`) remember what the properties are
about; no guard reads them.

### InvoiceComparison and ReconcileEngine

`InvoiceComparison` is `_compare` and its helpers as operators that return the set
of error codes of a pair. Amounts are integers in cents (the columns are
`DECIMAL(15,2)`), dates are days, a text is what normalisation leaves of it.

`ReconcileEngine` is `reconcile()` as a machine: `MatchAccount` is one round of
the first loop, `ClassifyTax` of the second, `Store` the insertion under the
table's unique keys. The two lists are chosen in `Init` among `Datasets`; they
are given in the engine's sort order, so `setdefault` of an index is the least
position. A text keeps its spelling (case, blanks) beside its value, so that what
is normalised and what is not makes a difference. The schema's unique keys are an
assumption on `Datasets` (`DatasetAssumption`), and so are the CHECK constraints
of migration 009 on amounts (`ChecksAssumption`): the contents tried are rows that
the database takes.

The model leaves out: the text of error messages and the values quoted in them,
and the branches for unreadable money and dates, which no row of the schema's
non-null typed columns takes.

### ImportBatch

An upload from POST to response, one per thread, over the same workers, database
outcomes, crashes and boots as `RunLifecycle`. A file (`Uploads`) is the sequence
of its invoices after parsing, normalising and grouping: identity, whether
`validate_group` accepts it, and whether its amounts fit Python's decimal
context. `status`, `age` and `processed` are columns of `import_batches`,
`invoices` is the table of that name; `next`, `plan` and `persisted` are the
locals of `import_file`. Counters count rows in the code; here a counter is the
set of the invoices whose rows it counts, which is more than their number says.

| Action | Code |
|---|---|
| `Create` | the INSERT of the batch, before the file is looked at |
| `RefuseFile`, `RefuseHeader` | `_finish_failed`, outside and inside the try block |
| `Start` | `start`, an UPDATE by id, outside it |
| `Drop`, `LookUp`, `Checked` | `_detect_duplicates`: what the file alone decides, the lookup, the end of the loop |
| `Insert` | one invoice with its items; every exception is reported and passed over |
| `Overflow` | `InvalidOperation` of a `quantize`, in the rows or in `_build_invoice` |
| `Finish`, `Abort` | `update_counts` at the end, and in the except branch |
| `Boot`, `Crash`, `HourPasses` | as above, with `recover_interrupted_batches` |

Left out: the rows of `import_batch_errors` (written one by one, failures
swallowed, only listed), the audit events and what is inside an invoice.

### ImportFile

The content of one upload, with nobody else writing: `MapHeaders`, `NormalizeRows`,
`GroupRows`, `DetectDuplicates`, `Persist`, `Finish`. The operators of a step are
`normalizer.py`, `grouping.py`, `validator.py` and `_build_invoice` as functions of
a row or group; the actions are the loops of `import_file` over rows and groups. A
cell is what its text denotes, or unreadable, or blank. Amounts are integers
(ten-thousandths as read, hundredths as money) with `ROUND_HALF_UP` in the places
of the code and the table's own rounding in its CHECK constraint. Cells of a money
or quantity column are amounts, unreadable or blank (`SheetsAssumption`); the three
markers are no amount, field or default (`MarkersAssumption`).

Python compares texts as they are (`Key`, `SeenKey`, `DuplicateIn`), the database
as `utf8mb4_unicode_ci` sorts them (`SortsAs`, in `Exists` and `Taken`). `Unstorable`
is what the columns do not take of what the importer lets pass: a text longer than
its VARCHAR, or a currency that `str.isupper` accepts and `chk_invoices_currency`
does not; `MaxMoney` and `MaxQuantity` are the ranges of the DECIMAL columns. That
the columns take the importer's defaults is `ColumnsAssumption`.

### ReconcileReport

Extends the engine with what is before and after it: the selection of both lists
from the books by company and month (`list_by_company_and_period` of either
side), and, over a finished outcome, results and errors with their filters,
pages, streamed exports, the summary and the list of affected taxpayers. The
selection is a relation between a book and a list, which the datasets satisfy
(`SelectionAssumption`); the rest are functions, which the properties compare. An
`ORDER BY` is `InOrder`, the members of a set by their ranks, and a `WHERE` is
`Chosen`, the entries of a list at some of its places. `Sizes` are those of pages
and batches, from 1 up (`SizesAssumption`).

### EmailContract and EmailDelivery

`EmailContract` is what a reader of `email_deliveries` may rely on. In
`EmailDelivery` the run's request walks through the plan while operators resend:

| Action | Code |
|---|---|
| `List` | `list_affected_results_with_party` and `_plan_recipients` |
| `Create` | `_create_delivery_record` with the table's unique key |
| `Resend` | `resend_delivery` up to its lookups |
| `Render`, `Send` | company lookup and layout, outside the try; the SMTP call |
| `Unbuilt` | `_build_message`, outside the provider's own try: a header it cannot have |
| `MarkSent`, `MarkFailed` | inside the try, and in its except branch |
| `Crash`, `Reconfigure` | the end of the worker; a restart with another `EMAIL_ENABLED` |

A recipient is a key of the plan and what the column's collation makes of it.

### UserAdmin

A request of an administrator is a lookup (`UpdateUser`, `DeleteUser`,
`CreateUser`, `ChangeOwn`), the company's guard (`Guard`), and one or two writing
transactions (`Begin`, then `SetRoles`, `Update`, `Delete`, `Insert`,
`OwnPassword`); an update is then read back over another connection (`ReadBack`).
`update_user`, `activate_user`, `deactivate_user` and `change_password` differ in
the fields that change and are one action. A
transaction with the lock is two steps: its statement starts and takes its
snapshot (`seen`), then has its locks, rereads `users` and commits. History
variables keep what was asked of each row, which requests crossed and which ids
were given out: `AUTO_INCREMENT` gives none twice, so a deleted user stays deleted.

### Session

`Call` to `Settled` are `api.request` between its awaits, `Refresh`,
`RefreshFailed`, `Refreshed` and `Retry` its second attempt, `SignedIn` and
`Settle` what login and logout do to storage. `Serve`, `ServeLogin`,
`ServeLogout` with `RevokeRefresh`, `CheckRefresh` with `Issue` are the routes,
cut where the code commits or reads again. The environment loses calls, lets
tokens expire, deactivates the account and revokes a session elsewhere.

### MigrateRunner

`migrate.sh` statement by statement: audit, backup, apply, record, and the two
maintenance modes, by several runners; an operator deploys other files, takes the
nightly backup at any moment and restores. A schema is a set of facts of
`information_schema`, which is also how `schema_verify.py` sees it. The script's
lists of files are in the order of the catalog, so a list is a set and `First`
takes its head; `Through` is what the statements of one file make of a schema, one
after the other, and `SchemaOf` what a release makes of an empty one.

`restore.sh` is a process: `Restore` creates the database anew or not, `DropTable`
and `LoadTable` are the statements of the dump, table by table in the order
mysqldump writes them, and `RestoreFails` breaks it off before any of them, by a
kill or because `LoadTable` names a foreign key that a table still there holds.
The history follows the tables: what a dropped table had seen is forgotten, what a
loaded one had seen comes back, and `torn` stays until a restore gets to its end.
While it goes on nobody else works on the database; between DROP DATABASE and
CREATE DATABASE there is none, which the model takes for an empty one.

## 4. The runs

| Run | Instance | Shows |
|---|---|---|
| `run_lifecycle` | 2 workers of 1 thread, 1 period, 3 runs, all outcomes, crashes | the four invariants, the contract, and settlement |
| `run_duplicate` (violation) | 2 workers, 2 runs, no failure at all | two runs of a period in flight |
| `run_interrupted` (violation) | 2 workers, 1 run, crashes, fair | an interrupted run stays in flight |
| `engine` | lists of up to 2 and 2 invoices, alone and in books of several companies and months; 1000-odd contents of a pair | nine properties of the outcome, the selection and the reports |
| `engine_double_claim` (violation) | the same | two results for one tax invoice |
| `engine_malformed` (violation) | the same | a malformed identity is matched |
| `import_batch` | 2 workers of 1 thread, 2 uploads out of 7 kinds, all outcomes, crashes | what the counters and the absence of an invoice mean |
| `import_file` | files of up to 3 rows out of 14 identities or 14 amounts, 5 layouts, 4 databases | where each row ends, what amounts are stored, what the database refuses |
| `email` | 5 recipients of 6 affected results, 2 resends, all outcomes of database and SMTP, crashes, fair | the contract, what a quiet loop leaves, and that the loop ends |
| `users` | 3 requests of 10 kinds on 3 users of 2 companies, all outcomes | what the two guards keep and which writes are lost |
| `session` | 3 calls: data, logout or password, login; 2 mishaps | what storage holds, what a logout ends, what ends a session |
| `migrate` | 2 runners, 3 files, 1 mishap, 4 operations | whether the tracker may be believed, and why a file is applied again |

*Bounds of the lifecycle.* Interference needs a request, another request of the
same period and a boot: two workers and two runs give it, and the third run lets
a period be used again after a duplicate. Runs of different periods share nothing
(all guards compare keys), so one period is enough for TLC; the proofs have any
number of each.

*Bounds of the engine.* The invariants relate at most two invoices of a side and
their counterparts, so lists of two show every clash of identities, with two
UUIDs, one malformed, two numbers and two spellings. Contents vary a few columns
at a time around one agreeing pair, by one cent on each side of both tolerances.
`MCReconcileEngine` has the inputs. Reports are read with pages and batches of one
and two rows, so that a result set of up to four ends at and before an edge; the
proof has any size.

*Bounds of the imports.* Two uploads interfere through the unique keys only, and
with a recovery through the batch: two workers, two batches. The files have one
to three invoices and clash by UUID, by number, in another company, and within
themselves. Workers are interchangeable (no value or guard names one), which
`SYMMETRY` uses; the run has no liveness property. Nothing is said of progress:
an upload that fails is left to the user. Three rows give `import_file` two
invoices of which one has two lines, in each order, and every header clash needs
two rows; the amounts include halves of a cent in each rounding. The columns are
made small, so that a price, a quantity, a line and only a sum of lines go beyond
them; one number is spelt in two ways, one reads like a UUID.

*Bounds of the others.* Email: a recipient before, at and after one the unique
key takes for another, one without address; two resends and the run are the
three ways to hold a row. Users: the guards fail by two requests that cross,
and the third is the one that notices; two administrators of one company are
the least that guards do not refuse outright. Requests are interchangeable,
and so are these two (`SYMMETRY`). Session: a refresh, a sign-out and a
sign-in are the three writers of storage, so one call each; two mishaps let an
expiry meet a failure, and the properties also held with three. Migrate: two
runners, one of each kind of migration, four operations (deploy, run, restore,
run); the properties also hold with two mishaps. Each of the four exceptions
of `TrackerSpeaksForSchema` is needed at these bounds: without it TLC finds a
violation of three to seven steps. The service must stand for deploy and
restore: neither happens while a runner is at work.

*Deadlock.* `Session` has a step for "every call is settled" (`Done`), so its run
finds calls that hang: there are none. Everywhere else `CHECK_DEADLOCK FALSE`: the
engine, a file, a request and a script return, the bounds on runs, batches and
operations are used up.

*Fairness.* Only the liveness properties assume any. Lifecycle: a request that has
begun goes on (`WF` of its steps, a thread is scheduled), a dead worker boots
again (`Restart=always`), the hour passes. Nobody has to send a request, and a
crash is never obliged. `BootsSettleRuns` states its premise in itself: a recovery
gets through again and again. Without that, `run_interrupted` shows the run
staying. Email: the notifying request takes its next step as long as it has one;
it may also die, which ends the loop. SMTP and database calls return, by their
timeouts, with whatever answer.

### What the import run says

- A completed batch counts the invoices that are stored and no other, except that
  one whose commit was not acknowledged is stored and counted as an error.
- A valid invoice that is not stored has a rival under a unique key, an earlier
  namesake in the file, or a refused INSERT. The lookup names the company and
  either UUID or number, the keys are wider; the INSERT decides, and nothing is
  lost between.
- Neither `start` nor `update_counts` looks at the status. Still, a completed
  batch is never touched again, because no two requests know one batch and
  recovery takes unfinished ones only; the exception is again the lost
  acknowledgement. A failed batch comes back only if a recovery had failed it
  under its owner, which `recover_interrupted_batches` says never happens, but
  does while a file is being parsed: the batch has no start time yet.

Read on the way and not checked: `import_file` inserts every batch as `csv` and
never writes the type it finds, though migration 003 wants the format recorded.

### What the other passing runs say

*A file's rows* (`import_file`). Every row is a line of one invoice or reported, and
the counters say so (`RowsAnswered`). Dropping a row leaves its invoice with the
remaining lines. `LinesAddUp` has one exception: with a stated VAT of zero over a
positive rate the line takes the rate's VAT and the invoice's total the zero; with
the net amount stated as line total as well, the table's CHECK refuses the
invoice. `RefusedForCause` lists why the database refuses what the importer has
accepted, with nobody else writing: amounts stated beside those they follow from, a
negative line total for instance, which `validator.py:8` promises to find; values or
sums the columns do not hold; an identity that was not looked up because the other
one was; and a number that this file has brought in another spelling, since
`inv-1` is not `INV-1` to the importer and is to the unique key. There is no other:
derived amounts, however rounded, pass the CHECK constraints, and so do their sums.

*Books and reports* (`engine`). A booked invoice reported missing, or a tax invoice
reported extra, has no counterpart in the other book of that company and month
(`MissingIsMissing`); a counterpart issued in another month is the one way to be
missing although it is there. Pages, exports, summary and the list of taxpayers
tell the same rows (`ReportTellsAll`); a date range shows no extra tax invoice,
since the date it looks at is the accounting invoice's.

*Mails* (`email`). No mail leaves without a row, none more often than asked for, and
`sent` stands only on accepted mails. A mail that was accepted and could not be
marked reads `failed`, and one whose worker died `pending`. When no call failed,
every recipient is told of, up to one whose address the unique key's collation
takes for an earlier one: its INSERT is refused and ends the loop.

*Administrators* (`users`). `FOR UPDATE` makes reducing transactions follow each
other, and an active administrator remains, but for one crossing: the roles come
from a nested subquery that is read as of the statement's start, so of two
demotions that wait for each other the second still counts the first one's
administrator (`misled`). The guard of the company counts outside every lock, so
crossing requests, or a move, leave a company without administrator (`excused`).
The row read at the lookup is written back whole: a password or deactivation that
came between is lost (`clobbered`). Roles are committed before the row, so a
request that is then refused may have changed them. And the answer of an update
rests on reading the row back after the commit: if that fails the client is told of
an error, if another request has deleted the user by then of a refusal ("Failed to
update user"), and the row was written all the same.

*Sessions* (`session`). After an answered logout the session gets no new access
token except through refreshes already past the blocklist. Access tokens issued
before live out their hour: logout blocks the one it came with. Storage holds one
session's pair, which is the one the pages show unless a refresh answered after
sign-out or another sign-in. A session ends for a listed cause, among them some a
user would not expect: a 429 or a network error during a refresh, and a wrong
current password, which is answered 401 twice.

*Migrations* (`migrate`). If the tracker says that the files of the release are
applied, and no others, and no run is under way, the schema is the release's, with
four exceptions that the tracker does not show: rows seeded by `--record-existing`,
a broken repetition of a guarded file, a restore that was broken off (without
`--recreate` the old rows then stand over a half restored schema), and a file that
broke off and was rolled back with its release (010 adds one index and drops
another). A file is applied twice only after a kill between applying and recording,
a failed tracker query (they are fail-soft, `migrate.sh:73`), a second runner, a
migration by hand, or a restore on top of what is there, broken off, or of a backup
taken between applying and recording. It matters for 008, whose guarded rename then
puts the live audit trail aside; and the renamed table keeps the foreign key's name
(`008:66`), so the CREATE behind the rename is refused, in every later run too, and
so is a restore on top that brings `audit_logs` back: it takes `--recreate`.

Read on the way and not checked. `backup.sh:37` requires `audit_logs_legacy`, which
`schema_manifest.py:25` says is not part of the schema: a database bootstrapped
from the files fails its own backup from then on, and `migrate.sh` stops there.
`migrate.sh:232` holds a substitution that bash rejects, in the branch that reports
drift. The errors that `group_rows` returns are dropped at `imports/service.py:352`;
none can occur there.

### What the violations say

- *A revived run.* `start_run` updates by id only. A worker that boots between the
  INSERT and the UPDATE of a request fails the pending run
  (`started_at IS NULL`), another request takes the period, and the first one goes
  on. The code says that starts are idempotent and that a live worker is never
  mis-flagged. `DuplicateOnlyAfterRecovery` is what is left of it.
- *An interrupted run.* Recovery runs at startup and spares what started within
  the hour: after a quick restart, the case systemd produces, the dead run stays
  in flight and blocks its period.
- *A tax invoice claimed twice.* By UUID and by number; the unique key refuses the
  whole outcome, so that period fails as long as the two invoices are there.
  `RejectedIffRivalClaims` says that it happens in this case and in no other.
- *A malformed UUID matched.* The number index does not look at the UUID.

## 5. The proofs

`RunLifecycle_proofs`, `ReconcileEngine_proofs`, `ImportBatch_proofs`,
`ImportFile_proofs`, `EmailDelivery_proofs`, `UserAdmin_proofs`, `Session_proofs`
and `MigrateRunner_proofs`, checked to the last leaf, for any workers, threads,
periods, runs, batches, sheets, databases, files, recipients, users, companies,
requests, calls, runners and faults, and for lists of any length.

*Lifecycle.* The safety invariants are not inductive. They hold because a run
belongs to one request and what that request may still do to the run is tied to
where it stands: `OwnershipInv`. In particular a request about to start a run
holds one that is pending, or failed by a recovery (`StartsPendingOrFlagged`),
which is what excuses a duplicate; and no request holds a run its taxpayers were
mailed about (`NotifiedIsReleased`), which is why a mail is never taken back.
`TypeOK /\ OwnershipInv /\ SafetyInv` is inductive, one step per action. For the
contract, `ContractInv` adds that rows survive under a failed run only if its
completion was not acknowledged; then every step is a move of `RunContract` or
leaves it alone.

| Theorem | For every instance |
|---|---|
| `TypeCorrect` | `TypeOK` |
| `ResultsTheorem` | `ResultsWithCompletion` |
| `DuplicateTheorem` | `DuplicateOnlyAfterRecovery` |
| `NotifiedTheorem` | `NotifiedStandsCompleted` |
| `ContractTheorem` | `Spec => ContractSpec`, the refinement |

*Engine.* `MatchingInv` says what the loops have done up to `account` and
`taxNext`: the invoices before have their one result, with the counterpart the
hierarchy gives (`MatchedByHierarchy`), the claimed set is that of the matched
ones, unclaimed invoices are reported once and only after the first loop. With
`DistinctWhere`, the unique keys, two claims on one invoice must be by different
identities.

| Theorem | For every instance |
|---|---|
| `EngineTypes` | `TypeOK` |
| `AnsweredTheorem` | `EveryInvoiceAnswered` |
| `ClaimsTheorem` | `ClaimsCrossIdentities` |
| `RejectedTheorem` | `RejectedIffRivalClaims` |
| `ExplainTheorem` | `ErrorsExplainResults` |
| `DerivedTheorem` | `DerivedErrorsExplained` |
| `PartyTheorem` | `EitherSideAccepted` |
| `MissingTheorem` | `MissingIsMissing` |
| `ReportTheorem` | `ReportTellsAll` |

`ExplainTheorem` to `MissingTheorem` add what the outcome says. `ErrorsInv`: the error rows are exactly
those that the results call for, the mismatches of a pair or the one invalid
identity, and a pair's status tells whether it has any. Then each property is
about `Compare` of one pair: with the CHECK constraints (`ChecksAssumption`) a
derived amount that differs must have a part that differs, and a party is reported
only if neither side of the tax invoice bears it. None of the three depends on
what the sums of items are. `UnmatchedInv` says of which side an unmatched result
is; with the selection, an invoice of the right
company and month that shares its identity would be in the other list, and the
matching would have claimed it.

`ReportTellsAll` is about what is made of the results once they are stored, and
needs of the invariants that they are finitely many and, per side, unique and
complete. The rest are facts about readings. `InOrder` takes one member after the
other out of a set; that this ends, and returns each member once in order of
rank, is by the least number of members for which it would not (`OrderIsOrder`).
So `Chosen` keeps ids increasing, what lies behind an id is a tail of the list,
and the batches add up to it, again by the shortest list for which they would not
(`StreamedAll`). The first pages hold together a beginning of the list, and as
many as the envelope tells hold all of it (`PagesAll`). The summary's total is
the sum of one count for each status, and each row has one of the five
(`RowsCounted`). What remains is which rows a filter shows, given that the rows
are one for each result (`ResultRowsAre`) and join its own invoices.

*Imports.* `OwnershipInv` again: one request per batch, which has not completed it
yet, and whose `persisted` is what is stored of the batch up to unacknowledged
commits (`PersistedAreStored`); a batch failed under a request is one a recovery
flagged. It is inductive with `TypeOK` and `CountedExactly`, and gives both
action properties. For the invoices left out, `PlanInv` says that all groups
before `next` are planned or have their reason, that `next` has passed the whole
file when storing begins, and a reason given once stays (`LandedStays`), since
invoices are never removed and a batch's file never changes.

| Theorem | For every instance |
|---|---|
| `ImportTypes` | `TypeOK` |
| `CountedTheorem` | `CountedExactly` |
| `LandTheorem` | `GroupsLandOrCollide` |
| `FrozenTheorem` | `CompletedIsFrozen` |
| `RevivedTheorem` | `RevivedOnlyAfterRecovery` |

*A file.* The invariant says what the four loops have done so far, each in terms
of the one before: the rows seen are typed or blamed (`RowsRead`), the typed rows
seen are in one group each, of their key, with the lines they state (`Grouped`),
the groups seen are accepted or have a row to blame (`Checked`), the accepted ones
are stored or have one (`Persisted`), and who is blamed is not readable, not
accepted or not stored (`BlamedForCause`). Without the last, a row could be both
stored and reported; without the second, `processed` could not be the number of
lines. A file refused at its header is an alternative of its own (`Refused`).

For the amounts, a stored invoice's items are those of its rows, and two sums
over equal amounts are equal whatever a sum is, so only a line whose VAT is not
the counted one can break `LinesAddUp`: stated, rounding to nothing, over a rate.
`RefusedForCause` needs more of sums, since a constraint on an invoice must
follow from those on its lines. A sum is a fold, taken element by element in an
order that depends on the set of places only; that the fold exists, and that what
is preserved by one element holds of all, is shown by the least number of
elements for which it would fail (`FoldExists`, `ByElements`), and `SumsOf` takes
four sums over the same places side by side. `DerivedAmounts` is the arithmetic
of a line that states neither VAT nor total; as no amount of an invoice is larger
than their sum (`EachInSum`), the columns of the lines take what those of the invoice
take. `RefusalInv` adds that accepted invoices differ in number as it is spelt, are not
among those looked up, and have each of their values from one of their rows; what is
left to be refused is the property.

| Theorem | For every instance |
|---|---|
| `FileTypes` | `TypeOK` |
| `AnsweredRowsTheorem` | `RowsAnswered` |
| `LinesAddUpTheorem` | `LinesAddUp` |
| `RefusedTheorem` | `RefusedForCause` |

*Email.* The contract's `Mail` needs `mails[g] < ordered[g]`, and what the code
holds is not a bound on either but on what is still to come: the requests about to
send to `g` (`Owing`), with the mails that left, are at most those asked for
(`MailsInv`). `HoldersInv` ties every request at work to its row and its order,
and `LoopInv` says that the recipients the loop has yet to reach have no row, so
that `Create` only ever records a new one. With `TypeOK` the three are inductive,
one lemma per action, and each step is one of `EmailContract` or leaves it alone.
For `QuietLoopTellsAll`, `ToldInv` says the same of the recipients behind the loop
while it runs.

| Theorem | For every instance |
|---|---|
| `EmailTypes` | `TypeOK` |
| `DeliveriesKeepContract` | `Spec => ContractSpec`, the refinement |
| `QuietLoopTells` | `QuietLoopTellsAll` |

*Users.* What a guard has counted is true until somebody else writes. So the
invariant ties each request to `since`, the users written since its lookup: as
long as that is empty the other administrator is there (`OtherInv`) and the
snapshot's roles are the roles (`SeenInv`); as long as its own user is not in it,
its copy is the row but for the role it has written itself (`CopyInv`). Every
write ends this for the others, and `misled`, `excused` and `clobbered` note the
writes made without it. `WroteInv`, `ReadInv` and `AnswerTrue` follow what was
written, and whether the user is still there to be read back, into the answer; that
a user who is gone stays gone rests on `IdsInv`.

| Theorem | For every instance |
|---|---|
| `UserTypes` | `TypeOK` |
| `SomeActiveAdminTheorem` | `SomeActiveAdmin` |
| `CompanyTheorem` | `CompanyKeepsAdmin` |
| `RowsTheorem` | `RowsAsAsked` |
| `AnswersTheorem` | `AnswersTrue` |

*Sessions.* `HoldsInv` says what a call has at each of its awaits; in particular an
access token that comes back from a refresh is of the session it was asked for,
which is why storage never mixes two (`StorageIsOneSession`). `ClosedInv`: the
refresh token of a closed session is in the blocklist, and a call about to issue
for it had passed the blocklist before, so it is in `tail`, which is the exception
`LogoutIsFinal` makes. `CauseInv` keeps the reason beside an answer that is going
to end the session.

| Theorem | For every instance |
|---|---|
| `SessionTypes` | `TypeOK` |
| `StorageTheorem` | `StorageIsOneSession` |
| `LogoutTheorem` | `LogoutIsFinal` |
| `EndedTheorem` | `EndedForCause` |

*Migrations.* A file the database has seen whole is recorded, or has a cause, or is
with the runner about to record it (`RecordInv`); a file on a list again has a
cause (`ListInv`), and files on two lists have one, because the later list was
written while the other runner was at work (`RivalsInv`). While a restore goes on
the runners rest (`RestoreInv`), and `RecordInv` holds again when it is over,
because whatever it leaves without a row has a cause then. On top of this,
`SpeaksInv` says what completed files have left in the schema and that of files not
begun there is nothing (`Holds`, of the database and of the backup), that a row is
of a completed or a seeded file unless a restore is unfinished (`Known`), what a
restore has brought back so far (`RestoreSpeaks`), and what a runner between the
two statements of 010 has made. `DropHolds` and `LoadHolds` carry `Holds` through
the tables of a dump; `ReleaseIs` computes the schema of any set of files, and
`AsReleased` compares.

| Theorem | For every instance |
|---|---|
| `MigrateTypes` | `TypeOK` |
| `ReappliedTheorem` | `ReappliedForCause` |
| `TrackerTheorem` | `TrackerSpeaksForSchema` |

*Assumptions used*, all named in the modules and evaluated by TLC. Of what the
database's schema guarantees: `DatasetAssumption` (unique keys, column types),
`ChecksAssumption` and `BodyAssumption` (CHECK constraints and numeric columns),
`SelectionAssumption` (both lists are what the repositories select; UUIDs are
unique in a book), `TablesAssumption` and `AdminAssumption` (rows are of the
table's types, and there is an administrator to begin with: the first one comes
from outside, since every route here asks for one). Of what input there may be:
`SheetsAssumption`, `UploadsAssumption`, `RowsAssumption`, `ChangesAssumption`,
`KindsAssumption`. Of the columns' defaults: `ColumnsAssumption`. Of outcomes and bounds: `DbOutcomesAssumption`,
`OutcomesAssumption`, `ToleranceAssumption`, `BoundsAssumption`, `SizesAssumption`.
And that markers are none of the values they stand beside: `NullAssumption`,
`FilterAssumption`, `MarkersAssumption`, `MalformedAssumption`.

*Only model-checked.* `BootsSettleRuns` and `LoopEnds`: liveness under fairness is
out of the prover's reach.

## 6. Not modelled

- *Decoding of files*, the formats of numbers and dates: text processing; a cell is
  readable or not, and an ambiguous date is what the importer makes of it.
- *The lengths of columns* outside an import. They bite in one more place: the error
  rows of a run quote values in VARCHAR(255) columns (`004:14-15`), and
  `engine.py:458` joins two names of 255 each; such a run fails as a whole, and
  `RejectedIffRivalClaims` is about outcomes whose texts fit.
- *Connection pool*: the queue and the connections are mysql.connector's. A
  repository call is one borrowed connection that answers, fails or loses its
  acknowledgement, and an exhausted pool is a failing call.
- *Rate limiter*: its refusal is an answer in `Session`; windows and counters are
  read by nothing else.
- *Companies*: the read-modify-write of `UserAdmin`'s update without guards.
  *Settings*: one validated write; the tolerance is an input of the engine.
- *Audit trail*: `record_event` swallows every failure, nothing reads it back.
- *Middleware, templates, pages, translations, routing, configuration, test data*:
  no state another part depends on.
- *Operations nothing calls*: `complete_run`, `set_run_counts`, `delete_run`,
  `update_status` and deletion of invoices, `purge_expired`, `delete_by_jti`. Since
  invoices are never deleted, reports may join them.
- *Inside what is modelled*: the layout of exports and mails, the ownership check of
  a report's run, users' preferences, tokens as of the login (a role change counts
  from the next one, `UserAdmin` lets any administrator's token act), the month of
  a refresh token, text and markers of backups, the verification hints of
  migrations, which are only printed, and the drills around restores.
