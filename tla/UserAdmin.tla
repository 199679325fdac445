----------------------------- MODULE UserAdmin -----------------------------
(***************************************************************************)
(* User administration: concurrent requests of administrators on the       *)
(* tables users and user_roles, under the two guards of the last active    *)
(* administrator, the one that counts the user's company before anything   *)
(* is written and the one that locks the active administrators of all      *)
(* companies inside the writing transaction.                               *)
(*                                                                         *)
(* update_user, activate_user, deactivate_user and change_password are one *)
(* request shape: read the row, guard, replace the roles if asked to, and  *)
(* write back the WHOLE row with the fields asked for changed.             *)
(*                                                                         *)
(* SELECT ... FOR UPDATE makes the writing transactions follow each other  *)
(* and rereads users once it has their locks; the roles come from a nested *)
(* subquery, which InnoDB reads without a lock from the snapshot of the    *)
(* statement's start.                                                      *)
(***************************************************************************)
EXTENDS FiniteSets, Naturals

CONSTANTS
  Users, Companies,
  Requests,      \* bound: each serves one request
  Changes,       \* what a request may ask for, see ChangesAssumption
  Scopes,        \* companies of administrators' tokens; NULL: of the platform
  InitRows,      \* contents of the tables to start from
  DbOutcomes,    \* answers of a write: "ok", "error", "lost" acknowledgement
  KEEP, NULL

Roles == {"admin", "viewer"}   \* viewer stands for the three other roles
RowsOf(passwords) ==
  [company : Companies \union {NULL}, active : BOOLEAN, password : passwords,
   role : Roles]
Rows == RowsOf({"first"} \union Requests)   \* a password is named for its writer

AllChanges ==
  [kind : {"update", "create", "delete", "own"}, role : Roles \union {KEEP},
   active : BOOLEAN \union {KEEP}, company : Companies \union {KEEP, NULL},
   password : BOOLEAN]

IsActiveAdmin(r) == r # NULL /\ r.role = "admin" /\ r.active

ASSUME ChangesAssumption == Changes \subseteq AllChanges
ASSUME TablesAssumption ==
  /\ IsFiniteSet(Users)
  /\ InitRows \subseteq [Users -> RowsOf({"first"}) \union {NULL}]
  /\ Scopes \subseteq Companies \union {NULL}
  /\ "ok" \in DbOutcomes /\ DbOutcomes \subseteq {"ok", "error", "lost"}
  /\ NULL \notin Companies /\ NULL \notin Rows /\ NULL \notin Users
  /\ NULL \notin {"ok", "refused", "error"}
  /\ KEEP \notin Companies \union {NULL} /\ KEEP \notin BOOLEAN /\ KEEP \notin Roles
\* The first administrator comes from outside: every route here asks for one.
ASSUME AdminAssumption ==
  \A rows \in InitRows : \E u \in Users : IsActiveAdmin(rows[u])

VARIABLES
  row,        \* row[u]: u's row and role, or NULL
  pc, req,    \* pc[p], req[p]: next step and local variables of request p
  answer,     \* answer[p]: what the client of p was told
  wrote,      \* wrote[p]: the tables p has written, "role" or "row"
  since,      \* history: since[p]: users written by others since p's lookup
  asked,      \* history: the rows, had every write changed what it was asked to
  clobbered,  \* history: users written back whole from an outdated copy
  excused,    \* history: companies an outdated request wrote to, or a user left
  misled,     \* history: the lock's guard judged by roles of the past
  ids         \* history: the ids given out so far, which AUTO_INCREMENT never repeats

history == <<wrote, since, asked, clobbered, excused, misled, ids>>
vars    == <<row, pc, req, answer, history>>

ActiveAdmins == {u \in Users : IsActiveAdmin(row[u])}
AdminsOf(c)  == {u \in ActiveAdmins : row[u].company = c}

Idle == [user |-> NULL, change |-> NULL, copy |-> NULL, seen |-> {}]

Init ==
  /\ row \in InitRows
  /\ pc = [p \in Requests |-> "new"]
  /\ req = [p \in Requests |-> Idle]
  /\ answer = [p \in Requests |-> NULL]
  /\ wrote = [p \in Requests |-> {}]
  /\ since = [p \in Requests |-> {}]
  /\ asked = row
  /\ clobbered = {}
  /\ excused = {c \in Companies : AdminsOf(c) = {}}
  /\ misled = FALSE
  /\ ids = {u \in Users : row[u] # NULL}

Goto(p, label, r) ==
  /\ pc' = [pc EXCEPT ![p] = label]
  /\ req' = [req EXCEPT ![p] = r]

\* Fault: the request keeps what it was busy with.
AnswerKeeping(p, a) ==
  /\ pc' = [pc EXCEPT ![p] = "done"]
  /\ answer' = [answer EXCEPT ![p] = a]
  /\ UNCHANGED req

Answer(p, a) ==
  /\ Goto(p, "done", Idle)
  /\ answer' = [answer EXCEPT ![p] = a]

Pick(new, old) == IF new = KEEP THEN old ELSE new

\* Fault: a request that names no status makes the user active.
ChangedToActive(r, ch, p) ==
  [r EXCEPT !.company  = Pick(ch.company, @),
            !.active   = ch.active # FALSE,
            !.password = IF ch.password THEN p ELSE @]

\* update_user on the copy it has read: the fields that change ch names.
Changed(r, ch, p) ==
  [r EXCEPT !.company  = Pick(ch.company, @),
            !.active   = Pick(ch.active, @),
            !.password = IF ch.password THEN p ELSE @]

\* What the history makes of the change: its fields, and no other.
AskedOf(r, ch, p) ==
  [company  |-> Pick(ch.company, r.company), active |-> Pick(ch.active, r.active),
   password |-> IF ch.password THEN p ELSE r.password, role |-> r.role]

Reduces(ch) == ch.kind = "delete" \/ ch.role = "viewer" \/ ch.active = FALSE

Busy(u, ch, copy) == [Idle EXCEPT !.user = u, !.change = ch, !.copy = copy]

(***************************************************************************)
(* require_admin looks at the role claim of the token and at nothing else, *)
(* the lookup at its company claim: both as of the login.  _lookup_user    *)
(* finds the users of that company, with a platform token all users.       *)
(***************************************************************************)
Finds(scope, u) == row[u] # NULL /\ scope \in {NULL, row[u].company}

\* A company's token has no say in the company of a user it updates.
Allowed(scope, ch) == IF scope = NULL THEN ch ELSE [ch EXCEPT !.company = KEEP]

\* "No valid fields to update"
Void(ch) == ch = [ch EXCEPT !.role = KEEP, !.active = KEEP, !.company = KEEP, !.password = FALSE]

\* _lookup_user, after which the request goes on with the copy it has read.
LookupUser(p, scope, u, ch) ==
  IF Finds(scope, u)
    THEN Goto(p, "guard", Busy(u, ch, row[u])) /\ UNCHANGED answer
    ELSE Answer(p, "refused")

\* update_user, change_password, activate_user and deactivate_user, up to their guard.
UpdateUser(p) ==
  /\ pc[p] = "new"
  /\ \E u \in Users, scope \in Scopes, ch \in Changes :
       /\ ch.kind = "update"
       /\ IF Void(Allowed(scope, ch))
            THEN Answer(p, "refused")
            ELSE LookupUser(p, scope, u, Allowed(scope, ch))
  /\ UNCHANGED <<row, history>>

DeleteUser(p) ==
  /\ pc[p] = "new"
  /\ \E u \in Users, scope \in Scopes, ch \in Changes :
       /\ ch.kind = "delete"
       /\ LookupUser(p, scope, u, ch)
  /\ UNCHANGED <<row, history>>

\* exists_by_username, exists_by_email: u stands for the user who bears the names.
NameTaken(u) == row[u] # NULL

(***************************************************************************)
(* create_user: a company's token creates in its own company.  A new user  *)
(* gets an id that nobody has had; u stands for it before it is drawn.     *)
(***************************************************************************)
CreateUser(p) ==
  /\ pc[p] = "new"
  /\ \E u \in Users, scope \in Scopes, ch \in Changes :
       LET company == IF scope = NULL THEN Pick(ch.company, NULL) ELSE scope
           created == [company |-> company, active |-> Pick(ch.active, TRUE),
                       password |-> p, role |-> Pick(ch.role, "viewer")]
       IN /\ ch.kind = "create"
          /\ NameTaken(u) \/ u \notin ids
          /\ IF NameTaken(u)
               THEN Answer(p, "refused")
               ELSE Goto(p, "insert", Busy(u, ch, created)) /\ UNCHANGED answer
  /\ UNCHANGED <<row, history>>

\* AuthService.change_password: anyone, for the user of the token, whatever the company.
ChangeOwn(p) ==
  /\ pc[p] = "new"
  /\ \E u \in Users, ch \in Changes :
       /\ ch.kind = "own"
       /\ IF row[u] # NULL
            THEN Goto(p, "own", Busy(u, ch, row[u])) /\ UNCHANGED answer
            ELSE Answer(p, "refused")
  /\ UNCHANGED <<row, history>>

\* Fault: the administrators of all companies are counted.
RefusedByCountOfAll(r) ==
  /\ r.copy.role = "admin" /\ r.copy.active
  /\ Reduces(r.change)
  /\ Cardinality(ActiveAdmins) <= 1

\* count_active_admins: "= NULL" holds for no row, so for a platform admin it is 0.
RefusedByCount(r) ==
  /\ r.copy.role = "admin" /\ r.copy.active
  /\ Reduces(r.change)
  /\ r.copy.company = NULL \/ Cardinality(AdminsOf(r.copy.company)) <= 1

(***************************************************************************)
(* _guard_last_active_admin judges the row read before, and counts in a    *)
(* transaction of its own.  activate_user and change_password go without:  *)
(* they ask for nothing it could refuse.                                   *)
(***************************************************************************)
Guard(p) ==
  /\ pc[p] = "guard"
  /\ IF RefusedByCount(req[p])
       THEN Answer(p, "refused")
       ELSE Goto(p, "begin", req[p]) /\ UNCHANGED answer
  /\ UNCHANGED <<row, history>>

\* A writing transaction starts: the snapshot its locking SELECT has of the roles.
Begin(p) ==
  /\ pc[p] \in {"begin", "begin_update"}
  /\ Goto(p, IF req[p].change.kind = "delete" THEN "delete"
             ELSE IF pc[p] = "begin" /\ req[p].change.role # KEEP THEN "set_roles"
             ELSE "update",
          [req[p] EXCEPT !.seen = {u \in Users : row[u] # NULL /\ row[u].role = "admin"}])
  /\ UNCHANGED <<row, answer, history>>

\* _lock_active_admin_ids: the rows as they are now, the roles as they were then.
Locked(p) == {u \in req[p].seen : row[u] # NULL /\ row[u].active}

\* Fault: the comparison is off by one.
LastOneOverlooked(p) == req[p].user \in Locked(p) /\ Cardinality(Locked(p)) < 1

\* _guard_not_last_active_admin
LastOne(p) == req[p].user \in Locked(p) /\ Cardinality(Locked(p)) <= 1

(***************************************************************************)
(* A write of p commits, under the lock of the active administrators if it *)
(* took it: row new for its user, where ideal is the row that it was asked *)
(* for, and whole tells whether it writes every column.                    *)
(***************************************************************************)
Write(p, table, new, ideal, whole) ==
  LET u == req[p].user IN
  /\ row' = [row EXCEPT ![u] = new]
  /\ asked' = [asked EXCEPT ![u] = ideal]
  /\ wrote' = [wrote EXCEPT ![p] = @ \union {table}]
  /\ since' = [q \in Requests |->
                 IF q = p \/ pc[q] \in {"new", "done"} THEN since[q]
                 ELSE since[q] \union {u}]
  /\ clobbered' = IF whole /\ u \in since[p] THEN clobbered \union {u} ELSE clobbered
  /\ excused' = IF row[u] # NULL /\ (since[p] # {} \/ req[p].change.company # KEEP)
                  THEN excused \union ({row[u].company} \ {NULL}) ELSE excused
  /\ misled' = (misled \/ (pc[p] \in {"set_roles", "update", "delete"}
                           /\ Locked(p) # ActiveAdmins))
  /\ ids' = ids \union {u}

\* The transaction is refused by its guard or rolled back: nothing is written.
NoWrite(p, a) == Answer(p, a) /\ UNCHANGED <<row, history>>

(***************************************************************************)
(* set_roles: the roles of a user deleted meanwhile violate a foreign key. *)
(* A later failure of update does not take them back.                      *)
(***************************************************************************)
SetRoles(p) ==
  /\ pc[p] = "set_roles"
  /\ LET r == req[p]
         u == r.user
     IN IF r.change.role = "viewer" /\ LastOne(p)
          THEN NoWrite(p, "refused")
          ELSE \E o \in DbOutcomes :
                 IF o = "error" \/ row[u] = NULL
                   THEN NoWrite(p, "error")
                   ELSE /\ Write(p, "role", [row[u] EXCEPT !.role = r.change.role],
                                 [asked[u] EXCEPT !.role = r.change.role], FALSE)
                        /\ IF o = "ok"
                             THEN Goto(p, "begin_update", r) /\ UNCHANGED answer
                             ELSE Answer(p, "error")

\* Fault: the company's guard is asked again before the row is written.
UpdateGuardedAgain(p) ==
  /\ pc[p] = "update"
  /\ IF RefusedByCount(req[p])
       THEN NoWrite(p, "refused")
       ELSE /\ row[req[p].user] # NULL
            /\ LET r == req[p]
                   u == r.user
               IN Write(p, "row",
                        [Changed(r.copy, r.change, p) EXCEPT !.role = row[u].role],
                        AskedOf(asked[u], r.change, p), TRUE)
            /\ Goto(p, "read_back", req[p]) /\ UNCHANGED answer

(***************************************************************************)
(* update writes the copy read by the lookup, changed, and commits.  The   *)
(* UPDATE hits no row of a user deleted meanwhile, and commits all the     *)
(* same.                                                                   *)
(***************************************************************************)
Update(p) ==
  /\ pc[p] = "update"
  /\ LET r == req[p]
         u == r.user
         new == Changed(r.copy, r.change, p)
     IN IF ~new.active /\ LastOne(p)
          THEN NoWrite(p, "refused")
          ELSE \E o \in DbOutcomes :
                 /\ IF o = "error" \/ row[u] = NULL
                      THEN UNCHANGED <<row, history>>
                      ELSE Write(p, "row", [new EXCEPT !.role = row[u].role],
                                 AskedOf(asked[u], r.change, p), TRUE)
                 /\ IF o = "ok"
                      THEN Goto(p, "read_back", r) /\ UNCHANGED answer
                      ELSE Answer(p, "error")

(***************************************************************************)
(* After the commit update reads the row over another connection: a user   *)
(* deleted by then is "Failed to update user", whatever was written.       *)
(***************************************************************************)
ReadBack(p) ==
  /\ pc[p] = "read_back"
  /\ Answer(p, IF row[req[p].user] = NULL THEN "refused" ELSE "ok")
  /\ UNCHANGED <<row, history>>

Delete(p) ==
  /\ pc[p] = "delete"
  /\ IF LastOne(p)
       THEN NoWrite(p, "refused")
       ELSE \E o \in DbOutcomes :
              IF o = "error" \/ row[req[p].user] = NULL
                THEN NoWrite(p, IF o = "ok" THEN "refused" ELSE "error")
                ELSE /\ Write(p, "row", NULL, NULL, FALSE)
                     /\ Answer(p, IF o = "ok" THEN "ok" ELSE "error")

(***************************************************************************)
(* create: the unique keys have the last word on names that were free      *)
(* before.  Bound: names given away and free again meanwhile are not given *)
(* a second id.                                                            *)
(***************************************************************************)
Insert(p) ==
  /\ pc[p] = "insert"
  /\ \E o \in DbOutcomes :
       IF o = "error" \/ req[p].user \in ids
         THEN NoWrite(p, "error")
         ELSE /\ Write(p, "row", req[p].copy, req[p].copy, FALSE)
              /\ Answer(p, IF o = "ok" THEN "ok" ELSE "error")

\* A user's own change of password, after the current one was verified: one column.
OwnPassword(p) ==
  /\ pc[p] = "own"
  /\ LET u == req[p].user IN
     \E o \in DbOutcomes :
       IF o = "error" \/ row[u] = NULL
         THEN NoWrite(p, IF o = "ok" THEN "ok" ELSE "error")
         ELSE /\ Write(p, "row", [row[u] EXCEPT !.password = p],
                       [asked[u] EXCEPT !.password = p], FALSE)
              /\ Answer(p, IF o = "ok" THEN "ok" ELSE "error")

\* A read of p raises: the request ends.
ReadFails(p) ==
  /\ pc[p] \in {"guard", "begin", "begin_update", "read_back"}
  /\ "error" \in DbOutcomes
  /\ NoWrite(p, "error")

Next ==
  \E p \in Requests :
    \/ UpdateUser(p) \/ DeleteUser(p) \/ CreateUser(p) \/ ChangeOwn(p)
    \/ Guard(p) \/ Begin(p) \/ SetRoles(p) \/ Update(p) \/ ReadBack(p)
    \/ Delete(p) \/ Insert(p) \/ OwnPassword(p) \/ ReadFails(p)

Spec == Init /\ [][Next]_vars

(***************************************************************************)
(* Properties                                                              *)
(***************************************************************************)

\* The variables keep their types; requests that are not busy hold nothing.
TypeOK ==
  /\ row \in [Users -> Rows \union {NULL}]
  /\ asked \in [Users -> Rows \union {NULL}]
  /\ pc \in [Requests -> {"new", "guard", "begin", "set_roles", "begin_update",
                          "update", "read_back", "delete", "insert", "own", "done"}]
  /\ \A p \in Requests :
       /\ req[p].user \in Users \union {NULL} /\ req[p].seen \subseteq Users
       /\ req[p] = Idle <=> pc[p] \in {"new", "done"}
  /\ answer \in [Requests -> {NULL, "ok", "refused", "error"}]
  /\ wrote \in [Requests -> SUBSET {"role", "row"}]
  /\ since \in [Requests -> SUBSET Users]
  /\ clobbered \subseteq Users /\ excused \subseteq Companies
  /\ misled \in BOOLEAN /\ ids \subseteq Users

(***************************************************************************)
(* The lock keeps an active administrator in the system whatever requests  *)
(* cross, unless its guard took somebody for an administrator, or not, who *)
(* had changed roles while it waited: two demotions that wait for each     *)
(* other's lock can leave none.                                            *)
(***************************************************************************)
SomeActiveAdmin == ActiveAdmins # {} \/ misled

(***************************************************************************)
(* A company with an active administrator keeps one, unless a request      *)
(* wrote to one of its users after another request had written anything    *)
(* since its lookup, or the platform moved a user out of it: the guard of  *)
(* the company counts outside every lock and does not look at moves.       *)
(***************************************************************************)
CompanyKeepsAdmin == \A c \in Companies \ excused : AdminsOf(c) # {}

(***************************************************************************)
(* Every user is as the requests that were carried out have asked for,     *)
(* field by field, unless a request wrote back a whole row that another    *)
(* one had changed since it was read: then a password or a deactivation    *)
(* is lost, and only then.                                                 *)
(***************************************************************************)
RowsAsAsked == \A u \in Users \ clobbered : row[u] = asked[u]

(***************************************************************************)
(* A client that is told of success had everything written, one that is    *)
(* refused had nothing written: unless another request came between.  It   *)
(* may delete the user under a change of password, which is then told of   *)
(* success; leave a new role without the rest of its update, as may others *)
(* that had left no administrator; or delete the user between the commit   *)
(* of an update and its reading back, and the update is refused although   *)
(* it was written.  Such a user is gone for good.                          *)
(***************************************************************************)
AnswersTrue ==
  \A p \in Requests :
    /\ answer[p] = "ok" => "row" \in wrote[p] \/ since[p] # {}
    /\ answer[p] = "refused" =>
         \/ wrote[p] = {}
         \/ wrote[p] = {"role"} /\ (since[p] # {} \/ misled)
         \/ "row" \in wrote[p] /\ \E u \in since[p] : row[u] = NULL
=============================================================================
