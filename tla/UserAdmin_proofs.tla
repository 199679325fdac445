-------------------------- MODULE UserAdmin_proofs --------------------------
(***************************************************************************)
(* Proofs about UserAdmin, for any number of users, companies and requests.*)
(*                                                                         *)
(* What a request may rely on after its lookup is what nobody else has     *)
(* written since.  A request that is fresh, which means that nobody has    *)
(* written anything, still finds the other administrator that its guard    *)
(* had counted; one whose own row was left alone still holds a copy of it. *)
(* Every write ends this for the other requests, and the histories note    *)
(* what is written without it.                                             *)
(***************************************************************************)
EXTENDS UserAdmin, FiniteSetTheorems, TLAPS

ReqType ==
  [user : Users \union {NULL}, change : AllChanges \union {NULL},
   copy : Rows \union {NULL}, seen : SUBSET Users]

Labels == {"new", "guard", "begin", "set_roles", "begin_update", "update",
           "read_back", "delete", "insert", "own", "done"}
Busies == Labels \ {"new", "done"}
Guarded == {"begin", "set_roles", "begin_update", "update", "delete"}

TableTypes ==
  /\ row \in [Users -> Rows \union {NULL}]
  /\ asked \in [Users -> Rows \union {NULL}]
  /\ clobbered \subseteq Users /\ excused \subseteq Companies
  /\ misled \in BOOLEAN /\ ids \subseteq Users

CallTypes ==
  /\ pc \in [Requests -> Labels]
  /\ req \in [Requests -> ReqType]
  /\ answer \in [Requests -> {NULL, "ok", "refused", "error"}]
  /\ wrote \in [Requests -> SUBSET {"role", "row"}]
  /\ since \in [Requests -> SUBSET Users]

\* What a request holds at each of its steps.
Holds(p) ==
  /\ pc[p] \in {"new", "done"} => req[p] = Idle
  /\ pc[p] \in Busies => req[p].user \in Users /\ req[p].change \in AllChanges
                         /\ req[p].copy \in Rows
  /\ pc[p] = "set_roles" => req[p].change.role \in Roles
  /\ pc[p] = "delete" => req[p].change.kind = "delete"
  /\ pc[p] \in {"set_roles", "begin_update", "update"} => req[p].change.kind # "delete"

\* Its copy is the row, but for the role that it has written, until another writes it.
CopyInv(p) ==
  req[p].user \notin since[p] =>
    LET r == row[req[p].user] IN
    /\ pc[p] \in Guarded \union {"guard", "own"} =>
         r # NULL /\ r = [req[p].copy EXCEPT !.role = r.role]
    /\ pc[p] = "guard" => r = req[p].copy

\* There is the other administrator that the guard had counted.
OtherInv(p) ==
  since[p] = {} /\ pc[p] \in Guarded /\ Reduces(req[p].change) =>
    /\ misled \/ \E v \in ActiveAdmins : v # req[p].user
    /\ req[p].copy.company \in Companies \ excused =>
         \E v \in AdminsOf(req[p].copy.company) : v # req[p].user

\* The roles of its snapshot are the roles.
SeenInv(p) ==
  since[p] = {} /\ pc[p] \in {"set_roles", "update", "delete"} => Locked(p) = ActiveAdmins

\* Only an update that has replaced roles has written anything before it ends.
WroteInv(p) ==
  /\ pc[p] \notin {"begin_update", "update", "read_back", "done"} => wrote[p] = {}
  /\ pc[p] \in {"begin_update", "update"} => wrote[p] \subseteq {"role"}

\* An update reads back what it has written, or a user that another one has deleted.
ReadInv(p) ==
  pc[p] = "read_back" =>
    /\ "row" \in wrote[p] \/ req[p].user \in since[p]
    /\ req[p].user \notin since[p] => row[req[p].user] # NULL

\* The users that others have written have their ids for good.
IdsInv(p) == since[p] \subseteq ids

\* A user written by another request, and gone.
Gone(p) == \E u \in since[p] : row[u] = NULL

RefusalTrue(p) ==
  \/ wrote[p] = {}
  \/ wrote[p] = {"role"} /\ (since[p] # {} \/ misled)
  \/ "row" \in wrote[p] /\ Gone(p)

AnswerTrue(p) ==
  /\ answer[p] = "ok" => "row" \in wrote[p] \/ since[p] # {}
  /\ answer[p] = "refused" => RefusalTrue(p)
  /\ answer[p] # NULL => pc[p] = "done"

Keeps(p) ==
  /\ Holds(p) /\ CopyInv(p) /\ OtherInv(p) /\ SeenInv(p) /\ WroteInv(p)
  /\ ReadInv(p) /\ IdsInv(p) /\ AnswerTrue(p)

TablesInv ==
  /\ \A u \in Users : row[u] = NULL <=> asked[u] = NULL
  /\ \A u \in Users : row[u] # NULL => u \in ids
  /\ SomeActiveAdmin /\ CompanyKeepsAdmin /\ RowsAsAsked

IInv == TableTypes /\ CallTypes /\ TablesInv /\ \A p \in Requests : Keeps(p)

(***************************************************************************)
(* Sets of administrators.                                                 *)
(***************************************************************************)
LEMMA MoreThanOne ==
  ASSUME NEW S \in SUBSET Users, NEW u, ~(Cardinality(S) <= 1)
  PROVE  \E v \in S : v # u
<1>1. IsFiniteSet(Users)
  BY TablesAssumption
<1>2. IsFiniteSet({u}) /\ Cardinality({u}) = 1
  BY FS_Singleton
<1>3. S \subseteq {u} => Cardinality(S) <= 1
  BY <1>2, FS_Subset
<1>4. QED
  BY <1>3

LEMMA NoMoreThanOne ==
  ASSUME NEW S \in SUBSET Users, NEW u \in S, NEW v \in S, u # v, Cardinality(S) <= 1
  PROVE  FALSE
<1>1. IsFiniteSet(S)
  BY TablesAssumption, FS_Subset
<1>2. IsFiniteSet({u}) /\ Cardinality({u}) = 1
  BY FS_Singleton
<1>3. Cardinality({u} \union {v}) = 2 /\ IsFiniteSet({u} \union {v})
  <2>1. v \notin {u}
    OBVIOUS
  <2>2. Cardinality({u} \union {v}) = Cardinality({u}) + 1 /\ IsFiniteSet({u} \union {v})
    BY <1>2, <2>1, FS_AddElement
  <2>3. QED
    BY <1>2, <2>2
<1>4. {u} \union {v} \subseteq S
  OBVIOUS
<1>5. Cardinality({u} \union {v}) <= Cardinality(S)
  BY <1>1, <1>4, FS_Subset
<1>6. Cardinality(S) \in Nat
  BY <1>1, FS_CardinalityType
<1>7. QED
  BY <1>3, <1>5, <1>6

LEMMA IdleType == Idle \in ReqType /\ \A p : Idle.user # p \/ p = NULL
BY DEF Idle, ReqType

LEMMA BusyType ==
  ASSUME NEW u \in Users, NEW ch \in AllChanges, NEW copy \in Rows
  PROVE  /\ Busy(u, ch, copy) \in ReqType
         /\ Busy(u, ch, copy).user = u /\ Busy(u, ch, copy).change = ch
         /\ Busy(u, ch, copy).copy = copy
BY DEF Busy, Idle, ReqType

\* The row of a user whom the request alone has written is its copy.
LEMMA CopyIsRow ==
  ASSUME IInv, NEW p \in Requests, pc[p] \in Guarded \union {"guard", "own"},
         req[p].user \notin since[p]
  PROVE  LET r == row[req[p].user] IN
         /\ r \in Rows /\ req[p].copy \in Rows
         /\ r = [req[p].copy EXCEPT !.role = r.role]
         /\ r.company = req[p].copy.company /\ r.active = req[p].copy.active
         /\ r.password = req[p].copy.password
<1> DEFINE r == row[req[p].user]
<1>1. req[p].user \in Users /\ req[p].copy \in Rows
  BY DEF IInv, Keeps, Holds, Busies, Labels, Guarded
<1>2. r # NULL /\ r = [req[p].copy EXCEPT !.role = r.role]
  BY DEF IInv, Keeps, CopyInv
<1>3. r \in Rows
  BY <1>1, <1>2 DEF IInv, TableTypes
<1>4. QED
  BY <1>1, <1>2, <1>3 DEF Rows, RowsOf

(***************************************************************************)
(* Steps that write nothing.                                               *)
(***************************************************************************)
LEMMA QuietKeeps ==
  ASSUME IInv, NEW p \in Requests, UNCHANGED <<row, history>>,
         NEW l \in Labels, NEW r \in ReqType, NEW a \in {NULL, "ok", "refused", "error"},
         Goto(p, l, r), answer' = [answer EXCEPT ![p] = a],
         Keeps(p)'
  PROVE  IInv'
<1>1. UNCHANGED <<row, asked, wrote, since, clobbered, excused, misled, ids>>
  BY DEF history
<1>2. \A q \in Requests \ {p} : pc'[q] = pc[q] /\ req'[q] = req[q] /\ answer'[q] = answer[q]
  BY DEF Goto, IInv, CallTypes
<1>3. ASSUME NEW q \in Requests, q # p PROVE Keeps(q)'
  <2>1. pc'[q] = pc[q] /\ req'[q] = req[q] /\ answer'[q] = answer[q]
    BY <1>2, <1>3
  <2>2. Holds(q)' /\ CopyInv(q)' /\ WroteInv(q)'
    BY <1>1, <2>1 DEF IInv, Keeps, Holds, CopyInv, WroteInv
  <2>7. ReadInv(q)' /\ IdsInv(q)' /\ AnswerTrue(q)'
    BY <1>1, <2>1 DEF IInv, Keeps, ReadInv, IdsInv, AnswerTrue, RefusalTrue, Gone
  <2>3. ActiveAdmins' = ActiveAdmins /\ \A c : AdminsOf(c)' = AdminsOf(c)
    BY <1>1 DEF ActiveAdmins, AdminsOf
  <2>4. Locked(q)' = Locked(q)
    BY <1>1, <2>1 DEF Locked
  <2>5. OtherInv(q)' /\ SeenInv(q)'
    BY <1>1, <2>1, <2>3, <2>4 DEF IInv, Keeps, OtherInv, SeenInv
  <2>6. QED
    BY <2>2, <2>5, <2>7 DEF Keeps
<1>4. TableTypes' /\ TablesInv'
  BY <1>1 DEF IInv, TableTypes, TablesInv, SomeActiveAdmin, CompanyKeepsAdmin, RowsAsAsked,
     ActiveAdmins, AdminsOf
<1>5. CallTypes'
  BY <1>1 DEF IInv, CallTypes, Goto
<1>6. QED
  BY <1>3, <1>4, <1>5 DEF IInv

LEMMA EndKeeps ==
  ASSUME IInv, NEW p \in Requests, NEW a \in {"ok", "refused", "error"}, NoWrite(p, a),
         a = "ok" => "row" \in wrote[p] \/ since[p] # {},
         a = "refused" => RefusalTrue(p)
  PROVE  IInv'
<1>1. UNCHANGED <<row, asked, wrote, since, clobbered, excused, misled, ids>>
  BY DEF NoWrite, history
<1>2. Goto(p, "done", Idle) /\ answer' = [answer EXCEPT ![p] = a]
  BY DEF NoWrite, Answer
<1>3. pc'[p] = "done" /\ req'[p] = Idle /\ answer'[p] = a
  BY <1>2 DEF Goto, IInv, CallTypes
<1>4. Holds(p)' /\ WroteInv(p)' /\ ReadInv(p)'
  BY <1>1, <1>3 DEF Holds, WroteInv, ReadInv, Busies
<1>5. CopyInv(p)' /\ OtherInv(p)' /\ SeenInv(p)'
  BY <1>3 DEF CopyInv, OtherInv, SeenInv, Guarded
<1>8. IdsInv(p)' /\ AnswerTrue(p)'
  BY <1>1, <1>3 DEF IInv, Keeps, IdsInv, AnswerTrue, RefusalTrue, Gone
<1>6. Keeps(p)'
  BY <1>4, <1>5, <1>8 DEF Keeps
<1>7. QED
  BY <1>2, <1>6, IdleType, QuietKeeps DEF NoWrite, Labels

(***************************************************************************)
(* Reads: every request that looks a user up, and the guard of its company.*)
(***************************************************************************)
LEMMA StartKeeps ==
  ASSUME IInv, NEW p \in Requests, UNCHANGED <<row, history>>, pc[p] = "new",
         NEW u \in Users, NEW ch \in AllChanges, NEW copy \in Rows,
         NEW l \in {"guard", "insert", "own"}, Goto(p, l, Busy(u, ch, copy)),
         l \in {"guard", "own"} => copy = row[u], UNCHANGED answer
  PROVE  IInv'
<1>1. UNCHANGED <<row, asked, wrote, since, clobbered, excused, misled, ids>>
  BY DEF history
<1>2. pc'[p] = l /\ req'[p] = Busy(u, ch, copy) /\ answer' = [answer EXCEPT ![p] = answer[p]]
  BY DEF Goto, IInv, CallTypes
<1>3. Holds(p)' /\ OtherInv(p)' /\ SeenInv(p)'
  BY <1>2, BusyType DEF Holds, OtherInv, SeenInv, Guarded
<1>4. CopyInv(p)'
  BY <1>1, <1>2, BusyType, TablesAssumption DEF CopyInv, Guarded, Rows, RowsOf
<1>5. WroteInv(p)' /\ ReadInv(p)' /\ IdsInv(p)' /\ AnswerTrue(p)'
  <2>1. wrote[p] = {} /\ since[p] \subseteq ids /\ answer[p] = NULL
    BY DEF IInv, Keeps, WroteInv, IdsInv, AnswerTrue, CallTypes
  <2>2. NULL \notin {"ok", "refused"}
    BY TablesAssumption
  <2>3. QED
    BY <1>1, <1>2, <2>1, <2>2 DEF WroteInv, ReadInv, IdsInv, AnswerTrue
<1>6. Keeps(p)'
  BY <1>3, <1>4, <1>5 DEF Keeps
<1>7. Busy(u, ch, copy) \in ReqType /\ l \in Labels /\ answer[p] \in {NULL, "ok", "refused", "error"}
  BY BusyType DEF Labels, IInv, CallTypes
<1>8. QED
  BY <1>2, <1>6, <1>7, QuietKeeps

LEMMA RefusedKeeps ==
  ASSUME IInv, NEW p \in Requests, UNCHANGED <<row, history>>,
         pc[p] \in {"new", "guard", "set_roles", "delete"}, Answer(p, "refused")
  PROVE  IInv'
<1>1. wrote[p] = {}
  BY DEF IInv, Keeps, WroteInv
<1>2. QED
  BY <1>1, EndKeeps DEF NoWrite, RefusalTrue

LEMMA LookupKeeps ==
  ASSUME IInv, NEW p \in Requests, UNCHANGED <<row, history>>, pc[p] = "new",
         NEW u \in Users, NEW ch \in AllChanges, NEW scope, LookupUser(p, scope, u, ch)
  PROVE  IInv'
<1>1. CASE Finds(scope, u)
  <2>1. row[u] \in Rows
    BY <1>1 DEF Finds, IInv, TableTypes
  <2>2. QED
    BY <1>1, <2>1, StartKeeps DEF LookupUser
<1>2. CASE ~Finds(scope, u)
  BY <1>2, RefusedKeeps DEF LookupUser
<1>3. QED
  BY <1>1, <1>2

LEMMA UpdateUserKeeps ==
  ASSUME IInv, NEW p \in Requests, UpdateUser(p) PROVE IInv'
<1>1. PICK u \in Users, scope \in Scopes, ch \in Changes :
        IF Void(Allowed(scope, ch)) THEN Answer(p, "refused")
        ELSE LookupUser(p, scope, u, Allowed(scope, ch))
  BY DEF UpdateUser
<1>2. Allowed(scope, ch) \in AllChanges
  BY ChangesAssumption DEF Allowed, AllChanges
<1>3. QED
  BY <1>1, <1>2, LookupKeeps, RefusedKeeps DEF UpdateUser

LEMMA DeleteUserKeeps ==
  ASSUME IInv, NEW p \in Requests, DeleteUser(p) PROVE IInv'
BY LookupKeeps, ChangesAssumption DEF DeleteUser

LEMMA CreateUserKeeps ==
  ASSUME IInv, NEW p \in Requests, CreateUser(p) PROVE IInv'
<1> DEFINE Made(u, scope, ch, created) ==
        /\ created = [company |-> IF scope = NULL THEN Pick(ch.company, NULL) ELSE scope,
                      active |-> Pick(ch.active, TRUE), password |-> p,
                      role |-> Pick(ch.role, "viewer")]
        /\ IF NameTaken(u) THEN Answer(p, "refused")
           ELSE Goto(p, "insert", Busy(u, ch, created)) /\ UNCHANGED answer
<1>0. PICK u \in Users, scope \in Scopes, ch \in Changes : \E created : Made(u, scope, ch, created)
  BY Zenon DEF CreateUser
<1>1. PICK created : Made(u, scope, ch, created)
  BY <1>0
<1>2. created \in Rows
  <2>1. ch \in AllChanges /\ scope \in Companies \union {NULL}
    BY ChangesAssumption, TablesAssumption
  <2>2. Pick(ch.company, NULL) \in Companies \union {NULL} /\ Pick(ch.role, "viewer") \in Roles
    BY <2>1 DEF AllChanges, Pick, Roles
  <2>3. Pick(ch.active, TRUE) \in BOOLEAN
    BY <2>1 DEF AllChanges, Pick
  <2>4. QED
    BY <1>1, <2>1, <2>2, <2>3 DEF Rows, RowsOf
<1>3. QED
  BY <1>1, <1>2, ChangesAssumption, StartKeeps, RefusedKeeps DEF CreateUser

LEMMA ChangeOwnKeeps ==
  ASSUME IInv, NEW p \in Requests, ChangeOwn(p) PROVE IInv'
<1>1. PICK u \in Users, ch \in Changes :
        IF row[u] # NULL THEN Goto(p, "own", Busy(u, ch, row[u])) /\ UNCHANGED answer
        ELSE Answer(p, "refused")
  BY DEF ChangeOwn
<1>2. row[u] # NULL => row[u] \in Rows
  BY DEF IInv, TableTypes
<1>3. QED
  BY <1>1, <1>2, ChangesAssumption, StartKeeps, RefusedKeeps DEF ChangeOwn

\* What the guard has counted is there, or another has written since.
LEMMA GuardFindsOther ==
  ASSUME IInv, NEW p \in Requests, pc[p] = "guard", since[p] = {}, ~RefusedByCount(req[p]),
         Reduces(req[p].change)
  PROVE  /\ misled \/ \E v \in ActiveAdmins : v # req[p].user
         /\ req[p].copy.company \in Companies \ excused =>
              \E v \in AdminsOf(req[p].copy.company) : v # req[p].user
<1> DEFINE c == req[p].copy.company
<1>1. req[p].user \in Users /\ row[req[p].user] = req[p].copy /\ req[p].copy \in Rows
  BY DEF IInv, Keeps, Holds, CopyInv, Busies, Labels
<1>2. CASE ~(req[p].copy.role = "admin" /\ req[p].copy.active)
  <2>1. req[p].user \notin ActiveAdmins
    BY <1>1, <1>2 DEF ActiveAdmins, IsActiveAdmin
  <2>2. \A v \in AdminsOf(c) : v # req[p].user
    BY <2>1 DEF AdminsOf
  <2>3. QED
    BY <2>1, <2>2 DEF IInv, TablesInv, SomeActiveAdmin, CompanyKeepsAdmin
<1>3. CASE req[p].copy.role = "admin" /\ req[p].copy.active
  <2>1. ~(Cardinality(AdminsOf(c)) <= 1)
    BY <1>3 DEF RefusedByCount
  <2>2. AdminsOf(c) \in SUBSET Users /\ AdminsOf(c) \subseteq ActiveAdmins
    BY DEF AdminsOf, ActiveAdmins
  <2>3. \E v \in AdminsOf(c) : v # req[p].user
    BY <2>1, <2>2, MoreThanOne
  <2>4. QED
    BY <2>2, <2>3
<1>4. QED
  BY <1>2, <1>3

LEMMA GuardKeeps ==
  ASSUME IInv, NEW p \in Requests, Guard(p) PROVE IInv'
<1>1. pc[p] = "guard" /\ UNCHANGED <<row, history>>
  BY DEF Guard
<1>2. CASE RefusedByCount(req[p])
  BY <1>1, <1>2, RefusedKeeps DEF Guard
<1>3. CASE ~RefusedByCount(req[p])
  <2>1. Goto(p, "begin", req[p]) /\ UNCHANGED answer
    BY <1>3 DEF Guard
  <2>2. UNCHANGED <<row, asked, wrote, since, clobbered, excused, misled, ids>>
    BY <1>1 DEF history
  <2>3. /\ pc'[p] = "begin" /\ req'[p] = req[p] /\ answer'[p] = answer[p]
        /\ answer' = [answer EXCEPT ![p] = answer[p]]
    BY <2>1 DEF Goto, IInv, CallTypes
  <2>4. Holds(p)' /\ CopyInv(p)' /\ SeenInv(p)' /\ WroteInv(p)'
    BY <1>1, <2>2, <2>3 DEF IInv, Keeps, Holds, CopyInv, SeenInv, WroteInv, Busies, Labels, Guarded
  <2>5. ReadInv(p)' /\ IdsInv(p)' /\ AnswerTrue(p)'
    BY <1>1, <2>2, <2>3 DEF IInv, Keeps, ReadInv, IdsInv, AnswerTrue, RefusalTrue, Gone
  <2>6. ActiveAdmins' = ActiveAdmins /\ \A c : AdminsOf(c)' = AdminsOf(c)
    BY <2>2 DEF ActiveAdmins, AdminsOf
  <2>7. OtherInv(p)'
    BY <1>1, <1>3, <2>2, <2>3, <2>6, GuardFindsOther DEF OtherInv
  <2>8. Keeps(p)'
    BY <2>4, <2>5, <2>7 DEF Keeps
  <2>9. req[p] \in ReqType /\ "begin" \in Labels /\ answer[p] \in {NULL, "ok", "refused", "error"}
    BY DEF IInv, CallTypes, Labels
  <2>10. QED
    BY <1>1, <2>1, <2>3, <2>8, <2>9, QuietKeeps
<1>4. QED
  BY <1>2, <1>3

(***************************************************************************)
(* A writing transaction starts, or a read of the request fails.           *)
(***************************************************************************)
LEMMA BeginKeeps ==
  ASSUME IInv, NEW p \in Requests, Begin(p) PROVE IInv'
<1> DEFINE l == IF req[p].change.kind = "delete" THEN "delete"
                ELSE IF pc[p] = "begin" /\ req[p].change.role # KEEP THEN "set_roles"
                ELSE "update"
           admins == {u \in Users : row[u] # NULL /\ row[u].role = "admin"}
           r == [req[p] EXCEPT !.seen = admins]
<1>1. pc[p] \in {"begin", "begin_update"} /\ UNCHANGED <<row, answer, history>> /\ Goto(p, l, r)
  BY DEF Begin
<1>2. UNCHANGED <<row, asked, wrote, since, clobbered, excused, misled, ids>>
  BY <1>1 DEF history
<1>3. r \in ReqType /\ r.user = req[p].user /\ r.change = req[p].change
        /\ r.copy = req[p].copy /\ r.seen = admins
  BY DEF IInv, CallTypes, ReqType
<1>4. /\ pc'[p] = l /\ req'[p] = r /\ answer'[p] = answer[p]
      /\ answer' = [answer EXCEPT ![p] = answer[p]]
  BY <1>1 DEF Goto, IInv, CallTypes
<1>5. l \in {"delete", "set_roles", "update"}
      /\ (l = "delete" <=> req[p].change.kind = "delete")
      /\ (l = "set_roles" => pc[p] = "begin" /\ req[p].change.role # KEEP)
  OBVIOUS
<1>6. /\ req[p].user \in Users /\ req[p].change \in AllChanges /\ req[p].copy \in Rows
      /\ wrote[p] \subseteq {"role"} /\ (pc[p] = "begin" => wrote[p] = {})
  BY <1>1 DEF IInv, Keeps, Holds, WroteInv, Busies, Labels
<1> HIDE DEF l, r, admins
<1>7. Holds(p)'
  BY <1>3, <1>4, <1>5, <1>6 DEF Holds, AllChanges
<1>8. CopyInv(p)'
  <2>1. pc[p] \in Guarded
    BY <1>1 DEF Guarded
  <2>2. QED
    BY <1>2, <1>3, <1>4, <1>5, <2>1 DEF IInv, Keeps, CopyInv
<1>9. OtherInv(p)'
  <2>1. ActiveAdmins' = ActiveAdmins /\ \A c : AdminsOf(c)' = AdminsOf(c)
    BY <1>2 DEF ActiveAdmins, AdminsOf
  <2>2. pc[p] \in Guarded
    BY <1>1 DEF Guarded
  <2>3. QED
    BY <1>2, <1>3, <1>4, <2>1, <2>2 DEF IInv, Keeps, OtherInv
<1>10. SeenInv(p)'
  BY <1>2, <1>3, <1>4 DEF SeenInv, Locked, ActiveAdmins, IsActiveAdmin, admins
<1>11. WroteInv(p)' /\ ReadInv(p)' /\ IdsInv(p)' /\ AnswerTrue(p)'
  <2>1. l = "delete" => pc[p] = "begin"
    BY <1>1, <1>5 DEF IInv, Keeps, Holds
  <2>2. QED
    BY <1>1, <1>2, <1>4, <1>5, <1>6, <2>1 DEF WroteInv, ReadInv, IdsInv, AnswerTrue,
       RefusalTrue, Gone, IInv, Keeps
<1>12. Keeps(p)'
  BY <1>7, <1>8, <1>9, <1>10, <1>11 DEF Keeps
<1>13. l \in Labels /\ answer[p] \in {NULL, "ok", "refused", "error"}
  BY <1>5 DEF Labels, IInv, CallTypes
<1>14. UNCHANGED <<row, history>>
  BY <1>1
<1>15. QED
  BY <1>1, <1>3, <1>4, <1>12, <1>13, <1>14, QuietKeeps

LEMMA ReadFailsKeeps ==
  ASSUME IInv, NEW p \in Requests, ReadFails(p) PROVE IInv'
BY EndKeeps DEF ReadFails

(***************************************************************************)
(* Writes.  The write of one request ends what the others rely on.         *)
(***************************************************************************)
LEMMA WriteFrame ==
  ASSUME IInv, NEW p \in Requests, pc[p] \in Busies, NEW table \in {"role", "row"},
         NEW new \in Rows \union {NULL}, NEW ideal \in Rows \union {NULL},
         NEW whole \in BOOLEAN, Write(p, table, new, ideal, whole)
  PROVE  /\ req[p].user \in Users
         /\ row'[req[p].user] = new
         /\ \A v \in Users \ {req[p].user} : row'[v] = row[v] /\ asked'[v] = asked[v]
         /\ asked'[req[p].user] = ideal
         /\ wrote'[p] = wrote[p] \union {table} /\ since'[p] = since[p]
         /\ \A q \in Requests \ {p} : wrote'[q] = wrote[q]
         /\ \A q \in Requests \ {p} : pc[q] \in Busies => req[p].user \in since'[q]
         /\ \A q \in Requests : since[q] \subseteq since'[q]
         /\ excused \subseteq excused' /\ clobbered \subseteq clobbered'
         /\ (misled => misled') /\ ids' = ids \union {req[p].user}
         /\ TableTypes' /\ wrote' \in [Requests -> SUBSET {"role", "row"}]
         /\ since' \in [Requests -> SUBSET Users]
<1> DEFINE u == req[p].user
<1>1. u \in Users
  BY DEF IInv, Keeps, Holds
<1>2. /\ row' = [row EXCEPT ![u] = new] /\ asked' = [asked EXCEPT ![u] = ideal]
      /\ wrote' = [wrote EXCEPT ![p] = @ \union {table}]
  BY DEF Write
<1>3. since' = [q \in Requests |->
                  IF q = p \/ pc[q] \in {"new", "done"} THEN since[q]
                  ELSE since[q] \union {u}]
  BY DEF Write
<1>4. clobbered' \in {clobbered, clobbered \union {u}}
  BY DEF Write
<1>5. excused' = excused \/ (row[u] # NULL /\ excused' = excused \union ({row[u].company} \ {NULL}))
  BY DEF Write
<1>6. misled' \in BOOLEAN /\ (misled => misled')
  BY DEF Write
<1>7. excused \subseteq excused' /\ excused' \subseteq Companies
  <2>1. row[u] # NULL => row[u].company \in Companies \union {NULL}
    BY <1>1 DEF IInv, TableTypes, Rows, RowsOf
  <2>2. QED
    BY <1>5, <2>1 DEF IInv, TableTypes
<1>8. row' \in [Users -> Rows \union {NULL}] /\ asked' \in [Users -> Rows \union {NULL}]
  BY <1>2 DEF IInv, TableTypes
<1>14. ids' = ids \union {u}
  BY DEF Write
<1>9. TableTypes'
  BY <1>1, <1>4, <1>6, <1>7, <1>8, <1>14 DEF IInv, TableTypes
<1>10. /\ row'[u] = new /\ asked'[u] = ideal
       /\ \A v \in Users \ {u} : row'[v] = row[v] /\ asked'[v] = asked[v]
  BY <1>1, <1>2 DEF IInv, TableTypes
<1>11. /\ wrote'[p] = wrote[p] \union {table} /\ \A q \in Requests \ {p} : wrote'[q] = wrote[q]
       /\ wrote' \in [Requests -> SUBSET {"role", "row"}]
  BY <1>2 DEF IInv, CallTypes
<1>12. /\ since' \in [Requests -> SUBSET Users] /\ since'[p] = since[p]
       /\ \A q \in Requests : since[q] \subseteq since'[q]
       /\ \A q \in Requests \ {p} : pc[q] \in Busies => u \in since'[q]
  BY <1>1, <1>3 DEF IInv, CallTypes, Busies
<1>13. QED
  BY <1>1, <1>4, <1>6, <1>7, <1>9, <1>10, <1>11, <1>12, <1>14

\* A request writes a user who is there, or a new one.
Writable(p) == row[req[p].user] # NULL \/ req[p].user \notin ids

LEMMA OthersKeep ==
  ASSUME IInv, NEW p \in Requests, pc[p] \in Busies, NEW table \in {"role", "row"},
         NEW new \in Rows \union {NULL}, NEW ideal \in Rows \union {NULL},
         NEW whole \in BOOLEAN, Write(p, table, new, ideal, whole), Writable(p),
         NEW q \in Requests, q # p,
         pc'[q] = pc[q], req'[q] = req[q], answer'[q] = answer[q]
  PROVE  Keeps(q)'
<1> DEFINE u == req[p].user
<1>1. /\ u \in Users /\ (pc[q] \in Busies => u \in since'[q])
      /\ \A v \in Users \ {u} : row'[v] = row[v]
      /\ wrote'[q] = wrote[q] /\ since[q] \subseteq since'[q]
      /\ (misled => misled')
  BY WriteFrame
<1>8. /\ ids' = ids \union {u} /\ since[q] \subseteq Users /\ since'[q] \subseteq since[q] \union {u}
      /\ since[q] \subseteq ids
  BY DEF Write, IInv, CallTypes, Keeps, IdsInv
<1>2. Holds(q)' /\ WroteInv(q)' /\ IdsInv(q)'
  BY <1>1, <1>8 DEF IInv, Keeps, Holds, WroteInv, IdsInv
<1>3. AnswerTrue(q)'
  <2>1. ASSUME NEW v \in since[q], row[v] = NULL
        PROVE  v \in since'[q] /\ row'[v] = NULL
    <3>1. v # u
      BY <2>1 DEF Writable, IInv, Keeps, IdsInv
    <3>2. QED
      BY <1>1, <1>8, <2>1, <3>1
  <2>2. Gone(q) => Gone(q)'
    BY <2>1 DEF Gone
  <2>3. answer[q] = "refused" => RefusalTrue(q)'
    BY <1>1, <2>2 DEF IInv, Keeps, AnswerTrue, RefusalTrue
  <2>4. QED
    BY <1>1, <2>3 DEF IInv, Keeps, AnswerTrue
<1>7. ReadInv(q)'
  <2>1. CASE pc[q] = "read_back"
    <3>1. req[q].user \in Users /\ u \in since'[q]
      BY <1>1, <2>1 DEF IInv, Keeps, Holds, Busies, Labels
    <3>2. QED
      BY <1>1, <2>1, <3>1 DEF IInv, Keeps, ReadInv
  <2>2. QED
    BY <2>1 DEF ReadInv
<1>4. CopyInv(q)'
  <2>1. CASE pc[q] \in Busies
    <3>1. req[q].user \in Users
      BY <2>1 DEF IInv, Keeps, Holds
    <3>2. req[q].user \notin since'[q] => req[q].user # u /\ req[q].user \notin since[q]
      BY <1>1, <2>1
    <3>3. QED
      BY <1>1, <3>1, <3>2 DEF IInv, Keeps, CopyInv
  <2>2. CASE pc[q] \notin Busies
    BY <2>2 DEF CopyInv, Guarded, Busies, Labels
  <2>3. QED
    BY <2>1, <2>2
<1>5. OtherInv(q)' /\ SeenInv(q)'
  BY <1>1 DEF OtherInv, SeenInv, Guarded, Busies, Labels
<1>6. QED
  BY <1>2, <1>3, <1>4, <1>5, <1>7 DEF Keeps

(***************************************************************************)
(* A write keeps the tables' invariants when it leaves its user an active  *)
(* administrator, or there is another one.                                 *)
(***************************************************************************)
LEMMA WriteKeeps ==
  ASSUME IInv, NEW p \in Requests, pc[p] \in Busies, NEW table \in {"role", "row"},
         NEW new \in Rows \union {NULL}, NEW ideal \in Rows \union {NULL},
         NEW whole \in BOOLEAN, Write(p, table, new, ideal, whole), Writable(p),
         new = NULL <=> ideal = NULL,
         row[req[p].user] = asked[req[p].user] /\ req[p].user \notin clobbered'
           => new = ideal,
         \/ misled' \/ IsActiveAdmin(new) \/ req[p].user \notin ActiveAdmins
         \/ \E v \in ActiveAdmins : v # req[p].user,
         row[req[p].user] # NULL =>
           \/ row[req[p].user].company \notin Companies \ excused'
           \/ req[p].user \notin ActiveAdmins
           \/ IsActiveAdmin(new) /\ new.company = row[req[p].user].company
           \/ \E v \in AdminsOf(row[req[p].user].company) : v # req[p].user,
         NEW l \in Labels, NEW r \in ReqType, NEW a \in {NULL, "ok", "refused", "error"},
         Goto(p, l, r), answer' = [answer EXCEPT ![p] = a], Keeps(p)'
  PROVE  IInv'
<1> DEFINE u == req[p].user
<1>1. /\ u \in Users /\ row'[u] = new /\ asked'[u] = ideal
      /\ \A v \in Users \ {u} : row'[v] = row[v] /\ asked'[v] = asked[v]
      /\ excused \subseteq excused' /\ clobbered \subseteq clobbered'
      /\ (misled => misled')
      /\ TableTypes' /\ wrote' \in [Requests -> SUBSET {"role", "row"}]
      /\ since' \in [Requests -> SUBSET Users]
  BY WriteFrame
<1>12. ids' = ids \union {u}
  BY DEF Write
<1>2. CallTypes'
  BY <1>1 DEF IInv, CallTypes, Goto
<1>3. ASSUME NEW q \in Requests PROVE Keeps(q)'
  <2>1. CASE q # p
    <3>1. pc'[q] = pc[q] /\ req'[q] = req[q] /\ answer'[q] = answer[q]
      BY <2>1 DEF Goto, IInv, CallTypes
    <3>2. QED
      BY <2>1, <3>1, OthersKeep
  <2>2. QED
    BY <2>1
<1>4. \A v \in Users : (row'[v] = NULL <=> asked'[v] = NULL) /\ (row'[v] # NULL => v \in ids')
  BY <1>1, <1>12 DEF IInv, TablesInv
<1>5. RowsAsAsked'
  BY <1>1 DEF IInv, TablesInv, RowsAsAsked
<1>6. \A v \in ActiveAdmins : v # u => v \in ActiveAdmins'
  BY <1>1 DEF ActiveAdmins
<1>7. \A c : \A v \in AdminsOf(c) : v # u => v \in AdminsOf(c)'
  BY <1>1, <1>6 DEF AdminsOf, ActiveAdmins
<1>8. IsActiveAdmin(new) => u \in ActiveAdmins'
  BY <1>1 DEF ActiveAdmins
<1>9. SomeActiveAdmin'
  BY <1>1, <1>6, <1>8 DEF IInv, TablesInv, SomeActiveAdmin
<1>10. CompanyKeepsAdmin'
  <2>1. ASSUME NEW c \in Companies \ excused' PROVE AdminsOf(c)' # {}
    <3>1. PICK v \in AdminsOf(c) : TRUE
      BY <1>1 DEF IInv, TablesInv, CompanyKeepsAdmin
    <3>2. CASE v # u
      BY <1>7, <3>1, <3>2
    <3>3. CASE v = u
      <4>1. u \in ActiveAdmins /\ row[u] # NULL /\ row[u].company = c
        BY <3>3 DEF AdminsOf, ActiveAdmins, IsActiveAdmin
      <4>2. CASE IsActiveAdmin(new) /\ new.company = c
        <5>1. u \in AdminsOf(c)'
          BY <1>1, <1>8, <4>2 DEF AdminsOf
        <5>2. QED
          BY <5>1
      <4>3. CASE \E w \in AdminsOf(c) : w # u
        BY <1>7, <4>3
      <4>4. QED
        BY <4>1, <4>2, <4>3
    <3>4. QED
      BY <3>2, <3>3
  <2>2. QED
    BY <2>1 DEF CompanyKeepsAdmin
<1>11. QED
  BY <1>1, <1>2, <1>3, <1>4, <1>5, <1>9, <1>10 DEF IInv, TablesInv

\* The excuses of a company that a write takes a user from.
LEMMA Excuse ==
  ASSUME IInv, NEW p \in Requests, pc[p] \in Busies, NEW table, NEW new, NEW ideal, NEW whole,
         Write(p, table, new, ideal, whole), row[req[p].user] # NULL,
         since[p] # {} \/ req[p].change.company # KEEP
  PROVE  row[req[p].user].company \notin Companies \ excused'
BY TablesAssumption DEF Write

\* The request that reduces a fresh row leaves the company another administrator.
LEMMA OtherOfCompany ==
  ASSUME IInv, NEW p \in Requests, pc[p] \in Guarded, since[p] = {}, Reduces(req[p].change),
         row[req[p].user] # NULL, row[req[p].user].company \in Companies \ excused
  PROVE  \E v \in AdminsOf(row[req[p].user].company) : v # req[p].user
<1>1. row[req[p].user].company = req[p].copy.company
  BY CopyIsRow
<1>2. QED
  BY <1>1 DEF IInv, Keeps, OtherInv

\* The guard under the lock leaves an active administrator, or its roles were past.
LEMMA OtherOfAll ==
  ASSUME IInv, NEW p \in Requests, pc[p] \in {"set_roles", "update", "delete"}, ~LastOne(p),
         NEW table, NEW new, NEW ideal, NEW whole, Write(p, table, new, ideal, whole)
  PROVE  \/ misled' \/ req[p].user \notin ActiveAdmins
         \/ \E v \in ActiveAdmins : v # req[p].user
<1>1. misled' \/ Locked(p) = ActiveAdmins
  BY DEF Write
<1>2. ASSUME Locked(p) = ActiveAdmins, req[p].user \in ActiveAdmins
      PROVE  \E v \in ActiveAdmins : v # req[p].user
  <2>1. ~(Cardinality(ActiveAdmins) <= 1)
    BY <1>2 DEF LastOne
  <2>2. ActiveAdmins \in SUBSET Users
    BY DEF ActiveAdmins
  <2>3. QED
    BY <2>1, <2>2, MoreThanOne
<1>3. QED
  BY <1>1, <1>2

\* A write that ends its request.
LEMMA EndedKeeps ==
  ASSUME IInv, NEW p \in Requests, pc[p] \in Busies, NEW table \in {"role", "row"},
         NEW new \in Rows \union {NULL}, NEW ideal \in Rows \union {NULL},
         NEW whole \in BOOLEAN, Write(p, table, new, ideal, whole),
         NEW a \in {"ok", "error"}, Answer(p, a), a = "ok" => table = "row"
  PROVE  /\ Goto(p, "done", Idle) /\ answer' = [answer EXCEPT ![p] = a] /\ Keeps(p)'
         /\ "done" \in Labels /\ Idle \in ReqType
<1>1. pc'[p] = "done" /\ req'[p] = Idle /\ answer'[p] = a
  BY DEF Answer, Goto, IInv, CallTypes
<1>2. wrote'[p] = wrote[p] \union {table}
  BY DEF Write, IInv, CallTypes
<1>3. Holds(p)' /\ WroteInv(p)' /\ AnswerTrue(p)' /\ ReadInv(p)'
  BY <1>1, <1>2 DEF Holds, WroteInv, AnswerTrue, ReadInv, Busies
<1>6. IdsInv(p)'
  <2>1. since'[p] = since[p] /\ ids \subseteq ids'
    BY DEF Write, IInv, CallTypes
  <2>2. QED
    BY <2>1 DEF IInv, Keeps, IdsInv
<1>4. CopyInv(p)' /\ OtherInv(p)' /\ SeenInv(p)'
  BY <1>1 DEF CopyInv, OtherInv, SeenInv, Guarded
<1>5. QED
  BY <1>3, <1>4, <1>6, IdleType DEF Answer, Keeps, Labels

(***************************************************************************)
(* The five writes.                                                        *)
(***************************************************************************)
LEMMA SetRolesKeeps ==
  ASSUME IInv, NEW p \in Requests, SetRoles(p) PROVE IInv'
<1> DEFINE u == req[p].user
           ch == req[p].change
           new == [row[u] EXCEPT !.role = ch.role]
           ideal == [asked[u] EXCEPT !.role = ch.role]
<1>1. pc[p] = "set_roles" /\ pc[p] \in Busies /\ pc[p] \in Guarded
  BY DEF SetRoles, Busies, Labels, Guarded
<1>2. u \in Users /\ ch \in AllChanges /\ ch.role \in Roles /\ wrote[p] = {}
  BY <1>1 DEF IInv, Keeps, Holds, WroteInv
<1>3. CASE ch.role = "viewer" /\ LastOne(p)
  BY <1>1, <1>3, RefusedKeeps DEF SetRoles, NoWrite
<1>4. CASE NoWrite(p, "error")
  BY <1>4, EndKeeps
<1>5. ASSUME ~(ch.role = "viewer" /\ LastOne(p)), row[u] # NULL,
             Write(p, "role", new, ideal, FALSE),
             (Goto(p, "begin_update", req[p]) /\ UNCHANGED answer) \/ Answer(p, "error")
      PROVE  IInv'
  <2>1. row[u] \in Rows /\ asked[u] \in Rows
    BY <1>2, <1>5 DEF IInv, TableTypes, TablesInv
  <2>2. /\ new \in Rows /\ ideal \in Rows
        /\ new.role = ch.role /\ new.company = row[u].company /\ new.active = row[u].active
    BY <1>2, <2>1 DEF Rows, RowsOf
  <2>3. new # NULL /\ ideal # NULL
    BY <2>2, TablesAssumption
  <2>4. row[u] = asked[u] => new = ideal
    OBVIOUS
  <2>5. IsActiveAdmin(new) \/ u \notin ActiveAdmins \/ ch.role = "viewer"
    BY <1>2, <1>5, <2>2, <2>3 DEF ActiveAdmins, IsActiveAdmin, Roles
  <2> HIDE DEF new, ideal
  <2>6. \/ misled' \/ IsActiveAdmin(new) \/ u \notin ActiveAdmins
        \/ \E v \in ActiveAdmins : v # u
    BY <1>1, <1>5, <2>5, OtherOfAll
  <2>7. \/ row[u].company \notin Companies \ excused'
        \/ u \notin ActiveAdmins
        \/ IsActiveAdmin(new) /\ new.company = row[u].company
        \/ \E v \in AdminsOf(row[u].company) : v # u
    <3>1. CASE ~(since[p] = {} /\ ch.company = KEEP)
      BY <1>1, <1>5, <3>1, Excuse
    <3>2. CASE since[p] = {} /\ ch.role = "viewer"
      <4>1. excused \subseteq excused'
        BY <1>1, <1>5, <2>2, WriteFrame
      <4>2. Reduces(ch)
        BY <3>2 DEF Reduces
      <4>3. QED
        BY <1>1, <1>5, <3>2, <4>1, <4>2, OtherOfCompany
    <3>3. QED
      BY <2>2, <2>5, <3>1, <3>2
  <2>8. CASE Answer(p, "error")
    <3>1. /\ Goto(p, "done", Idle) /\ answer' = [answer EXCEPT ![p] = "error"] /\ Keeps(p)'
          /\ "done" \in Labels /\ Idle \in ReqType
      BY <1>1, <1>5, <2>2, <2>8, EndedKeeps
    <3>2. QED
      BY <1>1, <1>5, <2>2, <2>3, <2>4, <2>6, <2>7, <3>1, WriteKeeps DEF Writable
  <2>9. CASE Goto(p, "begin_update", req[p]) /\ UNCHANGED answer
    <3>1. /\ pc'[p] = "begin_update" /\ req'[p] = req[p] /\ answer'[p] = answer[p]
          /\ answer' = [answer EXCEPT ![p] = answer[p]]
      BY <2>9 DEF Goto, IInv, CallTypes
    <3>2. /\ wrote'[p] = wrote[p] \union {"role"} /\ since'[p] = since[p] /\ row'[u] = new
          /\ \A v \in Users \ {u} : row'[v] = row[v]
          /\ excused \subseteq excused' /\ (misled => misled')
      BY <1>1, <1>5, <2>2, WriteFrame
    <3>3. Holds(p)' /\ WroteInv(p)' /\ SeenInv(p)'
      BY <1>1, <1>2, <3>1, <3>2 DEF IInv, Keeps, Holds, WroteInv, SeenInv, Busies, Labels
    <3>4. AnswerTrue(p)' /\ ReadInv(p)' /\ IdsInv(p)'
      <4>1. ids' = ids \union {u} /\ answer[p] = NULL
        BY <1>1, <1>5, <2>2, WriteFrame DEF IInv, Keeps, AnswerTrue, CallTypes
      <4>2. QED
        BY <3>1, <3>2, <4>1, TablesAssumption DEF IInv, Keeps, AnswerTrue, ReadInv, IdsInv
    <3>5. CopyInv(p)'
      <4>1. SUFFICES ASSUME u \notin since[p]
                     PROVE  new # NULL /\ new = [req[p].copy EXCEPT !.role = new.role]
        BY <3>1, <3>2 DEF CopyInv
      <4>2. /\ req[p].copy \in Rows /\ row[u] = [req[p].copy EXCEPT !.role = row[u].role]
        BY <1>1, <4>1, CopyIsRow DEF Guarded
      <4>3. new = [req[p].copy EXCEPT !.role = new.role]
        BY <2>1, <4>2 DEF Rows, RowsOf, new
      <4>4. QED
        BY <2>3, <4>3
    <3>6. OtherInv(p)'
      <4>1. \A v \in ActiveAdmins : v # u => v \in ActiveAdmins'
        BY <3>2 DEF ActiveAdmins
      <4>2. \A c : \A v \in AdminsOf(c) : v # u => v \in AdminsOf(c)'
        BY <3>2, <4>1 DEF AdminsOf, ActiveAdmins
      <4>3. QED
        BY <1>1, <3>1, <3>2, <4>1, <4>2 DEF IInv, Keeps, OtherInv
    <3>7. Keeps(p)'
      BY <3>3, <3>4, <3>5, <3>6 DEF Keeps
    <3>8. "begin_update" \in Labels /\ req[p] \in ReqType
            /\ answer[p] \in {NULL, "ok", "refused", "error"}
      BY DEF Labels, IInv, CallTypes
    <3>9. Goto(p, "begin_update", req[p])
      BY <2>9
    <3>10. QED
      BY <1>1, <1>5, <2>2, <2>3, <2>4, <2>6, <2>7, <3>1, <3>7, <3>8, <3>9, WriteKeeps DEF Writable
  <2>10. QED
    BY <1>5, <2>8, <2>9
<1>6. QED
  BY <1>3, <1>4, <1>5 DEF SetRoles

LEMMA DeleteKeeps ==
  ASSUME IInv, NEW p \in Requests, Delete(p) PROVE IInv'
<1> DEFINE u == req[p].user
<1>1. pc[p] = "delete" /\ pc[p] \in Busies /\ pc[p] \in Guarded /\ Reduces(req[p].change)
  BY DEF Delete, Busies, Labels, Guarded, IInv, Keeps, Holds, Reduces
<1>2. u \in Users /\ wrote[p] = {}
  BY <1>1 DEF IInv, Keeps, Holds, WroteInv
<1>3. CASE LastOne(p)
  BY <1>1, <1>3, RefusedKeeps DEF Delete, NoWrite
<1>4. ASSUME NEW a \in {"refused", "error"}, NoWrite(p, a) PROVE IInv'
  BY <1>2, <1>4, EndKeeps DEF RefusalTrue
<1>5. ASSUME NEW a \in {"ok", "error"}, ~LastOne(p), row[u] # NULL,
             Write(p, "row", NULL, NULL, FALSE), Answer(p, a)
      PROVE  IInv'
  <2>1. misled' \/ u \notin ActiveAdmins \/ \E v \in ActiveAdmins : v # u
    BY <1>1, <1>5, OtherOfAll
  <2>2. \/ row[u].company \notin Companies \ excused'
        \/ \E v \in AdminsOf(row[u].company) : v # u
    <3>1. excused \subseteq excused'
      BY <1>1, <1>5, WriteFrame
    <3>2. QED
      BY <1>1, <1>5, <3>1, Excuse, OtherOfCompany
  <2>3. /\ Goto(p, "done", Idle) /\ answer' = [answer EXCEPT ![p] = a] /\ Keeps(p)'
        /\ "done" \in Labels /\ Idle \in ReqType
    BY <1>1, <1>5, EndedKeeps
  <2>4. QED
    BY <1>1, <1>5, <2>1, <2>2, <2>3, WriteKeeps DEF Writable
<1>6. QED
  BY <1>3, <1>4, <1>5 DEF Delete

LEMMA InsertKeeps ==
  ASSUME IInv, NEW p \in Requests, Insert(p) PROVE IInv'
<1> DEFINE u == req[p].user
           new == req[p].copy
<1>1. pc[p] = "insert" /\ pc[p] \in Busies
  BY DEF Insert, Busies, Labels
<1>2. u \in Users /\ new \in Rows
  BY <1>1 DEF IInv, Keeps, Holds
<1>3. CASE NoWrite(p, "error")
  BY <1>3, EndKeeps
<1>4. ASSUME NEW a \in {"ok", "error"}, u \notin ids,
             Write(p, "row", new, new, FALSE), Answer(p, a)
      PROVE  IInv'
  <2>4. row[u] = NULL
    BY <1>2, <1>4 DEF IInv, TablesInv
  <2>1. new # NULL
    BY <1>2, TablesAssumption
  <2>2. u \notin ActiveAdmins
    BY <2>4 DEF ActiveAdmins, IsActiveAdmin
  <2>3. /\ Goto(p, "done", Idle) /\ answer' = [answer EXCEPT ![p] = a] /\ Keeps(p)'
        /\ "done" \in Labels /\ Idle \in ReqType
    BY <1>1, <1>2, <1>4, EndedKeeps
  <2>5. QED
    BY <1>1, <1>2, <1>4, <2>1, <2>2, <2>3, <2>4, WriteKeeps DEF Writable
<1>5. QED
  BY <1>3, <1>4 DEF Insert

LEMMA OwnPasswordKeeps ==
  ASSUME IInv, NEW p \in Requests, OwnPassword(p) PROVE IInv'
<1> DEFINE u == req[p].user
           new == [row[u] EXCEPT !.password = p]
           ideal == [asked[u] EXCEPT !.password = p]
<1>1. pc[p] = "own" /\ pc[p] \in Busies
  BY DEF OwnPassword, Busies, Labels
<1>2. u \in Users
  BY <1>1 DEF IInv, Keeps, Holds
<1>3. CASE NoWrite(p, "error")
  BY <1>3, EndKeeps
<1>4. CASE row[u] = NULL /\ NoWrite(p, "ok")
  <2>1. u \in since[p]
    BY <1>1, <1>4 DEF IInv, Keeps, CopyInv
  <2>2. QED
    BY <1>4, <2>1, EndKeeps
<1>5. ASSUME NEW a \in {"ok", "error"}, row[u] # NULL,
             Write(p, "row", new, ideal, FALSE), Answer(p, a)
      PROVE  IInv'
  <2>1. row[u] \in Rows /\ asked[u] \in Rows
    BY <1>2, <1>5 DEF IInv, TableTypes, TablesInv
  <2>2. /\ new \in Rows /\ ideal \in Rows
        /\ new.role = row[u].role /\ new.company = row[u].company /\ new.active = row[u].active
    BY <1>2, <2>1 DEF Rows, RowsOf
  <2>3. new # NULL /\ ideal # NULL
    BY <2>2, TablesAssumption
  <2>4. row[u] = asked[u] => new = ideal
    OBVIOUS
  <2> HIDE DEF new, ideal
  <2>5. IsActiveAdmin(new) \/ u \notin ActiveAdmins
    BY <2>2, <2>3 DEF ActiveAdmins, IsActiveAdmin
  <2>6. /\ Goto(p, "done", Idle) /\ answer' = [answer EXCEPT ![p] = a] /\ Keeps(p)'
        /\ "done" \in Labels /\ Idle \in ReqType
    BY <1>1, <1>5, <2>2, EndedKeeps
  <2>7. QED
    BY <1>1, <1>5, <2>2, <2>3, <2>4, <2>5, <2>6, WriteKeeps DEF Writable
<1>6. QED
  BY <1>3, <1>4, <1>5 DEF OwnPassword

\* The update that its own guard refuses is outdated, or nobody was left before it.
LEMMA RefusedUpdate ==
  ASSUME IInv, NEW p \in Requests, pc[p] = "update", LastOne(p),
         ~Changed(req[p].copy, req[p].change, p).active, since[p] = {}
  PROVE  misled
<1> DEFINE u == req[p].user
           ch == req[p].change
<1>1. pc[p] \in Guarded /\ u \in Users /\ ch \in AllChanges /\ Locked(p) = ActiveAdmins
  BY DEF IInv, Keeps, Holds, SeenInv, Busies, Labels, Guarded
<1>2. row[u] \in Rows /\ row[u].active = req[p].copy.active /\ req[p].copy \in Rows
  BY <1>1, CopyIsRow
<1>3. u \in ActiveAdmins /\ row[u].active
  BY <1>1 DEF LastOne, ActiveAdmins, IsActiveAdmin
<1>4. ~Pick(ch.active, req[p].copy.active)
  BY <1>2 DEF Changed, Rows, RowsOf
<1>5. ch.active = FALSE
  BY <1>1, <1>2, <1>3, <1>4 DEF Pick, AllChanges
<1>6. Reduces(ch)
  BY <1>5 DEF Reduces
<1>7. SUFFICES ASSUME NEW v \in ActiveAdmins, v # u PROVE FALSE
  BY <1>1, <1>6 DEF IInv, Keeps, OtherInv
<1>8. Cardinality(ActiveAdmins) <= 1 /\ ActiveAdmins \in SUBSET Users
  BY <1>1 DEF LastOne, ActiveAdmins
<1>9. QED
  BY <1>3, <1>7, <1>8, NoMoreThanOne

LEMMA UpdateKeeps ==
  ASSUME IInv, NEW p \in Requests, Update(p) PROVE IInv'
<1> DEFINE u == req[p].user
           ch == req[p].change
           cd == Changed(req[p].copy, ch, p)
           new == [cd EXCEPT !.role = row[u].role]
           ideal == AskedOf(asked[u], ch, p)
<1>1. pc[p] = "update" /\ pc[p] \in Busies /\ pc[p] \in Guarded
  BY DEF Update, Busies, Labels, Guarded
<1>2. u \in Users /\ ch \in AllChanges /\ req[p].copy \in Rows /\ wrote[p] \in {{}, {"role"}}
  BY <1>1 DEF IInv, Keeps, Holds, WroteInv
<1>3. CASE ~cd.active /\ LastOne(p)
  <2>1. since[p] # {} \/ misled
    BY <1>1, <1>3, RefusedUpdate
  <2>2. NoWrite(p, "refused")
    BY <1>3 DEF Update
  <2>3. QED
    BY <1>2, <2>1, <2>2, EndKeeps DEF RefusalTrue
<1>4. ASSUME UNCHANGED <<row, history>>,
             \/ Answer(p, "error")
             \/ row[u] = NULL /\ Goto(p, "read_back", req[p]) /\ UNCHANGED answer
      PROVE  IInv'
  <2>1. CASE Answer(p, "error")
    BY <1>4, <2>1, EndKeeps DEF NoWrite
  <2>2. CASE row[u] = NULL /\ Goto(p, "read_back", req[p]) /\ UNCHANGED answer
    <3>1. UNCHANGED <<row, asked, wrote, since, clobbered, excused, misled, ids>>
      BY <1>4 DEF history
    <3>2. /\ pc'[p] = "read_back" /\ req'[p] = req[p] /\ answer'[p] = answer[p]
          /\ answer' = [answer EXCEPT ![p] = answer[p]]
      BY <2>2 DEF Goto, IInv, CallTypes
    <3>3. u \in since[p]
      BY <1>1, <2>2 DEF IInv, Keeps, CopyInv
    <3>4. Holds(p)' /\ CopyInv(p)' /\ OtherInv(p)' /\ SeenInv(p)' /\ WroteInv(p)'
      BY <1>1, <1>2, <3>1, <3>2 DEF IInv, Keeps, Holds, CopyInv, OtherInv, SeenInv, WroteInv,
         Guarded, Busies, Labels
    <3>5. ReadInv(p)' /\ IdsInv(p)' /\ AnswerTrue(p)'
      BY <1>1, <3>1, <3>2, <3>3 DEF IInv, Keeps, ReadInv, IdsInv, AnswerTrue, RefusalTrue, Gone
    <3>6. Keeps(p)'
      BY <3>4, <3>5 DEF Keeps
    <3>7. "read_back" \in Labels /\ req[p] \in ReqType
            /\ answer[p] \in {NULL, "ok", "refused", "error"}
      BY DEF Labels, IInv, CallTypes
    <3>8. QED
      BY <1>4, <2>2, <3>2, <3>6, <3>7, QuietKeeps
  <2>3. QED
    BY <1>4, <2>1, <2>2
<1>5. ASSUME ~(~cd.active /\ LastOne(p)), row[u] # NULL,
             Write(p, "row", new, ideal, TRUE),
             Answer(p, "error") \/ (Goto(p, "read_back", req[p]) /\ UNCHANGED answer)
      PROVE  IInv'
  <2>1. row[u] \in Rows /\ asked[u] \in Rows
    BY <1>2, <1>5 DEF IInv, TableTypes, TablesInv
  <2>2. /\ \A old \in Companies \union {NULL} : Pick(ch.company, old) \in Companies \union {NULL}
        /\ \A old \in BOOLEAN : Pick(ch.active, old) \in BOOLEAN
    BY <1>2 DEF AllChanges, Pick
  <2>3. /\ cd \in Rows /\ cd.company = Pick(ch.company, req[p].copy.company)
        /\ cd.active = Pick(ch.active, req[p].copy.active)
        /\ cd.password = (IF ch.password THEN p ELSE req[p].copy.password)
    BY <1>2, <2>2 DEF Changed, Rows, RowsOf
  <2>4. ideal \in Rows
    BY <2>1, <2>2 DEF AskedOf, Rows, RowsOf
  <2> HIDE DEF cd
  <2>5. /\ new \in Rows /\ new.role = row[u].role /\ new.company = cd.company
        /\ new.active = cd.active /\ new.password = cd.password
    BY <2>1, <2>3 DEF Rows, RowsOf
  <2>6. new # NULL /\ ideal # NULL
    BY <2>4, <2>5, TablesAssumption
  <2> HIDE DEF new
  <2>7. row[u] = asked[u] /\ u \notin clobbered' => new = ideal
    <3>1. SUFFICES ASSUME row[u] = asked[u], u \notin since[p] PROVE new = ideal
      BY <1>5 DEF Write
    <3>2. /\ row[u].company = req[p].copy.company /\ row[u].active = req[p].copy.active
          /\ row[u].password = req[p].copy.password
      BY <1>1, <3>1, CopyIsRow
    <3>3. new = [company |-> new.company, active |-> new.active, password |-> new.password,
                 role |-> new.role]
      BY <2>5 DEF Rows, RowsOf
    <3>4. QED
      BY <2>3, <2>5, <3>1, <3>2, <3>3 DEF AskedOf
  <2> HIDE DEF ideal
  <2>8. IsActiveAdmin(new) \/ u \notin ActiveAdmins \/ ~cd.active
    BY <2>5, <2>6 DEF ActiveAdmins, IsActiveAdmin
  <2>9. \/ misled' \/ IsActiveAdmin(new) \/ u \notin ActiveAdmins
        \/ \E v \in ActiveAdmins : v # u
    BY <1>1, <1>5, <2>8, OtherOfAll
  <2>10. \/ row[u].company \notin Companies \ excused'
         \/ u \notin ActiveAdmins
         \/ IsActiveAdmin(new) /\ new.company = row[u].company
         \/ \E v \in AdminsOf(row[u].company) : v # u
    <3>1. CASE ~(since[p] = {} /\ ch.company = KEEP)
      BY <1>1, <1>5, <3>1, Excuse
    <3>2. CASE since[p] = {} /\ Reduces(ch)
      <4>1. excused \subseteq excused'
        BY <1>1, <1>5, <2>4, <2>5, WriteFrame
      <4>2. QED
        BY <1>1, <1>5, <3>2, <4>1, OtherOfCompany
    <3>3. CASE since[p] = {} /\ ch.company = KEEP /\ ~Reduces(ch)
      <4>1. /\ row[u].company = req[p].copy.company /\ row[u].active = req[p].copy.active
        BY <1>1, <3>3, CopyIsRow
      <4>2. new.company = row[u].company
        BY <2>3, <2>5, <3>3, <4>1 DEF Pick
      <4>3. cd.active \/ ~row[u].active
        BY <1>2, <2>3, <3>3, <4>1 DEF Pick, Reduces, AllChanges
      <4>4. QED
        BY <2>8, <4>2, <4>3 DEF ActiveAdmins, IsActiveAdmin
    <3>4. QED
      BY <3>1, <3>2, <3>3
  <2>11. CASE Answer(p, "error")
    <3>1. /\ Goto(p, "done", Idle) /\ answer' = [answer EXCEPT ![p] = "error"] /\ Keeps(p)'
          /\ "done" \in Labels /\ Idle \in ReqType
      BY <1>1, <1>5, <2>4, <2>5, <2>11, EndedKeeps
    <3>2. QED
      BY <1>1, <1>5, <2>4, <2>5, <2>6, <2>7, <2>9, <2>10, <3>1, WriteKeeps DEF Writable
  <2>12. CASE Goto(p, "read_back", req[p]) /\ UNCHANGED answer
    <3>1. /\ pc'[p] = "read_back" /\ req'[p] = req[p] /\ answer'[p] = answer[p]
          /\ answer' = [answer EXCEPT ![p] = answer[p]]
      BY <2>12 DEF Goto, IInv, CallTypes
    <3>2. /\ wrote'[p] = wrote[p] \union {"row"} /\ since'[p] = since[p] /\ row'[u] = new
          /\ ids' = ids \union {u}
      BY <1>1, <1>5, <2>4, <2>5, WriteFrame
    <3>3. Holds(p)' /\ CopyInv(p)' /\ OtherInv(p)' /\ SeenInv(p)' /\ WroteInv(p)'
      BY <1>1, <1>2, <3>1 DEF IInv, Keeps, Holds, CopyInv, OtherInv, SeenInv, WroteInv,
         Guarded, Busies, Labels
    <3>4. ReadInv(p)' /\ IdsInv(p)'
      BY <2>6, <3>1, <3>2 DEF IInv, Keeps, ReadInv, IdsInv
    <3>5. AnswerTrue(p)'
      <4>1. answer[p] = NULL
        BY <1>1 DEF IInv, Keeps, AnswerTrue, CallTypes
      <4>2. QED
        BY <3>1, <4>1, TablesAssumption DEF AnswerTrue
    <3>6. Keeps(p)'
      BY <3>3, <3>4, <3>5 DEF Keeps
    <3>7. "read_back" \in Labels /\ req[p] \in ReqType
            /\ answer[p] \in {NULL, "ok", "refused", "error"}
      BY DEF Labels, IInv, CallTypes
    <3>8. Goto(p, "read_back", req[p])
      BY <2>12
    <3>9. QED
      BY <1>1, <1>5, <2>4, <2>5, <2>6, <2>7, <2>9, <2>10, <3>1, <3>6, <3>7, <3>8, WriteKeeps
         DEF Writable
  <2>13. QED
    BY <1>5, <2>11, <2>12
<1>6. QED
  BY <1>3, <1>4, <1>5 DEF Update

\* Reading back finds what was written, unless another request has deleted the user.
LEMMA ReadBackKeeps ==
  ASSUME IInv, NEW p \in Requests, ReadBack(p) PROVE IInv'
<1>1. pc[p] = "read_back" /\ UNCHANGED <<row, history>>
  BY DEF ReadBack
<1>2. /\ "row" \in wrote[p] \/ req[p].user \in since[p]
      /\ req[p].user \notin since[p] => row[req[p].user] # NULL
      /\ wrote[p] \subseteq {"role", "row"}
  BY <1>1 DEF IInv, Keeps, ReadInv, CallTypes
<1>3. CASE row[req[p].user] = NULL
  <2>1. Answer(p, "refused") /\ req[p].user \in since[p]
    BY <1>2, <1>3 DEF ReadBack
  <2>2. RefusalTrue(p)
    BY <1>2, <1>3, <2>1 DEF RefusalTrue, Gone
  <2>3. QED
    BY <1>1, <2>1, <2>2, EndKeeps DEF NoWrite
<1>4. CASE row[req[p].user] # NULL
  <2>1. Answer(p, "ok") /\ ("row" \in wrote[p] \/ since[p] # {})
    BY <1>2, <1>4 DEF ReadBack
  <2>2. QED
    BY <1>1, <2>1, EndKeeps DEF NoWrite
<1>5. QED
  BY <1>3, <1>4

(***************************************************************************)
(* The inductive invariant holds.                                          *)
(***************************************************************************)
LEMMA InvInit == Init => IInv
<1> SUFFICES ASSUME Init PROVE IInv
  OBVIOUS
<1>1. row \in [Users -> Rows \union {NULL}] /\ asked = row
  BY TablesAssumption DEF Init, Rows, RowsOf
<1>2. TableTypes
  BY <1>1 DEF Init, TableTypes
<1>3. CallTypes
  BY IdleType DEF Init, CallTypes, Labels
<1>4. \E u \in Users : IsActiveAdmin(row[u])
  BY AdminAssumption DEF Init
<1>5. TablesInv
  BY <1>1, <1>4 DEF Init, TablesInv, SomeActiveAdmin, CompanyKeepsAdmin, RowsAsAsked, ActiveAdmins
<1>6. ASSUME NEW p \in Requests PROVE Keeps(p)
  <2>1. pc[p] = "new" /\ req[p] = Idle /\ answer[p] = NULL /\ wrote[p] = {}
    BY DEF Init
  <2>3. since[p] = {}
    BY DEF Init
  <2>2. QED
    BY <2>1, <2>3, TablesAssumption DEF Keeps, Holds, CopyInv, OtherInv, SeenInv, WroteInv,
       ReadInv, IdsInv, AnswerTrue, Guarded, Busies
<1>7. QED
  BY <1>2, <1>3, <1>5, <1>6 DEF IInv

LEMMA StutterKeeps == IInv /\ UNCHANGED vars => IInv'
<1> SUFFICES ASSUME IInv, UNCHANGED vars PROVE IInv'
  OBVIOUS
<1>1. UNCHANGED <<row, pc, req, answer, asked, wrote, since, clobbered, excused, misled, ids>>
  BY DEF vars, history
<1>2. ActiveAdmins' = ActiveAdmins /\ \A c : AdminsOf(c)' = AdminsOf(c)
  BY <1>1 DEF ActiveAdmins, AdminsOf
<1>3. TableTypes' /\ CallTypes' /\ TablesInv'
  BY <1>1, <1>2 DEF IInv, TableTypes, CallTypes, TablesInv, SomeActiveAdmin,
     CompanyKeepsAdmin, RowsAsAsked
<1>4. ASSUME NEW p \in Requests PROVE Keeps(p)'
  <2>1. Locked(p)' = Locked(p)
    BY <1>1 DEF Locked
  <2>2. QED
    BY <1>1, <1>2, <2>1 DEF IInv, Keeps, Holds, CopyInv, OtherInv, SeenInv, WroteInv,
       ReadInv, IdsInv, AnswerTrue, RefusalTrue, Gone
<1>5. QED
  BY <1>3, <1>4 DEF IInv

LEMMA InvInductive == IInv /\ [Next]_vars => IInv'
<1> SUFFICES ASSUME IInv, [Next]_vars PROVE IInv'
  OBVIOUS
<1>1. ASSUME NEW p \in Requests,
             UpdateUser(p) \/ DeleteUser(p) \/ CreateUser(p) \/ ChangeOwn(p)
      PROVE  IInv'
  BY <1>1, UpdateUserKeeps, DeleteUserKeeps, CreateUserKeeps, ChangeOwnKeeps
<1>2. ASSUME NEW p \in Requests, Guard(p) \/ Begin(p) \/ ReadFails(p) PROVE IInv'
  BY <1>2, GuardKeeps, BeginKeeps, ReadFailsKeeps
<1>3. ASSUME NEW p \in Requests,
             \/ SetRoles(p) \/ Update(p) \/ ReadBack(p)
             \/ Delete(p) \/ Insert(p) \/ OwnPassword(p)
      PROVE  IInv'
  BY <1>3, SetRolesKeeps, UpdateKeeps, ReadBackKeeps, DeleteKeeps, InsertKeeps, OwnPasswordKeeps
<1>4. QED
  BY <1>1, <1>2, <1>3, StutterKeeps DEF Next

LEMMA InvAlways == Spec => []IInv
BY InvInit, InvInductive, PTL DEF Spec

(***************************************************************************)
(* The properties of UserAdmin, for every table to start from.             *)
(***************************************************************************)

\* A request holds a row and a change only while it lasts: TypeOK of UserAdmin.
THEOREM UserTypes == Spec => []TypeOK
<1>1. IInv => TypeOK
  <2> SUFFICES ASSUME IInv PROVE TypeOK
    OBVIOUS
  <2>1. ASSUME NEW p \in Requests
        PROVE  /\ req[p].user \in Users \union {NULL} /\ req[p].seen \subseteq Users
               /\ req[p] = Idle <=> pc[p] \in {"new", "done"}
    <3>1. req[p] \in ReqType /\ pc[p] \in Labels /\ Holds(p)
      BY DEF IInv, CallTypes, Keeps
    <3>2. Idle.user \notin Users
      BY TablesAssumption DEF Idle
    <3>3. QED
      BY <3>1, <3>2 DEF Holds, ReqType, Labels, Busies
  <2>2. QED
    BY <2>1 DEF IInv, TableTypes, CallTypes, TypeOK, Labels
<1>2. QED
  BY <1>1, InvAlways, PTL

\* The guard under the lock leaves an active administrator in the system, unless
\* it judged by roles of the past: SomeActiveAdmin of UserAdmin.
THEOREM SomeActiveAdminTheorem == Spec => []SomeActiveAdmin
<1>1. IInv => SomeActiveAdmin
  BY DEF IInv, TablesInv
<1>2. QED
  BY <1>1, InvAlways, PTL

\* A company loses its last active administrator only to a request that another
\* one has outrun, or to a move by the platform: CompanyKeepsAdmin of UserAdmin.
THEOREM CompanyTheorem == Spec => []CompanyKeepsAdmin
<1>1. IInv => CompanyKeepsAdmin
  BY DEF IInv, TablesInv
<1>2. QED
  BY <1>1, InvAlways, PTL

\* What the requests were told to write is what the table holds, except for users
\* written back whole from an outdated copy: RowsAsAsked of UserAdmin.
THEOREM RowsTheorem == Spec => []RowsAsAsked
<1>1. IInv => RowsAsAsked
  BY DEF IInv, TablesInv
<1>2. QED
  BY <1>1, InvAlways, PTL

\* Success means written and refusal means untouched, unless another request came
\* between, as a deletion may between the commit of an update and its reading back:
\* AnswersTrue of UserAdmin.
THEOREM AnswersTheorem == Spec => []AnswersTrue
<1>1. IInv => AnswersTrue
  BY DEF IInv, Keeps, AnswerTrue, RefusalTrue, Gone, AnswersTrue
<1>2. QED
  BY <1>1, InvAlways, PTL
===========================================================================
