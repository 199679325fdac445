---------------------------- MODULE MCUserAdmin ----------------------------
(***************************************************************************)
(* Instances of UserAdmin for TLC.                                         *)
(***************************************************************************)
EXTENDS UserAdmin, TLC

CONSTANTS u1, u2, u3

Asks(kind, role, active, company, password) ==
  [kind |-> kind, role |-> role, active |-> active, company |-> company,
   password |-> password]

\* Every route of the users blueprint that writes, and updates of several fields.
MCChanges ==
  { Asks("update", KEEP, FALSE, KEEP, FALSE),     \* deactivate
    Asks("update", KEEP, TRUE, KEEP, FALSE),      \* activate
    Asks("update", KEEP, KEEP, KEEP, TRUE),       \* new password
    Asks("update", "viewer", KEEP, KEEP, FALSE),  \* demote
    Asks("update", "admin", FALSE, KEEP, FALSE),  \* promote and deactivate
    Asks("update", KEEP, KEEP, "c2", FALSE),      \* move
    Asks("update", KEEP, KEEP, NULL, FALSE),      \* move to the platform
    Asks("delete", KEEP, KEEP, KEEP, FALSE),
    Asks("create", "admin", KEEP, KEEP, FALSE),
    Asks("own", KEEP, KEEP, KEEP, TRUE) }

Person(company, active, role) ==
  [company |-> company, active |-> active, password |-> "first", role |-> role]

\* Two administrators of one company, and room for a third user.
MCInitRows ==
  { [u \in Users |-> IF u = u3 THEN NULL ELSE Person("c1", TRUE, "admin")] }

\* The first two users are alike at the start.
Symmetry == Permutations(Requests) \union Permutations({u1, u2})
=============================================================================
