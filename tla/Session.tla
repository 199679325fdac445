------------------------------ MODULE Session ------------------------------
(***************************************************************************)
(* The browser's session: the token pair in localStorage, shared by every  *)
(* API call of every tab, and the server that issues and revokes tokens.   *)
(*                                                                         *)
(* A call is api.request of client.js: it sends what it reads from storage *)
(* and, answered 401, refreshes the pair and tries once more.  Between any *)
(* two awaits other calls read and write the same storage.  On the server  *)
(* a refresh checks the token and then the user, and a logout revokes two  *)
(* tokens in two transactions.                                             *)
(*                                                                         *)
(* Session s stands for one login and its refresh token, <<s, 0>> in the   *)
(* blocklist; <<s, k>> is the k-th access token issued for it.           *)
(* The blocklist in a worker's memory is left out: all it holds is in the  *)
(* table as well.  What one tab does between two awaits is a step.         *)
(***************************************************************************)
EXTENDS Naturals

CONSTANTS
  Calls,      \* bound: each is one call of the API
  Kinds,      \* Kinds[c]: what c may be about
  Mishaps,    \* bound: failures, expiries, deactivations, revocations elsewhere
  MaxIssued,  \* bound: access tokens issued for a session
  NULL

ASSUME KindsAssumption ==
  /\ Kinds \in [Calls -> SUBSET {"data", "password", "login", "logout"}]
  /\ Mishaps \in Nat /\ MaxIssued \in Nat
ASSUME NullAssumption ==
  NULL \notin Nat /\ NULL \notin Nat \X Nat
  /\ NULL \notin {"data", "password", "login", "logout"}

VARIABLES
  access, refresh,  \* localStorage: the token pair
  issued,           \* issued[s]: access tokens issued for session s; 0: no login yet
  expired,          \* access tokens past their hour
  revoked,          \* table refresh_token_blocklist
  active,           \* whether the account is active
  mishaps,          \* mishaps so far
  pc, kind,         \* pc[c], kind[c]: next step and subject of call c
  token,            \* token[c]: the access token c was sent with
  body,             \* body[c]: the refresh token in the body of a logout
  proof,            \* proof[c]: the refresh token c refreshes with
  result,           \* result[c]: the answer on its way to c
  granted,          \* granted[c]: the access token in that answer
  retried,          \* retried[c]: whether c is past its refresh
  owner,            \* history: the session the user is in, as the pages have it
  overwritten,      \* history: a refresh has answered into another session
  trouble,          \* history: trouble[c]: a fault or the rate limiter met c's refresh
  closed, tail      \* history: sessions logged out; refreshes they then passed by

storage == <<access, refresh>>
server  == <<issued, expired, revoked, active, mishaps>>
calls   == <<pc, kind, token, body, proof, result, granted, retried>>
past    == <<owner, overwritten, trouble, closed, tail>>
vars    == <<storage, server, calls, past>>

Sessions == DOMAIN issued
Tokens   == UNION {{s} \X (1..issued[s]) : s \in Sessions}

\* Signed in as session 1; a login for each call is left.
Init ==
  /\ access = <<1, 1>> /\ refresh = 1 /\ owner = 1
  /\ issued = [s \in 1..4 |-> IF s = 1 THEN 1 ELSE 0]
  /\ expired = {} /\ revoked = {} /\ active = TRUE /\ mishaps = 0
  /\ pc = [c \in Calls |-> "new"]
  /\ kind = [c \in Calls |-> NULL]
  /\ token = [c \in Calls |-> NULL]
  /\ body = [c \in Calls |-> NULL]
  /\ proof = [c \in Calls |-> NULL]
  /\ result = [c \in Calls |-> NULL]
  /\ granted = [c \in Calls |-> NULL]
  /\ retried = [c \in Calls |-> FALSE]
  /\ overwritten = FALSE
  /\ trouble = [c \in Calls |-> FALSE]
  /\ closed = {}
  /\ tail = {}

Goto(c, label) == pc' = [pc EXCEPT ![c] = label]

Clear == access' = NULL /\ refresh' = NULL /\ owner' = NULL
Store(a, r) == access' = a /\ refresh' = r
Keep  == UNCHANGED <<storage, owner>>

(***************************************************************************)
(* The client                                                              *)
(***************************************************************************)

\* A page makes a call; the login page may be an old one of another tab.
Call(c, k) ==
  /\ pc[c] = "new"
  /\ Goto(c, "sent")
  /\ kind' = [kind EXCEPT ![c] = k]
  /\ token' = [token EXCEPT ![c] = access]
  /\ body' = [body EXCEPT ![c] = IF k = "logout" THEN refresh ELSE NULL]
  /\ UNCHANGED <<storage, server, proof, result, granted, retried, owner, overwritten,
                 trouble, closed, tail>>

\* The call is over: its promise is settled and what it held forgotten.
Finish(c) ==
  /\ Goto(c, "done")
  /\ kind' = [kind EXCEPT ![c] = NULL]
  /\ token' = [token EXCEPT ![c] = NULL]
  /\ body' = [body EXCEPT ![c] = NULL]
  /\ proof' = [proof EXCEPT ![c] = NULL]
  /\ result' = [result EXCEPT ![c] = NULL]
  /\ granted' = [granted EXCEPT ![c] = NULL]
  /\ retried' = [retried EXCEPT ![c] = FALSE]
  /\ trouble' = [trouble EXCEPT ![c] = FALSE]
  /\ UNCHANGED <<server, overwritten, closed, tail>>

\* However the logout request went, the user is signed out locally.
Settle(c) == Finish(c) /\ IF kind[c] = "logout" THEN Clear ELSE Keep

\* handleAuthFailure: the storage is cleared, whosever tokens it holds by now.
AuthFailure(c) == Finish(c) /\ Clear

\* Fault: a sign-in keeps the refresh token that is there.
SignedInKeeping(c) ==
  /\ pc[c] = "back" /\ kind[c] = "login" /\ result[c] = "token"
  /\ Store(granted[c], IF refresh = NULL THEN granted[c][1] ELSE refresh)
  /\ owner' = granted[c][1]
  /\ Finish(c)

SignedIn(c) ==
  /\ pc[c] = "back" /\ kind[c] = "login" /\ result[c] = "token"
  /\ Store(granted[c], granted[c][1])
  /\ owner' = granted[c][1]
  /\ Finish(c)

Settled(c) ==
  /\ pc[c] = "back"
  /\ \/ result[c] \in {"ok", "error"}
     \/ result[c] = "unauthorized" /\ token[c] = NULL /\ ~retried[c]
     \/ result[c] = "unauthorized" /\ ~retried[c] /\ refresh = NULL
  /\ Settle(c)

\* Fault: any 401 ends the session.
UnauthorizedAtOnce(c) ==
  /\ pc[c] = "back"
  /\ result[c] = "unauthorized"
  /\ AuthFailure(c)

\* A 401 to the retried request: the session cannot continue.
Unauthorized(c) ==
  /\ pc[c] = "back"
  /\ result[c] = "unauthorized" /\ retried[c]
  /\ AuthFailure(c)

\* Fault: a refresh without a refresh token.
RefreshAnyway(c) ==
  /\ pc[c] = "back"
  /\ result[c] = "unauthorized" /\ ~retried[c] /\ token[c] # NULL
  /\ Goto(c, "refresh_sent")
  /\ proof' = [proof EXCEPT ![c] = refresh]
  /\ result' = [result EXCEPT ![c] = NULL]
  /\ UNCHANGED <<storage, server, kind, token, body, granted, retried, past>>

\* The first 401 of a request that carried an access token.
Refresh(c) ==
  /\ pc[c] = "back"
  /\ result[c] = "unauthorized" /\ ~retried[c] /\ token[c] # NULL
  /\ refresh # NULL
  /\ Goto(c, "refresh_sent")
  /\ proof' = [proof EXCEPT ![c] = refresh]
  /\ result' = [result EXCEPT ![c] = NULL]
  /\ UNCHANGED <<storage, server, kind, token, body, granted, retried, past>>

\* Any answer but a token ends the session, a failed connection as well.
RefreshFailed(c) ==
  /\ pc[c] = "refresh_back"
  /\ result[c] # "token"
  /\ AuthFailure(c)

\* The pair is written back, whatever has become of the storage meanwhile.
Refreshed(c) ==
  /\ pc[c] = "refresh_back"
  /\ result[c] = "token"
  /\ Store(granted[c], proof[c])
  /\ overwritten' = (overwritten \/ refresh # proof[c])
  /\ Goto(c, "retry")
  /\ result' = [result EXCEPT ![c] = NULL]
  /\ granted' = [granted EXCEPT ![c] = NULL]
  /\ UNCHANGED <<server, kind, token, body, proof, retried, owner, trouble, closed,
                 tail>>

\* The request again, with the access token there is now; it may be null.
Retry(c) ==
  /\ pc[c] = "retry"
  /\ token' = [token EXCEPT ![c] = access]
  /\ retried' = [retried EXCEPT ![c] = TRUE]
  /\ Goto(c, "sent")
  /\ UNCHANGED <<storage, server, kind, body, proof, result, granted, past>>

(***************************************************************************)
(* The server                                                              *)
(***************************************************************************)

IsBlocklisted(t) == t \in revoked

\* @jwt_required with the blocklist loader; the account is not looked at.
Valid(t) == t # NULL /\ t \notin expired /\ ~IsBlocklisted(t)

Answer(c, label, r) ==
  /\ Goto(c, label)
  /\ result' = [result EXCEPT ![c] = r]
  /\ UNCHANGED granted
Grant(c, label, t) ==
  /\ Goto(c, label)
  /\ result' = [result EXCEPT ![c] = "token"]
  /\ granted' = [granted EXCEPT ![c] = t]
OnServer == UNCHANGED <<storage, kind, token, body, proof, retried, owner, overwritten>>

\* A new current password is refused as unauthorized too, when the old is wrong.
Serve(c) ==
  /\ pc[c] = "sent"
  /\ kind[c] \in {"data", "password"}
  /\ \E r \in {"ok", "unauthorized"} :
       /\ r = "ok" => Valid(token[c])
       /\ r = "unauthorized" => ~Valid(token[c]) \/ kind[c] = "password"
       /\ Answer(c, "back", r)
  /\ OnServer /\ UNCHANGED <<server, trouble, closed, tail>>

ServeLogin(c) ==
  /\ pc[c] = "sent"
  /\ kind[c] = "login"
  /\ \/ /\ Answer(c, "back", "unauthorized")
        /\ UNCHANGED issued
     \/ /\ active
        /\ \E s \in Sessions :
             /\ issued[s] = 0
             /\ \A r \in Sessions : r < s => issued[r] > 0
             /\ issued' = [issued EXCEPT ![s] = 1]
             /\ Grant(c, "back", <<s, 1>>)
  /\ OnServer /\ UNCHANGED <<expired, revoked, active, mishaps, trouble, closed, tail>>

Mishap == mishaps < Mishaps /\ mishaps' = mishaps + 1

\* The insert of a token into the blocklist may fail, with or without effect.
Blocks(t, answered) ==
  \E applied, acked \in BOOLEAN :
    /\ acked => applied
    /\ IF acked THEN UNCHANGED mishaps ELSE Mishap
    /\ revoked' = IF applied THEN revoked \union t ELSE revoked
    /\ answered = acked

ServeLogout(c) ==
  /\ pc[c] = "sent"
  /\ kind[c] = "logout"
  /\ IF Valid(token[c])
       THEN \/ Blocks({token[c]}, TRUE) /\ Goto(c, "revoking") /\ UNCHANGED <<result, granted>>
            \/ Blocks({token[c]}, FALSE) /\ Answer(c, "back", "error")
       ELSE Answer(c, "back", "unauthorized") /\ UNCHANGED <<revoked, mishaps>>
  /\ OnServer /\ UNCHANGED <<issued, expired, active, trouble, closed, tail>>

\* Fault: the second insert is left to the expiry of the refresh token.
RevokeAccessOnly(c) ==
  /\ pc[c] = "revoking"
  /\ Answer(c, "back", "ok")
  /\ closed' = closed \union ({body[c]} \ {NULL})
  /\ tail' = tail \union {d \in Calls : pc[d] = "issuing" /\ proof[d] = body[c]}
  /\ OnServer /\ UNCHANGED <<server, trouble>>

\* The second transaction of a logout, for the refresh token in its body.
RevokeRefresh(c) ==
  /\ pc[c] = "revoking"
  /\ LET t == {body[c]} \ {NULL}
         blocked == {<<s, 0>> : s \in t}
     IN
     \/ /\ Blocks(blocked, TRUE)
        /\ Answer(c, "back", "ok")
        /\ closed' = closed \union t
        /\ tail' = tail \union {d \in Calls : pc[d] = "issuing" /\ proof[d] = body[c]}
     \/ /\ Blocks(blocked, FALSE)
        /\ Answer(c, "back", "error")
        /\ UNCHANGED <<closed, tail>>
  /\ OnServer /\ UNCHANGED <<issued, expired, active, trouble>>

\* refresh_tokens looks the token up in the blocklist ...
CheckRefresh(c) ==
  /\ pc[c] = "refresh_sent"
  /\ IF IsBlocklisted(<<proof[c], 0>>)
       THEN Answer(c, "refresh_back", "unauthorized")
       ELSE Goto(c, "issuing") /\ UNCHANGED <<result, granted>>
  /\ OnServer /\ UNCHANGED <<server, trouble, closed, tail>>

\* ... and then, by itself, the user; and issues an access token.
Issue(c) ==
  /\ pc[c] = "issuing"
  /\ issued[proof[c]] < MaxIssued
  /\ LET s == proof[c] IN
     IF active
       THEN /\ issued' = [issued EXCEPT ![s] = @ + 1]
            /\ Grant(c, "refresh_back", <<s, issued[s] + 1>>)
       ELSE Answer(c, "refresh_back", "unauthorized") /\ UNCHANGED issued
  /\ tail' = tail \ {c}
  /\ OnServer /\ UNCHANGED <<expired, revoked, active, mishaps, trouble, closed>>

(***************************************************************************)
(* The environment                                                         *)
(***************************************************************************)

\* A request or its answer is lost, or the rate limiter refuses it.
Fail(c) ==
  /\ Mishap
  /\ pc[c] \in {"sent", "back", "refresh_sent", "refresh_back"}
  /\ result[c] # "error"
  /\ LET refreshing == pc[c] \in {"refresh_sent", "refresh_back"} IN
     /\ Answer(c, IF refreshing THEN "refresh_back" ELSE "back", "error")
     /\ trouble' = [trouble EXCEPT ![c] = @ \/ refreshing]
  /\ OnServer /\ UNCHANGED <<issued, expired, revoked, active, closed, tail>>

\* An hour passes over a token that somebody holds.
Expire(t) ==
  /\ Mishap
  /\ t \notin expired
  /\ t = access \/ \E c \in Calls : t \in {token[c], granted[c]}
  /\ expired' = expired \union {t}
  /\ UNCHANGED <<storage, issued, revoked, active, calls, past>>

(***************************************************************************)
(* /logout-refresh, of which the pages make no use: another client with a  *)
(* valid access token revokes the refresh token of a session it knows.     *)
(***************************************************************************)
LogoutRefresh(s) ==
  /\ Mishap
  /\ issued[s] > 0 /\ \E t \in Tokens : Valid(t)
  /\ revoked' = revoked \union {<<s, 0>>}
  /\ closed' = closed \union {s}
  /\ tail' = tail \union {d \in Calls : pc[d] = "issuing" /\ proof[d] = s}
  /\ UNCHANGED <<storage, issued, expired, active, calls, owner, overwritten, trouble>>

\* An administrator deactivates the account.
Deactivate ==
  /\ Mishap
  /\ active
  /\ active' = FALSE
  /\ UNCHANGED <<storage, issued, expired, revoked, calls, past>>

\* A download takes the same steps as a request.
Client(c) ==
  SignedIn(c) \/ Settled(c) \/ Unauthorized(c) \/ Refresh(c) \/ RefreshFailed(c)
    \/ Refreshed(c) \/ Retry(c)
Server(c) ==
  Serve(c) \/ ServeLogin(c) \/ ServeLogout(c) \/ RevokeRefresh(c) \/ CheckRefresh(c)
    \/ Issue(c)

\* Every call has been settled.
Done == (\A c \in Calls : pc[c] = "done") /\ UNCHANGED vars

Next ==
  \/ \E c \in Calls : (\E k \in Kinds[c] : Call(c, k)) \/ Client(c) \/ Server(c) \/ Fail(c)
  \/ \E t \in Tokens : Expire(t)
  \/ \E s \in Sessions : LogoutRefresh(s)
  \/ Deactivate
  \/ Done

Spec == Init /\ [][Next]_vars

(***************************************************************************)
(* Properties                                                              *)
(***************************************************************************)

\* The variables keep their types; a call holds something only while it lasts.
TypeOK ==
  /\ access \in Tokens \union {NULL}
  /\ refresh \in Sessions \union {NULL}
  /\ owner \in Sessions \union {NULL}
  /\ issued \in [Sessions -> Nat]
  /\ expired \subseteq Tokens
  /\ revoked \subseteq Tokens \union (Sessions \X {0})
  /\ \A c \in Calls :
       /\ pc[c] \in {"new", "sent", "revoking", "back", "refresh_sent", "issuing",
                     "refresh_back", "retry", "done"}
       /\ kind[c] = NULL <=> pc[c] \in {"new", "done"}
       /\ token[c] \in Tokens \union {NULL}
       /\ body[c] \in Sessions \union {NULL} /\ proof[c] \in Sessions \union {NULL}
       /\ pc[c] \in {"refresh_sent", "issuing", "refresh_back", "retry"} => proof[c] # NULL
  /\ closed \subseteq Sessions /\ tail \subseteq Calls

(***************************************************************************)
(* Whatever calls and tabs cross, the two tokens in storage are of one     *)
(* session, and this is the session the pages show, unless a refresh of an *)
(* earlier one answered into it: then a signed-out user is signed in again *)
(* or the next user's tokens are replaced by those of the one before.      *)
(***************************************************************************)
StorageIsOneSession ==
  /\ access = NULL <=> refresh = NULL
  /\ access # NULL => access[1] = refresh
  /\ refresh = owner \/ overwritten

(***************************************************************************)
(* After a logout was answered, its session gets no further access token,  *)
(* but from refreshes that had looked into the blocklist before.           *)
(***************************************************************************)
LogoutIsFinal ==
  [][\A s \in closed :
       issued'[s] # issued[s] => \E c \in tail : proof[c] = s /\ pc'[c] # pc[c]]_vars

(***************************************************************************)
(* A session in storage is ended by a call only if it is over (logged out, *)
(* the account inactive), its refresh met a fault, the call was about a    *)
(* wrong password, it was sent again with a void token or with none (the   *)
(* storage cleared under it), or it had refreshed another session than the *)
(* one that it ends.                                                       *)
(***************************************************************************)
EndedForCause ==
  [][\A c \in Calls :
       refresh # NULL /\ refresh' = NULL /\ pc'[c] # pc[c] /\ kind[c] # "logout" =>
         \/ <<refresh, 0>> \in revoked \/ ~active
         \/ trouble[c]
         \/ kind[c] \in {"login", "password"}
         \/ retried[c] /\ ~Valid(token[c])
         \/ proof[c] \notin {NULL, refresh}]_vars
=============================================================================
