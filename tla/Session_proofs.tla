-------------------------- MODULE Session_proofs --------------------------
(***************************************************************************)
(* Proofs about Session, for any calls of any kinds, and any number of     *)
(* faults, expiries, revocations and access tokens.                        *)
(***************************************************************************)
EXTENDS Session, TLAPS

(***************************************************************************)
(* TypeOK with the domains of its functions and the types of what it       *)
(* leaves out.                                                             *)
(***************************************************************************)
Labels == {"new", "sent", "revoking", "back", "refresh_sent", "issuing",
           "refresh_back", "retry", "done"}

CallTypes ==
  /\ pc \in [Calls -> Labels]
  /\ kind \in [Calls -> {"data", "password", "login", "logout", NULL}]
  /\ token \in [Calls -> Tokens \union {NULL}]
  /\ body \in [Calls -> Sessions \union {NULL}]
  /\ proof \in [Calls -> Sessions \union {NULL}]
  /\ result \in [Calls -> {"ok", "unauthorized", "error", "token", NULL}]
  /\ granted \in [Calls -> Tokens \union {NULL}]
  /\ retried \in [Calls -> BOOLEAN]
  /\ trouble \in [Calls -> BOOLEAN]

ServerTypes ==
  /\ issued \in [1..4 -> Nat]
  /\ expired \subseteq Tokens
  /\ revoked \subseteq Tokens \union (Sessions \X {0})
  /\ closed \subseteq Sessions /\ tail \subseteq Calls
  /\ active \in BOOLEAN

StorageTypes ==
  /\ access \in Tokens \union {NULL}
  /\ refresh \in Sessions \union {NULL}
  /\ owner \in Sessions \union {NULL}

(***************************************************************************)
(* What a call holds at each step: a kind while it lasts, a refresh token  *)
(* while it refreshes, and with an answer of "token" the token it grants,  *)
(* which is one of the session it was asked for.                           *)
(***************************************************************************)
HoldsInv ==
  \A c \in Calls :
    /\ kind[c] = NULL <=> pc[c] \in {"new", "done"}
    /\ pc[c] \in {"refresh_sent", "issuing", "refresh_back", "retry"} => proof[c] # NULL
    /\ pc[c] \in {"back", "refresh_back"} /\ result[c] = "token" => granted[c] \in Tokens
    /\ pc[c] = "refresh_back" /\ result[c] = "token" => granted[c][1] = proof[c]

TypeInv == CallTypes /\ ServerTypes /\ StorageTypes /\ HoldsInv

(***************************************************************************)
(* Sessions that are logged out: they had a login, their refresh token is  *)
(* in the blocklist, and who is about to issue an access token for one of  *)
(* them had passed the blocklist before.                                   *)
(***************************************************************************)
ClosedInv ==
  /\ \A c \in Calls : body[c] # NULL => issued[body[c]] > 0
  /\ \A s \in closed : issued[s] > 0 /\ <<s, 0>> \in revoked
  /\ \A c \in Calls : pc[c] = "issuing" /\ proof[c] \in closed => c \in tail

(***************************************************************************)
(* An answer that will end the session has its reason, and reasons stay.   *)
(***************************************************************************)
CauseInv ==
  \A c \in Calls :
    /\ pc[c] = "back" /\ result[c] = "unauthorized" /\ kind[c] \in {"data", "logout"}
         => ~Valid(token[c])
    /\ pc[c] = "refresh_back" /\ result[c] # "token"
         => trouble[c] \/ <<proof[c], 0>> \in revoked \/ ~active

IInv == TypeInv /\ StorageIsOneSession /\ ClosedInv /\ CauseInv

(***************************************************************************)
(* Tokens of sessions.                                                     *)
(***************************************************************************)
LEMMA TokenIsOfSession ==
  ASSUME ServerTypes, NEW t \in Tokens
  PROVE  /\ t \in Nat \X Nat /\ t[1] \in Sessions /\ t # NULL
         /\ issued[t[1]] > 0
<1>1. PICK s \in Sessions : t \in {s} \X (1..issued[s])
  BY DEF Tokens
<1>2. issued[s] \in Nat /\ s \in Nat /\ Sessions = 1..4
  BY DEF ServerTypes, Sessions
<1>3. PICK k \in 1..issued[s] : t = <<s, k>>
  BY <1>1
<1>4. QED
  BY <1>2, <1>3, NullAssumption

LEMMA TokensGrow ==
  ASSUME ServerTypes, issued' \in [1..4 -> Nat],
         \A s \in Sessions : issued[s] <= issued'[s]
  PROVE  Tokens \subseteq Tokens' /\ Sessions' = Sessions
<1>1. Sessions = 1..4 /\ Sessions' = 1..4
  BY DEF ServerTypes, Sessions
<1>2. \A s \in Sessions : 1..issued[s] \subseteq 1..issued'[s]
  BY <1>1 DEF ServerTypes
<1>3. \A s \in Sessions : {s} \X (1..issued[s]) \subseteq {s} \X (1..issued'[s])
  BY <1>2
<1>4. QED
  BY <1>1, <1>3 DEF Tokens

LEMMA TokensStay ==
  ASSUME UNCHANGED issued
  PROVE  Tokens' = Tokens /\ Sessions' = Sessions
BY DEF Tokens, Sessions

\* NULL is no session.
LEMMA SessionIsNotNull == ASSUME ServerTypes PROVE NULL \notin Sessions
BY NullAssumption DEF ServerTypes, Sessions

LEMMA InvInit == Init => IInv
<1> SUFFICES ASSUME Init PROVE IInv
  OBVIOUS
<1>1. issued \in [1..4 -> Nat] /\ issued[1] = 1 /\ Sessions = 1..4
  BY DEF Init, Sessions
<1>2. <<1, 1>> \in Tokens
  <2>1. <<1, 1>> \in {1} \X (1..issued[1])
    BY <1>1
  <2>2. QED
    BY <1>1, <2>1 DEF Tokens
<1>3. CallTypes
  BY DEF Init, CallTypes, Labels
<1>4. ServerTypes /\ StorageTypes
  BY <1>1, <1>2 DEF Init, ServerTypes, StorageTypes
<1>5. HoldsInv /\ ClosedInv /\ CauseInv
  BY DEF Init, HoldsInv, ClosedInv, CauseInv
<1>6. StorageIsOneSession
  BY NullAssumption DEF Init, StorageIsOneSession
<1>7. QED
  BY <1>3, <1>4, <1>5, <1>6 DEF IInv, TypeInv

(***************************************************************************)
(* A call that is over holds nothing and leaves the server alone.          *)
(***************************************************************************)
LEMMA FinishKeeps ==
  ASSUME IInv, NEW c \in Calls, Finish(c)
  PROVE  CallTypes' /\ ServerTypes' /\ HoldsInv' /\ ClosedInv' /\ CauseInv'
         /\ Tokens' = Tokens /\ Sessions' = Sessions /\ UNCHANGED overwritten
<1> USE DEF IInv, TypeInv
<1>1. UNCHANGED <<issued, expired, revoked, active, mishaps, overwritten, closed, tail>>
  BY DEF Finish, server
<1>2. Tokens' = Tokens /\ Sessions' = Sessions
  BY <1>1, TokensStay
<1>3. CallTypes'
  BY <1>2 DEF Finish, Goto, CallTypes, Labels
<1>4. ServerTypes'
  BY <1>1, <1>2 DEF ServerTypes
<1>5. \A d \in Calls : d # c =>
        /\ pc'[d] = pc[d] /\ kind'[d] = kind[d] /\ token'[d] = token[d]
        /\ body'[d] = body[d] /\ proof'[d] = proof[d] /\ result'[d] = result[d]
        /\ granted'[d] = granted[d] /\ trouble'[d] = trouble[d]
  BY DEF Finish, Goto, CallTypes
<1>6. pc'[c] = "done" /\ kind'[c] = NULL /\ body'[c] = NULL
  BY DEF Finish, Goto, CallTypes
<1>7. HoldsInv'
  BY <1>2, <1>5, <1>6 DEF HoldsInv
<1>8. ClosedInv'
  BY <1>1, <1>5, <1>6 DEF ClosedInv
<1>9. CauseInv'
  BY <1>1, <1>5, <1>6 DEF CauseInv, Valid, IsBlocklisted
<1>10. QED
  BY <1>1, <1>2, <1>3, <1>4, <1>7, <1>8, <1>9

LEMMA ClearKeeps ==
  ASSUME IInv, NEW c \in Calls, Finish(c), Clear
  PROVE  IInv'
<1>1. StorageTypes' /\ StorageIsOneSession'
  BY DEF Clear, StorageTypes, StorageIsOneSession
<1>2. QED
  BY <1>1, FinishKeeps DEF IInv, TypeInv

\* Every step that settles a call.
LEMMA EndingKeeps ==
  ASSUME IInv, NEW c \in Calls,
         SignedIn(c) \/ Settled(c) \/ Unauthorized(c) \/ RefreshFailed(c)
  PROVE  IInv'
<1> USE DEF IInv, TypeInv
<1>1. CASE SignedIn(c)
  <2>1. Finish(c) /\ pc[c] = "back" /\ result[c] = "token"
    BY <1>1 DEF SignedIn
  <2>2. granted[c] \in Tokens /\ granted[c][1] \in Sessions /\ granted[c] # NULL
        /\ granted[c][1] # NULL
    BY <2>1, TokenIsOfSession, SessionIsNotNull DEF HoldsInv
  <2>3. access' = granted[c] /\ refresh' = granted[c][1] /\ owner' = granted[c][1]
    BY <1>1 DEF SignedIn, Store
  <2>4. Tokens' = Tokens /\ Sessions' = Sessions
    BY <2>1, FinishKeeps
  <2>5. StorageTypes' /\ StorageIsOneSession'
    BY <2>2, <2>3, <2>4 DEF StorageTypes, StorageIsOneSession
  <2>6. QED
    BY <2>1, <2>5, FinishKeeps
<1>2. CASE Finish(c) /\ Clear
  BY <1>2, ClearKeeps
<1>3. CASE Finish(c) /\ Keep
  <2>1. Tokens' = Tokens /\ Sessions' = Sessions /\ UNCHANGED <<access, refresh, owner, overwritten>>
    BY <1>3, FinishKeeps DEF Keep, storage
  <2>2. StorageTypes' /\ StorageIsOneSession'
    BY <2>1 DEF StorageTypes, StorageIsOneSession
  <2>3. QED
    BY <1>3, <2>2, FinishKeeps
<1>4. QED
  BY <1>1, <1>2, <1>3 DEF Settled, Settle, Unauthorized, RefreshFailed, AuthFailure

\* A call is made: it takes what the storage holds.
LEMMA CallKeeps ==
  ASSUME IInv, NEW c \in Calls, NEW k \in Kinds[c], Call(c, k)
  PROVE  IInv'
<1> USE DEF IInv, TypeInv
<1>1. /\ UNCHANGED <<access, refresh, issued, expired, revoked, active, proof, result,
                     granted, retried, owner, overwritten, trouble, closed, tail>>
      /\ pc[c] = "new"
  BY DEF Call, storage, server
<1>2. Tokens' = Tokens /\ Sessions' = Sessions
  BY <1>1, TokensStay
<1>3. k \in {"data", "password", "login", "logout"} /\ k # NULL
  BY KindsAssumption, NullAssumption
<1>4. CallTypes'
  BY <1>1, <1>2, <1>3 DEF Call, Goto, CallTypes, Labels, StorageTypes
<1>5. ServerTypes' /\ StorageTypes' /\ StorageIsOneSession'
  BY <1>1, <1>2 DEF ServerTypes, StorageTypes, StorageIsOneSession
<1>6. /\ pc'[c] = "sent" /\ kind'[c] = k /\ body'[c] \in {refresh, NULL}
      /\ \A d \in Calls : d # c =>
           pc'[d] = pc[d] /\ kind'[d] = kind[d] /\ token'[d] = token[d] /\ body'[d] = body[d]
  BY DEF Call, Goto, CallTypes
<1>7. HoldsInv'
  BY <1>1, <1>2, <1>3, <1>6 DEF HoldsInv
<1>8. refresh # NULL => issued[refresh] > 0
  <2>1. CASE refresh # NULL
    <3>1. access \in Tokens /\ access[1] = refresh
      BY <2>1 DEF StorageTypes, StorageIsOneSession
    <3>2. QED
      BY <3>1, TokenIsOfSession
  <2>2. QED
    BY <2>1
<1>9. ClosedInv'
  BY <1>1, <1>6, <1>8 DEF ClosedInv
<1>10. CauseInv'
  BY <1>1, <1>6 DEF CauseInv, Valid, IsBlocklisted
<1>11. QED
  BY <1>4, <1>5, <1>7, <1>9, <1>10

\* The client's other steps: off to a refresh, back from it, and once more.
LEMMA RefreshKeeps ==
  ASSUME IInv, NEW c \in Calls, Refresh(c)
  PROVE  IInv'
<1> USE DEF IInv, TypeInv
<1>1. /\ UNCHANGED <<access, refresh, issued, expired, revoked, active, kind, token, body,
                     granted, retried, owner, overwritten, trouble, closed, tail>>
      /\ pc[c] = "back" /\ refresh # NULL
  BY DEF Refresh, storage, server, past
<1>2. Tokens' = Tokens /\ Sessions' = Sessions
  BY <1>1, TokensStay
<1>3. CallTypes'
  BY <1>1, <1>2 DEF Refresh, Goto, CallTypes, Labels, StorageTypes
<1>4. ServerTypes' /\ StorageTypes' /\ StorageIsOneSession'
  BY <1>1, <1>2 DEF ServerTypes, StorageTypes, StorageIsOneSession
<1>5. /\ pc'[c] = "refresh_sent" /\ proof'[c] = refresh
      /\ \A d \in Calls : d # c =>
           pc'[d] = pc[d] /\ proof'[d] = proof[d] /\ result'[d] = result[d]
  BY DEF Refresh, Goto, CallTypes
<1>6. HoldsInv' /\ ClosedInv' /\ CauseInv'
  BY <1>1, <1>2, <1>5 DEF HoldsInv, ClosedInv, CauseInv, Valid, IsBlocklisted
<1>7. QED
  BY <1>3, <1>4, <1>6

LEMMA RefreshedKeeps ==
  ASSUME IInv, NEW c \in Calls, Refreshed(c)
  PROVE  IInv'
<1> USE DEF IInv, TypeInv
<1>1. /\ UNCHANGED <<issued, expired, revoked, active, kind, token, body, proof,
                     retried, owner, trouble, closed, tail>>
      /\ pc[c] = "refresh_back" /\ result[c] = "token"
      /\ access' = granted[c] /\ refresh' = proof[c]
      /\ overwritten' = (overwritten \/ refresh # proof[c])
  BY DEF Refreshed, server, Store
<1>2. Tokens' = Tokens /\ Sessions' = Sessions
  BY <1>1, TokensStay
<1>3. CallTypes'
  BY <1>1, <1>2 DEF Refreshed, Goto, CallTypes, Labels
<1>4. granted[c] \in Tokens /\ granted[c] # NULL /\ granted[c][1] = proof[c]
      /\ proof[c] \in Sessions /\ proof[c] # NULL
  BY <1>1, TokenIsOfSession DEF HoldsInv, CallTypes
<1>5. ServerTypes' /\ StorageTypes'
  BY <1>1, <1>2, <1>4 DEF ServerTypes, StorageTypes
<1>6. StorageIsOneSession'
  BY <1>1, <1>4 DEF StorageIsOneSession
<1>7. /\ pc'[c] = "retry"
      /\ \A d \in Calls : d # c =>
           pc'[d] = pc[d] /\ granted'[d] = granted[d] /\ result'[d] = result[d]
  BY DEF Refreshed, Goto, CallTypes
<1>8. HoldsInv' /\ ClosedInv' /\ CauseInv'
  BY <1>1, <1>2, <1>4, <1>7 DEF HoldsInv, ClosedInv, CauseInv, Valid, IsBlocklisted
<1>9. QED
  BY <1>3, <1>5, <1>6, <1>8

LEMMA RetryKeeps ==
  ASSUME IInv, NEW c \in Calls, Retry(c)
  PROVE  IInv'
<1> USE DEF IInv, TypeInv
<1>1. /\ UNCHANGED <<access, refresh, issued, expired, revoked, active, kind, body, proof,
                     result, granted, owner, overwritten, trouble, closed, tail>>
      /\ pc[c] = "retry"
  BY DEF Retry, storage, server, past
<1>2. Tokens' = Tokens /\ Sessions' = Sessions
  BY <1>1, TokensStay
<1>3. CallTypes'
  BY <1>1, <1>2 DEF Retry, Goto, CallTypes, Labels, StorageTypes
<1>4. ServerTypes' /\ StorageTypes' /\ StorageIsOneSession'
  BY <1>1, <1>2 DEF ServerTypes, StorageTypes, StorageIsOneSession
<1>5. /\ pc'[c] = "sent"
      /\ \A d \in Calls : d # c => pc'[d] = pc[d] /\ token'[d] = token[d]
  BY DEF Retry, Goto, CallTypes
<1>6. HoldsInv' /\ ClosedInv' /\ CauseInv'
  BY <1>1, <1>2, <1>5 DEF HoldsInv, ClosedInv, CauseInv, Valid, IsBlocklisted
<1>7. QED
  BY <1>3, <1>4, <1>6

(***************************************************************************)
(* The server's steps move one call and leave what the client holds.       *)
(***************************************************************************)
LEMMA ServeKeeps ==
  ASSUME IInv, NEW c \in Calls, Serve(c)
  PROVE  IInv'
<1> USE DEF IInv, TypeInv
<1>1. /\ UNCHANGED <<access, refresh, issued, expired, revoked, active, kind, token, body,
                     proof, granted, retried, owner, overwritten, trouble, closed, tail>>
      /\ pc[c] = "sent"
  BY DEF Serve, OnServer, Answer, storage, server
<1>2. Tokens' = Tokens /\ Sessions' = Sessions
  BY <1>1, TokensStay
<1>3. PICK r \in {"ok", "unauthorized"} :
        /\ r = "unauthorized" => ~Valid(token[c]) \/ kind[c] = "password"
        /\ Answer(c, "back", r)
  BY DEF Serve
<1>4. CallTypes'
  BY <1>1, <1>2, <1>3 DEF Answer, Goto, CallTypes, Labels
<1>5. ServerTypes' /\ StorageTypes' /\ StorageIsOneSession'
  BY <1>1, <1>2 DEF ServerTypes, StorageTypes, StorageIsOneSession
<1>6. /\ pc'[c] = "back" /\ result'[c] = r
      /\ \A d \in Calls : d # c => pc'[d] = pc[d] /\ result'[d] = result[d]
  BY <1>3 DEF Answer, Goto, CallTypes
<1>7. HoldsInv' /\ ClosedInv'
  BY <1>1, <1>2, <1>6 DEF HoldsInv, ClosedInv
<1>8. CauseInv'
  BY <1>1, <1>3, <1>6 DEF CauseInv, Valid, IsBlocklisted
<1>9. QED
  BY <1>4, <1>5, <1>7, <1>8

LEMMA ServeLoginKeeps ==
  ASSUME IInv, NEW c \in Calls, ServeLogin(c)
  PROVE  IInv'
<1> USE DEF IInv, TypeInv
<1>1. /\ UNCHANGED <<access, refresh, expired, revoked, active, kind, token, body,
                     proof, retried, owner, overwritten, trouble, closed, tail>>
      /\ pc[c] = "sent" /\ kind[c] = "login"
  BY DEF ServeLogin, OnServer, storage
<1>2. CASE Answer(c, "back", "unauthorized") /\ UNCHANGED issued
  <2>1. Tokens' = Tokens /\ Sessions' = Sessions /\ UNCHANGED granted
    BY <1>2, TokensStay DEF Answer
  <2>2. CallTypes'
    BY <1>1, <1>2, <2>1 DEF Answer, Goto, CallTypes, Labels
  <2>3. ServerTypes' /\ StorageTypes' /\ StorageIsOneSession'
    BY <1>1, <1>2, <2>1 DEF ServerTypes, StorageTypes, StorageIsOneSession
  <2>4. /\ pc'[c] = "back" /\ result'[c] = "unauthorized"
        /\ \A d \in Calls : d # c => pc'[d] = pc[d] /\ result'[d] = result[d]
    BY <1>2 DEF Answer, Goto, CallTypes
  <2>5. HoldsInv' /\ ClosedInv' /\ CauseInv'
    BY <1>1, <1>2, <2>1, <2>4 DEF HoldsInv, ClosedInv, CauseInv, Valid, IsBlocklisted
  <2>6. QED
    BY <2>2, <2>3, <2>5
<1>3. ASSUME NEW s \in Sessions, issued[s] = 0, issued' = [issued EXCEPT ![s] = 1],
             Grant(c, "back", <<s, 1>>)
      PROVE  IInv'
  <2>1. issued' \in [1..4 -> Nat] /\ (\A r \in Sessions : issued[r] <= issued'[r])
        /\ issued'[s] = 1
    BY <1>3 DEF ServerTypes, Sessions
  <2>2. Tokens \subseteq Tokens' /\ Sessions' = Sessions
    BY <2>1, TokensGrow
  <2>3. <<s, 1>> \in Tokens'
    <3>1. <<s, 1>> \in {s} \X (1..issued'[s])
      BY <2>1
    <3>2. QED
      BY <2>2, <3>1 DEF Tokens
  <2>4. CallTypes'
    BY <1>1, <1>3, <2>2, <2>3 DEF Grant, Goto, CallTypes, Labels
  <2>5. ServerTypes' /\ StorageTypes' /\ StorageIsOneSession'
    BY <1>1, <2>1, <2>2 DEF ServerTypes, StorageTypes, StorageIsOneSession
  <2>6. /\ pc'[c] = "back" /\ result'[c] = "token" /\ granted'[c] = <<s, 1>>
        /\ \A d \in Calls : d # c =>
             pc'[d] = pc[d] /\ result'[d] = result[d] /\ granted'[d] = granted[d]
    BY <1>3 DEF Grant, Goto, CallTypes
  <2>7. HoldsInv'
    BY <1>1, <2>2, <2>3, <2>6 DEF HoldsInv
  <2>8. \A r \in Sessions : issued[r] > 0 => issued'[r] > 0
    BY <1>3, <2>1 DEF ServerTypes, Sessions
  <2>9. ClosedInv'
    BY <1>1, <2>6, <2>8 DEF ClosedInv, ServerTypes, CallTypes
  <2>10. CauseInv'
    BY <1>1, <2>6 DEF CauseInv, Valid, IsBlocklisted
  <2>11. QED
    BY <2>4, <2>5, <2>7, <2>9, <2>10
<1>4. QED
  BY <1>2, <1>3 DEF ServeLogin

LEMMA BlocksGrows ==
  ASSUME ServerTypes, NEW t, NEW a, Blocks(t, a)
  PROVE  /\ revoked' = revoked \/ revoked' = revoked \union t
         /\ a => revoked' = revoked \union t
BY DEF Blocks

LEMMA ServeLogoutKeeps ==
  ASSUME IInv, NEW c \in Calls, ServeLogout(c)
  PROVE  IInv'
<1> USE DEF IInv, TypeInv
<1>1. /\ UNCHANGED <<access, refresh, issued, expired, active, kind, token, body,
                     proof, granted, retried, owner, overwritten, trouble, closed, tail>>
      /\ pc[c] = "sent"
  BY DEF ServeLogout, OnServer, Answer, storage
<1>2. Tokens' = Tokens /\ Sessions' = Sessions
  BY <1>1, TokensStay
<1>3. PICK l, r :
        /\ pc' = [pc EXCEPT ![c] = l] /\ result' = [result EXCEPT ![c] = r]
        /\ \/ l = "revoking" /\ r = result[c]
           \/ l = "back" /\ r = "error"
           \/ l = "back" /\ r = "unauthorized" /\ ~Valid(token[c])
  <2>1. CASE Goto(c, "revoking") /\ UNCHANGED result
    <3>1. result' = [result EXCEPT ![c] = result[c]]
      BY <2>1 DEF CallTypes
    <3>2. pc' = [pc EXCEPT ![c] = "revoking"]
      BY <2>1 DEF Goto
    <3>3. QED
      BY <3>1, <3>2
  <2>2. CASE Answer(c, "back", "error")
    BY <2>2 DEF Answer, Goto
  <2>3. CASE Answer(c, "back", "unauthorized") /\ ~Valid(token[c])
    BY <2>3 DEF Answer, Goto
  <2>4. QED
    BY <2>1, <2>2, <2>3 DEF ServeLogout
<1>4. CallTypes'
  BY <1>1, <1>2, <1>3 DEF CallTypes, Labels
<1>5. revoked \subseteq revoked' /\ revoked' \subseteq Tokens \union (Sessions \X {0})
  <2>1. CASE Valid(token[c])
    <3>1. token[c] \in Tokens
      BY <2>1 DEF Valid, CallTypes
    <3>2. revoked' \in {revoked, revoked \union {token[c]}}
      BY <2>1, BlocksGrows DEF ServeLogout
    <3>3. QED
      BY <3>1, <3>2 DEF ServerTypes
  <2>2. CASE ~Valid(token[c])
    BY <2>2 DEF ServeLogout, ServerTypes
  <2>3. QED
    BY <2>1, <2>2
<1>6. ServerTypes' /\ StorageTypes' /\ StorageIsOneSession'
  BY <1>1, <1>2, <1>5 DEF ServerTypes, StorageTypes, StorageIsOneSession
<1>7. /\ pc'[c] = l /\ result'[c] = r
      /\ \A d \in Calls : d # c => pc'[d] = pc[d] /\ result'[d] = result[d]
  BY <1>3 DEF CallTypes
<1>8. HoldsInv' /\ ClosedInv'
  BY <1>1, <1>2, <1>3, <1>5, <1>7 DEF HoldsInv, ClosedInv
<1>9. CauseInv'
  BY <1>1, <1>3, <1>5, <1>7 DEF CauseInv, Valid, IsBlocklisted
<1>10. QED
  BY <1>4, <1>6, <1>8, <1>9

LEMMA RevokeRefreshKeeps ==
  ASSUME IInv, NEW c \in Calls, RevokeRefresh(c)
  PROVE  IInv'
<1> USE DEF IInv, TypeInv
<1> DEFINE t       == {body[c]} \ {NULL}
           blocked == {<<s, 0>> : s \in t}
<1>1. /\ UNCHANGED <<access, refresh, issued, expired, active, kind, token, body,
                     proof, granted, retried, owner, overwritten, trouble>>
      /\ pc[c] = "revoking"
  BY DEF RevokeRefresh, OnServer, Answer, storage
<1>2. Tokens' = Tokens /\ Sessions' = Sessions
  BY <1>1, TokensStay
<1>3. PICK r \in {"ok", "error"} :
        /\ Answer(c, "back", r)
        /\ revoked' \in {revoked, revoked \union blocked}
        /\ \/ UNCHANGED <<closed, tail>>
           \/ /\ revoked' = revoked \union blocked
              /\ closed' = closed \union t
              /\ tail' = tail \union {d \in Calls : pc[d] = "issuing" /\ proof[d] = body[c]}
  <2>1. CASE Blocks(blocked, TRUE) /\ Answer(c, "back", "ok")
             /\ closed' = closed \union t
             /\ tail' = tail \union {d \in Calls : pc[d] = "issuing" /\ proof[d] = body[c]}
    <3>1. revoked' = revoked \union blocked
      BY <2>1, BlocksGrows
    <3>2. QED
      BY <2>1, <3>1
  <2>2. CASE Blocks(blocked, FALSE) /\ Answer(c, "back", "error") /\ UNCHANGED <<closed, tail>>
    <3>1. revoked' \in {revoked, revoked \union blocked}
      BY <2>2, BlocksGrows
    <3>2. QED
      BY <2>2, <3>1
  <2>3. QED
    BY <2>1, <2>2 DEF RevokeRefresh
<1>4. CallTypes'
  BY <1>1, <1>2, <1>3 DEF Answer, Goto, CallTypes, Labels
<1>5. t \subseteq Sessions /\ blocked \subseteq Sessions \X {0}
  BY DEF CallTypes
<1>6. revoked \subseteq revoked'
  BY <1>3
<1>7. ServerTypes' /\ StorageTypes' /\ StorageIsOneSession'
  BY <1>1, <1>2, <1>3, <1>5 DEF ServerTypes, StorageTypes, StorageIsOneSession
<1>8. /\ pc'[c] = "back" /\ result'[c] = r
      /\ \A d \in Calls : d # c => pc'[d] = pc[d] /\ result'[d] = result[d]
  BY <1>3 DEF Answer, Goto, CallTypes
<1>9. HoldsInv'
  BY <1>1, <1>2, <1>8 DEF HoldsInv
<1>10. ClosedInv'
  <2>1. CASE UNCHANGED <<closed, tail>>
    BY <1>1, <1>6, <1>8, <2>1 DEF ClosedInv
  <2>2. CASE /\ revoked' = revoked \union blocked
             /\ closed' = closed \union t
             /\ tail' = tail \union {d \in Calls : pc[d] = "issuing" /\ proof[d] = body[c]}
    <3>1. \A s \in t : issued[s] > 0 /\ <<s, 0>> \in revoked'
      BY <2>2 DEF ClosedInv
    <3>2. QED
      BY <1>1, <1>6, <1>8, <2>2, <3>1 DEF ClosedInv
  <2>3. QED
    BY <1>3, <2>1, <2>2
<1>11. CauseInv'
  BY <1>1, <1>6, <1>8 DEF CauseInv, Valid, IsBlocklisted
<1>12. QED
  BY <1>4, <1>7, <1>9, <1>10, <1>11

LEMMA CheckRefreshKeeps ==
  ASSUME IInv, NEW c \in Calls, CheckRefresh(c)
  PROVE  IInv'
<1> USE DEF IInv, TypeInv
<1>1. /\ UNCHANGED <<access, refresh, issued, expired, revoked, active, kind, token, body,
                     proof, granted, retried, owner, overwritten, trouble, closed, tail>>
      /\ pc[c] = "refresh_sent"
  BY DEF CheckRefresh, OnServer, Answer, storage, server
<1>2. Tokens' = Tokens /\ Sessions' = Sessions
  BY <1>1, TokensStay
<1>3. CASE <<proof[c], 0>> \in revoked
  <2>1. Answer(c, "refresh_back", "unauthorized")
    BY <1>3 DEF CheckRefresh, IsBlocklisted
  <2>2. CallTypes'
    BY <1>1, <1>2, <2>1 DEF Answer, Goto, CallTypes, Labels
  <2>3. /\ pc'[c] = "refresh_back" /\ result'[c] = "unauthorized"
        /\ \A d \in Calls : d # c => pc'[d] = pc[d] /\ result'[d] = result[d]
    BY <2>1 DEF Answer, Goto, CallTypes
  <2>4. HoldsInv' /\ ClosedInv' /\ CauseInv'
    BY <1>1, <1>2, <1>3, <2>3 DEF HoldsInv, ClosedInv, CauseInv, Valid, IsBlocklisted
  <2>5. QED
    BY <1>1, <1>2, <2>2, <2>4 DEF ServerTypes, StorageTypes, StorageIsOneSession
<1>4. CASE <<proof[c], 0>> \notin revoked
  <2>1. Goto(c, "issuing") /\ UNCHANGED result
    BY <1>4 DEF CheckRefresh, IsBlocklisted
  <2>2. CallTypes'
    BY <1>1, <1>2, <2>1 DEF Goto, CallTypes, Labels
  <2>3. pc'[c] = "issuing" /\ \A d \in Calls : d # c => pc'[d] = pc[d]
    BY <2>1 DEF Goto, CallTypes
  <2>4. proof[c] \notin closed
    BY <1>4 DEF ClosedInv
  <2>5. HoldsInv' /\ ClosedInv' /\ CauseInv'
    BY <1>1, <1>2, <2>1, <2>3, <2>4 DEF HoldsInv, ClosedInv, CauseInv, Valid, IsBlocklisted
  <2>6. QED
    BY <1>1, <1>2, <2>2, <2>5 DEF ServerTypes, StorageTypes, StorageIsOneSession
<1>5. QED
  BY <1>3, <1>4

LEMMA IssueKeeps ==
  ASSUME IInv, NEW c \in Calls, Issue(c)
  PROVE  IInv'
<1> USE DEF IInv, TypeInv
<1> DEFINE s == proof[c]
           k == issued[s] + 1
<1>1. /\ UNCHANGED <<access, refresh, expired, revoked, active, kind, token, body,
                     proof, retried, owner, overwritten, trouble, closed>>
      /\ pc[c] = "issuing" /\ tail' = tail \ {c}
  BY DEF Issue, OnServer, storage
<1>2. s \in Sessions
  BY <1>1 DEF HoldsInv, CallTypes
<1>3. CASE ~active
  <2>1. Answer(c, "refresh_back", "unauthorized") /\ UNCHANGED issued
    BY <1>3 DEF Issue
  <2>2. Tokens' = Tokens /\ Sessions' = Sessions /\ UNCHANGED granted
    BY <2>1, TokensStay DEF Answer
  <2>3. CallTypes'
    BY <1>1, <2>1, <2>2 DEF Answer, Goto, CallTypes, Labels
  <2>4. /\ pc'[c] = "refresh_back" /\ result'[c] = "unauthorized"
        /\ \A d \in Calls : d # c => pc'[d] = pc[d] /\ result'[d] = result[d]
    BY <2>1 DEF Answer, Goto, CallTypes
  <2>5. HoldsInv' /\ ClosedInv' /\ CauseInv'
    BY <1>1, <1>3, <2>1, <2>2, <2>4 DEF HoldsInv, ClosedInv, CauseInv, Valid, IsBlocklisted
  <2>6. ServerTypes' /\ StorageTypes' /\ StorageIsOneSession'
    BY <1>1, <2>1, <2>2 DEF ServerTypes, StorageTypes, StorageIsOneSession
  <2>7. QED
    BY <2>3, <2>5, <2>6
<1>4. CASE active
  <2>1. issued' = [issued EXCEPT ![s] = @ + 1] /\ Grant(c, "refresh_back", <<s, k>>)
    BY <1>4 DEF Issue
  <2>2. issued' \in [1..4 -> Nat] /\ (\A r \in Sessions : issued[r] <= issued'[r])
        /\ issued'[s] = k /\ k \in 1..issued'[s]
    BY <1>2, <2>1 DEF ServerTypes, Sessions
  <2>3. Tokens \subseteq Tokens' /\ Sessions' = Sessions
    BY <2>2, TokensGrow
  <2>4. <<s, k>> \in Tokens'
    <3>1. <<s, k>> \in {s} \X (1..issued'[s])
      BY <2>2
    <3>2. QED
      BY <1>2, <2>3, <3>1 DEF Tokens
  <2>5. CallTypes'
    BY <1>1, <2>1, <2>3, <2>4 DEF Grant, Goto, CallTypes, Labels
  <2>6. ServerTypes' /\ StorageTypes' /\ StorageIsOneSession'
    BY <1>1, <2>2, <2>3 DEF ServerTypes, StorageTypes, StorageIsOneSession
  <2>7. /\ pc'[c] = "refresh_back" /\ result'[c] = "token" /\ granted'[c] = <<s, k>>
        /\ \A d \in Calls : d # c =>
             pc'[d] = pc[d] /\ result'[d] = result[d] /\ granted'[d] = granted[d]
    BY <2>1 DEF Grant, Goto, CallTypes
  <2>8. HoldsInv'
    BY <1>1, <2>3, <2>4, <2>7 DEF HoldsInv
  <2>9. \A r \in Sessions : issued[r] > 0 => issued'[r] > 0
    BY <2>1, <2>2 DEF ServerTypes, Sessions
  <2>10. ClosedInv'
    BY <1>1, <2>7, <2>9 DEF ClosedInv, ServerTypes, CallTypes
  <2>11. CauseInv'
    BY <1>1, <2>7 DEF CauseInv, Valid, IsBlocklisted
  <2>12. QED
    BY <2>5, <2>6, <2>8, <2>10, <2>11
<1>5. QED
  BY <1>3, <1>4

(***************************************************************************)
(* The environment.                                                        *)
(***************************************************************************)
LEMMA FailKeeps ==
  ASSUME IInv, NEW c \in Calls, Fail(c)
  PROVE  IInv'
<1> USE DEF IInv, TypeInv
<1> DEFINE refreshing == pc[c] \in {"refresh_sent", "refresh_back"}
<1>1. /\ UNCHANGED <<access, refresh, issued, expired, revoked, active, kind, token, body,
                     proof, granted, retried, owner, overwritten, closed, tail>>
      /\ pc[c] \in {"sent", "back", "refresh_sent", "refresh_back"}
      /\ trouble' = [trouble EXCEPT ![c] = @ \/ refreshing]
      /\ Answer(c, IF refreshing THEN "refresh_back" ELSE "back", "error")
  BY DEF Fail, OnServer, Answer, storage
<1>2. Tokens' = Tokens /\ Sessions' = Sessions
  BY <1>1, TokensStay
<1>3. trouble' \in [Calls -> BOOLEAN] /\ (refreshing => trouble'[c])
      /\ \A d \in Calls : d # c => trouble'[d] = trouble[d]
  BY <1>1 DEF CallTypes
<1>4. CallTypes'
  BY <1>1, <1>2, <1>3 DEF Answer, Goto, CallTypes, Labels
<1>5. ServerTypes' /\ StorageTypes' /\ StorageIsOneSession'
  BY <1>1, <1>2 DEF ServerTypes, StorageTypes, StorageIsOneSession
<1>6. /\ pc'[c] = (IF refreshing THEN "refresh_back" ELSE "back") /\ result'[c] = "error"
      /\ \A d \in Calls : d # c => pc'[d] = pc[d] /\ result'[d] = result[d]
  BY <1>1 DEF Answer, Goto, CallTypes
<1>7. HoldsInv' /\ ClosedInv'
  BY <1>1, <1>2, <1>6 DEF HoldsInv, ClosedInv
<1>8. CauseInv'
  BY <1>1, <1>3, <1>6 DEF CauseInv, Valid, IsBlocklisted
<1>9. QED
  BY <1>4, <1>5, <1>7, <1>8

\* Expiries, revocations by other clients and a deactivation only void tokens.
LEMMA VoidingKeeps ==
  ASSUME IInv,
         (\E t \in Tokens : Expire(t)) \/ (\E s \in Sessions : LogoutRefresh(s)) \/ Deactivate
  PROVE  IInv'
<1> USE DEF IInv, TypeInv
<1>1. UNCHANGED <<access, refresh, issued, pc, kind, token, body, proof, result, granted,
                  retried, owner, overwritten, trouble>>
  BY DEF Expire, LogoutRefresh, Deactivate, storage, calls, past
<1>2. Tokens' = Tokens /\ Sessions' = Sessions
  BY <1>1, TokensStay
<1>3. /\ expired \subseteq expired' /\ expired' \subseteq Tokens
      /\ revoked \subseteq revoked' /\ revoked' \subseteq Tokens \union (Sessions \X {0})
      /\ active' \in BOOLEAN /\ (~active => ~active')
  <2>1. ASSUME NEW t \in Tokens, Expire(t)
        PROVE  expired' = expired \union {t} /\ UNCHANGED <<revoked, active>>
    BY <2>1 DEF Expire
  <2>2. ASSUME NEW s \in Sessions, LogoutRefresh(s)
        PROVE  revoked' = revoked \union {<<s, 0>>} /\ UNCHANGED <<expired, active>>
    BY <2>2 DEF LogoutRefresh
  <2>3. CASE Deactivate
    BY <2>3 DEF Deactivate, ServerTypes
  <2>4. QED
    BY <2>1, <2>2, <2>3 DEF ServerTypes
<1>4. \/ UNCHANGED <<closed, tail>>
      \/ \E s \in Sessions :
           /\ issued[s] > 0 /\ <<s, 0>> \in revoked' /\ closed' = closed \union {s}
           /\ tail' = tail \union {d \in Calls : pc[d] = "issuing" /\ proof[d] = s}
  BY DEF Expire, LogoutRefresh, Deactivate, past
<1>5. CallTypes' /\ StorageTypes' /\ StorageIsOneSession' /\ HoldsInv'
  BY <1>1, <1>2 DEF CallTypes, StorageTypes, StorageIsOneSession, HoldsInv
<1>6. ServerTypes'
  BY <1>1, <1>2, <1>3, <1>4 DEF ServerTypes
<1>7. ClosedInv'
  BY <1>1, <1>3, <1>4 DEF ClosedInv
<1>8. CauseInv'
  BY <1>1, <1>3 DEF CauseInv, Valid, IsBlocklisted
<1>9. QED
  BY <1>5, <1>6, <1>7, <1>8

LEMMA InvInductive == IInv /\ [Next]_vars => IInv'
<1> SUFFICES ASSUME IInv, [Next]_vars PROVE IInv'
  OBVIOUS
<1>1. CASE UNCHANGED vars
  <2>1. UNCHANGED <<access, refresh, issued, expired, revoked, active, pc, kind, token, body,
                    proof, result, granted, retried, owner, overwritten, trouble, closed, tail>>
    BY <1>1 DEF vars, storage, server, calls, past
  <2>2. Tokens' = Tokens /\ Sessions' = Sessions
    BY <2>1, TokensStay
  <2>3. CallTypes' /\ ServerTypes' /\ StorageTypes' /\ HoldsInv'
    BY <2>1, <2>2 DEF IInv, TypeInv, CallTypes, ServerTypes, StorageTypes, HoldsInv
  <2>4. StorageIsOneSession' /\ ClosedInv' /\ CauseInv'
    BY <2>1 DEF IInv, StorageIsOneSession, ClosedInv, CauseInv, Valid, IsBlocklisted
  <2>5. QED
    BY <2>3, <2>4 DEF IInv, TypeInv
<1>2. ASSUME NEW c \in Calls, NEW k \in Kinds[c], Call(c, k) PROVE IInv'
  BY <1>2, CallKeeps
<1>3. ASSUME NEW c \in Calls, Client(c) PROVE IInv'
  BY <1>3, EndingKeeps, RefreshKeeps, RefreshedKeeps, RetryKeeps DEF Client
<1>4. ASSUME NEW c \in Calls, Server(c) PROVE IInv'
  BY <1>4, ServeKeeps, ServeLoginKeeps, ServeLogoutKeeps, RevokeRefreshKeeps,
     CheckRefreshKeeps, IssueKeeps DEF Server
<1>5. ASSUME NEW c \in Calls, Fail(c) PROVE IInv'
  BY <1>5, FailKeeps
<1>6. CASE \/ \E t \in Tokens : Expire(t)
           \/ \E s \in Sessions : LogoutRefresh(s)
           \/ Deactivate
  BY <1>6, VoidingKeeps
<1>7. QED
  BY <1>1, <1>2, <1>3, <1>4, <1>5, <1>6 DEF Next, Done

LEMMA InvAlways == Spec => []IInv
BY InvInit, InvInductive, PTL DEF Spec

\* A call holds tokens of its kind, and only while it lasts: TypeOK of Session.
THEOREM SessionTypes == Spec => []TypeOK
<1>1. IInv => TypeOK
  BY DEF IInv, TypeInv, CallTypes, ServerTypes, StorageTypes, HoldsInv, TypeOK, Labels, Sessions
<1>2. QED
  BY <1>1, InvAlways, PTL

\* Whatever calls and tabs cross, localStorage holds the two tokens of one
\* session, the one the pages show unless a refresh of an earlier one answered
\* into it: StorageIsOneSession of Session.
THEOREM StorageTheorem == Spec => []StorageIsOneSession
<1>1. IInv => StorageIsOneSession
  BY DEF IInv
<1>2. QED
  BY <1>1, InvAlways, PTL

(***************************************************************************)
(* After a logout, only refreshes that had passed the blocklist get one    *)
(* more access token: LogoutIsFinal of Session.                            *)
(***************************************************************************)
LEMMA LogoutIsFinalStep ==
  ASSUME IInv, [Next]_vars, NEW s \in closed, issued'[s] # issued[s]
  PROVE  \E c \in tail : proof[c] = s /\ pc'[c] # pc[c]
<1> USE DEF IInv, TypeInv
<1>1. s \in Sessions /\ issued[s] > 0
  BY DEF ServerTypes, ClosedInv
<1>2. ASSUME NEW c \in Calls, ServeLogin(c) PROVE FALSE
  <2>1. PICK r \in Sessions : issued[r] = 0 /\ issued' = [issued EXCEPT ![r] = 1]
    BY <1>2 DEF ServeLogin
  <2>2. r # s
    BY <1>1, <2>1
  <2>3. QED
    BY <1>1, <2>1, <2>2 DEF ServerTypes
<1>3. ASSUME NEW c \in Calls, Issue(c)
      PROVE  \E d \in tail : proof[d] = s /\ pc'[d] # pc[d]
  <2>1. proof[c] \in Sessions /\ pc[c] = "issuing"
    BY <1>3 DEF Issue, HoldsInv, CallTypes
  <2>2. proof[c] = s
    BY <1>1, <1>3, <2>1 DEF Issue, ServerTypes, Sessions
  <2>3. c \in tail
    BY <2>1, <2>2 DEF ClosedInv
  <2>4. pc'[c] = "refresh_back"
    BY <1>3 DEF Issue, Grant, Answer, Goto, CallTypes
  <2>5. QED
    BY <2>1, <2>2, <2>3, <2>4
<1>4. issued' = issued \/ \E c \in Calls : ServeLogin(c) \/ Issue(c)
  <2>1. ASSUME NEW c \in Calls, Client(c) PROVE issued' = issued
    BY <2>1 DEF Client, SignedIn, Settled, Settle, Unauthorized, Refresh, RefreshFailed,
       Refreshed, Retry, AuthFailure, Finish, server
  <2>2. ASSUME NEW c \in Calls, Server(c), ~ServeLogin(c), ~Issue(c) PROVE issued' = issued
    BY <2>2 DEF Server, Serve, ServeLogout, RevokeRefresh, CheckRefresh, server
  <2>3. ASSUME NEW c \in Calls, (\E k \in Kinds[c] : Call(c, k)) \/ Fail(c)
        PROVE  issued' = issued
    BY <2>3 DEF Call, Fail, server
  <2>4. ASSUME ~\E c \in Calls : (\E k \in Kinds[c] : Call(c, k)) \/ Client(c) \/ Server(c) \/ Fail(c)
        PROVE  issued' = issued
    BY <2>4 DEF Next, Expire, LogoutRefresh, Deactivate, Done, vars, server
  <2>5. QED
    BY <2>1, <2>2, <2>3, <2>4
<1>5. QED
  BY <1>2, <1>3, <1>4

THEOREM LogoutTheorem == Spec => LogoutIsFinal
<1>1. IInv /\ [Next]_vars =>
        [\A s \in closed :
           issued'[s] # issued[s] => \E c \in tail : proof[c] = s /\ pc'[c] # pc[c]]_vars
  BY LogoutIsFinalStep
<1>2. QED
  BY <1>1, InvAlways, PTL DEF Spec, LogoutIsFinal

(***************************************************************************)
(* A session in storage ends for one of the causes of EndedForCause.       *)
(***************************************************************************)
LEMMA EndedForCauseStep ==
  ASSUME IInv, [Next]_vars, NEW c \in Calls,
         refresh # NULL, refresh' = NULL, pc'[c] # pc[c], kind[c] # "logout"
  PROVE  \/ <<refresh, 0>> \in revoked \/ ~active
         \/ trouble[c]
         \/ kind[c] \in {"login", "password"}
         \/ retried[c] /\ ~Valid(token[c])
         \/ proof[c] \notin {NULL, refresh}
<1> USE DEF IInv, TypeInv
<1>1. PICK d \in Calls : Client(d)
  <2>1. ASSUME NEW d \in Calls, Server(d) \/ Fail(d) \/ \E k \in Kinds[d] : Call(d, k)
        PROVE  refresh' = refresh
    BY <2>1 DEF Server, Serve, ServeLogin, ServeLogout, RevokeRefresh, CheckRefresh, Issue,
       Fail, Call, OnServer, storage
  <2>2. Expire(access) \/ (\E t \in Tokens : Expire(t)) \/ (\E s \in Sessions : LogoutRefresh(s))
          \/ Deactivate \/ UNCHANGED vars => refresh' = refresh
    BY DEF Expire, LogoutRefresh, Deactivate, vars, storage
  <2>3. QED
    BY <2>1, <2>2 DEF Next, Done
<1>2. d = c
  BY <1>1 DEF Client, SignedIn, Settled, Settle, Unauthorized, Refresh, RefreshFailed,
     Refreshed, Retry, AuthFailure, Finish, Goto, CallTypes
<1>3. Unauthorized(c) \/ RefreshFailed(c)
  <2>1. ~SignedIn(c)
    <3>1. SUFFICES ASSUME SignedIn(c) PROVE FALSE
      OBVIOUS
    <3>2. granted[c] \in Tokens /\ refresh' = granted[c][1]
      BY <3>1 DEF SignedIn, Store, HoldsInv
    <3>3. QED
      BY <3>2, TokenIsOfSession, SessionIsNotNull
  <2>2. ~Settled(c)
    BY DEF Settled, Settle, Keep, storage
  <2>3. ~Refreshed(c)
    BY DEF Refreshed, Store, HoldsInv
  <2>4. ~Refresh(c) /\ ~Retry(c)
    BY DEF Refresh, Retry, storage
  <2>5. QED
    BY <1>1, <1>2, <2>1, <2>2, <2>3, <2>4 DEF Client
<1>4. CASE Unauthorized(c)
  <2>1. pc[c] = "back" /\ result[c] = "unauthorized" /\ retried[c]
    BY <1>4 DEF Unauthorized
  <2>2. kind[c] \in {"data", "password", "login"}
    BY <2>1 DEF HoldsInv, CallTypes
  <2>3. QED
    BY <2>1, <2>2 DEF CauseInv
<1>5. CASE RefreshFailed(c)
  <2>1. pc[c] = "refresh_back" /\ result[c] # "token"
    BY <1>5 DEF RefreshFailed
  <2>2. proof[c] # NULL
    BY <2>1 DEF HoldsInv
  <2>3. QED
    BY <2>1, <2>2 DEF CauseInv
<1>6. QED
  BY <1>3, <1>4, <1>5

THEOREM EndedTheorem == Spec => EndedForCause
<1>1. IInv /\ [Next]_vars =>
        [\A c \in Calls :
           refresh # NULL /\ refresh' = NULL /\ pc'[c] # pc[c] /\ kind[c] # "logout" =>
             \/ <<refresh, 0>> \in revoked \/ ~active
             \/ trouble[c]
             \/ kind[c] \in {"login", "password"}
             \/ retried[c] /\ ~Valid(token[c])
             \/ proof[c] \notin {NULL, refresh}]_vars
  BY EndedForCauseStep
<1>2. QED
  BY <1>1, InvAlways, PTL DEF Spec, EndedForCause
===========================================================================
