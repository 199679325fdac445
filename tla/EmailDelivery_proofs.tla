----------------------- MODULE EmailDelivery_proofs -----------------------
(***************************************************************************)
(* Proofs about EmailDelivery, for any affected results, any number of     *)
(* resends and every way the database, the SMTP server and the processes   *)
(* may fail.                                                               *)
(***************************************************************************)
EXTENDS EmailDelivery, FiniteSetTheorems, WellFoundedInduction, TLAPS

(***************************************************************************)
(* Recipients are positions in the list of rows, so the loop has a first   *)
(* one and, after each, a next one.                                        *)
(***************************************************************************)
LEMMA RecipientsAreNumbers == Recipients \subseteq Nat \ {0}
BY RowsAssumption DEF Recipients

LEMMA NoRecipientIsNull == NULL \notin Recipients
BY NullAssumption DEF Recipients

LEMMA FirstIsLeast ==
  ASSUME NEW S \in SUBSET Recipients, S # {}
  PROVE  First(S) \in S /\ \A h \in S : First(S) <= h
<1>1. S \subseteq Nat
  BY RecipientsAreNumbers
<1>2. PICK g \in S : \A h \in S : ~ (<<h, g>> \in OpToRel(<, Nat))
  BY <1>1, NatLessThanWellFounded, WFMin
<1>3. \A h \in S : ~ (h < g)
  BY <1>1, <1>2 DEF OpToRel
<1>4. \A h \in S : g <= h
  BY <1>1, <1>3
<1>5. QED
  BY <1>4 DEF First

(***************************************************************************)
(* Where a request goes from a recipient it is through with.               *)
(***************************************************************************)
LEMMA ProceedGoesOn ==
  ASSUME NEW p \in Procs, NEW g \in Recipients, Proceed(p, g)
  PROVE  \/ Goto(p, "done", NULL) /\ (p = "run" => After(g) = {})
         \/ /\ p = "run"
            /\ \E h \in After(g) :
                 Goto(p, "create", h) /\ \A k \in After(g) : h <= k
<1>1. CASE p = "run" /\ After(g) # {}
  <2>1. After(g) \in SUBSET Recipients
    BY DEF After
  <2>2. First(After(g)) \in After(g) /\ \A k \in After(g) : First(After(g)) <= k
    BY <1>1, <2>1, FirstIsLeast
  <2>3. Goto(p, "create", First(After(g)))
    BY <1>1 DEF Proceed
  <2>4. QED
    BY <1>1, <2>2, <2>3
<1>2. CASE ~(p = "run" /\ After(g) # {})
  BY <1>2 DEF Proceed, End
<1>3. QED
  BY <1>1, <1>2

LEMMA ListGoesOn ==
  ASSUME List
  PROVE  \/ Goto("run", "done", NULL) /\ (~trouble' => Recipients = {})
         \/ \E g \in Recipients : Goto("run", "create", g) /\ \A h \in Recipients : g <= h
<1>1. CASE Recipients = {}
  BY <1>1 DEF List, End
<1>2. CASE Recipients # {}
  <2>1. First(Recipients) \in Recipients /\ \A h \in Recipients : First(Recipients) <= h
    BY <1>2, FirstIsLeast
  <2>2. QED
    BY <1>2, <2>1 DEF List, End
<1>3. QED
  BY <1>1, <1>2

LEMMA GotoKeepsTypes ==
  ASSUME TypeOK, NEW p \in Procs,
         NEW l \in {"create", "render", "send", "mark_sent", "mark_failed"},
         NEW g \in Recipients,
         Goto(p, l, g) \/ Goto(p, "done", NULL)
  PROVE  /\ pc' \in [Procs -> {"list", "new", "create", "render", "send",
                               "mark_sent", "mark_failed", "done"}]
         /\ at' \in [Procs -> Recipients \union {NULL}]
         /\ \A q \in Procs : at'[q] = NULL <=> pc'[q] \in {"list", "new", "done"}
BY NoRecipientIsNull DEF TypeOK, Goto

LEMMA BusyHasRecipient ==
  ASSUME TypeOK, NEW p \in Procs,
         pc[p] \in {"create", "render", "send", "mark_sent", "mark_failed"}
  PROVE  at[p] \in Recipients
BY DEF TypeOK

(***************************************************************************)
(* The type invariant is inductive by itself.                              *)
(***************************************************************************)
LEMMA TypeInductive ==
  /\ Init => TypeOK
  /\ TypeOK /\ [Next]_vars => TypeOK'
<1>1. ASSUME Init PROVE TypeOK
  <2>1. /\ row \in [Recipients -> {"absent", "pending", "sent", "failed",
                                  "skipped", "no_email", "invalid"}]
        /\ mails \in [Recipients -> Nat] /\ ordered \in [Recipients -> Nat]
    BY <1>1 DEF Init
  <2>2. pc \in [Procs -> {"list", "new", "create", "render", "send",
                          "mark_sent", "mark_failed", "done"}]
    BY <1>1 DEF Init
  <2>3. at \in [Procs -> Recipients \union {NULL}]
    BY <1>1 DEF Init
  <2>4. \A p \in Procs : at[p] = NULL <=> pc[p] \in {"list", "new", "done"}
    BY <1>1 DEF Init
  <2>5. enabled \in BOOLEAN /\ trouble \in BOOLEAN
    BY <1>1 DEF Init
  <2>6. QED
    BY <2>1, <2>2, <2>3, <2>4, <2>5 DEF TypeOK
<1>2. ASSUME TypeOK, [Next]_vars PROVE TypeOK'
  <2> USE <1>2
  <2> "run" \in Procs
    BY DEF Procs
  <2>1. CASE List
    <3>1. PICK g : Goto("run", "done", NULL) \/ (g \in Recipients /\ Goto("run", "create", g))
      BY <2>1, ListGoesOn
    <3>2. pc' \in [Procs -> {"list", "new", "create", "render", "send",
                              "mark_sent", "mark_failed", "done"}]
      BY <3>1 DEF TypeOK, Goto
    <3>3. at' \in [Procs -> Recipients \union {NULL}]
      BY <3>1 DEF TypeOK, Goto
    <3>4. \A q \in Procs : at'[q] = NULL <=> pc'[q] \in {"list", "new", "done"}
      BY <3>1, NoRecipientIsNull DEF TypeOK, Goto
    <3>5. trouble' \in BOOLEAN
      BY <2>1 DEF List, TypeOK
    <3>6. QED
      BY <2>1, <3>2, <3>3, <3>4, <3>5 DEF List, TypeOK, db
  <2>2. CASE Create
    <3> DEFINE g == at["run"]
    <3>1. g \in Recipients
      BY <2>2, BusyHasRecipient DEF Create
    <3>2. row' \in [Recipients -> {"absent", "pending", "sent", "failed",
                                   "skipped", "no_email", "invalid"}]
      BY <2>2, <3>1 DEF Create, TypeOK, InitialStatus
    <3>3. ordered' \in [Recipients -> Nat] /\ trouble' \in BOOLEAN
      BY <2>2, <3>1 DEF Create, TypeOK
    <3>4. \/ Goto("run", "done", NULL) \/ Goto("run", "render", g)
          \/ \E h \in Recipients : Goto("run", "create", h)
      <4>1. End("run") \/ Goto("run", "render", g) \/ Proceed("run", g)
        BY <2>2 DEF Create
      <4>2. QED
        BY <3>1, <4>1, ProceedGoesOn DEF End, After
    <3>5. QED
      BY <2>2, <3>1, <3>2, <3>3, <3>4, GotoKeepsTypes DEF Create, TypeOK
  <2>3. ASSUME NEW p \in Procs, Render(p) PROVE TypeOK'
    <3>1. at[p] \in Recipients
      BY <2>3, BusyHasRecipient DEF Render
    <3>2. QED
      BY <2>3, <3>1, GotoKeepsTypes DEF Render, End, TypeOK, db
  <2>4. ASSUME NEW p \in Procs, Send(p) PROVE TypeOK'
    <3>1. at[p] \in Recipients
      BY <2>4, BusyHasRecipient DEF Send
    <3>2. mails' \in [Recipients -> Nat]
      BY <2>4, <3>1 DEF Send, TypeOK
    <3>3. Goto(p, "mark_sent", at[p]) \/ Goto(p, "mark_failed", at[p])
      BY <2>4 DEF Send
    <3>4. QED
      BY <2>4, <3>1, <3>2, <3>3, GotoKeepsTypes DEF Send, TypeOK
  <2>5. ASSUME NEW p \in Procs, MarkSent(p) \/ MarkFailed(p) PROVE TypeOK'
    <3>1. at[p] \in Recipients
      BY <2>5, BusyHasRecipient DEF MarkSent, MarkFailed
    <3>2. row' \in [Recipients -> {"absent", "pending", "sent", "failed",
                                   "skipped", "no_email", "invalid"}]
      BY <2>5, <3>1 DEF MarkSent, MarkFailed, TypeOK
    <3>3. UNCHANGED <<mails, ordered, enabled>> /\ trouble' \in BOOLEAN
      BY <2>5 DEF MarkSent, MarkFailed, TypeOK
    <3>4. \/ Goto(p, "done", NULL) \/ Goto(p, "mark_failed", at[p])
          \/ \E h \in Recipients : Goto(p, "create", h)
      <4>1. End(p) \/ Goto(p, "mark_failed", at[p]) \/ Proceed(p, at[p])
        BY <2>5 DEF MarkSent, MarkFailed
      <4>2. QED
        BY <3>1, <4>1, ProceedGoesOn DEF End, After
    <3>5. QED
      BY <3>1, <3>2, <3>3, <3>4, GotoKeepsTypes DEF TypeOK
  <2>6. ASSUME NEW p \in Procs, Crash(p) PROVE TypeOK'
    BY <2>6, NoRecipientIsNull DEF Crash, End, Goto, TypeOK, db
  <2>7. ASSUME NEW r \in Resends, NEW g \in Recipients, Resend(r, g) PROVE TypeOK'
    <3>1. r \in Procs
      BY DEF Procs
    <3>2. ordered' \in [Recipients -> Nat]
      BY <2>7 DEF Resend, TypeOK
    <3>3. QED
      BY <2>7, <3>1, <3>2, GotoKeepsTypes DEF Resend, TypeOK
  <2>8. CASE Reconfigure
    BY <2>8, NoRecipientIsNull DEF Reconfigure, TypeOK, db
  <2>9. CASE UNCHANGED vars
    BY <2>9 DEF vars, TypeOK
  <2>10. ASSUME NEW p \in Procs, Unbuilt(p) PROVE TypeOK'
    <3>1. at[p] \in Recipients
      BY <2>10, BusyHasRecipient DEF Unbuilt
    <3>2. QED
      BY <2>10, <3>1, GotoKeepsTypes DEF Unbuilt, End, TypeOK, db
  <2>11. QED
    BY <2>1, <2>2, <2>3, <2>4, <2>5, <2>6, <2>7, <2>8, <2>9, <2>10 DEF Next, Step
<1>3. QED
  BY <1>1, <1>2

\* Rows, mails and requests keep their types whatever fails: TypeOK of EmailDelivery.
THEOREM EmailTypes == Spec => []TypeOK
<1>1. QED
  BY TypeInductive, PTL DEF Spec

(***************************************************************************)
(* Who is busy with a recipient has its row and an order for its mail, and *)
(* only the run lists and records.                                         *)
(***************************************************************************)
Sending == {"render", "send", "mark_sent", "mark_failed"}

HoldersInv ==
  \A p \in Procs :
    /\ pc[p] \in {"list", "create"} => p = "run"
    /\ pc[p] \in Sending => at[p] \in Reachable /\ row[at[p]] # "absent" /\ ordered[at[p]] > 0
    /\ pc[p] = "mark_sent" => mails[at[p]] > 0

(***************************************************************************)
(* Every mail that left, and every one that somebody is still about to     *)
(* send, was asked for.                                                    *)
(***************************************************************************)
Owing(g) == {p \in Procs : at[p] = g /\ pc[p] \in {"render", "send"}}

MailsInv ==
  \A g \in Recipients :
    /\ row[g] = "absent" => mails[g] = 0 /\ ordered[g] = 0
    /\ IsFiniteSet(Owing(g))
    /\ mails[g] + Cardinality(Owing(g)) <= ordered[g]

\* The recipients the loop has yet to come to have no row.
Ahead(g) ==
  \/ pc["run"] = "list"
  \/ pc["run"] = "create" /\ at["run"] <= g
  \/ pc["run"] \in Sending /\ at["run"] < g

LoopInv ==
  /\ pc["run"] # "new"
  /\ \A g \in Recipients : Ahead(g) => row[g] = "absent"

IInv == TypeOK /\ HoldersInv /\ MailsInv /\ LoopInv

LEMMA RunIsAProcess == "run" \in Procs
BY DEF Procs

(***************************************************************************)
(* How the parts of the invariant survive a request that moves on.         *)
(***************************************************************************)
LEMMA HoldersMove ==
  ASSUME TypeOK, TypeOK', HoldersInv, NEW p \in Procs, NEW l, NEW x, Goto(p, l, x),
         \A g \in Recipients :
           /\ row[g] # "absent" => row'[g] # "absent"
           /\ ordered[g] <= ordered'[g] /\ mails[g] <= mails'[g],
         l \in {"list", "create"} => p = "run",
         l \in Sending => x \in Reachable /\ row'[x] # "absent" /\ ordered'[x] > 0,
         l = "mark_sent" => mails'[x] > 0
  PROVE  HoldersInv'
<1> SUFFICES ASSUME NEW q \in Procs
             PROVE  /\ pc'[q] \in {"list", "create"} => q = "run"
                    /\ pc'[q] \in Sending => at'[q] \in Reachable /\ row'[at'[q]] # "absent"
                                               /\ ordered'[at'[q]] > 0
                    /\ pc'[q] = "mark_sent" => mails'[at'[q]] > 0
  BY DEF HoldersInv, Sending
<1>1. CASE q = p
  BY <1>1 DEF Goto, TypeOK
<1>2. CASE q # p
  <2>1. pc'[q] = pc[q] /\ at'[q] = at[q]
    BY <1>2 DEF Goto, TypeOK
  <2>2. pc[q] \in Sending => at[q] \in Recipients
    BY BusyHasRecipient DEF Sending
  <2>3. pc[q] = "mark_sent" => pc[q] \in Sending
    BY DEF Sending
  <2>4. \A g \in Recipients : ordered[g] \in Nat /\ ordered'[g] \in Nat /\ mails[g] \in Nat /\ mails'[g] \in Nat
    BY DEF TypeOK
  <2>5. QED
    BY <2>1, <2>2, <2>3, <2>4 DEF HoldersInv
<1>3. QED
  BY <1>1, <1>2

LEMMA OwingMoves ==
  ASSUME TypeOK, NEW p \in Procs, NEW l, NEW x, Goto(p, l, x), NEW g
  PROVE  Owing(g)' = IF x = g /\ l \in {"render", "send"} THEN Owing(g) \union {p}
                     ELSE Owing(g) \ {p}
BY DEF Owing, Goto, TypeOK

LEMMA OwingIsFinite ==
  ASSUME MailsInv, NEW g \in Recipients
  PROVE  IsFiniteSet(Owing(g)) /\ Cardinality(Owing(g)) \in Nat
BY FS_CardinalityType DEF MailsInv

LEMMA MailsLetGo ==
  ASSUME TypeOK, MailsInv, NEW p \in Procs, NEW l, NEW x, Goto(p, l, x),
         l \notin {"render", "send"}, UNCHANGED <<mails, ordered>>,
         \A g \in Recipients : row[g] # "absent" => row'[g] # "absent"
  PROVE  MailsInv'
<1> SUFFICES ASSUME NEW g \in Recipients
             PROVE  /\ row'[g] = "absent" => mails'[g] = 0 /\ ordered'[g] = 0
                    /\ IsFiniteSet(Owing(g)')
                    /\ mails'[g] + Cardinality(Owing(g)') <= ordered'[g]
  BY DEF MailsInv
<1>1. Owing(g)' = Owing(g) \ {p}
  BY OwingMoves
<1>2. IsFiniteSet(Owing(g)') /\ Cardinality(Owing(g)') \in Nat
      /\ Cardinality(Owing(g)') <= Cardinality(Owing(g))
  <2>1. Owing(g)' \in SUBSET Owing(g)
    BY <1>1
  <2>2. QED
    BY <2>1, OwingIsFinite, FS_Subset, FS_CardinalityType
<1>3. QED
  BY <1>2, OwingIsFinite DEF MailsInv, TypeOK

LEMMA LoopStays ==
  ASSUME TypeOK, LoopInv, NEW p \in Procs, NEW l, NEW x, p # "run", Goto(p, l, x),
         \A g \in Recipients : row[g] = "absent" => row'[g] = "absent"
  PROVE  LoopInv'
BY RunIsAProcess DEF LoopInv, Ahead, Goto, TypeOK

LEMMA LoopAdvances ==
  ASSUME TypeOK, LoopInv, NEW g \in Recipients, at["run"] = g,
         pc["run"] = "create" \/ pc["run"] \in Sending,
         \A h \in Recipients : h # g => row'[h] = row[h],
         \/ End("run")
         \/ Proceed("run", g)
         \/ \E l \in Sending : Goto("run", l, g)
  PROVE  LoopInv'
<1> USE RunIsAProcess
<1>1. \A h \in Recipients : g < h => row'[h] = "absent"
  BY RecipientsAreNumbers DEF LoopInv, Ahead
<1>2. CASE Goto("run", "done", NULL)
  <2>1. pc'["run"] = "done"
    BY <1>2 DEF Goto, TypeOK
  <2>2. QED
    BY <2>1 DEF LoopInv, Ahead, Sending
<1>3. ASSUME NEW l \in Sending, Goto("run", l, g) PROVE LoopInv'
  <2>1. pc'["run"] = l /\ at'["run"] = g
    BY <1>3 DEF Goto, TypeOK
  <2>2. QED
    BY <2>1, <1>1 DEF LoopInv, Ahead, Sending
<1>4. ASSUME NEW h \in After(g), Goto("run", "create", h) PROVE LoopInv'
  <2>1. pc'["run"] = "create" /\ at'["run"] = h
    BY <1>4 DEF Goto, TypeOK
  <2>2. h \in Recipients /\ g < h
    BY DEF After
  <2>3. \A k \in Recipients : h <= k => g < k
    BY <2>2, RecipientsAreNumbers
  <2>4. QED
    BY <2>1, <2>3, <1>1 DEF LoopInv, Ahead, Sending
<1>5. QED
  BY <1>2, <1>3, <1>4, ProceedGoesOn DEF End

(***************************************************************************)
(* Every action keeps the invariant.                                       *)
(***************************************************************************)
LEMMA InvInit == Init => IInv
<1> SUFFICES ASSUME Init PROVE IInv
  OBVIOUS
<1>1. TypeOK
  BY TypeInductive
<1>2. \A p \in Procs : pc[p] \in {"list", "new"} /\ (pc[p] = "list" => p = "run")
  BY DEF Init
<1>3. HoldersInv
  BY <1>2 DEF HoldersInv, Sending
<1>4. MailsInv
  <2> SUFFICES ASSUME NEW g \in Recipients
               PROVE  /\ row[g] = "absent" => mails[g] = 0 /\ ordered[g] = 0
                      /\ IsFiniteSet(Owing(g))
                      /\ mails[g] + Cardinality(Owing(g)) <= ordered[g]
    BY DEF MailsInv
  <2>1. Owing(g) = {}
    BY <1>2 DEF Owing
  <2>2. mails[g] = 0 /\ ordered[g] = 0
    BY DEF Init
  <2>3. QED
    BY <2>1, <2>2, FS_EmptySet
<1>5. LoopInv
  BY RunIsAProcess DEF Init, LoopInv
<1>6. QED
  BY <1>1, <1>3, <1>4, <1>5 DEF IInv

LEMMA ListKeeps ==
  ASSUME IInv, TypeOK', List
  PROVE  IInv'
<1> USE RunIsAProcess DEF IInv
<1>1. UNCHANGED <<row, mails, ordered>> /\ pc["run"] = "list"
  BY DEF List, db
<1>2. PICK l, x : /\ Goto("run", l, x)
                  /\ \/ l = "done"
                     \/ l = "create" /\ x \in Recipients
  BY ListGoesOn
<1>3. l \notin Sending
  BY <1>2 DEF Sending
<1>4. l # "mark_sent"
  BY <1>2
<1>5. \A g \in Recipients :
        /\ row[g] # "absent" => row'[g] # "absent"
        /\ ordered[g] <= ordered'[g] /\ mails[g] <= mails'[g]
  BY <1>1 DEF TypeOK
<1>6. HoldersInv'
  BY <1>2, <1>3, <1>4, <1>5, HoldersMove
<1>7. MailsInv'
  BY <1>1, <1>2, MailsLetGo
<1>8. LoopInv'
  <2>1. \A g \in Recipients : row'[g] = "absent"
    BY <1>1 DEF LoopInv, Ahead
  <2>2. pc'["run"] = l
    BY <1>2 DEF Goto, TypeOK
  <2>3. QED
    BY <1>2, <2>1, <2>2 DEF LoopInv
<1>9. QED
  BY <1>6, <1>7, <1>8

\* What recording a recipient comes to: nothing recorded and the loop over, or
\* a row of its own and the mail asked for when the row is pending.
LEMMA CreateRecords ==
  ASSUME TypeOK, Create, NEW g, g = at["run"]
  PROVE  /\ g \in Recipients /\ pc["run"] = "create" /\ UNCHANGED mails
         /\ \/ End("run") /\ UNCHANGED <<row, ordered>>
            \/ \E s \in {"pending", "skipped", "no_email", "invalid"} :
                 /\ s = "pending" => g \in Reachable
                 /\ row' = [row EXCEPT ![g] = s]
                 /\ ordered' = IF s = "pending" THEN [ordered EXCEPT ![g] = 1] ELSE ordered
                 /\ \/ End("run")
                    \/ Proceed("run", g)
                    \/ s = "pending" /\ Goto("run", "render", g)
<1>1. g \in Recipients /\ pc["run"] = "create" /\ UNCHANGED mails
  BY RunIsAProcess, BusyHasRecipient DEF Create
<1> DEFINE s == InitialStatus(g)
<1>2. s \in {"pending", "skipped", "no_email", "invalid"}
  BY DEF InitialStatus
<1>3. s = "pending" => g \in Reachable
  <2>1. Rows[g].kind \in {"valid", "bad", "none"}
    <3>1. Rows \in Seq([kind : {"valid", "bad", "none"}, key : STRING, collates : STRING])
      BY RowsAssumption
    <3>2. g \in DOMAIN Rows
      BY <1>1 DEF Recipients
    <3> DEFINE Contact == [kind : {"valid", "bad", "none"}, key : STRING, collates : STRING]
    <3> HIDE DEF Contact
    <3>3. Rows \in Seq(Contact)
      BY <3>1 DEF Contact
    <3>4. Rows[g] \in Contact
      BY <3>2, <3>3
    <3> USE DEF Contact
    <3>5. QED
      BY <3>4
  <2>2. QED
    BY <1>1, <2>1 DEF InitialStatus, Reachable
<1>4. PICK o \in DbOutcomes :
        LET applied == o # "error" /\ ~Taken(g) IN
          /\ row' = IF applied THEN [row EXCEPT ![g] = s] ELSE row
          /\ ordered' = IF applied /\ s = "pending"
                          THEN [ordered EXCEPT ![g] = 1] ELSE ordered
          /\ CASE o # "ok" \/ ~applied                   -> End("run")
               [] o = "ok" /\ applied /\ s = "pending" -> Goto("run", "render", g)
               [] o = "ok" /\ applied /\ s # "pending" -> Proceed("run", g)
  BY DEF Create
<1> HIDE DEF s
<1>5. CASE o # "error" /\ ~Taken(g)
  <2>1. row' = [row EXCEPT ![g] = s]
    BY <1>4, <1>5
  <2>2. ordered' = IF s = "pending" THEN [ordered EXCEPT ![g] = 1] ELSE ordered
    BY <1>4, <1>5
  <2>3. End("run") \/ Proceed("run", g) \/ (s = "pending" /\ Goto("run", "render", g))
    BY <1>4, <1>5
  <2>4. QED
    BY <1>1, <1>2, <1>3, <2>1, <2>2, <2>3
<1>6. CASE ~(o # "error" /\ ~Taken(g))
  <2>1. row' = row /\ ordered' = ordered
    BY <1>4, <1>6
  <2>2. o # "ok" \/ ~(o # "error" /\ ~Taken(g))
    BY <1>6
  <2>3. End("run")
    BY <1>4, <1>6
  <2>4. QED
    BY <1>1, <2>1, <2>3
<1>7. QED
  BY <1>5, <1>6

LEMMA CreateKeeps ==
  ASSUME IInv, TypeOK', Create
  PROVE  IInv'
<1> USE RunIsAProcess DEF IInv
<1>1. PICK g : g = at["run"]
  OBVIOUS
<1>2. g \in Recipients /\ pc["run"] = "create" /\ UNCHANGED mails
  BY <1>1, CreateRecords
<1>3. row[g] = "absent" /\ mails[g] = 0 /\ ordered[g] = 0
  BY <1>1, <1>2, RecipientsAreNumbers DEF LoopInv, Ahead, MailsInv
<1>4. \A h \in Recipients : h # g => row'[h] = row[h] /\ ordered'[h] = ordered[h]
  BY <1>1, <1>2, CreateRecords DEF TypeOK
<1>5. \/ row'[g] = "absent" /\ ordered'[g] = 0
      \/ row'[g] # "absent" /\ ordered'[g] \in {0, 1}
  BY <1>1, <1>2, <1>3, CreateRecords DEF TypeOK
<1>6. \A h \in Recipients :
        /\ row[h] # "absent" => row'[h] # "absent"
        /\ ordered[h] <= ordered'[h] /\ mails[h] <= mails'[h]
  <2> SUFFICES ASSUME NEW h \in Recipients
               PROVE  /\ row[h] # "absent" => row'[h] # "absent"
                      /\ ordered[h] <= ordered'[h] /\ mails[h] <= mails'[h]
    OBVIOUS
  <2>1. ordered[h] \in Nat /\ mails[h] \in Nat
    BY DEF TypeOK
  <2>2. CASE h = g
    BY <1>2, <1>3, <1>5, <2>1, <2>2
  <2>3. CASE h # g
    BY <1>2, <1>4, <2>1, <2>3
  <2>4. QED
    BY <2>2, <2>3
<1>7. LoopInv'
  <2>1. End("run") \/ Proceed("run", g) \/ Goto("run", "render", g)
    BY <1>1, CreateRecords
  <2>2. "render" \in Sending
    BY DEF Sending
  <2>3. QED
    BY <1>1, <1>2, <1>4, <2>1, <2>2, LoopAdvances
<1>8. Owing(g) = {} /\ \A h \in Recipients : "run" \notin Owing(h)
  <2>1. \A p \in Procs : pc[p] \in Sending => row[at[p]] # "absent"
    BY DEF HoldersInv
  <2>2. QED
    BY <1>2, <1>3, <2>1 DEF Owing, Sending
<1>9. CASE End("run") \/ Proceed("run", g)
  <2>1. PICK l, x : Goto("run", l, x) /\ l \in {"done", "create"}
    <3>1. CASE End("run")
      BY <3>1 DEF End
    <3>2. CASE Proceed("run", g)
      BY <1>2, <3>2, ProceedGoesOn
    <3>3. QED
      BY <1>9, <3>1, <3>2
  <2>2. l \notin Sending /\ l # "mark_sent" /\ l \notin {"render", "send"}
    BY <2>1 DEF Sending
  <2>3. HoldersInv'
    BY <1>6, <2>1, <2>2, HoldersMove
  <2>4. \A h \in Recipients : Owing(h)' = Owing(h)
    <3>1. \A h \in Recipients : Owing(h)' = Owing(h) \ {"run"}
      BY <2>1, <2>2, OwingMoves
    <3>2. QED
      BY <1>8, <3>1
  <2>5. MailsInv'
    <3> SUFFICES ASSUME NEW h \in Recipients
                 PROVE  /\ row'[h] = "absent" => mails'[h] = 0 /\ ordered'[h] = 0
                        /\ IsFiniteSet(Owing(h)')
                        /\ mails'[h] + Cardinality(Owing(h)') <= ordered'[h]
      BY DEF MailsInv
    <3>1. CASE h = g
      <4>1. Owing(h)' = {}
        BY <1>8, <2>4, <3>1
      <4>2. QED
        BY <1>2, <1>3, <1>5, <3>1, <4>1, FS_EmptySet
    <3>2. CASE h # g
      BY <1>2, <1>4, <2>4, <3>2 DEF MailsInv
    <3>3. QED
      BY <3>1, <3>2
  <2>6. QED
    BY <1>7, <2>3, <2>5
<1>10. CASE ~(End("run") \/ Proceed("run", g))
  <2>1. /\ g \in Reachable
        /\ row' = [row EXCEPT ![g] = "pending"]
        /\ ordered' = [ordered EXCEPT ![g] = 1]
        /\ Goto("run", "render", g)
    BY <1>1, <1>10, CreateRecords
  <2>2. row'[g] = "pending" /\ ordered'[g] = 1
    BY <1>2, <2>1 DEF TypeOK
  <2>3. HoldersInv'
    BY <1>6, <2>1, <2>2, HoldersMove DEF Sending
  <2>4. \A h \in Recipients : Owing(h)' = IF h = g THEN {"run"} ELSE Owing(h)
    <3>1. \A h \in Recipients : Owing(h)' = IF g = h THEN Owing(h) \union {"run"}
                                            ELSE Owing(h) \ {"run"}
      BY <2>1, OwingMoves
    <3>2. QED
      BY <1>8, <3>1
  <2>5. MailsInv'
    <3> SUFFICES ASSUME NEW h \in Recipients
                 PROVE  /\ row'[h] = "absent" => mails'[h] = 0 /\ ordered'[h] = 0
                        /\ IsFiniteSet(Owing(h)')
                        /\ mails'[h] + Cardinality(Owing(h)') <= ordered'[h]
      BY DEF MailsInv
    <3>1. CASE h = g
      <4>1. Owing(h)' = {"run"}
        BY <2>4, <3>1
      <4>2. QED
        <5>1. IsFiniteSet({"run"}) /\ Cardinality({"run"}) = 1
          BY FS_Singleton
        <5>2. mails'[h] = 0 /\ ordered'[h] = 1 /\ row'[h] # "absent"
          BY <1>2, <1>3, <2>2, <3>1
        <5>3. QED
          BY <4>1, <5>1, <5>2
    <3>2. CASE h # g
      BY <1>2, <1>4, <2>4, <3>2 DEF MailsInv
    <3>3. QED
      BY <3>1, <3>2
  <2>6. QED
    BY <1>7, <2>3, <2>5
<1>11. QED
  BY <1>9, <1>10

LEMMA RenderKeeps ==
  ASSUME IInv, TypeOK', NEW p \in Procs, Render(p)
  PROVE  IInv'
<1> USE RunIsAProcess DEF IInv
<1>1. UNCHANGED <<row, mails, ordered>> /\ pc[p] = "render" /\ at[p] \in Recipients
  BY BusyHasRecipient DEF Render, db
<1>2. End(p) \/ Goto(p, "send", at[p])
  BY DEF Render
<1>3. PICK l, x : /\ Goto(p, l, x)
                  /\ \/ l = "done"
                     \/ l = "send" /\ x = at[p]
  BY <1>2 DEF End
<1>4. \A g \in Recipients :
        /\ row[g] # "absent" => row'[g] # "absent"
        /\ ordered[g] <= ordered'[g] /\ mails[g] <= mails'[g]
  BY <1>1 DEF TypeOK
<1>5. HoldersInv'
  <2>1. at[p] \in Reachable /\ row'[at[p]] # "absent" /\ ordered'[at[p]] > 0
    BY <1>1 DEF HoldersInv, Sending
  <2>2. QED
    BY <1>3, <1>4, <2>1, HoldersMove DEF Sending
<1>6. MailsInv'
  <2>1. CASE l = "done"
    BY <1>1, <1>3, <2>1, MailsLetGo
  <2>2. CASE l = "send" /\ x = at[p]
    <3>1. \A g \in Recipients : Owing(g)' = Owing(g)
      BY <1>1, <1>3, <2>2, OwingMoves DEF Owing
    <3>2. QED
      BY <1>1, <3>1 DEF MailsInv
  <2>3. QED
    BY <1>3, <2>1, <2>2
<1>7. LoopInv'
  <2>1. CASE p = "run"
    BY <1>1, <1>2, <2>1, LoopAdvances DEF Sending
  <2>2. CASE p # "run"
    BY <1>1, <1>3, <2>2, LoopStays
  <2>3. QED
    BY <2>1, <2>2
<1>8. QED
  BY <1>5, <1>6, <1>7

LEMMA UnbuiltKeeps ==
  ASSUME IInv, TypeOK', NEW p \in Procs, Unbuilt(p)
  PROVE  IInv'
<1> USE RunIsAProcess DEF IInv
<1>1. UNCHANGED <<row, mails, ordered>> /\ pc[p] = "send" /\ at[p] \in Recipients
  BY BusyHasRecipient DEF Unbuilt, db
<1>2. IF p = "run" THEN Goto(p, "mark_failed", at[p]) ELSE End(p)
  BY DEF Unbuilt
<1>3. PICK l, x : /\ Goto(p, l, x)
                  /\ \/ l = "done"
                     \/ l = "mark_failed" /\ x = at[p]
  BY <1>2 DEF End
<1>4. \A g \in Recipients :
        /\ row[g] # "absent" => row'[g] # "absent"
        /\ ordered[g] <= ordered'[g] /\ mails[g] <= mails'[g]
  BY <1>1 DEF TypeOK
<1>5. HoldersInv'
  <2>1. at[p] \in Reachable /\ row'[at[p]] # "absent" /\ ordered'[at[p]] > 0
    BY <1>1 DEF HoldersInv, Sending
  <2>2. QED
    BY <1>3, <1>4, <2>1, HoldersMove DEF Sending
<1>6. MailsInv'
  BY <1>1, <1>3, MailsLetGo
<1>7. LoopInv'
  <2>1. CASE p = "run"
    BY <1>1, <1>2, <2>1, LoopAdvances DEF Sending
  <2>2. CASE p # "run"
    BY <1>1, <1>3, <2>2, LoopStays
  <2>3. QED
    BY <2>1, <2>2
<1>8. QED
  BY <1>5, <1>6, <1>7

LEMMA SendKeeps ==
  ASSUME IInv, TypeOK', NEW p \in Procs, Send(p)
  PROVE  IInv'
<1> USE RunIsAProcess DEF IInv
<1> DEFINE g == at[p]
<1>1. UNCHANGED <<row, ordered>> /\ pc[p] = "send" /\ g \in Recipients
  BY BusyHasRecipient DEF Send
<1>2. PICK l : /\ Goto(p, l, g)
               /\ \/ l = "mark_sent" /\ mails' = [mails EXCEPT ![g] = @ + 1]
                  \/ l = "mark_failed" /\ mails' \in {mails, [mails EXCEPT ![g] = @ + 1]}
  BY OutcomesAssumption DEF Send
<1>3. /\ \A h \in Recipients : h # g => mails'[h] = mails[h]
      /\ mails'[g] = mails[g] \/ mails'[g] = mails[g] + 1
      /\ l = "mark_sent" => mails'[g] = mails[g] + 1
  BY <1>1, <1>2 DEF TypeOK
<1>4. \A h \in Recipients : mails[h] \in Nat /\ ordered[h] \in Nat
  BY DEF TypeOK
<1>5. \A h \in Recipients :
        /\ row[h] # "absent" => row'[h] # "absent"
        /\ ordered[h] <= ordered'[h] /\ mails[h] <= mails'[h]
  BY <1>1, <1>3, <1>4
<1>6. g \in Reachable /\ row[g] # "absent" /\ ordered[g] > 0
  BY <1>1 DEF HoldersInv, Sending
<1>7. HoldersInv'
  <2>1. l = "mark_sent" => mails'[g] > 0
    BY <1>1, <1>3, <1>4
  <2>2. l \notin {"list", "create"}
    BY <1>2
  <2>3. g \in Reachable /\ row'[g] # "absent" /\ ordered'[g] > 0
    BY <1>1, <1>6
  <2>4. QED
    BY <1>2, <1>5, <2>1, <2>2, <2>3, HoldersMove
<1>8. MailsInv'
  <2> SUFFICES ASSUME NEW h \in Recipients
               PROVE  /\ row'[h] = "absent" => mails'[h] = 0 /\ ordered'[h] = 0
                      /\ IsFiniteSet(Owing(h)')
                      /\ mails'[h] + Cardinality(Owing(h)') <= ordered'[h]
    BY DEF MailsInv
  <2>1. Owing(h)' = Owing(h) \ {p}
    BY <1>2, OwingMoves
  <2>2. IsFiniteSet(Owing(h)) /\ Cardinality(Owing(h)) \in Nat
    BY OwingIsFinite
  <2>3. CASE h = g
    <3>1. p \in Owing(h)
      BY <1>1, <2>3 DEF Owing
    <3>2. IsFiniteSet(Owing(h)') /\ Cardinality(Owing(h)') = Cardinality(Owing(h)) - 1
      BY <2>1, <2>2, <3>1, FS_RemoveElement
    <3>3. mails[h] + Cardinality(Owing(h)) <= ordered[h]
      BY DEF MailsInv
    <3>4. QED
      BY <1>1, <1>3, <1>4, <1>6, <2>2, <2>3, <3>2, <3>3
  <2>4. CASE h # g
    <3>1. Owing(h)' = Owing(h)
      BY <2>1, <2>4 DEF Owing
    <3>2. QED
      BY <1>1, <1>3, <2>4, <3>1 DEF MailsInv
  <2>5. QED
    BY <2>3, <2>4
<1>9. LoopInv'
  <2>1. CASE p = "run"
    <3>1. \E k \in Sending : Goto("run", k, g)
      BY <1>2, <2>1 DEF Sending
    <3>2. pc["run"] \in Sending
      BY <1>1, <2>1 DEF Sending
    <3>3. QED
      BY <1>1, <2>1, <3>1, <3>2, LoopAdvances
  <2>2. CASE p # "run"
    BY <1>1, <1>2, <2>2, LoopStays
  <2>3. QED
    BY <2>1, <2>2
<1>10. QED
  BY <1>7, <1>8, <1>9

LEMMA MarkSettles ==
  ASSUME TypeOK, NEW p \in Procs, MarkSent(p) \/ MarkFailed(p)
  PROVE  /\ at[p] \in Recipients /\ pc[p] \in {"mark_sent", "mark_failed"}
         /\ UNCHANGED <<mails, ordered, enabled>>
         /\ \/ row' = row
            \/ pc[p] = "mark_sent" /\ row' = [row EXCEPT ![at[p]] = "sent"]
            \/ row' = [row EXCEPT ![at[p]] = "failed"]
         /\ End(p) \/ Goto(p, "mark_failed", at[p]) \/ Proceed(p, at[p])
<1>1. at[p] \in Recipients
  BY BusyHasRecipient DEF MarkSent, MarkFailed
<1>2. CASE MarkSent(p)
  BY <1>1, <1>2 DEF MarkSent
<1>3. CASE MarkFailed(p)
  BY <1>1, <1>3 DEF MarkFailed
<1>4. QED
  BY <1>2, <1>3

LEMMA MarkKeeps ==
  ASSUME IInv, TypeOK', NEW p \in Procs, MarkSent(p) \/ MarkFailed(p)
  PROVE  IInv'
<1> USE RunIsAProcess DEF IInv
<1>1. PICK g : g = at[p]
  OBVIOUS
<1>2. /\ g \in Recipients /\ pc[p] \in {"mark_sent", "mark_failed"}
      /\ UNCHANGED <<mails, ordered>>
      /\ \E s \in {"sent", "failed"} : row' \in {row, [row EXCEPT ![g] = s]}
      /\ End(p) \/ Goto(p, "mark_failed", g) \/ Proceed(p, g)
  BY <1>1, MarkSettles
<1>3. /\ \A h \in Recipients : h # g => row'[h] = row[h]
      /\ \A h \in Recipients : row[h] # "absent" => row'[h] # "absent"
  BY <1>2 DEF TypeOK
<1>4. g \in Reachable /\ row[g] # "absent" /\ ordered[g] > 0
  BY <1>1, <1>2 DEF HoldersInv, Sending
<1>5. \A h \in Recipients :
        /\ row[h] # "absent" => row'[h] # "absent"
        /\ ordered[h] <= ordered'[h] /\ mails[h] <= mails'[h]
  BY <1>2, <1>3 DEF TypeOK
<1>6. PICK l, x : /\ Goto(p, l, x)
                  /\ \/ l = "done"
                     \/ l = "create" /\ p = "run"
                     \/ l = "mark_failed" /\ x = g
  <2>1. CASE End(p)
    BY <2>1 DEF End
  <2>2. CASE Proceed(p, g)
    BY <1>2, <2>2, ProceedGoesOn
  <2>3. QED
    BY <1>2, <2>1, <2>2
<1>7. HoldersInv'
  <2>1. CASE l = "done" \/ (l = "create" /\ p = "run")
    <3>1. l \notin Sending /\ l # "mark_sent"
      BY <2>1 DEF Sending
    <3>2. QED
      BY <1>5, <1>6, <2>1, <3>1, HoldersMove
  <2>2. CASE l = "mark_failed" /\ x = g
    <3>1. row'[x] # "absent" /\ ordered'[x] > 0 /\ x \in Reachable
      BY <1>2, <1>3, <1>4, <2>2
    <3>2. QED
      BY <1>5, <1>6, <2>2, <3>1, HoldersMove
  <2>3. QED
    BY <1>6, <2>1, <2>2
<1>8. MailsInv'
  BY <1>2, <1>3, <1>6, MailsLetGo
<1>9. LoopInv'
  <2>1. CASE p = "run"
    <3>1. pc["run"] \in Sending
      BY <1>2, <2>1 DEF Sending
    <3>2. "mark_failed" \in Sending
      BY DEF Sending
    <3>3. QED
      BY <1>1, <1>2, <1>3, <2>1, <3>1, <3>2, LoopAdvances
  <2>2. CASE p # "run"
    <3>1. row[g] # "absent"
      BY <1>4
    <3>2. \A h \in Recipients : row[h] = "absent" => row'[h] = "absent"
      BY <1>3, <3>1
    <3>3. QED
      BY <1>6, <2>2, <3>2, LoopStays
  <2>3. QED
    BY <2>1, <2>2
<1>10. QED
  BY <1>7, <1>8, <1>9

LEMMA CrashKeeps ==
  ASSUME IInv, TypeOK', NEW p \in Procs, Crash(p)
  PROVE  IInv'
<1> USE RunIsAProcess DEF IInv
<1>1. Goto(p, "done", NULL) /\ UNCHANGED <<row, mails, ordered>>
  BY DEF Crash, End, db
<1>2. \A g \in Recipients : ordered[g] \in Nat /\ mails[g] \in Nat
  BY DEF TypeOK
<1>3. HoldersInv'
  BY <1>1, <1>2, HoldersMove DEF Sending
<1>4. MailsInv'
  BY <1>1, MailsLetGo
<1>5. LoopInv'
  <2>1. CASE p = "run"
    <3>1. pc'["run"] = "done"
      BY <1>1, <2>1 DEF Goto, TypeOK
    <3>2. QED
      BY <3>1 DEF LoopInv, Ahead, Sending
  <2>2. CASE p # "run"
    BY <1>1, <2>2, LoopStays
  <2>3. QED
    BY <2>1, <2>2
<1>6. QED
  BY <1>3, <1>4, <1>5

LEMMA ResendKeeps ==
  ASSUME IInv, TypeOK', NEW r \in Resends, NEW g \in Recipients, Resend(r, g)
  PROVE  IInv'
<1> USE RunIsAProcess DEF IInv
<1>1. /\ r \in Procs /\ r # "run" /\ pc[r] = "new"
      /\ row[g] # "absent" /\ g \in Reachable
      /\ Goto(r, "render", g) /\ UNCHANGED <<row, mails>>
      /\ ordered' = [ordered EXCEPT ![g] = @ + 1]
  BY DEF Resend, Procs, LoopInv
<1>2. /\ \A h \in Recipients : ordered[h] \in Nat /\ mails[h] \in Nat
      /\ ordered'[g] = ordered[g] + 1
      /\ \A h \in Recipients : h # g => ordered'[h] = ordered[h]
  BY <1>1 DEF TypeOK
<1>3. \A h \in Recipients :
        /\ row[h] # "absent" => row'[h] # "absent"
        /\ ordered[h] <= ordered'[h] /\ mails[h] <= mails'[h]
  BY <1>1, <1>2
<1>4. HoldersInv'
  <2>1. row'[g] # "absent" /\ ordered'[g] > 0
    BY <1>1, <1>2
  <2>2. QED
    BY <1>1, <1>3, <2>1, HoldersMove
<1>5. MailsInv'
  <2> SUFFICES ASSUME NEW h \in Recipients
               PROVE  /\ row'[h] = "absent" => mails'[h] = 0 /\ ordered'[h] = 0
                      /\ IsFiniteSet(Owing(h)')
                      /\ mails'[h] + Cardinality(Owing(h)') <= ordered'[h]
    BY DEF MailsInv
  <2>1. IsFiniteSet(Owing(h)) /\ Cardinality(Owing(h)) \in Nat
        /\ mails[h] + Cardinality(Owing(h)) <= ordered[h] /\ r \notin Owing(h)
    BY <1>1, OwingIsFinite DEF MailsInv, Owing
  <2>2. CASE h = g
    <3>1. Owing(h)' = Owing(h) \union {r}
      BY <1>1, <2>2, OwingMoves
    <3>2. IsFiniteSet(Owing(h)') /\ Cardinality(Owing(h)') = Cardinality(Owing(h)) + 1
      BY <2>1, <3>1, FS_AddElement
    <3>3. QED
      BY <1>1, <1>2, <2>1, <2>2, <3>2
  <2>3. CASE h # g
    <3>1. Owing(h)' = Owing(h)
      BY <1>1, <2>1, <2>3, OwingMoves
    <3>2. QED
      BY <1>1, <1>2, <2>3, <3>1 DEF MailsInv
  <2>4. QED
    BY <2>2, <2>3
<1>6. LoopInv'
  BY <1>1, LoopStays
<1>7. QED
  BY <1>4, <1>5, <1>6

LEMMA ReconfigureKeeps ==
  ASSUME IInv, TypeOK', Reconfigure
  PROVE  IInv'
<1> USE RunIsAProcess DEF IInv
<1>1. UNCHANGED <<row, mails, ordered>>
  BY DEF Reconfigure, db
<1>2. \A p \in Procs : pc'[p] \in {"new", "done"} /\ (pc'[p] = "new" <=> pc[p] = "new")
  BY DEF Reconfigure
<1>3. HoldersInv'
  BY <1>2 DEF HoldersInv, Sending
<1>4. MailsInv'
  <2> SUFFICES ASSUME NEW g \in Recipients
               PROVE  /\ row'[g] = "absent" => mails'[g] = 0 /\ ordered'[g] = 0
                      /\ IsFiniteSet(Owing(g)')
                      /\ mails'[g] + Cardinality(Owing(g)') <= ordered'[g]
    BY DEF MailsInv
  <2>1. Owing(g)' = {}
    BY <1>2 DEF Owing
  <2>2. Cardinality({}) = 0 /\ IsFiniteSet({})
    BY FS_EmptySet
  <2>3. mails[g] \in Nat /\ ordered[g] \in Nat
    BY DEF TypeOK
  <2>4. QED
    BY <1>1, <2>1, <2>2, <2>3, OwingIsFinite DEF MailsInv
<1>5. LoopInv'
  <2>1. pc'["run"] = "done"
    BY <1>2 DEF LoopInv
  <2>2. QED
    BY <2>1 DEF LoopInv, Ahead, Sending
<1>6. QED
  BY <1>3, <1>4, <1>5

LEMMA InvInductive == IInv /\ [Next]_vars => IInv'
<1> SUFFICES ASSUME IInv, [Next]_vars PROVE IInv'
  OBVIOUS
<1>1. TypeOK'
  BY TypeInductive DEF IInv
<1>2. CASE List
  BY <1>1, <1>2, ListKeeps
<1>3. CASE Create
  BY <1>1, <1>3, CreateKeeps
<1>4. ASSUME NEW p \in Procs, Step(p) \/ Crash(p) PROVE IInv'
  BY <1>1, <1>4, RenderKeeps, UnbuiltKeeps, SendKeeps, MarkKeeps, CrashKeeps DEF Step
<1>5. ASSUME NEW r \in Resends, NEW g \in Recipients, Resend(r, g) PROVE IInv'
  BY <1>1, <1>5, ResendKeeps
<1>6. CASE Reconfigure
  BY <1>1, <1>6, ReconfigureKeeps
<1>7. CASE UNCHANGED vars
  <2>1. \A g \in Recipients : Owing(g)' = Owing(g)
    BY <1>7 DEF Owing, vars
  <2>2. QED
    BY <1>1, <1>7, <2>1
    DEF IInv, HoldersInv, MailsInv, LoopInv, Ahead, vars
<1>8. QED
  BY <1>2, <1>3, <1>4, <1>5, <1>6, <1>7 DEF Next

(***************************************************************************)
(* Every step of the requests is a step of the contract, or none.          *)
(***************************************************************************)
LEMMA InitIsContractInit == Init => Contract!Init
BY DEF Init, Contract!Init

LEMMA StepIsContractStep ==
  ASSUME IInv, [Next]_vars
  PROVE  [Contract!Next]_(Contract!vars)
<1> USE RunIsAProcess
<1> SUFFICES ASSUME ~UNCHANGED <<row, mails, ordered>> PROVE Contract!Next
  BY DEF Contract!vars
<1>1. ~UNCHANGED vars
  BY DEF vars
<1>2. CASE Create
  <2>1. PICK g : g = at["run"]
    OBVIOUS
  <2>2. g \in Recipients /\ pc["run"] = "create" /\ UNCHANGED mails
    BY <1>2, <2>1, CreateRecords DEF IInv
  <2>3. PICK s \in {"pending", "skipped", "no_email", "invalid"} :
          /\ s = "pending" => g \in Reachable
          /\ row' = [row EXCEPT ![g] = s]
          /\ ordered' = IF s = "pending" THEN [ordered EXCEPT ![g] = 1] ELSE ordered
    BY <1>2, <2>1, <2>2, CreateRecords DEF IInv
  <2>4. row[g] = "absent"
    BY <2>1, <2>2, RecipientsAreNumbers DEF IInv, LoopInv, Ahead
  <2>5. Contract!Record(g, s)
    BY <2>2, <2>3, <2>4 DEF Contract!Record
  <2>6. QED
    BY <2>2, <2>5 DEF Contract!Next
<1>3. ASSUME NEW r \in Resends, NEW g \in Recipients, Resend(r, g) PROVE Contract!Next
  <2>1. Contract!Order(g)
    BY <1>3 DEF Resend, Contract!Order
  <2>2. QED
    BY <2>1 DEF Contract!Next
<1>4. ASSUME NEW p \in Procs, Send(p) PROVE Contract!Next
  <2>1. PICK g : g = at[p]
    OBVIOUS
  <2>2. g \in Recipients /\ pc[p] = "send" /\ UNCHANGED <<row, ordered>>
    BY <1>4, <2>1, BusyHasRecipient DEF Send, IInv
  <2>3. mails' = [mails EXCEPT ![g] = @ + 1]
    BY <1>4, <2>1, <2>2 DEF Send
  <2>4. mails[g] < ordered[g]
    <3>1. p \in Owing(g)
      BY <2>1, <2>2 DEF Owing
    <3>2. IsFiniteSet(Owing(g)) /\ Cardinality(Owing(g)) \in Nat
      BY <2>2, OwingIsFinite DEF IInv
    <3>3. Cardinality(Owing(g)) # 0
      BY <3>1, <3>2, FS_EmptySet
    <3>4. mails[g] \in Nat /\ ordered[g] \in Nat /\ mails[g] + Cardinality(Owing(g)) <= ordered[g]
      BY <2>2 DEF IInv, TypeOK, MailsInv
    <3>5. QED
      BY <3>2, <3>3, <3>4
  <2>5. Contract!Mail(g)
    BY <2>2, <2>3, <2>4 DEF Contract!Mail
  <2>6. QED
    BY <2>2, <2>5 DEF Contract!Next
<1>5. ASSUME NEW p \in Procs, MarkSent(p) \/ MarkFailed(p) PROVE Contract!Next
  <2>1. PICK g : g = at[p]
    OBVIOUS
  <2>2. /\ g \in Recipients /\ pc[p] \in {"mark_sent", "mark_failed"}
        /\ UNCHANGED <<mails, ordered>>
        /\ \/ row' = row
           \/ pc[p] = "mark_sent" /\ row' = [row EXCEPT ![g] = "sent"]
           \/ row' = [row EXCEPT ![g] = "failed"]
    BY <1>5, <2>1, MarkSettles DEF IInv
  <2>3. ordered[g] > 0 /\ (pc[p] = "mark_sent" => mails[g] > 0)
    BY <2>1, <2>2 DEF IInv, HoldersInv, Sending
  <2>4. Contract!Settle(g, "sent") \/ Contract!Settle(g, "failed")
    BY <2>2, <2>3 DEF Contract!Settle
  <2>5. QED
    BY <2>2, <2>4 DEF Contract!Next
<1>6. QED
  BY <1>1, <1>2, <1>3, <1>4, <1>5
  DEF Next, Step, List, Render, Unbuilt, Crash, Reconfigure, db, vars

(***************************************************************************)
(* Whatever fails, and whoever resends, email_deliveries and the mails     *)
(* that left keep EmailContract: a row per recipient written before its    *)
(* mail, no mail more than the run and the operators asked for, no row     *)
(* sent without an accepted mail.                                          *)
(***************************************************************************)
THEOREM DeliveriesKeepContract == Spec => ContractSpec
<1>1. Spec => []IInv
  BY InvInit, InvInductive, PTL DEF Spec
<1>2. IInv /\ [Next]_vars => [Contract!Next]_(Contract!vars)
  BY StepIsContractStep
<1>3. QED
  BY <1>1, <1>2, InitIsContractInit, PTL DEF Spec, ContractSpec, Contract!Spec

(***************************************************************************)
(* As long as nothing failed, whoever the loop has passed is told about.   *)
(***************************************************************************)
Told(g) ==
  \/ row[g] \notin {"absent", "pending"}
  \/ \E h \in Recipients : h <= g /\ Indistinct(h)

Behind(g) ==
  \/ pc["run"] = "done"
  \/ pc["run"] \in {"create"} \union Sending /\ g < at["run"]

ToldInv == ~trouble => \A g \in Recipients : Behind(g) => Told(g)

\* A row that changes is a row that says what became of its recipient.
LEMMA ToldStays ==
  ASSUME NEW g \in Recipients, Told(g),
         row'[g] = row[g] \/ row'[g] \notin {"absent", "pending"}
  PROVE  Told(g)'
BY DEF Told, Indistinct

\* A loop that is through with a recipient it told about keeps ToldInv.
LEMMA ToldProceeds ==
  ASSUME TypeOK, NEW g \in Recipients, Proceed("run", g),
         \A k \in Recipients : k <= g => Told(k)'
  PROVE  ToldInv'
<1> USE RunIsAProcess, RecipientsAreNumbers
<1>1. CASE After(g) = {}
  <2>1. \A k \in Recipients : k <= g
    BY <1>1 DEF After
  <2>2. QED
    BY <2>1 DEF ToldInv
<1>2. ASSUME NEW h \in After(g), Goto("run", "create", h), \A k \in After(g) : h <= k
      PROVE  ToldInv'
  <2>1. pc'["run"] = "create" /\ at'["run"] = h /\ h \in Recipients
    BY <1>2 DEF Goto, TypeOK, After
  <2>2. ASSUME NEW k \in Recipients, k < h PROVE k <= g
    BY <1>2, <2>1, <2>2 DEF After
  <2>3. QED
    BY <2>1, <2>2 DEF ToldInv, Behind
<1>3. QED
  BY <1>1, <1>2, ProceedGoesOn

LEMMA ToldInit == Init => ToldInv
BY RunIsAProcess DEF Init, ToldInv, Behind, Sending

LEMMA ToldInductive ==
  ASSUME IInv, ToldInv, [Next]_vars
  PROVE  ToldInv'
<1> USE RunIsAProcess DEF IInv
<1> SUFFICES ASSUME ~trouble' PROVE ToldInv'
  BY DEF ToldInv
<1>1. ~trouble
  <2>1. \A p \in Procs : Step(p) \/ Crash(p) => trouble' \in {trouble, TRUE}
    BY DEF Step, Render, Unbuilt, Send, MarkSent, MarkFailed, Crash, TypeOK
  <2>2. CASE List
    BY <2>2 DEF List
  <2>3. CASE Create \/ Reconfigure \/ UNCHANGED vars
    BY <2>3 DEF Create, Reconfigure, vars
  <2>4. ASSUME NEW r \in Resends, NEW g \in Recipients, Resend(r, g) PROVE ~trouble
    BY <2>4 DEF Resend
  <2>5. QED
    BY <2>1, <2>2, <2>3, <2>4 DEF Next, TypeOK
<1>2. \A g \in Recipients : Behind(g) => Told(g)
  BY <1>1 DEF ToldInv
<1>3. CASE List
  <2>1. CASE Recipients = {}
    BY <2>1 DEF ToldInv
  <2>2. ASSUME NEW g \in Recipients, Goto("run", "create", g), \A h \in Recipients : g <= h
        PROVE  ToldInv'
    <3>1. pc'["run"] = "create" /\ at'["run"] = g
      BY <2>2 DEF Goto, TypeOK
    <3>2. \A h \in Recipients : ~(h < g)
      BY <2>2, RecipientsAreNumbers
    <3>3. QED
      BY <3>1, <3>2 DEF ToldInv, Behind
  <2>3. QED
    BY <1>3, <2>1, <2>2, ListGoesOn
<1>4. CASE Create
  <2>1. PICK g : g = at["run"]
    OBVIOUS
  <2>2. g \in Recipients /\ pc["run"] = "create" /\ UNCHANGED mails
    BY <1>4, <2>1, CreateRecords
  <2>3. \A k \in Recipients : k < g => Told(k)
    BY <1>2, <2>1, <2>2 DEF Behind
  <2>4. CASE Taken(g)
    <3>1. UNCHANGED row
      BY <1>4, <2>1, <2>4 DEF Create
    <3>2. PICK h \in Recipients : /\ row[h] # "absent"
                                  /\ Rows[h].kind # "none" /\ Rows[g].kind # "none"
                                  /\ Rows[h].collates = Rows[g].collates
      BY <2>4 DEF Taken
    <3>3. h < g
      <4>1. ~(g <= h)
        BY <2>1, <2>2, <3>2 DEF LoopInv, Ahead
      <4>2. QED
        BY <2>2, <4>1, RecipientsAreNumbers
    <3>4. Indistinct(g)
      BY <3>2, <3>3 DEF Indistinct
    <3>5. ASSUME NEW k \in Recipients PROVE Told(k)
      <4>1. k < g \/ g <= k
        BY <2>2, RecipientsAreNumbers
      <4>2. QED
        BY <2>2, <2>3, <3>4, <4>1 DEF Told
    <3>6. QED
      BY <3>1, <3>5, ToldStays DEF ToldInv
  <2>5. CASE ~Taken(g)
    <3> DEFINE s == InitialStatus(g)
    <3>1. PICK o \in DbOutcomes :
            LET applied == o # "error" /\ ~Taken(g) IN
            /\ row' = IF applied THEN [row EXCEPT ![g] = s] ELSE row
            /\ trouble' = (trouble \/ o # "ok")
            /\ CASE o # "ok" \/ ~applied                   -> End("run")
                 [] o = "ok" /\ applied /\ s = "pending" -> Goto("run", "render", g)
                 [] o = "ok" /\ applied /\ s # "pending" -> Proceed("run", g)
      BY <1>4, <2>1 DEF Create
    <3>2. s \in {"pending", "skipped", "no_email", "invalid"}
      BY DEF InitialStatus
    <3> HIDE DEF s
    <3>3. o = "ok"
      BY <3>1
    <3>4. row' = [row EXCEPT ![g] = s]
      BY <2>5, <3>1, <3>3
    <3>5. \A k \in Recipients : k < g => Told(k)'
      BY <2>2, <2>3, <3>4, ToldStays, RecipientsAreNumbers DEF TypeOK
    <3>6. CASE s = "pending"
      <4>1. Goto("run", "render", g)
        BY <2>5, <3>1, <3>3, <3>6
      <4>2. pc'["run"] = "render" /\ at'["run"] = g
        BY <4>1 DEF Goto, TypeOK
      <4>3. QED
        BY <3>5, <4>2 DEF ToldInv, Behind
    <3>7. CASE s # "pending"
      <4>1. Proceed("run", g)
        BY <2>5, <3>1, <3>3, <3>7
      <4>2. Told(g)'
        BY <2>2, <3>2, <3>4, <3>7 DEF Told, TypeOK
      <4>3. \A k \in Recipients : k <= g => Told(k)'
        BY <2>2, <3>5, <4>2, RecipientsAreNumbers
      <4>4. QED
        BY <2>2, <4>1, <4>3, ToldProceeds
    <3>8. QED
      BY <3>6, <3>7
  <2>6. QED
    BY <2>4, <2>5
<1>5. ASSUME NEW p \in Procs, Render(p) \/ Send(p) PROVE ToldInv'
  <2>1. UNCHANGED row
    BY <1>5 DEF Render, Send, db
  <2>2. \A g \in Recipients : Behind(g)' => Behind(g)
    <3>1. pc[p] \in Sending /\ \E l \in Sending : Goto(p, l, at[p])
      BY <1>1, <1>5 DEF Render, Send, Sending
    <3>2. QED
      BY <3>1 DEF Behind, Goto, Sending, TypeOK
  <2>3. QED
    BY <1>2, <2>1, <2>2, ToldStays DEF ToldInv
<1>6. ASSUME NEW p \in Procs, MarkSent(p) \/ MarkFailed(p) PROVE ToldInv'
  <2>1. PICK g : g = at[p]
    OBVIOUS
  <2>2. g \in Recipients /\ pc[p] \in {"mark_sent", "mark_failed"}
    BY <1>6, <2>1, MarkSettles
  <2>3. \E s \in {"sent", "failed"} : row' = [row EXCEPT ![g] = s]
    BY <1>6, <2>1 DEF MarkSent, MarkFailed
  <2>4. Proceed(p, g)
    BY <1>1, <1>6, <2>1 DEF MarkSent, MarkFailed
  <2>5. /\ Told(g)'
        /\ \A k \in Recipients : row'[k] = row[k] \/ row'[k] \notin {"absent", "pending"}
    BY <2>2, <2>3 DEF Told, TypeOK
  <2>6. CASE p = "run"
    <3>1. \A k \in Recipients : k < g => Told(k)
      BY <1>2, <2>1, <2>2, <2>6 DEF Behind, Sending
    <3>2. \A k \in Recipients : k <= g => Told(k)'
      BY <2>2, <2>5, <3>1, ToldStays, RecipientsAreNumbers
    <3>3. QED
      BY <2>2, <2>4, <2>6, <3>2, ToldProceeds
  <2>7. CASE p # "run"
    <3>1. UNCHANGED <<pc["run"], at["run"]>>
      BY <2>4, <2>7 DEF Proceed, End, Goto, TypeOK
    <3>2. \A k \in Recipients : Behind(k)' => Told(k)
      BY <1>2, <3>1 DEF Behind
    <3>3. QED
      BY <2>5, <3>2, ToldStays DEF ToldInv
  <2>8. QED
    BY <2>6, <2>7
<1>7. ASSUME NEW p \in Procs, Crash(p) PROVE ToldInv'
  BY <1>7 DEF Crash
<1>8. ASSUME NEW r \in Resends, NEW g \in Recipients, Resend(r, g) PROVE ToldInv'
  <2>1. UNCHANGED <<row, pc["run"], at["run"]>>
    BY <1>8 DEF Resend, Goto, LoopInv, TypeOK
  <2>2. \A k \in Recipients : Behind(k)' => Told(k)
    BY <1>2, <2>1 DEF Behind
  <2>3. QED
    BY <2>1, <2>2, ToldStays DEF ToldInv
<1>9. CASE Reconfigure
  BY <1>9 DEF Reconfigure
<1>10. CASE UNCHANGED vars
  BY <1>1, <1>2, <1>10, ToldStays DEF ToldInv, Behind, vars
<1>11. ASSUME NEW p \in Procs, Unbuilt(p) PROVE ToldInv'
  <2>1. UNCHANGED row
    BY <1>11 DEF Unbuilt, db
  <2>2. \A g \in Recipients : Behind(g)' => Behind(g)
    <3>1. CASE p = "run"
      <4>1. pc[p] \in Sending /\ Goto(p, "mark_failed", at[p])
        BY <1>11, <3>1 DEF Unbuilt, Sending
      <4>2. QED
        BY <3>1, <4>1 DEF Behind, Goto, Sending, TypeOK
    <3>2. CASE p # "run"
      <4>1. UNCHANGED <<pc["run"], at["run"]>>
        BY <1>11, <3>2 DEF Unbuilt, End, Goto, TypeOK
      <4>2. QED
        BY <4>1 DEF Behind
    <3>3. QED
      BY <3>1, <3>2
  <2>3. QED
    BY <1>2, <2>1, <2>2, ToldStays DEF ToldInv
<1>12. QED
  BY <1>3, <1>4, <1>5, <1>6, <1>7, <1>8, <1>9, <1>10, <1>11 DEF Next, Step

(***************************************************************************)
(* A loop that met no database error and no crash left no recipient        *)
(* without a word, up to one the unique key cannot tell from an earlier:   *)
(* QuietLoopTellsAll of EmailDelivery.                                     *)
(***************************************************************************)
THEOREM QuietLoopTells == Spec => []QuietLoopTellsAll
<1>1. Init => IInv /\ ToldInv
  BY InvInit, ToldInit
<1>2. IInv /\ ToldInv /\ [Next]_vars => (IInv /\ ToldInv)'
  BY InvInductive, ToldInductive
<1>3. IInv /\ ToldInv => QuietLoopTellsAll
  BY DEF ToldInv, QuietLoopTellsAll, Behind, Told
<1>4. QED
  BY <1>1, <1>2, <1>3, PTL DEF Spec
===========================================================================
