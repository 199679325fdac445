--------------------------- MODULE EmailDelivery ---------------------------
(***************************************************************************)
(* The notifications of one completed reconciliation run: the loop of      *)
(* notify_run_summary at the end of the run's request, the resend requests *)
(* of operators, the SMTP server and the table email_deliveries.           *)
(*                                                                         *)
(* A database call answers ("ok"), raises with nothing applied ("error")   *)
(* or raises after its commit ("lost").  The SMTP server accepts a mail,   *)
(* refuses it, or accepts it and the connection breaks before its answer   *)
(* is read ("lost").  Nothing ties the two together.                       *)
(***************************************************************************)
EXTENDS Naturals, Sequences, FiniteSets

CONSTANTS
  Rows,          \* the affected results with their counterparty, in id order
  Resends,       \* the resend requests; bound: each is one POST
  DbOutcomes,
  SmtpOutcomes,
  MayCrash,      \* whether processes may be killed
  NULL

(***************************************************************************)
(* A row's contact, stripped and lower-cased: its kind by is_valid_email,  *)
(* the key that groups it (address, or name and tax id), and what the      *)
(* collation of recipient_email makes of the address.                      *)
(***************************************************************************)
ASSUME RowsAssumption ==
  /\ Rows \in Seq([kind : {"valid", "bad", "none"}, key : STRING, collates : STRING])
  /\ \A i, j \in DOMAIN Rows :
       Rows[i].kind # "none" /\ Rows[i].key = Rows[j].key /\ Rows[j].kind # "none"
         => Rows[i] = Rows[j]
ASSUME OutcomesAssumption ==
  /\ "ok" \in DbOutcomes /\ DbOutcomes \subseteq {"ok", "error", "lost"}
  /\ SmtpOutcomes \subseteq {"accepted", "refused", "lost"}
  /\ MayCrash \in BOOLEAN
ASSUME NullAssumption == NULL \notin DOMAIN Rows

VARIABLES
  row,       \* row[g]: status of the delivery of recipient g, or "absent"
  mails,     \* mails[g]: mails for g the SMTP server accepted
  ordered,   \* history: how often a mail for g was asked for
  enabled,   \* EMAIL_ENABLED of the running service
  pc,        \* pc[p]: next step of the run's request or of a resend
  at,        \* at[p]: the recipient p is busy with
  trouble    \* history: a database call failed or a process was killed

db   == <<row, mails, ordered>>
vars == <<row, mails, ordered, enabled, pc, at, trouble>>

Procs == {"run"} \union Resends

(***************************************************************************)
(* _plan_recipients: one delivery per key, in the order of first sight.  A *)
(* recipient is named by the first of its rows.                            *)
(***************************************************************************)
SameRecipient(i, j) == Rows[i].kind = Rows[j].kind /\ Rows[i].key = Rows[j].key
Recipients == {i \in DOMAIN Rows : \A j \in 1..(i - 1) : ~SameRecipient(i, j)}
Reachable  == {g \in Recipients : Rows[g].kind = "valid"}

\* The recipients after g in the plan, the first one of them, or NULL.
After(g) == {h \in Recipients : h > g}
First(S) == IF S = {} THEN NULL ELSE CHOOSE g \in S : \A h \in S : g <= h

\* uq_email_deliveries_run_recipient would refuse a row for g (not for NULLs).
Taken(g) ==
  /\ Rows[g].kind # "none"
  /\ \E h \in Recipients :
       /\ row[h] # "absent"
       /\ Rows[h].kind # "none"
       /\ Rows[h].collates = Rows[g].collates

Init ==
  /\ row = [g \in Recipients |-> "absent"]
  /\ mails = [g \in Recipients |-> 0]
  /\ ordered = [g \in Recipients |-> 0]
  /\ enabled \in BOOLEAN
  /\ pc = [p \in Procs |-> IF p = "run" THEN "list" ELSE "new"]
  /\ at = [p \in Procs |-> NULL]
  /\ trouble = FALSE

Goto(p, label, g) ==
  /\ pc' = [pc EXCEPT ![p] = label]
  /\ at' = [at EXCEPT ![p] = g]

\* Fault: the request is over and its recipient not let go of.
EndKeeping(p) == Goto(p, "done", at[p])

End(p) == Goto(p, "done", NULL)

\* Fault: one failed recipient ends the loop.
ProceedUnlessFailed(p, g) ==
  IF p = "run" /\ After(g) # {} /\ pc[p] # "mark_failed"
    THEN Goto(p, "create", First(After(g)))
    ELSE End(p)

\* What follows once p is through with g: the loop goes on, a resend is over.
Proceed(p, g) ==
  IF p = "run" /\ After(g) # {} THEN Goto(p, "create", First(After(g))) ELSE End(p)

(***************************************************************************)
(* _notify_discrepancies: the affected results; an exception is swallowed  *)
(* and nobody is notified.                                                 *)
(***************************************************************************)
List ==
  /\ pc["run"] = "list"
  /\ \E o \in DbOutcomes :
       IF o = "ok" /\ Recipients # {}
         THEN Goto("run", "create", First(Recipients)) /\ UNCHANGED trouble
         ELSE End("run") /\ trouble' = (trouble \/ o # "ok")
  /\ UNCHANGED <<db, enabled>>

InitialStatus(g) ==
  CASE Rows[g].kind = "none" -> "no_email"
    [] Rows[g].kind = "bad"  -> "invalid"
    [] OTHER -> IF enabled THEN "pending" ELSE "skipped"

(***************************************************************************)
(* _create_delivery_record: the row is written before anything is sent, or *)
(* with the reason why nothing will be.  An exception, also that of the    *)
(* unique key, ends the loop.                                              *)
(***************************************************************************)
Create ==
  /\ pc["run"] = "create"
  /\ LET g == at["run"]
         s == InitialStatus(g)
     IN \E o \in DbOutcomes :
          LET applied == o # "error" /\ ~Taken(g) IN
          /\ row' = IF applied THEN [row EXCEPT ![g] = s] ELSE row
          /\ ordered' = IF applied /\ s = "pending"
                          THEN [ordered EXCEPT ![g] = 1] ELSE ordered
          /\ trouble' = (trouble \/ o # "ok")
          /\ CASE o # "ok" \/ ~applied                   -> End("run")
               [] o = "ok" /\ applied /\ s = "pending" -> Goto("run", "render", g)
               [] o = "ok" /\ applied /\ s # "pending" -> Proceed("run", g)
  /\ UNCHANGED <<mails, enabled>>

(***************************************************************************)
(* resend_delivery up to its send: any row of a valid address will do,     *)
(* whatever its status, which is not looked at.                            *)
(***************************************************************************)
Resend(r, g) ==
  /\ pc[r] = "new"
  /\ enabled
  /\ row[g] # "absent"
  /\ g \in Reachable
  /\ Goto(r, "render", g)
  /\ ordered' = [ordered EXCEPT ![g] = @ + 1]
  /\ UNCHANGED <<row, mails, enabled, trouble>>

\* _render_messages reads the company, outside the try block of its callers.
Render(p) ==
  /\ pc[p] = "render"
  /\ \E o \in DbOutcomes :
       IF o = "ok"
         THEN Goto(p, "send", at[p]) /\ UNCHANGED trouble
         ELSE End(p) /\ trouble' = TRUE
  /\ UNCHANGED <<db, enabled>>

\* Fault: the provider tries once more when the connection breaks.
SendAgain(p) ==
  /\ pc[p] = "send"
  /\ \E o \in SmtpOutcomes :
       /\ mails' = IF o = "refused" THEN mails ELSE [mails EXCEPT ![at[p]] = @ + 1]
       /\ Goto(p, CASE o = "accepted" -> "mark_sent"
                    [] o = "lost"     -> "send"
                    [] OTHER          -> "mark_failed", at[p])
  /\ UNCHANGED <<row, ordered, enabled, trouble>>

\* The message is built outside the try block of the provider.  A header it
\* cannot have, a company's name of two lines for instance, raises what only
\* the loop takes for a failed mail: a resend ends with the row as it was.
Unbuilt(p) ==
  /\ pc[p] = "send"
  /\ IF p = "run" THEN Goto(p, "mark_failed", at[p]) ELSE End(p)
  /\ UNCHANGED <<db, enabled, trouble>>

\* SMTPEmailProvider.send: every other failure is an EmailError of some kind.
Send(p) ==
  /\ pc[p] = "send"
  /\ \E o \in SmtpOutcomes :
       /\ mails' = IF o = "refused" THEN mails ELSE [mails EXCEPT ![at[p]] = @ + 1]
       /\ Goto(p, IF o = "accepted" THEN "mark_sent" ELSE "mark_failed", at[p])
  /\ UNCHANGED <<row, ordered, enabled, trouble>>

(***************************************************************************)
(* An exception of mark_sent reaches the handler meant for the provider's: *)
(* the loop marks the delivery failed, a resend does not know the kind and *)
(* ends with the row as it was.                                            *)
(***************************************************************************)
MarkSent(p) ==
  /\ pc[p] = "mark_sent"
  /\ \E o \in DbOutcomes :
       /\ row' = IF o = "error" THEN row ELSE [row EXCEPT ![at[p]] = "sent"]
       /\ CASE o = "ok"               -> Proceed(p, at[p])
            [] o # "ok" /\ p = "run" -> Goto(p, "mark_failed", at[p])
            [] o # "ok" /\ p # "run" -> End(p)
       /\ trouble' = (trouble \/ o # "ok")
  /\ UNCHANGED <<mails, ordered, enabled>>

\* Fault: a delivery that failed is taken up once more.
MarkFailedAndRetry(p) ==
  /\ pc[p] = "mark_failed"
  /\ row' = [row EXCEPT ![at[p]] = "failed"]
  /\ Goto(p, "render", at[p])
  /\ UNCHANGED <<mails, ordered, enabled, trouble>>

\* mark_failed has no handler around it: its exception ends loop and request.
MarkFailed(p) ==
  /\ pc[p] = "mark_failed"
  /\ \E o \in DbOutcomes :
       /\ row' = IF o = "error" THEN row ELSE [row EXCEPT ![at[p]] = "failed"]
       /\ IF o = "ok" THEN Proceed(p, at[p]) ELSE End(p)
       /\ trouble' = (trouble \/ o # "ok")
  /\ UNCHANGED <<mails, ordered, enabled>>

(***************************************************************************)
(* The worker of p is killed; nothing takes its work up again.             *)
(***************************************************************************)
Crash(p) ==
  /\ MayCrash
  /\ pc[p] \notin {"new", "done"}
  /\ End(p)
  /\ trouble' = TRUE
  /\ UNCHANGED <<db, enabled>>

\* The service is restarted with EMAIL_ENABLED changed; what was under way dies.
Reconfigure ==
  /\ MayCrash
  /\ enabled' = ~enabled
  /\ pc' = [p \in Procs |-> IF pc[p] = "new" THEN "new" ELSE "done"]
  /\ at' = [p \in Procs |-> NULL]
  /\ trouble' = TRUE
  /\ UNCHANGED db

Step(p) == Render(p) \/ Unbuilt(p) \/ Send(p) \/ MarkSent(p) \/ MarkFailed(p)
RunStep == List \/ Create \/ Step("run")

Next ==
  \/ List
  \/ Create
  \/ \E p \in Procs : Step(p) \/ Crash(p)
  \/ \E r \in Resends, g \in Recipients : Resend(r, g)
  \/ Reconfigure

Spec     == Init /\ [][Next]_vars
FairSpec == Spec /\ WF_vars(RunStep)

(***************************************************************************)
(* Properties                                                              *)
(***************************************************************************)

\* The variables keep their types, and only a recipient at hand is worked on.
TypeOK ==
  /\ row \in [Recipients -> {"absent", "pending", "sent", "failed",
                             "skipped", "no_email", "invalid"}]
  /\ mails \in [Recipients -> Nat]
  /\ ordered \in [Recipients -> Nat]
  /\ enabled \in BOOLEAN
  /\ pc \in [Procs -> {"list", "new", "create", "render", "send",
                       "mark_sent", "mark_failed", "done"}]
  /\ at \in [Procs -> Recipients \union {NULL}]
  /\ trouble \in BOOLEAN
  /\ \A p \in Procs : at[p] = NULL <=> pc[p] \in {"list", "new", "done"}

(***************************************************************************)
(* email_deliveries and the mails that left keep the promise of            *)
(* EmailContract, through every fault: no mail without a row, none more    *)
(* than the run and the operators asked for, sent only what was accepted.  *)
(***************************************************************************)
Contract ==
  INSTANCE EmailContract WITH
    Recipients <- Recipients,
    Reachable  <- Reachable,
    row        <- row,
    mails      <- mails,
    ordered    <- ordered
ContractSpec == Contract!Spec

(***************************************************************************)
(* When the loop ended without a database error or a crash, every          *)
(* recipient's row says what became of it, nothing is missing or pending:  *)
(* up to the first address that the unique key cannot tell from an earlier *)
(* one of the plan, at which the loop ends.                                *)
(***************************************************************************)
Indistinct(g) ==
  \E h \in Recipients :
    /\ h < g
    /\ "none" \notin {Rows[h].kind, Rows[g].kind}
    /\ Rows[h].collates = Rows[g].collates

QuietLoopTellsAll ==
  pc["run"] = "done" /\ ~trouble =>
    \A g \in Recipients :
      \/ row[g] \notin {"absent", "pending"}
      \/ \E h \in Recipients : h <= g /\ Indistinct(h)

\* The loop comes to its end whatever SMTP and the database answer: no retries.
LoopEnds == <>(pc["run"] = "done")
=============================================================================
