--------------------------- MODULE EmailContract ---------------------------
(***************************************************************************)
(* What the notifications of one reconciliation run promise to whoever     *)
(* reads email_deliveries: a recipient has one row, a mail leaves only for *)
(* a recipient on record and only as often as the run and the operators    *)
(* asked for, and a row says sent only when a mail was accepted.           *)
(***************************************************************************)
EXTENDS Naturals

CONSTANTS
  Recipients,  \* the deliveries the run's affected invoices call for
  Reachable    \* those with a usable address

VARIABLES
  row,         \* row[g]: the status of g's delivery, "absent" before its INSERT
  mails,       \* mails[g]: how often the SMTP server accepted a mail for g
  ordered      \* ordered[g]: how often a mail for g was asked for

vars == <<row, mails, ordered>>

Init ==
  /\ row = [g \in Recipients |-> "absent"]
  /\ mails = [g \in Recipients |-> 0]
  /\ ordered = [g \in Recipients |-> 0]

\* The run records a recipient, for sending or with the reason not to.
Record(g, s) ==
  /\ row[g] = "absent"
  /\ s = "pending" => g \in Reachable
  /\ row' = [row EXCEPT ![g] = s]
  /\ ordered' = IF s = "pending" THEN [ordered EXCEPT ![g] = 1] ELSE ordered
  /\ UNCHANGED mails

\* An operator asks for one more mail.
Order(g) ==
  /\ row[g] # "absent"
  /\ g \in Reachable
  /\ ordered' = [ordered EXCEPT ![g] = @ + 1]
  /\ UNCHANGED <<row, mails>>

Mail(g) ==
  /\ mails[g] < ordered[g]
  /\ mails' = [mails EXCEPT ![g] = @ + 1]
  /\ UNCHANGED <<row, ordered>>

Settle(g, s) ==
  /\ ordered[g] > 0
  /\ s = "sent" => mails[g] > 0
  /\ row' = [row EXCEPT ![g] = s]
  /\ UNCHANGED <<mails, ordered>>

Next ==
  \E g \in Recipients :
    \/ \E s \in {"pending", "skipped", "no_email", "invalid"} : Record(g, s)
    \/ Order(g)
    \/ Mail(g)
    \/ \E s \in {"sent", "failed"} : Settle(g, s)

Spec == Init /\ [][Next]_vars
=============================================================================
