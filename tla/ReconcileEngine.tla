-------------------------- MODULE ReconcileEngine --------------------------
(***************************************************************************)
(* reconcile() of engine.py: the matching of a company's accounting        *)
(* invoices of a period with its tax authority invoices of that period,    *)
(* and the fate of the outcome when finish_run_transaction inserts it.     *)
(*                                                                         *)
(* Both lists are given in the order the engine sorts them, by date and    *)
(* id: an invoice is named by its place in that order.                     *)
(***************************************************************************)
EXTENDS InvoiceComparison

CONSTANTS
  Uuids,      \* well-formed UUIDs, in canonical form
  Malformed,  \* a non-blank UUID column that is not a UUID
  Numbers,    \* invoice numbers and internal ids, trimmed and in lower case
  Spellings,  \* ways to write a text: letter case, blanks around it
  Bodies,     \* everything else an accounting invoice holds, see Compare
  TaxBodies,  \* everything else a tax authority invoice holds
  Tolerances, \* values of money_tolerance, in cents
  Datasets    \* the inputs of the runs considered

\* A text column: NULL, or a value in some spelling.
Text(S) == {NULL} \union [core : S, spelling : Spellings]

Account    == [uuid : Text(Uuids \union {Malformed}), number : Text(Numbers),
               body : Bodies]
TaxInvoice == [uuid : Text(Uuids \union {Malformed}), number : Text(Numbers),
               body : TaxBodies]

\* normalize_uuid, and the strip().lower() of the numbers.
Normalized(text) == IF text = NULL THEN NULL ELSE text.core

(***************************************************************************)
(* The database's unique keys: invoices.uuid and (company_id,              *)
(* invoice_number), tax_invoices.uuid.  They ignore case, and a UUID fills *)
(* its CHAR(36), so two well-formed spellings of one UUID collide.  The    *)
(* numbers of two tax invoices may still differ in a leading blank only.   *)
(***************************************************************************)
DistinctWhere(s, column, S) ==
  \A i, j \in DOMAIN s :
    /\ Normalized(s[i][column]) \in S
    /\ Normalized(s[i][column]) = Normalized(s[j][column])
    => i = j

ASSUME NullAssumption ==
  /\ NULL \notin Uuids \union {Malformed} \union Numbers \union Int
  /\ NULL \notin Account /\ NULL \notin TaxInvoice
ASSUME MalformedAssumption == Malformed \notin Uuids
ASSUME ToleranceAssumption == Tolerances \subseteq Nat
ASSUME BodyAssumption ==
  /\ \A b \in Bodies :
       /\ b.date \in Int /\ b.subtotal \in Int /\ b.discount \in Int
       /\ b.vat \in Int /\ b.total \in Int
  /\ \A b \in TaxBodies :
       /\ b.date \in Int /\ b.sales \in Int /\ b.discount \in Int /\ b.net \in Int
       /\ b.vat \in Int /\ b.total \in Int

(***************************************************************************)
(* The CHECK constraints of both tables and of their items.                *)
(***************************************************************************)
ItemsChecked(items) ==
  \A k \in DOMAIN items :
    0 < items[k].qty /\ 0 <= items[k].vat /\ items[k].vat <= items[k].total

ASSUME ChecksAssumption ==
  /\ \A b \in Bodies :
       /\ 0 <= b.discount /\ b.discount <= b.subtotal /\ 0 <= b.vat
       /\ b.total = b.subtotal - b.discount + b.vat
       /\ ItemsChecked(b.items)
  /\ \A b \in TaxBodies :
       /\ 0 <= b.discount /\ b.discount <= b.sales /\ 0 <= b.vat
       /\ b.net = b.sales - b.discount
       /\ b.total = b.sales - b.discount + b.vat
       /\ ItemsChecked(b.items)

ASSUME DatasetAssumption ==
  \A d \in Datasets :
    /\ d.accounts \in Seq(Account)
    /\ d.taxes \in Seq(TaxInvoice)
    /\ d.tolerance \in Tolerances
    /\ DistinctWhere(d.accounts, "uuid", Uuids)
    /\ DistinctWhere(d.accounts, "number", Numbers)
    /\ DistinctWhere(d.taxes, "uuid", Uuids)

VARIABLES
  data,     \* the run's input: accounts, taxes and tolerance
  results,  \* outcome.results
  errors,   \* outcome.errors
  claimed,  \* claimed_tax_ids
  account,  \* the next accounting invoice
  taxNext,  \* the next tax invoice
  stored    \* what became of the outcome: "no", "saved" or "rejected"

vars == <<data, results, errors, claimed, account, taxNext, stored>>

Accounts == DOMAIN data.accounts
Taxes    == DOMAIN data.taxes
Acc(i)   == data.accounts[i]
Tax(j)   == data.taxes[j]

Init ==
  /\ data \in Datasets
  /\ results = {}
  /\ errors = {}
  /\ claimed = {}
  /\ account = 1
  /\ taxNext = 1
  /\ stored = "no"

(***************************************************************************)
(* The indexes.  The first of the sorted list keeps a key (setdefault), or *)
(* NULL when no tax invoice has it.                                        *)
(***************************************************************************)
First(S) ==
  IF S = {} THEN NULL ELSE CHOOSE j \in S : \A k \in S : j <= k

\* Fault: the index keeps the spelling of the column.
ByUuidAsSpelled(u) ==
  First({j \in Taxes : Tax(j).uuid # NULL /\ u \in Uuids
                       /\ Tax(j).uuid = [core |-> u, spelling |-> "plain"]})

ByUuid(u) == First({j \in Taxes : u \in Uuids /\ Normalized(Tax(j).uuid) = u})

ByInternal(n) ==
  First({j \in Taxes : n # NULL /\ Normalized(Tax(j).number) = n})

\* Fault: an invoice whose UUID is not found is tried by its number.
CounterpartWithFallback(a) ==
  IF ByUuid(Normalized(a.uuid)) # NULL THEN ByUuid(Normalized(a.uuid))
  ELSE ByInternal(Normalized(a.number))

(***************************************************************************)
(* The tax invoice an accounting invoice is compared with: by UUID if it   *)
(* has one, by number if it has none.                                      *)
(***************************************************************************)
Counterpart(a) ==
  IF a.uuid # NULL THEN ByUuid(Normalized(a.uuid))
  ELSE ByInternal(Normalized(a.number))

Result(i, j, status, discrepancy) ==
  [account |-> i, tax |-> j, status |-> status, discrepancy |-> discrepancy]

Errors(source, id, types) ==
  {[source |-> source, id |-> id, type |-> e] : e \in types}

\* Fault: the invalid UUID is not reported.
MatchInvalidSilently(i) ==
  /\ Normalized(Acc(i).uuid) = Malformed
  /\ results' = results \union {Result(i, NULL, "invalid", 0)}
  /\ UNCHANGED <<errors, claimed>>

MatchInvalid(i) ==
  /\ Normalized(Acc(i).uuid) = Malformed
  /\ results' = results \union {Result(i, NULL, "invalid", 0)}
  /\ errors' = errors \union Errors("account", i, {"INVALID_UUID"})
  /\ UNCHANGED claimed

MatchMissing(i) ==
  /\ Normalized(Acc(i).uuid) # Malformed
  /\ Counterpart(Acc(i)) = NULL
  /\ results' = results \union {Result(i, NULL, "missing_in_tax_authority", 0)}
  /\ UNCHANGED <<errors, claimed>>

\* Fault: a matched invoice is not claimed when it has mismatches.
MatchPairClaimsMatched(i) ==
  LET j == Counterpart(Acc(i))
      mismatches == Compare(Acc(i).body, Tax(j).body, data.tolerance)
  IN /\ Normalized(Acc(i).uuid) # Malformed
     /\ j # NULL
     /\ results' = results \union
          {Result(i, j, IF mismatches = {} THEN "matched" ELSE "mismatched",
                  Acc(i).body.total - Tax(j).body.total)}
     /\ errors' = errors \union Errors("account", i, mismatches)
     /\ claimed' = IF mismatches = {} THEN claimed \union {j} ELSE claimed

MatchPair(i) ==
  LET j == Counterpart(Acc(i))
      mismatches == Compare(Acc(i).body, Tax(j).body, data.tolerance)
  IN /\ Normalized(Acc(i).uuid) # Malformed
     /\ j # NULL
     /\ results' = results \union
          {Result(i, j, IF mismatches = {} THEN "matched" ELSE "mismatched",
                  Acc(i).body.total - Tax(j).body.total)}
     /\ errors' = errors \union Errors("account", i, mismatches)
     /\ claimed' = claimed \union {j}

(***************************************************************************)
(* _match_account, for the next accounting invoice.                        *)
(***************************************************************************)
MatchAccount ==
  /\ account \in Accounts
  /\ MatchInvalid(account) \/ MatchMissing(account) \/ MatchPair(account)
  /\ account' = account + 1
  /\ UNCHANGED <<data, taxNext, stored>>

(***************************************************************************)
(* The second loop: _classify_unclaimed_tax, unless the invoice is claimed *)
(***************************************************************************)
SkipClaimed(j) ==
  /\ j \in claimed
  /\ UNCHANGED <<results, errors>>

ClassifyInvalid(j) ==
  /\ j \notin claimed
  /\ Normalized(Tax(j).uuid) = Malformed
  /\ results' = results \union {Result(NULL, j, "invalid", 0)}
  /\ errors' = errors \union Errors("tax", j, {"INVALID_UUID"})

\* Fault: a status the contract does not know.
ClassifyExtraAsUnmatched(j) ==
  /\ j \notin claimed
  /\ Normalized(Tax(j).uuid) # Malformed
  /\ results' = results \union {Result(NULL, j, "unmatched", 0)}
  /\ UNCHANGED errors

ClassifyExtra(j) ==
  /\ j \notin claimed
  /\ Normalized(Tax(j).uuid) # Malformed
  /\ results' = results \union {Result(NULL, j, "extra_in_tax_authority", 0)}
  /\ UNCHANGED errors

ClassifyTax ==
  /\ account \notin Accounts
  /\ taxNext \in Taxes
  /\ SkipClaimed(taxNext) \/ ClassifyInvalid(taxNext) \/ ClassifyExtra(taxNext)
  /\ taxNext' = taxNext + 1
  /\ UNCHANGED <<data, claimed, account, stored>>

(***************************************************************************)
(* finish_run_transaction: the inserts are one transaction, and the table  *)
(* takes each invoice of either side once per run.                         *)
(***************************************************************************)
UniqueIn(column) ==
  \A r, q \in results :
    r[column] = q[column] /\ r[column] # NULL => r = q

\* Fault: INSERT IGNORE.
StoreAnyway ==
  /\ account \notin Accounts
  /\ taxNext \notin Taxes
  /\ stored = "no"
  /\ stored' = "saved"
  /\ UNCHANGED <<data, results, errors, claimed, account, taxNext>>

Store ==
  /\ account \notin Accounts
  /\ taxNext \notin Taxes
  /\ stored = "no"
  /\ stored' = IF UniqueIn("account") /\ UniqueIn("tax")
                 THEN "saved" ELSE "rejected"
  /\ UNCHANGED <<data, results, errors, claimed, account, taxNext>>

Next == MatchAccount \/ ClassifyTax \/ Store

Spec == Init /\ [][Next]_vars

-----------------------------------------------------------------------------

ResultType ==
  [account : Nat \union {NULL}, tax : Nat \union {NULL},
   status : {"matched", "mismatched", "missing_in_tax_authority",
             "extra_in_tax_authority", "invalid"},
   discrepancy : Int]

TypeOK ==
  /\ data \in Datasets
  /\ results \subseteq ResultType
  /\ \A r \in results : r.account \in Accounts \union {NULL}
                        /\ r.tax \in Taxes \union {NULL}
  /\ claimed \subseteq Taxes
  /\ account \in 1..(Len(data.accounts) + 1)
  /\ taxNext \in 1..(Len(data.taxes) + 1)
  /\ stored \in {"no", "saved", "rejected"}

(***************************************************************************)
(* README "Reconciliation": a per-invoice match outcome.  Once both loops  *)
(* are through, every accounting invoice has exactly one result, every tax *)
(* invoice is in some result, and no tax invoice that an accounting        *)
(* invoice was matched with is reported as unclaimed as well.              *)
(***************************************************************************)
Done == account \notin Accounts /\ taxNext \notin Taxes

EveryInvoiceAnswered ==
  Done =>
    /\ UniqueIn("account")
    /\ \A i \in Accounts : \E r \in results : r.account = i
    /\ \A j \in Taxes : \E r \in results : r.tax = j
    /\ \A r, q \in results :
         r.account = NULL /\ q.tax = r.tax => q = r

(***************************************************************************)
(* What the engine leaves open: a tax invoice is matched twice only when   *)
(* one accounting invoice names it by UUID and another, that has no UUID,  *)
(* by its number.  The strict hierarchy never does it on one identity.     *)
(***************************************************************************)
ClaimsCrossIdentities ==
  \A r, q \in results :
    /\ r.tax # NULL
    /\ r.tax = q.tax
    /\ r # q
    => \E a, b \in {Acc(r.account), Acc(q.account)} :
         /\ Normalized(a.uuid) = Normalized(Tax(r.tax).uuid)
         /\ a.uuid # NULL
         /\ b.uuid = NULL
         /\ Normalized(b.number) = Normalized(Tax(r.tax).number)

(***************************************************************************)
(* Such a period cannot be reconciled, and no other is lost: the outcome   *)
(* is rejected exactly when the input holds two accounting invoices that   *)
(* lay claim to one tax invoice, and the counts stored with a run add up.  *)
(* The texts of error rows are taken to fit their columns.                 *)
(***************************************************************************)
RivalClaims ==
  \E i, k \in Accounts :
    /\ i # k
    /\ Counterpart(Acc(i)) # NULL
    /\ Counterpart(Acc(i)) = Counterpart(Acc(k))

RejectedIffRivalClaims ==
  stored # "no" => (stored = "rejected" <=> RivalClaims)

(***************************************************************************)
(* The report explains what it counts: an invoice has an error row exactly *)
(* when its result is mismatched or invalid; and a pair without one agrees *)
(* on its total up to the run's tolerance, whichever side is the larger.   *)
(***************************************************************************)
ErrorsExplainResults ==
  \A r \in results :
    /\ r.status \in {"mismatched", "invalid"} <=>
         \E e \in errors : \/ e.source = "account" /\ e.id = r.account
                           \/ e.source = "tax" /\ e.id = r.tax /\ r.account = NULL
    /\ r.status = "matched" =>
         /\ r.discrepancy <= data.tolerance
         /\ -r.discrepancy <= data.tolerance

(***************************************************************************)
(* With exact comparison the derived amounts raise no alarm of their own:  *)
(* a net amount is reported only along with the subtotal or the discount   *)
(* it comes from, a total only along with one of those or the VAT.         *)
(***************************************************************************)
Components(type) ==
  CASE type = "NET_AMOUNT_MISMATCH"   -> {"SUBTOTAL_AMOUNT_MISMATCH",
                                          "DISCOUNT_AMOUNT_MISMATCH"}
    [] type = "TOTAL_AMOUNT_MISMATCH" -> {"SUBTOTAL_AMOUNT_MISMATCH",
                                          "DISCOUNT_AMOUNT_MISMATCH",
                                          "VAT_AMOUNT_MISMATCH"}

DerivedErrorsExplained ==
  \A e \in errors :
    (e.type \in {"NET_AMOUNT_MISMATCH", "TOTAL_AMOUNT_MISMATCH"} /\ data.tolerance = 0) =>
      \E f \in errors : /\ f.source = e.source
                        /\ f.id = e.id
                        /\ f.type \in Components(e.type)

(***************************************************************************)
(* The party of an accounting invoice may be either side of the document:  *)
(* copying one side's tax id and name draws no complaint, unless the       *)
(* buyer bears the same tax id under another name.                         *)
(***************************************************************************)
PartyErrorTypes == {"COUNTERPARTY_TAX_ID_MISMATCH", "COUNTERPARTY_NAME_MISMATCH"}

EitherSideAccepted ==
  \A r \in results :
    (r.account # NULL /\ r.tax # NULL) =>
      LET a == Acc(r.account).body
          t == Tax(r.tax).body
          copied == {s \in {t.buyer, t.seller} : s.tin = a.tin /\ s.name = a.name}
      IN /\ copied # {}
         /\ t.buyer.tin # t.seller.tin
         => \A e \in errors :
              e.source = "account" /\ e.id = r.account => e.type \notin PartyErrorTypes

(***************************************************************************)
(* Why they hold: what the two loops have established when they are at     *)
(* account and taxNext.                                                    *)
(***************************************************************************)
AccountsAnswered ==
  /\ UniqueIn("account")
  /\ \A r \in results : r.account # NULL => r.account < account
  /\ \A i \in Accounts : i < account => \E r \in results : r.account = i

MatchedByHierarchy ==
  \A r \in results :
    r.account # NULL => r.tax = Counterpart(Acc(r.account))

ClaimedIsMatched ==
  \A j \in Taxes :
    j \in claimed <=> \E r \in results : r.account # NULL /\ r.tax = j

UnclaimedReportedOnce ==
  /\ taxNext # 1 => account \notin Accounts
  /\ \A r \in results :
       r.account = NULL => /\ r.tax \in Taxes \ claimed
                          /\ r.tax < taxNext
                          /\ account \notin Accounts
  /\ \A r, q \in results :
       r.account = NULL /\ q.account = NULL /\ r.tax = q.tax => r = q
  /\ \A j \in Taxes : j < taxNext => \E r \in results : r.tax = j

StoredAsUnique ==
  stored # "no" =>
    /\ Done
    /\ stored = "saved" <=> UniqueIn("account") /\ UniqueIn("tax")

MatchingInv ==
  /\ AccountsAnswered
  /\ MatchedByHierarchy
  /\ ClaimedIsMatched
  /\ UnclaimedReportedOnce
  /\ StoredAsUnique
=============================================================================
