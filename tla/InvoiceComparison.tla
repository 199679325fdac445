------------------------- MODULE InvoiceComparison -------------------------
(***************************************************************************)
(* The field by field comparison of engine.py: which error codes a matched *)
(* pair of an accounting invoice and a tax authority invoice earns.        *)
(*                                                                         *)
(* Money columns are DECIMAL(15,2), so amounts are integers, in cents.     *)
(* Dates are days: _to_date drops the time of issue_datetime.  A text is   *)
(* the value _norm_text leaves of it, NULL when that is empty.  No money   *)
(* or date column is nullable, so the branches of the code for a value     *)
(* that cannot be read are never taken for rows of the database.           *)
(***************************************************************************)
EXTENDS Integers, Sequences, SequencesExt

CONSTANT NULL  \* an absent or blank text

Distance(x, y) == IF x < y THEN y - x ELSE x - y

MoneyError(code, acc, tax, tolerance) ==
  IF Distance(acc, tax) <= tolerance THEN {} ELSE {code}

\* _text_error where two texts, or two dates, differ.
TextError(code, acc, tax) == IF acc = tax THEN {} ELSE {code}

DateErrors(a, t) == TextError("INVOICE_DATE_MISMATCH", a.date, t.date)

CurrencyErrors(a, t) == TextError("CURRENCY_MISMATCH", a.currency, t.currency)

\* Fault: VAT is counted into the net amount.
NetWithVat(a) == a.subtotal - a.discount + a.vat

NetAmount(a) == a.subtotal - a.discount

AmountErrors(a, t, tolerance) ==
  UNION {MoneyError("SUBTOTAL_AMOUNT_MISMATCH", a.subtotal, t.sales, tolerance),
         MoneyError("DISCOUNT_AMOUNT_MISMATCH", a.discount, t.discount, tolerance),
         MoneyError("VAT_AMOUNT_MISMATCH", a.vat, t.vat, tolerance),
         MoneyError("TOTAL_AMOUNT_MISMATCH", a.total, t.total, tolerance),
         MoneyError("NET_AMOUNT_MISMATCH", NetAmount(a), t.net, tolerance)}

NameErrors(accName, taxName) ==
  TextError("COUNTERPARTY_NAME_MISMATCH", accName, taxName)

\* Fault: without a tax id on the invoice only the buyer is looked at.
PartyErrorsBuyerOnly(a, t) ==
  CASE a.tin # NULL /\ t.buyer.tin = a.tin  -> NameErrors(a.name, t.buyer.name)
    [] a.tin # NULL /\ t.buyer.tin # a.tin  -> {"COUNTERPARTY_TAX_ID_MISMATCH"}
    [] a.tin = NULL /\ a.name # NULL        -> NameErrors(a.name, t.buyer.name)
    [] OTHER                                -> {}

(***************************************************************************)
(* The counterparty's tax id says which side of the document it is on, the *)
(* buyer's first; without one, either side's name will do.                 *)
(***************************************************************************)
PartyErrors(a, t) ==
  CASE a.tin # NULL /\ t.buyer.tin = a.tin -> NameErrors(a.name, t.buyer.name)
    [] a.tin # NULL /\ t.buyer.tin # a.tin /\ t.seller.tin = a.tin ->
         NameErrors(a.name, t.seller.name)
    [] a.tin # NULL /\ a.tin \notin {t.buyer.tin, t.seller.tin} ->
         {"COUNTERPARTY_TAX_ID_MISMATCH"}
    [] a.tin = NULL /\ a.name \notin {NULL, t.buyer.name, t.seller.name} ->
         {"COUNTERPARTY_NAME_MISMATCH"}
    [] OTHER -> {}

\* The sum of one column over the line items of a document.
ItemSum(items, column) ==
  FoldSeq(LAMBDA item, sum : item[column] + sum, 0, items)

(***************************************************************************)
(* The line items are compared by count and by sums; quantities exactly.   *)
(***************************************************************************)
ItemErrors(a, t, tolerance) ==
  UNION {IF Len(a.items) = Len(t.items) THEN {} ELSE {"ITEM_COUNT_MISMATCH"},
         MoneyError("ITEM_QUANTITY_SUM_MISMATCH",
                    ItemSum(a.items, "qty"), ItemSum(t.items, "qty"), 0),
         MoneyError("ITEM_VAT_SUM_MISMATCH",
                    ItemSum(a.items, "vat"), ItemSum(t.items, "vat"), tolerance),
         MoneyError("ITEM_TOTAL_SUM_MISMATCH",
                    ItemSum(a.items, "total"), ItemSum(t.items, "total"), tolerance)}

Compare(a, t, tolerance) ==
  UNION {DateErrors(a, t), CurrencyErrors(a, t), AmountErrors(a, t, tolerance),
         PartyErrors(a, t), ItemErrors(a, t, tolerance)}
=============================================================================
