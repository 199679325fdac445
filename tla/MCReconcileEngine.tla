------------------------- MODULE MCReconcileEngine -------------------------
(***************************************************************************)
(* Inputs of ReconcileEngine for TLC: all small pairs of lists as far as   *)
(* identities go, with an entry of another month or company in the books,  *)
(* and one pair of invoices with all sorts of contents; and what the       *)
(* documents of the repository say that TLC refutes on them.               *)
(***************************************************************************)
EXTENDS ReconcileReport

CONSTANTS u1, u2, bad, n1, n2, own, other

MCUuids == {u1, u2}
MCNumbers == {n1, n2}
MCSpellings == {"plain", "variant"}
MCTolerances == {0, 1}

Plain(S)  == [core : S, spelling : {"plain"}]
Either(S) == [core : S, spelling : {"plain", "variant"}]

Line == [qty |-> 1, vat |-> 14, total |-> 114]
Body == [date |-> 131, currency |-> "EGP", subtotal |-> 100, discount |-> 0,
         vat |-> 14, total |-> 114, tin |-> "b", name |-> "B", items |-> <<Line>>]
TaxBody == [date |-> 131, currency |-> "EGP", sales |-> 100, discount |-> 0,
            net |-> 100, vat |-> 14, total |-> 114,
            buyer |-> [tin |-> "b", name |-> "B"],
            seller |-> [tin |-> "s", name |-> "S"], items |-> <<Line>>]

(***************************************************************************)
(* Contents around that pair, a few columns at a time.                     *)
(***************************************************************************)
Priced(s, d, v) ==
  [Body EXCEPT !.subtotal = s, !.discount = d, !.vat = v, !.total = s - d + v]
TaxPriced(s, d, v) ==
  [TaxBody EXCEPT !.sales = s, !.discount = d, !.net = s - d, !.vat = v,
                  !.total = s - d + v]

MoneyPairs ==
  { <<Priced(s, d, v), TaxPriced(x, e, w)>> :
      s \in 98..102, d \in 0..2, v \in 13..15,
      x \in {100, 101}, e \in {0, 1}, w \in {14, 15} }

Buyers  == [tin : {NULL, "b", "s"}, name : {NULL, "B", "S"}]
Sellers == [tin : {NULL, "b", "s"}, name : {"B", "S"}]

PartyPairs ==
  { <<[Body EXCEPT !.tin = t, !.name = n],
      [TaxBody EXCEPT !.buyer = b, !.seller = s]>> :
      t \in {NULL, "b", "s", "x"}, n \in {"B", "S"}, b \in Buyers, s \in Sellers }

Itemisations ==
  {<<Line>>, <<Line, Line>>, <<[Line EXCEPT !.qty = 2]>>,
   <<Line, [qty |-> 1, vat |-> 0, total |-> 0]>>,
   <<[Line EXCEPT !.vat = 15]>>, <<[Line EXCEPT !.total = 116]>>}

OtherPairs ==
  { <<[Body EXCEPT !.items = i], [TaxBody EXCEPT !.items = j]>> :
      i \in Itemisations, j \in Itemisations \union {<<>>} } \union
  { <<[Body EXCEPT !.date = d, !.currency = c], TaxBody>> :
      d \in {131, 130}, c \in {"EGP", "USD"} }

Pairs == MoneyPairs \union PartyPairs \union OtherPairs

Earlier == [Priced(100, 0, 15) EXCEPT !.date = 130]
TaxLater == [TaxBody EXCEPT !.date = 201]

MCBodies == {p[1] : p \in Pairs} \union {Earlier}
MCTaxBodies == {p[2] : p \in Pairs} \union {TaxLater}

Pure(u, n, b) == [uuid |-> u, number |-> n, body |-> b]
ById(u) == [core |-> u, spelling |-> "plain"]

(***************************************************************************)
(* Runs of January of the company own.                                     *)
(***************************************************************************)
Runs(accountLists, taxLists, tolerances, others) ==
  [accounts : accountLists, taxes : taxLists, tolerance : tolerances,
   company : {own}, period : {1},
   elsewhere : [accounts : {<<>>}, taxes : {<<>>} \union {<<e>> : e \in others}]]

ContentDatasets ==
  UNION { Runs({<<Pure(ById(u1), ById(n1), p[1])>>}, {<<Pure(ById(u1), NULL, p[2])>>},
               MCTolerances, {}) : p \in Pairs }

(***************************************************************************)
(* Identities: up to two invoices on each side.  The importer stores UUIDs *)
(* in canonical form; the tax authority's texts come in any spelling.      *)
(***************************************************************************)
UpTo(n, S) == UNION {[1..k -> S] : k \in 0..n}

AccountLists(n) ==
  {s \in UpTo(n, {Pure(u, m, b) :
                    u \in {NULL} \union Plain(MCUuids \union {bad}),
                    m \in Plain(MCNumbers),
                    b \in {Body, Earlier}}) :
     /\ DistinctWhere(s, "uuid", MCUuids)
     /\ DistinctWhere(s, "number", MCNumbers)
     /\ \A i, j \in DOMAIN s : i < j => s[i].body.date <= s[j].body.date}

TaxLists(n) ==
  {s \in UpTo(n, {Pure(u, m, TaxBody) :
                    u \in {NULL} \union Either({u1}) \union Plain({u2, bad}),
                    m \in {NULL} \union Either({n1}) \union Plain({n2})}) :
     DistinctWhere(s, "uuid", MCUuids)}

IdentityDatasets == Runs(AccountLists(2), TaxLists(2), {0}, {})

(***************************************************************************)
(* The other side of an invoice in another month or company.               *)
(***************************************************************************)
Others ==
  {e \in [company : {own, other},
          invoice : {Pure(u, ById(n1), b) : u \in {NULL} \union Either({u1}),
                                           b \in {TaxBody, TaxLater}}] :
     e.company = own => e.invoice.body = TaxLater}

ElsewhereDatasets ==
  {d \in Runs(AccountLists(1), TaxLists(1), {0}, Others) :
     DistinctWhere(Invoices(TaxBook(d)), "uuid", MCUuids)}

MCDatasets == IdentityDatasets \union (ContentDatasets \union ElsewhereDatasets)

(***************************************************************************)
(* 002_einvoice_domain.sql:220, uq_reconciliation_results_run_tax: a run   *)
(* has one result per tax invoice.                                         *)
(***************************************************************************)
OneResultPerTax ==
  \A r, q \in results : r.tax # NULL /\ r.tax = q.tax => r = q

(***************************************************************************)
(* README.md:213, matching hierarchy: with "a malformed/unparseable UUID   *)
(* on either side" the invoice is invalid "and never matched".             *)
(***************************************************************************)
MalformedNeverMatched ==
  \A r \in results :
    (r.account # NULL /\ r.tax # NULL)
      => Normalized(Tax(r.tax).uuid) # Malformed
=============================================================================
