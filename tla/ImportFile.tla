----------------------------- MODULE ImportFile -----------------------------
(***************************************************************************)
(* The content of one import: how the rows of a sheet become invoices with *)
(* lines and totals, and which of them the database takes.  ImportBatch is *)
(* about the same upload, its transactions, races and crashes; here nobody *)
(* else writes, and what matters is which row ends where and what amounts. *)
(*                                                                         *)
(* A cell is what its text denotes, or GARBAGE (no number, date, UUID or   *)
(* type can be read from it), or BLANK.  Amounts are in ten-thousandths as *)
(* read and as quantities, in hundredths as money and as VAT rates.        *)
(*                                                                         *)
(* The importer compares texts as they are; the columns of the database    *)
(* compare them as their collation sorts them, and do not take every text  *)
(* or amount that the importer does.                                       *)
(***************************************************************************)
EXTENDS Integers, Sequences, FiniteSets, Functions

CONSTANTS
  Sheets,           \* bound: [headers, rows]: a header row and the rows there may be
  MaxRows,          \* bound: rows in a file
  Databases,        \* bound: sets of [uuid, number, mine], the invoices there may be
  ValidCurrencies,  \* the three-letter codes among the currencies of the sheets
  SortKey,          \* what utf8mb4_unicode_ci makes of the texts it does not leave alone
  Unstorable,       \* <<field, text>> its column refuses: too long, or no currency of A to Z
  MaxMoney,         \* the largest DECIMAL(15, 2), in hundredths
  MaxQuantity,      \* the largest DECIMAL(15, 4), in ten-thousandths
  BLANK, GARBAGE, NONE

ASSUME BoundsAssumption == MaxRows \in Nat

HeaderFields ==
  {"uuid", "invoice_number", "invoice_type", "invoice_date", "due_date", "currency",
   "counterparty_name", "counterparty_tax_id", "counterparty_email"}
MoneyFields == {"unit_price", "item_discount_amount", "vat_rate", "vat_amount", "line_total"}
ItemFields  == {"item_description", "quantity"} \union MoneyFields
Fields      == HeaderFields \union ItemFields
Required    == {"invoice_number", "invoice_date", "counterparty_name", "item_description"}
Default     == [invoice_type |-> "sales", currency |-> "EGP", quantity |-> 10000,
                unit_price |-> 0, item_discount_amount |-> 0, vat_rate |-> 0]

\* The columns take what the importer puts in for a blank.
ASSUME ColumnsAssumption ==
  /\ MaxMoney \in Nat /\ MaxQuantity \in Nat /\ Default["quantity"] <= MaxQuantity
  /\ \A f \in {"invoice_type", "currency"} : <<f, Default[f]>> \notin Unstorable

\* A sheet's cells are what a text may denote: amounts where amounts belong.
ASSUME MarkersAssumption ==
  \A m \in {BLANK, GARBAGE, NONE} :
    m \notin Int /\ m \notin Fields /\ m \notin {"sales", "EGP"}
ASSUME SheetsAssumption ==
  \A s \in Sheets : \A cells \in s.rows : \A k \in DOMAIN cells \intersect DOMAIN s.headers :
    /\ cells[k] # NONE
    /\ s.headers[k] \in MoneyFields \union {"quantity"} => cells[k] \in Int \union {BLANK, GARBAGE}

VARIABLES
  sheet,      \* the sheet the file is a copy of
  db,         \* the invoices that were there before
  rows,       \* the rows of the file, each a sequence of cells
  step, i,    \* the loop of import_file and how far it is
  mapping,    \* the field of each column, or NONE
  typed,      \* rows without error: [row, values]
  groups,     \* invoices in the order of their first rows
  accepted,   \* those that are to be persisted
  errors,     \* [row, field, code]
  stored,     \* the invoices this file has brought
  processed, error_rows, status  \* the batch

file == <<sheet, db, rows>>
vars == <<file, step, i, mapping, typed, groups, accepted, errors, stored,
          processed, error_rows, status>>

Init ==
  /\ sheet \in Sheets /\ db \in Databases
  /\ rows = <<>> /\ step = "file" /\ i = 1
  /\ mapping = <<>> /\ typed = <<>> /\ groups = <<>> /\ accepted = <<>>
  /\ errors = {} /\ stored = {}
  /\ processed = 0 /\ error_rows = 0 /\ status = "processing"

Get(t, f, d) == IF f \in DOMAIN t THEN t[f] ELSE d
Error(n, f, c) == [row |-> n, field |-> f, code |-> c]
Sum(s) == FoldFunction(+, 0, s)
SortsAs(text) == IF text \in DOMAIN SortKey THEN SortKey[text] ELSE text

\* Rounded to a d-th, halves away from zero; d is even.
HalfUp(n, d) == IF n < 0 THEN -((d \div 2 - n) \div d) ELSE (n + d \div 2) \div d

(***************************************************************************)
(* Columns and cells                                                       *)
(***************************************************************************)

\* A field's second column is an error and ignored, as unknown ones are.
ColumnMap(headers) ==
  [k \in DOMAIN headers |->
     IF headers[k] \in Fields /\ \A j \in 1..(k - 1) : headers[j] # headers[k]
       THEN headers[k] ELSE NONE]
DuplicateColumns(headers) ==
  {headers[k] : k \in {k \in DOMAIN headers :
                         headers[k] \in Fields /\ ColumnMap(headers)[k] = NONE}}

\* A row may have fewer cells than the sheet has columns.
MapRow(columns, cells) ==
  LET at == {k \in DOMAIN columns \intersect DOMAIN cells : columns[k] # NONE} IN
  [f \in {columns[k] : k \in at} |-> cells[CHOOSE k \in at : columns[k] = f]]

\* Fault: a UUID that is none is kept as it is.
ParsedAnyUuid(f, raw) ==
  IF raw = GARBAGE /\ f # "uuid" THEN NONE
  ELSE IF f \in MoneyFields THEN HalfUp(raw, 100) ELSE raw

Parsed(f, raw) ==
  IF raw = GARBAGE THEN NONE ELSE IF f \in MoneyFields THEN HalfUp(raw, 100) ELSE raw

Missing(values) == {f \in Fields : Get(values, f, BLANK) = BLANK}
Unread(values)  == {f \in Fields \ Missing(values) : Parsed(f, values[f]) = NONE}

NormalizeRow(values) ==
  [f \in (Fields \ (Missing(values) \union Unread(values)))
           \union (Missing(values) \intersect DOMAIN Default) |->
     IF f \in Missing(values) THEN Default[f] ELSE Parsed(f, values[f])]

FieldErrors(n, values) ==
  {Error(n, f, "MISSING_FIELD") : f \in Required \intersect Missing(values)}
    \union {Error(n, f, "INVALID") : f \in Unread(values)}

\* The gross amount of a line, exact, in millionths.
Gross(t) == Get(t, "unit_price", 0) * Get(t, "quantity", 10000)

\* Fault: a discount is held against the rounded gross amount.
OutOfRangeRounded(t) ==
  LET discount == Get(t, "item_discount_amount", 0)
  IN {f \in {"quantity", "unit_price", "item_discount_amount", "vat_rate"} :
        \/ f = "quantity" /\ Get(t, f, 1) <= 0
        \/ f = "unit_price" /\ Get(t, f, 0) < 0
        \/ f = "item_discount_amount" /\ (discount < 0 \/ discount > HalfUp(Gross(t), 10000))
        \/ f = "vat_rate" /\ Get(t, f, 0) \notin 0..10000}

OutOfRange(t) ==
  LET discount == Get(t, "item_discount_amount", 0)
  IN {f \in {"quantity", "unit_price", "item_discount_amount", "vat_rate"} :
        \/ f = "quantity" /\ Get(t, f, 1) <= 0
        \/ f = "unit_price" /\ Get(t, f, 0) < 0
        \/ f = "item_discount_amount" /\ (discount < 0 \/ discount * 10000 > Gross(t))
        \/ f = "vat_rate" /\ Get(t, f, 0) \notin 0..10000}

ValidateRow(n, t) == {Error(n, f, "INVALID") : f \in OutOfRange(t)}

(***************************************************************************)
(* Invoices                                                                *)
(***************************************************************************)

\* Every row without error has a number, which may read like another's UUID.
Key(t) == IF "uuid" \in DOMAIN t THEN t["uuid"] ELSE t["invoice_number"]

NewGroup(t) ==
  [key |-> Key(t), uuid |-> Get(t, "uuid", NONE), number |-> t["invoice_number"],
   rows |-> <<>>, values |-> <<>>, items |-> <<>>, errors |-> {}]

\* Fault: the first value of a field stands, whatever the next rows have.
AddRowTrusting(g, n, t) ==
  LET header == Restrict(t, HeaderFields \intersect DOMAIN t) IN
  [g EXCEPT !.values = [f \in DOMAIN g.values \union DOMAIN header |->
                          IF f \in DOMAIN g.values THEN g.values[f] ELSE header[f]],
            !.rows = Append(@, n),
            !.items = Append(@, Restrict(t, ItemFields \intersect DOMAIN t))]

\* The first value of a field stands; a row that has another is an error.
AddRow(g, n, t) ==
  LET header == Restrict(t, HeaderFields \intersect DOMAIN t)
      other  == {f \in DOMAIN header \intersect DOMAIN g.values : g.values[f] # header[f]}
  IN [g EXCEPT !.values = [f \in DOMAIN g.values \union DOMAIN header |->
                             IF f \in DOMAIN g.values THEN g.values[f] ELSE header[f]],
               !.errors = @ \union {Error(n, f, "INCONSISTENT_GROUP") : f \in other},
               !.rows = Append(@, n),
               !.items = Append(@, Restrict(t, ItemFields \intersect DOMAIN t))]

ValidateGroup(g) ==
  g.errors \union
    IF g.values["currency"] \in ValidCurrencies THEN {} ELSE {Error(g.rows[1], "currency", "INVALID")}

\* Looked up in the company, by the UUID of the first row, or by number when
\* that has none; it is the database that compares.
Exists(g) ==
  \E e \in db : e.mine /\ IF g.uuid # NONE THEN e.uuid = g.uuid
                           ELSE SortsAs(e.number) = SortsAs(g.number)

\* What was accepted before is compared as it is spelt.
SeenKey(g) == IF g.uuid # NONE THEN <<"uuid", g.uuid>> ELSE <<"number", g.number>>
DuplicateIn(g, before) ==
  \E k \in DOMAIN before :
    \/ SeenKey(before[k]) = SeenKey(g)
    \/ before[k].values["invoice_number"] = g.values["invoice_number"]

(***************************************************************************)
(* Amounts                                                                 *)
(***************************************************************************)
Subtotal(t)   == HalfUp(Gross(t), 10000)
Taxable(t)    == Subtotal(t) - Get(t, "item_discount_amount", 0)
DerivedVat(t) == HalfUp(Taxable(t) * Get(t, "vat_rate", 0), 10000)

\* The VAT of a line as its invoice counts it, and as the line itself has it.
CountedVat(t) == Get(t, "vat_amount", DerivedVat(t))
LineVat(t)    == IF CountedVat(t) = 0 THEN DerivedVat(t) ELSE CountedVat(t)

BuildItem(t) ==
  [description |-> t["item_description"],
   quantity |-> Get(t, "quantity", 10000), unit_price |-> Get(t, "unit_price", 0),
   discount |-> Get(t, "item_discount_amount", 0), vat |-> LineVat(t),
   total |-> Get(t, "line_total", Taxable(t) + LineVat(t))]

\* Fault: the total of a line is counted as if its VAT were never stated.
BuildInvoiceRecounting(g) ==
  LET each(F(_)) == Sum([k \in DOMAIN g.items |-> F(g.items[k])]) IN
  [uuid |-> Get(g.values, "uuid", NONE), number |-> g.values["invoice_number"],
   values |-> g.values, rows |-> g.rows,
   lines |-> [k \in DOMAIN g.items |-> BuildItem(g.items[k])],
   subtotal |-> each(Subtotal),
   discount |-> each(LAMBDA t : Get(t, "item_discount_amount", 0)),
   vat |-> each(DerivedVat),
   total |-> each(LAMBDA t : Get(t, "line_total", Taxable(t) + DerivedVat(t)))]

BuildInvoice(g) ==
  LET each(F(_)) == Sum([k \in DOMAIN g.items |-> F(g.items[k])]) IN
  [uuid |-> Get(g.values, "uuid", NONE), number |-> g.values["invoice_number"],
   values |-> g.values, rows |-> g.rows,
   lines |-> [k \in DOMAIN g.items |-> BuildItem(g.items[k])],
   subtotal |-> each(Subtotal),
   discount |-> each(LAMBDA t : Get(t, "item_discount_amount", 0)),
   vat |-> each(CountedVat),
   total |-> each(LAMBDA t : Get(t, "line_total", Taxable(t) + CountedVat(t)))]

\* The unique keys: a UUID in all companies, a number in its own, as it sorts.
Taken(inv) ==
  \/ inv.uuid # NONE /\ \E e \in db \union stored : e.uuid = inv.uuid
  \/ \E e \in {e \in db : e.mine} \union stored : SortsAs(e.number) = SortsAs(inv.number)

\* The columns and the CHECK constraints of a line and of an invoice.
LineChecks(l) ==
  /\ <<"item_description", l.description>> \notin Unstorable
  /\ l.quantity <= MaxQuantity
  /\ \A amount \in {l.unit_price, l.discount, l.vat, l.total} : amount <= MaxMoney
  /\ l.vat >= 0 /\ l.total >= 0
  /\ l.discount * 10000 <= l.unit_price * l.quantity
  /\ l.total = HalfUp(l.unit_price * l.quantity + (l.vat - l.discount) * 10000, 10000)
InvoiceChecks(inv) ==
  /\ \A f \in DOMAIN inv.values : <<f, inv.values[f]>> \notin Unstorable
  /\ \A amount \in {inv.subtotal, inv.discount, inv.vat, inv.total} : amount <= MaxMoney
  /\ inv.vat >= 0 /\ inv.total >= 0 /\ inv.discount <= inv.subtotal
  /\ inv.total = inv.subtotal - inv.discount + inv.vat
  /\ \A k \in DOMAIN inv.lines : LineChecks(inv.lines[k])

(***************************************************************************)
(* The steps of import_file                                                *)
(***************************************************************************)
ReadRow ==
  /\ step = "file" /\ Len(rows) < MaxRows
  /\ \E r \in sheet.rows : rows' = Append(rows, r)
  /\ UNCHANGED <<sheet, db, step, i, mapping, typed, groups, accepted, errors, stored,
                 processed, error_rows, status>>

\* A loop has ended: the next one begins.
Loop(next) == step' = next /\ i' = 1

\* A file with two columns for one field is refused as a whole.
MapHeaders ==
  /\ step = "file"
  /\ mapping' = ColumnMap(sheet.headers)
  /\ errors' = {Error(0, f, "DUPLICATE_HEADER") : f \in DuplicateColumns(sheet.headers)}
  /\ IF errors' = {}
       THEN Loop("rows") /\ UNCHANGED <<error_rows, status>>
       ELSE Loop("done") /\ error_rows' = 1 /\ status' = "failed"
  /\ UNCHANGED <<file, typed, groups, accepted, stored, processed>>

NormalizeRows ==
  /\ step = "rows"
  /\ IF i > Len(rows) THEN Loop("groups") /\ UNCHANGED <<typed, errors>>
     ELSE LET values == MapRow(mapping, rows[i])
              t      == NormalizeRow(values)
              bad    == FieldErrors(i, values) \union ValidateRow(i, t)
          IN /\ errors' = errors \union bad
             /\ typed' = IF bad = {} THEN Append(typed, [row |-> i, values |-> t]) ELSE typed
             /\ i' = i + 1 /\ UNCHANGED step
  /\ UNCHANGED <<file, mapping, groups, accepted, stored, processed, error_rows, status>>

GroupRows ==
  /\ step = "groups"
  /\ IF i > Len(typed) THEN Loop("check") /\ UNCHANGED groups
     ELSE LET t  == typed[i].values
              at == {k \in DOMAIN groups : groups[k].key = Key(t)}
          IN /\ IF at = {}
                  THEN groups' = Append(groups, AddRow(NewGroup(t), typed[i].row, t))
                  ELSE \E k \in at : groups' = [groups EXCEPT ![k] = AddRow(@, typed[i].row, t)]
             /\ i' = i + 1 /\ UNCHANGED step
  /\ UNCHANGED <<file, mapping, typed, accepted, errors, stored, processed, error_rows, status>>

\* What is wrong with an invoice, in the order of the code: the first kind only.
Problems(g) ==
  IF ValidateGroup(g) # {} THEN ValidateGroup(g)
  ELSE IF DuplicateIn(g, accepted) THEN {Error(g.rows[1], "invoice_number", "DUPLICATE_IN_FILE")}
  ELSE IF Exists(g)
    THEN {Error(g.rows[1], IF g.uuid = NONE THEN "invoice_number" ELSE "uuid", "DUPLICATE_IN_DB")}
  ELSE {}

DetectDuplicates ==
  /\ step = "check"
  /\ IF i > Len(groups) THEN Loop("persist") /\ UNCHANGED <<accepted, errors>>
     ELSE /\ errors' = errors \union Problems(groups[i])
          /\ accepted' = IF Problems(groups[i]) = {} THEN Append(accepted, groups[i]) ELSE accepted
          /\ i' = i + 1 /\ UNCHANGED step
  /\ UNCHANGED <<file, mapping, typed, groups, stored, processed, error_rows, status>>

\* Each invoice is a transaction of its own.
Persist ==
  /\ step = "persist"
  /\ IF i > Len(accepted) THEN Loop("finish") /\ UNCHANGED <<stored, processed, errors>>
     ELSE LET g == accepted[i]
              inv == BuildInvoice(g)
          IN /\ IF Taken(inv) \/ ~InvoiceChecks(inv)
                  THEN /\ errors' = errors \union {Error(g.rows[1], "invoice_number", "FILE_ERROR")}
                       /\ UNCHANGED <<stored, processed>>
                  ELSE /\ stored' = stored \union {inv}
                       /\ processed' = processed + Len(g.items)
                       /\ UNCHANGED errors
             /\ i' = i + 1 /\ UNCHANGED step
  /\ UNCHANGED <<file, mapping, typed, groups, accepted, error_rows, status>>

Finish ==
  /\ step = "finish"
  /\ Loop("done")
  /\ error_rows' = IF processed < Len(rows) THEN Len(rows) - processed ELSE 0
  /\ status' = IF processed = 0 /\ (errors # {} \/ rows = <<>>) THEN "failed" ELSE "completed"
  /\ UNCHANGED <<file, mapping, typed, groups, accepted, errors, stored, processed>>

Next == ReadRow \/ MapHeaders \/ NormalizeRows \/ GroupRows \/ DetectDuplicates \/ Persist \/ Finish

Spec == Init /\ [][Next]_vars

(***************************************************************************)
(* Properties                                                              *)
(***************************************************************************)

\* The variables keep their types: what is typed is read, required or defaulted.
TypeOK ==
  /\ step \in {"file", "rows", "groups", "check", "persist", "finish", "done"}
  /\ \A k \in DOMAIN typed :
       LET t == typed[k].values IN
       /\ typed[k].row \in DOMAIN rows
       /\ Required \union DOMAIN Default \subseteq DOMAIN t
       /\ \A f \in DOMAIN t : t[f] \notin {BLANK, GARBAGE, NONE}
  /\ \A e \in errors : e.row \in 0..Len(rows) /\ e.field \in Fields
  /\ error_rows \in 0..(MaxRows + 1) /\ processed \in 0..Len(rows)
  /\ status \in {"processing", "completed", "failed"}

Imported == step = "done" /\ ~\E e \in errors : e.row = 0
Cells(n) == MapRow(mapping, rows[n])
Stated(n, f) == Get(Cells(n), f, BLANK) # BLANK
CellKey(n) == IF Stated(n, "uuid") THEN Cells(n)["uuid"] ELSE Get(Cells(n), "invoice_number", BLANK)
SameInvoice(m, n) == CellKey(m) = CellKey(n)

(***************************************************************************)
(* After an import every row is either a line of exactly one invoice or    *)
(* reported, by itself or with another row of its invoice, never both; no  *)
(* value a line's row states for its invoice was dropped for another's;    *)
(* and the counters and the status of the batch say so.                    *)
(***************************************************************************)
RowsAnswered ==
  Imported =>
    LET holders(n) == {inv \in stored : \E k \in DOMAIN inv.rows : inv.rows[k] = n}
        own(n)     == {e \in errors : e.row = n}
        lines      == {n \in DOMAIN rows : holders(n) # {}}
    IN /\ \A n \in DOMAIN rows :
            \/ /\ Cardinality(holders(n)) = 1 /\ own(n) = {}
               /\ \A inv \in holders(n), f \in HeaderFields :
                    Stated(n, f) => inv.values[f] = Cells(n)[f]
            \/ holders(n) = {} /\ own(n) # {}
            \/ holders(n) = {} /\ \E m \in DOMAIN rows : SameInvoice(m, n) /\ own(m) # {}
       /\ processed = Cardinality(lines) /\ processed + error_rows = Len(rows)
       /\ status = "completed" <=> stored # {}

(***************************************************************************)
(* A stored invoice is the sum of its stored lines, except when a row      *)
(* states a VAT of zero over a positive rate: the line takes the rate's.   *)
(***************************************************************************)
LinesAddUp ==
  \A inv \in stored :
    \/ /\ inv.vat = Sum([k \in DOMAIN inv.lines |-> inv.lines[k].vat])
       /\ inv.total = Sum([k \in DOMAIN inv.lines |-> inv.lines[k].total])
    \/ \E k \in DOMAIN inv.rows :
         LET cells == Cells(inv.rows[k]) IN
         Stated(inv.rows[k], "vat_amount") /\ cells["vat_amount"] < 50 /\ Stated(inv.rows[k], "vat_rate")

(***************************************************************************)
(* Why the database refuses an invoice that the importer has accepted:     *)
(* - a row states its VAT or total beside the amounts they derive from;    *)
(* - a row states a text, a quantity or a price beyond its column, or the  *)
(*   sums go beyond theirs;                                                *)
(* - the company has the number, but the first row's UUID was looked up;   *)
(* - another company has a UUID that a row states, or this one has it and  *)
(*   the first row's number was looked up;                                 *)
(* - this file has brought the number, spelt differently but sorted alike. *)
(***************************************************************************)
Beyond(n) ==
  \/ \E f \in Fields : Stated(n, f) /\ <<f, Cells(n)[f]>> \in Unstorable
  \/ Stated(n, "quantity") /\ Cells(n)["quantity"] > MaxQuantity
  \/ Stated(n, "unit_price") /\ HalfUp(Cells(n)["unit_price"], 100) > MaxMoney

Cause(g) ==
  LET own    == {g.rows[k] : k \in DOMAIN g.rows}
      first  == g.rows[1]
      number == Cells(first)["invoice_number"]
  IN \/ \E n \in own : Stated(n, "vat_amount") \/ Stated(n, "line_total")
     \/ \E n \in own : Beyond(n)
     \/ BuildInvoice(g).subtotal > MaxMoney \/ BuildInvoice(g).total > MaxMoney
     \/ /\ Stated(first, "uuid")
        /\ \E d \in db : d.mine /\ SortsAs(d.number) = SortsAs(number)
     \/ \E n \in own, d \in db : /\ Stated(n, "uuid") /\ d.uuid = Cells(n)["uuid"]
                                 /\ d.mine => ~Stated(first, "uuid")
     \/ \E inv \in stored : inv.number # number /\ SortsAs(inv.number) = SortsAs(number)

(***************************************************************************)
(* An invoice that passed the checks of the importer is refused by the     *)
(* database for one of these causes only.  In particular derived amounts   *)
(* meet the constraints, however they are rounded, and so do their sums.   *)
(***************************************************************************)
RefusedForCause ==
  \A e \in errors : e.code = "FILE_ERROR" =>
    \E k \in DOMAIN accepted : accepted[k].rows[1] = e.row /\ Cause(accepted[k])
=============================================================================
