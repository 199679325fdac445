---------------------------- MODULE MCImportFile ----------------------------
(***************************************************************************)
(* Instances of ImportFile for TLC.                                        *)
(***************************************************************************)
EXTENDS ImportFile

Columns == <<"uuid", "invoice_number", "invoice_date", "currency", "counterparty_name",
             "item_description", "quantity", "unit_price", "item_discount_amount",
             "vat_rate", "vat_amount", "line_total", "remarks">>

\* A line of invoice N1: one piece at 10.00 with 14 % VAT.
Plain ==
  [uuid |-> BLANK, invoice_number |-> "N1", invoice_date |-> "d1", currency |-> BLANK,
   counterparty_name |-> "p1", item_description |-> "x", quantity |-> BLANK,
   unit_price |-> 100000, item_discount_amount |-> BLANK, vat_rate |-> 140000,
   vat_amount |-> BLANK, line_total |-> BLANK, remarks |-> BLANK]
Cells13(r) == [k \in DOMAIN Columns |-> r[Columns[k]]]

\* N1 and n1 are one number to the database, and a currency of Greek capitals
\* is none.
MCSortKey == [n1 |-> "N1"]
MCUnstorable == {<<"currency", "greek">>, <<"item_description", "long">>}

\* Identities and header values of every sort ...
MCIdentityRows ==
  {Cells13(Plain),
   Cells13([Plain EXCEPT !.uuid = "u1"]),
   Cells13([Plain EXCEPT !.uuid = "u1", !.invoice_number = "N2"]),
   Cells13([Plain EXCEPT !.uuid = GARBAGE]),
   Cells13([Plain EXCEPT !.invoice_number = "N2", !.currency = "USD"]),
   Cells13([Plain EXCEPT !.invoice_number = "N2"]),
   Cells13([Plain EXCEPT !.invoice_number = "N3", !.currency = "usd"]),
   Cells13([Plain EXCEPT !.invoice_number = BLANK]),
   Cells13([Plain EXCEPT !.invoice_number = "n1"]),
   Cells13([Plain EXCEPT !.invoice_number = "u1"]),
   Cells13([Plain EXCEPT !.invoice_number = "u1", !.uuid = "u1"]),
   Cells13([Plain EXCEPT !.invoice_number = "N2", !.currency = "greek"]),
   Cells13([Plain EXCEPT !.item_description = "long"]),
   SubSeq(Cells13(Plain), 1, 5)}

\* ... and amounts: thirds, discounts, stated VAT and totals, what is refused.
MCAmountRows ==
  {Cells13([Plain EXCEPT !.quantity = 3333, !.unit_price = 150]),
   Cells13([Plain EXCEPT !.quantity = 15, !.unit_price = 333300, !.item_discount_amount = 400]),
   Cells13([Plain EXCEPT !.quantity = 15, !.unit_price = 333300, !.item_discount_amount = 500]),
   Cells13([Plain EXCEPT !.item_discount_amount = 100050]),
   Cells13([Plain EXCEPT !.item_discount_amount = 100000]),
   Cells13([Plain EXCEPT !.vat_amount = 0]),
   Cells13([Plain EXCEPT !.vat_amount = 0, !.line_total = 100000]),
   Cells13([Plain EXCEPT !.vat_amount = 10000]),
   Cells13([Plain EXCEPT !.line_total = -10000]),
   Cells13([Plain EXCEPT !.quantity = 0]),
   Cells13([Plain EXCEPT !.unit_price = 180000]),
   Cells13([Plain EXCEPT !.unit_price = 30, !.quantity = 5000000]),
   Cells13([Plain EXCEPT !.unit_price = 380000, !.quantity = 100]),
   Cells13([Plain EXCEPT !.vat_rate = GARBAGE])}

MCSheets ==
  {[headers |-> Columns, rows |-> MCIdentityRows],
   [headers |-> Columns, rows |-> MCAmountRows],
   [headers |-> Tail(Columns), rows |-> {Tail(Cells13(Plain))}],
   [headers |-> Append(Columns, "vat_rate"), rows |-> {Cells13(Plain)}],
   [headers |-> SubSeq(Columns, 1, 5), rows |-> {SubSeq(Cells13(Plain), 1, 5)}]}

MCDatabases ==
  {{}, {[uuid |-> NONE, number |-> "N1", mine |-> TRUE]},
   {[uuid |-> "u1", number |-> "N9", mine |-> TRUE]},
   {[uuid |-> "u1", number |-> "N1", mine |-> FALSE]}}
=============================================================================
