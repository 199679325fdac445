--------------------------- MODULE MCImportBatch ---------------------------
(***************************************************************************)
(* Files for TLC: one invoice by UUID and number, two by number, one with  *)
(* a number twice and an invalid one, one with an invoice and then one     *)
(* whose amounts do not fit, and the kinds of files that are not good.     *)
(***************************************************************************)
EXTENDS ImportBatch, TLC

CONSTANTS c1, c2, u1, u2, n1, n2

MCIdentities == {u1, u2, n1, n2}

Invoice(uuid, number) ==
  [uuid |-> uuid, number |-> number, valid |-> TRUE, fits |-> TRUE]
Unfit(invoice) == [invoice EXCEPT !.fits = FALSE]
File(company, groups) == [company |-> company, kind |-> "good", groups |-> groups]

MCUploads ==
  { File(c1, <<Invoice(u1, n1)>>),
    File(c2, <<Invoice(u1, n1), Unfit(Invoice(NULL, n2))>>),
    File(c1, <<Invoice(NULL, n1), Invoice(NULL, n2)>>),
    File(c2, <<Invoice(u1, n2), Invoice(u2, n2),
               [Invoice(NULL, n1) EXCEPT !.valid = FALSE]>>),
    [File(c1, <<>>) EXCEPT !.kind = "unreadable"],
    [File(c1, <<Invoice(NULL, n1)>>) EXCEPT !.kind = "header"],
    [File(c2, <<Invoice(NULL, n1)>>) EXCEPT !.kind = "overflow"] }

WorkerSymmetry == Permutations(Workers)
=============================================================================
