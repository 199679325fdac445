-------------------------- MODULE ReconcileReport --------------------------
(***************************************************************************)
(* What a run reads and what a reader gets of it: the selection of a       *)
(* company's invoices of a period from the books (the repositories of both *)
(* sides), and the reports over the stored results and errors - pages,     *)
(* filters, exports, the summary and the list the notifications are made   *)
(* of (reconciliation/repository.py, service.py, routes.py, export.py).    *)
(***************************************************************************)
EXTENDS ReconcileEngine

CONSTANT Sizes  \* of pages and of the batches of an export

ASSUME SizesAssumption == Sizes \subseteq Nat \ {0}

(***************************************************************************)
(* A dataset also has the company and the month of the run, and what else  *)
(* is in the books of the two sides: entries of other companies or months. *)
(* A date is 100 * month + day.                                            *)
(***************************************************************************)
Period(date) == date \div 100

(***************************************************************************)
(* list is what list_by_company_and_period returns of a book: the entries  *)
(* of the company and month, in the order of their dates and then ids.     *)
(***************************************************************************)
Selected(list, book, company, period) ==
  LET Date(k) == book[k].invoice.body.date
      Before(k, l) == Date(k) < Date(l) \/ (Date(k) = Date(l) /\ k < l)
      places == {k \in DOMAIN book : /\ book[k].company = company
                                     /\ Period(Date(k)) = period}
  IN \E order \in [DOMAIN list -> places] :
       /\ \A n \in DOMAIN list : list[n] = book[order[n]].invoice
       /\ \A k \in places : \E n \in DOMAIN list : order[n] = k
       /\ \A m, n \in DOMAIN list : m < n => Before(order[m], order[n])

Invoices(book) == [k \in DOMAIN book |-> book[k].invoice]

Book(own, company, elsewhere) ==
  [k \in DOMAIN own |-> [company |-> company, invoice |-> own[k]]] \o elsewhere

AccountBook(d) == Book(d.accounts, d.company, d.elsewhere.accounts)
TaxBook(d) == Book(d.taxes, d.company, d.elsewhere.taxes)

SelectedAccounts(d) == Selected(d.accounts, AccountBook(d), d.company, d.period)
SelectedTaxes(d) == Selected(d.taxes, TaxBook(d), d.company, d.period)

\* The lists of a run are what both selections return, each by its own date.
ASSUME SelectionAssumption ==
  \A d \in Datasets :
    /\ d.period \in Nat
    /\ SelectedAccounts(d) /\ SelectedTaxes(d)
    /\ DistinctWhere(Invoices(AccountBook(d)), "uuid", Uuids)
    /\ DistinctWhere(Invoices(TaxBook(d)), "uuid", Uuids)

-----------------------------------------------------------------------------
(***************************************************************************)
(* ORDER BY: the members of a finite set by their ranks, where equal ranks *)
(* leave the order open; and WHERE: the entries of a list that are at some *)
(* of its places.                                                          *)
(***************************************************************************)
Lowest(S, rank) == CHOOSE x \in S : \A y \in S : rank[x] <= rank[y]

InOrder(S, rank) ==
  MapThenFoldSet(LAMBDA x, list : <<x>> \o list, <<>>, LAMBDA x : x,
                 LAMBDA rest : Lowest(rest, rank), S)

Chosen(list, places) ==
  LET order == InOrder(places, [k \in places |-> k])
  IN [n \in DOMAIN order |-> list[order[n]]]

(***************************************************************************)
(* The rows of the two reports, in the order of their ids.  Results are    *)
(* inserted in the order of the engine's lists, accounting invoices first; *)
(* each joins the invoices it is about.  Nothing is there before the       *)
(* transaction that finishes the run.                                      *)
(***************************************************************************)
Joined(id, list) == IF id = NULL THEN NULL ELSE list[id]

InsertRank(r) ==
  IF r.account # NULL THEN r.account ELSE Len(data.accounts) + r.tax

ResultRows ==
  LET inserted == InOrder(results, [r \in results |-> InsertRank(r)])
  IN IF stored # "saved" THEN <<>>
     ELSE [k \in DOMAIN inserted |->
            [id |-> k, result |-> inserted[k],
             i |-> Joined(inserted[k].account, data.accounts),
             t |-> Joined(inserted[k].tax, data.taxes)]]

\* Which of a run's errors comes first is left open.
ErrorRows ==
  LET inserted == InOrder(errors, [e \in errors |-> 0])
  IN IF stored # "saved" THEN <<>>
     ELSE [k \in DOMAIN inserted |-> [id |-> k, error |-> inserted[k]]]

(***************************************************************************)
(* _build_results_where: a filter that is absent is NULL.  The date range  *)
(* is on the accounting invoice, so it hides the rows that have none.      *)
(***************************************************************************)
HasUuid(invoice, u) == invoice # NULL /\ Normalized(invoice.uuid) = u

Where(f, row) ==
  /\ f.match_status \in {NULL, row.result.status}
  /\ f.uuid = NULL \/ HasUuid(row.i, f.uuid) \/ HasUuid(row.t, f.uuid)
  /\ f.invoice_number = NULL \/ (/\ row.i # NULL
                                 /\ Normalized(row.i.number) = f.invoice_number)
  /\ f.date_from = NULL \/ (row.i # NULL /\ f.date_from <= row.i.body.date)
  /\ f.date_to = NULL \/ (row.i # NULL /\ row.i.body.date <= f.date_to)

ErrorsWhere(f, row) ==
  /\ f.error_type \in {NULL, row.error.type}
  /\ f.source_type \in {NULL, row.error.source}

NoFilter == [match_status |-> NULL, uuid |-> NULL, invoice_number |-> NULL,
             date_from |-> NULL, date_to |-> NULL]
NoErrorFilter == [error_type |-> NULL, source_type |-> NULL]

\* The routes answer 400 to a range that is turned round, and to an unknown
\* status or source.
FilterAccepted(f) ==
  f.date_from = NULL \/ f.date_to = NULL \/ f.date_from <= f.date_to

ResultsWhere(rows, f) == Chosen(rows, {k \in DOMAIN rows : Where(f, rows[k])})
ErrorsOf(rows, f) == Chosen(rows, {k \in DOMAIN rows : ErrorsWhere(f, rows[k])})

(***************************************************************************)
(* LIMIT and OFFSET, and the envelope around a page.  The total is counted *)
(* by a query of its own; a finished run's rows do not change in between.  *)
(***************************************************************************)
Limit(rows, offset, limit) ==
  SubSeq(rows, offset + 1,
         IF offset + limit < Len(rows) THEN offset + limit ELSE Len(rows))

\* Fault: the first page skips a page.
PageFromOne(rows, page, size) == Limit(rows, page * size, size)

PageOf(rows, page, size) == Limit(rows, (page - 1) * size, size)

CountResults(rows, f) == Len(ResultsWhere(rows, f))
CountErrors(rows, f) == Len(ErrorsOf(rows, f))

Envelope(items, total, page, size) ==
  [items |-> items, page |-> page, page_size |-> size,
   total |-> total, total_pages |-> (total + size - 1) \div size]

PaginateResults(rows, f, page, size) ==
  Envelope(PageOf(ResultsWhere(rows, f), page, size), CountResults(rows, f), page, size)

PaginateErrors(rows, f, page, size) ==
  Envelope(PageOf(ErrorsOf(rows, f), page, size), CountErrors(rows, f), page, size)

(***************************************************************************)
(* Exports read batches after the last id seen, each on a connection of    *)
(* its own, until one is empty or short.                                   *)
(***************************************************************************)
Batch(rows, seen, size) ==
  Limit(Chosen(rows, {k \in DOMAIN rows : rows[k].id > seen}), 0, size)

Streamed(rows, size) ==
  LET from[seen \in {0} \union {rows[k].id : k \in DOMAIN rows}] ==
        LET batch == Batch(rows, seen, size)
        IN IF Len(batch) < size THEN batch
           ELSE batch \o from[Last(batch).id]
  IN from[0]

ExportResults(rows, f, size) == Streamed(ResultsWhere(rows, f), size)
ExportErrors(rows, f, size) == Streamed(ErrorsOf(rows, f), size)

(***************************************************************************)
(* The summary: results counted per status, and the errors.                *)
(***************************************************************************)
Statuses == {"matched", "mismatched", "missing_in_tax_authority",
             "extra_in_tax_authority", "invalid"}

\* A filter that is absent is none of the values it could have.
ASSUME FilterAssumption == NULL \notin Statuses

Counts(rows) ==
  [s \in Statuses |-> Cardinality({k \in DOMAIN rows : rows[k].result.status = s})]

Summary(rows, errorRows) ==
  [counts |-> Counts(rows),
   total_results |-> FoldSet(LAMBDA s, n : Counts(rows)[s] + n, 0, Statuses),
   unmatched |-> FoldSet(LAMBDA s, n : Counts(rows)[s] + n, 0, Statuses)
                   - Counts(rows)["matched"],
   errors |-> CountErrors(errorRows, NoErrorFilter)]

(***************************************************************************)
(* list_affected_results_with_party: what the notifications tell of.       *)
(***************************************************************************)
Affected(rows) ==
  Chosen(rows, {k \in DOMAIN rows :
                  /\ rows[k].i # NULL
                  /\ rows[k].result.status \in
                       {"mismatched", "missing_in_tax_authority", "invalid"}})

-----------------------------------------------------------------------------
(***************************************************************************)
(* README "Reconciliation": missing means missing.  When an accounting     *)
(* invoice is reported missing, or a tax invoice extra, no invoice of the  *)
(* same company and month could have answered for it: whatever bears its   *)
(* UUID (or its number, if it has no UUID) in the other book belongs to    *)
(* another company or to another month.                                    *)
(***************************************************************************)
SameIdentity(a, t) ==
  IF a.uuid # NULL THEN Normalized(a.uuid) = Normalized(t.uuid)
  ELSE Normalized(a.number) = Normalized(t.number) /\ a.number # NULL

OfTheRun(entry) ==
  entry.company = data.company /\ Period(entry.invoice.body.date) = data.period

MissingIsMissing ==
  Done =>
    \A r \in results :
      /\ r.status = "missing_in_tax_authority" =>
           \A k \in DOMAIN TaxBook(data) :
             LET entry == TaxBook(data)[k]
             IN SameIdentity(Acc(r.account), entry.invoice) => ~OfTheRun(entry)
      /\ r.status = "extra_in_tax_authority" =>
           \A k \in DOMAIN AccountBook(data) :
             LET entry == AccountBook(data)[k]
             IN (SameIdentity(entry.invoice, Tax(r.tax)) /\ OfTheRun(entry)) =>
                  \* another tax invoice of that identity answers for it
                  \E q \in results : /\ q.account # NULL
                                     /\ Acc(q.account) = entry.invoice
                                     /\ q.tax \in Taxes \ {r.tax}

(***************************************************************************)
(* Every way to read a run tells the same: for whatever filter, the pages  *)
(* of any size, one after the other, and the export in batches of any size *)
(* are the filtered list, the totals and the summary count it, the         *)
(* notifications tell of exactly the accounting invoices that did not      *)
(* match, and a range of dates around the month hides nothing but the      *)
(* invoices only the tax authority has.                                    *)
(***************************************************************************)
ReadAlike(rows, Paginate(_, _), Export(_)) ==
  \A size \in Sizes :
    LET first == Paginate(1, size)
    IN /\ first.total = Len(rows)
       /\ FlattenSeq([p \in 1..first.total_pages |-> Paginate(p, size).items]) = rows
       /\ Export(size) = rows

Filters ==
  LET only(f, v) == [NoFilter EXCEPT ![f] = v]
      dates == {data.accounts[i].body.date : i \in Accounts}
  IN {NoFilter}
     \union {only("match_status", s) : s \in Statuses}
     \union {only("uuid", u) : u \in Uuids}
     \union {only("invoice_number", n) : n \in Numbers}
     \union {[NoFilter EXCEPT !.date_from = x, !.date_to = y] :
               x \in dates \union {NULL}, y \in dates \union {NULL}}

ErrorFilters ==
  [error_type : {e.type : e \in errors} \union {NULL},
   source_type : {"account", "tax", NULL}]

WholeMonth == [NoFilter EXCEPT !.date_from = 100 * data.period,
                               !.date_to = 100 * data.period + 99]

ReportTellsAll ==
  LET rows == ResultRows
      errorRows == ErrorRows
      summary == Summary(rows, errorRows)
      Shown(f) == {row.result : row \in Range(ResultsWhere(rows, f))}
  IN stored = "saved" =>
       /\ \A f \in Filters :
            FilterAccepted(f) =>
              ReadAlike(ResultsWhere(rows, f),
                        LAMBDA p, size : PaginateResults(rows, f, p, size),
                        LAMBDA size : ExportResults(rows, f, size))
       /\ \A f \in ErrorFilters :
            ReadAlike(ErrorsOf(errorRows, f),
                      LAMBDA p, size : PaginateErrors(errorRows, f, p, size),
                      LAMBDA size : ExportErrors(errorRows, f, size))
       /\ Shown(NoFilter) = results
       /\ \A s \in Statuses :
            CountResults(rows, [NoFilter EXCEPT !.match_status = s])
              = summary.counts[s]
       /\ summary.total_results = Cardinality(results)
       /\ summary.errors = Cardinality(errors)
       /\ {row.result.account : row \in Range(Affected(rows))}
            = {i \in Accounts : \A r \in results :
                 r.account = i => r.status # "matched"}
       /\ Shown(WholeMonth) = {r \in results : r.account # NULL}
       /\ \A u \in Uuids :
            Shown([NoFilter EXCEPT !.uuid = u])
              = {r \in results :
                   \/ r.account # NULL /\ Normalized(Acc(r.account).uuid) = u
                   \/ r.tax # NULL /\ Normalized(Tax(r.tax).uuid) = u}
=============================================================================
