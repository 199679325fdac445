-------------------------- MODULE ImportFile_proofs --------------------------
(***************************************************************************)
(* Proofs about ImportFile, for every sheet, every database and files of   *)
(* any length: that every row is answered for, once and truly, that the    *)
(* counters of the batch say so, that stored lines add up, and why the     *)
(* database refuses an invoice.                                            *)
(***************************************************************************)
EXTENDS ImportFile, FiniteSetTheorems, WellFoundedInduction, TLAPS

IsSeq(s) == s \in Seq({s[k] : k \in DOMAIN s})

\* What a row of the file is read as, and whether anything is wrong with it.
Read(n)  == NormalizeRow(Cells(n))
Clean(n) == FieldErrors(n, Cells(n)) = {} /\ ValidateRow(n, Read(n)) = {}
Blamed(n) == \E e \in errors : e.row = n

RowsOf(g) == {g.rows[k] : k \in DOMAIN g.rows}
Lines     == UNION {RowsOf(inv) : inv \in stored}

\* Some error is about the header row: the file was refused as a whole.
Refused == \E e \in errors : e.row = 0

(***************************************************************************)
(* How far each loop is.                                                   *)
(***************************************************************************)
RowsDone ==
  CASE step = "file" -> {} [] step = "rows" -> 1..(i - 1) [] OTHER -> DOMAIN rows
TypedDone ==
  CASE step \in {"file", "rows"} -> {}
    [] step = "groups" -> 1..(i - 1)
    [] OTHER -> DOMAIN typed
GroupsDone ==
  CASE step \in {"file", "rows", "groups"} -> {}
    [] step = "check" -> 1..(i - 1)
    [] OTHER -> DOMAIN groups
AcceptedDone ==
  CASE step \in {"file", "rows", "groups", "check"} -> {}
    [] step = "persist" -> 1..(i - 1)
    [] OTHER -> DOMAIN accepted

Steps == {"file", "rows", "groups", "check", "persist", "finish", "done"}

(***************************************************************************)
(* The file, and how far the loop at hand may be.                          *)
(***************************************************************************)
Shape ==
  /\ sheet \in Sheets /\ step \in Steps
  /\ rows \in Seq(sheet.rows) /\ Len(rows) <= MaxRows
  /\ step # "file" => mapping = ColumnMap(sheet.headers)
  /\ i \in Nat \ {0}
  /\ step = "rows" => i <= Len(rows) + 1
  /\ step = "groups" => i <= Len(typed) + 1
  /\ step = "check" => i <= Len(groups) + 1
  /\ step = "persist" => i <= Len(accepted) + 1
  /\ IsSeq(typed) /\ IsSeq(groups) /\ IsSeq(accepted)
  /\ step = "file" => errors = {}
  /\ Refused => /\ step = "done" /\ \A e \in errors : e.row = 0
                /\ typed = <<>> /\ stored = {}
                /\ processed = 0 /\ error_rows = 1 /\ status = "failed"
  /\ \A e \in errors : e.field \in Fields

(***************************************************************************)
(* The first loop has read the rows it has seen, or blamed them.           *)
(***************************************************************************)
RowsRead ==
  /\ \A k \in DOMAIN typed :
       /\ typed[k].row \in RowsDone /\ Clean(typed[k].row)
       /\ typed[k].values = Read(typed[k].row)
  /\ \A k, l \in DOMAIN typed : typed[k].row = typed[l].row => k = l
  /\ \A n \in RowsDone :
       IF Clean(n) THEN \E k \in DOMAIN typed : typed[k].row = n ELSE Blamed(n)

(***************************************************************************)
(* A group holds rows of one key, each once and with what it states of its *)
(* line, and no two groups share a key: together they hold the rows that   *)
(* the second loop has seen.                                               *)
(***************************************************************************)
Item(t) == Restrict(t, ItemFields \intersect DOMAIN t)

GroupFields == {"key", "uuid", "number", "rows", "values", "items", "errors"}

IsPart(g) ==
  /\ DOMAIN g = GroupFields
  /\ IsSeq(g.rows) /\ IsSeq(g.items) /\ Len(g.items) = Len(g.rows)
  /\ \A k \in DOMAIN g.rows : g.items[k] = Item(Read(g.rows[k]))
  /\ \A k, l \in DOMAIN g.rows : g.rows[k] = g.rows[l] => k = l
  /\ \A n \in RowsOf(g) :
       /\ Key(Read(n)) = g.key
       /\ \A f \in HeaderFields \intersect DOMAIN Read(n) :
            f \in DOMAIN g.values /\ (g.errors = {} => g.values[f] = Read(n)[f])
  /\ \A e \in g.errors : e.row \in RowsOf(g) /\ e.field \in HeaderFields

IsGroup(g) == IsPart(g) /\ g.rows # <<>>

Grouped ==
  /\ \A k \in DOMAIN groups : IsGroup(groups[k])
  /\ \A k, l \in DOMAIN groups : groups[k].key = groups[l].key => k = l
  /\ \A k \in DOMAIN groups : \A n \in RowsOf(groups[k]) :
       \E j \in TypedDone : typed[j].row = n
  /\ \A j \in TypedDone : \E k \in DOMAIN groups : typed[j].row \in RowsOf(groups[k])

(***************************************************************************)
(* The third loop has accepted the groups it has seen, or blamed a row.    *)
(***************************************************************************)
IsAccepted(g) == \E k \in DOMAIN accepted : accepted[k] = g

Checked ==
  /\ \A k \in DOMAIN accepted :
       accepted[k].errors = {} /\ \E j \in GroupsDone : accepted[k] = groups[j]
  /\ \A k, l \in DOMAIN accepted : accepted[k] = accepted[l] => k = l
  /\ \A j \in GroupsDone :
       IsAccepted(groups[j]) \/ \E n \in RowsOf(groups[j]) : Blamed(n)

(***************************************************************************)
(* The fourth loop has stored the invoices it has seen, or blamed a row,   *)
(* and has counted their lines.                                            *)
(***************************************************************************)
Persisted ==
  /\ \A inv \in stored : \E k \in AcceptedDone : inv = BuildInvoice(accepted[k])
  /\ \A k \in AcceptedDone :
       BuildInvoice(accepted[k]) \in stored \/ \E n \in RowsOf(accepted[k]) : Blamed(n)
  /\ processed = Cardinality(Lines)

(***************************************************************************)
(* Nobody is blamed without cause: a row with an error is not readable, or *)
(* its group has not been accepted, or not been stored.                    *)
(***************************************************************************)
BlamedForCause ==
  \A e \in errors :
    /\ e.row \in RowsDone
    /\ e.row \notin Lines
    /\ Clean(e.row) =>
         \E j \in GroupsDone :
           /\ e.row \in RowsOf(groups[j])
           /\ IsAccepted(groups[j]) => \E k \in AcceptedDone : accepted[k] = groups[j]

Closed ==
  IF step = "done"
    THEN /\ error_rows = Len(rows) - processed
         /\ status = IF processed = 0 /\ (errors # {} \/ rows = <<>>)
                       THEN "failed" ELSE "completed"
    ELSE error_rows = 0 /\ status = "processing"

Main == RowsRead /\ Grouped /\ Checked /\ Persisted /\ BlamedForCause /\ Closed

IInv == Shape /\ (Refused \/ Main)

(***************************************************************************)
(* Sequences                                                               *)
(***************************************************************************)
LEMMA SeqFacts ==
  ASSUME NEW s, IsSeq(s)
  PROVE  Len(s) \in Nat /\ DOMAIN s = 1..Len(s)
BY DEF IsSeq

LEMMA EmptyFacts == IsSeq(<<>>) /\ DOMAIN <<>> = {} /\ Len(<<>>) = 0
BY DEF IsSeq

LEMMA AppendFacts ==
  ASSUME NEW s, IsSeq(s), NEW x
  PROVE  LET t == Append(s, x)
         IN /\ IsSeq(t) /\ Len(t) = Len(s) + 1 /\ DOMAIN t = 1..(Len(s) + 1)
            /\ \A k \in DOMAIN s : t[k] = s[k]
            /\ t[Len(s) + 1] = x
<1> DEFINE S == {s[k] : k \in DOMAIN s}
           t == Append(s, x)
           T == {t[k] : k \in DOMAIN t}
<1>1. s \in Seq(S \union {x}) /\ s \in Seq(S)
  BY DEF IsSeq
<1>2. /\ t \in Seq(S \union {x}) /\ Len(t) = Len(s) + 1 /\ DOMAIN t = 1..(Len(s) + 1)
      /\ \A k \in DOMAIN s : t[k] = s[k]
      /\ t[Len(s) + 1] = x
  BY <1>1
<1>3. \A k \in DOMAIN t : t[k] \in T
  OBVIOUS
<1> HIDE DEF t, T
<1>4. t \in Seq(T)
  BY <1>2, <1>3
<1>5. QED
  BY <1>2, <1>4 DEF t, T, IsSeq

LEMMA ExceptFacts ==
  ASSUME NEW s, IsSeq(s), NEW k \in DOMAIN s, NEW y
  PROVE  LET t == [s EXCEPT ![k] = y]
         IN /\ IsSeq(t) /\ Len(t) = Len(s) /\ DOMAIN t = DOMAIN s
            /\ t[k] = y
            /\ \A j \in DOMAIN s \ {k} : t[j] = s[j]
<1> DEFINE S == {s[j] : j \in DOMAIN s}
           t == [s EXCEPT ![k] = y]
           T == {t[j] : j \in DOMAIN t}
<1>1. s \in Seq(S) /\ Len(s) \in Nat /\ DOMAIN s = 1..Len(s)
  BY DEF IsSeq
<1>2. t \in [1..Len(s) -> T]
  BY <1>1
<1>3. /\ DOMAIN t = DOMAIN s /\ t[k] = y
      /\ \A j \in DOMAIN s \ {k} : t[j] = s[j]
  BY <1>1
<1> HIDE DEF t, T
<1>4. t \in Seq(T) /\ Len(t) = Len(s)
  BY <1>1, <1>2
<1>5. QED
  BY <1>3, <1>4 DEF IsSeq, t, T

(***************************************************************************)
(* The loops: a later one has seen nothing before the earlier one is done. *)
(***************************************************************************)
LEMMA NothingYet ==
  ASSUME Shape, Main
  PROVE  /\ RowsDone = {} => DOMAIN typed = {}
         /\ TypedDone = {} => DOMAIN groups = {}
         /\ GroupsDone = {} => DOMAIN accepted = {}
         /\ AcceptedDone = {} => stored = {} /\ Lines = {}
<1>1. RowsDone = {} => DOMAIN typed = {}
  BY DEF Main, RowsRead
<1>2. TypedDone = {} => DOMAIN groups = {}
  <2>1. \A k \in DOMAIN groups : 1 \in DOMAIN groups[k].rows
    <3>1. SUFFICES ASSUME NEW k \in DOMAIN groups PROVE 1 \in DOMAIN groups[k].rows
      OBVIOUS
    <3>2. IsSeq(groups[k].rows) /\ groups[k].rows # <<>>
      BY DEF Main, Grouped, IsGroup, IsPart
    <3>3. QED
      BY <3>2 DEF IsSeq
  <2>2. \A k \in DOMAIN groups : \E n : n \in RowsOf(groups[k])
    BY <2>1 DEF RowsOf
  <2>3. QED
    BY <2>2 DEF Main, Grouped
<1>3. GroupsDone = {} => DOMAIN accepted = {}
  BY DEF Main, Checked
<1>4. AcceptedDone = {} => stored = {} /\ Lines = {}
  BY DEF Main, Persisted, Lines
<1>5. QED
  BY <1>1, <1>2, <1>3, <1>4

LEMMA SameMain ==
  ASSUME Main,
         UNCHANGED <<file, mapping, typed, groups, accepted, errors, stored, processed>>,
         RowsDone' = RowsDone, TypedDone' = TypedDone,
         GroupsDone' = GroupsDone, AcceptedDone' = AcceptedDone
  PROVE  RowsRead' /\ Grouped' /\ Checked' /\ Persisted' /\ BlamedForCause'
<1>1. \A n : Read(n)' = Read(n) /\ (Clean(n)' <=> Clean(n)) /\ (Blamed(n)' <=> Blamed(n))
  BY DEF file, Read, Clean, Cells, Blamed
<1>2. Lines' = Lines /\ \A g : RowsOf(g)' = RowsOf(g)
  BY DEF Lines, RowsOf
<1>3. \A g : IsAccepted(g)' <=> IsAccepted(g)
  BY DEF IsAccepted
<1>4. \A g : IsGroup(g)' <=> IsGroup(g)
  BY <1>1, <1>2 DEF IsGroup, IsPart
<1> HIDE DEF Read, Clean, Blamed, Lines, RowsOf, IsAccepted, IsGroup
<1>5. RowsRead'
  BY <1>1 DEF Main, RowsRead
<1>6. Grouped'
  BY <1>2, <1>4 DEF Main, Grouped
<1>7. Checked'
  BY <1>1, <1>2, <1>3 DEF Main, Checked
<1>8. Persisted'
  BY <1>1, <1>2 DEF Main, Persisted
<1>9. BlamedForCause'
  BY <1>1, <1>2, <1>3 DEF Main, BlamedForCause
<1>10. QED
  BY <1>5, <1>6, <1>7, <1>8, <1>9

(***************************************************************************)
(* Before any loop: nothing has been read.                                 *)
(***************************************************************************)
Nothing ==
  /\ typed = <<>> /\ groups = <<>> /\ accepted = <<>> /\ stored = {} /\ errors = {}
  /\ processed = 0 /\ error_rows = 0 /\ status = "processing"

LEMMA NothingIsMain ==
  ASSUME Nothing, step \in {"file", "rows"}, step = "rows" => i = 1
  PROVE  Main
<1>1. RowsDone = {} /\ TypedDone = {} /\ GroupsDone = {} /\ AcceptedDone = {}
  BY DEF RowsDone, TypedDone, GroupsDone, AcceptedDone
<1>2. DOMAIN typed = {} /\ DOMAIN groups = {} /\ DOMAIN accepted = {} /\ Lines = {}
  BY EmptyFacts DEF Nothing, Lines
<1>3. RowsRead /\ Grouped /\ Checked
  BY <1>1, <1>2 DEF RowsRead, Grouped, Checked
<1>4. Persisted
  BY <1>1, <1>2, FS_EmptySet DEF Nothing, Persisted
<1>5. BlamedForCause /\ Closed
  BY DEF Nothing, BlamedForCause, Closed
<1>6. QED
  BY <1>3, <1>4, <1>5 DEF Main

Start == Nothing /\ step \in {"file", "rows"} /\ (step = "rows" => i = 1)

LEMMA StartIsMain == Start => Main
BY NothingIsMain DEF Start

LEMMA StartIsMainNext == Start' => Main'
BY StartIsMain, PTL

LEMMA FileIsStart ==
  ASSUME Shape, Main, step = "file"
  PROVE  Start
<1>1. RowsDone = {} /\ TypedDone = {} /\ GroupsDone = {} /\ AcceptedDone = {}
  BY DEF RowsDone, TypedDone, GroupsDone, AcceptedDone
<1>2. DOMAIN typed = {} /\ DOMAIN groups = {} /\ DOMAIN accepted = {}
      /\ stored = {} /\ Lines = {}
  BY <1>1, NothingYet
<1>3. \A s : IsSeq(s) /\ DOMAIN s = {} => s = <<>>
  BY DEF IsSeq
<1>4. typed = <<>> /\ groups = <<>> /\ accepted = <<>>
  BY <1>2, <1>3 DEF Shape
<1>5. processed = 0
  BY <1>2, FS_EmptySet DEF Main, Persisted
<1>6. errors = {} /\ error_rows = 0 /\ status = "processing"
  BY DEF Shape, Main, Closed
<1>7. QED
  BY <1>2, <1>4, <1>5, <1>6 DEF Start, Nothing

LEMMA FileNotRefused == ASSUME Shape, step # "done" PROVE ~Refused
BY DEF Shape

LEMMA ReadRowKeeps ==
  ASSUME IInv, ReadRow
  PROVE  IInv'
<1>1. Shape /\ Main /\ step = "file"
  BY FileNotRefused DEF IInv, ReadRow
<1>2. Main'
  <2>1. Start
    BY <1>1, FileIsStart
  <2>2. Start'
    BY <2>1 DEF ReadRow, Start, Nothing
  <2>3. QED
    BY <2>2, StartIsMainNext
<1>3. Shape'
  <2>1. PICK r \in sheet.rows : rows' = Append(rows, r)
    BY DEF ReadRow
  <2>2. rows' \in Seq(sheet.rows) /\ Len(rows') = Len(rows) + 1 /\ Len(rows) \in Nat
    BY <1>1, <2>1 DEF Shape
  <2>3. Len(rows) < MaxRows
    BY DEF ReadRow
  <2>4. Len(rows') <= MaxRows
    BY <2>2, <2>3, BoundsAssumption
  <2>5. QED
    BY <1>1, <2>2, <2>4 DEF ReadRow, Shape, IsSeq, Refused
<1>4. QED
  BY <1>2, <1>3 DEF IInv

LEMMA MapHeadersKeeps ==
  ASSUME IInv, MapHeaders
  PROVE  IInv'
<1>1. Shape /\ Main /\ step = "file"
  BY FileNotRefused DEF IInv, MapHeaders
<1>2. Start
  BY <1>1, FileIsStart
<1>3. \A e \in errors' : e.row = 0 /\ e.field \in Fields
  BY DEF MapHeaders, Error, DuplicateColumns
<1>4. UNCHANGED <<file, typed, groups, accepted, stored, processed>>
      /\ mapping' = ColumnMap(sheet.headers)
  BY DEF MapHeaders
<1>5. CASE errors' = {}
  <2>1. step' = "rows" /\ i' = 1 /\ UNCHANGED <<error_rows, status>>
    BY <1>5 DEF MapHeaders, Loop
  <2>2. Start'
    BY <1>2, <1>4, <1>5, <2>1 DEF Start, Nothing
  <2>3. Len(rows) \in Nat
    BY <1>1 DEF Shape
  <2>4. Shape'
    BY <1>1, <1>4, <1>5, <2>1, <2>3 DEF Shape, file, IsSeq, Refused, Steps
  <2>5. QED
    BY <2>2, <2>4, StartIsMainNext DEF IInv
<1>6. CASE errors' # {}
  <2>1. step' = "done" /\ i' = 1 /\ error_rows' = 1 /\ status' = "failed"
    BY <1>6 DEF MapHeaders, Loop
  <2>2. Refused'
    BY <1>3, <1>6 DEF Refused
  <2>3. typed' = <<>> /\ stored' = {} /\ processed' = 0
    BY <1>2, <1>4 DEF Start, Nothing
  <2>4. Shape'
    BY <1>1, <1>3, <1>4, <2>1, <2>3 DEF Shape, file, IsSeq, Steps
  <2>5. QED
    BY <2>2, <2>4 DEF IInv
<1>7. QED
  BY <1>5, <1>6

LEMMA InitIsIInv == Init => IInv
<1> SUFFICES ASSUME Init PROVE IInv
  OBVIOUS
<1>1. Start
  BY DEF Init, Start, Nothing
<1>2. <<>> \in Seq(sheet.rows) /\ Len(<<>>) = 0
  OBVIOUS
<1>3. Shape
  BY <1>2, BoundsAssumption, EmptyFacts DEF Init, Shape, Steps, Refused
<1>4. QED
  BY <1>1, <1>3, StartIsMain DEF IInv

(***************************************************************************)
(* The first loop                                                          *)
(***************************************************************************)
LEMMA RowErrors ==
  ASSUME NEW n, NEW values, NEW t, NEW e \in FieldErrors(n, values) \union ValidateRow(n, t)
  PROVE  e.row = n /\ e.field \in Fields
<1>1. CASE e \in FieldErrors(n, values)
  BY <1>1 DEF FieldErrors, Error, Missing, Unread
<1>2. CASE e \in ValidateRow(n, t)
  <2>1. PICK f \in OutOfRange(t) : e = Error(n, f, "INVALID")
    BY <1>2 DEF ValidateRow
  <2>2. f \in {"quantity", "unit_price", "item_discount_amount", "vat_rate"}
    BY DEF OutOfRange
  <2>3. QED
    BY <2>1, <2>2 DEF Error, Fields, ItemFields, MoneyFields
<1>3. QED
  BY <1>1, <1>2

LEMMA RowsEnd ==
  ASSUME IInv, NormalizeRows, i > Len(rows)
  PROVE  IInv'
<1>1. Shape /\ Main /\ step = "rows"
  BY FileNotRefused DEF IInv, NormalizeRows
<1>2. /\ step' = "groups" /\ i' = 1
      /\ UNCHANGED <<file, mapping, typed, groups, accepted, errors, stored, processed,
                     error_rows, status>>
  BY DEF NormalizeRows, Loop
<1>3. Len(rows) \in Nat /\ DOMAIN rows = 1..Len(rows) /\ i = Len(rows) + 1
  BY <1>1 DEF Shape
<1>4. /\ RowsDone' = RowsDone /\ TypedDone' = TypedDone
      /\ GroupsDone' = GroupsDone /\ AcceptedDone' = AcceptedDone
  BY <1>1, <1>2, <1>3 DEF file, RowsDone, TypedDone, GroupsDone, AcceptedDone
<1>5. RowsRead' /\ Grouped' /\ Checked' /\ Persisted' /\ BlamedForCause'
  BY <1>1, <1>2, <1>4, SameMain
<1>6. Closed'
  BY <1>1, <1>2 DEF Main, Closed
<1>7. Shape'
  BY <1>1, <1>2, SeqFacts DEF Shape, file, IsSeq, Refused, Steps
<1>8. QED
  BY <1>5, <1>6, <1>7 DEF IInv, Main

LEMMA RowKeeps ==
  ASSUME IInv, NormalizeRows, ~(i > Len(rows))
  PROVE  IInv'
<1>1. Shape /\ Main /\ step = "rows"
  BY FileNotRefused DEF IInv, NormalizeRows
<1> DEFINE bad == FieldErrors(i, Cells(i)) \union ValidateRow(i, Read(i))
           entry == [row |-> i, values |-> Read(i)]
<1>2. /\ errors' = errors \union bad
      /\ typed' = IF bad = {} THEN Append(typed, entry) ELSE typed
      /\ i' = i + 1 /\ step' = step
      /\ UNCHANGED <<file, mapping, groups, accepted, stored, processed, error_rows, status>>
  BY DEF NormalizeRows, Read, Cells
<1>3. /\ Len(rows) \in Nat /\ DOMAIN rows = 1..Len(rows)
      /\ i \in Nat \ {0} /\ i \in DOMAIN rows /\ i' \in Nat
  BY <1>1, <1>2 DEF Shape
<1>4. /\ RowsDone = 1..(i - 1) /\ RowsDone' = 1..i
      /\ TypedDone = {} /\ GroupsDone = {} /\ AcceptedDone = {}
      /\ TypedDone' = {} /\ GroupsDone' = {} /\ AcceptedDone' = {}
  BY <1>1, <1>2, <1>3 DEF RowsDone, TypedDone, GroupsDone, AcceptedDone
<1>5. RowsDone' = RowsDone \union {i} /\ i \notin RowsDone
  BY <1>3, <1>4
<1>6. DOMAIN groups = {} /\ DOMAIN accepted = {} /\ stored = {} /\ Lines = {}
  BY <1>1, <1>4, NothingYet
<1>7. Lines' = {}
  BY <1>2, <1>6 DEF Lines
<1>8. \A n : Read(n)' = Read(n) /\ (Clean(n)' <=> Clean(n))
  BY <1>2 DEF file, Read, Clean, Cells
<1>9. (bad = {} <=> Clean(i)) /\ \A e \in bad : e.row = i /\ e.field \in Fields
  BY RowErrors DEF Clean
<1>11. entry.row = i /\ entry.values = Read(i)
  OBVIOUS
<1> HIDE DEF bad, entry
<1>10. /\ \A n : Blamed(n) => Blamed(n)'
       /\ bad # {} => \A n : n = i => Blamed(n)'
  <2>1. \A e \in errors : e \in errors'
    BY <1>2
  <2>2. bad # {} => \E e \in errors' : e.row = i
    BY <1>2, <1>9
  <2>3. QED
    BY <2>1, <2>2 DEF Blamed
<1>12. IsSeq(typed)
  BY <1>1 DEF Shape
<1>13. RowsRead' /\ IsSeq(typed)'
  <2>1. CASE bad = {}
    <3>1. typed' = Append(typed, entry)
      BY <1>2, <2>1
    <3>2. /\ IsSeq(typed') /\ DOMAIN typed' = DOMAIN typed \union {Len(typed) + 1}
          /\ Len(typed) + 1 \notin DOMAIN typed
          /\ \A k \in DOMAIN typed : typed'[k] = typed[k]
          /\ typed'[Len(typed) + 1] = entry
      BY <1>12, <3>1, SeqFacts, AppendFacts
    <3>3. Clean(i)
      BY <1>9, <2>1
    <3> HIDE DEF Read, Clean, Blamed
    <3>4. \A k \in DOMAIN typed' :
            /\ typed'[k].row \in RowsDone' /\ Clean(typed'[k].row)
            /\ typed'[k].values = Read(typed'[k].row)
      BY <1>1, <1>5, <1>11, <3>2, <3>3 DEF Main, RowsRead
    <3>5. \A k, l \in DOMAIN typed' : typed'[k].row = typed'[l].row => k = l
      BY <1>1, <1>5, <1>11, <3>2 DEF Main, RowsRead
    <3>6. \A n \in RowsDone' :
            IF Clean(n) THEN \E k \in DOMAIN typed' : typed'[k].row = n ELSE Blamed(n)'
      BY <1>1, <1>5, <1>10, <1>11, <3>2, <3>3 DEF Main, RowsRead
    <3>7. IsSeq(typed)'
      BY <3>2 DEF IsSeq
    <3>8. QED
      BY <1>8, <3>4, <3>5, <3>6, <3>7 DEF RowsRead
  <2>2. CASE bad # {}
    <3>1. typed' = typed
      BY <1>2, <2>2
    <3>2. ~Clean(i) /\ \A n : n = i => Blamed(n)'
      BY <1>9, <1>10, <2>2
    <3> HIDE DEF Read, Clean, Blamed
    <3>3. IsSeq(typed)'
      BY <1>12, <3>1 DEF IsSeq
    <3>4. \A n \in RowsDone' :
            IF Clean(n) THEN \E k \in DOMAIN typed' : typed'[k].row = n ELSE Blamed(n)'
      BY <1>1, <1>5, <1>10, <3>1, <3>2 DEF Main, RowsRead
    <3>5. \A k \in DOMAIN typed' :
            /\ typed'[k].row \in RowsDone' /\ Clean(typed'[k].row)
            /\ typed'[k].values = Read(typed'[k].row)
      BY <1>1, <1>5, <3>1 DEF Main, RowsRead
    <3>6. \A k, l \in DOMAIN typed' : typed'[k].row = typed'[l].row => k = l
      BY <1>1, <3>1 DEF Main, RowsRead
    <3>7. QED
      BY <1>8, <3>3, <3>4, <3>5, <3>6 DEF RowsRead
  <2>3. QED
    BY <2>1, <2>2
<1>14. Grouped' /\ Checked'
  BY <1>2, <1>4, <1>6 DEF Grouped, Checked
<1>15. Persisted' /\ Closed'
  BY <1>1, <1>2, <1>4, <1>6, <1>7 DEF Main, Persisted, Closed
<1>16. BlamedForCause'
  <2>1. \A e \in errors : e.row \in RowsDone /\ ~Clean(e.row)
    BY <1>1, <1>4 DEF Main, BlamedForCause
  <2>2. \A e \in bad : e.row = i /\ ~Clean(i)
    BY <1>9
  <2> HIDE DEF Clean
  <2>3. \A e \in errors' : e.row \in RowsDone' /\ ~Clean(e.row)
    BY <1>2, <1>5, <2>1, <2>2
  <2>4. QED
    BY <1>7, <1>8, <2>3 DEF BlamedForCause
<1>17. Shape'
  <2>1. \A e \in errors' : e.row # 0 /\ e.field \in Fields
    BY <1>1, <1>2, <1>3, <1>9 DEF Shape, Refused
  <2>2. i' <= Len(rows') + 1
    BY <1>2, <1>3 DEF file
  <2>3. ~Refused'
    BY <2>1 DEF Refused
  <2>4. IsSeq(groups)' /\ IsSeq(accepted)'
    BY <1>1, <1>2 DEF Shape, IsSeq
  <2>5. QED
    BY <1>1, <1>2, <1>3, <1>13, <2>1, <2>2, <2>3, <2>4 DEF Shape, file
<1>18. QED
  BY <1>13, <1>14, <1>15, <1>16, <1>17 DEF IInv, Main

LEMMA NormalizeRowsKeeps == ASSUME IInv, NormalizeRows PROVE IInv'
BY RowsEnd, RowKeeps

(***************************************************************************)
(* The second loop: how a group takes a row.                               *)
(***************************************************************************)
Header(t) == Restrict(t, HeaderFields \intersect DOMAIN t)

LEMMA HeaderIs ==
  ASSUME NEW t
  PROVE  /\ DOMAIN Header(t) = HeaderFields \intersect DOMAIN t
         /\ \A f \in DOMAIN Header(t) : Header(t)[f] = t[f]
BY DEF Header, Restrict

Merged(g, t) ==
  [f \in DOMAIN g.values \union DOMAIN Header(t) |->
     IF f \in DOMAIN g.values THEN g.values[f] ELSE Header(t)[f]]

Other(g, t) ==
  {f \in DOMAIN Header(t) \intersect DOMAIN g.values : g.values[f] # Header(t)[f]}

OtherErrors(g, n, t) == {Error(n, f, "INCONSISTENT_GROUP") : f \in Other(g, t)}

LEMMA AddRowIs ==
  ASSUME NEW g, DOMAIN g = GroupFields, NEW n, NEW t
  PROVE  /\ DOMAIN AddRow(g, n, t) = GroupFields
         /\ AddRow(g, n, t).key = g.key
         /\ AddRow(g, n, t).rows = Append(g.rows, n)
         /\ AddRow(g, n, t).items = Append(g.items, Item(t))
         /\ AddRow(g, n, t).values = Merged(g, t)
         /\ AddRow(g, n, t).errors = g.errors \union OtherErrors(g, n, t)
<1> DEFINE h == AddRow(g, n, t)
           k == [g EXCEPT !.values = Merged(g, t), !.errors = @ \union OtherErrors(g, n, t),
                          !.rows = Append(@, n), !.items = Append(@, Item(t))]
<1>1. h = k
  BY DEF AddRow, Header, Item, Merged, OtherErrors, Other
<1> HIDE DEF h
<1>2. /\ DOMAIN k = GroupFields
      /\ k.key = g.key
      /\ k.rows = Append(g.rows, n)
      /\ k.items = Append(g.items, Item(t))
      /\ k.values = Merged(g, t)
      /\ k.errors = g.errors \union OtherErrors(g, n, t)
  BY DEF GroupFields
<1> HIDE DEF k
<1>3. QED
  BY <1>1, <1>2 DEF h

LEMMA GroupGrows ==
  ASSUME NEW g, IsPart(g), NEW n, n \notin RowsOf(g), Key(Read(n)) = g.key
  PROVE  /\ IsGroup(AddRow(g, n, Read(n)))
         /\ AddRow(g, n, Read(n)).key = g.key
         /\ RowsOf(AddRow(g, n, Read(n))) = RowsOf(g) \union {n}
<1> DEFINE t == Read(n)
           h == AddRow(g, n, t)
           other == Other(g, t)
<1>0. DOMAIN g = GroupFields
  BY DEF IsPart
<1>1. /\ DOMAIN h = GroupFields
      /\ h.key = g.key
      /\ h.rows = Append(g.rows, n)
      /\ h.items = Append(g.items, Item(t))
      /\ h.values = Merged(g, t)
      /\ h.errors = g.errors \union OtherErrors(g, n, t)
  BY <1>0, AddRowIs
<1>2. DOMAIN Header(t) = HeaderFields \intersect DOMAIN t
      /\ \A f \in DOMAIN Header(t) : Header(t)[f] = t[f]
  BY HeaderIs
<1> HIDE DEF h, t, other
<1>3. /\ IsSeq(g.rows) /\ IsSeq(g.items) /\ Len(g.items) = Len(g.rows)
  BY DEF IsPart
<1>4. /\ IsSeq(h.rows) /\ Len(h.rows) = Len(g.rows) + 1
      /\ DOMAIN h.rows = DOMAIN g.rows \union {Len(g.rows) + 1}
      /\ Len(g.rows) + 1 \notin DOMAIN g.rows
      /\ \A k \in DOMAIN g.rows : h.rows[k] = g.rows[k]
      /\ h.rows[Len(g.rows) + 1] = n
  BY <1>1, <1>3, SeqFacts, AppendFacts
<1>5. /\ IsSeq(h.items) /\ Len(h.items) = Len(g.items) + 1
      /\ \A k \in DOMAIN g.items : h.items[k] = g.items[k]
      /\ h.items[Len(g.items) + 1] = Item(t)
  BY <1>1, <1>3, AppendFacts
<1>16. \A k \in DOMAIN h.rows : h.items[k] = Item(Read(h.rows[k]))
  <2>1. DOMAIN g.items = DOMAIN g.rows
    BY <1>3, SeqFacts
  <2>2. \A k \in DOMAIN g.rows : g.items[k] = Item(Read(g.rows[k]))
    BY DEF IsPart
  <2>3. Item(Read(h.rows[Len(g.rows) + 1])) = Item(t)
    BY <1>4 DEF t
  <2>4. QED
    BY <1>3, <1>4, <1>5, <2>1, <2>2, <2>3
<1>6. RowsOf(h) = RowsOf(g) \union {n}
  BY <1>4 DEF RowsOf
<1>7. \A k, l \in DOMAIN h.rows : h.rows[k] = h.rows[l] => k = l
  <2>1. \A k \in DOMAIN g.rows : g.rows[k] # n
    BY DEF RowsOf
  <2>2. QED
    BY <1>4, <2>1 DEF IsPart
<1>8. \A m \in RowsOf(h) : Key(Read(m)) = h.key
  BY <1>1, <1>6 DEF IsPart
<1>9. \A f \in DOMAIN g.values \union DOMAIN Header(t) :
        /\ f \in DOMAIN h.values
        /\ h.values[f] = IF f \in DOMAIN g.values THEN g.values[f] ELSE Header(t)[f]
  BY <1>1 DEF Merged
<1>10. h.errors = {} => g.errors = {} /\ other = {}
  BY <1>1 DEF OtherErrors, other
<1>11. \A m \in RowsOf(h) : \A f \in HeaderFields \intersect DOMAIN Read(m) :
         f \in DOMAIN h.values /\ (h.errors = {} => h.values[f] = Read(m)[f])
  <2>1. SUFFICES ASSUME NEW m \in RowsOf(h), NEW f \in HeaderFields \intersect DOMAIN Read(m)
                 PROVE  f \in DOMAIN h.values /\ (h.errors = {} => h.values[f] = Read(m)[f])
    OBVIOUS
  <2>2. CASE m \in RowsOf(g)
    <3>1. f \in DOMAIN g.values /\ (g.errors = {} => g.values[f] = Read(m)[f])
      BY <2>2 DEF IsPart
    <3>2. QED
      BY <1>9, <1>10, <3>1
  <2>3. CASE m = n
    <3>1. f \in DOMAIN Header(t) /\ Header(t)[f] = Read(m)[f]
      BY <1>2, <2>3 DEF t
    <3>2. other = {} /\ f \in DOMAIN g.values => g.values[f] = Header(t)[f]
      BY <3>1 DEF other, Other
    <3>3. QED
      BY <1>9, <1>10, <3>1, <3>2
  <2>4. QED
    BY <1>6, <2>2, <2>3
<1>12. \A e \in h.errors : e.row \in RowsOf(h) /\ e.field \in HeaderFields
  <2>1. \A e \in g.errors : e.row \in RowsOf(g) /\ e.field \in HeaderFields
    BY DEF IsPart
  <2>2. \A f \in other : f \in HeaderFields
    BY <1>2 DEF other, Other
  <2>3. QED
    BY <1>1, <1>6, <2>1, <2>2 DEF Error, OtherErrors, other
<1>13. h.rows # <<>>
  BY <1>4, EmptyFacts
<1>14. IsGroup(h)
  BY <1>1, <1>3, <1>4, <1>5, <1>7, <1>8, <1>11, <1>12, <1>13, <1>16 DEF IsGroup, IsPart
<1>15. QED
  BY <1>1, <1>6, <1>14 DEF h, t

LEMMA NewGroupIs ==
  ASSUME NEW t
  PROVE  IsPart(NewGroup(t)) /\ NewGroup(t).key = Key(t) /\ RowsOf(NewGroup(t)) = {}
<1> DEFINE g == NewGroup(t)
<1>1. /\ DOMAIN g = GroupFields /\ g.key = Key(t)
      /\ g.rows = <<>> /\ g.items = <<>> /\ g.errors = {}
  BY DEF NewGroup, GroupFields
<1> HIDE DEF g
<1>2. RowsOf(g) = {}
  BY <1>1, EmptyFacts DEF RowsOf
<1>3. IsPart(g)
  BY <1>1, <1>2, EmptyFacts DEF IsPart
<1>4. QED
  BY <1>1, <1>2, <1>3 DEF g

LEMMA GroupsEnd ==
  ASSUME IInv, GroupRows, i > Len(typed)
  PROVE  IInv'
<1>1. Shape /\ Main /\ step = "groups"
  BY FileNotRefused DEF IInv, GroupRows
<1>2. /\ step' = "check" /\ i' = 1
      /\ UNCHANGED <<file, mapping, typed, groups, accepted, errors, stored, processed,
                     error_rows, status>>
  BY DEF GroupRows, Loop
<1>3. Len(typed) \in Nat /\ DOMAIN typed = 1..Len(typed) /\ i = Len(typed) + 1
  BY <1>1, SeqFacts DEF Shape
<1>4. /\ RowsDone' = RowsDone /\ TypedDone' = TypedDone
      /\ GroupsDone' = GroupsDone /\ AcceptedDone' = AcceptedDone
  BY <1>1, <1>2, <1>3 DEF file, RowsDone, TypedDone, GroupsDone, AcceptedDone
<1>5. RowsRead' /\ Grouped' /\ Checked' /\ Persisted' /\ BlamedForCause'
  BY <1>1, <1>2, <1>4, SameMain
<1>6. Closed'
  BY <1>1, <1>2 DEF Main, Closed
<1>7. Shape'
  BY <1>1, <1>2, SeqFacts DEF Shape, file, IsSeq, Refused, Steps
<1>8. QED
  BY <1>5, <1>6, <1>7 DEF IInv, Main

(***************************************************************************)
(* One group, new or old, has taken the row.                               *)
(***************************************************************************)
Takes(n, t) ==
  LET at == {k \in DOMAIN groups : groups[k].key = Key(t)}
  IN IF at = {}
       THEN groups' = Append(groups, AddRow(NewGroup(t), n, t))
       ELSE \E k \in at : groups' = [groups EXCEPT ![k] = AddRow(@, n, t)]

Took(k0, n, t) ==
  /\ IsGroup(groups'[k0]) /\ groups'[k0].key = Key(t)
  /\ \A m : m \in RowsOf(groups'[k0]) <=>
             m = n \/ (k0 \in DOMAIN groups /\ m \in RowsOf(groups[k0]))
  /\ k0 \in DOMAIN groups' /\ DOMAIN groups' = DOMAIN groups \union {k0}
  /\ k0 \in DOMAIN groups => groups[k0].key = Key(t)
  /\ k0 \notin DOMAIN groups => \A k \in DOMAIN groups : groups[k].key # Key(t)
  /\ \A k \in DOMAIN groups \ {k0} : groups'[k] = groups[k]

LEMMA GroupTaken ==
  ASSUME IsSeq(groups), \A k \in DOMAIN groups : IsGroup(groups[k]),
         NEW n, NEW t, t = Read(n),
         \A k \in DOMAIN groups : n \notin RowsOf(groups[k]),
         Takes(n, t)
  PROVE  IsSeq(groups') /\ \E k0 : Took(k0, n, t)
<1> DEFINE at == {k \in DOMAIN groups : groups[k].key = Key(t)}
<1>1. CASE at = {}
  <2> DEFINE h == AddRow(NewGroup(t), n, t)
  <2>1. IsGroup(h) /\ h.key = Key(t) /\ RowsOf(h) = {n}
    BY NewGroupIs, GroupGrows
  <2>2. groups' = Append(groups, h)
    BY <1>1 DEF Takes
  <2> HIDE DEF h
  <2>3. /\ IsSeq(groups') /\ DOMAIN groups' = DOMAIN groups \union {Len(groups) + 1}
        /\ Len(groups) + 1 \notin DOMAIN groups
        /\ \A k \in DOMAIN groups : groups'[k] = groups[k]
        /\ groups'[Len(groups) + 1] = h
    BY <2>2, SeqFacts, AppendFacts
  <2>4. \A k \in DOMAIN groups : groups[k].key # Key(t)
    BY <1>1
  <2>5. Len(groups) + 1 \in DOMAIN groups'
    BY <2>3
  <2>6. Took(Len(groups) + 1, n, t)
    BY <2>1, <2>3, <2>4, <2>5 DEF Took
  <2>7. QED
    BY <2>3, <2>6
<1>2. CASE at # {}
  <2>1. PICK k0 \in at : groups' = [groups EXCEPT ![k0] = AddRow(@, n, t)]
    BY <1>2 DEF Takes
  <2>2. k0 \in DOMAIN groups /\ groups[k0].key = Key(t)
    OBVIOUS
  <2> DEFINE h == AddRow(groups[k0], n, t)
  <2>3. groups' = [groups EXCEPT ![k0] = h]
    BY <2>1
  <2>4. IsPart(groups[k0]) /\ n \notin RowsOf(groups[k0]) /\ groups[k0].key = Key(Read(n))
    BY <2>2 DEF IsGroup
  <2>5. /\ IsGroup(h) /\ h.key = groups[k0].key
        /\ RowsOf(h) = RowsOf(groups[k0]) \union {n}
    BY <2>4, GroupGrows
  <2> HIDE DEF h
  <2>6. /\ IsSeq(groups') /\ DOMAIN groups' = DOMAIN groups
        /\ groups'[k0] = h
        /\ \A k \in DOMAIN groups \ {k0} : groups'[k] = groups[k]
    BY <2>2, <2>3, ExceptFacts
  <2>7. Took(k0, n, t)
    BY <2>2, <2>5, <2>6 DEF Took
  <2>8. QED
    BY <2>6, <2>7
<1>3. QED
  BY <1>1, <1>2

LEMMA GroupKeeps ==
  ASSUME IInv, GroupRows, ~(i > Len(typed))
  PROVE  IInv'
<1>1. Shape /\ Main /\ step = "groups"
  BY FileNotRefused DEF IInv, GroupRows
<1> DEFINE n == typed[i].row
           t == typed[i].values
<1>2. /\ i' = i + 1 /\ step' = step
      /\ UNCHANGED <<file, mapping, typed, accepted, errors, stored, processed, error_rows,
                     status>>
      /\ Takes(n, t)
  BY DEF GroupRows, Takes
<1>3. /\ Len(typed) \in Nat /\ DOMAIN typed = 1..Len(typed)
      /\ i \in Nat \ {0} /\ i \in DOMAIN typed
  BY <1>1, SeqFacts DEF Shape
<1>4. /\ TypedDone = 1..(i - 1) /\ TypedDone' = 1..i
      /\ RowsDone' = RowsDone
      /\ GroupsDone = {} /\ AcceptedDone = {} /\ GroupsDone' = {} /\ AcceptedDone' = {}
  BY <1>1, <1>2, <1>3 DEF file, RowsDone, TypedDone, GroupsDone, AcceptedDone
<1>5. TypedDone' = TypedDone \union {i} /\ i \notin TypedDone /\ TypedDone \subseteq DOMAIN typed
  BY <1>3, <1>4
<1>6. t = Read(n) /\ \A j \in DOMAIN typed : typed[j].row = n => j = i
  BY <1>1, <1>3 DEF Main, RowsRead
<1>7. \A k \in DOMAIN groups : n \notin RowsOf(groups[k])
  <2> HIDE DEF n
  <2>1. QED
    BY <1>1, <1>5, <1>6 DEF Main, Grouped
<1>8. IsSeq(groups) /\ \A k \in DOMAIN groups : IsGroup(groups[k])
  BY <1>1 DEF Shape, Main, Grouped
<1> HIDE DEF n, t
<1>9. IsSeq(groups') /\ \E k0 : Took(k0, n, t)
  BY <1>2, <1>6, <1>7, <1>8, GroupTaken
<1>10. PICK k0 : Took(k0, n, t)
  BY <1>9
<1>11. \A m : Read(m)' = Read(m) /\ (Clean(m)' <=> Clean(m)) /\ (Blamed(m)' <=> Blamed(m))
  BY <1>2 DEF file, Read, Clean, Cells, Blamed
<1>12. \A g : (IsGroup(g)' <=> IsGroup(g)) /\ RowsOf(g)' = RowsOf(g)
  BY <1>11 DEF IsGroup, IsPart, RowsOf
<1>13. DOMAIN accepted = {} /\ stored = {} /\ Lines = {} /\ Lines' = {}
  BY <1>1, <1>2, <1>4, NothingYet DEF Lines
<1>14. Grouped'
  <2>1. \A k \in DOMAIN groups' : IsGroup(groups'[k])
    BY <1>8, <1>10 DEF Took
  <2>2. \A k, l \in DOMAIN groups' : groups'[k].key = groups'[l].key => k = l
    BY <1>1, <1>10 DEF Took, Main, Grouped
  <2>3. \A k \in DOMAIN groups' : \A m \in RowsOf(groups'[k]) :
          \E j \in TypedDone' : typed[j].row = m
    <3>1. \A k \in DOMAIN groups : \A m \in RowsOf(groups[k]) :
            \E j \in TypedDone' : typed[j].row = m
      BY <1>1, <1>5 DEF Main, Grouped
    <3>2. \E j \in TypedDone' : typed[j].row = n
      BY <1>5 DEF n
    <3>3. QED
      BY <1>10, <3>1, <3>2 DEF Took
  <2>4. \A j \in TypedDone' : \E k \in DOMAIN groups' : typed[j].row \in RowsOf(groups'[k])
    <3>1. \A j \in TypedDone : \E k \in DOMAIN groups' : typed[j].row \in RowsOf(groups'[k])
      <4>1. \A k \in DOMAIN groups :
              k \in DOMAIN groups' /\ RowsOf(groups[k]) \subseteq RowsOf(groups'[k])
        BY <1>10 DEF Took
      <4>2. QED
        BY <1>1, <4>1 DEF Main, Grouped
    <3>2. typed[i].row \in RowsOf(groups'[k0])
      BY <1>10 DEF n, Took
    <3>3. QED
      BY <1>5, <1>10, <3>1, <3>2 DEF Took
  <2>5. QED
    BY <1>2, <1>12, <2>1, <2>2, <2>3, <2>4 DEF Grouped
<1>15. RowsRead'
  BY <1>1, <1>2, <1>4, <1>11 DEF Main, RowsRead
<1>16. Checked' /\ Persisted' /\ Closed'
  BY <1>1, <1>2, <1>4, <1>13 DEF Main, Checked, Persisted, Closed
<1>17. BlamedForCause'
  BY <1>1, <1>2, <1>4, <1>11, <1>13 DEF Main, BlamedForCause
<1>18. Shape'
  <2>1. ~Refused'
    BY <1>1, <1>2, FileNotRefused DEF Refused
  <2>2. IsSeq(groups)' /\ IsSeq(typed)' /\ IsSeq(accepted)'
    BY <1>1, <1>2, <1>9 DEF Shape, IsSeq
  <2>3. i' \in Nat \ {0} /\ i' <= Len(typed') + 1
    BY <1>2, <1>3
  <2>4. QED
    BY <1>1, <1>2, <2>1, <2>2, <2>3 DEF Shape, file
<1>19. QED
  BY <1>14, <1>15, <1>16, <1>17, <1>18 DEF IInv, Main

LEMMA GroupRowsKeeps == ASSUME IInv, GroupRows PROVE IInv'
BY GroupsEnd, GroupKeeps

(***************************************************************************)
(* The third loop                                                          *)
(***************************************************************************)
LEMMA FirstRow ==
  ASSUME NEW g, IsGroup(g)
  PROVE  g.rows[1] \in RowsOf(g) /\ 1 \in DOMAIN g.rows
<1>1. IsSeq(g.rows) /\ g.rows # <<>>
  BY DEF IsGroup, IsPart
<1>2. 1 \in DOMAIN g.rows
  BY <1>1 DEF IsSeq
<1>3. QED
  BY <1>2 DEF RowsOf

LEMMA ProblemsAre ==
  ASSUME NEW g, IsGroup(g)
  PROVE  /\ \A e \in Problems(g) : e.row \in RowsOf(g) /\ e.field \in Fields
         /\ Problems(g) = {} => g.errors = {}
<1> DEFINE currency == IF g.values["currency"] \in ValidCurrencies
                         THEN {} ELSE {Error(g.rows[1], "currency", "INVALID")}
           twin == {Error(g.rows[1], "invoice_number", "DUPLICATE_IN_FILE")}
           field == IF g.uuid = NONE THEN "invoice_number" ELSE "uuid"
           known == {Error(g.rows[1], field, "DUPLICATE_IN_DB")}
<1>1. /\ ValidateGroup(g) = g.errors \union currency
      /\ Problems(g) = IF ValidateGroup(g) # {} THEN ValidateGroup(g)
                       ELSE IF DuplicateIn(g, accepted) THEN twin
                       ELSE IF Exists(g) THEN known ELSE {}
  BY DEF ValidateGroup, Problems
<1>2. \A e \in currency \union twin \union known : e.row \in RowsOf(g) /\ e.field \in Fields
  BY FirstRow DEF Error, Fields, HeaderFields
<1>3. \A e \in g.errors : e.row \in RowsOf(g) /\ e.field \in Fields
  BY DEF IsGroup, IsPart, Fields
<1> HIDE DEF currency, twin, known
<1>4. QED
  BY <1>1, <1>2, <1>3

LEMMA SameGroup ==
  ASSUME Main, NEW j \in DOMAIN groups, NEW l \in DOMAIN groups,
         \/ \E n : n \in RowsOf(groups[j]) /\ n \in RowsOf(groups[l])
         \/ groups[j] = groups[l]
  PROVE  j = l
<1>1. IsGroup(groups[j]) /\ IsGroup(groups[l])
  BY DEF Main, Grouped
<1>2. groups[j].key = groups[l].key
  BY <1>1 DEF IsGroup, IsPart
<1>3. QED
  BY <1>2 DEF Main, Grouped

LEMMA RowsAreRead ==
  ASSUME Shape, Main, NEW j \in DOMAIN groups, NEW n \in RowsOf(groups[j])
  PROVE  n \in RowsDone /\ Clean(n) /\ RowsDone \subseteq DOMAIN rows
<1>1. TypedDone \subseteq DOMAIN typed
  BY SeqFacts DEF Shape, TypedDone, Steps
<1>2. n \in RowsDone /\ Clean(n)
  BY <1>1 DEF Main, Grouped, RowsRead
<1>3. Len(rows) \in Nat /\ DOMAIN rows = 1..Len(rows)
  BY DEF Shape
<1>4. RowsDone \subseteq DOMAIN rows
  BY <1>3 DEF Shape, RowsDone, Steps
<1>5. QED
  BY <1>2, <1>4

LEMMA CheckEnd ==
  ASSUME IInv, DetectDuplicates, i > Len(groups)
  PROVE  IInv'
<1>1. Shape /\ Main /\ step = "check"
  BY FileNotRefused DEF IInv, DetectDuplicates
<1>2. /\ step' = "persist" /\ i' = 1
      /\ UNCHANGED <<file, mapping, typed, groups, accepted, errors, stored, processed,
                     error_rows, status>>
  BY DEF DetectDuplicates, Loop
<1>3. Len(groups) \in Nat /\ DOMAIN groups = 1..Len(groups) /\ i = Len(groups) + 1
  BY <1>1, SeqFacts DEF Shape
<1>4. /\ RowsDone' = RowsDone /\ TypedDone' = TypedDone
      /\ GroupsDone' = GroupsDone /\ AcceptedDone' = AcceptedDone
  BY <1>1, <1>2, <1>3 DEF file, RowsDone, TypedDone, GroupsDone, AcceptedDone
<1>5. RowsRead' /\ Grouped' /\ Checked' /\ Persisted' /\ BlamedForCause'
  BY <1>1, <1>2, <1>4, SameMain
<1>6. Closed'
  BY <1>1, <1>2 DEF Main, Closed
<1>7. Shape'
  BY <1>1, <1>2, SeqFacts DEF Shape, file, IsSeq, Refused, Steps
<1>8. QED
  BY <1>5, <1>6, <1>7 DEF IInv, Main

LEMMA CheckKeeps ==
  ASSUME IInv, DetectDuplicates, ~(i > Len(groups))
  PROVE  IInv'
<1>1. Shape /\ Main /\ step = "check"
  BY FileNotRefused DEF IInv, DetectDuplicates
<1> DEFINE g == groups[i]
<1>2. /\ errors' = errors \union Problems(g)
      /\ accepted' = IF Problems(g) = {} THEN Append(accepted, g) ELSE accepted
      /\ i' = i + 1 /\ step' = step
      /\ UNCHANGED <<file, mapping, typed, groups, stored, processed, error_rows, status>>
  BY DEF DetectDuplicates
<1>3. /\ Len(groups) \in Nat /\ DOMAIN groups = 1..Len(groups)
      /\ i \in Nat \ {0} /\ i \in DOMAIN groups
  BY <1>1, SeqFacts DEF Shape
<1>4. /\ GroupsDone = 1..(i - 1) /\ GroupsDone' = 1..i
      /\ RowsDone' = RowsDone /\ TypedDone' = TypedDone
      /\ AcceptedDone = {} /\ AcceptedDone' = {}
  BY <1>1, <1>2, <1>3 DEF file, RowsDone, TypedDone, GroupsDone, AcceptedDone
<1>5. GroupsDone' = GroupsDone \union {i} /\ i \notin GroupsDone
      /\ GroupsDone \subseteq DOMAIN groups
  BY <1>3, <1>4
<1>6. stored = {} /\ Lines = {} /\ Lines' = {}
  BY <1>1, <1>2, <1>4, NothingYet DEF Lines
<1>7. IsGroup(g)
  BY <1>1, <1>3 DEF Main, Grouped
<1>8. /\ \A e \in Problems(g) : e.row \in RowsOf(g) /\ e.field \in Fields
      /\ Problems(g) = {} => g.errors = {}
  BY <1>7, ProblemsAre
<1>9. \A j \in GroupsDone : groups[j] # g
  BY <1>1, <1>3, <1>5, SameGroup
<1>10. ~IsAccepted(g)
  BY <1>1, <1>9 DEF Main, Checked, IsAccepted
<1>11. \A m : Read(m)' = Read(m) /\ (Clean(m)' <=> Clean(m)) /\ (Blamed(m) => Blamed(m)')
  BY <1>2 DEF file, Read, Clean, Cells, Blamed
<1>12. \A h : (IsGroup(h)' <=> IsGroup(h)) /\ RowsOf(h)' = RowsOf(h)
  BY <1>11 DEF IsGroup, IsPart, RowsOf
<1>13. \A m \in RowsOf(g) : m \in RowsDone /\ m \in DOMAIN rows
  BY <1>1, <1>3, RowsAreRead
<1>14. IsSeq(accepted)
  BY <1>1 DEF Shape
<1> HIDE DEF g
<1>15. /\ IsSeq(accepted')
       /\ \A k \in DOMAIN accepted' :
            accepted'[k] = g \/ (k \in DOMAIN accepted /\ accepted'[k] = accepted[k])
       /\ \A k \in DOMAIN accepted : k \in DOMAIN accepted' /\ accepted'[k] = accepted[k]
       /\ \A k, l \in DOMAIN accepted' : accepted'[k] = accepted'[l] => k = l
       /\ (\E k \in DOMAIN accepted' : accepted'[k] = g) <=> Problems(g) = {}
  <2>1. CASE Problems(g) = {}
    <3>1. accepted' = Append(accepted, g)
      BY <1>2, <2>1
    <3>2. /\ IsSeq(accepted') /\ DOMAIN accepted' = DOMAIN accepted \union {Len(accepted) + 1}
          /\ Len(accepted) + 1 \notin DOMAIN accepted
          /\ \A k \in DOMAIN accepted : accepted'[k] = accepted[k]
          /\ accepted'[Len(accepted) + 1] = g
      BY <1>14, <3>1, SeqFacts, AppendFacts
    <3>3. \A k \in DOMAIN accepted : accepted[k] # g
      BY <1>10 DEF IsAccepted
    <3>4. QED
      BY <1>1, <2>1, <3>2, <3>3 DEF Main, Checked
  <2>2. CASE Problems(g) # {}
    <3>1. accepted' = accepted
      BY <1>2, <2>2
    <3>2. \A k, l \in DOMAIN accepted : accepted[k] = accepted[l] => k = l
      BY <1>1 DEF Main, Checked
    <3>3. \A k \in DOMAIN accepted : accepted[k] # g
      BY <1>10 DEF IsAccepted
    <3>4. QED
      BY <1>14, <2>2, <3>1, <3>2, <3>3
  <2>3. QED
    BY <2>1, <2>2
<1>16. \A h : IsAccepted(h)' <=> IsAccepted(h) \/ (h = g /\ Problems(g) = {})
  BY <1>15 DEF IsAccepted
<1>17. Problems(g) # {} => \E m \in RowsOf(g) : Blamed(m)'
  <2>1. ASSUME NEW e \in Problems(g) PROVE \E m \in RowsOf(g) : Blamed(m)'
    <3>1. e \in errors' /\ e.row \in RowsOf(g)
      BY <1>2, <1>8
    <3>2. QED
      BY <3>1 DEF Blamed
  <2>2. QED
    BY <2>1
<1>18. Checked'
  <2>1. \A k \in DOMAIN accepted' :
          accepted'[k].errors = {} /\ \E j \in GroupsDone' : accepted'[k] = groups[j]
    <3>1. \A k \in DOMAIN accepted :
            accepted[k].errors = {} /\ \E j \in GroupsDone' : accepted[k] = groups[j]
      BY <1>1, <1>5 DEF Main, Checked
    <3>2. \E j \in GroupsDone' : g = groups[j]
      BY <1>5 DEF g
    <3>3. QED
      BY <1>8, <1>15, <3>1, <3>2
  <2>2. \A j \in GroupsDone' :
          IsAccepted(groups[j])' \/ \E m \in RowsOf(groups[j]) : Blamed(m)'
    <3>1. SUFFICES ASSUME NEW j \in GroupsDone'
                   PROVE  IsAccepted(groups[j])' \/ \E m \in RowsOf(groups[j]) : Blamed(m)'
      BY <1>2 DEF IsAccepted
    <3>2. \A h : h = groups[j] => (IsAccepted(h)' <=> IsAccepted(groups[j])')
      BY <1>2 DEF IsAccepted
    <3>3. CASE j \in GroupsDone
      <4>1. IsAccepted(groups[j]) \/ \E m \in RowsOf(groups[j]) : Blamed(m)
        BY <1>1, <3>3 DEF Main, Checked
      <4>2. QED
        BY <1>11, <1>16, <3>2, <4>1
    <3>4. CASE j = i
      BY <1>16, <1>17, <3>2, <3>4 DEF g
    <3>5. QED
      BY <1>5, <3>3, <3>4
  <2>3. QED
    BY <1>2, <1>12, <1>15, <2>1, <2>2 DEF Checked
<1>19. RowsRead'
  BY <1>1, <1>2, <1>4, <1>11 DEF Main, RowsRead
<1>20. Grouped'
  BY <1>1, <1>2, <1>4, <1>12 DEF Main, Grouped
<1>21. Persisted' /\ Closed'
  BY <1>1, <1>2, <1>4, <1>6 DEF Main, Persisted, Closed
<1>22. BlamedForCause'
  <2>1. \A e \in errors' :
          /\ e.row \in RowsDone
          /\ Clean(e.row) => \E j \in GroupsDone' :
                               e.row \in RowsOf(groups[j]) /\ \A h : h = groups[j] => ~IsAccepted(h)'
    <3>1. ASSUME NEW e \in errors
          PROVE  /\ e.row \in RowsDone
                 /\ Clean(e.row) => \E j \in GroupsDone' :
                      e.row \in RowsOf(groups[j]) /\ \A h : h = groups[j] => ~IsAccepted(h)'
      <4>1. /\ e.row \in RowsDone
            /\ Clean(e.row) =>
                 \E j \in GroupsDone : e.row \in RowsOf(groups[j]) /\ ~IsAccepted(groups[j])
        BY <1>1, <1>4 DEF Main, BlamedForCause
      <4>2. QED
        BY <1>5, <1>9, <1>16, <4>1
    <3>2. ASSUME NEW e \in Problems(g)
          PROVE  /\ e.row \in RowsDone
                 /\ Clean(e.row) => \E j \in GroupsDone' :
                      e.row \in RowsOf(groups[j]) /\ \A h : h = groups[j] => ~IsAccepted(h)'
      <4>1. e.row \in RowsOf(g) /\ e.row \in RowsDone
        BY <1>8, <1>13
      <4>2. \A h : h = g => ~IsAccepted(h)'
        BY <1>10, <1>16
      <4>3. QED
        BY <1>5, <4>1, <4>2 DEF g
    <3>3. QED
      BY <1>2, <3>1, <3>2
  <2>2. QED
    BY <1>2, <1>4, <1>6, <1>11, <1>12, <2>1 DEF BlamedForCause
<1>23. Shape'
  <2>1. Len(rows) \in Nat /\ DOMAIN rows = 1..Len(rows)
    BY <1>1 DEF Shape
  <2>2. \A e \in errors' : e.row # 0 /\ e.field \in Fields
    BY <1>1, <1>2, <1>8, <1>13, <2>1 DEF Shape, Refused
  <2>3. ~Refused'
    BY <2>2 DEF Refused
  <2>4. IsSeq(groups)' /\ IsSeq(typed)'
    BY <1>1, <1>2 DEF Shape, IsSeq
  <2>5. IsSeq(accepted)'
    BY <1>15 DEF IsSeq
  <2>6. i' \in Nat \ {0} /\ i' <= Len(groups') + 1
    BY <1>2, <1>3
  <2>7. QED
    BY <1>1, <1>2, <2>2, <2>3, <2>4, <2>5, <2>6 DEF Shape, file
<1>24. QED
  BY <1>18, <1>19, <1>20, <1>21, <1>22, <1>23 DEF IInv, Main

LEMMA DetectDuplicatesKeeps == ASSUME IInv, DetectDuplicates PROVE IInv'
BY CheckEnd, CheckKeeps

(***************************************************************************)
(* The fourth loop                                                         *)
(***************************************************************************)
LEMMA BuildIs ==
  ASSUME NEW g
  PROVE  /\ BuildInvoice(g).rows = g.rows
         /\ BuildInvoice(g).values = g.values
         /\ RowsOf(BuildInvoice(g)) = RowsOf(g)
<1>1. BuildInvoice(g).rows = g.rows /\ BuildInvoice(g).values = g.values
  BY DEF BuildInvoice
<1>2. QED
  BY <1>1 DEF RowsOf

LEMMA AcceptedIs ==
  ASSUME Shape, Main, NEW k \in DOMAIN accepted
  PROVE  /\ IsGroup(accepted[k]) /\ accepted[k].errors = {}
         /\ \E j \in DOMAIN groups : j \in GroupsDone /\ accepted[k] = groups[j]
<1>1. GroupsDone \subseteq DOMAIN groups
  BY SeqFacts DEF Shape, GroupsDone, Steps
<1>2. QED
  BY <1>1 DEF Main, Checked, Grouped

LEMMA SameAccepted ==
  ASSUME Shape, Main, NEW k \in DOMAIN accepted, NEW l \in DOMAIN accepted,
         NEW n, n \in RowsOf(accepted[k]), n \in RowsOf(accepted[l])
  PROVE  k = l
<1>1. accepted[k] = accepted[l]
  BY AcceptedIs, SameGroup
<1>2. QED
  BY <1>1 DEF Main, Checked

LEMMA AcceptedDoneAre ==
  ASSUME Shape
  PROVE  AcceptedDone \subseteq DOMAIN accepted
BY SeqFacts DEF Shape, AcceptedDone, Steps

(***************************************************************************)
(* The lines that have been stored are rows of the file, and a group has   *)
(* as many lines as rows.                                                  *)
(***************************************************************************)
LEMMA LinesAre ==
  ASSUME Shape, Main
  PROVE  /\ \A n \in Lines : n \in DOMAIN rows /\ \E k \in AcceptedDone : n \in RowsOf(accepted[k])
         /\ IsFiniteSet(Lines) /\ Len(rows) \in Nat
         /\ processed \in Nat /\ processed <= Len(rows)
<1>1. \A n \in Lines : \E k \in AcceptedDone : n \in RowsOf(accepted[k])
  BY BuildIs DEF Main, Persisted, Lines
<1>2. \A n \in Lines : n \in DOMAIN rows
  BY <1>1, AcceptedDoneAre, AcceptedIs, RowsAreRead
<1>3. Len(rows) \in Nat /\ DOMAIN rows = 1..Len(rows)
  BY DEF Shape
<1>4. IsFiniteSet(1..Len(rows)) /\ Cardinality(1..Len(rows)) = Len(rows)
  <2> DEFINE n == Len(rows)
  <2>1. n \in Nat
    BY <1>3
  <2> HIDE DEF n
  <2>2. IsFiniteSet(1..n)
    BY <2>1, FS_Interval
  <2>3. Cardinality(1..n) = n
    BY <2>1, FS_Interval
  <2>4. QED
    BY <2>2, <2>3 DEF n
<1>5. Lines \in SUBSET (1..Len(rows))
  BY <1>2, <1>3
<1> HIDE DEF Lines
<1>6. IsFiniteSet(Lines) /\ Cardinality(Lines) <= Len(rows)
  BY <1>4, <1>5, FS_Subset
<1>7. Cardinality(Lines) \in Nat
  BY <1>6, FS_CardinalityType
<1>8. QED
  BY <1>1, <1>2, <1>3, <1>6, <1>7 DEF Main, Persisted

LEMMA GroupCount ==
  ASSUME NEW g, IsGroup(g)
  PROVE  /\ IsFiniteSet(RowsOf(g)) /\ Cardinality(RowsOf(g)) = Len(g.items)
         /\ Len(g.items) \in Nat
<1>1. /\ IsSeq(g.rows) /\ Len(g.items) = Len(g.rows)
      /\ \A k, l \in DOMAIN g.rows : g.rows[k] = g.rows[l] => k = l
  BY DEF IsGroup, IsPart
<1> DEFINE n == Len(g.rows)
           R == RowsOf(g)
<1>2. n \in Nat /\ DOMAIN g.rows = 1..n
  BY <1>1, SeqFacts
<1>3. \A k \in 1..n : g.rows[k] \in R
  BY <1>2 DEF RowsOf
<1>4. \A m \in R : \E k \in 1..n : g.rows[k] = m
  BY <1>2 DEF RowsOf
<1>5. IsFiniteSet(1..n) /\ Cardinality(1..n) = n
  BY <1>2, FS_Interval
<1> DEFINE f == [k \in 1..n |-> g.rows[k]]
<1> HIDE DEF n, R
<1>6. f \in Bijection(1..n, R)
  BY <1>1, <1>2, <1>3, <1>4 DEF Bijection, Injection, Surjection, IsInjective
<1>7. ExistsBijection(1..n, R)
  BY <1>6 DEF ExistsBijection
<1>8. IsFiniteSet(R) /\ Cardinality(R) = n
  BY <1>5, <1>7, FS_Bijection
<1>9. QED
  BY <1>1, <1>2, <1>8 DEF n, R

LEMMA PersistEnd ==
  ASSUME IInv, Persist, i > Len(accepted)
  PROVE  IInv'
<1>1. Shape /\ Main /\ step = "persist"
  BY FileNotRefused DEF IInv, Persist
<1>2. /\ step' = "finish" /\ i' = 1
      /\ UNCHANGED <<file, mapping, typed, groups, accepted, errors, stored, processed,
                     error_rows, status>>
  BY DEF Persist, Loop
<1>3. Len(accepted) \in Nat /\ DOMAIN accepted = 1..Len(accepted) /\ i = Len(accepted) + 1
  BY <1>1, SeqFacts DEF Shape
<1>4. /\ RowsDone' = RowsDone /\ TypedDone' = TypedDone
      /\ GroupsDone' = GroupsDone /\ AcceptedDone' = AcceptedDone
  BY <1>1, <1>2, <1>3 DEF file, RowsDone, TypedDone, GroupsDone, AcceptedDone
<1>5. RowsRead' /\ Grouped' /\ Checked' /\ Persisted' /\ BlamedForCause'
  BY <1>1, <1>2, <1>4, SameMain
<1>6. Closed'
  BY <1>1, <1>2 DEF Main, Closed
<1>7. Shape'
  BY <1>1, <1>2 DEF Shape, file, IsSeq, Refused, Steps
<1>8. QED
  BY <1>5, <1>6, <1>7 DEF IInv, Main

\* Where the errors may be: what the parts of Main say of them, taken together.
LEMMA PersistFrame ==
  ASSUME IInv, Persist, ~(i > Len(accepted))
  PROVE  /\ Shape /\ Main /\ step = "persist"
         /\ i \in DOMAIN accepted /\ i \in Nat \ {0} /\ DOMAIN accepted = 1..Len(accepted)
         /\ Len(accepted) \in Nat
         /\ i' = i + 1 /\ step' = step
         /\ UNCHANGED <<file, mapping, typed, groups, accepted, error_rows, status>>
         /\ RowsDone' = RowsDone /\ TypedDone' = TypedDone /\ GroupsDone' = GroupsDone
         /\ AcceptedDone' = AcceptedDone \union {i} /\ i \notin AcceptedDone
         /\ AcceptedDone \subseteq DOMAIN accepted
         /\ \A m : Read(m)' = Read(m) /\ (Clean(m)' <=> Clean(m))
         /\ \A h : /\ RowsOf(h)' = RowsOf(h) /\ (IsAccepted(h)' <=> IsAccepted(h))
                   /\ (IsGroup(h)' <=> IsGroup(h))
<1>1. Shape /\ Main /\ step = "persist"
  BY FileNotRefused DEF IInv, Persist
<1>2. /\ i' = i + 1 /\ step' = step
      /\ UNCHANGED <<file, mapping, typed, groups, accepted, error_rows, status>>
  BY DEF Persist
<1>3. /\ Len(accepted) \in Nat /\ DOMAIN accepted = 1..Len(accepted)
      /\ i \in Nat \ {0} /\ i \in DOMAIN accepted
  BY <1>1, SeqFacts DEF Shape
<1>4. /\ AcceptedDone = 1..(i - 1) /\ AcceptedDone' = 1..i
      /\ RowsDone' = RowsDone /\ TypedDone' = TypedDone /\ GroupsDone' = GroupsDone
  BY <1>1, <1>2, <1>3 DEF file, RowsDone, TypedDone, GroupsDone, AcceptedDone
<1>5. AcceptedDone' = AcceptedDone \union {i} /\ i \notin AcceptedDone
      /\ AcceptedDone \subseteq DOMAIN accepted
  BY <1>3, <1>4
<1>6. \A m : Read(m)' = Read(m) /\ (Clean(m)' <=> Clean(m))
  BY <1>2 DEF file, Read, Clean, Cells
<1>7. \A h : /\ RowsOf(h)' = RowsOf(h) /\ (IsAccepted(h)' <=> IsAccepted(h))
             /\ (IsGroup(h)' <=> IsGroup(h))
  BY <1>2, <1>6 DEF RowsOf, IsAccepted, IsGroup, IsPart
<1>8. QED
  BY <1>1, <1>2, <1>3, <1>4, <1>5, <1>6, <1>7

LEMMA PersistStores ==
  ASSUME IInv, Persist, ~(i > Len(accepted)),
         stored' = stored \union {BuildInvoice(accepted[i])},
         processed' = processed + Len(accepted[i].items), errors' = errors
  PROVE  IInv'
<1> DEFINE g == accepted[i]
           inv == BuildInvoice(g)
<1>1. /\ Shape /\ Main /\ step = "persist"
      /\ i \in DOMAIN accepted /\ i \in Nat \ {0} /\ DOMAIN accepted = 1..Len(accepted)
      /\ Len(accepted) \in Nat
      /\ i' = i + 1 /\ step' = step
      /\ UNCHANGED <<file, mapping, typed, groups, accepted, error_rows, status>>
      /\ RowsDone' = RowsDone /\ TypedDone' = TypedDone /\ GroupsDone' = GroupsDone
      /\ AcceptedDone' = AcceptedDone \union {i} /\ i \notin AcceptedDone
      /\ AcceptedDone \subseteq DOMAIN accepted
      /\ \A m : Read(m)' = Read(m) /\ (Clean(m)' <=> Clean(m))
      /\ \A h : /\ RowsOf(h)' = RowsOf(h) /\ (IsAccepted(h)' <=> IsAccepted(h))
                /\ (IsGroup(h)' <=> IsGroup(h))
  BY PersistFrame
<1>2. \A m : Blamed(m)' <=> Blamed(m)
  BY DEF Blamed
<1>3. RowsOf(inv) = RowsOf(g) /\ IsGroup(g)
  BY <1>1, BuildIs, AcceptedIs
<1>4. Lines' = Lines \union RowsOf(g)
  <2> HIDE DEF g
  <2> HIDE DEF inv
  <2>1. stored' = stored \union {inv}
    BY DEF inv, g
  <2>2. Lines' = Lines \union RowsOf(inv)
    BY <1>1, <2>1 DEF Lines
  <2>3. QED
    BY <1>3, <2>2
<1>5. \A n \in RowsOf(g) : n \notin Lines
  BY <1>1, LinesAre, SameAccepted
<1> HIDE DEF inv
<1>6. Persisted'
  <2>1. \A inv1 \in stored' : \E k \in AcceptedDone' : inv1 = BuildInvoice(accepted[k])
    BY <1>1 DEF Main, Persisted, inv
  <2>2. \A k \in AcceptedDone' :
          BuildInvoice(accepted[k]) \in stored' \/ \E n \in RowsOf(accepted[k]) : Blamed(n)
    BY <1>1 DEF Main, Persisted
  <2>3. processed' = Cardinality(Lines')
    <3>1. IsFiniteSet(Lines) /\ processed \in Nat
      BY <1>1, LinesAre
    <3>2. IsFiniteSet(RowsOf(g)) /\ Cardinality(RowsOf(g)) = Len(g.items) /\ Len(g.items) \in Nat
      BY <1>3, GroupCount
    <3>3. Lines \cap RowsOf(g) = {}
      BY <1>5
    <3> HIDE DEF g
    <3>4. Cardinality(Lines \cap RowsOf(g)) = 0
      BY <3>3, FS_EmptySet
    <3>5. Cardinality(Lines \union RowsOf(g)) =
            Cardinality(Lines) + Cardinality(RowsOf(g)) - Cardinality(Lines \cap RowsOf(g))
      BY <3>1, <3>2, FS_Union
    <3>6. processed = Cardinality(Lines) /\ processed' = processed + Len(g.items)
      BY <1>1 DEF Main, Persisted, g
    <3>7. QED
      BY <1>4, <3>1, <3>2, <3>4, <3>5, <3>6
  <2>4. QED
    BY <1>1, <1>2, <2>1, <2>2, <2>3 DEF Persisted
<1>7. RowsRead' /\ Grouped'
  BY <1>1, <1>2 DEF Main, RowsRead, Grouped
<1>8. Checked'
  BY <1>1, <1>2 DEF Main, Checked
<1>9. BlamedForCause'
  <2>1. ASSUME NEW e \in errors PROVE e.row \notin RowsOf(g)
    <3>1. SUFFICES ASSUME e.row \in RowsOf(g) PROVE FALSE
      OBVIOUS
    <3>2. PICK j0 \in DOMAIN groups : g = groups[j0]
      BY <1>1, AcceptedIs
    <3>3. Clean(e.row)
      BY <1>1, <3>1, <3>2, RowsAreRead
    <3>4. PICK j \in GroupsDone :
            /\ e.row \in RowsOf(groups[j])
            /\ IsAccepted(groups[j]) => \E k \in AcceptedDone : accepted[k] = groups[j]
      BY <1>1, <3>3 DEF Main, BlamedForCause
    <3>5. j \in DOMAIN groups
      BY <1>1, SeqFacts DEF Shape, GroupsDone
    <3>6. groups[j] = g
      BY <1>1, <3>1, <3>2, <3>4, <3>5, SameGroup
    <3>7. PICK k \in AcceptedDone : accepted[k] = g
      BY <1>1, <3>4, <3>6 DEF IsAccepted
    <3>8. k = i
      BY <1>1, <3>7 DEF Main, Checked
    <3>9. QED
      BY <1>1, <3>8
  <2> HIDE DEF g
  <2>2. \A e \in errors : e.row \notin Lines'
    BY <1>1, <1>4, <2>1 DEF Main, BlamedForCause
  <2>3. QED
    BY <1>1, <2>2 DEF Main, BlamedForCause
<1>10. Closed'
  BY <1>1 DEF Main, Closed
<1>11. Shape'
  <2>1. ~Refused /\ ~Refused'
    BY <1>1, FileNotRefused DEF Refused
  <2>2. IsSeq(groups)' /\ IsSeq(typed)' /\ IsSeq(accepted)'
    BY <1>1 DEF Shape, IsSeq
  <2>3. i' \in Nat \ {0} /\ i' <= Len(accepted') + 1
    BY <1>1
  <2>4. QED
    BY <1>1, <2>1, <2>2, <2>3 DEF Shape, file
<1>12. QED
  BY <1>6, <1>7, <1>8, <1>9, <1>10, <1>11 DEF IInv, Main

LEMMA PersistRefuses ==
  ASSUME IInv, Persist, ~(i > Len(accepted)),
         errors' = errors \union {Error(accepted[i].rows[1], "invoice_number", "FILE_ERROR")},
         UNCHANGED <<stored, processed>>
  PROVE  IInv'
<1> DEFINE g == accepted[i]
           n0 == g.rows[1]
<1>1. /\ Shape /\ Main /\ step = "persist"
      /\ i \in DOMAIN accepted /\ i \in Nat \ {0} /\ DOMAIN accepted = 1..Len(accepted)
      /\ Len(accepted) \in Nat
      /\ i' = i + 1 /\ step' = step
      /\ UNCHANGED <<file, mapping, typed, groups, accepted, error_rows, status>>
      /\ RowsDone' = RowsDone /\ TypedDone' = TypedDone /\ GroupsDone' = GroupsDone
      /\ AcceptedDone' = AcceptedDone \union {i} /\ i \notin AcceptedDone
      /\ AcceptedDone \subseteq DOMAIN accepted
      /\ \A m : Read(m)' = Read(m) /\ (Clean(m)' <=> Clean(m))
      /\ \A h : /\ RowsOf(h)' = RowsOf(h) /\ (IsAccepted(h)' <=> IsAccepted(h))
                /\ (IsGroup(h)' <=> IsGroup(h))
  BY PersistFrame
<1>2. PICK j0 \in DOMAIN groups : j0 \in GroupsDone /\ g = groups[j0]
  BY <1>1, AcceptedIs
<1>3. IsGroup(g) /\ n0 \in RowsOf(g)
  BY <1>1, AcceptedIs, FirstRow
<1>4. n0 \in RowsDone /\ n0 \in DOMAIN rows
  BY <1>1, <1>2, <1>3, RowsAreRead
<1>5. n0 \notin Lines /\ Lines' = Lines
  <2>1. Lines' = Lines
    BY <1>1 DEF Lines
  <2>2. QED
    BY <1>1, <1>3, <2>1, LinesAre, SameAccepted
<1>6. \A e \in errors' : e \in errors \/ (e.row = n0 /\ e.field \in Fields)
  BY DEF Error, Fields, HeaderFields
<1>7. (\A m : Blamed(m) => Blamed(m)') /\ \A m : m = n0 => Blamed(m)'
  <2>1. \E e \in errors' : e.row = n0
    <3> DEFINE x == Error(n0, "invoice_number", "FILE_ERROR")
    <3>1. x \in errors'
      OBVIOUS
    <3>2. x.row = n0
      BY DEF Error
    <3> HIDE DEF x
    <3>3. QED
      BY <3>1, <3>2
  <2>2. \A e \in errors : e \in errors'
    OBVIOUS
  <2> HIDE DEF n0
  <2>3. QED
    BY <2>1, <2>2 DEF Blamed
<1> HIDE DEF g, n0
<1>8. Persisted'
  <2>1. \A k \in AcceptedDone' :
          BuildInvoice(accepted[k]) \in stored \/ \E n \in RowsOf(accepted[k]) : Blamed(n)'
    <3>1. \A k \in AcceptedDone :
            BuildInvoice(accepted[k]) \in stored \/ \E n \in RowsOf(accepted[k]) : Blamed(n)'
      BY <1>1, <1>7 DEF Main, Persisted
    <3>2. \E n \in RowsOf(accepted[i]) : Blamed(n)'
      BY <1>3, <1>7 DEF g
    <3>3. QED
      BY <1>1, <3>1, <3>2
  <2>2. QED
    BY <1>1, <1>5, <2>1 DEF Main, Persisted
<1>9. RowsRead' /\ Grouped'
  BY <1>1, <1>7 DEF Main, RowsRead, Grouped
<1>10. Checked'
  BY <1>1, <1>7 DEF Main, Checked
<1>11. BlamedForCause'
  <2>1. ASSUME NEW e \in errors'
        PROVE  /\ e.row \in RowsDone /\ e.row \notin Lines
               /\ Clean(e.row) =>
                    \E j \in GroupsDone :
                      /\ e.row \in RowsOf(groups[j])
                      /\ IsAccepted(groups[j]) => \E k \in AcceptedDone' : accepted[k] = groups[j]
    <3>1. CASE e \in errors
      BY <1>1, <3>1 DEF Main, BlamedForCause
    <3>2. CASE e.row = n0
      BY <1>1, <1>2, <1>3, <1>4, <1>5, <3>2 DEF g
    <3>3. QED
      BY <1>6, <3>1, <3>2
  <2>2. QED
    BY <1>1, <1>5, <2>1 DEF BlamedForCause
<1>12. Closed'
  BY <1>1 DEF Main, Closed
<1>13. Shape'
  <2>1. Len(rows) \in Nat /\ DOMAIN rows = 1..Len(rows)
    BY <1>1 DEF Shape
  <2>2. \A e \in errors' : e.row # 0 /\ e.field \in Fields
    BY <1>1, <1>4, <1>6, <2>1 DEF Shape, Refused
  <2>3. ~Refused'
    BY <2>2 DEF Refused
  <2>4. IsSeq(groups)' /\ IsSeq(typed)' /\ IsSeq(accepted)'
    BY <1>1 DEF Shape, IsSeq
  <2>5. i' \in Nat \ {0} /\ i' <= Len(accepted') + 1
    BY <1>1
  <2>6. QED
    BY <1>1, <2>2, <2>3, <2>4, <2>5 DEF Shape, file
<1>14. QED
  BY <1>8, <1>9, <1>10, <1>11, <1>12, <1>13 DEF IInv, Main

LEMMA PersistKeeps == ASSUME IInv, Persist PROVE IInv'
<1>1. ASSUME ~(i > Len(accepted))
      PROVE  \/ /\ stored' = stored \union {BuildInvoice(accepted[i])}
                /\ processed' = processed + Len(accepted[i].items) /\ errors' = errors
             \/ /\ errors' = errors \union
                     {Error(accepted[i].rows[1], "invoice_number", "FILE_ERROR")}
                /\ UNCHANGED <<stored, processed>>
  BY <1>1 DEF Persist
<1>2. QED
  BY <1>1, PersistEnd, PersistStores, PersistRefuses

(***************************************************************************)
(* The batch is closed, and the invariant                                  *)
(***************************************************************************)
LEMMA FinishKeeps ==
  ASSUME IInv, Finish
  PROVE  IInv'
<1>1. Shape /\ Main /\ step = "finish"
  BY FileNotRefused DEF IInv, Finish
<1>2. /\ step' = "done" /\ i' = 1
      /\ UNCHANGED <<file, mapping, typed, groups, accepted, errors, stored, processed>>
      /\ error_rows' = IF processed < Len(rows) THEN Len(rows) - processed ELSE 0
      /\ status' = IF processed = 0 /\ (errors # {} \/ rows = <<>>)
                     THEN "failed" ELSE "completed"
  BY DEF Finish, Loop
<1>3. RowsDone' = RowsDone /\ TypedDone' = TypedDone
      /\ GroupsDone' = GroupsDone /\ AcceptedDone' = AcceptedDone
  BY <1>1, <1>2 DEF file, RowsDone, TypedDone, GroupsDone, AcceptedDone
<1>4. RowsRead' /\ Grouped' /\ Checked' /\ Persisted' /\ BlamedForCause'
  BY <1>1, <1>2, <1>3, SameMain
<1>5. processed \in Nat /\ Len(rows) \in Nat /\ processed <= Len(rows)
  BY <1>1, LinesAre
<1>6. error_rows' = Len(rows) - processed
  BY <1>2, <1>5
<1>7. Closed'
  BY <1>2, <1>6 DEF Closed, file
<1>8. ~Refused'
  BY <1>1, <1>2, FileNotRefused DEF Refused
<1>9. Shape'
  BY <1>1, <1>2, <1>8 DEF Shape, file, IsSeq, Steps
<1>10. QED
  BY <1>4, <1>7, <1>9 DEF IInv, Main

LEMMA StutterKeeps ==
  ASSUME IInv, UNCHANGED vars
  PROVE  IInv'
<1>1. RowsDone' = RowsDone /\ TypedDone' = TypedDone
      /\ GroupsDone' = GroupsDone /\ AcceptedDone' = AcceptedDone
  BY DEF vars, file, RowsDone, TypedDone, GroupsDone, AcceptedDone
<1>2. Refused' <=> Refused
  BY DEF vars, Refused
<1>3. Shape'
  BY <1>2 DEF IInv, Shape, vars, file, IsSeq
<1>4. ASSUME Main PROVE Main'
  <2>1. RowsRead' /\ Grouped' /\ Checked' /\ Persisted' /\ BlamedForCause'
    BY <1>1, <1>4, SameMain DEF vars, file
  <2>2. Closed'
    BY <1>4 DEF Main, Closed, vars, file
  <2>3. QED
    BY <2>1, <2>2 DEF Main
<1>5. QED
  BY <1>2, <1>3, <1>4 DEF IInv

LEMMA FileInvariant == Spec => []IInv
<1>1. IInv /\ [Next]_vars => IInv'
  BY ReadRowKeeps, MapHeadersKeeps, NormalizeRowsKeeps, GroupRowsKeeps,
     DetectDuplicatesKeeps, PersistKeeps, FinishKeeps, StutterKeeps DEF Next
<1>2. QED
  BY <1>1, InitIsIInv, PTL DEF Spec

(***************************************************************************)
(* What a row without error is read as: a value for every field that is    *)
(* required or has a default, and for every field it states.               *)
(***************************************************************************)
LEMMA CellsAreAmounts ==
  ASSUME Shape, step # "file", NEW n \in DOMAIN rows, NEW f \in DOMAIN Cells(n),
         f \in MoneyFields \union {"quantity"}
  PROVE  Cells(n)[f] \in Int \union {BLANK, GARBAGE}
<1> DEFINE cells == rows[n]
           at == {k \in DOMAIN mapping \intersect DOMAIN cells : mapping[k] # NONE}
<1>1. mapping = ColumnMap(sheet.headers) /\ cells \in sheet.rows /\ sheet \in Sheets
  BY DEF Shape
<1>2. /\ DOMAIN Cells(n) = {mapping[k] : k \in at}
      /\ Cells(n)[f] = cells[CHOOSE k \in at : mapping[k] = f]
  BY DEF Cells, MapRow
<1>3. PICK k \in at : mapping[k] = f /\ Cells(n)[f] = cells[k]
  <2> HIDE DEF at
  <2>1. \E k \in at : mapping[k] = f
    BY <1>2
  <2>2. QED
    BY <1>2, <2>1
<1>4. /\ DOMAIN mapping = DOMAIN sheet.headers
      /\ mapping[k] = sheet.headers[k]
  BY <1>1, <1>3 DEF ColumnMap
<1>5. QED
  BY <1>1, <1>3, <1>4, SheetsAssumption

LEMMA CleanRow ==
  ASSUME NEW n, Clean(n)
  PROVE  /\ Required \intersect Missing(Cells(n)) = {}
         /\ Unread(Cells(n)) = {}
<1>1. /\ \A f \in Required \intersect Missing(Cells(n)) :
           Error(n, f, "MISSING_FIELD") \in FieldErrors(n, Cells(n))
      /\ \A f \in Unread(Cells(n)) : Error(n, f, "INVALID") \in FieldErrors(n, Cells(n))
  BY DEF FieldErrors
<1>2. FieldErrors(n, Cells(n)) = {}
  BY DEF Clean
<1>3. QED
  BY <1>1, <1>2

LEMMA ReadIs ==
  ASSUME NEW n, Clean(n)
  PROVE  /\ DOMAIN Read(n) = (Fields \ Missing(Cells(n)))
                               \union (Missing(Cells(n)) \intersect DOMAIN Default)
         /\ Required \union DOMAIN Default \subseteq DOMAIN Read(n)
         /\ \A f \in DOMAIN Read(n) :
              Read(n)[f] = IF f \in Missing(Cells(n)) THEN Default[f] ELSE Parsed(f, Cells(n)[f])
<1>1. Unread(Cells(n)) = {} /\ Required \intersect Missing(Cells(n)) = {}
  BY CleanRow
<1>2. DOMAIN Default = {"invoice_type", "currency", "quantity", "unit_price",
                        "item_discount_amount", "vat_rate"}
  BY DEF Default
<1>3. Required \union DOMAIN Default \subseteq Fields
  BY <1>2 DEF Required, Fields, HeaderFields, ItemFields, MoneyFields
<1>4. /\ DOMAIN Read(n) = (Fields \ (Missing(Cells(n)) \union Unread(Cells(n))))
                            \union (Missing(Cells(n)) \intersect DOMAIN Default)
      /\ \A f \in DOMAIN Read(n) :
              Read(n)[f] = IF f \in Missing(Cells(n)) THEN Default[f] ELSE Parsed(f, Cells(n)[f])
  BY DEF Read, NormalizeRow
<1>5. QED
  BY <1>1, <1>3, <1>4

\* A field that is stated has a cell, and one that is read has a value.
LEMMA StatedField ==
  ASSUME NEW n, Clean(n), NEW f \in Fields \ Missing(Cells(n))
  PROVE  /\ f \in DOMAIN Cells(n) /\ Cells(n)[f] # BLANK /\ Cells(n)[f] # GARBAGE
         /\ Parsed(f, Cells(n)[f]) # NONE
<1>1. f \in DOMAIN Cells(n) /\ Cells(n)[f] # BLANK
  BY DEF Missing, Get
<1>2. Parsed(f, Cells(n)[f]) # NONE
  BY CleanRow DEF Unread
<1>3. Cells(n)[f] # GARBAGE
  BY <1>2 DEF Parsed
<1>4. QED
  BY <1>1, <1>2, <1>3

LEMMA HalfUpInt ==
  ASSUME NEW a \in Int
  PROVE  HalfUp(a, 100) \in Int /\ HalfUp(a, 10000) \in Int
<1>1. (50 - a) \div 100 \in Int /\ (a + 50) \div 100 \in Int /\ 100 \div 2 = 50
  BY SMT
<1>2. (5000 - a) \div 10000 \in Int /\ (a + 5000) \div 10000 \in Int /\ 10000 \div 2 = 5000
  BY SMT
<1>3. QED
  BY <1>1, <1>2 DEF HalfUp

LEMMA ReadValues ==
  ASSUME Shape, step # "file", NEW n \in DOMAIN rows, Clean(n), NEW f \in DOMAIN Read(n)
  PROVE  Read(n)[f] \notin {BLANK, GARBAGE, NONE}
<1>1. CASE f \in Missing(Cells(n))
  <2>1. f \in DOMAIN Default /\ Read(n)[f] = Default[f]
    BY <1>1, ReadIs
  <2>2. Default[f] \in Int \/ Default[f] \in {"sales", "EGP"}
    BY <2>1 DEF Default
  <2>3. QED
    BY <2>1, <2>2, MarkersAssumption
<1>2. CASE f \notin Missing(Cells(n))
  <2> DEFINE raw == Cells(n)[f]
  <2>1. /\ f \in Fields /\ f \in DOMAIN Cells(n) /\ raw # BLANK /\ raw # GARBAGE
        /\ Read(n)[f] = Parsed(f, raw) /\ Parsed(f, raw) # NONE
    BY <1>2, ReadIs, StatedField
  <2>2. CASE f \in MoneyFields
    <3>1. raw \in Int
      BY <2>1, <2>2, CellsAreAmounts
    <3>2. Parsed(f, raw) = HalfUp(raw, 100)
      BY <2>1, <2>2 DEF Parsed
    <3>3. Parsed(f, raw) \in Int
      BY <3>1, <3>2, HalfUpInt
    <3>4. QED
      BY <2>1, <3>3, MarkersAssumption
  <2>3. CASE f \notin MoneyFields
    <3>1. Parsed(f, raw) = raw
      BY <2>1, <2>3 DEF Parsed
    <3>2. QED
      BY <2>1, <3>1
  <2>4. QED
    BY <2>2, <2>3
<1>3. QED
  BY <1>1, <1>2

(***************************************************************************)
(* The variables of an import keep their types: a row that goes on has a   *)
(* value for every field that is required or has a default, none of them   *)
(* unread (NormalizeRows of imports/normalizer.py and its callers).        *)
(***************************************************************************)
THEOREM FileTypes == Spec => []TypeOK
<1>1. IInv => TypeOK
  <2> SUFFICES ASSUME IInv PROVE TypeOK
    OBVIOUS
  <2>1. Shape /\ Len(rows) \in Nat /\ DOMAIN rows = 1..Len(rows) /\ Len(rows) <= MaxRows
    BY DEF IInv, Shape
  <2>2. CASE Refused
    <3>1. /\ step = "done" /\ typed = <<>> /\ processed = 0 /\ error_rows = 1
          /\ status = "failed" /\ \A e \in errors : e.row = 0 /\ e.field \in Fields
      BY <2>1, <2>2 DEF Shape
    <3>2. DOMAIN typed = {}
      BY <3>1, EmptyFacts
    <3>3. 1 \in 0..(MaxRows + 1) /\ 0 \in 0..Len(rows)
      BY <2>1, BoundsAssumption
    <3>4. QED
      BY <3>1, <3>2, <3>3 DEF TypeOK
  <2>3. CASE ~Refused
    <3>1. Main
      BY <2>3 DEF IInv
    <3>2. RowsDone \subseteq DOMAIN rows /\ (step = "file" => RowsDone = {})
      BY <2>1 DEF Shape, RowsDone, Steps
    <3>3. step \in {"file", "rows", "groups", "check", "persist", "finish", "done"}
      BY <2>1 DEF Shape, Steps
    <3>4. ASSUME NEW k \in DOMAIN typed
          PROVE  /\ typed[k].row \in DOMAIN rows
                 /\ Required \union DOMAIN Default \subseteq DOMAIN typed[k].values
                 /\ \A f \in DOMAIN typed[k].values :
                      typed[k].values[f] \notin {BLANK, GARBAGE, NONE}
      <4> DEFINE n == typed[k].row
      <4>1. n \in RowsDone /\ Clean(n) /\ typed[k].values = Read(n)
        BY <3>1 DEF Main, RowsRead
      <4>2. n \in DOMAIN rows /\ step # "file"
        BY <3>2, <4>1
      <4>3. QED
        BY <2>1, <4>1, <4>2, ReadIs, ReadValues
    <3>5. \A e \in errors : e.row \in 0..Len(rows) /\ e.field \in Fields
      BY <2>1, <3>1, <3>2 DEF Main, BlamedForCause, Shape
    <3>6. processed \in 0..Len(rows)
      BY <2>1, <3>1, LinesAre
    <3>7. error_rows \in 0..(MaxRows + 1)
      BY <2>1, <3>1, <3>6, BoundsAssumption DEF Main, Closed
    <3>8. status \in {"processing", "completed", "failed"}
      BY <3>1 DEF Main, Closed
    <3>9. QED
      BY <3>3, <3>4, <3>5, <3>6, <3>7, <3>8 DEF TypeOK
  <2>4. QED
    BY <2>2, <2>3
<1>2. QED
  BY <1>1, FileInvariant, PTL

(***************************************************************************)
(* Two rows of one group state the same invoice, and their group holds     *)
(* what each of them states of it.                                         *)
(***************************************************************************)
LEMMA UuidIsRead ==
  ASSUME NEW n, Clean(n)
  PROVE  /\ "uuid" \in DOMAIN Read(n) <=> Stated(n, "uuid")
         /\ Stated(n, "uuid") => Read(n)["uuid"] = Cells(n)["uuid"]
         /\ Read(n)["invoice_number"] = Cells(n)["invoice_number"]
<1>1. /\ "uuid" \in Fields \ MoneyFields /\ "uuid" \notin DOMAIN Default
      /\ "invoice_number" \in Fields \ MoneyFields
      /\ "invoice_number" \in Required
  BY DEF Fields, HeaderFields, MoneyFields, Default, Required
<1>2. \A f \in Fields : f \notin Missing(Cells(n)) <=> Stated(n, f)
  BY DEF Missing, Stated
<1>3. "uuid" \in DOMAIN Read(n) <=> Stated(n, "uuid")
  BY <1>1, <1>2, ReadIs
<1>4. ASSUME NEW f \in Fields \ Missing(Cells(n)), f \notin MoneyFields
      PROVE  f \in DOMAIN Read(n) /\ Read(n)[f] = Cells(n)[f]
  BY <1>4, ReadIs, StatedField DEF Parsed
<1>5. Stated(n, "uuid") => Read(n)["uuid"] = Cells(n)["uuid"]
  BY <1>1, <1>2, <1>4
<1>6. Read(n)["invoice_number"] = Cells(n)["invoice_number"]
  BY <1>1, <1>4, CleanRow
<1>7. QED
  BY <1>3, <1>5, <1>6

LEMMA KeyIsRead ==
  ASSUME NEW n, Clean(n)
  PROVE  Key(Read(n)) = CellKey(n)
<1>1. CASE Stated(n, "uuid")
  BY <1>1, UuidIsRead DEF Key, CellKey
<1>2. CASE ~Stated(n, "uuid")
  <2>1. Key(Read(n)) = Cells(n)["invoice_number"]
    BY <1>2, UuidIsRead DEF Key
  <2>2. "invoice_number" \in Fields \ Missing(Cells(n))
    BY CleanRow DEF Required, Fields, HeaderFields
  <2>3. Get(Cells(n), "invoice_number", BLANK) = Cells(n)["invoice_number"]
    BY <2>2, StatedField DEF Get
  <2>4. QED
    BY <1>2, <2>1, <2>3 DEF CellKey
<1>3. QED
  BY <1>1, <1>2

LEMMA OneKey ==
  ASSUME NEW m, NEW n, Clean(m), Clean(n), Key(Read(m)) = Key(Read(n))
  PROVE  SameInvoice(m, n)
BY KeyIsRead DEF SameInvoice

LEMMA HeldValues ==
  ASSUME NEW g, IsGroup(g), g.errors = {}, NEW n \in RowsOf(g), Clean(n),
         NEW f \in HeaderFields, Stated(n, f)
  PROVE  g.values[f] = Cells(n)[f]
<1>1. f \in Fields \ Missing(Cells(n)) /\ f \notin MoneyFields
  BY DEF Fields, HeaderFields, MoneyFields, Missing, Stated
<1>2. f \in DOMAIN Read(n) /\ Read(n)[f] = Cells(n)[f]
  BY <1>1, ReadIs, StatedField DEF Parsed
<1>3. g.values[f] = Read(n)[f]
  BY <1>2 DEF IsGroup, IsPart
<1>4. QED
  BY <1>2, <1>3

(***************************************************************************)
(* The invoices that have a row among their lines.                         *)
(***************************************************************************)
Holders(n) == {inv \in stored : \E k \in DOMAIN inv.rows : inv.rows[k] = n}
Own(n)     == {e \in errors : e.row = n}

Answered(n) ==
  \/ /\ Cardinality(Holders(n)) = 1 /\ Own(n) = {}
     /\ \A inv \in Holders(n), f \in HeaderFields : Stated(n, f) => inv.values[f] = Cells(n)[f]
  \/ Holders(n) = {} /\ Own(n) # {}
  \/ Holders(n) = {} /\ \E m \in DOMAIN rows : SameInvoice(m, n) /\ Own(m) # {}

LEMMA HoldersAre ==
  ASSUME NEW n
  PROVE  /\ Holders(n) = {inv \in stored : n \in RowsOf(inv)}
         /\ Holders(n) # {} <=> n \in Lines
         /\ Own(n) # {} <=> Blamed(n)
<1>1. \A inv : n \in RowsOf(inv) <=> \E k \in DOMAIN inv.rows : inv.rows[k] = n
  BY DEF RowsOf
<1>2. Holders(n) = {inv \in stored : n \in RowsOf(inv)}
  BY <1>1 DEF Holders
<1>3. Holders(n) # {} <=> n \in Lines
  BY <1>2 DEF Lines
<1>4. Own(n) # {} <=> Blamed(n)
  BY DEF Own, Blamed
<1>5. QED
  BY <1>2, <1>3, <1>4

\* An invoice that holds a row is the one of the row's group.
LEMMA HolderIs ==
  ASSUME Shape, Main, NEW n, NEW inv \in Holders(n), NEW j \in DOMAIN groups,
         n \in RowsOf(groups[j])
  PROVE  \E k \in AcceptedDone : accepted[k] = groups[j] /\ inv = BuildInvoice(groups[j])
<1>1. inv \in stored /\ n \in RowsOf(inv)
  BY HoldersAre
<1>2. PICK k \in AcceptedDone : inv = BuildInvoice(accepted[k])
  BY <1>1 DEF Main, Persisted
<1>3. n \in RowsOf(accepted[k]) /\ k \in DOMAIN accepted
  BY <1>1, <1>2, BuildIs, AcceptedDoneAre
<1>4. PICK l \in DOMAIN groups : accepted[k] = groups[l]
  BY <1>3, AcceptedIs
<1>5. l = j
  BY <1>3, <1>4, SameGroup
<1>6. QED
  BY <1>2, <1>4, <1>5

LEMMA CleanRowAnswered ==
  ASSUME Shape, Main, step = "done", NEW n \in DOMAIN rows, Clean(n)
  PROVE  Answered(n)
<1>1. /\ RowsDone = DOMAIN rows /\ TypedDone = DOMAIN typed
      /\ GroupsDone = DOMAIN groups /\ AcceptedDone = DOMAIN accepted
  BY DEF RowsDone, TypedDone, GroupsDone, AcceptedDone
<1>2. PICK k0 \in DOMAIN typed : typed[k0].row = n
  BY <1>1 DEF Main, RowsRead
<1>3. PICK j \in DOMAIN groups : n \in RowsOf(groups[j])
  BY <1>1, <1>2 DEF Main, Grouped
<1> DEFINE g == groups[j]
<1>4. IsGroup(g)
  BY DEF Main, Grouped
<1>5. ASSUME Holders(n) = {}, NEW m \in RowsOf(g), Blamed(m)
      PROVE  Answered(n)
  <2>1. m \in DOMAIN rows /\ Clean(m)
    BY <1>1, <1>5, RowsAreRead
  <2>2. Key(Read(m)) = Key(Read(n))
    BY <1>3, <1>4, <1>5 DEF IsGroup, IsPart
  <2>3. SameInvoice(m, n) /\ Own(m) # {}
    BY <1>5, <2>1, <2>2, OneKey, HoldersAre
  <2>4. QED
    BY <1>5, <2>1, <2>3 DEF Answered
<1>6. CASE ~IsAccepted(g)
  <2>1. Holders(n) = {}
    BY <1>3, <1>6, HolderIs, AcceptedDoneAre DEF IsAccepted
  <2>2. \E m \in RowsOf(g) : Blamed(m)
    BY <1>1, <1>6 DEF Main, Checked
  <2>3. QED
    BY <1>5, <2>1, <2>2
<1>7. CASE IsAccepted(g)
  <2>1. PICK k \in DOMAIN accepted : accepted[k] = g
    BY <1>7 DEF IsAccepted
  <2>2. CASE BuildInvoice(g) \in stored
    <3> DEFINE inv == BuildInvoice(g)
    <3>1. n \in RowsOf(inv) /\ inv.values = g.values
      BY <1>3, BuildIs
    <3>2. inv \in Holders(n)
      BY <2>2, <3>1, HoldersAre
    <3>3. \A x \in Holders(n) : x = inv
      BY <1>3, HolderIs
    <3>4. n \in Lines
      BY <3>2, HoldersAre
    <3>5. Own(n) = {}
      BY <3>4 DEF Main, BlamedForCause, Own
    <3>6. g.errors = {}
      BY <2>1, AcceptedIs
    <3>7. \A f \in HeaderFields : Stated(n, f) => inv.values[f] = Cells(n)[f]
      BY <1>3, <1>4, <3>1, <3>6, HeldValues
    <3> HIDE DEF inv
    <3>8. Holders(n) = {inv}
      BY <3>2, <3>3
    <3>9. Cardinality(Holders(n)) = 1
      BY <3>8, FS_Singleton
    <3>10. QED
      BY <3>5, <3>7, <3>8, <3>9 DEF Answered
  <2>3. CASE BuildInvoice(g) \notin stored
    <3>1. Holders(n) = {}
      <4>1. SUFFICES ASSUME NEW x \in Holders(n) PROVE FALSE
        OBVIOUS
      <4>2. x = BuildInvoice(g) /\ x \in stored
        BY <1>3, HolderIs, HoldersAre
      <4>3. QED
        BY <2>3, <4>2
    <3>2. \E m \in RowsOf(g) : Blamed(m)
      BY <1>1, <2>1, <2>3 DEF Main, Persisted
    <3>3. QED
      BY <1>5, <3>1, <3>2
  <2>4. QED
    BY <2>2, <2>3
<1>8. QED
  BY <1>6, <1>7

LEMMA EveryRowAnswered ==
  ASSUME Shape, Main, step = "done", NEW n \in DOMAIN rows
  PROVE  Answered(n)
<1>1. CASE Clean(n)
  BY <1>1, CleanRowAnswered
<1>2. CASE ~Clean(n)
  <2>1. RowsDone = DOMAIN rows
    BY DEF RowsDone
  <2>2. Blamed(n)
    BY <1>2, <2>1 DEF Main, RowsRead
  <2>3. n \notin Lines
    BY <2>2 DEF Main, BlamedForCause, Blamed
  <2>4. QED
    BY <2>2, <2>3, HoldersAre DEF Answered
<1>3. QED
  BY <1>1, <1>2

(***************************************************************************)
(* After an import of any file every row is a line of exactly one invoice, *)
(* with what it states of that invoice, or reported, by itself or with     *)
(* another row of its invoice, never both; and the counters and the status *)
(* of the batch say so (import_file of imports/service.py).                *)
(***************************************************************************)
THEOREM AnsweredRowsTheorem == Spec => []RowsAnswered
<1>1. IInv => RowsAnswered
  <2>0. SUFFICES ASSUME IInv, Imported
                 PROVE  /\ \A n \in DOMAIN rows : Answered(n)
                        /\ processed = Cardinality({n \in DOMAIN rows : Holders(n) # {}})
                        /\ processed + error_rows = Len(rows)
                        /\ (status = "completed" <=> stored # {})
    BY Zenon DEF RowsAnswered, Answered, Holders, Own
  <2>1. Shape /\ Main /\ step = "done"
    BY <2>0 DEF IInv, Imported, Refused
  <2>2. \A n \in DOMAIN rows : Answered(n)
    BY <2>1, EveryRowAnswered
  <2>3. /\ \A n \in Lines : n \in DOMAIN rows
        /\ processed \in Nat /\ Len(rows) \in Nat /\ processed <= Len(rows)
        /\ DOMAIN rows = 1..Len(rows) /\ IsFiniteSet(Lines)
    BY <2>1, LinesAre DEF Shape
  <2>4. {n \in DOMAIN rows : Holders(n) # {}} = Lines
    <3> HIDE DEF Lines
    <3>1. QED
      BY <2>3, HoldersAre
  <2>5. processed = Cardinality(Lines)
    BY <2>1 DEF Main, Persisted
  <2>6. /\ error_rows = Len(rows) - processed
        /\ status = IF processed = 0 /\ (errors # {} \/ rows = <<>>)
                      THEN "failed" ELSE "completed"
    BY <2>1 DEF Main, Closed
  <2>7. stored # {} => processed # 0
    <3>1. SUFFICES ASSUME NEW inv \in stored PROVE Lines # {}
      BY <2>3, <2>5, FS_EmptySet
    <3>2. PICK k \in AcceptedDone : inv = BuildInvoice(accepted[k])
      BY <2>1 DEF Main, Persisted
    <3>3. IsGroup(accepted[k]) /\ RowsOf(inv) = RowsOf(accepted[k])
      BY <2>1, <3>2, AcceptedDoneAre, AcceptedIs, BuildIs
    <3>4. QED
      BY <3>3, FirstRow DEF Lines
  <2>8. stored = {} => processed = 0 /\ (errors # {} \/ rows = <<>>)
    <3>1. SUFFICES ASSUME stored = {} PROVE processed = 0 /\ (errors # {} \/ rows = <<>>)
      OBVIOUS
    <3>2. Lines = {}
      BY <3>1 DEF Lines
    <3>3. processed = 0
      BY <2>5, <3>2, FS_EmptySet
    <3>4. CASE rows = <<>>
      BY <3>3, <3>4
    <3>5. CASE rows # <<>>
      <4>1. 1 \in DOMAIN rows
        BY <2>1, <3>5 DEF Shape
      <4>2. Holders(1) = {}
        BY <3>1 DEF Holders
      <4>3. Cardinality(Holders(1)) # 1
        BY <4>2, FS_EmptySet
      <4>4. \E m : Own(m) # {}
        BY <2>2, <4>1, <4>3 DEF Answered
      <4>5. QED
        BY <3>3, <4>4 DEF Own
    <3>6. QED
      BY <3>4, <3>5
  <2>9. processed = Cardinality({n \in DOMAIN rows : Holders(n) # {}})
    BY <2>4, <2>5
  <2>10. processed + error_rows = Len(rows)
    BY <2>3, <2>6
  <2>11. status = "completed" <=> stored # {}
    BY <2>6, <2>7, <2>8
  <2>12. QED
    BY <2>0, <2>2, <2>9, <2>10, <2>11
<1>2. QED
  BY <1>1, FileInvariant, PTL

(***************************************************************************)
(* The amounts of a line: what its row states, rounded, or a default.      *)
(***************************************************************************)
LEMMA ItemIs ==
  ASSUME NEW t, NEW f \in ItemFields, NEW d
  PROVE  /\ f \in DOMAIN Item(t) <=> f \in DOMAIN t
         /\ Get(Item(t), f, d) = Get(t, f, d)
<1>1. /\ DOMAIN Item(t) = ItemFields \intersect DOMAIN t
      /\ \A x \in DOMAIN Item(t) : Item(t)[x] = t[x]
  BY DEF Item, Restrict
<1>2. QED
  BY <1>1 DEF Get

LEMMA AmountRead ==
  ASSUME Shape, step # "file", NEW n \in DOMAIN rows, Clean(n),
         NEW f \in MoneyFields \union {"quantity"}, f \in DOMAIN Read(n)
  PROVE  /\ Read(n)[f] \in Int
         /\ IF Stated(n, f)
              THEN /\ Cells(n)[f] \in Int
                   /\ f \in MoneyFields => Read(n)[f] = HalfUp(Cells(n)[f], 100)
              ELSE f \in DOMAIN Default /\ Read(n)[f] = Default[f]
<1>1. f \in Fields /\ (f \in Missing(Cells(n)) <=> ~Stated(n, f))
  BY DEF Missing, Stated, Fields, ItemFields
<1>2. CASE f \in Missing(Cells(n))
  <2>1. f \in DOMAIN Default /\ Read(n)[f] = Default[f]
    BY <1>2, ReadIs
  <2>2. Default[f] \in Int
    BY <2>1 DEF Default, MoneyFields
  <2>3. QED
    BY <1>1, <1>2, <2>1, <2>2
<1>3. CASE f \notin Missing(Cells(n))
  <2> DEFINE raw == Cells(n)[f]
  <2>1. /\ f \in DOMAIN Cells(n) /\ raw # BLANK /\ raw # GARBAGE
        /\ Read(n)[f] = Parsed(f, raw)
    BY <1>1, <1>3, ReadIs, StatedField
  <2>2. raw \in Int
    BY <2>1, CellsAreAmounts
  <2>3. Read(n)[f] = IF f \in MoneyFields THEN HalfUp(raw, 100) ELSE raw
    BY <2>1 DEF Parsed
  <2>4. Read(n)[f] \in Int
    BY <2>2, <2>3, HalfUpInt
  <2>5. QED
    BY <1>1, <1>3, <2>2, <2>3, <2>4
<1>4. QED
  BY <1>2, <1>3

LEMMA TaxableInt ==
  ASSUME Shape, step # "file", NEW n \in DOMAIN rows, Clean(n)
  PROVE  Taxable(Item(Read(n))) \in Int
<1> DEFINE t == Item(Read(n))
<1>1. {"unit_price", "quantity", "item_discount_amount"} \subseteq ItemFields
  BY DEF ItemFields, MoneyFields
<1>2. {"unit_price", "quantity", "item_discount_amount"} \subseteq DOMAIN Read(n)
  <2>1. {"unit_price", "quantity", "item_discount_amount"} \subseteq DOMAIN Default
    BY DEF Default
  <2>2. DOMAIN Default \subseteq DOMAIN Read(n)
    BY ReadIs
  <2>3. QED
    BY <2>1, <2>2
<1>3. /\ Get(t, "unit_price", 0) = Read(n)["unit_price"]
      /\ Get(t, "quantity", 10000) = Read(n)["quantity"]
      /\ Get(t, "item_discount_amount", 0) = Read(n)["item_discount_amount"]
  <2>1. ASSUME NEW f \in ItemFields, f \in DOMAIN Read(n), NEW d
        PROVE  Get(t, f, d) = Read(n)[f]
    BY <2>1, ItemIs DEF Get
  <2> HIDE DEF t
  <2>2. QED
    BY <1>1, <1>2, <2>1
<1>4. /\ Get(t, "unit_price", 0) \in Int
      /\ Get(t, "quantity", 10000) \in Int
      /\ Get(t, "item_discount_amount", 0) \in Int
  BY <1>2, <1>3, AmountRead DEF MoneyFields
<1> HIDE DEF t
<1>5. Gross(t) \in Int
  BY <1>4 DEF Gross
<1>6. Subtotal(t) \in Int
  BY <1>5, HalfUpInt DEF Subtotal
<1>7. Taxable(t) \in Int
  BY <1>4, <1>6 DEF Taxable
<1>8. QED
  BY <1>7 DEF t

\* What rounds to nothing is less than half of a hundredth.
LEMMA RoundedToNothing ==
  ASSUME NEW a \in Int, HalfUp(a, 100) = 0
  PROVE  a < 50
<1>1. 100 \div 2 = 50
  BY SMT
<1>2. a >= 50 => (a + 50) \div 100 >= 1
  BY SMT
<1>3. QED
  BY <1>1, <1>2 DEF HalfUp

LEMMA NoVatOnNothing == HalfUp(0, 10000) = 0
<1>1. 10000 \div 2 = 5000 /\ 5000 \div 10000 = 0
  BY SMT
<1>2. QED
  BY <1>1 DEF HalfUp

\* The one row whose line has another VAT than its invoice counts for it.
ZeroOverRate(n) ==
  /\ Stated(n, "vat_amount") /\ Cells(n)["vat_amount"] < 50
  /\ Stated(n, "vat_rate")

LEMMA CountedIsLines ==
  ASSUME Shape, step # "file", NEW n \in DOMAIN rows, Clean(n), ~ZeroOverRate(n)
  PROVE  LineVat(Item(Read(n))) = CountedVat(Item(Read(n)))
<1> DEFINE t == Item(Read(n))
<1>1. SUFFICES ASSUME CountedVat(t) = 0 PROVE DerivedVat(t) = 0
  BY DEF LineVat
<1>2. "vat_amount" \in ItemFields /\ "vat_rate" \in ItemFields
      /\ "vat_amount" \in MoneyFields /\ "vat_rate" \in MoneyFields
      /\ "vat_amount" \notin DOMAIN Default /\ "vat_rate" \in DOMAIN Default
      /\ Default["vat_rate"] = 0
  BY DEF ItemFields, MoneyFields, Default
<1>3. CASE "vat_amount" \notin DOMAIN t
  BY <1>1, <1>3 DEF CountedVat, Get
<1>4. CASE "vat_amount" \in DOMAIN t
  <2>1. "vat_amount" \in DOMAIN Read(n) /\ Read(n)["vat_amount"] = 0
    <3>1. "vat_amount" \in DOMAIN Read(n)
      BY <1>2, <1>4, ItemIs
    <3>2. CountedVat(t) = Read(n)["vat_amount"]
      BY <1>2, <3>1, ItemIs DEF CountedVat, Get
    <3>3. QED
      BY <1>1, <3>1, <3>2
  <2>2. /\ Stated(n, "vat_amount") /\ Cells(n)["vat_amount"] \in Int
        /\ HalfUp(Cells(n)["vat_amount"], 100) = 0
    BY <1>2, <2>1, AmountRead
  <2>3. ~Stated(n, "vat_rate")
    BY <2>2, RoundedToNothing DEF ZeroOverRate
  <2>4. "vat_rate" \in DOMAIN Read(n)
    BY <1>2, ReadIs
  <2>5. Get(t, "vat_rate", 0) = 0
    <3>1. Read(n)["vat_rate"] = 0
      BY <1>2, <2>3, <2>4, AmountRead
    <3>2. QED
      BY <1>2, <2>4, <3>1, ItemIs DEF Get
  <2>6. Taxable(t) * 0 = 0
    <3>1. \A a \in Int : a * 0 = 0
      OBVIOUS
    <3>2. QED
      BY <3>1, TaxableInt
  <2>7. DerivedVat(t) = HalfUp(0, 10000)
    BY <2>5, <2>6 DEF DerivedVat
  <2>8. QED
    BY <2>7, NoVatOnNothing
<1>5. QED
  BY <1>3, <1>4

(***************************************************************************)
(* Two sums of the same amounts are the same, whatever a sum may be.       *)
(***************************************************************************)
LEMMA InvoiceAmounts ==
  ASSUME NEW g, \A k \in DOMAIN g.items : LineVat(g.items[k]) = CountedVat(g.items[k])
  PROVE  LET inv == BuildInvoice(g)
         IN /\ inv.vat = Sum([k \in DOMAIN inv.lines |-> inv.lines[k].vat])
            /\ inv.total = Sum([k \in DOMAIN inv.lines |-> inv.lines[k].total])
<1> DEFINE inv == BuildInvoice(g)
           total(t) == Get(t, "line_total", Taxable(t) + CountedVat(t))
<1>1. /\ inv.lines = [k \in DOMAIN g.items |-> BuildItem(g.items[k])]
      /\ inv.vat = Sum([k \in DOMAIN g.items |-> CountedVat(g.items[k])])
      /\ inv.total = Sum([k \in DOMAIN g.items |-> total(g.items[k])])
  BY DEF BuildInvoice
<1> HIDE DEF inv
<1>2. DOMAIN inv.lines = DOMAIN g.items
  BY <1>1
<1>3. ASSUME NEW k \in DOMAIN g.items
      PROVE  /\ inv.lines[k].vat = CountedVat(g.items[k])
             /\ inv.lines[k].total = total(g.items[k])
  <2>1. inv.lines[k] = BuildItem(g.items[k])
    BY <1>1
  <2>2. /\ BuildItem(g.items[k]).vat = LineVat(g.items[k])
        /\ BuildItem(g.items[k]).total =
             Get(g.items[k], "line_total", Taxable(g.items[k]) + LineVat(g.items[k]))
    BY DEF BuildItem
  <2>3. QED
    BY <2>1, <2>2
<1> HIDE DEF total
<1>4. /\ [k \in DOMAIN inv.lines |-> inv.lines[k].vat]
           = [k \in DOMAIN g.items |-> CountedVat(g.items[k])]
      /\ [k \in DOMAIN inv.lines |-> inv.lines[k].total]
           = [k \in DOMAIN g.items |-> total(g.items[k])]
  BY <1>2, <1>3
<1>5. QED
  BY <1>1, <1>4 DEF inv

(***************************************************************************)
(* Whatever the file states and however amounts round, a stored invoice is *)
(* the sum of its stored lines, in VAT and in total, except when one of    *)
(* its rows states a VAT of zero beside a rate (build_invoice and          *)
(* build_item of imports/service.py).                                      *)
(***************************************************************************)
THEOREM LinesAddUpTheorem == Spec => []LinesAddUp
<1>1. IInv => LinesAddUp
  <2>1. SUFFICES ASSUME IInv, NEW inv \in stored,
                        \A k \in DOMAIN inv.rows : ~ZeroOverRate(inv.rows[k])
                 PROVE  /\ inv.vat = Sum([k \in DOMAIN inv.lines |-> inv.lines[k].vat])
                        /\ inv.total = Sum([k \in DOMAIN inv.lines |-> inv.lines[k].total])
    BY Zenon DEF LinesAddUp, ZeroOverRate
  <2>2. CASE Refused
    BY <2>1, <2>2 DEF IInv, Shape
  <2>3. CASE Shape /\ Main
    <3>1. PICK k0 \in AcceptedDone : inv = BuildInvoice(accepted[k0])
      BY <2>1, <2>3 DEF Main, Persisted
    <3> DEFINE g == accepted[k0]
    <3>2. IsGroup(g) /\ inv.rows = g.rows
      BY <2>3, <3>1, AcceptedDoneAre, AcceptedIs, BuildIs
    <3>3. step # "file"
      BY <2>3, <3>1 DEF AcceptedDone
    <3>4. ASSUME NEW k \in DOMAIN g.items
          PROVE  LineVat(g.items[k]) = CountedVat(g.items[k])
      <4>1. k \in DOMAIN g.rows /\ g.items[k] = Item(Read(g.rows[k]))
        BY <3>2, SeqFacts DEF IsGroup, IsPart
      <4>2. g.rows[k] \in RowsOf(g)
        BY <4>1 DEF RowsOf
      <4>3. PICK j \in DOMAIN groups : g = groups[j]
        BY <2>3, <3>1, AcceptedDoneAre, AcceptedIs
      <4>4. g.rows[k] \in DOMAIN rows /\ Clean(g.rows[k])
        BY <2>3, <4>2, <4>3, RowsAreRead
      <4>5. ~ZeroOverRate(g.rows[k])
        BY <2>1, <3>2, <4>1
      <4>6. QED
        BY <2>3, <3>3, <4>1, <4>4, <4>5, CountedIsLines
    <3>5. QED
      BY <3>1, <3>4, InvoiceAmounts
  <2>4. QED
    BY <2>1, <2>2, <2>3 DEF IInv
<1>2. QED
  BY <1>1, FileInvariant, PTL

(***************************************************************************)
(* Sums.  A sum takes the elements of its domain in an order that depends  *)
(* on the domain alone, so sums over one domain can be compared step by    *)
(* step.  That the fold exists, and every fact about it, is by the least   *)
(* number of elements for which it would fail.                             *)
(***************************************************************************)
Pick(D) == CHOOSE x \in D : TRUE
Part(s, h, D) == IF D = {} THEN 0 ELSE s[Pick(D)] + h[D \ {Pick(D)}]
Adds(s, h) == h = [D \in SUBSET DOMAIN s |-> Part(s, h, D)]

LEMMA SumIs ==
  ASSUME NEW s
  PROVE  Sum(s) = (CHOOSE h : Adds(s, h))[DOMAIN s]
BY Zenon DEF Sum, FoldFunction, FoldFunctionOnSet, MapThenFoldSet, Adds, Part, Pick

LEMMA LeastNumber ==
  ASSUME NEW S \in SUBSET Nat, S # {}
  PROVE  \E m \in S : \A n \in S : m <= n
<1>1. \E m \in S : \A n \in S : ~(<<n, m>> \in OpToRel(<, Nat))
  BY NatLessThanWellFounded, WFMin
<1>2. \A m, n \in Nat : m <= n \/ <<n, m>> \in OpToRel(<, Nat)
  BY DEF OpToRel
<1>3. QED
  BY <1>1, <1>2

LEMMA Picked ==
  ASSUME NEW D, IsFiniteSet(D), NEW E \in SUBSET D, E # {}
  PROVE  /\ Pick(E) \in E /\ E \ {Pick(E)} \in SUBSET D
         /\ Cardinality(E) \in Nat /\ Cardinality(E) # 0
         /\ Cardinality(E \ {Pick(E)}) = Cardinality(E) - 1
<1>1. Pick(E) \in E
  BY DEF Pick
<1>2. IsFiniteSet(E)
  BY FS_Subset
<1>3. Cardinality(E) \in Nat /\ Cardinality(E) # 0
  BY <1>2, FS_CardinalityType, FS_EmptySet
<1>4. Cardinality(E \ {Pick(E)}) = Cardinality(E) - 1
  BY <1>1, <1>2, FS_RemoveElement
<1>5. QED
  BY <1>1, <1>3, <1>4

LEMMA FoldExists ==
  ASSUME NEW s, IsFiniteSet(DOMAIN s)
  PROVE  \E h : Adds(s, h)
<1> DEFINE D == DOMAIN s
           Upto(n) == {E \in SUBSET D : Cardinality(E) <= n}
           Defined(n, h) == h = [E \in Upto(n) |-> Part(s, h, E)]
           Bad == {n \in Nat : ~\E h : Defined(n, h)}
<1>1. \A E \in SUBSET D : Cardinality(E) \in Nat /\ (E # {} => Cardinality(E) # 0)
  <2>1. \A E \in SUBSET D : E # {} => Cardinality(E) # 0
    BY Picked
  <2>2. \A E \in SUBSET D : Cardinality(E) \in Nat
    BY FS_Subset, FS_CardinalityType
  <2>3. QED
    BY <2>1, <2>2
<1>2. 0 \notin Bad
  <2> DEFINE h == [E \in Upto(0) |-> 0]
  <2>1. \A E \in Upto(0) : E = {}
    BY <1>1
  <2>2. \A E \in Upto(0) : Part(s, h, E) = 0
    BY <2>1 DEF Part
  <2>3. h = [E \in Upto(0) |-> Part(s, h, E)]
    BY <2>2
  <2>4. Defined(0, h)
    BY <2>3
  <2>5. QED
    BY <2>4
<1>3. ASSUME NEW n \in Nat, n \notin Bad PROVE n + 1 \notin Bad
  <2>1. PICK h : h = [E \in Upto(n) |-> Part(s, h, E)]
    BY <1>3
  <2> DEFINE g == [E \in Upto(n + 1) |-> Part(s, h, E)]
  <2>2. \A E \in Upto(n) : E \in Upto(n + 1)
    BY <1>1, <1>3
  <2>3. \A E \in Upto(n) : g[E] = h[E]
    BY <2>1, <2>2
  <2>4. ASSUME NEW E \in Upto(n + 1) PROVE Part(s, g, E) = Part(s, h, E)
    <3>1. CASE E = {}
      BY <3>1 DEF Part
    <3>2. CASE E # {}
      <4>1. E \ {Pick(E)} \in Upto(n)
        BY <1>1, <1>3, <2>4, <3>2, Picked
      <4> HIDE DEF g
      <4>2. QED
        BY <2>3, <3>2, <4>1 DEF Part
    <3>3. QED
      BY <3>1, <3>2
  <2>5. g = [E \in Upto(n + 1) |-> Part(s, g, E)]
    <3> HIDE DEF Upto
    <3>1. QED
      BY <2>4
  <2>6. Defined(n + 1, g)
    BY <2>5
  <2> HIDE DEF Defined, g
  <2>7. QED
    BY <2>6
<1> HIDE DEF Bad
<1>4. Bad = {}
  <2>1. SUFFICES ASSUME Bad # {} PROVE FALSE
    OBVIOUS
  <2>2. Bad \in SUBSET Nat
    BY DEF Bad
  <2>3. PICK m \in Bad : \A n \in Bad : m <= n
    BY <2>1, <2>2, LeastNumber
  <2>4. m \in Nat /\ m # 0
    BY <1>2, <2>2
  <2>5. m - 1 \in Nat /\ m - 1 \notin Bad
    BY <2>2, <2>3, <2>4
  <2>6. (m - 1) + 1 \notin Bad
    BY <1>3, <2>5
  <2>7. QED
    BY <2>3, <2>4, <2>6
<1>5. PICK h : Defined(Cardinality(D), h)
  <2>1. Cardinality(D) \in Nat
    BY <1>1
  <2> HIDE DEF Defined
  <2>2. QED
    BY <1>4, <2>1 DEF Bad
<1>6. Upto(Cardinality(D)) = SUBSET D
  BY FS_Subset
<1>7. Adds(s, h)
  BY <1>5, <1>6 DEF Adds
<1>8. QED
  BY <1>7

LEMMA SumUnfolds ==
  ASSUME NEW s, IsFiniteSet(DOMAIN s)
  PROVE  \E h : /\ Sum(s) = h[DOMAIN s] /\ h[{}] = 0
                /\ \A E \in SUBSET DOMAIN s :
                     E # {} => h[E] = s[Pick(E)] + h[E \ {Pick(E)}]
<1> DEFINE h == CHOOSE x : Adds(s, x)
<1>1. Adds(s, h)
  BY FoldExists
<1>2. Sum(s) = h[DOMAIN s]
  BY SumIs
<1> HIDE DEF h
<1>3. \A E \in SUBSET DOMAIN s : h[E] = Part(s, h, E)
  BY <1>1 DEF Adds
<1>4. h[{}] = 0 /\ \A E \in SUBSET DOMAIN s : E # {} => h[E] = s[Pick(E)] + h[E \ {Pick(E)}]
  BY <1>3 DEF Part
<1>5. QED
  BY <1>2, <1>4

\* What holds of nothing, and of a set if it holds without one element, holds.
LEMMA ByElements ==
  ASSUME NEW D, IsFiniteSet(D), NEW G, {} \in G,
         \A E \in SUBSET D : E # {} /\ E \ {Pick(E)} \in G => E \in G
  PROVE  D \in G
<1> DEFINE Bad == {n \in Nat : \E E \in SUBSET D : Cardinality(E) = n /\ E \notin G}
<1>1. Bad = {}
  <2>1. SUFFICES ASSUME Bad # {} PROVE FALSE
    OBVIOUS
  <2>2. PICK m \in Bad : \A n \in Bad : m <= n
    <3> HIDE DEF Bad
    <3>1. Bad \in SUBSET Nat
      BY DEF Bad
    <3>2. QED
      BY <2>1, <3>1, LeastNumber
  <2>3. PICK E \in SUBSET D : Cardinality(E) = m /\ E \notin G
    OBVIOUS
  <2>4. E # {}
    BY <2>3
  <2>5. /\ E \ {Pick(E)} \in SUBSET D /\ E \ {Pick(E)} \notin G
        /\ Cardinality(E \ {Pick(E)}) = m - 1 /\ m - 1 \in Nat
    BY <2>3, <2>4, Picked
  <2>6. m - 1 \in Bad
    BY <2>5
  <2>7. QED
    BY <2>2, <2>5, <2>6
<1>2. Cardinality(D) \in Nat
  BY FS_CardinalityType
<1>3. QED
  BY <1>1, <1>2

\* The sums of an invoice: what is left after discounts, with VAT on top.
Ordered(D, a, b, c, d) ==
  \A k \in D : /\ 0 <= b[k] /\ b[k] <= a[k] /\ 0 <= c[k] /\ c[k] <= a[k]
              /\ d[k] = a[k] - b[k] + c[k]

LEMMA SumsOf ==
  ASSUME NEW D, IsFiniteSet(D), NEW a \in [D -> Int], NEW b \in [D -> Int],
         NEW c \in [D -> Int], NEW d \in [D -> Int],
         Ordered(D, a, b, c, d)
  PROVE  /\ Sum(a) \in Int /\ Sum(b) \in Int /\ Sum(c) \in Int /\ Sum(d) \in Int
         /\ Sum(b) <= Sum(a) /\ Sum(c) >= 0 /\ Sum(c) <= Sum(a) /\ Sum(d) >= 0
         /\ Sum(d) = Sum(a) - Sum(b) + Sum(c)
<1>1. ASSUME NEW s, DOMAIN s = D
      PROVE  \E h : /\ Sum(s) = h[D] /\ h[{}] = 0
                    /\ \A E \in SUBSET D : E # {} => h[E] = s[Pick(E)] + h[E \ {Pick(E)}]
  BY <1>1, SumUnfolds
<1>2. PICK ha : /\ Sum(a) = ha[D] /\ ha[{}] = 0
                /\ \A E \in SUBSET D : E # {} => ha[E] = a[Pick(E)] + ha[E \ {Pick(E)}]
  BY <1>1
<1>3. PICK hb : /\ Sum(b) = hb[D] /\ hb[{}] = 0
                /\ \A E \in SUBSET D : E # {} => hb[E] = b[Pick(E)] + hb[E \ {Pick(E)}]
  BY <1>1
<1>4. PICK hc : /\ Sum(c) = hc[D] /\ hc[{}] = 0
                /\ \A E \in SUBSET D : E # {} => hc[E] = c[Pick(E)] + hc[E \ {Pick(E)}]
  BY <1>1
<1>5. PICK hd : /\ Sum(d) = hd[D] /\ hd[{}] = 0
                /\ \A E \in SUBSET D : E # {} => hd[E] = d[Pick(E)] + hd[E \ {Pick(E)}]
  BY <1>1
<1> DEFINE Holds(E) == /\ ha[E] \in Int /\ hb[E] \in Int /\ hc[E] \in Int /\ hd[E] \in Int
                       /\ 0 <= hb[E] /\ hb[E] <= ha[E] /\ 0 <= hc[E] /\ hc[E] <= ha[E]
                       /\ hd[E] = ha[E] - hb[E] + hc[E]
           G == {E \in SUBSET D : Holds(E)}
<1>6. {} \in G
  BY <1>2, <1>3, <1>4, <1>5
<1>7. ASSUME NEW E \in SUBSET D, E # {}, E \ {Pick(E)} \in G PROVE E \in G
  <2> DEFINE x == Pick(E)
             F == E \ {x}
  <2>1. x \in D
    BY <1>7, Picked
  <2>2. Holds(F)
    BY <1>7
  <2>3. /\ a[x] \in Int /\ b[x] \in Int /\ c[x] \in Int /\ d[x] \in Int
        /\ 0 <= b[x] /\ b[x] <= a[x] /\ 0 <= c[x] /\ c[x] <= a[x]
        /\ d[x] = a[x] - b[x] + c[x]
    BY <2>1 DEF Ordered
  <2>4. /\ ha[E] = a[x] + ha[F] /\ hb[E] = b[x] + hb[F]
        /\ hc[E] = c[x] + hc[F] /\ hd[E] = d[x] + hd[F]
    BY <1>2, <1>3, <1>4, <1>5, <1>7
  <2> HIDE DEF x, F
  <2>5. Holds(E)
    BY <2>2, <2>3, <2>4
  <2>6. QED
    BY <2>5
<1> HIDE DEF G
<1>8. D \in G
  BY <1>6, <1>7, ByElements
<1>9. Holds(D)
  BY <1>8 DEF G
<1>10. QED
  BY <1>2, <1>3, <1>4, <1>5, <1>9

\* No amount is larger than the sum of amounts that are not negative.
LEMMA EachInSum ==
  ASSUME NEW D, IsFiniteSet(D), NEW s \in [D -> Int], \A k \in D : 0 <= s[k]
  PROVE  \A k \in D : s[k] <= Sum(s)
<1>1. PICK h : /\ Sum(s) = h[D] /\ h[{}] = 0
               /\ \A E \in SUBSET D : E # {} => h[E] = s[Pick(E)] + h[E \ {Pick(E)}]
  <2>1. DOMAIN s = D /\ IsFiniteSet(DOMAIN s)
    OBVIOUS
  <2>2. PICK h : /\ Sum(s) = h[DOMAIN s] /\ h[{}] = 0
                 /\ \A E \in SUBSET DOMAIN s :
                      E # {} => h[E] = s[Pick(E)] + h[E \ {Pick(E)}]
    BY <2>1, SumUnfolds
  <2>3. QED
    BY <2>1, <2>2
<1> DEFINE Holds(E) == h[E] \in Int /\ 0 <= h[E] /\ \A k \in E : s[k] <= h[E]
           G == {E \in SUBSET D : Holds(E)}
<1>2. {} \in G
  BY <1>1
<1>3. ASSUME NEW E \in SUBSET D, E # {}, E \ {Pick(E)} \in G PROVE E \in G
  <2> DEFINE x == Pick(E)
             F == E \ {x}
  <2>1. x \in D /\ x \in E
    BY <1>3, Picked
  <2>2. Holds(F)
    BY <1>3
  <2>3. s[x] \in Int /\ 0 <= s[x]
    BY <2>1
  <2>4. h[E] = s[x] + h[F]
    BY <1>1, <1>3
  <2>5. \A k \in E : s[k] \in Int /\ (k = x \/ k \in F)
    OBVIOUS
  <2> HIDE DEF x, F
  <2>6. Holds(E)
    BY <2>2, <2>3, <2>4, <2>5
  <2>7. QED
    BY <2>6
<1> HIDE DEF G
<1>4. D \in G
  BY <1>2, <1>3, ByElements
<1>5. Holds(D)
  BY <1>4 DEF G
<1>6. QED
  BY <1>1, <1>5

(***************************************************************************)
(* The amounts of a line that states neither VAT nor total: they derive    *)
(* from each other, and rounding keeps them in order.                      *)
(***************************************************************************)
LEMMA HalfUpOrder ==
  ASSUME NEW a \in Int, NEW d \in Int, 0 <= d, d * 10000 <= a
  PROVE  d <= HalfUp(a, 10000)
<1>1. 10000 \div 2 = 5000 /\ ~(a < 0)
  BY SMT
<1>2. d <= (a + 5000) \div 10000
  BY SMT
<1>3. QED
  BY <1>1, <1>2 DEF HalfUp

LEMMA HalfUpBelow ==
  ASSUME NEW a \in Int, NEW d \in Int, 0 <= a, a <= d * 10000
  PROVE  HalfUp(a, 10000) <= d
<1>1. 10000 \div 2 = 5000 /\ ~(a < 0)
  BY SMT
<1>2. (a + 5000) \div 10000 <= d
  BY SMT
<1>3. QED
  BY <1>1, <1>2 DEF HalfUp

LEMMA HalfUpShift ==
  ASSUME NEW a \in Int, NEW v \in Int, a >= 0, a + v * 10000 >= 0
  PROVE  HalfUp(a + v * 10000, 10000) = HalfUp(a, 10000) + v
<1>1. 10000 \div 2 = 5000 /\ ~(a < 0) /\ ~(a + v * 10000 < 0)
  BY SMT
<1>2. (a + v * 10000 + 5000) \div 10000 = (a + 5000) \div 10000 + v
  BY SMT
<1>3. QED
  BY <1>1, <1>2 DEF HalfUp

LEMMA ProductsOfNaturals ==
  ASSUME NEW a \in Nat, NEW b \in Nat
  PROVE  a * b \in Nat
OBVIOUS

LEMMA PartOfNatural ==
  ASSUME NEW a \in Nat, NEW r \in 0..10000
  PROVE  a * r <= a * 10000
<1>1. 10000 - r \in Nat
  OBVIOUS
<1>2. a * (10000 - r) \in Nat
  BY <1>1, ProductsOfNaturals
<1>3. a * (10000 - r) = a * 10000 - a * r
  BY SMT
<1>4. a * r \in Nat /\ a * 10000 \in Nat
  BY ProductsOfNaturals
<1>5. QED
  BY <1>2, <1>3, <1>4

Discount(t)  == Get(t, "item_discount_amount", 0)
LineTotal(t) == Get(t, "line_total", Taxable(t) + CountedVat(t))

Derived(t) ==
  /\ Subtotal(t) \in Int /\ Discount(t) \in Int /\ CountedVat(t) \in Int
  /\ 0 <= Discount(t) /\ Discount(t) <= Subtotal(t)
  /\ 0 <= CountedVat(t) /\ CountedVat(t) <= Subtotal(t)
  /\ LineTotal(t) = Subtotal(t) - Discount(t) + CountedVat(t)
  /\ LET l == BuildItem(t)
     IN /\ l.discount = Discount(t) /\ l.vat = CountedVat(t) /\ l.total = LineTotal(t)
        /\ l.discount * 10000 <= l.unit_price * l.quantity
        /\ l.total = HalfUp(l.unit_price * l.quantity + (l.vat - l.discount) * 10000, 10000)

\* What a line states stays within its columns.
Fits(t) ==
  LET l == BuildItem(t)
  IN /\ <<"item_description", l.description>> \notin Unstorable
     /\ l.quantity <= MaxQuantity /\ l.unit_price <= MaxMoney

States(n) == Stated(n, "vat_amount") \/ Stated(n, "line_total")

\* What a line states of its amounts, when it states no VAT and no total:
\* a discount within its worth and a rate of at most 100%.
Amounts(t, price, quantity, discount, rate) ==
  /\ price \in Int /\ quantity \in Int /\ discount \in Int /\ rate \in 0..10000
  /\ 0 <= discount /\ discount * 10000 <= price * quantity
  /\ \A d : /\ Get(t, "unit_price", d) = price /\ Get(t, "quantity", d) = quantity
            /\ Get(t, "item_discount_amount", d) = discount
            /\ Get(t, "vat_rate", d) = rate
            /\ Get(t, "vat_amount", d) = d /\ Get(t, "line_total", d) = d

LEMMA DerivedAmounts ==
  ASSUME NEW t, NEW price, NEW quantity, NEW discount, NEW rate,
         Amounts(t, price, quantity, discount, rate)
  PROVE  Derived(t)
<1>1. /\ price \in Int /\ quantity \in Int /\ discount \in Int
      /\ rate \in Int /\ rate \in 0..10000
      /\ 0 <= discount /\ discount * 10000 <= price * quantity
  BY DEF Amounts
<1>2. \A d : /\ Get(t, "unit_price", d) = price /\ Get(t, "quantity", d) = quantity
             /\ Get(t, "item_discount_amount", d) = discount
             /\ Get(t, "vat_rate", d) = rate
             /\ Get(t, "vat_amount", d) = d /\ Get(t, "line_total", d) = d
  BY DEF Amounts
<1> DEFINE gross == price * quantity
           subtotal == HalfUp(gross, 10000)
           vat == HalfUp((subtotal - discount) * rate, 10000)
<1>3. gross \in Int /\ gross >= 0
  BY <1>1, SMT
<1>4. Gross(t) = gross
  BY <1>1, <1>2 DEF Gross
<1>5. Subtotal(t) = subtotal /\ Discount(t) = discount
  BY <1>1, <1>2, <1>4 DEF Subtotal, Discount
<1>6. subtotal \in Int /\ discount <= subtotal
  <2> HIDE DEF gross
  <2>1. discount * 10000 <= gross
    BY <1>1 DEF gross
  <2>2. QED
    BY <1>1, <1>3, <2>1, HalfUpInt, HalfUpOrder
<1> HIDE DEF subtotal
<1>7. Taxable(t) = subtotal - discount /\ subtotal - discount \in Nat
  <2>1. Taxable(t) = subtotal - discount
    BY <1>1, <1>2, <1>5 DEF Taxable, Discount
  <2>2. QED
    BY <1>1, <1>6, <2>1
<1>8. vat \in Int /\ 0 <= vat /\ vat <= subtotal
  <2> DEFINE taxable == subtotal - discount
  <2>1. taxable \in Nat /\ taxable \in Int /\ taxable <= subtotal
    BY <1>1, <1>6, <1>7
  <2> HIDE DEF taxable
  <2>2. taxable * rate \in Nat /\ taxable * rate <= taxable * 10000
    BY <1>1, <2>1, ProductsOfNaturals, PartOfNatural
  <2> DEFINE product == taxable * rate
  <2>3. product \in Int /\ 0 * 10000 <= product /\ 0 <= product /\ product <= taxable * 10000
    BY <1>1, <2>2
  <2>4. vat = HalfUp(product, 10000)
    BY <1>1 DEF taxable
  <2> HIDE DEF product, vat
  <2>5. HalfUp(product, 10000) <= taxable
    BY <1>1, <2>1, <2>3, HalfUpBelow
  <2>6. vat \in Int /\ 0 <= vat
    BY <1>1, <2>3, <2>4, HalfUpInt, HalfUpOrder
  <2>7. QED
    BY <1>1, <1>6, <2>1, <2>4, <2>5, <2>6
<1>9. DerivedVat(t) = vat /\ CountedVat(t) = vat /\ LineVat(t) = vat
  BY <1>1, <1>2, <1>7 DEF DerivedVat, CountedVat, LineVat
<1> HIDE DEF vat
<1>10. LineTotal(t) = subtotal - discount + vat
  BY <1>1, <1>2, <1>7, <1>9 DEF LineTotal
<1> DEFINE l == BuildItem(t)
<1>11. /\ l.quantity = quantity /\ l.unit_price = price /\ l.discount = discount
      /\ l.vat = vat /\ l.total = subtotal - discount + vat
  BY <1>1, <1>2, <1>7, <1>9 DEF BuildItem
<1> HIDE DEF l
<1>12. HalfUp(gross + (vat - discount) * 10000, 10000) = subtotal + (vat - discount)
  <2> HIDE DEF gross
  <2>1. discount * 10000 <= gross
    BY <1>1 DEF gross
  <2> DEFINE v == vat - discount
  <2>2. v \in Int /\ gross + v * 10000 >= 0
    BY <1>1, <1>3, <1>8, <2>1
  <2> HIDE DEF v
  <2>3. HalfUp(gross + v * 10000, 10000) = HalfUp(gross, 10000) + v
    BY <1>1, <1>3, <2>2, HalfUpShift
  <2>4. QED
    BY <1>1, <2>3 DEF subtotal, v
<1>13. /\ l.total = HalfUp(gross + (vat - discount) * 10000, 10000)
       /\ gross = l.unit_price * l.quantity
  BY <1>1, <1>6, <1>8, <1>11, <1>12
<1>14. l.discount * 10000 <= l.unit_price * l.quantity
  BY <1>1, <1>11
<1>15. LET x == BuildItem(t)
       IN /\ x.discount = Discount(t) /\ x.vat = CountedVat(t) /\ x.total = LineTotal(t)
          /\ x.discount * 10000 <= x.unit_price * x.quantity
          /\ x.total = HalfUp(x.unit_price * x.quantity + (x.vat - x.discount) * 10000, 10000)
  <2> HIDE DEF gross
  <2>1. QED
    BY <1>1, <1>5, <1>9, <1>10, <1>11, <1>13, <1>14 DEF l
<1>16. QED
  BY <1>1, <1>5, <1>6, <1>8, <1>9, <1>10, <1>15 DEF Derived

LEMMA RowIsDerived ==
  ASSUME Shape, step # "file", NEW n \in DOMAIN rows, Clean(n), ~States(n)
  PROVE  Derived(Item(Read(n)))
<1> DEFINE r == Read(n)
           t == Item(r)
           amounts == {"unit_price", "quantity", "item_discount_amount", "vat_rate"}
<1>1. amounts \subseteq DOMAIN r /\ amounts \subseteq ItemFields
  <2>1. amounts \subseteq DOMAIN Default
    BY DEF Default
  <2>2. DOMAIN Default \subseteq DOMAIN Read(n)
    BY ReadIs
  <2>3. QED
    BY <2>1, <2>2 DEF ItemFields, MoneyFields
<1>2. \A f \in amounts : r[f] \in Int
  BY <1>1, AmountRead DEF MoneyFields
<1>3. \A f \in amounts : \A d : Get(r, f, d) = r[f] /\ Get(t, f, d) = r[f]
  <2>1. ASSUME NEW f \in amounts, NEW d PROVE Get(r, f, d) = r[f] /\ Get(Item(r), f, d) = Get(r, f, d)
    <3>1. Get(r, f, d) = r[f]
      BY <1>1 DEF Get
    <3> HIDE DEF r
    <3>2. QED
      BY <1>1, <3>1, ItemIs
  <2> HIDE DEF r
  <2>2. QED
    BY <2>1
<1>4. ASSUME NEW f \in {"vat_amount", "line_total"}, NEW d PROVE Get(t, f, d) = d
  <2>1. f \in ItemFields /\ f \in MoneyFields /\ f \notin DOMAIN Default
    BY DEF ItemFields, MoneyFields, Default
  <2>2. ~Stated(n, f)
    BY DEF States
  <2>3. f \notin DOMAIN Read(n)
    BY <2>1, <2>2, AmountRead
  <2>4. f \notin DOMAIN t
    BY <2>1, <2>3, ItemIs
  <2> HIDE DEF t
  <2>5. QED
    BY <2>4 DEF Get
<1>5. \A f \in amounts : f \notin OutOfRange(r)
  <2>1. \A f \in OutOfRange(r) : Error(n, f, "INVALID") \in ValidateRow(n, r)
    BY DEF ValidateRow
  <2>2. ValidateRow(n, r) = {}
    BY DEF Clean
  <2>3. QED
    BY <2>1, <2>2
<1> DEFINE price == r["unit_price"]
           quantity == r["quantity"]
           discount == r["item_discount_amount"]
           rate == r["vat_rate"]
<1>6. price \in Int /\ quantity \in Int /\ discount \in Int /\ rate \in Int
  BY <1>2
<1>7. Gross(r) = price * quantity
  BY <1>3 DEF Gross
<1>8. ~(discount < 0) /\ ~(discount * 10000 > Gross(r)) /\ rate \in 0..10000
  <2>1. Get(r, "item_discount_amount", 0) = discount /\ Get(r, "vat_rate", 0) = rate
    BY <1>3
  <2> HIDE DEF r, discount, rate
  <2>2. /\ "item_discount_amount" \notin OutOfRange(r) => ~(discount < 0) /\ ~(discount * 10000 > Gross(r))
        /\ "vat_rate" \notin OutOfRange(r) => rate \in 0..10000
    BY <2>1 DEF OutOfRange
  <2>3. QED
    BY <1>5, <2>2
<1>9. \A d : /\ Get(t, "unit_price", d) = price /\ Get(t, "quantity", d) = quantity
             /\ Get(t, "item_discount_amount", d) = discount
             /\ Get(t, "vat_rate", d) = rate
             /\ Get(t, "vat_amount", d) = d /\ Get(t, "line_total", d) = d
  BY <1>3, <1>4
<1> HIDE DEF t, price, quantity, discount, rate
<1>10. rate \in 0..10000
  BY <1>8
<1>11. 0 <= discount /\ discount * 10000 <= price * quantity
  <2> DEFINE gross == price * quantity
  <2>1. gross \in Int /\ Gross(r) = gross
    BY <1>6, <1>7
  <2> HIDE DEF gross, r
  <2>2. discount * 10000 <= gross /\ 0 <= discount
    BY <1>6, <1>8, <2>1
  <2>3. QED
    BY <2>2 DEF gross
<1>12. Derived(t)
  <2>1. Amounts(t, price, quantity, discount, rate)
    BY <1>6, <1>9, <1>10, <1>11 DEF Amounts
  <2>2. QED
    BY <2>1, DerivedAmounts
<1>13. QED
  BY <1>12 DEF t

(***************************************************************************)
(* What a row states as text is read as it is, and what it does not state  *)
(* is the default; neither goes beyond its column, but for the row's own   *)
(* cause.                                                                  *)
(***************************************************************************)
LEMMA TextRead ==
  ASSUME NEW n, Clean(n), NEW f \in DOMAIN Read(n), f \notin MoneyFields
  PROVE  /\ f \in Fields
         /\ Stated(n, f) => Read(n)[f] = Cells(n)[f]
         /\ ~Stated(n, f) => f \in DOMAIN Default /\ Read(n)[f] = Default[f]
<1>1. f \in Fields
  BY ReadIs DEF Missing
<1>2. f \in Missing(Cells(n)) <=> ~Stated(n, f)
  BY <1>1 DEF Missing, Stated
<1>3. CASE f \in Missing(Cells(n))
  BY <1>1, <1>2, <1>3, ReadIs
<1>4. CASE f \notin Missing(Cells(n))
  BY <1>1, <1>2, <1>4, ReadIs, StatedField DEF Parsed
<1>5. QED
  BY <1>3, <1>4

LEMMA HeaderFits ==
  ASSUME NEW n, Clean(n), ~Beyond(n), NEW f \in HeaderFields, f \in DOMAIN Read(n)
  PROVE  <<f, Read(n)[f]>> \notin Unstorable
<1>1. f \notin MoneyFields
  BY DEF HeaderFields, MoneyFields
<1>2. CASE Stated(n, f)
  <2>1. f \in Fields /\ Read(n)[f] = Cells(n)[f]
    BY <1>1, <1>2, TextRead
  <2>2. <<f, Cells(n)[f]>> \notin Unstorable
    BY <1>2, <2>1 DEF Beyond
  <2>3. QED
    BY <2>1, <2>2
<1>3. CASE ~Stated(n, f)
  <2>1. f \in DOMAIN Default /\ Read(n)[f] = Default[f]
    BY <1>1, <1>3, TextRead
  <2>2. f \in {"invoice_type", "currency"}
    BY <2>1 DEF Default, HeaderFields
  <2>3. <<f, Default[f]>> \notin Unstorable
    BY <2>2, ColumnsAssumption
  <2>4. QED
    BY <2>1, <2>3
<1>4. QED
  BY <1>2, <1>3

LEMMA RowFits ==
  ASSUME Shape, step # "file", NEW n \in DOMAIN rows, Clean(n), ~Beyond(n)
  PROVE  Fits(Item(Read(n)))
<1> DEFINE r == Read(n)
           t == Item(r)
           l == BuildItem(t)
<1>1. /\ {"item_description", "quantity", "unit_price"} \subseteq DOMAIN Read(n)
      /\ {"item_description", "quantity", "unit_price"} \subseteq ItemFields
      /\ "unit_price" \in MoneyFields
      /\ "item_description" \notin MoneyFields /\ "quantity" \notin MoneyFields
      /\ "item_description" \notin DOMAIN Default
      /\ Default["quantity"] = 10000 /\ Default["unit_price"] = 0
  <2>1. {"item_description", "quantity", "unit_price"} \subseteq Required \union DOMAIN Default
    BY DEF Required, Default
  <2>2. Required \union DOMAIN Default \subseteq DOMAIN Read(n)
    BY ReadIs
  <2>3. QED
    BY <2>1, <2>2 DEF ItemFields, MoneyFields, Default
<1>2. /\ l.description = Read(n)["item_description"]
      /\ l.quantity = Read(n)["quantity"]
      /\ l.unit_price = Read(n)["unit_price"]
  <2>1. /\ l.description = t["item_description"]
        /\ l.quantity = Get(t, "quantity", 10000)
        /\ l.unit_price = Get(t, "unit_price", 0)
    BY DEF BuildItem
  <2>2. ASSUME NEW f \in {"item_description", "quantity", "unit_price"}
        PROVE  t[f] = Read(n)[f] /\ \A d : Get(t, f, d) = Read(n)[f]
    BY <1>1 DEF Item, Restrict, Get
  <2> HIDE DEF l, t
  <2>3. QED
    BY <2>1, <2>2
<1>3. <<"item_description", Read(n)["item_description"]>> \notin Unstorable
  <2>1. /\ "item_description" \in Fields /\ Stated(n, "item_description")
        /\ Read(n)["item_description"] = Cells(n)["item_description"]
    BY <1>1, TextRead
  <2>2. QED
    BY <2>1 DEF Beyond
<1>4. Read(n)["quantity"] <= MaxQuantity
  <2>1. Read(n)["quantity"] \in Int
    BY <1>1, AmountRead
  <2>2. CASE Stated(n, "quantity")
    <3>1. ~(Read(n)["quantity"] > MaxQuantity)
      BY <1>1, <2>2, TextRead DEF Beyond
    <3>2. QED
      BY <2>1, <3>1, ColumnsAssumption
  <2>3. CASE ~Stated(n, "quantity")
    BY <1>1, <2>3, TextRead, ColumnsAssumption
  <2>4. QED
    BY <2>2, <2>3
<1>5. Read(n)["unit_price"] <= MaxMoney
  <2>1. /\ Read(n)["unit_price"] \in Int
        /\ IF Stated(n, "unit_price")
             THEN Read(n)["unit_price"] = HalfUp(Cells(n)["unit_price"], 100)
             ELSE Read(n)["unit_price"] = Default["unit_price"]
    BY <1>1, AmountRead
  <2>2. Stated(n, "unit_price") => ~(Read(n)["unit_price"] > MaxMoney)
    BY <2>1 DEF Beyond
  <2>3. QED
    BY <1>1, <2>1, <2>2, ColumnsAssumption
<1>6. QED
  BY <1>2, <1>3, <1>4, <1>5 DEF Fits

(***************************************************************************)
(* An invoice whose lines are all derived and fit their columns, and whose *)
(* sums fit, passes the table's constraints.                               *)
(***************************************************************************)
LEMMA LineFits ==
  ASSUME NEW t, Derived(t), Fits(t), Subtotal(t) <= MaxMoney, LineTotal(t) <= MaxMoney
  PROVE  LineChecks(BuildItem(t))
<1> DEFINE l == BuildItem(t)
<1>1. /\ l.discount = Discount(t) /\ l.vat = CountedVat(t) /\ l.total = LineTotal(t)
      /\ l.discount * 10000 <= l.unit_price * l.quantity
      /\ l.total = HalfUp(l.unit_price * l.quantity + (l.vat - l.discount) * 10000, 10000)
  BY DEF Derived
<1>2. /\ <<"item_description", l.description>> \notin Unstorable
      /\ l.quantity <= MaxQuantity /\ l.unit_price <= MaxMoney
  BY DEF Fits
<1>3. /\ Subtotal(t) \in Int /\ Discount(t) \in Int /\ CountedVat(t) \in Int
      /\ 0 <= Discount(t) /\ Discount(t) <= Subtotal(t)
      /\ 0 <= CountedVat(t) /\ CountedVat(t) <= Subtotal(t)
      /\ LineTotal(t) = Subtotal(t) - Discount(t) + CountedVat(t)
  BY DEF Derived
<1> HIDE DEF l
<1>4. l.discount <= MaxMoney /\ l.vat <= MaxMoney /\ l.total <= MaxMoney
      /\ l.vat >= 0 /\ l.total >= 0
  <2>1. Subtotal(t) <= MaxMoney /\ LineTotal(t) <= MaxMoney /\ MaxMoney \in Int
    BY ColumnsAssumption
  <2>2. Discount(t) <= MaxMoney /\ CountedVat(t) <= MaxMoney /\ LineTotal(t) >= 0
    BY <1>3, <2>1
  <2>3. QED
    BY <1>1, <1>3, <2>1, <2>2
<1>5. \A amount \in {l.unit_price, l.discount, l.vat, l.total} : amount <= MaxMoney
  BY <1>2, <1>4
<1>6. LineChecks(l)
  BY <1>1, <1>2, <1>4, <1>5 DEF LineChecks
<1>7. QED
  BY <1>6 DEF l

LEMMA DerivedChecks ==
  ASSUME NEW g, IsFiniteSet(DOMAIN g.items),
         \A k \in DOMAIN g.items : Derived(g.items[k]) /\ Fits(g.items[k]),
         \A f \in DOMAIN g.values : <<f, g.values[f]>> \notin Unstorable,
         ~(BuildInvoice(g).subtotal > MaxMoney), ~(BuildInvoice(g).total > MaxMoney)
  PROVE  InvoiceChecks(BuildInvoice(g))
<1> DEFINE D == DOMAIN g.items
           a == [k \in D |-> Subtotal(g.items[k])]
           b == [k \in D |-> Discount(g.items[k])]
           c == [k \in D |-> CountedVat(g.items[k])]
           d == [k \in D |-> LineTotal(g.items[k])]
           inv == BuildInvoice(g)
<1>1. /\ inv.lines = [k \in D |-> BuildItem(g.items[k])]
      /\ inv.subtotal = Sum(a) /\ inv.discount = Sum(b)
      /\ inv.vat = Sum(c) /\ inv.total = Sum(d)
      /\ inv.values = g.values
  BY DEF BuildInvoice, Discount, LineTotal
<1>2. ASSUME NEW k \in D
      PROVE  /\ a[k] = Subtotal(g.items[k]) /\ d[k] = LineTotal(g.items[k])
             /\ a[k] \in Int /\ b[k] \in Int /\ c[k] \in Int /\ d[k] \in Int
             /\ 0 <= b[k] /\ b[k] <= a[k] /\ 0 <= c[k] /\ c[k] <= a[k]
             /\ d[k] = a[k] - b[k] + c[k]
  <2>1. Derived(g.items[k])
    OBVIOUS
  <2>2. a[k] = Subtotal(g.items[k]) /\ b[k] = Discount(g.items[k])
        /\ c[k] = CountedVat(g.items[k]) /\ d[k] = LineTotal(g.items[k])
    OBVIOUS
  <2> HIDE DEF a, b, c, d
  <2>3. QED
    BY <2>1, <2>2 DEF Derived
<1>3. /\ DOMAIN a = D /\ DOMAIN b = D /\ DOMAIN c = D /\ DOMAIN d = D
      /\ a = [k \in D |-> a[k]] /\ b = [k \in D |-> b[k]]
      /\ c = [k \in D |-> c[k]] /\ d = [k \in D |-> d[k]]
  OBVIOUS
<1>4. DOMAIN inv.lines = D /\ \A k \in D : inv.lines[k] = BuildItem(g.items[k])
  BY <1>1
<1>5. IsFiniteSet(D) /\ \A k \in D : Derived(g.items[k]) /\ Fits(g.items[k])
  OBVIOUS
<1>6. \A f \in DOMAIN inv.values : <<f, inv.values[f]>> \notin Unstorable
  BY <1>1
<1>7. ~(inv.subtotal > MaxMoney) /\ ~(inv.total > MaxMoney)
  OBVIOUS
<1> HIDE DEF a, b, c, d, D, inv
<1>8. a \in [D -> Int] /\ b \in [D -> Int] /\ c \in [D -> Int] /\ d \in [D -> Int]
  BY <1>2, <1>3
<1>9. Ordered(D, a, b, c, d)
  BY <1>2 DEF Ordered
<1>10. /\ Sum(a) \in Int /\ Sum(b) \in Int /\ Sum(c) \in Int /\ Sum(d) \in Int
       /\ Sum(b) <= Sum(a) /\ Sum(c) >= 0 /\ Sum(c) <= Sum(a) /\ Sum(d) >= 0
       /\ Sum(d) = Sum(a) - Sum(b) + Sum(c)
  BY <1>5, <1>8, <1>9, SumsOf
<1>11. /\ inv.subtotal <= MaxMoney /\ inv.discount <= MaxMoney
       /\ inv.vat <= MaxMoney /\ inv.total <= MaxMoney
  BY <1>1, <1>7, <1>10, ColumnsAssumption
<1>12. \A amount \in {inv.subtotal, inv.discount, inv.vat, inv.total} : amount <= MaxMoney
  BY <1>11
<1>13. ASSUME NEW k \in D PROVE LineChecks(BuildItem(g.items[k]))
  <2>1. \A x \in D : 0 <= a[x] /\ 0 <= d[x]
    BY <1>2
  <2>2. a[k] <= Sum(a) /\ d[k] <= Sum(d)
    BY <1>5, <1>8, <2>1, EachInSum
  <2>3. a[k] <= MaxMoney /\ d[k] <= MaxMoney
    BY <1>1, <1>2, <1>10, <1>11, <2>2, ColumnsAssumption
  <2>4. Subtotal(g.items[k]) <= MaxMoney /\ LineTotal(g.items[k]) <= MaxMoney
    BY <1>2, <2>3
  <2>5. QED
    BY <1>5, <2>4, LineFits
<1>14. \A k \in DOMAIN inv.lines : LineChecks(inv.lines[k])
  BY <1>4, <1>13
<1>15. InvoiceChecks(inv)
  BY <1>1, <1>6, <1>10, <1>12, <1>14 DEF InvoiceChecks
<1>16. QED
  BY <1>15 DEF inv

(***************************************************************************)
(* Why the database refuses an invoice.  A group bears the number and the  *)
(* UUID of its first row, and nothing that none of its rows was read as;   *)
(* those that are accepted are spelt differently from each other, and are  *)
(* not what the importer has looked up.                                    *)
(***************************************************************************)
FromRows(g) ==
  \A f \in DOMAIN g.values :
    f \in HeaderFields /\ \E n \in RowsOf(g) : f \in DOMAIN Read(n) /\ g.values[f] = Read(n)[f]

IsNamed(g) ==
  /\ g.uuid = Get(Read(g.rows[1]), "uuid", NONE)
  /\ g.number = Read(g.rows[1])["invoice_number"]
  /\ \A e \in g.errors : e.code # "FILE_ERROR"

NamesInv == \A k \in DOMAIN groups : IsNamed(groups[k]) /\ FromRows(groups[k])

Number(g) == g.values["invoice_number"]

SeparateInv ==
  /\ \A k \in DOMAIN accepted : ~Exists(accepted[k])
  /\ \A k, l \in DOMAIN accepted : Number(accepted[k]) = Number(accepted[l]) => k = l

RefusalInv == NamesInv /\ SeparateInv /\ RefusedForCause

Caused(e) == \E k \in DOMAIN accepted : accepted[k].rows[1] = e.row /\ Cause(accepted[k])

LEMMA CausesAre == RefusedForCause <=> \A e \in errors : e.code = "FILE_ERROR" => Caused(e)
BY DEF RefusedForCause, Caused

\* What is accepted stays, and so do the invoices that are stored.
Grows ==
  /\ DOMAIN accepted \subseteq DOMAIN accepted'
  /\ \A k \in DOMAIN accepted : accepted'[k] = accepted[k]
  /\ stored \subseteq stored'

LEMMA CauseStays ==
  ASSUME UNCHANGED <<file, mapping>>, stored \subseteq stored'
  PROVE  \A g : Cause(g) => Cause(g)'
<1> SUFFICES ASSUME NEW g, Cause(g) PROVE Cause(g)'
  OBVIOUS
<1>1. \A n : Cells(n)' = Cells(n)
  BY DEF file, Cells
<1>2. \A n, f : Stated(n, f)' = Stated(n, f)
  BY <1>1 DEF Stated
<1>3. \A n : Beyond(n)' = Beyond(n)
  BY <1>1, <1>2 DEF Beyond
<1> HIDE DEF Cells, Stated, Beyond
<1> DEFINE own    == {g.rows[k] : k \in DOMAIN g.rows}
           first  == g.rows[1]
           number == Cells(first)["invoice_number"]
<1>4. CASE \/ \E n \in own : Stated(n, "vat_amount") \/ Stated(n, "line_total")
           \/ \E n \in own : Beyond(n)
           \/ BuildInvoice(g).subtotal > MaxMoney \/ BuildInvoice(g).total > MaxMoney
  BY <1>2, <1>3, <1>4 DEF Cause
<1>5. CASE \/ /\ Stated(first, "uuid")
              /\ \E d \in db : d.mine /\ SortsAs(d.number) = SortsAs(number)
           \/ \E n \in own, d \in db : /\ Stated(n, "uuid") /\ d.uuid = Cells(n)["uuid"]
                                       /\ d.mine => ~Stated(first, "uuid")
           \/ \E inv \in stored : inv.number # number /\ SortsAs(inv.number) = SortsAs(number)
  BY <1>1, <1>2, <1>5 DEF Cause, file
<1>6. QED
  BY <1>4, <1>5 DEF Cause

\* Errors of other kinds, and those with a cause, may be added.
LEMMA CausesStay ==
  ASSUME RefusedForCause, UNCHANGED <<file, mapping>>, Grows,
         \A e \in errors' : e \in errors \/ e.code # "FILE_ERROR" \/ Caused(e)
  PROVE  RefusedForCause'
<1>1. ASSUME NEW e \in errors', e.code = "FILE_ERROR"
      PROVE  Caused(e)'
  <2>1. Caused(e)
    BY <1>1, CausesAre
  <2>2. PICK k \in DOMAIN accepted : accepted[k].rows[1] = e.row /\ Cause(accepted[k])
    BY <2>1 DEF Caused
  <2>3. k \in DOMAIN accepted' /\ accepted'[k] = accepted[k] /\ stored \subseteq stored'
    BY DEF Grows
  <2>4. Cause(accepted[k])'
    BY <2>2, <2>3, CauseStays
  <2>5. QED
    BY <2>2, <2>3, <2>4 DEF Caused
<1>2. RefusedForCause' <=> \A e \in errors' : e.code = "FILE_ERROR" => Caused(e)'
  BY DEF RefusedForCause, Caused
<1>3. QED
  BY <1>1, <1>2

LEMMA NamesStay ==
  ASSUME NamesInv, UNCHANGED <<file, mapping, groups>>
  PROVE  NamesInv'
<1>1. \A n : Read(n)' = Read(n)
  BY DEF Read, Cells, file
<1>2. \A g : (IsNamed(g)' <=> IsNamed(g)) /\ (FromRows(g)' <=> FromRows(g))
  BY <1>1 DEF IsNamed, FromRows, RowsOf
<1>3. QED
  BY <1>2 DEF NamesInv

LEMMA SeparateStays ==
  ASSUME SeparateInv, UNCHANGED <<file, accepted>>
  PROVE  SeparateInv'
BY DEF SeparateInv, Exists, Number, file

LEMMA SameGrows ==
  ASSUME UNCHANGED <<accepted, stored>>
  PROVE  Grows
BY DEF Grows

\* Where nothing was grouped, and nobody blamed for the database's refusal.
LEMMA NothingRefused ==
  ASSUME groups = <<>>, accepted = <<>>, \A e \in errors : e.code # "FILE_ERROR"
  PROVE  RefusalInv
BY EmptyFacts DEF RefusalInv, NamesInv, SeparateInv, RefusedForCause

LEMMA NothingRefusedNext ==
  (groups = <<>> /\ accepted = <<>> /\ \A e \in errors : e.code # "FILE_ERROR")' => RefusalInv'
<1>1. (groups = <<>> /\ accepted = <<>> /\ \A e \in errors : e.code # "FILE_ERROR") => RefusalInv
  BY NothingRefused
<1>2. QED
  BY <1>1, PTL

LEMMA RefusalReading ==
  ASSUME IInv, RefusalInv, ReadRow \/ MapHeaders \/ NormalizeRows
  PROVE  RefusalInv'
<1>1. CASE ReadRow \/ MapHeaders
  <2>1. Shape /\ Main /\ step = "file"
    BY <1>1, FileNotRefused DEF IInv, ReadRow, MapHeaders
  <2>2. groups = <<>> /\ accepted = <<>> /\ errors = {}
    BY <2>1, FileIsStart DEF Start, Nothing
  <2>3. groups' = <<>> /\ accepted' = <<>>
    BY <1>1, <2>2 DEF ReadRow, MapHeaders
  <2>4. \A e \in errors' : e.code # "FILE_ERROR"
    <3>1. CASE ReadRow
      BY <2>2, <3>1 DEF ReadRow
    <3>2. CASE MapHeaders
      BY <3>2 DEF MapHeaders, Error
    <3>3. QED
      BY <1>1, <3>1, <3>2
  <2>5. QED
    BY <2>3, <2>4, NothingRefusedNext
<1>2. CASE NormalizeRows
  <2>1. UNCHANGED <<file, mapping, groups, accepted, stored>>
    BY <1>2 DEF NormalizeRows
  <2>2. \A n, v, t : \A e \in FieldErrors(n, v) \union ValidateRow(n, t) : e.code # "FILE_ERROR"
    BY DEF FieldErrors, ValidateRow, Error
  <2>3. \A e \in errors' : e \in errors \/ e.code # "FILE_ERROR"
    <3>1. \/ errors' = errors
          \/ errors' = errors \union (FieldErrors(i, MapRow(mapping, rows[i])) \union
                         ValidateRow(i, NormalizeRow(MapRow(mapping, rows[i]))))
      BY <1>2 DEF NormalizeRows
    <3>2. QED
      BY <2>2, <3>1
  <2>4. NamesInv' /\ SeparateInv' /\ RefusedForCause'
    BY <2>1, <2>3, NamesStay, SeparateStays, SameGrows, CausesStay DEF RefusalInv
  <2>5. QED
    BY <2>4 DEF RefusalInv
<1>3. QED
  BY <1>1, <1>2

LEMMA AddRowNames ==
  ASSUME NEW g, DOMAIN g = GroupFields, IsSeq(g.rows), NEW n, NEW t,
         \A e \in g.errors : e.code # "FILE_ERROR"
  PROVE  /\ AddRow(g, n, t).uuid = g.uuid /\ AddRow(g, n, t).number = g.number
         /\ AddRow(g, n, t).rows[1] = IF g.rows = <<>> THEN n ELSE g.rows[1]
         /\ \A e \in AddRow(g, n, t).errors : e.code # "FILE_ERROR"
<1> DEFINE h == AddRow(g, n, t)
<1>1. h.rows = Append(g.rows, n) /\ h.errors = g.errors \union OtherErrors(g, n, t)
  BY AddRowIs
<1>2. h.uuid = g.uuid /\ h.number = g.number
  BY DEF AddRow, GroupFields
<1> HIDE DEF h
<1>3. h.rows[1] = IF g.rows = <<>> THEN n ELSE g.rows[1]
  <2>1. CASE g.rows = <<>>
    BY <1>1, <2>1, EmptyFacts, AppendFacts
  <2>2. CASE g.rows # <<>>
    <3>1. 1 \in DOMAIN g.rows
      BY <2>2 DEF IsSeq
    <3>2. QED
      BY <1>1, <2>2, <3>1, AppendFacts
  <2>3. QED
    BY <2>1, <2>2
<1>4. \A e \in h.errors : e.code # "FILE_ERROR"
  <2>1. \A e \in OtherErrors(g, n, t) : e.code # "FILE_ERROR"
    BY DEF OtherErrors, Error
  <2>2. QED
    BY <1>1, <2>1
<1>5. QED
  BY <1>2, <1>3, <1>4 DEF h

LEMMA AddRowFrom ==
  ASSUME NEW g, DOMAIN g = GroupFields, IsSeq(g.rows), FromRows(g), NEW n
  PROVE  FromRows(AddRow(g, n, Read(n)))
<1> DEFINE t == Read(n)
           h == AddRow(g, n, t)
<1>1. h.rows = Append(g.rows, n) /\ h.values = Merged(g, t)
  BY AddRowIs
<1> HIDE DEF h
<1>2. /\ DOMAIN Header(t) = HeaderFields \intersect DOMAIN t
      /\ \A f \in DOMAIN Header(t) : Header(t)[f] = t[f]
  BY HeaderIs
<1> HIDE DEF t
<1>3. n \in RowsOf(h) /\ RowsOf(g) \subseteq RowsOf(h)
  BY <1>1, SeqFacts, AppendFacts DEF RowsOf
<1>4. SUFFICES ASSUME NEW f \in DOMAIN h.values
               PROVE  /\ f \in HeaderFields
                      /\ \E m \in RowsOf(h) : f \in DOMAIN Read(m) /\ h.values[f] = Read(m)[f]
  BY DEF FromRows, h, t
<1>5. /\ f \in DOMAIN g.values \union DOMAIN Header(t)
      /\ h.values[f] = IF f \in DOMAIN g.values THEN g.values[f] ELSE Header(t)[f]
  BY <1>1 DEF Merged
<1>6. CASE f \in DOMAIN g.values
  BY <1>3, <1>5, <1>6 DEF FromRows
<1>7. CASE f \notin DOMAIN g.values
  <2>1. f \in HeaderFields /\ f \in DOMAIN t /\ h.values[f] = t[f]
    BY <1>2, <1>5, <1>7
  <2>2. QED
    BY <1>3, <2>1 DEF t
<1>8. QED
  BY <1>6, <1>7

LEMMA GroupStaysNamed ==
  ASSUME NEW g, IsGroup(g), IsNamed(g), FromRows(g), NEW n, NEW t, t = Read(n)
  PROVE  IsNamed(AddRow(g, n, t)) /\ FromRows(AddRow(g, n, t))
<1>1. DOMAIN g = GroupFields /\ IsSeq(g.rows) /\ g.rows # <<>>
  BY DEF IsGroup, IsPart
<1>2. \A e \in g.errors : e.code # "FILE_ERROR"
  BY DEF IsNamed
<1>3. IsNamed(AddRow(g, n, t))
  BY <1>1, <1>2, AddRowNames DEF IsNamed
<1>4. FromRows(AddRow(g, n, t))
  BY <1>1, AddRowFrom
<1>5. QED
  BY <1>3, <1>4

LEMMA NewGroupNamed ==
  ASSUME NEW n
  PROVE  /\ IsNamed(AddRow(NewGroup(Read(n)), n, Read(n)))
         /\ FromRows(AddRow(NewGroup(Read(n)), n, Read(n)))
<1> DEFINE g == NewGroup(Read(n))
<1>1. /\ DOMAIN g = GroupFields /\ g.uuid = Get(Read(n), "uuid", NONE)
      /\ g.number = Read(n)["invoice_number"] /\ g.rows = <<>> /\ g.errors = {}
      /\ g.values = <<>>
  BY DEF NewGroup, GroupFields
<1> HIDE DEF g
<1>2. IsSeq(g.rows) /\ \A e \in g.errors : e.code # "FILE_ERROR"
  BY <1>1, EmptyFacts
<1>3. IsNamed(AddRow(g, n, Read(n)))
  BY <1>1, <1>2, AddRowNames DEF IsNamed
<1>4. FromRows(g)
  BY <1>1, EmptyFacts DEF FromRows
<1>5. FromRows(AddRow(g, n, Read(n)))
  BY <1>1, <1>2, <1>4, AddRowFrom
<1>6. QED
  BY <1>3, <1>5 DEF g

LEMMA RefusalGrouping ==
  ASSUME IInv, RefusalInv, GroupRows
  PROVE  RefusalInv'
<1>1. Shape /\ Main /\ step = "groups"
  BY FileNotRefused DEF IInv, GroupRows
<1>2. UNCHANGED <<file, mapping, accepted, errors, stored>>
  BY DEF GroupRows
<1>3. SeparateInv' /\ RefusedForCause'
  BY <1>2, SeparateStays, SameGrows, CausesStay DEF RefusalInv
<1>4. \A k \in DOMAIN groups' : IsNamed(groups'[k]) /\ FromRows(groups'[k])
  <2>1. CASE groups' = groups
    BY <2>1 DEF RefusalInv, NamesInv
  <2>2. CASE ~(i > Len(typed))
    <3> DEFINE n == typed[i].row
               t == typed[i].values
               at == {k \in DOMAIN groups : groups[k].key = Key(t)}
    <3>1. Takes(n, t)
      BY <2>2 DEF GroupRows, Takes
    <3>2. t = Read(n)
      <4>1. i \in DOMAIN typed
        BY <1>1, <2>2, SeqFacts DEF Shape
      <4>2. QED
        BY <1>1, <4>1 DEF Main, RowsRead
    <3>3. /\ IsSeq(groups) /\ \A k \in DOMAIN groups :
                              IsGroup(groups[k]) /\ IsNamed(groups[k]) /\ FromRows(groups[k])
      BY <1>1 DEF Shape, Main, Grouped, RefusalInv, NamesInv
    <3> HIDE DEF n, t
    <3>4. CASE at = {}
      <4> DEFINE h == AddRow(NewGroup(t), n, t)
      <4>1. groups' = Append(groups, h) /\ IsNamed(h) /\ FromRows(h)
        BY <3>1, <3>2, <3>4, NewGroupNamed DEF Takes
      <4> HIDE DEF h
      <4>2. /\ DOMAIN groups' = 1..(Len(groups) + 1) /\ DOMAIN groups = 1..Len(groups)
            /\ \A k \in DOMAIN groups : groups'[k] = groups[k]
            /\ groups'[Len(groups) + 1] = h /\ Len(groups) \in Nat
        BY <3>3, <4>1, SeqFacts, AppendFacts
      <4>3. \A k \in DOMAIN groups' : k \in DOMAIN groups \/ k = Len(groups) + 1
        BY <4>2
      <4>4. QED
        BY <3>3, <4>1, <4>2, <4>3
    <3>5. CASE at # {}
      <4>1. PICK k0 \in at : groups' = [groups EXCEPT ![k0] = AddRow(@, n, t)]
        BY <3>1, <3>5 DEF Takes
      <4> DEFINE h == AddRow(groups[k0], n, t)
      <4>2. k0 \in DOMAIN groups /\ IsNamed(h) /\ FromRows(h)
        BY <3>2, <3>3, GroupStaysNamed
      <4>3. groups' = [groups EXCEPT ![k0] = h]
        BY <4>1
      <4> HIDE DEF h
      <4>4. DOMAIN groups' = DOMAIN groups /\ groups'[k0] = h
            /\ \A k \in DOMAIN groups \ {k0} : groups'[k] = groups[k]
        BY <4>2, <4>3
      <4>5. QED
        BY <3>3, <4>2, <4>4
    <3>6. QED
      BY <3>4, <3>5
  <2>3. QED
    BY <2>1, <2>2 DEF GroupRows
<1>5. NamesInv'
  <2>1. \A n : Read(n)' = Read(n)
    BY <1>2 DEF Read, Cells, file
  <2>2. \A g : (IsNamed(g)' <=> IsNamed(g)) /\ (FromRows(g)' <=> FromRows(g))
    BY <2>1 DEF IsNamed, FromRows, RowsOf
  <2>3. QED
    BY <1>4, <2>2 DEF NamesInv
<1>6. QED
  BY <1>3, <1>5 DEF RefusalInv

LEMMA ProblemsOfGroup ==
  ASSUME NEW g, IsNamed(g)
  PROVE  /\ \A e \in Problems(g) : e.code # "FILE_ERROR"
         /\ Problems(g) = {} => ~DuplicateIn(g, accepted) /\ ~Exists(g)
<1> DEFINE currency == IF g.values["currency"] \in ValidCurrencies
                         THEN {} ELSE {Error(g.rows[1], "currency", "INVALID")}
           twin == {Error(g.rows[1], "invoice_number", "DUPLICATE_IN_FILE")}
           field == IF g.uuid = NONE THEN "invoice_number" ELSE "uuid"
           known == {Error(g.rows[1], field, "DUPLICATE_IN_DB")}
<1>1. /\ ValidateGroup(g) = g.errors \union currency
      /\ Problems(g) = IF ValidateGroup(g) # {} THEN ValidateGroup(g)
                       ELSE IF DuplicateIn(g, accepted) THEN twin
                       ELSE IF Exists(g) THEN known ELSE {}
  BY DEF ValidateGroup, Problems
<1>2. \A e \in currency \union twin \union known : e.code # "FILE_ERROR"
  BY DEF Error
<1>3. twin # {} /\ known # {}
  OBVIOUS
<1>4. \A e \in g.errors : e.code # "FILE_ERROR"
  BY DEF IsNamed
<1> HIDE DEF currency, twin, known
<1>5. QED
  BY <1>1, <1>2, <1>3, <1>4

LEMMA RefusalChecking ==
  ASSUME IInv, RefusalInv, DetectDuplicates
  PROVE  RefusalInv'
<1>1. Shape /\ Main /\ step = "check"
  BY FileNotRefused DEF IInv, DetectDuplicates
<1>2. UNCHANGED <<file, mapping, groups, stored>>
  BY DEF DetectDuplicates
<1>3. CASE i > Len(groups)
  <2>1. UNCHANGED <<accepted, errors>>
    BY <1>3 DEF DetectDuplicates
  <2>2. QED
    BY <1>2, <2>1, NamesStay, SeparateStays, SameGrows, CausesStay DEF RefusalInv
<1>4. CASE ~(i > Len(groups))
  <2> DEFINE g == groups[i]
  <2>1. /\ errors' = errors \union Problems(g)
        /\ accepted' = IF Problems(g) = {} THEN Append(accepted, g) ELSE accepted
    BY <1>4 DEF DetectDuplicates
  <2>2. IsNamed(g)
    BY <1>1, <1>4, SeqFacts DEF Shape, RefusalInv, NamesInv
  <2>3. /\ \A e \in Problems(g) : e.code # "FILE_ERROR"
        /\ Problems(g) = {} => ~DuplicateIn(g, accepted) /\ ~Exists(g)
    BY <2>2, ProblemsOfGroup
  <2> HIDE DEF g
  <2>4. RefusedForCause'
    <3>1. \A k \in DOMAIN accepted : k \in DOMAIN accepted' /\ accepted'[k] = accepted[k]
      <4>1. IsSeq(accepted)
        BY <1>1 DEF Shape
      <4>2. accepted' = accepted \/ accepted' = Append(accepted, g)
        BY <2>1
      <4>3. QED
        BY <4>1, <4>2, SeqFacts, AppendFacts
    <3>2. Grows
      BY <1>2, <3>1 DEF Grows
    <3>3. QED
      BY <1>2, <2>1, <2>3, <3>2, CausesStay DEF RefusalInv
  <2>5. CASE Problems(g) # {}
    <3>1. accepted' = accepted
      BY <2>1, <2>5
    <3>2. QED
      BY <1>2, <2>4, <3>1, NamesStay, SeparateStays DEF RefusalInv
  <2>6. CASE Problems(g) = {}
    <3>1. accepted' = Append(accepted, g) /\ IsSeq(accepted)
      BY <1>1, <2>1, <2>6 DEF Shape
    <3>2. /\ DOMAIN accepted' = 1..(Len(accepted) + 1) /\ DOMAIN accepted = 1..Len(accepted)
          /\ \A k \in DOMAIN accepted : accepted'[k] = accepted[k]
          /\ accepted'[Len(accepted) + 1] = g /\ Len(accepted) \in Nat
      BY <3>1, SeqFacts, AppendFacts
    <3>3. \A k \in DOMAIN accepted' : k \in DOMAIN accepted \/ k = Len(accepted) + 1
      BY <3>2
    <3>4. \A k \in DOMAIN accepted : Number(accepted[k]) # Number(g)
      BY <2>3, <2>6 DEF DuplicateIn, Number
    <3>6. \A k \in DOMAIN accepted' : ~Exists(accepted'[k])
      BY <2>3, <2>6, <3>2, <3>3 DEF RefusalInv, SeparateInv
    <3>7. \A k, l \in DOMAIN accepted' : Number(accepted'[k]) = Number(accepted'[l]) => k = l
      <4>1. SUFFICES ASSUME NEW k \in DOMAIN accepted', NEW l \in DOMAIN accepted',
                            Number(accepted'[k]) = Number(accepted'[l])
                     PROVE  k = l
        OBVIOUS
      <4>2. CASE k \in DOMAIN accepted /\ l \in DOMAIN accepted
        BY <3>2, <4>1, <4>2 DEF RefusalInv, SeparateInv
      <4>3. CASE k \notin DOMAIN accepted \/ l \notin DOMAIN accepted
        BY <3>2, <3>3, <3>4, <4>1, <4>3
      <4>4. QED
        BY <4>2, <4>3
    <3>8. SeparateInv'
      <4>1. \A h : Exists(h)' <=> Exists(h)
        BY <1>2 DEF Exists, file
      <4>2. \A h : Number(h)' = Number(h)
        BY DEF Number
      <4>3. QED
        BY <3>6, <3>7, <4>1, <4>2 DEF SeparateInv
    <3>9. QED
      BY <1>2, <2>4, <3>8, NamesStay DEF RefusalInv
  <2>7. QED
    BY <2>5, <2>6
<1>5. QED
  BY <1>3, <1>4

(***************************************************************************)
(* The rows of an accepted invoice, and what it bears: the number of its   *)
(* first row, and a UUID that one of its rows states.                      *)
(***************************************************************************)
LEMMA AcceptedRows ==
  ASSUME Shape, Main, NamesInv, NEW k \in DOMAIN accepted
  PROVE  LET g == accepted[k]
         IN /\ IsGroup(g) /\ IsNamed(g) /\ FromRows(g) /\ g.errors = {}
            /\ g.rows[1] \in RowsOf(g)
            /\ \A n \in RowsOf(g) : n \in DOMAIN rows /\ Clean(n) /\ Key(Read(n)) = g.key
<1> DEFINE g == accepted[k]
<1>1. IsGroup(g) /\ g.errors = {} /\ \E j \in DOMAIN groups : g = groups[j]
  BY AcceptedIs
<1>2. IsNamed(g) /\ FromRows(g)
  BY <1>1 DEF NamesInv
<1>3. g.rows[1] \in RowsOf(g)
  BY <1>1, FirstRow
<1>4. \A n \in RowsOf(g) : n \in DOMAIN rows /\ Clean(n)
  BY <1>1, RowsAreRead
<1>5. \A n \in RowsOf(g) : Key(Read(n)) = g.key
  BY <1>1 DEF IsGroup, IsPart
<1>6. QED
  BY <1>1, <1>2, <1>3, <1>4, <1>5

Uuid(g) == Get(g.values, "uuid", NONE)

LEMMA BornUuid ==
  ASSUME Shape, Main, NamesInv, NEW k \in DOMAIN accepted, Uuid(accepted[k]) # NONE
  PROVE  /\ accepted[k].key = Uuid(accepted[k])
         /\ \E n \in RowsOf(accepted[k]) :
              Stated(n, "uuid") /\ Cells(n)["uuid"] = Uuid(accepted[k])
         /\ Stated(accepted[k].rows[1], "uuid") => accepted[k].uuid = Uuid(accepted[k])
<1> DEFINE g == accepted[k]
           n0 == g.rows[1]
<1>1. /\ IsNamed(g) /\ FromRows(g) /\ n0 \in RowsOf(g)
      /\ \A n \in RowsOf(g) : Clean(n) /\ Key(Read(n)) = g.key
  BY AcceptedRows
<1>2. "uuid" \in DOMAIN g.values /\ Uuid(g) = g.values["uuid"]
  BY DEF Uuid, Get
<1>3. Uuid(g) # NONE
  OBVIOUS
<1> HIDE DEF g, n0
<1>4. PICK n \in RowsOf(g) : "uuid" \in DOMAIN Read(n) /\ g.values["uuid"] = Read(n)["uuid"]
  BY <1>1, <1>2 DEF FromRows
<1>5. g.key = Uuid(g)
  BY <1>1, <1>2, <1>4 DEF Key
<1>6. Stated(n, "uuid") /\ Cells(n)["uuid"] = Uuid(g)
  BY <1>1, <1>2, <1>4, UuidIsRead
<1>7. ASSUME Stated(n0, "uuid") PROVE g.uuid = Uuid(g)
  <2>1. "uuid" \in DOMAIN Read(n0)
    BY <1>1, <1>7, UuidIsRead
  <2>2. Key(Read(n0)) = Read(n0)["uuid"]
    BY <2>1 DEF Key
  <2>3. g.uuid = Read(n0)["uuid"]
    BY <1>1, <2>1 DEF IsNamed, Get, n0
  <2>4. QED
    BY <1>1, <1>5, <2>2, <2>3
<1>8. QED
  BY <1>5, <1>6, <1>7 DEF g, n0

LEMMA BornNumber ==
  ASSUME Shape, Main, NamesInv, NEW k \in DOMAIN accepted
  PROVE  LET g == accepted[k]
             n0 == g.rows[1]
         IN /\ Number(g) = Cells(n0)["invoice_number"] /\ g.number = Number(g)
            /\ ~Stated(n0, "uuid") => g.uuid = NONE
<1> DEFINE g == accepted[k]
           n0 == g.rows[1]
<1>1. IsGroup(g) /\ IsNamed(g) /\ g.errors = {} /\ n0 \in RowsOf(g) /\ Clean(n0)
  BY AcceptedRows
<1>2. g.uuid = Get(Read(n0), "uuid", NONE) /\ g.number = Read(n0)["invoice_number"]
  BY <1>1 DEF IsNamed
<1> HIDE DEF g, n0
<1>3. Read(n0)["invoice_number"] = Cells(n0)["invoice_number"]
  BY <1>1, UuidIsRead
<1>4. "invoice_number" \in DOMAIN Read(n0) /\ "invoice_number" \in HeaderFields
  <2>1. "invoice_number" \in Required
    BY DEF Required
  <2>2. QED
    BY <1>1, <2>1, ReadIs DEF HeaderFields
<1>5. g.values["invoice_number"] = Read(n0)["invoice_number"]
  BY <1>1, <1>4 DEF IsGroup, IsPart
<1>6. ~Stated(n0, "uuid") => g.uuid = NONE
  BY <1>1, <1>2, UuidIsRead DEF Get
<1>7. QED
  BY <1>2, <1>3, <1>5, <1>6 DEF g, n0, Number

LEMMA StoredIdentity ==
  ASSUME Shape, Main, NamesInv, NEW k \in DOMAIN accepted, NEW l \in DOMAIN accepted,
         Uuid(accepted[k]) # NONE, Uuid(accepted[k]) = Uuid(accepted[l])
  PROVE  k = l
<1>1. accepted[k].key = accepted[l].key
  BY BornUuid
<1>2. accepted[k] = accepted[l]
  BY <1>1, AcceptedIs DEF Main, Grouped
<1>3. QED
  BY <1>2 DEF Main, Checked

(***************************************************************************)
(* An accepted invoice whose rows state neither VAT nor total, nor         *)
(* anything beyond a column, meets the constraints, unless its sums do not *)
(* fit.                                                                    *)
(***************************************************************************)
LEMMA AcceptedChecks ==
  ASSUME Shape, Main, NamesInv, step = "persist", NEW k \in DOMAIN accepted,
         \A n \in RowsOf(accepted[k]) : ~States(n) /\ ~Beyond(n),
         ~(BuildInvoice(accepted[k]).subtotal > MaxMoney),
         ~(BuildInvoice(accepted[k]).total > MaxMoney)
  PROVE  InvoiceChecks(BuildInvoice(accepted[k]))
<1> DEFINE g == accepted[k]
<1>1. /\ IsGroup(g) /\ FromRows(g)
      /\ \A n \in RowsOf(g) : n \in DOMAIN rows /\ Clean(n)
  BY AcceptedRows
<1>2. /\ \A n \in RowsOf(g) : ~States(n) /\ ~Beyond(n)
      /\ ~(BuildInvoice(g).subtotal > MaxMoney) /\ ~(BuildInvoice(g).total > MaxMoney)
  OBVIOUS
<1> HIDE DEF g
<1>3. /\ DOMAIN g.items = DOMAIN g.rows /\ IsFiniteSet(DOMAIN g.items)
      /\ \A x \in DOMAIN g.rows : g.items[x] = Item(Read(g.rows[x]))
  <2>1. /\ IsSeq(g.rows) /\ IsSeq(g.items) /\ Len(g.items) = Len(g.rows)
        /\ \A x \in DOMAIN g.rows : g.items[x] = Item(Read(g.rows[x]))
    BY <1>1 DEF IsGroup, IsPart
  <2>2. /\ DOMAIN g.items = 1..Len(g.items) /\ DOMAIN g.items = DOMAIN g.rows
        /\ Len(g.items) \in Nat
    BY <2>1, SeqFacts
  <2>3. IsFiniteSet(1..Len(g.items))
    <3> DEFINE n == Len(g.items)
    <3>1. n \in Nat
      BY <2>2
    <3> HIDE DEF n
    <3>2. IsFiniteSet(1..n)
      BY <3>1, FS_Interval
    <3>3. QED
      BY <3>2 DEF n
  <2>4. QED
    BY <2>1, <2>2, <2>3
<1>4. \A x \in DOMAIN g.rows : g.rows[x] \in RowsOf(g)
  BY DEF RowsOf
<1>5. \A n \in RowsOf(g) : Derived(Item(Read(n))) /\ Fits(Item(Read(n)))
  BY <1>1, <1>2, RowIsDerived, RowFits
<1>6. \A x \in DOMAIN g.items : Derived(g.items[x]) /\ Fits(g.items[x])
  BY <1>3, <1>4, <1>5
<1>7. ASSUME NEW f \in DOMAIN g.values PROVE <<f, g.values[f]>> \notin Unstorable
  <2>1. PICK n \in RowsOf(g) : f \in DOMAIN Read(n) /\ g.values[f] = Read(n)[f]
    BY <1>1 DEF FromRows
  <2>2. f \in HeaderFields
    BY <1>1 DEF FromRows
  <2>3. <<f, Read(n)[f]>> \notin Unstorable
    BY <1>1, <1>2, <2>1, <2>2, HeaderFits
  <2>4. QED
    BY <2>1, <2>3
<1>8. QED
  BY <1>2, <1>3, <1>6, <1>7, DerivedChecks DEF g

(***************************************************************************)
(* An accepted invoice whose keys are taken was not looked up by the key   *)
(* that the database has, or meets a stored one that is spelt differently. *)
(***************************************************************************)
LEMMA TakenHasCause ==
  ASSUME Shape, Main, NamesInv, SeparateInv, step = "persist", i \in DOMAIN accepted,
         Taken(BuildInvoice(accepted[i]))
  PROVE  Cause(accepted[i])
<1> DEFINE g == accepted[i]
           n0 == g.rows[1]
           u == Uuid(g)
           number == Cells(n0)["invoice_number"]
           own == {g.rows[k] : k \in DOMAIN g.rows}
<1>1. \A k \in DOMAIN accepted :
        BuildInvoice(accepted[k]).uuid = Uuid(accepted[k])
        /\ BuildInvoice(accepted[k]).number = Number(accepted[k])
  BY DEF BuildInvoice, Uuid, Number
<1>2. /\ Number(g) = number /\ g.number = number
      /\ ~Stated(n0, "uuid") => g.uuid = NONE
  BY BornNumber
<1>3. u # NONE => /\ \E n \in own : Stated(n, "uuid") /\ Cells(n)["uuid"] = u
                  /\ Stated(n0, "uuid") => g.uuid = u
  BY BornUuid DEF RowsOf
<1>4. ~Exists(g)
  BY DEF SeparateInv
<1>5. ASSUME NEW x \in stored
      PROVE  /\ u # NONE => x.uuid # u
             /\ x.number # number
  <2>1. PICK k \in AcceptedDone : x = BuildInvoice(accepted[k])
    BY DEF Main, Persisted
  <2>2. k \in DOMAIN accepted /\ k # i
    BY AcceptedDoneAre DEF Shape, AcceptedDone
  <2>3. x.uuid = Uuid(accepted[k]) /\ x.number = Number(accepted[k])
    BY <1>1, <2>1, <2>2
  <2>4. Number(accepted[k]) # Number(accepted[i])
    BY <2>2 DEF SeparateInv
  <2>5. Uuid(accepted[i]) # NONE => Uuid(accepted[k]) # Uuid(accepted[i])
    BY <2>2, StoredIdentity
  <2>6. QED
    BY <1>2, <2>3, <2>4, <2>5
<1>6. \/ u # NONE /\ \E x \in db \union stored : x.uuid = u
      \/ \E x \in {x \in db : x.mine} \union stored : SortsAs(x.number) = SortsAs(number)
  BY <1>1, <1>2 DEF Taken
<1>7. Cause(g) <=>
        \/ \E n \in own : Stated(n, "vat_amount") \/ Stated(n, "line_total")
        \/ \E n \in own : Beyond(n)
        \/ BuildInvoice(g).subtotal > MaxMoney \/ BuildInvoice(g).total > MaxMoney
        \/ /\ Stated(n0, "uuid")
           /\ \E d \in db : d.mine /\ SortsAs(d.number) = SortsAs(number)
        \/ \E n \in own, d \in db : /\ Stated(n, "uuid") /\ d.uuid = Cells(n)["uuid"]
                                    /\ d.mine => ~Stated(n0, "uuid")
        \/ \E inv \in stored : inv.number # number /\ SortsAs(inv.number) = SortsAs(number)
  BY DEF Cause
<1> HIDE DEF u, g, n0, number, own
<1>8. CASE u # NONE /\ \E x \in db \union stored : x.uuid = u
  <2>1. PICK d \in db : d.uuid = u
    BY <1>5, <1>8
  <2>2. d.mine => ~Stated(n0, "uuid")
    BY <1>3, <1>4, <1>8, <2>1 DEF Exists
  <2>3. PICK n \in own : Stated(n, "uuid") /\ Cells(n)["uuid"] = u
    BY <1>3, <1>8
  <2>4. Cause(g)
    BY <1>7, <2>1, <2>2, <2>3
  <2>5. QED
    BY <2>4 DEF g
<1>9. CASE \E d \in db : d.mine /\ SortsAs(d.number) = SortsAs(number)
  <2>1. g.uuid # NONE
    BY <1>2, <1>4, <1>9 DEF Exists
  <2>2. Cause(g)
    BY <1>2, <1>7, <1>9, <2>1
  <2>3. QED
    BY <2>2 DEF g
<1>10. CASE \E x \in stored : SortsAs(x.number) = SortsAs(number)
  <2>1. Cause(g)
    BY <1>5, <1>7, <1>10
  <2>2. QED
    BY <2>1 DEF g
<1>11. QED
  BY <1>6, <1>8, <1>9, <1>10

LEMMA RefusedHasCause ==
  ASSUME Shape, Main, NamesInv, SeparateInv, step = "persist", i \in DOMAIN accepted,
         Taken(BuildInvoice(accepted[i])) \/ ~InvoiceChecks(BuildInvoice(accepted[i]))
  PROVE  Cause(accepted[i])
<1> DEFINE g == accepted[i]
<1>1. CASE Taken(BuildInvoice(g))
  BY <1>1, TakenHasCause
<1>2. CASE ~InvoiceChecks(BuildInvoice(g))
  <2>1. \/ \E n \in RowsOf(g) : States(n) \/ Beyond(n)
        \/ BuildInvoice(g).subtotal > MaxMoney \/ BuildInvoice(g).total > MaxMoney
    BY <1>2, AcceptedChecks
  <2>2. QED
    BY <2>1 DEF Cause, States, RowsOf
<1>3. QED
  BY <1>1, <1>2

LEMMA RefusalPersisting ==
  ASSUME IInv, RefusalInv, Persist
  PROVE  RefusalInv'
<1>1. Shape /\ Main /\ step = "persist"
  BY FileNotRefused DEF IInv, Persist
<1>2. UNCHANGED <<file, mapping, groups, accepted>>
  BY DEF Persist
<1>3. \A e \in errors' : e \in errors \/ Caused(e)
  <2>1. CASE errors' = errors
    BY <2>1
  <2>2. CASE errors' # errors
    <3> DEFINE x == Error(accepted[i].rows[1], "invoice_number", "FILE_ERROR")
    <3>1. /\ ~(i > Len(accepted)) /\ errors' = errors \union {x}
          /\ Taken(BuildInvoice(accepted[i])) \/ ~InvoiceChecks(BuildInvoice(accepted[i]))
      BY <2>2 DEF Persist
    <3>2. i \in DOMAIN accepted
      BY <1>1, <3>1, SeqFacts DEF Shape
    <3>3. x.row = accepted[i].rows[1]
      BY DEF Error
    <3> HIDE DEF x
    <3>4. Cause(accepted[i])
      BY <1>1, <3>1, <3>2, RefusedHasCause DEF RefusalInv
    <3>5. Caused(x)
      BY <3>2, <3>3, <3>4 DEF Caused
    <3>6. QED
      BY <3>1, <3>5
  <2>3. QED
    BY <2>1, <2>2
<1>4. Grows
  BY <1>2 DEF Grows, Persist
<1>5. NamesInv' /\ SeparateInv' /\ RefusedForCause'
  BY <1>2, <1>3, <1>4, NamesStay, SeparateStays, CausesStay DEF RefusalInv
<1>6. QED
  BY <1>5 DEF RefusalInv

LEMMA RefusalInvariant == Spec => []RefusalInv
<1>1. Init => RefusalInv
  BY NothingRefused DEF Init
<1>2. IInv /\ RefusalInv /\ [Next]_vars => RefusalInv'
  <2> SUFFICES ASSUME IInv, RefusalInv, [Next]_vars PROVE RefusalInv'
    OBVIOUS
  <2>1. CASE ReadRow \/ MapHeaders \/ NormalizeRows
    BY <2>1, RefusalReading
  <2>2. CASE GroupRows
    BY <2>2, RefusalGrouping
  <2>3. CASE DetectDuplicates
    BY <2>3, RefusalChecking
  <2>4. CASE Persist
    BY <2>4, RefusalPersisting
  <2>5. CASE Finish \/ UNCHANGED vars
    <3>1. UNCHANGED <<file, mapping, groups, accepted, errors, stored>>
      BY <2>5 DEF Finish, vars
    <3>2. NamesInv' /\ SeparateInv' /\ RefusedForCause'
      BY <3>1, NamesStay, SeparateStays, SameGrows, CausesStay DEF RefusalInv
    <3>3. QED
      BY <3>2 DEF RefusalInv
  <2>6. QED
    BY <2>1, <2>2, <2>3, <2>4, <2>5 DEF Next
<1>3. QED
  BY <1>1, <1>2, FileInvariant, PTL DEF Spec

(***************************************************************************)
(* The database refuses what the importer has accepted only for the causes *)
(* listed: a UUID or a number that nobody looked up or compared as the     *)
(* collation does, a text or an amount beyond its column, or amounts that  *)
(* the file states itself.  What _build_invoice and _build_item of         *)
(* imports/service.py derive meets the CHECK constraints.                  *)
(***************************************************************************)
THEOREM RefusedTheorem == Spec => []RefusedForCause
<1>1. RefusalInv => RefusedForCause
  BY DEF RefusalInv
<1>2. QED
  BY <1>1, RefusalInvariant, PTL
===========================================================================
