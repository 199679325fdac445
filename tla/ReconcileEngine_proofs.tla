----------------------- MODULE ReconcileEngine_proofs -----------------------
(***************************************************************************)
(* Proofs about ReconcileEngine, for every pair of invoice lists: types,   *)
(* matching, the error rows, the books, and at the end the reports.        *)
(***************************************************************************)
EXTENDS ReconcileReport, WellFoundedInduction, SequenceTheorems, FiniteSetTheorems,
        TLAPS

(***************************************************************************)
(* The indexes: a key that some tax invoice has leads to one that has it.  *)
(***************************************************************************)
LEMMA FirstOf ==
  ASSUME NEW S \in SUBSET Nat
  PROVE  IF S = {} THEN First(S) = NULL ELSE First(S) \in S
<1>1. CASE S = {}
  BY <1>1 DEF First
<1>2. CASE S # {}
  <2>1. PICK x \in S : \A y \in S : ~(<<y, x>> \in OpToRel(<, Nat))
    BY <1>2, WFMin, NatLessThanWellFounded
  <2>2. ASSUME NEW y \in S, y < x PROVE <<y, x>> \in OpToRel(<, Nat)
    BY <2>2, Zenon DEF OpToRel
  <2>3. \A y \in S : y \in Nat
    OBVIOUS
  <2>4. \A y \in S : ~(y < x)
    BY <2>1, <2>2
  <2>5. \A y \in S : x <= y
    BY <2>3, <2>4
  <2>6. QED
    BY <1>2, <2>5 DEF First
<1>3. QED
  BY <1>1, <1>2

LEMMA DataTypes ==
  ASSUME data \in Datasets
  PROVE  /\ Accounts = 1..Len(data.accounts) /\ Len(data.accounts) \in Nat
         /\ Taxes = 1..Len(data.taxes) /\ Len(data.taxes) \in Nat
         /\ \A i \in Accounts : Acc(i) \in Account
         /\ \A j \in Taxes : Tax(j) \in TaxInvoice
BY DatasetAssumption DEF Accounts, Taxes, Acc, Tax

(***************************************************************************)
(* The counterpart of an invoice is a tax invoice that bears its identity. *)
(***************************************************************************)
LEMMA CounterpartIdentity ==
  ASSUME data \in Datasets, NEW i \in Accounts, Counterpart(Acc(i)) # NULL
  PROVE  /\ Counterpart(Acc(i)) \in Taxes
         /\ Acc(i).uuid # NULL =>
              /\ Normalized(Acc(i).uuid) \in Uuids
              /\ Normalized(Tax(Counterpart(Acc(i))).uuid) = Normalized(Acc(i).uuid)
         /\ Acc(i).uuid = NULL =>
              /\ Normalized(Acc(i).number) \in Numbers
              /\ Normalized(Tax(Counterpart(Acc(i))).number) = Normalized(Acc(i).number)
<1> DEFINE a == Acc(i)
<1>1. a \in Account /\ Taxes \in SUBSET Nat
  BY DataTypes
<1>2. CASE a.uuid # NULL
  <2> DEFINE u == Normalized(a.uuid)
             S == {j \in Taxes : u \in Uuids /\ Normalized(Tax(j).uuid) = u}
  <2>1. Counterpart(a) = First(S)
    BY <1>2 DEF Counterpart, ByUuid
  <2>2. S \in SUBSET Nat
    BY <1>1
  <2>3. First(S) \in S
    BY <2>1, <2>2, FirstOf
  <2>4. QED
    BY <1>2, <2>1, <2>3
<1>3. CASE a.uuid = NULL
  <2> DEFINE n == Normalized(a.number)
             S == {j \in Taxes : n # NULL /\ Normalized(Tax(j).number) = n}
  <2>1. Counterpart(a) = First(S)
    BY <1>3 DEF Counterpart, ByInternal
  <2>2. S \in SUBSET Nat
    BY <1>1
  <2>3. First(S) \in S
    BY <2>1, <2>2, FirstOf
  <2>4. n \in Numbers
    BY <1>1, <2>3 DEF Account, Text, Normalized
  <2>5. QED
    BY <1>3, <2>1, <2>3, <2>4
<1>4. QED
  BY <1>2, <1>3

LEMMA MalformedHasNone ==
  ASSUME data \in Datasets, NEW i \in Accounts, Normalized(Acc(i).uuid) = Malformed
  PROVE  Counterpart(Acc(i)) = NULL
<1>1. Acc(i).uuid # NULL
  BY NullAssumption DEF Normalized
<1>2. QED
  BY <1>1, MalformedAssumption, CounterpartIdentity

LEMMA NullIsNoPlace == \A n \in Int : n # NULL
BY NullAssumption

(***************************************************************************)
(* Types                                                                   *)
(***************************************************************************)
LEMMA TypeInductive ==
  /\ Init => TypeOK
  /\ TypeOK /\ [Next]_vars => TypeOK'
<1>1. Init => TypeOK
  BY DatasetAssumption DEF Init, TypeOK
<1>2. ASSUME TypeOK, [Next]_vars PROVE TypeOK'
  <2>0. /\ data \in Datasets
        /\ Accounts = 1..Len(data.accounts) /\ Len(data.accounts) \in Nat
        /\ Taxes = 1..Len(data.taxes) /\ Len(data.taxes) \in Nat
    BY <1>2, DataTypes DEF TypeOK
  <2>1. ASSUME MatchAccount PROVE TypeOK'
    <3>1. account \in Accounts /\ account' = account + 1
          /\ UNCHANGED <<data, taxNext, stored>>
      BY <2>1 DEF MatchAccount
    <3>2. Accounts' = Accounts /\ Taxes' = Taxes
      BY <3>1 DEF Accounts, Taxes
    <3>3. ASSUME MatchInvalid(account) PROVE TypeOK'
      <4>1. Result(account, NULL, "invalid", 0) \in ResultType
        BY <2>0, <3>1 DEF Result, ResultType
      <4>2. QED
        BY <1>2, <2>0, <3>1, <3>2, <3>3, <4>1 DEF MatchInvalid, TypeOK, Result
    <3>4. ASSUME MatchMissing(account) PROVE TypeOK'
      <4>1. Result(account, NULL, "missing_in_tax_authority", 0) \in ResultType
        BY <2>0, <3>1 DEF Result, ResultType
      <4>2. QED
        BY <1>2, <2>0, <3>1, <3>2, <3>4, <4>1 DEF MatchMissing, TypeOK, Result
    <3>5. ASSUME MatchPair(account) PROVE TypeOK'
      <4> DEFINE j == Counterpart(Acc(account))
                 s == IF Compare(Acc(account).body, Tax(j).body, data.tolerance) = {}
                        THEN "matched" ELSE "mismatched"
                 d == Acc(account).body.total - Tax(j).body.total
      <4>1. j \in Taxes
        BY <2>0, <3>1, <3>5, CounterpartIdentity DEF MatchPair
      <4>2. Acc(account).body \in Bodies /\ Tax(j).body \in TaxBodies
        BY <2>0, <3>1, <4>1, DataTypes DEF Account, TaxInvoice
      <4>3. d \in Int
        BY <4>2, BodyAssumption
      <4>4. s \in {"matched", "mismatched"}
        OBVIOUS
      <4>5. /\ results' = results \union {Result(account, j, s, d)}
            /\ claimed' = claimed \union {j}
        BY <3>5 DEF MatchPair
      <4> HIDE DEF j, s, d
      <4>6. Result(account, j, s, d) \in ResultType
        BY <2>0, <3>1, <4>1, <4>3, <4>4 DEF Result, ResultType
      <4>7. /\ Result(account, j, s, d).account = account
            /\ Result(account, j, s, d).tax = j
        BY DEF Result
      <4>8. QED
        BY <1>2, <2>0, <3>1, <3>2, <4>1, <4>5, <4>6, <4>7 DEF TypeOK
    <3>6. QED
      BY <2>1, <3>3, <3>4, <3>5 DEF MatchAccount
  <2>2. ASSUME ClassifyTax PROVE TypeOK'
    <3>1. taxNext \in Taxes /\ taxNext' = taxNext + 1
          /\ UNCHANGED <<data, claimed, account, stored>>
      BY <2>2 DEF ClassifyTax
    <3>2. Accounts' = Accounts /\ Taxes' = Taxes
      BY <3>1 DEF Accounts, Taxes
    <3>3. /\ Result(NULL, taxNext, "invalid", 0) \in ResultType
          /\ Result(NULL, taxNext, "extra_in_tax_authority", 0) \in ResultType
      BY <2>0, <3>1 DEF Result, ResultType
    <3>4. QED
      BY <1>2, <2>0, <2>2, <3>1, <3>2, <3>3
      DEF ClassifyTax, SkipClaimed, ClassifyInvalid, ClassifyExtra, TypeOK, Result
  <2>3. ASSUME Store PROVE TypeOK'
    BY <1>2, <2>3 DEF Store, TypeOK, Accounts, Taxes
  <2>4. CASE UNCHANGED vars
    BY <1>2, <2>4 DEF vars, TypeOK, Accounts, Taxes
  <2>5. QED
    BY <1>2, <2>1, <2>2, <2>3, <2>4 DEF Next
<1>3. QED
  BY <1>1, <1>2

(***************************************************************************)
(* Every result row names invoices of the run's input, or none.            *)
(***************************************************************************)
THEOREM EngineTypes == Spec => []TypeOK
BY TypeInductive, PTL DEF Spec
(***************************************************************************)
(* What the two loops add: one result for the invoice at hand.             *)
(***************************************************************************)
LEMMA MatchAccountAdds ==
  ASSUME TypeOK, MatchAccount
  PROVE  \E r0 :
           /\ r0.account = account
           /\ r0.tax = Counterpart(Acc(account))
           /\ results' = results \union {r0}
           /\ claimed' = claimed \union ({r0.tax} \ {NULL})
<1>1. data \in Datasets /\ account \in Accounts
  BY DEF TypeOK, MatchAccount
<1>2. CASE MatchInvalid(account)
  <2>1. Counterpart(Acc(account)) = NULL
    BY <1>1, <1>2, MalformedHasNone DEF MatchInvalid
  <2> DEFINE r0 == Result(account, NULL, "invalid", 0)
  <2>2. results' = results \union {r0} /\ claimed' = claimed
    BY <1>2 DEF MatchInvalid
  <2>3. r0.account = account /\ r0.tax = NULL
    BY DEF Result
  <2> HIDE DEF r0
  <2>4. QED
    BY <2>1, <2>2, <2>3
<1>3. CASE MatchMissing(account)
  <2> DEFINE r0 == Result(account, NULL, "missing_in_tax_authority", 0)
  <2>1. /\ Counterpart(Acc(account)) = NULL
        /\ results' = results \union {r0} /\ claimed' = claimed
    BY <1>3 DEF MatchMissing
  <2>2. r0.account = account /\ r0.tax = NULL
    BY DEF Result
  <2> HIDE DEF r0
  <2>3. QED
    BY <2>1, <2>2
<1>4. CASE MatchPair(account)
  <2> DEFINE j == Counterpart(Acc(account))
             s == IF Compare(Acc(account).body, Tax(j).body, data.tolerance) = {}
                    THEN "matched" ELSE "mismatched"
             d == Acc(account).body.total - Tax(j).body.total
             r0 == Result(account, j, s, d)
  <2>1. j # NULL /\ results' = results \union {r0} /\ claimed' = claimed \union {j}
    BY <1>4 DEF MatchPair
  <2>2. r0.account = account /\ r0.tax = j
    BY DEF Result
  <2> HIDE DEF j, r0
  <2>3. claimed' = claimed \union ({r0.tax} \ {NULL})
    BY <2>1, <2>2
  <2>4. WITNESS r0
  <2>5. QED
    BY <2>1, <2>2, <2>3 DEF j
<1>5. QED
  BY <1>2, <1>3, <1>4 DEF MatchAccount

LEMMA ClassifyTaxAdds ==
  ASSUME TypeOK, ClassifyTax
  PROVE  \/ taxNext \in claimed /\ results' = results
         \/ /\ taxNext \notin claimed
            /\ \E r0 : /\ r0.account = NULL
                       /\ r0.tax = taxNext
                       /\ results' = results \union {r0}
BY DEF ClassifyTax, SkipClaimed, ClassifyInvalid, ClassifyExtra, Result

LEMMA MatchAccountKeeps ==
  ASSUME TypeOK, MatchingInv, MatchAccount
  PROVE  MatchingInv'
<1>1. PICK r0 : /\ r0.account = account
                /\ r0.tax = Counterpart(Acc(account))
                /\ results' = results \union {r0}
                /\ claimed' = claimed \union ({r0.tax} \ {NULL})
  BY MatchAccountAdds
<1>2. /\ account \in Accounts /\ account' = account + 1
      /\ UNCHANGED <<data, taxNext, stored>>
  BY DEF MatchAccount
<1>3. /\ Accounts' = Accounts /\ Taxes' = Taxes
      /\ Accounts \subseteq Nat /\ Taxes \subseteq Nat /\ account \in Nat
  BY <1>2, DataTypes DEF TypeOK, Accounts, Taxes
<1>4. \A i : Counterpart(Acc(i))' = Counterpart(Acc(i))
  BY <1>2 DEF Counterpart, Acc, ByUuid, ByInternal, Tax, Taxes
<1>5. taxNext = 1 /\ stored = "no" /\ \A r \in results : r.account # NULL
  BY <1>2 DEF MatchingInv, UnclaimedReportedOnce, StoredAsUnique, Done
<1>6. r0.account # NULL /\ \A r \in results : r.account \in Nat /\ r.account < account
  <2>1. r0.account # NULL
    BY <1>1, <1>3, NullIsNoPlace
  <2>2. \A r \in results : r.account \in Accounts
    BY <1>5 DEF TypeOK
  <2>3. QED
    BY <1>3, <1>5, <2>1, <2>2 DEF MatchingInv, AccountsAnswered
<1>7. AccountsAnswered'
  <2>1. UniqueIn("account")'
    BY <1>1, <1>3, <1>6 DEF MatchingInv, AccountsAnswered, UniqueIn
  <2>2. \A r \in results' : r.account < account'
    BY <1>1, <1>2, <1>3, <1>6
  <2>3. \A i \in Accounts : i < account' => \E r \in results' : r.account = i
    <3>1. SUFFICES ASSUME NEW i \in Accounts, i < account'
                   PROVE  \E r \in results' : r.account = i
      OBVIOUS
    <3>2. i < account \/ i = account
      BY <1>2, <1>3, <3>1
    <3>3. QED
      BY <1>1, <3>2 DEF MatchingInv, AccountsAnswered
  <2>4. QED
    BY <1>3, <2>1, <2>2, <2>3 DEF AccountsAnswered
<1>8. MatchedByHierarchy'
  BY <1>1, <1>4 DEF MatchingInv, MatchedByHierarchy
<1>9. ClaimedIsMatched'
  BY <1>1, <1>3, <1>6, NullIsNoPlace DEF MatchingInv, ClaimedIsMatched
<1>10. UnclaimedReportedOnce'
  <2>1. \A r \in results' : r.account # NULL
    BY <1>1, <1>5, <1>6
  <2>2. \A j \in Taxes : ~(j < taxNext)
    BY <1>5, DataTypes DEF TypeOK
  <2>3. QED
    BY <1>2, <1>3, <1>5, <2>1, <2>2 DEF UnclaimedReportedOnce
<1>11. StoredAsUnique'
  BY <1>2, <1>5 DEF StoredAsUnique
<1>12. QED
  BY <1>7, <1>8, <1>9, <1>10, <1>11 DEF MatchingInv

LEMMA ClassifyTaxKeeps ==
  ASSUME TypeOK, MatchingInv, ClassifyTax
  PROVE  MatchingInv'
<1>1. /\ account \notin Accounts /\ taxNext \in Taxes /\ taxNext' = taxNext + 1
      /\ UNCHANGED <<data, claimed, account, stored>>
  BY DEF ClassifyTax
<1>2. /\ Accounts' = Accounts /\ Taxes' = Taxes
      /\ Accounts \subseteq Nat /\ Taxes \subseteq Nat
  BY <1>1, DataTypes DEF TypeOK, Accounts, Taxes
<1>3. \A i : Counterpart(Acc(i))' = Counterpart(Acc(i))
  BY <1>1 DEF Counterpart, Acc, ByUuid, ByInternal, Tax, Taxes
<1>4. stored = "no"
  BY <1>1 DEF MatchingInv, StoredAsUnique, Done
<1>5. CASE taxNext \in claimed /\ results' = results
  <2>1. \E r \in results : r.tax = taxNext
    BY <1>1, <1>5 DEF MatchingInv, ClaimedIsMatched
  <2>2. UnclaimedReportedOnce'
    <3>1. \A j \in Taxes : j < taxNext' => j < taxNext \/ j = taxNext
      BY <1>1, <1>2
    <3>2. \A j \in Taxes : j < taxNext' => \E r \in results' : r.tax = j
      BY <1>5, <2>1, <3>1 DEF MatchingInv, UnclaimedReportedOnce
    <3>3. \A r \in results' : r.account = NULL => r.tax < taxNext'
      <4>1. \A r \in results :
              r.account = NULL => r.tax \in Taxes /\ r.tax < taxNext
        BY DEF MatchingInv, UnclaimedReportedOnce
      <4>2. \A j \in Taxes : j < taxNext => j < taxNext'
        BY <1>1, <1>2
      <4>3. QED
        BY <1>5, <4>1, <4>2
    <3>4. QED
      BY <1>1, <1>2, <1>5, <3>2, <3>3 DEF MatchingInv, UnclaimedReportedOnce
  <2>3. AccountsAnswered' /\ MatchedByHierarchy' /\ ClaimedIsMatched'
    BY <1>1, <1>2, <1>3, <1>5
    DEF MatchingInv, AccountsAnswered, MatchedByHierarchy, ClaimedIsMatched, UniqueIn
  <2>4. QED
    BY <1>1, <1>4, <2>2, <2>3 DEF MatchingInv, StoredAsUnique
<1>6. ASSUME taxNext \notin claimed,
             NEW r0, r0.account = NULL, r0.tax = taxNext, results' = results \union {r0}
      PROVE  MatchingInv'
  <2>1. AccountsAnswered' /\ MatchedByHierarchy' /\ ClaimedIsMatched'
    <3>1. UniqueIn("account")'
      BY <1>6 DEF MatchingInv, AccountsAnswered, UniqueIn
    <3>2. QED
      BY <1>1, <1>2, <1>3, <1>6, <3>1
      DEF MatchingInv, AccountsAnswered, MatchedByHierarchy, ClaimedIsMatched
  <2>2. UnclaimedReportedOnce'
    <3>1. \A j \in Taxes : j < taxNext' => j < taxNext \/ j = taxNext
      BY <1>1, <1>2
    <3>2. \A j \in Taxes : j < taxNext' => \E r \in results' : r.tax = j
      BY <1>6, <3>1 DEF MatchingInv, UnclaimedReportedOnce
    <3>3. \A r \in results :
            r.account = NULL => r.tax \in Taxes \ claimed /\ r.tax < taxNext
      BY DEF MatchingInv, UnclaimedReportedOnce
    <3>4. \A r \in results' :
            r.account = NULL => r.tax \in Taxes \ claimed /\ r.tax < taxNext'
      <4>1. \A j \in Taxes : j < taxNext => j < taxNext'
        BY <1>1, <1>2
      <4>2. r0.tax \in Taxes \ claimed /\ r0.tax < taxNext'
        BY <1>1, <1>2, <1>6
      <4>3. QED
        BY <1>6, <3>3, <4>1, <4>2
    <3>5. \A r \in results : r.account = NULL => r.tax # taxNext
      BY <1>1, <1>2, <3>3
    <3>6. \A r, q \in results' :
            r.account = NULL /\ q.account = NULL /\ r.tax = q.tax => r = q
      BY <1>6, <3>5 DEF MatchingInv, UnclaimedReportedOnce
    <3>7. QED
      BY <1>1, <1>2, <3>2, <3>4, <3>6 DEF UnclaimedReportedOnce
  <2>3. QED
    BY <1>1, <1>4, <2>1, <2>2 DEF MatchingInv, StoredAsUnique
<1>7. QED
  BY <1>5, <1>6, ClassifyTaxAdds

LEMMA MatchingInductive ==
  /\ Init => MatchingInv
  /\ TypeOK /\ MatchingInv /\ [Next]_vars => MatchingInv'
<1>1. ASSUME Init PROVE MatchingInv
  <2>1. Accounts \subseteq Nat \ {0} /\ Taxes \subseteq Nat \ {0}
    BY <1>1, DataTypes DEF Init
  <2>2. QED
    BY <1>1, <2>1
    DEF Init, MatchingInv, AccountsAnswered, UniqueIn, MatchedByHierarchy,
        ClaimedIsMatched, UnclaimedReportedOnce, StoredAsUnique
<1>2. ASSUME TypeOK, MatchingInv, [Next]_vars PROVE MatchingInv'
  <2>1. CASE UNCHANGED <<data, results, errors, claimed, account, taxNext>>
    <3>1. /\ Accounts' = Accounts /\ Taxes' = Taxes /\ Done' = Done
          /\ UniqueIn("account")' = UniqueIn("account")
          /\ UniqueIn("tax")' = UniqueIn("tax")
      BY <2>1 DEF Accounts, Taxes, Done, UniqueIn
    <3>2. \A i : Counterpart(Acc(i))' = Counterpart(Acc(i))
      BY <2>1 DEF Counterpart, Acc, ByUuid, ByInternal, Tax, Taxes
    <3>3. /\ AccountsAnswered' /\ MatchedByHierarchy'
          /\ ClaimedIsMatched' /\ UnclaimedReportedOnce'
      BY <1>2, <2>1, <3>1, <3>2
      DEF MatchingInv, AccountsAnswered, MatchedByHierarchy, ClaimedIsMatched,
          UnclaimedReportedOnce
    <3>4. CASE Store
      BY <1>2, <3>1, <3>3, <3>4 DEF MatchingInv, StoredAsUnique, Store, Done
    <3>5. CASE stored' = stored
      BY <1>2, <3>1, <3>3, <3>5 DEF MatchingInv, StoredAsUnique
    <3>6. QED
      BY <1>2, <2>1, <3>4, <3>5 DEF Next, vars, MatchAccount, ClassifyTax
  <2>2. QED
    BY <1>2, <2>1, MatchAccountKeeps, ClassifyTaxKeeps DEF Next, vars, Store
<1>3. QED
  BY <1>1, <1>2

LEMMA EngineInvariant == Spec => [](TypeOK /\ MatchingInv)
BY TypeInductive, MatchingInductive, PTL DEF Spec
(***************************************************************************)
(* Every accounting invoice of the input ends up with one result, every    *)
(* tax invoice with at least one, and none is reported as unclaimed that   *)
(* was matched.                                                            *)
(***************************************************************************)
LEMMA TwiceIsMatchedTwice ==
  ASSUME TypeOK, MatchingInv, NEW r \in results, NEW q \in results,
         r.account = NULL, q.tax = r.tax
  PROVE  q = r
<1>1. r.tax \in Taxes \ claimed
  BY DEF MatchingInv, UnclaimedReportedOnce
<1>2. q.account = NULL
  BY <1>1 DEF MatchingInv, ClaimedIsMatched
<1>3. QED
  BY <1>2 DEF MatchingInv, UnclaimedReportedOnce

THEOREM AnsweredTheorem == Spec => []EveryInvoiceAnswered
<1>1. ASSUME TypeOK, MatchingInv PROVE EveryInvoiceAnswered
  <2>1. SUFFICES ASSUME Done PROVE EveryInvoiceAnswered!2
    BY DEF EveryInvoiceAnswered
  <2>2. /\ Accounts = 1..Len(data.accounts) /\ Len(data.accounts) \in Nat
        /\ Taxes = 1..Len(data.taxes) /\ Len(data.taxes) \in Nat
        /\ account \in Nat \ {0} /\ taxNext \in Nat \ {0}
    BY <1>1, DataTypes DEF TypeOK
  <2>3. /\ \A i \in Accounts : i < account
        /\ \A j \in Taxes : j < taxNext
    BY <2>1, <2>2 DEF Done
  <2>4. /\ UniqueIn("account")
        /\ \A i \in Accounts : \E r \in results : r.account = i
    BY <1>1, <2>3 DEF MatchingInv, AccountsAnswered
  <2>5. \A j \in Taxes : \E r \in results : r.tax = j
    BY <1>1, <2>3 DEF MatchingInv, UnclaimedReportedOnce
  <2>6. \A r, q \in results : r.account = NULL /\ q.tax = r.tax => q = r
    BY <1>1, TwiceIsMatchedTwice
  <2>7. QED
    BY <2>4, <2>5, <2>6
<1>2. QED
  BY <1>1, EngineInvariant, PTL

(***************************************************************************)
(* Rivals for a tax invoice name it by different identities.               *)
(***************************************************************************)
LEMMA RivalIdentities ==
  ASSUME data \in Datasets, NEW i \in Accounts, NEW k \in Accounts, i # k,
         Counterpart(Acc(i)) # NULL, Counterpart(Acc(i)) = Counterpart(Acc(k))
  PROVE  \E a, b \in {Acc(i), Acc(k)} :
           /\ Normalized(a.uuid) = Normalized(Tax(Counterpart(Acc(i))).uuid)
           /\ a.uuid # NULL
           /\ b.uuid = NULL
           /\ Normalized(b.number) = Normalized(Tax(Counterpart(Acc(i))).number)
<1>1. /\ DistinctWhere(data.accounts, "uuid", Uuids)
      /\ DistinctWhere(data.accounts, "number", Numbers)
  BY DatasetAssumption
<1>2. ~(Acc(i).uuid # NULL /\ Acc(k).uuid # NULL)
  BY <1>1, CounterpartIdentity DEF DistinctWhere, Acc, Accounts
<1>3. ~(Acc(i).uuid = NULL /\ Acc(k).uuid = NULL)
  BY <1>1, CounterpartIdentity DEF DistinctWhere, Acc, Accounts
<1>4. CASE Acc(i).uuid # NULL /\ Acc(k).uuid = NULL
  BY <1>4, CounterpartIdentity
<1>5. CASE Acc(i).uuid = NULL /\ Acc(k).uuid # NULL
  BY <1>5, CounterpartIdentity
<1>6. QED
  BY <1>2, <1>3, <1>4, <1>5

(***************************************************************************)
(* Two results for one tax invoice are results of two accounting invoices. *)
(***************************************************************************)
LEMMA SharedTax ==
  ASSUME TypeOK, MatchingInv, NEW r \in results, NEW q \in results,
         r # q, r.tax = q.tax, r.tax # NULL
  PROVE  /\ r.account \in Accounts /\ q.account \in Accounts
         /\ r.account # q.account
         /\ r.tax = Counterpart(Acc(r.account))
         /\ q.tax = Counterpart(Acc(q.account))
<1>1. r.account # NULL /\ q.account # NULL
  BY TwiceIsMatchedTwice
<1>2. QED
  BY <1>1 DEF TypeOK, MatchingInv, AccountsAnswered, MatchedByHierarchy, UniqueIn

(***************************************************************************)
(* The strict hierarchy matches a tax invoice twice only across the two    *)
(* identities it has.                                                      *)
(***************************************************************************)
THEOREM ClaimsTheorem == Spec => []ClaimsCrossIdentities
<1>1. ASSUME TypeOK, MatchingInv PROVE ClaimsCrossIdentities
  <2>1. SUFFICES ASSUME NEW r \in results, NEW q \in results,
                        r.tax # NULL, r.tax = q.tax, r # q
                 PROVE  \E a, b \in {Acc(r.account), Acc(q.account)} :
                          /\ Normalized(a.uuid) = Normalized(Tax(r.tax).uuid)
                          /\ a.uuid # NULL
                          /\ b.uuid = NULL
                          /\ Normalized(b.number) = Normalized(Tax(r.tax).number)
    BY DEF ClaimsCrossIdentities
  <2>2. /\ r.account \in Accounts /\ q.account \in Accounts
        /\ r.account # q.account
        /\ r.tax = Counterpart(Acc(r.account))
        /\ q.tax = Counterpart(Acc(q.account))
    BY <1>1, <2>1, SharedTax
  <2>3. data \in Datasets
    BY <1>1 DEF TypeOK
  <2>4. Counterpart(Acc(r.account)) # NULL
        /\ Counterpart(Acc(r.account)) = Counterpart(Acc(q.account))
    BY <2>1, <2>2
  <2>5. \E a, b \in {Acc(r.account), Acc(q.account)} :
          /\ Normalized(a.uuid) = Normalized(Tax(Counterpart(Acc(r.account))).uuid)
          /\ a.uuid # NULL
          /\ b.uuid = NULL
          /\ Normalized(b.number) = Normalized(Tax(Counterpart(Acc(r.account))).number)
    BY <2>2, <2>3, <2>4, RivalIdentities
  <2>6. QED
    BY <2>2, <2>5
<1>2. QED
  BY <1>1, EngineInvariant, PTL

(***************************************************************************)
(* The database refuses the outcome of a run exactly when the input holds  *)
(* rivals for a tax invoice.                                               *)
(***************************************************************************)
THEOREM RejectedTheorem == Spec => []RejectedIffRivalClaims
<1>1. ASSUME TypeOK, MatchingInv, EveryInvoiceAnswered PROVE RejectedIffRivalClaims
  <2>1. SUFFICES ASSUME stored # "no" PROVE stored = "rejected" <=> RivalClaims
    BY DEF RejectedIffRivalClaims
  <2>2. /\ UniqueIn("account")
        /\ \A i \in Accounts : \E r \in results : r.account = i
        /\ stored = "rejected" <=> ~UniqueIn("tax")
    BY <1>1, <2>1
    DEF EveryInvoiceAnswered, MatchingInv, StoredAsUnique, TypeOK
  <2>3. ASSUME RivalClaims PROVE ~UniqueIn("tax")
    <3>1. PICK i \in Accounts, k \in Accounts :
            /\ i # k
            /\ Counterpart(Acc(i)) # NULL
            /\ Counterpart(Acc(i)) = Counterpart(Acc(k))
      BY <2>3 DEF RivalClaims
    <3>2. PICK r \in results : r.account = i
      BY <2>2
    <3>3. PICK q \in results : q.account = k
      BY <2>2
    <3>4. i # NULL /\ k # NULL
      BY <1>1, DataTypes, NullIsNoPlace DEF TypeOK
    <3>5. r.tax = Counterpart(Acc(i)) /\ q.tax = Counterpart(Acc(k)) /\ r # q
      BY <1>1, <3>1, <3>2, <3>3, <3>4 DEF MatchingInv, MatchedByHierarchy
    <3>6. QED
      BY <3>1, <3>5 DEF UniqueIn
  <2>4. ASSUME ~UniqueIn("tax") PROVE RivalClaims
    <3>1. PICK r \in results, q \in results :
            r.tax = q.tax /\ r.tax # NULL /\ r # q
      BY <2>4 DEF UniqueIn
    <3>2. QED
      BY <1>1, <3>1, SharedTax DEF RivalClaims
  <2>5. QED
    BY <2>2, <2>3, <2>4
<1>2. QED
  BY <1>1, EngineInvariant, AnsweredTheorem, PTL
(***************************************************************************)
(* The error rows.  Each result calls for the rows of its own invoice: the *)
(* mismatches of its pair, or the invalid UUID; errors holds exactly those *)
(* of the results there are, and the status of a pair tells its mismatches *)
(***************************************************************************)
Paired(r) == r.account # NULL /\ r.tax # NULL

Mismatches(r) == Compare(Acc(r.account).body, Tax(r.tax).body, data.tolerance)

RowsFor(r) ==
  IF Paired(r) THEN Errors("account", r.account, Mismatches(r))
  ELSE IF r.status # "invalid" THEN {}
  ELSE IF r.account # NULL THEN Errors("account", r.account, {"INVALID_UUID"})
  ELSE Errors("tax", r.tax, {"INVALID_UUID"})

StatusExplained(r) ==
  /\ Paired(r) => /\ r.status = IF Mismatches(r) = {} THEN "matched" ELSE "mismatched"
                  /\ r.discrepancy = Acc(r.account).body.total - Tax(r.tax).body.total
  /\ ~Paired(r) => r.status \notin {"matched", "mismatched"}

ErrorsInv ==
  /\ errors = UNION {RowsFor(r) : r \in results}
  /\ \A r \in results : StatusExplained(r)

LEMMA ErrorsOneMore ==
  ASSUME ErrorsInv, data' = data,
         NEW r0, results' = results \union {r0},
         errors' = errors \union RowsFor(r0), StatusExplained(r0)
  PROVE  ErrorsInv'
<1>1. \A r : RowsFor(r)' = RowsFor(r) /\ StatusExplained(r)' = StatusExplained(r)
  BY DEF RowsFor, StatusExplained, Paired, Mismatches, Acc, Tax
<1> HIDE DEF RowsFor, StatusExplained
<1>2. errors' = UNION {RowsFor(r) : r \in results'}
  BY DEF ErrorsInv
<1>3. \A r \in results' : StatusExplained(r)
  BY DEF ErrorsInv
<1>4. QED
  BY <1>1, <1>2, <1>3 DEF ErrorsInv

LEMMA ErrorsSame ==
  ASSUME ErrorsInv, UNCHANGED <<data, results, errors>>
  PROVE  ErrorsInv'
BY DEF ErrorsInv, RowsFor, StatusExplained, Paired, Mismatches, Acc, Tax

LEMMA ErrorsMatch ==
  ASSUME TypeOK, ErrorsInv, MatchAccount
  PROVE  ErrorsInv'
<1>1. /\ data \in Datasets /\ account \in Accounts /\ account # NULL /\ data' = data
  BY DataTypes, NullIsNoPlace DEF TypeOK, MatchAccount
<1>2. CASE MatchInvalid(account)
  <2> DEFINE r0 == Result(account, NULL, "invalid", 0)
  <2>1. r0.account = account /\ r0.tax = NULL /\ r0.status = "invalid"
    BY DEF Result
  <2>2. results' = results \union {r0}
        /\ errors' = errors \union Errors("account", account, {"INVALID_UUID"})
    BY <1>2 DEF MatchInvalid
  <2> HIDE DEF r0
  <2>3. errors' = errors \union RowsFor(r0) /\ StatusExplained(r0)
    BY <1>1, <2>1, <2>2 DEF RowsFor, StatusExplained, Paired
  <2>4. QED
    BY <1>1, <2>2, <2>3, ErrorsOneMore
<1>3. CASE MatchMissing(account)
  <2> DEFINE r0 == Result(account, NULL, "missing_in_tax_authority", 0)
  <2>1. r0.tax = NULL /\ r0.status = "missing_in_tax_authority"
    BY DEF Result
  <2>2. results' = results \union {r0} /\ errors' = errors
    BY <1>3 DEF MatchMissing
  <2> HIDE DEF r0
  <2>3. RowsFor(r0) = {} /\ StatusExplained(r0)
    BY <2>1 DEF RowsFor, StatusExplained, Paired
  <2>4. QED
    BY <1>1, <2>2, <2>3, ErrorsOneMore
<1>4. CASE MatchPair(account)
  <2> DEFINE j == Counterpart(Acc(account))
             m == Compare(Acc(account).body, Tax(j).body, data.tolerance)
             s == IF m = {} THEN "matched" ELSE "mismatched"
             d == Acc(account).body.total - Tax(j).body.total
             r0 == Result(account, j, s, d)
  <2>1. /\ j # NULL /\ results' = results \union {r0}
        /\ errors' = errors \union Errors("account", account, m)
    BY <1>4 DEF MatchPair
  <2>2. r0.account = account /\ r0.tax = j /\ r0.status = s /\ r0.discrepancy = d
    BY DEF Result
  <2> HIDE DEF j, r0
  <2>3. Paired(r0) /\ Mismatches(r0) = m
    BY <1>1, <2>1, <2>2 DEF Paired, Mismatches
  <2>4. RowsFor(r0) = Errors("account", account, m)
    BY <2>2, <2>3 DEF RowsFor
  <2>5. StatusExplained(r0)
    BY <2>2, <2>3 DEF StatusExplained
  <2>6. QED
    BY <1>1, <2>1, <2>4, <2>5, ErrorsOneMore
<1>5. QED
  BY <1>2, <1>3, <1>4 DEF MatchAccount

LEMMA ErrorsClassify ==
  ASSUME ErrorsInv, ClassifyTax
  PROVE  ErrorsInv'
<1>1. data' = data
  BY DEF ClassifyTax
<1>2. CASE SkipClaimed(taxNext)
  BY <1>1, <1>2, ErrorsSame DEF SkipClaimed
<1>3. CASE ClassifyInvalid(taxNext)
  <2> DEFINE r0 == Result(NULL, taxNext, "invalid", 0)
  <2>1. r0.account = NULL /\ r0.tax = taxNext /\ r0.status = "invalid"
    BY DEF Result
  <2>2. results' = results \union {r0}
        /\ errors' = errors \union Errors("tax", taxNext, {"INVALID_UUID"})
    BY <1>3 DEF ClassifyInvalid
  <2> HIDE DEF r0
  <2>3. errors' = errors \union RowsFor(r0) /\ StatusExplained(r0)
    BY <2>1, <2>2 DEF RowsFor, StatusExplained, Paired
  <2>4. QED
    BY <1>1, <2>2, <2>3, ErrorsOneMore
<1>4. CASE ClassifyExtra(taxNext)
  <2> DEFINE r0 == Result(NULL, taxNext, "extra_in_tax_authority", 0)
  <2>1. r0.account = NULL /\ r0.status = "extra_in_tax_authority"
    BY DEF Result
  <2>2. results' = results \union {r0} /\ errors' = errors
    BY <1>4 DEF ClassifyExtra
  <2> HIDE DEF r0
  <2>3. RowsFor(r0) = {} /\ StatusExplained(r0)
    BY <2>1 DEF RowsFor, StatusExplained, Paired
  <2>4. QED
    BY <1>1, <2>2, <2>3, ErrorsOneMore
<1>5. QED
  BY <1>2, <1>3, <1>4 DEF ClassifyTax

LEMMA ErrorsInvariant == Spec => []ErrorsInv
<1>1. Init => ErrorsInv
  BY DEF Init, ErrorsInv
<1>2. TypeOK /\ ErrorsInv /\ [Next]_vars => ErrorsInv'
  BY ErrorsMatch, ErrorsClassify, ErrorsSame DEF Next, Store, vars
<1>3. QED
  BY <1>1, <1>2, EngineTypes, PTL DEF Spec

(***************************************************************************)
(* An error row belongs to the result of its invoice, the only one of an   *)
(* accounting invoice, and the only one of a tax invoice by itself.        *)
(***************************************************************************)
LEMMA RowsForShape ==
  ASSUME NEW r, NEW e \in RowsFor(r)
  PROVE  \/ /\ Paired(r) /\ e.source = "account" /\ e.id = r.account
            /\ e.type \in Mismatches(r)
         \/ /\ ~Paired(r) /\ r.status = "invalid" /\ r.account # NULL
            /\ e.source = "account" /\ e.id = r.account /\ e.type = "INVALID_UUID"
         \/ /\ r.status = "invalid" /\ r.account = NULL
            /\ e.source = "tax" /\ e.id = r.tax /\ e.type = "INVALID_UUID"
<1> DEFINE m == Mismatches(r)
<1> HIDE DEF m
<1>1. CASE Paired(r)
  <2>1. e \in Errors("account", r.account, m)
    BY <1>1 DEF RowsFor, m
  <2>2. e.source = "account" /\ e.id = r.account /\ e.type \in m
    BY <2>1 DEF Errors
  <2>3. QED
    BY <1>1, <2>2 DEF m
<1>2. CASE ~Paired(r) /\ r.account # NULL
  <2>1. r.status = "invalid" /\ e \in Errors("account", r.account, {"INVALID_UUID"})
    BY <1>2 DEF RowsFor
  <2>2. e.source = "account" /\ e.id = r.account /\ e.type = "INVALID_UUID"
    BY <2>1 DEF Errors
  <2>3. QED
    BY <1>2, <2>1, <2>2
<1>3. CASE ~Paired(r) /\ r.account = NULL
  <2>1. r.status = "invalid" /\ e \in Errors("tax", r.tax, {"INVALID_UUID"})
    BY <1>3 DEF RowsFor
  <2>2. e.source = "tax" /\ e.id = r.tax /\ e.type = "INVALID_UUID"
    BY <2>1 DEF Errors
  <2>3. QED
    BY <1>3, <2>1, <2>2
<1>4. QED
  BY <1>1, <1>2, <1>3 DEF Paired

LEMMA ErrorHasResult ==
  ASSUME ErrorsInv, NEW e \in errors
  PROVE  \E r \in results : e \in RowsFor(r)
BY DEF ErrorsInv

LEMMA RowsAreErrors ==
  ASSUME ErrorsInv, NEW r \in results, NEW e \in RowsFor(r)
  PROVE  e \in errors
BY DEF ErrorsInv

LEMMA OwnRow ==
  ASSUME MatchingInv, ErrorsInv, NEW r \in results, NEW e \in errors,
         \/ e.source = "account" /\ e.id = r.account
         \/ e.source = "tax" /\ e.id = r.tax /\ r.account = NULL
  PROVE  e \in RowsFor(r)
<1>1. PICK q \in results : e \in RowsFor(q)
  BY ErrorHasResult
<1>2. \/ e.source = "account" /\ q.account # NULL /\ e.id = q.account
      \/ e.source = "tax" /\ q.account = NULL /\ e.id = q.tax
  BY <1>1, RowsForShape DEF Paired
<1>3. q = r
  BY <1>2 DEF MatchingInv, AccountsAnswered, UnclaimedReportedOnce, UniqueIn
<1>4. QED
  BY <1>1, <1>3

LEMMA RowOfMismatch ==
  ASSUME ErrorsInv, NEW r \in results, Paired(r), NEW c \in Mismatches(r)
  PROVE  \E e \in errors : e.source = "account" /\ e.id = r.account /\ e.type = c
<1> DEFINE m == Mismatches(r)
           e == [source |-> "account", id |-> r.account, type |-> c]
<1>1. c \in m
  OBVIOUS
<1> HIDE DEF m
<1>2. e \in Errors("account", r.account, m)
  BY <1>1 DEF Errors
<1>3. e \in RowsFor(r)
  BY <1>2 DEF RowsFor, m
<1>4. e.source = "account" /\ e.id = r.account /\ e.type = c
  OBVIOUS
<1> HIDE DEF e
<1>5. QED
  BY <1>3, <1>4, RowsAreErrors

(***************************************************************************)
(* The pairs a result is about.                                            *)
(***************************************************************************)
LEMMA PairBodies ==
  ASSUME TypeOK, NEW r \in results, Paired(r)
  PROVE  /\ Acc(r.account).body \in Bodies /\ Tax(r.tax).body \in TaxBodies
         /\ data.tolerance \in Nat
<1>1. data \in Datasets /\ r.account \in Accounts /\ r.tax \in Taxes
  BY DEF TypeOK, Paired
<1>2. QED
  BY <1>1, DataTypes, DatasetAssumption, ToleranceAssumption DEF Account, TaxInvoice

(***************************************************************************)
(* Which part of the comparison a code comes from.                         *)
(***************************************************************************)
LEMMA MoneyErrorIs ==
  ASSUME NEW c, NEW x \in Int, NEW y \in Int, NEW n \in Nat
  PROVE  /\ MoneyError(c, x, y, n) = {} <=> x - y <= n /\ y - x <= n
         /\ c \in MoneyError(c, x, y, n) <=> ~(x - y <= n /\ y - x <= n)
BY DEF MoneyError, Distance

LEMMA ItemCodes ==
  ASSUME NEW a, NEW t, NEW n
  PROVE  ItemErrors(a, t, n) \subseteq
           {"ITEM_COUNT_MISMATCH", "ITEM_QUANTITY_SUM_MISMATCH",
            "ITEM_VAT_SUM_MISMATCH", "ITEM_TOTAL_SUM_MISMATCH"}
<1>1. \A c, x, y, k : MoneyError(c, x, y, k) \subseteq {c}
  BY DEF MoneyError
<1> HIDE DEF MoneyError
<1>2. QED
  BY <1>1 DEF ItemErrors

LEMMA PartyCodes ==
  ASSUME NEW a, NEW t
  PROVE  PartyErrors(a, t) \subseteq PartyErrorTypes
BY DEF PartyErrors, NameErrors, TextError, PartyErrorTypes

LEMMA AmountCodes ==
  ASSUME NEW a, NEW t, NEW n
  PROVE  AmountErrors(a, t, n) \subseteq
           {"SUBTOTAL_AMOUNT_MISMATCH", "DISCOUNT_AMOUNT_MISMATCH",
            "VAT_AMOUNT_MISMATCH", "TOTAL_AMOUNT_MISMATCH", "NET_AMOUNT_MISMATCH"}
<1>1. \A c, x, y, k : MoneyError(c, x, y, k) \subseteq {c}
  BY DEF MoneyError
<1> HIDE DEF MoneyError
<1>2. QED
  BY <1>1 DEF AmountErrors

LEMMA CompareParts ==
  ASSUME NEW a, NEW t, NEW n, NEW c
  PROVE  /\ c \in PartyErrorTypes /\ c \in Compare(a, t, n) => c \in PartyErrors(a, t)
         /\ c \in {"NET_AMOUNT_MISMATCH", "TOTAL_AMOUNT_MISMATCH"} /\ c \in Compare(a, t, n)
              => c \in AmountErrors(a, t, n)
         /\ c \in AmountErrors(a, t, n) => c \in Compare(a, t, n)
<1>1. DateErrors(a, t) \subseteq {"INVOICE_DATE_MISMATCH"}
      /\ CurrencyErrors(a, t) \subseteq {"CURRENCY_MISMATCH"}
  BY DEF DateErrors, CurrencyErrors, TextError
<1>2. c \in Compare(a, t, n) <=>
        \/ c \in DateErrors(a, t) \/ c \in CurrencyErrors(a, t)
        \/ c \in AmountErrors(a, t, n)
        \/ c \in PartyErrors(a, t) \/ c \in ItemErrors(a, t, n)
  BY DEF Compare
<1> HIDE DEF DateErrors, CurrencyErrors, AmountErrors, PartyErrors, ItemErrors
<1>3. QED
  BY <1>1, <1>2, ItemCodes, PartyCodes, AmountCodes DEF PartyErrorTypes

LEMMA AmountCode ==
  ASSUME NEW a \in Bodies, NEW t \in TaxBodies, NEW n \in Nat
  PROVE  LET far(x, y) == ~(x - y <= n /\ y - x <= n)
             Has(c) == c \in AmountErrors(a, t, n)
         IN /\ Has("SUBTOTAL_AMOUNT_MISMATCH") <=> far(a.subtotal, t.sales)
            /\ Has("DISCOUNT_AMOUNT_MISMATCH") <=> far(a.discount, t.discount)
            /\ Has("VAT_AMOUNT_MISMATCH") <=> far(a.vat, t.vat)
            /\ Has("TOTAL_AMOUNT_MISMATCH") <=> far(a.total, t.total)
            /\ Has("NET_AMOUNT_MISMATCH") <=> far(a.subtotal - a.discount, t.net)
<1> DEFINE far(x, y) == ~(x - y <= n /\ y - x <= n)
<1>1. /\ a.subtotal \in Int /\ a.discount \in Int /\ a.vat \in Int /\ a.total \in Int
      /\ t.sales \in Int /\ t.discount \in Int /\ t.vat \in Int /\ t.total \in Int
      /\ t.net \in Int /\ NetAmount(a) \in Int /\ NetAmount(a) = a.subtotal - a.discount
  BY BodyAssumption DEF NetAmount
<1>2. \A c, x, y : MoneyError(c, x, y, n) \subseteq {c}
  BY DEF MoneyError
<1>3. \A c : \A x, y \in Int : c \in MoneyError(c, x, y, n) <=> far(x, y)
  BY MoneyErrorIs
<1> HIDE DEF MoneyError, NetAmount, far
<1>4. \A c : c \in AmountErrors(a, t, n) <=>
         \/ c \in MoneyError("SUBTOTAL_AMOUNT_MISMATCH", a.subtotal, t.sales, n)
         \/ c \in MoneyError("DISCOUNT_AMOUNT_MISMATCH", a.discount, t.discount, n)
         \/ c \in MoneyError("VAT_AMOUNT_MISMATCH", a.vat, t.vat, n)
         \/ c \in MoneyError("TOTAL_AMOUNT_MISMATCH", a.total, t.total, n)
         \/ c \in MoneyError("NET_AMOUNT_MISMATCH", NetAmount(a), t.net, n)
  BY DEF AmountErrors
<1>5. /\ "SUBTOTAL_AMOUNT_MISMATCH" \in AmountErrors(a, t, n) <=> far(a.subtotal, t.sales)
      /\ "DISCOUNT_AMOUNT_MISMATCH" \in AmountErrors(a, t, n) <=> far(a.discount, t.discount)
      /\ "VAT_AMOUNT_MISMATCH" \in AmountErrors(a, t, n) <=> far(a.vat, t.vat)
      /\ "TOTAL_AMOUNT_MISMATCH" \in AmountErrors(a, t, n) <=> far(a.total, t.total)
      /\ "NET_AMOUNT_MISMATCH" \in AmountErrors(a, t, n) <=> far(NetAmount(a), t.net)
  BY <1>1, <1>2, <1>3, <1>4
<1>6. QED
  BY <1>1, <1>5 DEF far

(***************************************************************************)
(* A pair without a mismatch agrees on its total up to the tolerance.      *)
(***************************************************************************)
LEMMA MatchedTotal ==
  ASSUME NEW a \in Bodies, NEW t \in TaxBodies, NEW n \in Nat,
         Compare(a, t, n) = {}
  PROVE  a.total - t.total <= n /\ -(a.total - t.total) <= n
<1>1. "TOTAL_AMOUNT_MISMATCH" \notin AmountErrors(a, t, n)
  BY CompareParts
<1>2. a.total - t.total <= n /\ t.total - a.total <= n
  BY <1>1, AmountCode
<1>3. a.total \in Int /\ t.total \in Int
  BY BodyAssumption
<1>4. QED
  BY <1>2, <1>3

(***************************************************************************)
(* The report explains what it counts: an error row for every result that  *)
(* is mismatched or invalid, for no other, and totals within the tolerance *)
(* for those that matched.                                                 *)
(***************************************************************************)
THEOREM ExplainTheorem == Spec => []ErrorsExplainResults
<1>1. ASSUME TypeOK, MatchingInv, ErrorsInv PROVE ErrorsExplainResults
  <2>1. SUFFICES ASSUME NEW r \in results
                 PROVE  /\ r.status \in {"mismatched", "invalid"} <=>
                             \E e \in errors :
                               \/ e.source = "account" /\ e.id = r.account
                               \/ e.source = "tax" /\ e.id = r.tax /\ r.account = NULL
                        /\ r.status = "matched" =>
                             /\ r.discrepancy <= data.tolerance
                             /\ -r.discrepancy <= data.tolerance
    BY DEF ErrorsExplainResults
  <2>2. StatusExplained(r)
    BY <1>1 DEF ErrorsInv
  <2>3. ASSUME r.status \in {"mismatched", "invalid"}
        PROVE  \E e \in errors :
                 \/ e.source = "account" /\ e.id = r.account
                 \/ e.source = "tax" /\ e.id = r.tax /\ r.account = NULL
    <3>1. CASE Paired(r)
      <4>1. Mismatches(r) # {}
        BY <2>2, <2>3, <3>1 DEF StatusExplained
      <4>2. QED
        BY <1>1, <3>1, <4>1, RowOfMismatch
    <3>2. CASE ~Paired(r) /\ r.account # NULL
      <4>1. r.status = "invalid"
        BY <2>2, <2>3, <3>2 DEF StatusExplained
      <4> DEFINE e == [source |-> "account", id |-> r.account, type |-> "INVALID_UUID"]
      <4>2. e \in RowsFor(r)
        BY <3>2, <4>1 DEF RowsFor, Errors
      <4>3. e.source = "account" /\ e.id = r.account
        OBVIOUS
      <4> HIDE DEF e
      <4>4. QED
        BY <1>1, <4>2, <4>3, RowsAreErrors
    <3>3. CASE ~Paired(r) /\ r.account = NULL
      <4>1. r.status = "invalid"
        BY <2>2, <2>3, <3>3 DEF StatusExplained
      <4> DEFINE e == [source |-> "tax", id |-> r.tax, type |-> "INVALID_UUID"]
      <4>2. e \in RowsFor(r)
        BY <3>3, <4>1 DEF RowsFor, Errors
      <4>3. e.source = "tax" /\ e.id = r.tax
        OBVIOUS
      <4> HIDE DEF e
      <4>4. QED
        BY <1>1, <3>3, <4>2, <4>3, RowsAreErrors
    <3>4. QED
      BY <3>1, <3>2, <3>3
  <2>4. ASSUME NEW e \in errors,
               \/ e.source = "account" /\ e.id = r.account
               \/ e.source = "tax" /\ e.id = r.tax /\ r.account = NULL
        PROVE  r.status \in {"mismatched", "invalid"}
    <3>1. e \in RowsFor(r)
      BY <1>1, <2>4, OwnRow
    <3>2. (Paired(r) /\ Mismatches(r) # {}) \/ r.status = "invalid"
      BY <3>1, RowsForShape
    <3>3. QED
      BY <2>2, <3>2 DEF StatusExplained
  <2>5. ASSUME r.status = "matched"
        PROVE  r.discrepancy <= data.tolerance /\ -r.discrepancy <= data.tolerance
    <3>1. /\ Paired(r) /\ Mismatches(r) = {}
          /\ r.discrepancy = Acc(r.account).body.total - Tax(r.tax).body.total
      BY <2>2, <2>5 DEF StatusExplained
    <3>2. QED
      BY <1>1, <3>1, PairBodies, MatchedTotal DEF Mismatches
  <2>6. QED
    BY <2>3, <2>4, <2>5
<1>2. QED
  BY <1>1, EngineInvariant, ErrorsInvariant, PTL

(***************************************************************************)
(* Exact amounts that add up on both sides differ in a sum only where they *)
(* differ in one of its parts.                                             *)
(***************************************************************************)
LEMMA DerivedCode ==
  ASSUME NEW a \in Bodies, NEW t \in TaxBodies,
         NEW c \in {"NET_AMOUNT_MISMATCH", "TOTAL_AMOUNT_MISMATCH"},
         c \in Compare(a, t, 0)
  PROVE  \E part \in Components(c) : part \in Compare(a, t, 0)
<1>1. /\ a.subtotal \in Int /\ a.discount \in Int /\ a.vat \in Int /\ a.total \in Int
      /\ t.sales \in Int /\ t.discount \in Int /\ t.vat \in Int /\ t.total \in Int
      /\ t.net \in Int
  BY BodyAssumption
<1>2. /\ a.total = a.subtotal - a.discount + a.vat
      /\ t.net = t.sales - t.discount
      /\ t.total = t.sales - t.discount + t.vat
  BY ChecksAssumption
<1>3. c \in AmountErrors(a, t, 0)
  BY CompareParts
<1>4. /\ "SUBTOTAL_AMOUNT_MISMATCH" \in AmountErrors(a, t, 0) <=> a.subtotal # t.sales
      /\ "DISCOUNT_AMOUNT_MISMATCH" \in AmountErrors(a, t, 0) <=> a.discount # t.discount
      /\ "VAT_AMOUNT_MISMATCH" \in AmountErrors(a, t, 0) <=> a.vat # t.vat
      /\ "TOTAL_AMOUNT_MISMATCH" \in AmountErrors(a, t, 0) <=> a.total # t.total
      /\ "NET_AMOUNT_MISMATCH" \in AmountErrors(a, t, 0)
           <=> a.subtotal - a.discount # t.net
  <2>1. \A x, y \in Int : ~(x - y <= 0 /\ y - x <= 0) <=> x # y
    OBVIOUS
  <2>2. a.subtotal - a.discount \in Int
    BY <1>1
  <2>3. 0 \in Nat
    OBVIOUS
  <2>4. QED
    BY <1>1, <2>1, <2>2, <2>3, AmountCode
<1>5. CASE c = "NET_AMOUNT_MISMATCH"
  <2>1. a.subtotal # t.sales \/ a.discount # t.discount
    BY <1>1, <1>2, <1>3, <1>4, <1>5
  <2>2. \E part \in {"SUBTOTAL_AMOUNT_MISMATCH", "DISCOUNT_AMOUNT_MISMATCH"} :
          part \in AmountErrors(a, t, 0)
    BY <1>4, <2>1
  <2>3. QED
    BY <1>5, <2>2, CompareParts DEF Components
<1>6. CASE c = "TOTAL_AMOUNT_MISMATCH"
  <2>1. a.subtotal # t.sales \/ a.discount # t.discount \/ a.vat # t.vat
    BY <1>1, <1>2, <1>3, <1>4, <1>6
  <2>2. \E part \in {"SUBTOTAL_AMOUNT_MISMATCH", "DISCOUNT_AMOUNT_MISMATCH",
                     "VAT_AMOUNT_MISMATCH"} :
          part \in AmountErrors(a, t, 0)
    BY <1>4, <2>1
  <2>3. QED
    BY <1>6, <2>2, CompareParts DEF Components
<1>7. QED
  BY <1>5, <1>6

(***************************************************************************)
(* With exact comparison a derived amount is never reported by itself.     *)
(***************************************************************************)
THEOREM DerivedTheorem == Spec => []DerivedErrorsExplained
<1>1. ASSUME TypeOK, ErrorsInv PROVE DerivedErrorsExplained
  <2>1. SUFFICES ASSUME NEW e \in errors, data.tolerance = 0,
                        e.type \in {"NET_AMOUNT_MISMATCH", "TOTAL_AMOUNT_MISMATCH"}
                 PROVE  \E f \in errors : /\ f.source = e.source
                                          /\ f.id = e.id
                                          /\ f.type \in Components(e.type)
    BY DEF DerivedErrorsExplained
  <2>2. PICK r \in results : e \in RowsFor(r)
    BY <1>1, ErrorHasResult
  <2>3. /\ Paired(r) /\ e.source = "account" /\ e.id = r.account
        /\ e.type \in Mismatches(r)
    BY <2>1, <2>2, RowsForShape
  <2>4. PICK part \in Components(e.type) : part \in Mismatches(r)
    BY <1>1, <2>1, <2>3, PairBodies, DerivedCode DEF Mismatches
  <2>5. PICK f \in errors : f.source = "account" /\ f.id = r.account /\ f.type = part
    BY <1>1, <2>3, <2>4, RowOfMismatch
  <2>6. QED
    BY <2>3, <2>4, <2>5
<1>2. QED
  BY <1>1, EngineTypes, ErrorsInvariant, PTL

(***************************************************************************)
(* The party: whoever copies one side of a document faithfully is accepted *)
(***************************************************************************)
LEMMA CopiedSide ==
  ASSUME NEW a, NEW t, t.buyer.tin # t.seller.tin,
         NEW s \in {t.buyer, t.seller}, s.tin = a.tin, s.name = a.name
  PROVE  PartyErrors(a, t) = {}
<1>1. CASE s = t.buyer /\ a.tin # NULL
  BY <1>1 DEF PartyErrors, NameErrors, TextError
<1>2. CASE s = t.seller /\ a.tin # NULL
  BY <1>2 DEF PartyErrors, NameErrors, TextError
<1>3. CASE a.tin = NULL
  BY <1>3 DEF PartyErrors
<1>4. QED
  BY <1>1, <1>2, <1>3

(***************************************************************************)
(* Copying either side's tax id and name draws no complaint.               *)
(***************************************************************************)
THEOREM PartyTheorem == Spec => []EitherSideAccepted
<1>1. ASSUME MatchingInv, ErrorsInv PROVE EitherSideAccepted
  <2>1. SUFFICES
          ASSUME NEW r \in results, r.account # NULL, r.tax # NULL,
                 LET a == Acc(r.account).body
                     t == Tax(r.tax).body
                 IN /\ {s \in {t.buyer, t.seller} : s.tin = a.tin /\ s.name = a.name} # {}
                    /\ t.buyer.tin # t.seller.tin,
                 NEW e \in errors, e.source = "account", e.id = r.account
          PROVE  e.type \notin PartyErrorTypes
    BY DEF EitherSideAccepted
  <2> DEFINE a == Acc(r.account).body
             t == Tax(r.tax).body
  <2>2. PICK s \in {t.buyer, t.seller} : s.tin = a.tin /\ s.name = a.name
    BY <2>1
  <2>3. t.buyer.tin # t.seller.tin
    BY <2>1
  <2> HIDE DEF a, t
  <2>4. PartyErrors(a, t) = {}
    BY <2>2, <2>3, CopiedSide
  <2>5. Paired(r)
    BY <2>1 DEF Paired
  <2>6. e.type \in Compare(a, t, data.tolerance)
    BY <1>1, <2>1, <2>5, OwnRow, RowsForShape DEF Mismatches, a, t
  <2>7. QED
    BY <2>4, <2>6, CompareParts
<1>2. QED
  BY <1>1, EngineInvariant, ErrorsInvariant, PTL


(***************************************************************************)
(* Missing means missing.  A result that names no counterpart has one      *)
(* status of each side, and a readable UUID if any.                        *)
(***************************************************************************)
UnmatchedInv ==
  \A r \in results :
    /\ r.status = "missing_in_tax_authority" =>
         r.account \in Accounts /\ r.tax = NULL /\ Normalized(Acc(r.account).uuid) # Malformed
    /\ r.status = "extra_in_tax_authority" =>
         r.account = NULL /\ r.tax \in Taxes /\ Normalized(Tax(r.tax).uuid) # Malformed

LEMMA UnmatchedInvariant == Spec => []UnmatchedInv
<1>1. Init => UnmatchedInv
  BY DEF Init, UnmatchedInv
<1>2. UnmatchedInv /\ [Next]_vars => UnmatchedInv'
  <2> SUFFICES ASSUME UnmatchedInv, [Next]_vars PROVE UnmatchedInv'
    OBVIOUS
  <2>1. CASE MatchAccount
    <3> DEFINE r0 == Result(account, NULL, "missing_in_tax_authority", 0)
    <3>1. data' = data /\ account \in Accounts
      BY <2>1 DEF MatchAccount
    <3>2. ASSUME NEW r \in results', r \notin results
          PROVE  /\ r.status = "missing_in_tax_authority" =>
                      /\ r.account = account /\ r.tax = NULL
                      /\ Normalized(Acc(account).uuid) # Malformed
                 /\ r.status # "extra_in_tax_authority"
      BY <2>1, <3>2 DEF MatchAccount, MatchInvalid, MatchMissing, MatchPair, Result
    <3>3. QED
      BY <3>1, <3>2 DEF UnmatchedInv, Accounts, Taxes, Acc, Tax
  <2>2. CASE ClassifyTax
    <3>1. data' = data /\ taxNext \in Taxes
      BY <2>2 DEF ClassifyTax
    <3>2. ASSUME NEW r \in results', r \notin results
          PROVE  /\ r.status # "missing_in_tax_authority"
                 /\ r.status = "extra_in_tax_authority" =>
                      /\ r.account = NULL /\ r.tax = taxNext
                      /\ Normalized(Tax(taxNext).uuid) # Malformed
      BY <2>2, <3>2 DEF ClassifyTax, SkipClaimed, ClassifyInvalid, ClassifyExtra, Result
    <3>3. QED
      BY <3>1, <3>2 DEF UnmatchedInv, Accounts, Taxes, Acc, Tax
  <2>3. CASE Store \/ UNCHANGED vars
    BY <2>3 DEF Store, vars, UnmatchedInv, Accounts, Taxes, Acc, Tax
  <2>4. QED
    BY <2>1, <2>2, <2>3 DEF Next
<1>3. QED
  BY <1>1, <1>2, PTL DEF Spec

\* The indexes find every identity that is there.
LEMMA IndexFinds ==
  ASSUME data \in Datasets, NEW i \in Accounts, NEW j \in Taxes,
         SameIdentity(Acc(i), Tax(j)), Normalized(Acc(i).uuid) # Malformed
  PROVE  Counterpart(Acc(i)) # NULL
<1> DEFINE a == Acc(i)
<1>1. a \in Account /\ Taxes \in SUBSET Nat
  BY DataTypes
<1>2. CASE a.uuid # NULL
  <2> DEFINE u == Normalized(a.uuid)
             S == {k \in Taxes : u \in Uuids /\ Normalized(Tax(k).uuid) = u}
  <2>1. Counterpart(a) = First(S)
    BY <1>2 DEF Counterpart, ByUuid
  <2>2. u \in Uuids /\ Normalized(Tax(j).uuid) = u
    BY <1>1, <1>2 DEF Account, Text, Normalized, SameIdentity
  <2>3. S \in SUBSET Nat /\ S # {}
    BY <1>1, <2>2
  <2> HIDE DEF S
  <2>4. First(S) \in Nat
    BY <2>3, FirstOf
  <2>5. QED
    BY <2>1, <2>4, NullIsNoPlace
<1>3. CASE a.uuid = NULL
  <2> DEFINE n == Normalized(a.number)
             S == {k \in Taxes : n # NULL /\ Normalized(Tax(k).number) = n}
  <2>1. Counterpart(a) = First(S)
    BY <1>3 DEF Counterpart, ByInternal
  <2>2. n # NULL /\ Normalized(Tax(j).number) = n
    BY <1>1, <1>3, NullAssumption DEF Account, Text, Normalized, SameIdentity
  <2>3. S \in SUBSET Nat /\ S # {}
    BY <1>1, <2>2
  <2> HIDE DEF S
  <2>4. First(S) \in Nat
    BY <2>3, FirstOf
  <2>5. QED
    BY <2>1, <2>4, NullIsNoPlace
<1>4. QED
  BY <1>2, <1>3

\* The lists of a run hold every entry of its company and month.
LEMMA EntriesAreSelected ==
  ASSUME data \in Datasets
  PROVE  /\ \A k \in DOMAIN AccountBook(data) : OfTheRun(AccountBook(data)[k]) =>
              \E i \in Accounts : Acc(i) = AccountBook(data)[k].invoice
         /\ \A k \in DOMAIN TaxBook(data) : OfTheRun(TaxBook(data)[k]) =>
              \E j \in Taxes : Tax(j) = TaxBook(data)[k].invoice
<1>1. ASSUME NEW list, NEW book, Selected(list, book, data.company, data.period),
             NEW k \in DOMAIN book, OfTheRun(book[k])
      PROVE  \E n \in DOMAIN list : list[n] = book[k].invoice
  BY <1>1 DEF Selected, OfTheRun
<1>2. /\ Selected(data.accounts, AccountBook(data), data.company, data.period)
      /\ Selected(data.taxes, TaxBook(data), data.company, data.period)
  BY SelectionAssumption DEF SelectedAccounts, SelectedTaxes
<1>3. QED
  BY <1>1, <1>2 DEF Accounts, Taxes, Acc, Tax

(***************************************************************************)
(* Whatever is in the books: of an accounting invoice reported missing no  *)
(* tax invoice of the company and month bears the identity it is matched   *)
(* by, and the one of a tax invoice reported extra has gone to another.    *)
(***************************************************************************)
THEOREM MissingTheorem == Spec => []MissingIsMissing
<1>1. TypeOK /\ MatchingInv /\ UnmatchedInv => MissingIsMissing
  <2> SUFFICES ASSUME TypeOK, MatchingInv, UnmatchedInv, Done, NEW r \in results
               PROVE  /\ r.status = "missing_in_tax_authority" =>
                           \A k \in DOMAIN TaxBook(data) :
                             SameIdentity(Acc(r.account), TaxBook(data)[k].invoice)
                               => ~OfTheRun(TaxBook(data)[k])
                      /\ r.status = "extra_in_tax_authority" =>
                           \A k \in DOMAIN AccountBook(data) :
                             SameIdentity(AccountBook(data)[k].invoice, Tax(r.tax))
                               /\ OfTheRun(AccountBook(data)[k]) =>
                               \E q \in results :
                                 /\ q.account # NULL
                                 /\ Acc(q.account) = AccountBook(data)[k].invoice
                                 /\ q.tax \in Taxes \ {r.tax}
    BY DEF MissingIsMissing
  <2>1. data \in Datasets
    BY DEF TypeOK
  <2>2. ASSUME r.status = "missing_in_tax_authority", NEW k \in DOMAIN TaxBook(data),
               SameIdentity(Acc(r.account), TaxBook(data)[k].invoice),
               OfTheRun(TaxBook(data)[k])
        PROVE  FALSE
    <3>1. /\ r.account \in Accounts /\ r.tax = NULL
          /\ Normalized(Acc(r.account).uuid) # Malformed
      BY <2>2 DEF UnmatchedInv
    <3>2. PICK j \in Taxes : Tax(j) = TaxBook(data)[k].invoice
      BY <2>1, <2>2, EntriesAreSelected
    <3>3. Counterpart(Acc(r.account)) # NULL
      BY <2>1, <2>2, <3>1, <3>2, IndexFinds
    <3>4. r.account # NULL
      BY <2>1, <3>1, DataTypes, NullIsNoPlace
    <3>5. QED
      BY <3>1, <3>3, <3>4 DEF MatchingInv, MatchedByHierarchy
  <2>3. ASSUME r.status = "extra_in_tax_authority", NEW k \in DOMAIN AccountBook(data),
               SameIdentity(AccountBook(data)[k].invoice, Tax(r.tax)),
               OfTheRun(AccountBook(data)[k])
        PROVE  \E q \in results : /\ q.account # NULL
                                  /\ Acc(q.account) = AccountBook(data)[k].invoice
                                  /\ q.tax \in Taxes \ {r.tax}
    <3>1. /\ r.account = NULL /\ r.tax \in Taxes
          /\ Normalized(Tax(r.tax).uuid) # Malformed
      BY <2>3 DEF UnmatchedInv
    <3>2. PICK i \in Accounts : Acc(i) = AccountBook(data)[k].invoice
      BY <2>1, <2>3, EntriesAreSelected
    <3>3. Normalized(Acc(i).uuid) # Malformed
      BY <2>3, <3>1, <3>2, NullAssumption DEF SameIdentity, Normalized
    <3>4. Counterpart(Acc(i)) # NULL
      BY <2>1, <2>3, <3>1, <3>2, <3>3, IndexFinds
    <3>5. Counterpart(Acc(i)) \in Taxes
      BY <2>1, <3>4, CounterpartIdentity
    <3>6. i < account
      BY <2>1, DataTypes DEF Done, TypeOK
    <3>7. PICK q \in results : q.account = i
      BY <3>6 DEF MatchingInv, AccountsAnswered
    <3>8. i # NULL
      BY <2>1, DataTypes, NullIsNoPlace
    <3>9. q.tax = Counterpart(Acc(i))
      BY <3>7, <3>8 DEF MatchingInv, MatchedByHierarchy
    <3>10. q.tax \in claimed
      BY <3>5, <3>7, <3>8, <3>9 DEF MatchingInv, ClaimedIsMatched
    <3>11. r.tax \notin claimed
      BY <3>1 DEF MatchingInv, UnclaimedReportedOnce
    <3>12. QED
      BY <3>2, <3>5, <3>7, <3>8, <3>9, <3>10, <3>11
  <2>4. QED
    BY <2>2, <2>3
<1>2. QED
  BY <1>1, EngineInvariant, UnmatchedInvariant, PTL
(***************************************************************************)
(* The order of a set.  That the fold exists, and that what it returns     *)
(* is the set in the order of the ranks, is by the least number of members *)
(* for which it would fail.                                                *)
(***************************************************************************)
Rest(rank, h, E) ==
  IF E = {} THEN <<>> ELSE <<Lowest(E, rank)>> \o h[E \ {Lowest(E, rank)}]

Orders(S, rank, h) == h = [E \in SUBSET S |-> Rest(rank, h, E)]

LEMMA InOrderIs ==
  ASSUME NEW S, NEW rank
  PROVE  InOrder(S, rank) = (CHOOSE h : Orders(S, rank, h))[S]
BY Zenon DEF InOrder, MapThenFoldSet, Orders, Rest

LEMMA LeastNumber ==
  ASSUME NEW S \in SUBSET Nat, S # {}
  PROVE  \E m \in S : \A n \in S : m <= n
<1>1. \E m \in S : \A n \in S : ~(<<n, m>> \in OpToRel(<, Nat))
  BY NatLessThanWellFounded, WFMin
<1>2. \A m, n \in Nat : m <= n \/ <<n, m>> \in OpToRel(<, Nat)
  BY DEF OpToRel
<1>3. QED
  BY <1>1, <1>2

LEMMA LowestIs ==
  ASSUME NEW S, NEW rank \in [S -> Nat], NEW E \in SUBSET S, E # {}
  PROVE  Lowest(E, rank) \in E /\ \A y \in E : rank[Lowest(E, rank)] <= rank[y]
<1> DEFINE ranks == {rank[x] : x \in E}
<1>1. \E m \in ranks : \A n \in ranks : m <= n
  <2>1. ranks \in SUBSET Nat /\ ranks # {}
    OBVIOUS
  <2> HIDE DEF ranks
  <2>2. QED
    BY <2>1, LeastNumber
<1>2. \E x \in E : \A y \in E : rank[x] <= rank[y]
  BY <1>1
<1>3. QED
  BY <1>2 DEF Lowest

LEMMA WithoutLowest ==
  ASSUME NEW S, IsFiniteSet(S), NEW rank \in [S -> Nat], NEW E \in SUBSET S, E # {}
  PROVE  /\ E \ {Lowest(E, rank)} \in SUBSET S
         /\ Cardinality(E) \in Nat /\ Cardinality(E) # 0
         /\ Cardinality(E \ {Lowest(E, rank)}) = Cardinality(E) - 1
<1>1. Lowest(E, rank) \in E
  BY LowestIs
<1>2. IsFiniteSet(E)
  BY FS_Subset
<1>3. Cardinality(E) \in Nat /\ Cardinality(E) # 0
  BY <1>2, FS_CardinalityType, FS_EmptySet
<1>4. Cardinality(E \ {Lowest(E, rank)}) = Cardinality(E) - 1
  BY <1>1, <1>2, FS_RemoveElement
<1>5. QED
  BY <1>3, <1>4

LEMMA OrderExists ==
  ASSUME NEW S, IsFiniteSet(S), NEW rank \in [S -> Nat]
  PROVE  \E h : Orders(S, rank, h)
<1> DEFINE Upto(n) == {E \in SUBSET S : Cardinality(E) <= n}
           Defined(n, h) == h = [E \in Upto(n) |-> Rest(rank, h, E)]
           Bad == {n \in Nat : ~\E h : Defined(n, h)}
<1>1. \A E \in SUBSET S : Cardinality(E) \in Nat /\ (E # {} => Cardinality(E) # 0)
  <2>1. \A E \in SUBSET S : E # {} => Cardinality(E) # 0
    BY WithoutLowest
  <2>2. \A E \in SUBSET S : Cardinality(E) \in Nat
    BY FS_Subset, FS_CardinalityType
  <2>3. QED
    BY <2>1, <2>2
<1>2. 0 \notin Bad
  <2> DEFINE h == [E \in Upto(0) |-> <<>>]
  <2>1. \A E \in Upto(0) : E = {}
    BY <1>1
  <2>2. \A E \in Upto(0) : Rest(rank, h, E) = <<>>
    BY <2>1 DEF Rest
  <2>3. h = [E \in Upto(0) |-> Rest(rank, h, E)]
    BY <2>2
  <2>4. Defined(0, h)
    BY <2>3
  <2>5. QED
    BY <2>4
<1>3. ASSUME NEW n \in Nat, n \notin Bad PROVE n + 1 \notin Bad
  <2>1. PICK h : h = [E \in Upto(n) |-> Rest(rank, h, E)]
    BY <1>3
  <2> DEFINE g == [E \in Upto(n + 1) |-> Rest(rank, h, E)]
  <2>2. \A E \in Upto(n) : E \in Upto(n + 1)
    BY <1>1, <1>3
  <2>3. \A E \in Upto(n) : g[E] = h[E]
    BY <2>1, <2>2
  <2>4. ASSUME NEW E \in Upto(n + 1) PROVE Rest(rank, g, E) = Rest(rank, h, E)
    <3>1. CASE E = {}
      BY <3>1 DEF Rest
    <3>2. CASE E # {}
      <4>1. E \ {Lowest(E, rank)} \in Upto(n)
        BY <1>1, <1>3, <2>4, <3>2, WithoutLowest
      <4> HIDE DEF g
      <4>2. QED
        BY <2>3, <3>2, <4>1 DEF Rest
    <3>3. QED
      BY <3>1, <3>2
  <2>5. g = [E \in Upto(n + 1) |-> Rest(rank, g, E)]
    <3> HIDE DEF Upto
    <3>1. QED
      BY <2>4
  <2>6. Defined(n + 1, g)
    BY <2>5
  <2> HIDE DEF Defined, g
  <2>7. QED
    BY <2>6
<1> HIDE DEF Bad
<1>4. Bad = {}
  <2>1. SUFFICES ASSUME Bad # {} PROVE FALSE
    OBVIOUS
  <2>2. Bad \in SUBSET Nat
    BY DEF Bad
  <2>3. PICK m \in Bad : \A n \in Bad : m <= n
    BY <2>1, <2>2, LeastNumber
  <2>4. m \in Nat /\ m # 0
    BY <1>2, <2>2
  <2>5. m - 1 \in Nat /\ m - 1 \notin Bad
    BY <2>2, <2>3, <2>4
  <2>6. (m - 1) + 1 \notin Bad
    BY <1>3, <2>5
  <2>7. QED
    BY <2>3, <2>4, <2>6
<1>5. PICK h : Defined(Cardinality(S), h)
  <2>1. Cardinality(S) \in Nat
    BY <1>1
  <2> HIDE DEF Defined
  <2>2. QED
    BY <1>4, <2>1 DEF Bad
<1>6. Upto(Cardinality(S)) = SUBSET S
  BY FS_Subset
<1>7. Orders(S, rank, h)
  BY <1>5, <1>6 DEF Orders
<1>8. QED
  BY <1>7

\* a lists S by its ranks, every member once.
Ordering(a, S, rank) ==
  /\ a \in [1..Cardinality(S) -> S]
  /\ \A x \in S : \E n \in 1..Cardinality(S) : a[n] = x
  /\ \A m, n \in 1..Cardinality(S) :
       m < n => a[m] # a[n] /\ rank[a[m]] <= rank[a[n]]

LEMMA OneMoreInFront ==
  ASSUME NEW E, NEW rank \in [E -> Nat], NEW x \in E, NEW b, NEW k \in Nat,
         Cardinality(E) = k + 1, Cardinality(E \ {x}) = k,
         \A y \in E : rank[x] <= rank[y],
         Ordering(b, E \ {x}, rank)
  PROVE  Ordering(<<x>> \o b, E, rank)
<1> DEFINE a == <<x>> \o b
<1>1. b \in [1..k -> E \ {x}]
  BY DEF Ordering
<1>2. b \in Seq(E) /\ Len(b) = k
  BY <1>1, SeqDef
<1>3. <<x>> \in Seq(E) /\ Len(<<x>>) = 1 /\ <<x>>[1] = x
  OBVIOUS
<1>4. /\ a \in Seq(E) /\ Len(a) = k + 1
      /\ \A n \in 1..(k + 1) : a[n] = IF n <= 1 THEN <<x>>[n] ELSE b[n - 1]
  BY <1>2, <1>3, ConcatProperties
<1> HIDE DEF a
<1>5. a \in [1..(k + 1) -> E] /\ a[1] = x /\ \A n \in 1..k : a[n + 1] = b[n]
  <2>1. a \in [1..(k + 1) -> E]
    BY <1>4, LenProperties
  <2>2. a[1] = x
    BY <1>3, <1>4
  <2>3. ASSUME NEW n \in 1..k PROVE a[n + 1] = b[n]
    <3>1. n + 1 \in 1..(k + 1) /\ ~(n + 1 <= 1) /\ (n + 1) - 1 = n
      OBVIOUS
    <3>2. QED
      BY <1>4, <3>1
  <2>4. QED
    BY <2>1, <2>2, <2>3
<1>6. ASSUME NEW y \in E PROVE \E n \in 1..(k + 1) : a[n] = y
  <2>1. CASE y = x
    BY <1>5, <2>1
  <2>2. CASE y # x
    <3>1. PICK n \in 1..k : b[n] = y
      BY <2>2 DEF Ordering
    <3>2. n + 1 \in 1..(k + 1) /\ a[n + 1] = y
      BY <1>5, <3>1
    <3>3. QED
      BY <3>2
  <2>3. QED
    BY <2>1, <2>2
<1>7. ASSUME NEW m \in 1..(k + 1), NEW n \in 1..(k + 1), m < n
      PROVE  a[m] # a[n] /\ rank[a[m]] <= rank[a[n]]
  <2>1. n - 1 \in 1..k /\ a[n] = b[n - 1]
    <3>1. n - 1 \in 1..k /\ (n - 1) + 1 = n
      BY <1>7
    <3>2. QED
      BY <1>5, <3>1
  <2>2. CASE m = 1
    <3>1. a[m] = x /\ a[n] \in E \ {x}
      BY <1>1, <1>5, <2>1, <2>2
    <3>2. QED
      BY <3>1
  <2>3. CASE m # 1
    <3>1. m - 1 \in 1..k /\ (m - 1) + 1 = m /\ m - 1 < n - 1
      BY <1>7, <2>3
    <3>2. a[m] = b[m - 1]
      BY <1>5, <3>1
    <3>3. QED
      BY <2>1, <3>1, <3>2 DEF Ordering
  <2>4. QED
    BY <2>2, <2>3
<1>8. QED
  BY <1>5, <1>6, <1>7 DEF Ordering, a

LEMMA OrderIsOrder ==
  ASSUME NEW S, IsFiniteSet(S), NEW rank \in [S -> Nat]
  PROVE  Ordering(InOrder(S, rank), S, rank)
<1> DEFINE h == CHOOSE x : Orders(S, rank, x)
<1>1. Orders(S, rank, h)
  BY OrderExists
<1>2. InOrder(S, rank) = h[S]
  BY InOrderIs
<1> HIDE DEF h
<1>3. \A E \in SUBSET S : h[E] = Rest(rank, h, E)
  BY <1>1 DEF Orders
<1> DEFINE Good(E) == Ordering(h[E], E, [x \in E |-> rank[x]])
           Bad == {n \in Nat : \E E \in SUBSET S : Cardinality(E) = n /\ ~Good(E)}
<1>4. Good({})
  <2>1. h[{}] = <<>> /\ Cardinality({}) = 0
    BY <1>3, FS_EmptySet DEF Rest
  <2>2. QED
    BY <2>1 DEF Ordering
<1>5. ASSUME NEW E \in SUBSET S, E # {}, Good(E \ {Lowest(E, rank)}) PROVE Good(E)
  <2> DEFINE x == Lowest(E, rank)
             k == Cardinality(E) - 1
             r == [y \in E |-> rank[y]]
  <2>1. x \in E /\ \A y \in E : rank[x] <= rank[y]
    BY <1>5, LowestIs
  <2>2. k \in Nat /\ Cardinality(E) = k + 1 /\ Cardinality(E \ {x}) = k
    <3>1. /\ Cardinality(E) \in Nat /\ Cardinality(E) # 0
          /\ Cardinality(E \ {x}) = Cardinality(E) - 1
      BY <1>5, WithoutLowest
    <3> HIDE DEF x
    <3>2. QED
      BY <3>1
  <2>3. h[E] = <<x>> \o h[E \ {x}]
    BY <1>3, <1>5 DEF Rest
  <2> HIDE DEF x, k
  <2>4. Ordering(h[E \ {x}], E \ {x}, r)
    <3>1. Ordering(h[E \ {x}], E \ {x}, [y \in E \ {x} |-> rank[y]])
      BY <1>5 DEF x
    <3>2. QED
      BY <2>2, <3>1 DEF Ordering
  <2>5. r \in [E -> Nat] /\ \A y \in E : r[x] <= r[y]
    BY <2>1
  <2> HIDE DEF r
  <2>6. Ordering(<<x>> \o h[E \ {x}], E, r)
    BY <2>1, <2>2, <2>4, <2>5, OneMoreInFront
  <2>7. QED
    BY <2>3, <2>6 DEF r
<1> HIDE DEF Good
<1>6. Bad = {}
  <2>1. SUFFICES ASSUME Bad # {} PROVE FALSE
    OBVIOUS
  <2>2. PICK m \in Bad : \A n \in Bad : m <= n
    <3> HIDE DEF Bad
    <3>1. Bad \in SUBSET Nat
      BY DEF Bad
    <3>2. QED
      BY <2>1, <3>1, LeastNumber
  <2>3. PICK E \in SUBSET S : Cardinality(E) = m /\ ~Good(E)
    OBVIOUS
  <2>4. E # {}
    BY <1>4, <2>3
  <2>5. /\ E \ {Lowest(E, rank)} \in SUBSET S
        /\ Cardinality(E \ {Lowest(E, rank)}) = m - 1 /\ m - 1 \in Nat
    BY <2>3, <2>4, WithoutLowest
  <2>6. ~Good(E \ {Lowest(E, rank)})
    BY <1>5, <2>3, <2>4
  <2>7. m - 1 \in Bad
    BY <2>5, <2>6
  <2>8. QED
    BY <2>2, <2>5, <2>7
<1>7. Good(S)
  BY <1>6, FS_CardinalityType
<1>8. [x \in S |-> rank[x]] = rank
  OBVIOUS
<1>9. QED
  BY <1>2, <1>7, <1>8 DEF Good

(***************************************************************************)
(* Filters.  The places of a list are chosen in increasing order.          *)
(***************************************************************************)
Increasing(order, places) ==
  /\ order \in [1..Cardinality(places) -> places]
  /\ \A k \in places : \E n \in 1..Cardinality(places) : order[n] = k
  /\ \A m, n \in 1..Cardinality(places) : m < n => order[m] < order[n]

Places(places) == InOrder(places, [k \in places |-> k])

LEMMA PlacesIncrease ==
  ASSUME NEW N \in Nat, NEW places \in SUBSET (1..N)
  PROVE  Cardinality(places) \in Nat /\ Increasing(Places(places), places)
<1> DEFINE rank == [k \in places |-> k]
           order == InOrder(places, rank)
<1>1. IsFiniteSet(places) /\ Cardinality(places) \in Nat
  <2>1. IsFiniteSet(1..N)
    BY FS_Interval
  <2>2. IsFiniteSet(places)
    BY <2>1, FS_Subset
  <2>3. QED
    BY <2>2, FS_CardinalityType
<1>2. rank \in [places -> Nat]
  OBVIOUS
<1>3. \A k \in places : rank[k] = k /\ k \in Nat
  OBVIOUS
<1>4. Places(places) = order
  BY DEF Places
<1> HIDE DEF rank
<1>5. Ordering(order, places, rank)
  BY <1>1, <1>2, OrderIsOrder
<1> HIDE DEF order
<1>6. ASSUME NEW m \in 1..Cardinality(places), NEW n \in 1..Cardinality(places), m < n
      PROVE  order[m] < order[n]
  <2>1. order[m] \in places /\ order[n] \in places
    BY <1>5 DEF Ordering
  <2>2. order[m] # order[n] /\ rank[order[m]] <= rank[order[n]]
    BY <1>5, <1>6 DEF Ordering
  <2>3. order[m] # order[n] /\ order[m] <= order[n] /\ order[m] \in Nat /\ order[n] \in Nat
    BY <1>3, <2>1, <2>2
  <2>4. \A x, y \in Nat : x # y /\ x <= y => x < y
    OBVIOUS
  <2>5. QED
    BY <2>3, <2>4
<1>7. QED
  BY <1>1, <1>4, <1>5, <1>6 DEF Ordering, Increasing

LEMMA ChosenIs ==
  ASSUME NEW X, NEW list \in Seq(X), NEW places \in SUBSET DOMAIN list
  PROVE  /\ Cardinality(places) \in Nat /\ Increasing(Places(places), places)
         /\ Chosen(list, places)
              = [n \in 1..Cardinality(places) |-> list[Places(places)[n]]]
         /\ Chosen(list, places) \in Seq(X)
         /\ Len(Chosen(list, places)) = Cardinality(places)
<1>1. DOMAIN list = 1..Len(list) /\ Len(list) \in Nat
  OBVIOUS
<1>2. Cardinality(places) \in Nat /\ Increasing(Places(places), places)
  BY <1>1, PlacesIncrease
<1>3. DOMAIN Places(places) = 1..Cardinality(places)
  BY <1>2 DEF Increasing
<1>4. Chosen(list, places) = [n \in DOMAIN Places(places) |-> list[Places(places)[n]]]
  BY DEF Chosen, Places
<1>5. \A n \in 1..Cardinality(places) : list[Places(places)[n]] \in X
  BY <1>1, <1>2 DEF Increasing
<1>6. Chosen(list, places) \in [1..Cardinality(places) -> X]
  BY <1>3, <1>4, <1>5
<1>7. Chosen(list, places) \in Seq(X) /\ Len(Chosen(list, places)) = Cardinality(places)
  BY <1>2, <1>6, SeqDef
<1>8. QED
  BY <1>2, <1>3, <1>4, <1>7

LEMMA ChosenRange ==
  ASSUME NEW X, NEW list \in Seq(X), NEW places \in SUBSET DOMAIN list
  PROVE  Range(Chosen(list, places)) = {list[k] : k \in places}
<1> DEFINE order == Places(places)
           C == Cardinality(places)
<1>1. Increasing(order, places) /\ Chosen(list, places) = [n \in 1..C |-> list[order[n]]]
  BY ChosenIs
<1>2. Range(Chosen(list, places)) = {list[order[n]] : n \in 1..C}
  BY <1>1 DEF Range
<1> HIDE DEF order, C
<1>3. ASSUME NEW n \in 1..C PROVE list[order[n]] \in {list[k] : k \in places}
  BY <1>1 DEF Increasing, C
<1>4. ASSUME NEW k \in places PROVE list[k] \in {list[order[n]] : n \in 1..C}
  <2>1. PICK n \in 1..C : order[n] = k
    BY <1>1 DEF Increasing, C
  <2>2. QED
    BY <2>1
<1>5. QED
  BY <1>2, <1>3, <1>4

\* The first of an interval's places is its first member, and so on.
LEMMA IntervalPlaces ==
  ASSUME NEW k \in Nat, NEW C \in Nat, NEW order \in [1..C -> (k + 1)..(k + C)],
         \A m, n \in 1..C : m < n => order[m] < order[n]
  PROVE  \A n \in 1..C : order[n] = n + k
<1>1. \A n \in 1..C : order[n] \in Nat /\ k + 1 <= order[n] /\ order[n] <= k + C
  OBVIOUS
<1> DEFINE low == {n \in 1..C : order[n] < n + k}
           high == {d \in 0..C : C - d \in 1..C /\ order[C - d] > C - d + k}
<1>2. low = {}
  <2>1. SUFFICES ASSUME low # {} PROVE FALSE
    OBVIOUS
  <2>2. PICK n \in low : \A m \in low : n <= m
    <3>1. low \in SUBSET Nat
      OBVIOUS
    <3> HIDE DEF low
    <3>2. QED
      BY <2>1, <3>1, LeastNumber
  <2>3. n \in 1..C /\ order[n] < n + k /\ n # 1
    BY <1>1, <2>2
  <2>4. n - 1 \in 1..C /\ n - 1 < n /\ n - 1 \notin low
    BY <2>2, <2>3
  <2>5. order[n - 1] >= n - 1 + k /\ order[n - 1] < order[n]
    BY <1>1, <2>3, <2>4
  <2>6. QED
    BY <1>1, <2>3, <2>4, <2>5
<1>3. high = {}
  <2>1. SUFFICES ASSUME high # {} PROVE FALSE
    OBVIOUS
  <2>2. PICK d \in high : \A e \in high : d <= e
    <3>1. high \in SUBSET Nat
      OBVIOUS
    <3> HIDE DEF high
    <3>2. QED
      BY <2>1, <3>1, LeastNumber
  <2>3. d \in 0..C /\ C - d \in 1..C /\ order[C - d] > C - d + k /\ d # 0
    BY <1>1, <2>2
  <2>4. d - 1 \in 0..C /\ C - (d - 1) \in 1..C /\ C - (d - 1) = (C - d) + 1
    BY <2>3
  <2>7. d - 1 \notin high
    <3>1. ~(d <= d - 1)
      BY <2>3
    <3>2. QED
      BY <2>2, <3>1
  <2>8. ~(order[C - (d - 1)] > C - (d - 1) + k)
    BY <2>4, <2>7
  <2>5. order[(C - d) + 1] <= (C - d) + 1 + k /\ order[C - d] < order[(C - d) + 1]
    <3>1. ~(order[(C - d) + 1] > (C - d) + 1 + k)
      BY <2>4, <2>8
    <3>2. (C - d) + 1 \in 1..C /\ C - d < (C - d) + 1
      BY <2>3, <2>4
    <3>3. QED
      BY <1>1, <2>3, <3>1, <3>2
  <2>6. QED
    BY <1>1, <2>3, <2>4, <2>5
<1>4. ASSUME NEW n \in 1..C PROVE order[n] = n + k
  <2> DEFINE d == C - n
  <2>1. d \in 0..C /\ C - d = n
    OBVIOUS
  <2> HIDE DEF d
  <2>2. ~(order[n] > n + k)
    <3>1. d \notin high
      BY <1>3
    <3>2. QED
      BY <2>1, <3>1
  <2>3. ~(order[n] < n + k)
    BY <1>2
  <2>4. order[n] \in Nat
    BY <1>1
  <2>5. QED
    BY <2>2, <2>3, <2>4
<1>5. QED
  BY <1>4

LEMMA ChosenTail ==
  ASSUME NEW X, NEW list \in Seq(X), NEW k \in 0..Len(list)
  PROVE  Chosen(list, (k + 1)..Len(list)) = SubSeq(list, k + 1, Len(list))
<1> DEFINE places == (k + 1)..Len(list)
           C == Len(list) - k
           order == Places(places)
<1>1. C \in Nat /\ Len(list) = k + C /\ Len(list) \in Nat /\ k \in Nat
  OBVIOUS
<1>2. Cardinality(places) = C
  <2>1. Cardinality((k + 1)..Len(list))
          = IF k + 1 > Len(list) THEN 0 ELSE Len(list) - (k + 1) + 1
    <3>1. k + 1 \in Int /\ Len(list) \in Int
      BY <1>1
    <3>2. QED
      BY <3>1, FS_Interval
  <2>2. QED
    BY <1>1, <2>1
<1>3. places \in SUBSET DOMAIN list
  BY <1>1
<1> HIDE DEF C
<1>4. /\ Increasing(order, places)
      /\ Chosen(list, places) = [n \in 1..C |-> list[order[n]]]
      /\ Chosen(list, places) \in Seq(X) /\ Len(Chosen(list, places)) = C
  BY <1>2, <1>3, ChosenIs
<1>5. \A n \in 1..C : order[n] = n + k
  <2>1. order \in [1..C -> (k + 1)..(k + C)] /\ \A m, n \in 1..C : m < n => order[m] < order[n]
    BY <1>1, <1>2, <1>4 DEF Increasing
  <2> HIDE DEF order
  <2>2. QED
    BY <1>1, <2>1, IntervalPlaces
<1> HIDE DEF order, places
<1>6. \A n \in 1..C : Chosen(list, places)[n] = list[n + k]
  BY <1>4, <1>5
<1> DEFINE tail == SubSeq(list, k + 1, Len(list))
<1>7. tail \in Seq(X) /\ Len(tail) = C /\ \A n \in 1..C : tail[n] = list[n + k]
  <2>1. \A i \in (k + 1)..Len(list) : list[i] \in X
    BY <1>1
  <2>2. /\ tail \in Seq(X)
        /\ Len(tail) = IF k + 1 <= Len(list) THEN Len(list) - (k + 1) + 1 ELSE 0
        /\ \A i \in 1..(Len(list) - (k + 1) + 1) : tail[i] = list[(k + 1) + i - 1]
    BY <1>1, <2>1, SubSeqProperties
  <2> HIDE DEF tail
  <2>3. Len(tail) = C /\ Len(list) - (k + 1) + 1 = C
    BY <1>1, <2>2
  <2>4. \A n \in 1..C : (k + 1) + n - 1 = n + k
    BY <1>1
  <2>5. QED
    BY <2>2, <2>3, <2>4
<1> HIDE DEF tail
<1>8. Chosen(list, places) = tail
  BY <1>4, <1>6, <1>7, SeqEqual
<1>9. QED
  BY <1>8 DEF places, tail

(***************************************************************************)
(* Exports.  Rows come with increasing ids, so what is behind an id is a   *)
(* tail of them, and the batches add up to it.                             *)
(***************************************************************************)
ByIds(rows) ==
  /\ \A n \in DOMAIN rows : rows[n].id \in Nat \ {0}
  /\ \A m, n \in DOMAIN rows : m < n => rows[m].id < rows[n].id

LEMMA ChosenByIds ==
  ASSUME NEW X, NEW rows \in Seq(X), NEW places \in SUBSET DOMAIN rows, ByIds(rows)
  PROVE  ByIds(Chosen(rows, places))
<1> DEFINE order == Places(places)
           C == Cardinality(places)
<1>1. /\ Increasing(order, places)
      /\ Chosen(rows, places) = [n \in 1..C |-> rows[order[n]]]
  BY ChosenIs
<1>2. /\ \A n \in 1..C : order[n] \in DOMAIN rows
      /\ \A m, n \in 1..C : m < n => order[m] < order[n]
  BY <1>1 DEF Increasing
<1> HIDE DEF order, C
<1>3. DOMAIN Chosen(rows, places) = 1..C
      /\ \A n \in 1..C : Chosen(rows, places)[n] = rows[order[n]]
  BY <1>1
<1>4. QED
  BY <1>2, <1>3 DEF ByIds

IdAt(rows, k) == IF k = 0 THEN 0 ELSE rows[k].id
Ids(rows) == {0} \union {rows[k].id : k \in DOMAIN rows}

Streaming(rows, size, from, seen) ==
  IF Len(Batch(rows, seen, size)) < size THEN Batch(rows, seen, size)
  ELSE Batch(rows, seen, size) \o from[Last(Batch(rows, seen, size)).id]

Streams(rows, size, from) ==
  from = [seen \in Ids(rows) |-> Streaming(rows, size, from, seen)]

LEMMA StreamedIs ==
  ASSUME NEW rows, NEW size
  PROVE  Streamed(rows, size) = (CHOOSE from : Streams(rows, size, from))[0]
BY Zenon DEF Streamed, Streams, Streaming, Ids

Tailed(rows, k) == SubSeq(rows, k + 1, Len(rows))

LEMMA BatchIs ==
  ASSUME NEW X, NEW rows \in Seq(X), ByIds(rows), NEW k \in 0..Len(rows), NEW size \in Nat
  PROVE  Batch(rows, IdAt(rows, k), size)
           = SubSeq(rows, k + 1, IF k + size < Len(rows) THEN k + size ELSE Len(rows))
<1> DEFINE L == Len(rows)
           C == L - k
<1>1. L \in Nat /\ DOMAIN rows = 1..L /\ k \in Nat /\ C \in Nat /\ L = k + C
  OBVIOUS
<1>2. {n \in DOMAIN rows : rows[n].id > IdAt(rows, k)} = (k + 1)..L
  <2>1. ASSUME NEW n \in 1..L PROVE rows[n].id > IdAt(rows, k) <=> n > k
    <3>1. CASE k = 0
      BY <1>1, <3>1 DEF ByIds, IdAt
    <3>2. CASE k # 0
      <4>1. IdAt(rows, k) = rows[k].id /\ k \in DOMAIN rows /\ n \in DOMAIN rows
        BY <1>1, <3>2 DEF IdAt
      <4>2. rows[k].id \in Nat /\ rows[n].id \in Nat
        BY <4>1 DEF ByIds
      <4>3. n > k => rows[k].id < rows[n].id
        BY <1>1, <4>1 DEF ByIds
      <4>4. n < k => rows[n].id < rows[k].id
        BY <1>1, <4>1 DEF ByIds
      <4>5. CASE n > k
        BY <4>1, <4>2, <4>3, <4>5
      <4>6. CASE n = k
        BY <4>1, <4>2, <4>6, <1>1
      <4>7. CASE n < k
        BY <4>1, <4>2, <4>4, <4>7, <1>1
      <4>8. QED
        BY <1>1, <4>5, <4>6, <4>7
    <3>3. QED
      BY <3>1, <3>2
  <2>2. QED
    BY <1>1, <2>1
<1>3. Chosen(rows, {n \in DOMAIN rows : rows[n].id > IdAt(rows, k)}) = SubSeq(rows, k + 1, L)
  BY <1>2, ChosenTail
<1> DEFINE tail == SubSeq(rows, k + 1, L)
<1>4. tail \in Seq(X) /\ Len(tail) = C
  <2>1. \A i \in (k + 1)..L : rows[i] \in X
    BY <1>1
  <2>2. /\ tail \in Seq(X)
        /\ Len(tail) = IF k + 1 <= L THEN L - (k + 1) + 1 ELSE 0
    BY <1>1, <2>1, SubSeqProperties
  <2> HIDE DEF tail, L, C
  <2>3. QED
    BY <1>1, <2>2
<1>5. Batch(rows, IdAt(rows, k), size) = SubSeq(tail, 1, IF size < C THEN size ELSE C)
  <2>1. 0 + 1 = 1 /\ 0 + size = size
    OBVIOUS
  <2> HIDE DEF tail, C, L
  <2>2. Batch(rows, IdAt(rows, k), size) = Limit(tail, 0, size)
    BY <1>3 DEF Batch, tail
  <2>3. Limit(tail, 0, size) = SubSeq(tail, 1, IF size < C THEN size ELSE C)
    BY <1>4, <2>1 DEF Limit
  <2>4. QED
    BY <2>2, <2>3
<1>6. CASE C = 0
  <2> HIDE DEF L, C
  <2>1. ~(k + size < L) /\ k = L
    BY <1>1, <1>6
  <2>2. tail = SubSeq(tail, 1, C)
    BY <1>4, SubSeqFull
  <2>3. ~(size < C)
    BY <1>6
  <2>4. QED
    BY <1>5, <2>1, <2>2, <2>3 DEF tail, L
<1>7. CASE C # 0 /\ size < C
  <2>1. CASE size = 0
    <3>1. SubSeq(tail, 1, 0) = <<>> /\ SubSeq(rows, k + 1, k + 0) = <<>>
      BY <1>1, SubSeqEmpty
    <3> HIDE DEF C, tail
    <3>2. k + size < L
      <4> HIDE DEF L
      <4>1. QED
        BY <1>1, <1>7
    <3>3. QED
      BY <1>5, <1>7, <2>1, <3>1, <3>2
  <2>2. CASE size # 0
    <3> HIDE DEF L, C
    <3>1. k + 1 \in 1..L /\ L \in 1..L /\ 1 \in 1..(L - (k + 1) + 1)
          /\ size \in 1..(L - (k + 1) + 1) /\ (k + 1) + 1 - 1 = k + 1
          /\ (k + 1) + size - 1 = k + size /\ k + size < L
      BY <1>1, <1>7, <2>2
    <3>2. SubSeq(tail, 1, size) = SubSeq(rows, (k + 1) + 1 - 1, (k + 1) + size - 1)
      BY <3>1, SubSeqOfSubSeq DEF L
    <3>3. SubSeq(tail, 1, size) = SubSeq(rows, k + 1, k + size)
      BY <3>1, <3>2
    <3> HIDE DEF tail
    <3>4. QED
      BY <1>5, <1>7, <3>1, <3>3 DEF L
  <2>3. QED
    BY <2>1, <2>2
<1>8. CASE ~(size < C)
  <2> HIDE DEF L, C
  <2>1. ~(k + size < L)
    BY <1>1, <1>8
  <2>2. tail = SubSeq(tail, 1, C)
    BY <1>4, SubSeqFull
  <2>3. QED
    BY <1>5, <1>8, <2>1, <2>2 DEF tail, L
<1>9. QED
  BY <1>6, <1>7, <1>8

LEMMA StreamStep ==
  ASSUME NEW X, NEW rows \in Seq(X), ByIds(rows), NEW size \in Nat \ {0},
         NEW k \in 0..Len(rows), NEW from,
         k + size <= Len(rows) => from[IdAt(rows, k + size)] = Tailed(rows, k + size)
  PROVE  Streaming(rows, size, from, IdAt(rows, k)) = Tailed(rows, k)
<1> DEFINE L == Len(rows)
           batch == Batch(rows, IdAt(rows, k), size)
<1>1. L \in Nat /\ k \in Nat /\ DOMAIN rows = 1..L /\ \A i \in 1..L : rows[i] \in X
  OBVIOUS
<1>2. CASE k + size <= L
  <2>1. batch = SubSeq(rows, k + 1, k + size)
    <3>1. ~(k + size < L) => k + size = L
      <4> HIDE DEF L
      <4>1. QED
        BY <1>1, <1>2
    <3>2. QED
      BY <3>1, BatchIs
  <2>2. /\ Len(batch) = size /\ batch[size] = rows[k + size]
    <3>1. /\ k + 1 \in Int /\ k + size \in Int /\ \A i \in (k + 1)..(k + size) : rows[i] \in X
      BY <1>1, <1>2
    <3>2. /\ Len(SubSeq(rows, k + 1, k + size))
               = IF k + 1 <= k + size THEN (k + size) - (k + 1) + 1 ELSE 0
          /\ \A i \in 1..((k + size) - (k + 1) + 1) :
               SubSeq(rows, k + 1, k + size)[i] = rows[(k + 1) + i - 1]
      BY <3>1, SubSeqProperties
    <3>3. (k + size) - (k + 1) + 1 = size /\ k + 1 <= k + size /\ size \in 1..size
          /\ (k + 1) + size - 1 = k + size
      BY <1>1
    <3> HIDE DEF batch
    <3>4. QED
      BY <2>1, <3>2, <3>3
  <2> HIDE DEF batch
  <2>3. Last(batch).id = IdAt(rows, k + size)
    <3>1. k + size # 0
      BY <1>1
    <3>2. QED
      BY <2>2, <3>1 DEF Last, IdAt
  <2>4. Streaming(rows, size, from, IdAt(rows, k)) = batch \o Tailed(rows, k + size)
    BY <1>2, <2>2, <2>3 DEF Streaming, batch
  <2>5. /\ k + 1 \in 1..(L + 1) /\ k + size \in ((k + 1) - 1)..L /\ L \in (k + size)..L
    BY <1>1, <1>2
  <2>6. SubSeq(rows, k + 1, k + size) \o SubSeq(rows, (k + size) + 1, L) = SubSeq(rows, k + 1, L)
    BY <2>5, ConcatAdjacentSubSeq
  <2>7. QED
    BY <2>1, <2>4, <2>6 DEF Tailed
<1>3. CASE ~(k + size <= L)
  <2>1. batch = SubSeq(rows, k + 1, L)
    <3>1. ~(k + size < L)
      BY <1>1, <1>3
    <3>2. QED
      BY <3>1, BatchIs
  <2>2. Len(batch) < size
    <3>1. Len(SubSeq(rows, k + 1, L)) = IF k + 1 <= L THEN L - (k + 1) + 1 ELSE 0
      <4>1. \A i \in (k + 1)..L : rows[i] \in X
        BY <1>1
      <4>2. QED
        BY <1>1, <4>1, SubSeqProperties
    <3> HIDE DEF batch, L
    <3>2. QED
      BY <1>1, <1>3, <2>1, <3>1
  <2>3. QED
    BY <2>1, <2>2 DEF Streaming, Tailed
<1>4. QED
  BY <1>2, <1>3

LEMMA StreamedAll ==
  ASSUME NEW X, NEW rows \in Seq(X), ByIds(rows), NEW size \in Nat \ {0}
  PROVE  Streamed(rows, size) = rows
<1> DEFINE L == Len(rows)
<1>1. L \in Nat /\ DOMAIN rows = 1..L
  OBVIOUS
<1>2. \A seen \in Ids(rows) : \E k \in 0..L : seen = IdAt(rows, k)
  <2>1. \A k \in 1..L : k # 0 /\ k \in 0..L
    BY <1>1
  <2>2. 0 \in 0..L
    BY <1>1
  <2>3. QED
    BY <1>1, <2>1, <2>2 DEF Ids, IdAt
<1>3. \A k \in 0..L : IdAt(rows, k) \in Ids(rows)
  BY <1>1 DEF Ids, IdAt
<1>4. \E from : Streams(rows, size, from)
  <2> DEFINE at(seen) == CHOOSE k \in 0..L : seen = IdAt(rows, k)
             tails == [seen \in Ids(rows) |-> Tailed(rows, at(seen))]
  <2>1. ASSUME NEW k \in 0..L PROVE at(IdAt(rows, k)) = k
    <3>1. ASSUME NEW j \in 0..L, IdAt(rows, k) = IdAt(rows, j) PROVE j = k
      <4>1. ASSUME NEW m \in 0..L, NEW n \in 0..L, m < n
            PROVE  IdAt(rows, m) < IdAt(rows, n)
        <5>1. n \in 1..L /\ n # 0 /\ (m # 0 => m \in 1..L)
          BY <1>1, <4>1
        <5>2. CASE m = 0
          BY <1>1, <5>1, <5>2 DEF ByIds, IdAt
        <5>3. CASE m # 0
          BY <1>1, <4>1, <5>1, <5>3 DEF ByIds, IdAt
        <5>4. QED
          BY <5>2, <5>3
      <4>2. \A n \in 0..L : IdAt(rows, n) \in Nat
        BY <1>1 DEF ByIds, IdAt
      <4>3. ~(j < k) /\ ~(k < j)
        BY <3>1, <4>1, <4>2
      <4>4. QED
        BY <1>1, <4>3
    <3>2. QED
      BY <3>1
  <2> HIDE DEF at
  <2>2. \A k \in 0..L : tails[IdAt(rows, k)] = Tailed(rows, k)
    BY <1>3, <2>1
  <2> HIDE DEF tails
  <2>3. ASSUME NEW seen \in Ids(rows) PROVE Streaming(rows, size, tails, seen) = Tailed(rows, at(seen))
    <3>1. PICK k \in 0..L : seen = IdAt(rows, k)
      BY <1>2
    <3>2. k + size <= L => tails[IdAt(rows, k + size)] = Tailed(rows, k + size)
      BY <1>1, <2>2
    <3>3. Streaming(rows, size, tails, IdAt(rows, k)) = Tailed(rows, k)
      BY <3>2, StreamStep
    <3>4. QED
      BY <2>1, <3>1, <3>3
  <2>4. Streams(rows, size, tails)
    BY <2>3 DEF Streams, tails
  <2>5. QED
    BY <2>4
<1> DEFINE h == CHOOSE from : Streams(rows, size, from)
<1>5. Streams(rows, size, h) /\ Streamed(rows, size) = h[0]
  BY <1>4, StreamedIs
<1> HIDE DEF h
<1>6. \A k \in 0..L : h[IdAt(rows, k)] = Streaming(rows, size, h, IdAt(rows, k))
  BY <1>3, <1>5 DEF Streams
<1> DEFINE Bad == {d \in 0..L : h[IdAt(rows, L - d)] # Tailed(rows, L - d)}
<1>7. Bad = {}
  <2>1. SUFFICES ASSUME Bad # {} PROVE FALSE
    OBVIOUS
  <2>2. PICK d \in Bad : \A e \in Bad : d <= e
    <3>1. Bad \in SUBSET Nat
      BY <1>1
    <3> HIDE DEF Bad
    <3>2. QED
      BY <2>1, <3>1, LeastNumber
  <2> DEFINE k == L - d
  <2>3. d \in 0..L /\ k \in 0..L /\ h[IdAt(rows, k)] # Tailed(rows, k)
    BY <1>1, <2>2
  <2>4. ASSUME k + size <= L PROVE h[IdAt(rows, k + size)] = Tailed(rows, k + size)
    <3> DEFINE e == d - size
    <3>1. e \in 0..L /\ L - e = k + size /\ ~(d <= e)
      BY <1>1, <2>3, <2>4
    <3>2. e \notin Bad
      BY <2>2, <3>1
    <3> HIDE DEF e, k
    <3>3. QED
      BY <3>1, <3>2
  <2> HIDE DEF k
  <2>5. Streaming(rows, size, h, IdAt(rows, k)) = Tailed(rows, k)
    BY <2>3, <2>4, StreamStep
  <2>6. QED
    BY <1>6, <2>3, <2>5
<1>8. h[IdAt(rows, 0)] = Tailed(rows, 0)
  <2>1. L \in 0..L /\ L - L = 0
    BY <1>1
  <2>2. L \notin Bad
    BY <1>7
  <2>3. QED
    BY <2>1, <2>2
<1>9. IdAt(rows, 0) = 0 /\ Tailed(rows, 0) = rows
  <2>1. 0 + 1 = 1
    OBVIOUS
  <2>2. SubSeq(rows, 1, L) = rows
    BY SubSeqFull
  <2>3. QED
    BY <2>1, <2>2 DEF IdAt, Tailed
<1>10. QED
  BY <1>5, <1>8, <1>9

(***************************************************************************)
(* Pages.  What the first pages hold together is the beginning of the      *)
(* list, and the last page ends with it.                                   *)
(***************************************************************************)
PagesFor(L, size) == (L + size - 1) \div size

LEMMA QuotientIs ==
  ASSUME NEW n \in Nat, NEW size \in Nat \ {0}
  PROVE  /\ n \div size \in Nat
         /\ (n \div size) * size <= n /\ n < (n \div size) * size + size
OBVIOUS

LEMMA Multiples ==
  ASSUME NEW T \in Nat, NEW size \in Nat \ {0}, NEW p \in Nat, p <= T
  PROVE  /\ p * size \in Nat /\ p * size <= T * size
         /\ (p + 1) * size = p * size + size
         /\ p < T => p * size + size <= T * size
<1>1. p * size \in Nat /\ (p + 1) * size = p * size + size
  OBVIOUS
<1>2. PICK d \in Nat : T = p + d
  <2>1. T - p \in Nat /\ T = p + (T - p)
    OBVIOUS
  <2>2. QED
    BY <2>1
<1>3. d * size \in Nat /\ T * size = p * size + d * size
  BY <1>2
<1>4. ASSUME p < T PROVE p * size + size <= T * size
  <2>1. PICK e \in Nat : d = e + 1
    <3>1. d - 1 \in Nat /\ d = (d - 1) + 1
      BY <1>2, <1>4
    <3>2. QED
      BY <3>1
  <2>2. e * size \in Nat /\ d * size = e * size + size
    BY <2>1
  <2>3. QED
    BY <1>1, <1>3, <2>2
<1>5. QED
  BY <1>1, <1>3, <1>4

LEMMA PageBounds ==
  ASSUME NEW L \in Nat, NEW size \in Nat \ {0}
  PROVE  /\ PagesFor(L, size) \in Nat /\ (L = 0 <=> PagesFor(L, size) = 0)
         /\ L <= PagesFor(L, size) * size
         /\ \A p \in 0..PagesFor(L, size) :
              /\ p * size \in Nat /\ (p + 1) * size = p * size + size
              /\ p < PagesFor(L, size) => p * size < L
<1> DEFINE n == L + size - 1
           T == PagesFor(L, size)
<1>1. n \in Nat /\ n + 1 = L + size /\ T = n \div size
  BY DEF PagesFor
<1> HIDE DEF n
<1>2. T \in Nat /\ T * size <= n /\ n < T * size + size
  BY <1>1, QuotientIs
<1> HIDE DEF T
<1>3. T * size \in Nat
  BY <1>2
<1>4. L <= T * size
  BY <1>1, <1>2, <1>3
<1>5. L = 0 <=> T = 0
  <2>1. CASE T = 0
    BY <1>4, <2>1
  <2>2. CASE T # 0
    <3>1. 0 * size + size <= T * size /\ 0 * size = 0
      BY <1>2, <2>2, Multiples
    <3>2. QED
      BY <1>1, <1>2, <1>3, <2>2, <3>1
  <2>3. QED
    BY <2>1, <2>2
<1>6. ASSUME NEW p \in 0..T
      PROVE  /\ p * size \in Nat /\ (p + 1) * size = p * size + size
             /\ p < T => p * size < L
  <2>1. /\ p * size \in Nat /\ (p + 1) * size = p * size + size
        /\ p < T => p * size + size <= T * size
    BY <1>2, Multiples
  <2>2. QED
    BY <1>1, <1>2, <1>3, <2>1
<1>7. QED
  BY <1>2, <1>4, <1>5, <1>6 DEF T

Flattening(seqs, f, i) == IF i = 1 THEN seqs[i] ELSE f[i - 1] \o seqs[i]
Flattens(seqs, f) == f = [i \in 1..Len(seqs) |-> Flattening(seqs, f, i)]

LEMMA FlattenIs ==
  ASSUME NEW seqs, Len(seqs) # 0
  PROVE  FlattenSeq(seqs) = (CHOOSE f : Flattens(seqs, f))[Len(seqs)]
BY Zenon DEF FlattenSeq, Flattens, Flattening

\* A list of lists is flattened to what their beginnings add up to.
LEMMA FlattenAdds ==
  ASSUME NEW T \in Nat \ {0}, NEW X, NEW seqs \in [1..T -> X], NEW g,
         g = [i \in 1..T |-> g[i]],
         \A i \in 1..T : Flattening(seqs, g, i) = g[i]
  PROVE  FlattenSeq(seqs) = g[T]
<1>1. Len(seqs) = T
  <2>1. seqs \in Seq(X)
    BY SeqDef
  <2>2. QED
    BY <2>1, LenProperties
<1> DEFINE f == CHOOSE x : Flattens(seqs, x)
<1>2. Flattens(seqs, g)
  BY <1>1 DEF Flattens
<1>3. Flattens(seqs, f) /\ FlattenSeq(seqs) = f[T]
  BY <1>1, <1>2, FlattenIs
<1> HIDE DEF f
<1>4. \A i \in 1..T : f[i] = Flattening(seqs, f, i)
  BY <1>1, <1>3 DEF Flattens
<1> DEFINE Bad == {i \in 1..T : f[i] # g[i]}
<1>5. Bad = {}
  <2>1. SUFFICES ASSUME Bad # {} PROVE FALSE
    OBVIOUS
  <2>2. PICK i \in Bad : \A j \in Bad : i <= j
    <3>1. Bad \in SUBSET Nat
      OBVIOUS
    <3> HIDE DEF Bad
    <3>2. QED
      BY <2>1, <3>1, LeastNumber
  <2>3. i \in 1..T /\ f[i] # g[i]
    BY <2>2
  <2>4. CASE i = 1
    BY <1>4, <2>3, <2>4 DEF Flattening
  <2>5. CASE i # 1
    <3>1. i - 1 \in 1..T /\ ~(i <= i - 1)
      BY <2>3, <2>5
    <3>2. f[i - 1] = g[i - 1]
      BY <2>2, <3>1
    <3>3. QED
      BY <1>4, <2>3, <3>2 DEF Flattening
  <2>6. QED
    BY <2>4, <2>5
<1>6. QED
  BY <1>3, <1>5

LEMMA PagesAll ==
  ASSUME NEW X, NEW rows \in Seq(X), NEW size \in Nat \ {0}
  PROVE  FlattenSeq([p \in 1..PagesFor(Len(rows), size) |-> PageOf(rows, p, size)]) = rows
<1> DEFINE L == Len(rows)
           T == PagesFor(L, size)
           page(p) == PageOf(rows, p, size)
           upto(p) == IF p * size < L THEN p * size ELSE L
           seqs == [p \in 1..T |-> page(p)]
           g == [p \in 1..T |-> SubSeq(rows, 1, upto(p))]
<1>1. L \in Nat
  OBVIOUS
<1>2. /\ T \in Nat /\ (L = 0 <=> T = 0)
      /\ L <= T * size
      /\ \A p \in 0..T : /\ p * size \in Nat /\ (p + 1) * size = p * size + size
                         /\ p < T => p * size < L
  BY <1>1, PageBounds
<1>3. CASE T = 0
  <2>1. 1..T = {}
    BY <1>3
  <2>2. seqs = <<>>
    BY <2>1
  <2>3. rows = <<>>
    BY <1>2, <1>3
  <2>4. FlattenSeq(<<>>) = <<>>
    BY DEF FlattenSeq
  <2>5. QED
    BY <2>2, <2>3, <2>4
<1>4. CASE T # 0
  <2> HIDE DEF T
  <2>1. ASSUME NEW p \in 1..T PROVE Flattening(seqs, g, p) = g[p]
    <3> DEFINE q == p - 1
    <3>1. q \in 0..T /\ q < T /\ q + 1 = p /\ p \in 0..T /\ q \in Int
      BY <1>2
    <3>2. /\ q * size \in Nat /\ q * size < L /\ p * size = q * size + size
          /\ p * size \in Nat
      BY <1>2, <3>1
    <3>3. page(p) = SubSeq(rows, q * size + 1, upto(p))
      BY <3>2 DEF PageOf, Limit
    <3>4. seqs[p] = page(p) /\ g[p] = SubSeq(rows, 1, upto(p))
      OBVIOUS
    <3>5. CASE p = 1
      <4>1. q * size + 1 = 1
        BY <3>5
      <4> HIDE DEF seqs, g, page, upto
      <4>2. QED
        BY <3>3, <3>4, <3>5, <4>1 DEF Flattening
    <3>6. CASE p # 1
      <4>1. q \in 1..T /\ upto(q) = q * size
        BY <3>1, <3>2, <3>6
      <4>2. g[q] = SubSeq(rows, 1, q * size)
        BY <4>1
      <4> HIDE DEF q, L
      <4>3. q * size \in 0..L /\ upto(p) \in (q * size)..L
        BY <1>1, <3>2
      <4>4. 1 \in 1..(L + 1) /\ q * size \in (1 - 1)..L
        BY <1>1, <4>3
      <4> HIDE DEF upto, g, seqs, page
      <4>5. SubSeq(rows, 1, q * size) \o SubSeq(rows, q * size + 1, upto(p))
              = SubSeq(rows, 1, upto(p))
        BY <4>3, <4>4, ConcatAdjacentSubSeq DEF L
      <4>6. QED
        BY <3>3, <3>4, <3>6, <4>2, <4>5 DEF Flattening, q
    <3>7. QED
      BY <3>5, <3>6
  <2>2. seqs \in [1..T -> {page(p) : p \in 1..T}] /\ T \in Nat \ {0}
    BY <1>2, <1>4
  <2>3. g = [p \in 1..T |-> g[p]]
    OBVIOUS
  <2>4. g[T] = rows
    <3>1. T \in 1..T /\ ~(T * size < L)
      BY <1>1, <1>2, <1>4
    <3>2. upto(T) = L
      BY <3>1
    <3>3. SubSeq(rows, 1, L) = rows
      BY SubSeqFull
    <3>4. QED
      BY <3>1, <3>2, <3>3
  <2> HIDE DEF g, seqs
  <2>5. FlattenSeq(seqs) = g[T]
    BY <2>1, <2>2, <2>3, FlattenAdds
  <2>6. QED
    BY <2>4, <2>5 DEF seqs, T
<1>5. QED
  BY <1>3, <1>4

(***************************************************************************)
(* A run has finitely many results and errors.                             *)
(***************************************************************************)
LEMMA ImageFinite ==
  ASSUME NEW S, IsFiniteSet(S), NEW f, f = [x \in S |-> f[x]]
  PROVE  IsFiniteSet({f[x] : x \in S})
<1>1. f \in Surjection(S, {f[x] : x \in S})
  BY DEF Surjection
<1>2. QED
  BY <1>1, FS_Surjection

LEMMA FewFinite ==
  ASSUME NEW v, NEW w, NEW x, NEW y, NEW z
  PROVE  IsFiniteSet({v, w, x, y, z})
<1>1. IsFiniteSet({v})
  BY FS_Singleton
<1>2. IsFiniteSet({v} \union {w})
  BY <1>1, FS_AddElement
<1>3. IsFiniteSet({v} \union {w} \union {x})
  BY <1>2, FS_AddElement
<1>4. IsFiniteSet({v} \union {w} \union {x} \union {y})
  BY <1>3, FS_AddElement
<1>5. IsFiniteSet({v} \union {w} \union {x} \union {y} \union {z})
  BY <1>4, FS_AddElement
<1>6. {v} \union {w} \union {x} \union {y} \union {z} = {v, w, x, y, z}
  OBVIOUS
<1>7. QED
  BY <1>5, <1>6

LEMMA CompareFinite ==
  ASSUME NEW a, NEW t, NEW n
  PROVE  IsFiniteSet(Compare(a, t, n))
<1> DEFINE fewAmounts == {"SUBTOTAL_AMOUNT_MISMATCH", "DISCOUNT_AMOUNT_MISMATCH",
                          "VAT_AMOUNT_MISMATCH", "TOTAL_AMOUNT_MISMATCH", "NET_AMOUNT_MISMATCH"}
           fewItems == {"ITEM_COUNT_MISMATCH", "ITEM_QUANTITY_SUM_MISMATCH",
                        "ITEM_VAT_SUM_MISMATCH", "ITEM_TOTAL_SUM_MISMATCH",
                        "ITEM_TOTAL_SUM_MISMATCH"}
           fewOthers == {"COUNTERPARTY_TAX_ID_MISMATCH", "COUNTERPARTY_NAME_MISMATCH",
                         "INVOICE_DATE_MISMATCH", "CURRENCY_MISMATCH", "CURRENCY_MISMATCH"}
<1>1. IsFiniteSet(fewAmounts) /\ IsFiniteSet(fewItems) /\ IsFiniteSet(fewOthers)
  BY FewFinite
<1>2. AmountErrors(a, t, n) \subseteq fewAmounts
  BY AmountCodes
<1>3. ItemErrors(a, t, n) \subseteq fewItems
  <2>1. ItemErrors(a, t, n) \subseteq {"ITEM_COUNT_MISMATCH", "ITEM_QUANTITY_SUM_MISMATCH",
                        "ITEM_VAT_SUM_MISMATCH", "ITEM_TOTAL_SUM_MISMATCH"}
    BY ItemCodes
  <2>2. QED
    BY <2>1
<1>4. /\ DateErrors(a, t) \subseteq fewOthers /\ CurrencyErrors(a, t) \subseteq fewOthers
      /\ PartyErrors(a, t) \subseteq fewOthers
  <2>1. PartyErrors(a, t) \subseteq fewOthers
    BY PartyCodes DEF PartyErrorTypes
  <2>2. QED
    BY <2>1 DEF DateErrors, CurrencyErrors, TextError
<1> HIDE DEF fewAmounts, fewItems, fewOthers
<1>5. Compare(a, t, n) \subseteq fewAmounts \union fewItems \union fewOthers
  BY <1>2, <1>3, <1>4, Zenon DEF Compare
<1>6. IsFiniteSet(fewAmounts \union fewItems)
  BY <1>1, FS_Union
<1>7. IsFiniteSet(fewAmounts \union fewItems \union fewOthers)
  BY <1>1, <1>6, FS_Union
<1>8. QED
  BY <1>5, <1>7, FS_Subset

LEMMA RowsForFinite ==
  ASSUME NEW r
  PROVE  IsFiniteSet(RowsFor(r))
<1>1. ASSUME NEW source, NEW id, NEW types, IsFiniteSet(types)
      PROVE  IsFiniteSet(Errors(source, id, types))
  <2> DEFINE f == [e \in types |-> [source |-> source, id |-> id, type |-> e]]
  <2>1. f = [e \in types |-> f[e]] /\ Errors(source, id, types) = {f[e] : e \in types}
    BY DEF Errors
  <2> HIDE DEF f
  <2>2. QED
    BY <1>1, <2>1, ImageFinite
<1>2. IsFiniteSet(Mismatches(r))
  BY CompareFinite DEF Mismatches
<1>3. IsFiniteSet({"INVALID_UUID"}) /\ IsFiniteSet({})
  BY FS_Singleton, FS_EmptySet
<1>4. QED
  BY <1>1, <1>2, <1>3 DEF RowsFor

LEMMA ErrorsFinite ==
  ASSUME ErrorsInv, IsFiniteSet(results)
  PROVE  IsFiniteSet(errors)
<1> DEFINE f == [r \in results |-> RowsFor(r)]
<1>1. f = [r \in results |-> f[r]] /\ errors = UNION {f[r] : r \in results}
  BY DEF ErrorsInv
<1>2. \A T \in {f[r] : r \in results} : IsFiniteSet(T)
  BY RowsForFinite
<1> HIDE DEF f
<1>3. IsFiniteSet({f[r] : r \in results})
  BY <1>1, ImageFinite
<1>4. QED
  BY <1>1, <1>2, <1>3, FS_UNION

LEMMA ResultsFinite == Spec => []IsFiniteSet(results)
<1>1. Init => IsFiniteSet(results)
  BY FS_EmptySet DEF Init
<1>2. TypeOK /\ IsFiniteSet(results) /\ [Next]_vars => IsFiniteSet(results)'
  <2>1. SUFFICES ASSUME TypeOK, IsFiniteSet(results), [Next]_vars
                 PROVE  IsFiniteSet(results')
    OBVIOUS
  <2>2. results' = results \/ \E r0 : results' = results \union {r0}
    <3>1. CASE MatchAccount
      BY <2>1, <3>1, MatchAccountAdds
    <3>2. CASE ClassifyTax
      BY <2>1, <3>2, ClassifyTaxAdds
    <3>3. CASE Store \/ UNCHANGED vars
      BY <3>3 DEF Store, vars
    <3>4. QED
      BY <2>1, <3>1, <3>2, <3>3 DEF Next
  <2>3. QED
    BY <2>1, <2>2, FS_AddElement
<1>3. QED
  BY <1>1, <1>2, EngineTypes, PTL DEF Spec

(***************************************************************************)
(* The rows of a report.  Where the rows are known to be one for each      *)
(* member of a set, of increasing ids, every way to read them is alike.    *)
(***************************************************************************)
Reportable == TypeOK /\ MatchingInv /\ ErrorsInv /\ UnmatchedInv /\ IsFiniteSet(results)

\* The rows tell of the members of S, one row for each.
OneEach(rows, S, Told(_)) ==
  /\ rows \in Seq(Range(rows)) /\ Len(rows) = Cardinality(S)
  /\ ByIds(rows)
  /\ \A k \in DOMAIN rows : Told(rows[k]) \in S
  /\ \A x \in S : \E k \in DOMAIN rows : Told(rows[k]) = x
  /\ \A m, n \in DOMAIN rows : m # n => Told(rows[m]) # Told(rows[n])

ResultOf(row) == row.result
ErrorOf(row) == row.error

RowsExplain(rows) ==
  \A k \in DOMAIN rows :
    /\ rows[k].i = Joined(rows[k].result.account, data.accounts)
    /\ rows[k].t = Joined(rows[k].result.tax, data.taxes)

LEMMA OrderedPlaces ==
  ASSUME NEW S, IsFiniteSet(S), NEW rank \in [S -> Nat]
  PROVE  /\ Cardinality(S) \in Nat /\ DOMAIN InOrder(S, rank) = 1..Cardinality(S)
         /\ \A k \in 1..Cardinality(S) : InOrder(S, rank)[k] \in S
         /\ \A x \in S : \E k \in 1..Cardinality(S) : InOrder(S, rank)[k] = x
         /\ \A m, n \in 1..Cardinality(S) :
              m # n => InOrder(S, rank)[m] # InOrder(S, rank)[n]
<1> DEFINE a == InOrder(S, rank)
           C == Cardinality(S)
<1>1. Ordering(a, S, rank) /\ C \in Nat
  BY OrderIsOrder, FS_CardinalityType
<1> HIDE DEF a
<1>2. ASSUME NEW m \in 1..C, NEW n \in 1..C, m # n PROVE a[m] # a[n]
  <2>1. m < n \/ n < m
    BY <1>1, <1>2
  <2>2. QED
    BY <1>1, <2>1 DEF Ordering
<1>3. QED
  BY <1>1, <1>2 DEF Ordering, a

LEMMA ResultRank ==
  ASSUME TypeOK, MatchingInv
  PROVE  [r \in results |-> InsertRank(r)] \in [results -> Nat]
<1>1. Accounts = 1..Len(data.accounts) /\ Len(data.accounts) \in Nat
      /\ Taxes = 1..Len(data.taxes) /\ Len(data.taxes) \in Nat
  BY DataTypes DEF TypeOK
<1>2. ASSUME NEW r \in results PROVE InsertRank(r) \in Nat
  <2>1. CASE r.account # NULL
    BY <1>1, <2>1 DEF InsertRank, TypeOK
  <2>2. CASE r.account = NULL
    <3>1. r.tax \in Taxes
      BY <2>2 DEF MatchingInv, UnclaimedReportedOnce
    <3>2. QED
      BY <1>1, <2>2, <3>1 DEF InsertRank
  <2>3. QED
    BY <2>1, <2>2
<1>3. QED
  BY <1>2

LEMMA ResultRowsAre ==
  ASSUME Reportable, stored = "saved"
  PROVE  OneEach(ResultRows, results, ResultOf) /\ RowsExplain(ResultRows)
<1> DEFINE rank == [r \in results |-> InsertRank(r)]
           a == InOrder(results, rank)
           C == Cardinality(results)
           rows == ResultRows
<1>1. /\ C \in Nat /\ DOMAIN a = 1..C
      /\ \A k \in 1..C : a[k] \in results
      /\ \A x \in results : \E k \in 1..C : a[k] = x
      /\ \A m, n \in 1..C : m # n => a[m] # a[n]
  BY ResultRank, OrderedPlaces DEF Reportable
<1>2. rows = [k \in DOMAIN a |->
                [id |-> k, result |-> a[k], i |-> Joined(a[k].account, data.accounts),
                 t |-> Joined(a[k].tax, data.taxes)]]
  BY DEF ResultRows
<1> HIDE DEF a, rows
<1>3. /\ DOMAIN rows = 1..C
      /\ \A k \in 1..C : /\ rows[k].id = k /\ rows[k].result = a[k]
                         /\ rows[k].i = Joined(a[k].account, data.accounts)
                         /\ rows[k].t = Joined(a[k].tax, data.taxes)
  BY <1>1, <1>2
<1>4. rows \in [1..C -> Range(rows)]
  BY <1>1, <1>2, <1>3 DEF Range
<1>5. rows \in Seq(Range(rows)) /\ Len(rows) = C
  BY <1>1, <1>4, SeqDef
<1>6. ByIds(rows)
  BY <1>1, <1>3 DEF ByIds
<1>7. RowsExplain(rows)
  BY <1>3 DEF RowsExplain
<1>8. OneEach(rows, results, ResultOf)
  BY <1>1, <1>3, <1>5, <1>6 DEF OneEach, ResultOf
<1>9. QED
  BY <1>7, <1>8 DEF rows

LEMMA ErrorRowsAre ==
  ASSUME Reportable, stored = "saved"
  PROVE  OneEach(ErrorRows, errors, ErrorOf)
<1> DEFINE rank == [e \in errors |-> 0]
           a == InOrder(errors, rank)
           C == Cardinality(errors)
           rows == ErrorRows
<1>1. /\ C \in Nat /\ DOMAIN a = 1..C
      /\ \A k \in 1..C : a[k] \in errors
      /\ \A x \in errors : \E k \in 1..C : a[k] = x
      /\ \A m, n \in 1..C : m # n => a[m] # a[n]
  <2>1. IsFiniteSet(errors)
    BY ErrorsFinite DEF Reportable
  <2>2. rank \in [errors -> Nat]
    OBVIOUS
  <2> HIDE DEF rank
  <2>3. QED
    BY <2>1, <2>2, OrderedPlaces
<1>2. rows = [k \in DOMAIN a |-> [id |-> k, error |-> a[k]]]
  BY DEF ErrorRows
<1> HIDE DEF a, rows
<1>3. /\ DOMAIN rows = 1..C
      /\ \A k \in 1..C : rows[k].id = k /\ rows[k].error = a[k]
  BY <1>1, <1>2
<1>4. rows \in [1..C -> Range(rows)]
  BY <1>1, <1>2, <1>3 DEF Range
<1>5. rows \in Seq(Range(rows)) /\ Len(rows) = C
  BY <1>1, <1>4, SeqDef
<1>6. ByIds(rows)
  BY <1>1, <1>3 DEF ByIds
<1>7. OneEach(rows, errors, ErrorOf)
  BY <1>1, <1>3, <1>5, <1>6 DEF OneEach, ErrorOf
<1>8. QED
  BY <1>7 DEF rows

\* A page, the pages and an export of a list that comes by its ids.
LEMMA ReadAll ==
  ASSUME NEW X, NEW rows \in Seq(X), ByIds(rows), NEW places \in SUBSET DOMAIN rows,
         NEW size \in Sizes
  PROVE  LET found == Chosen(rows, places)
             page(p) == Envelope(PageOf(found, p, size), Len(found), p, size)
         IN /\ page(1).total = Len(found)
            /\ FlattenSeq([p \in 1..page(1).total_pages |-> page(p).items]) = found
            /\ Streamed(found, size) = found
<1> DEFINE found == Chosen(rows, places)
           page(p) == Envelope(PageOf(found, p, size), Len(found), p, size)
<1>1. found \in Seq(X) /\ ByIds(found)
  BY ChosenIs, ChosenByIds
<1>2. size \in Nat \ {0}
  BY SizesAssumption
<1> HIDE DEF found
<1>3. /\ page(1).total = Len(found) /\ page(1).total_pages = PagesFor(Len(found), size)
      /\ \A p : page(p).items = PageOf(found, p, size)
  BY DEF Envelope, PagesFor
<1>4. FlattenSeq([p \in 1..PagesFor(Len(found), size) |-> PageOf(found, p, size)]) = found
  BY <1>1, <1>2, PagesAll
<1>5. Streamed(found, size) = found
  BY <1>1, <1>2, StreamedAll
<1> HIDE DEF page
<1>6. [p \in 1..page(1).total_pages |-> page(p).items]
        = [p \in 1..PagesFor(Len(found), size) |-> PageOf(found, p, size)]
  BY <1>3
<1>7. QED
  BY <1>3, <1>4, <1>5, <1>6, Zenon DEF found, page

ResultsAlike(rows, f) ==
  ReadAlike(ResultsWhere(rows, f),
            LAMBDA p, size : PaginateResults(rows, f, p, size),
            LAMBDA size : ExportResults(rows, f, size))

ErrorsAlike(rows, f) ==
  ReadAlike(ErrorsOf(rows, f),
            LAMBDA p, size : PaginateErrors(rows, f, p, size),
            LAMBDA size : ExportErrors(rows, f, size))

LEMMA ResultsReadAlike ==
  ASSUME NEW X, NEW rows \in Seq(X), ByIds(rows), NEW f
  PROVE  ResultsAlike(rows, f)
<1> DEFINE places == {k \in DOMAIN rows : Where(f, rows[k])}
           found == Chosen(rows, places)
           page(p, size) == Envelope(PageOf(found, p, size), Len(found), p, size)
<1>1. ResultsWhere(rows, f) = found
  BY DEF ResultsWhere
<1>2. \A size \in Sizes :
        /\ page(1, size).total = Len(found)
        /\ FlattenSeq([p \in 1..page(1, size).total_pages |-> page(p, size).items]) = found
        /\ Streamed(found, size) = found
  BY ReadAll
<1>3. \A p, size : PaginateResults(rows, f, p, size) = page(p, size)
  BY <1>1 DEF PaginateResults, CountResults
<1>4. \A size : ExportResults(rows, f, size) = Streamed(found, size)
  BY <1>1 DEF ExportResults
<1> HIDE DEF found, page
<1>5. QED
  BY <1>1, <1>2, <1>3, <1>4 DEF ResultsAlike, ReadAlike

LEMMA ErrorsReadAlike ==
  ASSUME NEW X, NEW rows \in Seq(X), ByIds(rows), NEW f
  PROVE  ErrorsAlike(rows, f)
<1> DEFINE places == {k \in DOMAIN rows : ErrorsWhere(f, rows[k])}
           found == Chosen(rows, places)
           page(p, size) == Envelope(PageOf(found, p, size), Len(found), p, size)
<1>1. ErrorsOf(rows, f) = found
  BY DEF ErrorsOf
<1>2. \A size \in Sizes :
        /\ page(1, size).total = Len(found)
        /\ FlattenSeq([p \in 1..page(1, size).total_pages |-> page(p, size).items]) = found
        /\ Streamed(found, size) = found
  BY ReadAll
<1>3. \A p, size : PaginateErrors(rows, f, p, size) = page(p, size)
  BY <1>1 DEF PaginateErrors, CountErrors
<1>4. \A size : ExportErrors(rows, f, size) = Streamed(found, size)
  BY <1>1 DEF ExportErrors
<1> HIDE DEF found, page
<1>5. QED
  BY <1>1, <1>2, <1>3, <1>4 DEF ErrorsAlike, ReadAlike

(***************************************************************************)
(* What a filter shows, and how many: the results it is about.             *)
(***************************************************************************)
Tells(rows) == OneEach(rows, results, ResultOf)

Telling(rows, P) == {k \in DOMAIN rows : rows[k].result \in P}

LEMMA ShownIs ==
  ASSUME NEW rows, Tells(rows), NEW P, P \subseteq results
  PROVE  {row.result : row \in Range(Chosen(rows, Telling(rows, P)))} = P
<1> DEFINE places == Telling(rows, P)
<1>1. Range(Chosen(rows, places)) = {rows[k] : k \in places}
  <2>1. rows \in Seq(Range(rows)) /\ places \in SUBSET DOMAIN rows
    BY DEF OneEach, Tells, Telling
  <2>2. QED
    BY <2>1, ChosenRange
<1>2. ASSUME NEW r \in P PROVE \E k \in places : rows[k].result = r
  <2>1. PICK k \in DOMAIN rows : rows[k].result = r
    BY DEF OneEach, ResultOf, Tells
  <2>2. QED
    BY <2>1 DEF Telling
<1>3. \A k \in places : rows[k].result \in P
  BY DEF Telling
<1> HIDE DEF places
<1>4. QED
  BY <1>1, <1>2, <1>3 DEF places

LEMMA JoinedIs ==
  ASSUME TypeOK, NEW r \in results
  PROVE  /\ r.account # NULL =>
              /\ r.account \in Accounts /\ Joined(r.account, data.accounts) = Acc(r.account)
              /\ Acc(r.account) \in Account /\ Acc(r.account) # NULL
         /\ r.account = NULL => Joined(r.account, data.accounts) = NULL
         /\ r.tax # NULL =>
              /\ Joined(r.tax, data.taxes) = Tax(r.tax) /\ Tax(r.tax) # NULL
         /\ r.tax = NULL => Joined(r.tax, data.taxes) = NULL
<1>1. /\ \A i \in Accounts : Acc(i) \in Account
      /\ \A j \in Taxes : Tax(j) \in TaxInvoice
  BY DataTypes DEF TypeOK
<1>2. r.account \in Accounts \union {NULL} /\ r.tax \in Taxes \union {NULL}
  BY DEF TypeOK
<1>3. QED
  BY <1>1, <1>2, NullAssumption DEF Joined, Acc, Tax

\* The statuses a result may have, by the sides it is about.
LEMMA StatusIs ==
  ASSUME TypeOK, UnmatchedInv, NEW r \in results
  PROVE  /\ r.status \in Statuses
         /\ r.account # NULL => r.status # "extra_in_tax_authority"
<1>1. r \in ResultType
  BY DEF TypeOK
<1>2. r.status \in Statuses
  BY <1>1 DEF ResultType, Statuses
<1>3. QED
  BY <1>2 DEF UnmatchedInv

LEMMA NothingFiltered ==
  ASSUME NEW row
  PROVE  /\ Where(NoFilter, row)
         /\ ErrorsWhere(NoErrorFilter, row)
         /\ \A s \in Statuses :
              Where([NoFilter EXCEPT !.match_status = s], row) <=> row.result.status = s
         /\ \A u \in Uuids :
              Where([NoFilter EXCEPT !.uuid = u], row)
                <=> HasUuid(row.i, u) \/ HasUuid(row.t, u)
<1>1. Where(NoFilter, row) /\ ErrorsWhere(NoErrorFilter, row)
  BY DEF Where, NoFilter, ErrorsWhere, NoErrorFilter
<1>2. ASSUME NEW s \in Statuses
      PROVE  Where([NoFilter EXCEPT !.match_status = s], row) <=> row.result.status = s
  <2> DEFINE f == [NoFilter EXCEPT !.match_status = s]
  <2>1. /\ f.match_status = s /\ f.uuid = NULL /\ f.invoice_number = NULL
        /\ f.date_from = NULL /\ f.date_to = NULL
    BY DEF NoFilter
  <2>2. s # NULL
    BY FilterAssumption
  <2> HIDE DEF f
  <2>3. Where(f, row) <=> f.match_status \in {NULL, row.result.status}
    BY <2>1 DEF Where
  <2>4. QED
    BY <2>1, <2>2, <2>3 DEF f
<1>3. ASSUME NEW u \in Uuids
      PROVE  Where([NoFilter EXCEPT !.uuid = u], row)
               <=> HasUuid(row.i, u) \/ HasUuid(row.t, u)
  <2> DEFINE f == [NoFilter EXCEPT !.uuid = u]
  <2>1. /\ f.match_status = NULL /\ f.uuid = u /\ f.invoice_number = NULL
        /\ f.date_from = NULL /\ f.date_to = NULL
    BY DEF NoFilter
  <2>2. u # NULL
    BY NullAssumption
  <2> HIDE DEF f
  <2>3. Where(f, row) <=> HasUuid(row.i, u) \/ HasUuid(row.t, u)
    BY <2>1, <2>2 DEF Where
  <2>4. QED
    BY <2>3 DEF f
<1>4. QED
  BY <1>1, <1>2, <1>3

LEMMA AllShown ==
  ASSUME NEW rows, Tells(rows)
  PROVE  {row.result : row \in Range(ResultsWhere(rows, NoFilter))} = results
<1>1. {k \in DOMAIN rows : Where(NoFilter, rows[k])} = Telling(rows, results)
  BY NothingFiltered DEF Tells, OneEach, ResultOf, Telling
<1>2. QED
  BY <1>1, ShownIs DEF ResultsWhere

LEMMA UuidShown ==
  ASSUME TypeOK, NEW rows, Tells(rows), RowsExplain(rows), NEW u \in Uuids
  PROVE  {row.result : row \in Range(ResultsWhere(rows, [NoFilter EXCEPT !.uuid = u]))}
           = {r \in results :
                \/ r.account # NULL /\ Normalized(Acc(r.account).uuid) = u
                \/ r.tax # NULL /\ Normalized(Tax(r.tax).uuid) = u}
<1> DEFINE f == [NoFilter EXCEPT !.uuid = u]
           P == {r \in results : \/ r.account # NULL /\ Normalized(Acc(r.account).uuid) = u
                                 \/ r.tax # NULL /\ Normalized(Tax(r.tax).uuid) = u}
<1>1. ASSUME NEW k \in DOMAIN rows PROVE Where(f, rows[k]) <=> rows[k].result \in P
  <2> DEFINE r == rows[k].result
  <2>1. r \in results /\ rows[k].i = Joined(r.account, data.accounts)
        /\ rows[k].t = Joined(r.tax, data.taxes)
    BY DEF Tells, OneEach, ResultOf, RowsExplain
  <2> HIDE DEF r
  <2>2. HasUuid(rows[k].i, u) <=> r.account # NULL /\ Normalized(Acc(r.account).uuid) = u
    BY <2>1, JoinedIs DEF HasUuid
  <2>3. HasUuid(rows[k].t, u) <=> r.tax # NULL /\ Normalized(Tax(r.tax).uuid) = u
    BY <2>1, JoinedIs DEF HasUuid
  <2>4. Where(f, rows[k]) <=> HasUuid(rows[k].i, u) \/ HasUuid(rows[k].t, u)
    BY NothingFiltered
  <2> HIDE DEF f
  <2>5. QED
    BY <2>1, <2>2, <2>3, <2>4 DEF r
<1>2. ResultsWhere(rows, f) = Chosen(rows, {k \in DOMAIN rows : Where(f, rows[k])})
  BY DEF ResultsWhere
<1> HIDE DEF f
<1>3. {k \in DOMAIN rows : Where(f, rows[k])} = Telling(rows, P)
  BY <1>1 DEF Telling
<1>4. P \subseteq results
  OBVIOUS
<1> HIDE DEF P
<1>5. {row.result : row \in Range(ResultsWhere(rows, f))} = P
  BY <1>2, <1>3, <1>4, ShownIs
<1>6. QED
  BY <1>5 DEF f, P

\* An invoice of the run is of its month.
LEMMA AccountDate ==
  ASSUME data \in Datasets, NEW i \in Accounts
  PROVE  /\ data.period \in Nat /\ Acc(i).body.date \in Int
         /\ 100 * data.period <= Acc(i).body.date
         /\ Acc(i).body.date <= 100 * data.period + 99
<1>1. Acc(i) \in Account /\ data.period \in Nat /\ SelectedAccounts(data)
  BY DataTypes, SelectionAssumption
<1>2. Acc(i).body.date \in Int
  BY <1>1, BodyAssumption DEF Account
<1> DEFINE date == Acc(i).body.date
<1>3. date \div 100 = data.period
  <2> DEFINE book == AccountBook(data)
             list == data.accounts
             places == {k \in DOMAIN book : /\ book[k].company = data.company
                                            /\ Period(book[k].invoice.body.date) = data.period}
  <2>1. \E order \in [DOMAIN list -> places] :
          \A n \in DOMAIN list : list[n] = book[order[n]].invoice
    BY <1>1, Zenon DEF SelectedAccounts, Selected
  <2>2. PICK order \in [DOMAIN list -> places] :
          \A n \in DOMAIN list : list[n] = book[order[n]].invoice
    BY <2>1
  <2>3. i \in DOMAIN list /\ Acc(i) = list[i]
    BY DEF Accounts, Acc
  <2>4. order[i] \in places
    BY <2>2, <2>3
  <2>5. Period(book[order[i]].invoice.body.date) = data.period
    BY <2>4
  <2>6. QED
    BY <2>2, <2>3, <2>5 DEF Period
<1> HIDE DEF date
<1>4. \A x \in Int, p \in Nat : x \div 100 = p => 100 * p <= x /\ x <= 100 * p + 99
  OBVIOUS
<1>5. date \in Int
  BY <1>2 DEF date
<1>6. QED
  BY <1>1, <1>3, <1>4, <1>5 DEF date

LEMMA MonthShown ==
  ASSUME TypeOK, NEW rows, Tells(rows), RowsExplain(rows)
  PROVE  {row.result : row \in Range(ResultsWhere(rows, WholeMonth))}
           = {r \in results : r.account # NULL}
<1> DEFINE P == {r \in results : r.account # NULL}
<1>1. data.period \in Nat /\ 100 * data.period \in Int /\ 100 * data.period + 99 \in Int
      /\ data \in Datasets
  <2>1. data \in Datasets /\ data.period \in Nat
    BY SelectionAssumption DEF TypeOK
  <2>2. QED
    BY <2>1
<1>2. /\ WholeMonth.match_status = NULL /\ WholeMonth.uuid = NULL
      /\ WholeMonth.invoice_number = NULL
      /\ WholeMonth.date_from = 100 * data.period /\ WholeMonth.date_to = 100 * data.period + 99
  BY DEF WholeMonth, NoFilter
<1>3. WholeMonth.date_from # NULL /\ WholeMonth.date_to # NULL
  BY <1>1, <1>2, NullIsNoPlace
<1>4. ASSUME NEW k \in DOMAIN rows PROVE Where(WholeMonth, rows[k]) <=> rows[k].result \in P
  <2> DEFINE r == rows[k].result
  <2>1. r \in results /\ rows[k].i = Joined(r.account, data.accounts)
    BY DEF Tells, OneEach, ResultOf, RowsExplain
  <2> HIDE DEF r
  <2>2. Where(WholeMonth, rows[k])
          <=> /\ rows[k].i # NULL /\ 100 * data.period <= rows[k].i.body.date
              /\ rows[k].i.body.date <= 100 * data.period + 99
    BY <1>2, <1>3 DEF Where
  <2>3. CASE r.account = NULL
    <3>1. rows[k].i = NULL
      BY <2>1, <2>3, JoinedIs
    <3>2. QED
      BY <2>2, <2>3, <3>1 DEF r
  <2>4. CASE r.account # NULL
    <3>1. rows[k].i = Acc(r.account) /\ rows[k].i # NULL /\ r.account \in Accounts
      BY <2>1, <2>4, JoinedIs
    <3>2. QED
      BY <1>1, <2>1, <2>2, <2>4, <3>1, AccountDate DEF r
  <2>5. QED
    BY <2>3, <2>4
<1>5. {k \in DOMAIN rows : Where(WholeMonth, rows[k])} = Telling(rows, P)
  BY <1>4 DEF Telling
<1>6. P \subseteq results
  OBVIOUS
<1> HIDE DEF P
<1>7. {row.result : row \in Range(ResultsWhere(rows, WholeMonth))} = P
  BY <1>5, <1>6, ShownIs DEF ResultsWhere
<1>8. QED
  BY <1>7 DEF P

\* The notifications tell of the accounting invoices that did not match.
LEMMA AffectedAre ==
  ASSUME TypeOK, UnmatchedInv, NEW rows, Tells(rows), RowsExplain(rows),
         \A i \in Accounts : \E r \in results : r.account = i, UniqueIn("account")
  PROVE  {row.result.account : row \in Range(Affected(rows))}
           = {i \in Accounts : \A r \in results : r.account = i => r.status # "matched"}
<1> DEFINE P == {r \in results : r.account # NULL /\ r.status # "matched"}
           places == {k \in DOMAIN rows :
                        /\ rows[k].i # NULL
                        /\ rows[k].result.status \in
                             {"mismatched", "missing_in_tax_authority", "invalid"}}
<1>1. ASSUME NEW k \in DOMAIN rows PROVE k \in places <=> rows[k].result \in P
  <2> DEFINE r == rows[k].result
  <2>1. r \in results /\ rows[k].i = Joined(r.account, data.accounts)
    BY DEF Tells, OneEach, ResultOf, RowsExplain
  <2> HIDE DEF r
  <2>2. rows[k].i # NULL <=> r.account # NULL
    BY <2>1, JoinedIs
  <2>3. r.account # NULL =>
          (r.status \in {"mismatched", "missing_in_tax_authority", "invalid"}
             <=> r.status # "matched")
    BY <2>1, StatusIs DEF Statuses
  <2>4. QED
    BY <2>1, <2>2, <2>3 DEF r
<1>2. Affected(rows) = Chosen(rows, places)
  BY DEF Affected
<1>3. places = Telling(rows, P)
  BY <1>1 DEF Telling
<1>4. P \subseteq results
  OBVIOUS
<1> HIDE DEF P, places
<1>5. {row.result : row \in Range(Affected(rows))} = P
  BY <1>2, <1>3, <1>4, ShownIs
<1>6. {row.result.account : row \in Range(Affected(rows))} = {r.account : r \in P}
  BY <1>5
<1>7. ASSUME NEW r \in P
      PROVE  r.account \in Accounts /\ \A q \in results : q.account = r.account => q.status # "matched"
  <2>1. r \in results /\ r.account # NULL /\ r.status # "matched"
    BY DEF P
  <2>2. r.account \in Accounts
    BY <2>1 DEF TypeOK
  <2>3. \A q \in results : q.account = r.account => q = r
    BY <2>1 DEF UniqueIn
  <2>4. QED
    BY <2>1, <2>2, <2>3
<1>8. ASSUME NEW i \in Accounts, \A r \in results : r.account = i => r.status # "matched"
      PROVE  \E r \in P : r.account = i
  <2>1. PICK r \in results : r.account = i
    OBVIOUS
  <2>2. i # NULL
    BY DataTypes, NullIsNoPlace DEF TypeOK
  <2>3. QED
    BY <1>8, <2>1, <2>2 DEF P
<1>9. QED
  BY <1>6, <1>7, <1>8

(***************************************************************************)
(* How many: the sum over the statuses counts every row once.              *)
(***************************************************************************)
Tallies(S, count, h) ==
  h = [T \in SUBSET S |->
         IF T = {} THEN 0
         ELSE LET x == CHOOSE y \in T : TRUE IN count[x] + h[T \ {x}]]

Tally(S, count) == CHOOSE h : Tallies(S, count, h)

LEMMA SumIs ==
  ASSUME NEW rows
  PROVE  FoldSet(LAMBDA s, n : Counts(rows)[s] + n, 0, Statuses)
           = Tally(Statuses, Counts(rows))[Statuses]
BY Zenon DEF FoldSet, MapThenFoldSet, Tally, Tallies

LEMMA TallyIs ==
  ASSUME NEW S, IsFiniteSet(S), NEW count, NEW total \in [SUBSET S -> Nat], total[{}] = 0,
         \A T \in SUBSET S : \A x \in T : total[T] = count[x] + total[T \ {x}]
  PROVE  Tally(S, count)[S] = total[S]
<1> DEFINE h == Tally(S, count)
           Bad == {n \in Nat : \E T \in SUBSET S : Cardinality(T) = n /\ h[T] # total[T]}
<1>1. Tallies(S, count, total)
  BY DEF Tallies
<1>2. Tallies(S, count, h)
  BY <1>1 DEF Tally
<1> HIDE DEF h
<1>3. h[{}] = 0
  BY <1>2 DEF Tallies
<1>4. ASSUME NEW T \in SUBSET S, T # {}
      PROVE  \E x \in T : h[T] = count[x] + h[T \ {x}]
  <2>1. (CHOOSE y \in T : TRUE) \in T
    BY <1>4
  <2>2. QED
    BY <1>2, <1>4, <2>1 DEF Tallies
<1>5. Bad = {}
  <2>1. SUFFICES ASSUME Bad # {} PROVE FALSE
    OBVIOUS
  <2>2. PICK m \in Bad : \A n \in Bad : m <= n
    <3> HIDE DEF Bad
    <3>1. Bad \in SUBSET Nat
      BY DEF Bad
    <3>2. QED
      BY <2>1, <3>1, LeastNumber
  <2>3. PICK T \in SUBSET S : Cardinality(T) = m /\ h[T] # total[T]
    OBVIOUS
  <2>4. PICK x \in T : h[T] = count[x] + h[T \ {x}]
    BY <1>3, <1>4, <2>3
  <2>5. T \ {x} \in SUBSET S /\ total[T] = count[x] + total[T \ {x}]
    OBVIOUS
  <2>6. h[T \ {x}] # total[T \ {x}]
    BY <2>3, <2>4, <2>5
  <2>7. /\ Cardinality(T) \in Nat /\ Cardinality(T \ {x}) \in Nat
        /\ Cardinality(T \ {x}) = Cardinality(T) - 1
    BY FS_Subset, FS_RemoveElement, FS_CardinalityType
  <2>8. Cardinality(T \ {x}) \in Bad
    BY <2>5, <2>6, <2>7
  <2>9. m <= Cardinality(T \ {x})
    BY <2>2, <2>8
  <2> HIDE DEF Bad
  <2>10. QED
    BY <2>3, <2>7, <2>9
<1>6. Cardinality(S) \in Nat /\ S \in SUBSET S
  BY FS_CardinalityType
<1>7. QED
  BY <1>5, <1>6 DEF h

LEMMA RowsCounted ==
  ASSUME NEW rows, rows \in Seq(Range(rows)),
         \A k \in DOMAIN rows : rows[k].result.status \in Statuses
  PROVE  FoldSet(LAMBDA s, n : Counts(rows)[s] + n, 0, Statuses) = Len(rows)
<1> DEFINE Bearing(T) == {k \in DOMAIN rows : rows[k].result.status \in T}
           total == [T \in SUBSET Statuses |-> Cardinality(Bearing(T))]
<1>1. /\ DOMAIN rows = 1..Len(rows) /\ Len(rows) \in Nat
      /\ IsFiniteSet(DOMAIN rows) /\ Cardinality(DOMAIN rows) = Len(rows)
  <2>1. DOMAIN rows = 1..Len(rows) /\ Len(rows) \in Nat
    OBVIOUS
  <2>2. /\ IsFiniteSet(1..Len(rows))
        /\ Cardinality(1..Len(rows)) = IF 1 > Len(rows) THEN 0 ELSE Len(rows) - 1 + 1
    BY <2>1, FS_Interval
  <2>3. QED
    BY <2>1, <2>2
<1>2. \A T : IsFiniteSet(Bearing(T)) /\ Cardinality(Bearing(T)) \in Nat
  BY <1>1, FS_Subset, FS_CardinalityType
<1>3. ASSUME NEW T \in SUBSET Statuses, NEW x \in T
      PROVE  total[T] = Counts(rows)[x] + total[T \ {x}]
  <2> DEFINE A == {k \in DOMAIN rows : rows[k].result.status = x}
             B == Bearing(T \ {x})
  <2>1. Bearing(T) = A \union B /\ A \intersect B = {}
    OBVIOUS
  <2>2. IsFiniteSet(A) /\ Cardinality(A) \in Nat /\ IsFiniteSet(B) /\ Cardinality(B) \in Nat
    BY <1>1, <1>2, FS_Subset, FS_CardinalityType
  <2>3. Counts(rows)[x] = Cardinality(A)
    BY DEF Counts
  <2>4. total[T] = Cardinality(Bearing(T)) /\ total[T \ {x}] = Cardinality(B)
    OBVIOUS
  <2> HIDE DEF A, B, total, Bearing
  <2>5. Cardinality(A \union B) = Cardinality(A) + Cardinality(B)
    <3>1. Cardinality(A \union B)
            = Cardinality(A) + Cardinality(B) - Cardinality(A \intersect B)
      BY <2>2, FS_Union
    <3>2. Cardinality(A \intersect B) = 0
      BY <2>1, FS_EmptySet
    <3>3. QED
      BY <2>2, <3>1, <3>2
  <2>6. QED
    BY <2>1, <2>3, <2>4, <2>5
<1>4. total[{}] = 0
  <2>1. Bearing({}) = {}
    OBVIOUS
  <2>2. QED
    BY <2>1, FS_EmptySet
<1>5. total[Statuses] = Len(rows)
  <2>1. Bearing(Statuses) = DOMAIN rows
    OBVIOUS
  <2>2. QED
    BY <1>1, <2>1
<1>6. total \in [SUBSET Statuses -> Nat]
  BY <1>2
<1>7. IsFiniteSet(Statuses)
  BY FewFinite DEF Statuses
<1> HIDE DEF total
<1> DEFINE count == Counts(rows)
<1>8. \A T \in SUBSET Statuses : \A x \in T : total[T] = count[x] + total[T \ {x}]
  BY <1>3
<1> HIDE DEF count
<1>9. Tally(Statuses, count)[Statuses] = total[Statuses]
  BY <1>4, <1>6, <1>7, <1>8, TallyIs
<1>10. QED
  BY <1>5, <1>9, SumIs DEF count

LEMMA StatusCounted ==
  ASSUME NEW rows, rows \in Seq(Range(rows)), NEW s \in Statuses
  PROVE  CountResults(rows, [NoFilter EXCEPT !.match_status = s]) = Counts(rows)[s]
<1> DEFINE f == [NoFilter EXCEPT !.match_status = s]
           places == {k \in DOMAIN rows : Where(f, rows[k])}
<1>1. places = {k \in DOMAIN rows : rows[k].result.status = s}
  BY NothingFiltered
<1>2. CountResults(rows, f) = Len(Chosen(rows, places))
  BY DEF CountResults, ResultsWhere
<1>3. Counts(rows)[s] = Cardinality({k \in DOMAIN rows : rows[k].result.status = s})
  BY DEF Counts
<1>4. places \in SUBSET DOMAIN rows
  OBVIOUS
<1> HIDE DEF f, places
<1>5. Len(Chosen(rows, places)) = Cardinality(places)
  BY <1>4, ChosenIs
<1>6. QED
  BY <1>1, <1>2, <1>3, <1>5 DEF f

LEMMA ErrorsCounted ==
  ASSUME NEW rows, rows \in Seq(Range(rows))
  PROVE  CountErrors(rows, NoErrorFilter) = Len(rows)
<1> DEFINE places == {k \in DOMAIN rows : ErrorsWhere(NoErrorFilter, rows[k])}
<1>1. places = DOMAIN rows
  BY NothingFiltered
<1>2. CountErrors(rows, NoErrorFilter) = Len(Chosen(rows, places))
  BY DEF CountErrors, ErrorsOf
<1>3. places \in SUBSET DOMAIN rows
  OBVIOUS
<1> HIDE DEF places
<1>4. Len(Chosen(rows, places)) = Cardinality(places)
  BY <1>3, ChosenIs
<1>5. Cardinality(DOMAIN rows) = Len(rows)
  <2>1. DOMAIN rows = 1..Len(rows) /\ Len(rows) \in Nat
    OBVIOUS
  <2>2. Cardinality(1..Len(rows)) = IF 1 > Len(rows) THEN 0 ELSE Len(rows) - 1 + 1
    BY <2>1, FS_Interval
  <2>3. QED
    BY <2>1, <2>2
<1>6. QED
  BY <1>1, <1>2, <1>4, <1>5

LEMMA Reported ==
  ASSUME Reportable, EveryInvoiceAnswered
  PROVE  ReportTellsAll
<1>1. SUFFICES ASSUME stored = "saved" PROVE ReportTellsAll
  BY DEF ReportTellsAll
<1> DEFINE rows == ResultRows
           errorRows == ErrorRows
<1>2. OneEach(rows, results, ResultOf) /\ RowsExplain(rows)
  BY <1>1, ResultRowsAre
<1>3. OneEach(errorRows, errors, ErrorOf)
  BY <1>1, ErrorRowsAre
<1>4. /\ TypeOK /\ UnmatchedInv
      /\ \A i \in Accounts : \E r \in results : r.account = i
      /\ UniqueIn("account")
  <2>1. Done
    BY <1>1 DEF Reportable, MatchingInv, StoredAsUnique
  <2>2. QED
    BY <2>1 DEF Reportable, EveryInvoiceAnswered
<1> HIDE DEF rows, errorRows
<1>5. /\ Tells(rows) /\ rows \in Seq(Range(rows)) /\ ByIds(rows)
      /\ Len(rows) = Cardinality(results)
      /\ \A k \in DOMAIN rows : rows[k].result \in results
  BY <1>2 DEF Tells, OneEach, ResultOf
<1>6. /\ errorRows \in Seq(Range(errorRows)) /\ ByIds(errorRows)
      /\ Len(errorRows) = Cardinality(errors)
  BY <1>3 DEF OneEach
<1>7. \A f \in Filters :
        FilterAccepted(f) =>
          ReadAlike(ResultsWhere(rows, f),
                    LAMBDA p, size : PaginateResults(rows, f, p, size),
                    LAMBDA size : ExportResults(rows, f, size))
  <2>1. TAKE f \in Filters
  <2>2. ResultsAlike(rows, f)
    BY <1>5, ResultsReadAlike
  <2>3. QED
    BY <2>2, Zenon DEF ResultsAlike
<1>8. \A f \in ErrorFilters :
        ReadAlike(ErrorsOf(errorRows, f),
                  LAMBDA p, size : PaginateErrors(errorRows, f, p, size),
                  LAMBDA size : ExportErrors(errorRows, f, size))
  <2>1. TAKE f \in ErrorFilters
  <2>2. ErrorsAlike(errorRows, f)
    BY <1>6, ErrorsReadAlike
  <2>3. QED
    BY <2>2, Zenon DEF ErrorsAlike
<1>9. {row.result : row \in Range(ResultsWhere(rows, NoFilter))} = results
  BY <1>5, AllShown
<1>10. \A s \in Statuses :
         CountResults(rows, [NoFilter EXCEPT !.match_status = s]) = Counts(rows)[s]
  BY <1>5, StatusCounted
<1>11. FoldSet(LAMBDA s, n : Counts(rows)[s] + n, 0, Statuses) = Cardinality(results)
  <2>1. \A k \in DOMAIN rows : rows[k].result.status \in Statuses
    BY <1>4, <1>5, StatusIs
  <2>2. QED
    BY <1>5, <2>1, RowsCounted
<1>12. CountErrors(errorRows, NoErrorFilter) = Cardinality(errors)
  BY <1>6, ErrorsCounted
<1>13. {row.result.account : row \in Range(Affected(rows))}
         = {i \in Accounts : \A r \in results : r.account = i => r.status # "matched"}
  BY <1>2, <1>4, <1>5, AffectedAre
<1>14. {row.result : row \in Range(ResultsWhere(rows, WholeMonth))}
         = {r \in results : r.account # NULL}
  BY <1>2, <1>4, <1>5, MonthShown
<1>15. \A u \in Uuids :
         {row.result : row \in Range(ResultsWhere(rows, [NoFilter EXCEPT !.uuid = u]))}
           = {r \in results : \/ r.account # NULL /\ Normalized(Acc(r.account).uuid) = u
                              \/ r.tax # NULL /\ Normalized(Tax(r.tax).uuid) = u}
  BY <1>2, <1>4, <1>5, UuidShown
<1>16. /\ Summary(rows, errorRows).counts = Counts(rows)
       /\ Summary(rows, errorRows).total_results
            = FoldSet(LAMBDA s, n : Counts(rows)[s] + n, 0, Statuses)
       /\ Summary(rows, errorRows).errors = CountErrors(errorRows, NoErrorFilter)
  BY Zenon DEF Summary
<1>17. QED
  BY <1>7, <1>8, <1>9, <1>10, <1>11, <1>12, <1>13, <1>14, <1>15, <1>16, Zenon
     DEF ReportTellsAll, rows, errorRows

\* Once a run is stored, its report is complete whichever way it is read: for
\* every filter, the pages of any size and the export in batches of any size
\* are the filtered list, the totals and the summary count it, the
\* notifications tell of exactly the accounting invoices that did not match,
\* and a range of dates around the month hides only what the tax authority
\* alone has (_build_results_where, the paginate_ and iter_ functions, summarize).
THEOREM ReportTheorem == Spec => []ReportTellsAll
<1>1. TypeOK /\ MatchingInv /\ ErrorsInv /\ UnmatchedInv /\ IsFiniteSet(results)
        /\ EveryInvoiceAnswered => ReportTellsAll
  BY Reported DEF Reportable
<1>2. QED
  BY <1>1, EngineTypes, EngineInvariant, ErrorsInvariant, UnmatchedInvariant,
     ResultsFinite, AnsweredTheorem, PTL
===========================================================================
