--------------------------- MODULE InvoicesProofs ---------------------------
(***************************************************************************)
(* Proofs about Invoices for every set of invoices, requests and amounts.  *)
(***************************************************************************)
EXTENDS Invoices, SequenceTheorems, FiniteSetTheorems, WellFoundedInduction, TLAPS

(* What a snapshot still says about its row when the request writes.        *)
SnapshotOK(h) ==
    LET r == req[h]
        row == invoice[r.invoice]
    IN  /\ r.snap.status \in InvoiceStatus
        /\ row.status # "None"
        /\ Exists(r.invoice) => /\ r.snap.approved_at => row.approved_at
                                /\ r.snap.status # "Draft" => row.status # "Draft"
        /\ r.op = "archive" => r.snap.status # "Draft"
        /\ r.op = "transition" => r.to \in TRANSITIONS[r.snap.status]
        /\ r.op = "voidFound" =>
               /\ r.n <= issued
               /\ \A p \in payments : p.id = r.n => p.invoice = r.invoice

SnapshotsAge == \A h \in Handler : req[h] # Idle => SnapshotOK(h)

(* Ledger ids are issued once, and only to invoices that exist.             *)
LedgerOK ==
    /\ \A p \in payments : p.id <= issued /\ Exists(p.invoice)
    /\ \A p, q \in payments : p.id = q.id => p = q

IInv == /\ TypeOK
        /\ HistoryFollowsStatus
        /\ StampsMatchStatus
        /\ CacheIsLedgerSum
        /\ ArchivedIsNotDraft
        /\ SnapshotsAge
        /\ LedgerOK

-----------------------------------------------------------------------------
(* The sum of a ledger.  AmountSum folds over a set, and the library's        *)
(* induction over finite sets is out of the provers' reach: every fact about  *)
(* all finite sets of rows is shown by a smallest counterexample instead.     *)

\* The row AmountSum takes first.
Top(s) == CHOOSE x \in s : TRUE
\* g maps every set of rows from S to its sum, each from the sum without its first row.
Sums(g, S) == g = [s \in SUBSET S |->
                      IF s = {} THEN 0 ELSE Top(s).amount + g[s \ {Top(s)}]]

\* AmountSum(S) is such a function, at S.
LEMMA SumIsFold ==
  ASSUME NEW S
  PROVE  AmountSum(S) = (CHOOSE g : Sums(g, S))[S]
BY DEF AmountSum, MapThenFoldSet, Sums, Top

\* Of some subsets of a finite set one is smallest.  What is said below of every set of rows
\* is shown of a smallest set it would not hold of: an induction without its theorem.
LEMMA Smallest ==
  ASSUME NEW T, IsFiniteSet(T), NEW B \in SUBSET SUBSET T, B # {}
  PROVE  \E b \in B : \A c \in B : c \subseteq b => c = b
<1> DEFINE N == {Cardinality(b) : b \in B}
<1>1. \A b \in B : IsFiniteSet(b) /\ Cardinality(b) \in Nat
  BY FS_Subset, FS_CardinalityType
<1>2. N \subseteq Nat /\ N # {}
  BY <1>1
<1> HIDE DEF N
<1>3. PICK n \in N : \A m \in N : ~ (<<m, n>> \in OpToRel(<, Nat))
  BY <1>2, WFMin, NatLessThanWellFounded
<1>4. \A m \in N : ~ (m < n)
  BY <1>2, <1>3 DEF OpToRel
<1>5. PICK b \in B : Cardinality(b) = n
  BY DEF N
<1>6. ASSUME NEW c \in B, c \subseteq b PROVE c = b
  <2>1. Cardinality(c) \in N
    BY <1>6 DEF N
  <2>2. ~ (Cardinality(c) < Cardinality(b))
    BY <2>1, <1>4, <1>5
  <2>3. Cardinality(c) <= Cardinality(b) /\ (Cardinality(c) = Cardinality(b) => c = b)
    BY <1>1, <1>6, FS_Subset
  <2> QED
    BY <2>2, <2>3, <1>1
<1> QED
  BY <1>6

Value(s) == (CHOOSE g : Sums(g, s))[s]

\* Two such functions agree where both are defined,
LEMMA OneFold ==
  ASSUME NEW U, NEW V, NEW g, NEW h, Sums(g, U), Sums(h, V),
         NEW s, s \subseteq U, s \subseteq V, IsFiniteSet(s)
  PROVE  g[s] = h[s]
<1> DEFINE B == {c \in SUBSET s : g[c] # h[c]}
<1>1. SUFFICES ASSUME B # {} PROVE FALSE
  OBVIOUS
<1>2. B \in SUBSET SUBSET s
  OBVIOUS
<1> HIDE DEF B
<1>3. PICK b \in B : \A c \in B : c \subseteq b => c = b
  BY <1>1, <1>2, Smallest
<1>4. b \subseteq s /\ g[b] # h[b]
  BY DEF B
<1>5. b # {}
  BY <1>4 DEF Sums
<1>6. PICK r : r = b \ {Top(b)}
  OBVIOUS
<1>7. r \subseteq s /\ r # b /\ r \subseteq b
  BY <1>4, <1>5, <1>6 DEF Top
<1>8. g[r] = h[r]
  BY <1>3, <1>7 DEF B
<1>9. g[b] = Top(b).amount + g[r] /\ h[b] = Top(b).amount + h[r]
  BY <1>4, <1>5, <1>6 DEF Sums
<1> QED
  BY <1>4, <1>8, <1>9

\* so that the value at s does not depend on the rows around s.
LEMMA ValueOfFold ==
  ASSUME NEW U, NEW g, Sums(g, U), NEW s, s \subseteq U, IsFiniteSet(s), \E h : Sums(h, s)
  PROVE  Value(s) = g[s]
<1>1. PICK h : h = (CHOOSE k : Sums(k, s)) /\ Sums(h, s)
  OBVIOUS
<1>2. h[s] = g[s]
  BY <1>1, OneFold
<1> QED
  BY <1>1, <1>2 DEF Value

\* There is such a function for every finite set of rows: its values are put together from
\* those of the smaller sets.
LEMMA FoldExists ==
  ASSUME NEW S, IsFiniteSet(S)
  PROVE  \E g : Sums(g, S)
<1> DEFINE B == {c \in SUBSET S : ~ \E g : Sums(g, c)}
<1>1. SUFFICES ASSUME B # {} PROVE FALSE
  OBVIOUS
<1>2. B \in SUBSET SUBSET S
  OBVIOUS
<1> HIDE DEF B
<1>3. PICK b \in B : \A c \in B : c \subseteq b => c = b
  BY <1>1, <1>2, Smallest
<1>4. /\ b \subseteq S /\ ~ \E g : Sums(g, b)
      /\ \A c \in SUBSET b : c # b => \E g : Sums(g, c)
  BY <1>3 DEF B
<1>5. \A c \in SUBSET b : IsFiniteSet(c)
  BY <1>4, FS_Subset
<1>6. PICK f : f = [s \in SUBSET b |->
                      IF s = {} THEN 0 ELSE Top(s).amount + Value(s \ {Top(s)})]
  OBVIOUS
<1>7. ASSUME NEW s \in SUBSET b, s # b
      PROVE  f[s] = Value(s)
  <2>1. PICK g : Sums(g, s)
    BY <1>4, <1>7
  <2>2. Value(s) = g[s]
    BY <1>5, <2>1, ValueOfFold
  <2>3. CASE s = {}
    BY <1>6, <2>1, <2>2, <2>3 DEF Sums
  <2>4. CASE s # {}
    <3>1. PICK r : r = s \ {Top(s)}
      OBVIOUS
    <3>2. r \subseteq s /\ r # s /\ r \in SUBSET b /\ r # b
      BY <1>7, <2>4, <3>1 DEF Top
    <3>3. Value(r) = g[r]
      BY <1>4, <1>5, <2>1, <3>2, ValueOfFold
    <3>4. g[s] = Top(s).amount + g[r] /\ f[s] = Top(s).amount + Value(r)
      BY <1>6, <2>1, <2>4, <3>1 DEF Sums
    <3> QED
      BY <2>2, <3>3, <3>4
  <2> QED
    BY <2>3, <2>4
<1>8. ASSUME NEW s \in SUBSET b, s # {}
      PROVE  f[s] = Top(s).amount + f[s \ {Top(s)}]
  <2>1. PICK r : r = s \ {Top(s)}
    OBVIOUS
  <2>2. r \in SUBSET b /\ r # b
    BY <1>8, <2>1 DEF Top
  <2>3. f[r] = Value(r)
    BY <1>7, <2>2
  <2> QED
    BY <1>6, <1>8, <2>1, <2>3
<1>9. Sums(f, b)
  BY <1>6, <1>8 DEF Sums
<1> QED
  BY <1>4, <1>9

\* What AmountSum returns: 0 for no rows, and else one amount and the sum of the others;
LEMMA SumOfNothing == AmountSum({}) = 0
<1>1. PICK g : Sums(g, {}) /\ g = (CHOOSE h : Sums(h, {}))
  BY FoldExists, FS_EmptySet
<1> QED
  BY <1>1, SumIsFold DEF Sums

LEMMA SumPeels ==
  ASSUME NEW S, IsFiniteSet(S), S # {}
  PROVE  AmountSum(S) = Top(S).amount + AmountSum(S \ {Top(S)})
<1>1. PICK g : Sums(g, S) /\ g = (CHOOSE h : Sums(h, S))
  BY FoldExists
<1>2. PICK r : r = S \ {Top(S)}
  OBVIOUS
<1>3. IsFiniteSet(r) /\ r \subseteq S
  BY <1>2, FS_Subset
<1>4. AmountSum(r) = Value(r) /\ AmountSum(S) = g[S]
  BY <1>1, SumIsFold DEF Value
<1>5. Value(r) = g[r]
  BY <1>1, <1>3, FoldExists, ValueOfFold
<1>6. g[S] = Top(S).amount + g[r]
  BY <1>1, <1>2 DEF Sums
<1> QED
  BY <1>2, <1>4, <1>5, <1>6

\* a natural number when the amounts are;
Priced(S) == IsFiniteSet(S) /\ \A p \in S : p.amount \in Nat

LEMMA SumOfPriced ==
  ASSUME NEW S, Priced(S)
  PROVE  AmountSum(S) \in Nat
<1> DEFINE B == {c \in SUBSET S : AmountSum(c) \notin Nat}
<1>1. SUFFICES ASSUME B # {} PROVE FALSE
  OBVIOUS
<1>2. B \in SUBSET SUBSET S
  OBVIOUS
<1> HIDE DEF B
<1>3. PICK b \in B : \A c \in B : c \subseteq b => c = b
  BY <1>1, <1>2, Smallest DEF Priced
<1>4. b \subseteq S /\ AmountSum(b) \notin Nat /\ IsFiniteSet(b)
  BY FS_Subset DEF B, Priced
<1>5. b # {}
  BY <1>4, SumOfNothing
<1>6. PICK r : r = b \ {Top(b)}
  OBVIOUS
<1>7. Top(b) \in b /\ r \subseteq b /\ r # b
  BY <1>5, <1>6 DEF Top
<1>8. AmountSum(r) \in Nat
  BY <1>3, <1>4, <1>7 DEF B
<1>9. AmountSum(b) = Top(b).amount + AmountSum(r)
  BY <1>4, <1>5, <1>6, SumPeels
<1>10. Top(b).amount \in Nat
  BY <1>4, <1>7 DEF Priced
<1> QED
  BY <1>4, <1>8, <1>9, <1>10

\* and the order in which the rows are taken does not matter.
LEMMA SumOfPart ==
  ASSUME NEW S, Priced(S), NEW p \in S
  PROVE  AmountSum(S) = p.amount + AmountSum(S \ {p})
<1> DEFINE Whole(c) == \A q \in c : AmountSum(c) = q.amount + AmountSum(c \ {q})
           B == {c \in SUBSET S : ~ Whole(c)}
<1>1. SUFFICES ASSUME B # {} PROVE FALSE
  OBVIOUS
<1>2. B \in SUBSET SUBSET S
  OBVIOUS
<1>3. PICK b \in SUBSET S : ~ Whole(b) /\ \A c \in SUBSET b : c # b => Whole(c)
  <2> HIDE DEF B
  <2>1. PICK b \in B : \A c \in B : c \subseteq b => c = b
    BY <1>1, <1>2, Smallest DEF Priced
  <2> QED
    BY <1>2, <2>1 DEF B
<1>4. PICK q \in b : AmountSum(b) # q.amount + AmountSum(b \ {q})
  BY <1>3
<1>5. \A c \in SUBSET b : Priced(c) /\ IsFiniteSet(c)
  BY FS_Subset DEF Priced
<1>6. PICK x : x = Top(b)
  OBVIOUS
<1>7. x \in b /\ AmountSum(b) = x.amount + AmountSum(b \ {x})
  BY <1>4, <1>5, <1>6, SumPeels DEF Top
<1>8. x # q
  BY <1>4, <1>7
<1>9. PICK r : r = (b \ {x}) \ {q}
  OBVIOUS
<1>10. r = (b \ {q}) \ {x} /\ r \in SUBSET b
  BY <1>9
<1>11. AmountSum(b \ {x}) = q.amount + AmountSum(r)
  <2>1. Whole(b \ {x})
    BY <1>3, <1>7
  <2> QED
    BY <1>4, <1>8, <1>9, <2>1
<1>12. AmountSum(b \ {q}) = x.amount + AmountSum(r)
  <2>1. Whole(b \ {q})
    BY <1>3, <1>4
  <2> QED
    BY <1>7, <1>8, <1>10, <2>1
<1>13. AmountSum(r) \in Nat /\ x.amount \in Nat /\ q.amount \in Nat
  BY <1>4, <1>5, <1>7, <1>10, SumOfPriced DEF Priced
<1> QED
  BY <1>4, <1>7, <1>11, <1>12, <1>13

-----------------------------------------------------------------------------
(* An invoice without payments sums to zero. *)
LEMMA SumOfNone == \A L, i : Rows(L, i) = {} => LedgerSum(L, i) = 0
  BY SumOfNothing DEF LedgerSum

(* The rows of an invoice sum to a natural number. *)
LEMMA SumIsNatural ==
  ASSUME NEW L, NEW i, Priced(L)
  PROVE  LedgerSum(L, i) \in Nat
<1>1. Priced(Rows(L, i))
  BY FS_Subset DEF Priced, Rows
<1> QED
  BY <1>1, SumOfPriced DEF LedgerSum

(* Each of its rows adds its amount. *)
LEMMA SumOfRow ==
  ASSUME NEW L, NEW i, Priced(L), NEW p \in L, p.invoice = i
  PROVE  LedgerSum(L, i) = p.amount + LedgerSum(L \ {p}, i)
<1>1. PICK rows : rows = Rows(L, i)
  OBVIOUS
<1>2. Priced(rows) /\ p \in rows
  BY <1>1, FS_Subset DEF Priced, Rows
<1>3. AmountSum(rows) = p.amount + AmountSum(rows \ {p})
  BY <1>2, SumOfPart
<1>4. rows \ {p} = Rows(L \ {p}, i)
  BY <1>1 DEF Rows
<1> QED
  BY <1>1, <1>3, <1>4 DEF LedgerSum

(* The sum depends on the invoice's own rows only. *)
LEMMA SumDependsOnRows ==
    \A K, L, i : Rows(K, i) = Rows(L, i) => LedgerSum(K, i) = LedgerSum(L, i)
  BY DEF LedgerSum

(* A blank row is a row. *)
LEMMA BlankIsRow == \A s \in InvoiceStatus \cup Absent : Blank(s) \in Row
  BY DEF Blank, Row

(* What the row transition writes looks like. *)
LEMMA TransitionedIsRow ==
  ASSUME NEW row \in Row, NEW to \in InvoiceStatus
  PROVE  /\ Transitioned(row, to) \in Row
         /\ Transitioned(row, to).status = to
         /\ Transitioned(row, to).archived_at = row.archived_at
         /\ row.approved_at \/ to \in {"Approved", "Paid"} => Transitioned(row, to).approved_at
         /\ Transitioned(row, to).paid_at <=> row.paid_at \/ to = "Paid"
         /\ to # "Paid" => Transitioned(row, to).amount_paid = row.amount_paid
  BY DEF Transitioned, Row

(* What the row reconcileFromLedger writes looks like, for an approval timestamp
   that the row still has. *)
LEMMA ReconciledIsRow ==
  ASSUME NEW row \in Row, NEW paid \in Nat, NEW wasApproved \in BOOLEAN,
         wasApproved => row.approved_at
  PROVE  LET new == Reconciled(row, paid, wasApproved)
         IN  /\ new \in Row
             /\ new.status \in {"Submitted", "Approved", "Partially Paid", "Paid"}
             /\ new.amount_paid = paid
             /\ new.archived_at = row.archived_at
             /\ row.approved_at => new.approved_at
             /\ new.paid_at <=> new.status = "Paid"
             /\ new.status # "Submitted" => new.approved_at
  BY DEF Reconciled, LedgerStatus, Row, InvoiceStatus

-----------------------------------------------------------------------------
(* The initial state satisfies the inductive invariant. *)
LEMMA InitIInv == Init => IInv
<1> SUFFICES ASSUME Init PROVE IInv
  OBVIOUS
<1>1. TypeOK
  <2>1. invoice \in [Invoice -> Row]
    BY BlankIsRow DEF Init, Absent
  <2>2. history \in [Invoice -> Seq(Step)]
    BY DEF Init
  <2> QED
    BY <2>1, <2>2, MaxPaymentsIsNatural DEF Init, TypeOK
<1>2. HistoryFollowsStatus /\ StampsMatchStatus /\ ArchivedIsNotDraft
  BY DEF Init, HistoryFollowsStatus, StampsMatchStatus, ArchivedIsNotDraft,
         Exists, Absent, Blank
<1>3. CacheIsLedgerSum
  BY SumOfNone DEF Init, CacheIsLedgerSum, Blank, Rows
<1>4. SnapshotsAge /\ LedgerOK
  BY DEF Init, SnapshotsAge, LedgerOK
<1> QED
  BY <1>1, <1>2, <1>3, <1>4 DEF IInv

(* A snapshot read: only req changes.                                       *)
LEMMA LoadStep ==
  ASSUME IInv, NEW h \in Handler, NEW i \in Invoice, NEW op \in Op \ {"voidFound"},
         NEW to \in InvoiceStatus \cup {"None"}, NEW n \in Nat,
         Load(h, i, op, to, n),
         op = "archive" => invoice[i].status # "Draft",
         op = "transition" => to \in TRANSITIONS[invoice[i].status]
  PROVE  IInv'
<1> DEFINE new == [op |-> op, invoice |-> i, snap |-> invoice[i], to |-> to, n |-> n]
<1>1. req' = [req EXCEPT ![h] = new] /\ UNCHANGED <<invoice, payments, issued, history>>
  BY DEF Load
<1>2. invoice[i] \in Row /\ new \in Request
  BY DEF IInv, TypeOK, Request
<1>3. TypeOK'
  BY <1>1, <1>2 DEF IInv, TypeOK
<1>4. (HistoryFollowsStatus /\ StampsMatchStatus /\ CacheIsLedgerSum
        /\ ArchivedIsNotDraft /\ LedgerOK)'
  BY <1>1 DEF IInv, HistoryFollowsStatus, StampsMatchStatus, CacheIsLedgerSum,
              ArchivedIsNotDraft, LedgerOK, Exists
<1>5. SnapshotsAge'
  <2> SUFFICES ASSUME NEW g \in Handler, req'[g] # Idle PROVE SnapshotOK(g)'
    BY DEF SnapshotsAge
  <2>1. CASE g = h
    <3>1. req'[g] = new
      BY <1>1, <2>1 DEF IInv, TypeOK
    <3>2. Exists(i)
      BY DEF Load
    <3>3. invoice[i].status \in InvoiceStatus
      BY <1>2, <3>2 DEF Exists, Row
    <3> QED
      BY <1>1, <3>1, <3>2, <3>3 DEF SnapshotOK, Exists, Absent
  <2>2. CASE g # h
    <3>1. req'[g] = req[g]
      BY <1>1, <2>2 DEF IInv, TypeOK
    <3>2. SnapshotOK(g)
      BY <3>1 DEF IInv, SnapshotsAge
    <3> QED
      BY <1>1, <3>1, <3>2 DEF SnapshotOK, Exists
  <2> QED
    BY <2>1, <2>2
<1> QED
  BY <1>3, <1>4, <1>5 DEF IInv

(* Every handler's reading half. *)
LEMMA CheckStep ==
  ASSUME IInv, NEW h \in Handler, NEW i \in Invoice, Check(h, i)
  PROVE  IInv'
<1>1. ASSUME NEW total \in Total, UpdateCheck(h, i, total) PROVE IInv'
  BY <1>1, LoadStep, MoneyIsNatural DEF UpdateCheck, Op
<1>2. ASSUME NEW to \in InvoiceStatus, TransitionCheck(h, i, to) PROVE IInv'
  BY <1>2, LoadStep DEF TransitionCheck, Op
<1>3. CASE ArchiveCheck(h, i)
  BY <1>3, LoadStep DEF ArchiveCheck, Op
<1>4. CASE RestoreCheck(h, i)
  BY <1>4, LoadStep DEF RestoreCheck, Op
<1>5. CASE RemoveCheck(h, i)
  BY <1>5, LoadStep DEF RemoveCheck, Op
<1>6. ASSUME NEW amount \in Amount, RecordCheck(h, i, amount) PROVE IInv'
  BY <1>6, LoadStep, MoneyIsNatural DEF RecordCheck, Op
<1>7. ASSUME NEW id \in 1 .. issued, VoidCheck(h, i, id) PROVE IInv'
  <2>1. id \in Nat
    BY DEF IInv, TypeOK
  <2> QED
    BY <1>7, <2>1, LoadStep DEF VoidCheck, Op
<1> QED
  BY <1>1, <1>2, <1>3, <1>4, <1>5, <1>6, <1>7 DEF Check

-----------------------------------------------------------------------------
(* What every write owes the snapshots other requests still hold.           *)
RowsAge ==
    \A j \in Invoice :
        /\ invoice[j].status # "None" => invoice'[j].status # "None"
        /\ invoice[j].status = "Deleted" => invoice'[j].status = "Deleted"
        /\ Exists(j) /\ Exists(j)' =>
               /\ invoice[j].approved_at => invoice'[j].approved_at
               /\ invoice[j].status # "Draft" => invoice'[j].status # "Draft"

LedgerAges ==
    /\ issued <= issued'
    /\ \A p \in payments' : p \in payments \/ p.id > issued

(* Snapshots keep telling the truth when rows and payments only age. *)
LEMMA SnapshotsSurvive ==
  ASSUME IInv, TypeOK', RowsAge, LedgerAges,
         \A g \in Handler : req'[g] = Idle \/ req'[g] = req[g]
  PROVE  SnapshotsAge'
<1> SUFFICES ASSUME NEW g \in Handler, req'[g] # Idle PROVE SnapshotOK(g)'
  BY DEF SnapshotsAge
<1>1. req'[g] = req[g] /\ SnapshotOK(g) /\ req[g] \in Request
  BY DEF IInv, SnapshotsAge, TypeOK
<1>2. req[g].invoice \in Invoice /\ req[g].snap \in Row /\ req[g].n \in Nat
  BY <1>1 DEF Request
<1>3. invoice'[req[g].invoice].status # "None"
  BY <1>1, <1>2 DEF SnapshotOK, RowsAge
<1>4. Exists(req[g].invoice)' =>
          /\ req[g].snap.approved_at => invoice'[req[g].invoice].approved_at
          /\ req[g].snap.status # "Draft" => invoice'[req[g].invoice].status # "Draft"
  BY <1>1, <1>2 DEF SnapshotOK, RowsAge, Exists, Absent
<1>5. req[g].op = "voidFound" =>
          /\ req[g].n <= issued'
          /\ \A p \in payments' : p.id = req[g].n => p.invoice = req[g].invoice
  <2>1. issued \in Nat /\ issued' \in Nat
    BY MaxPaymentsIsNatural DEF IInv, TypeOK
  <2>2. \A p \in payments' : p.id \in Nat
    BY MaxPaymentsIsNatural DEF TypeOK, Payment
  <2> QED
    BY <1>1, <1>2, <2>1, <2>2 DEF SnapshotOK, LedgerAges
<1> QED
  BY <1>1, <1>3, <1>4, <1>5 DEF SnapshotOK, Exists

(* The request a writing handler serves, and the row it is about.           *)
LEMMA Served ==
  ASSUME IInv, NEW h \in Handler, NEW op \in Op, Serving(h, op)
  PROVE  /\ req[h] \in Request /\ req[h] # Idle
         /\ req[h].invoice \in Invoice /\ req[h].snap \in Row /\ req[h].n \in Nat
         /\ invoice[req[h].invoice] \in Row
         /\ invoice[req[h].invoice].status \in InvoiceStatus
         /\ SnapshotOK(h)
<1>1. req[h] # Idle
  BY DEF Serving, Idle, Op
<1>2. req[h] \in Request
  BY <1>1 DEF IInv, TypeOK
<1>3. req[h].invoice \in Invoice /\ req[h].snap \in Row /\ req[h].n \in Nat
  BY <1>2 DEF Request
<1>4. invoice[req[h].invoice] \in Row
  BY <1>3 DEF IInv, TypeOK
<1>5. invoice[req[h].invoice].status \in InvoiceStatus
  BY <1>4 DEF Serving, Exists, Row
<1> QED
  BY <1>1, <1>2, <1>3, <1>4, <1>5 DEF IInv, SnapshotsAge

(* A chained history stays chained when the step from its last status is added. *)
LEMMA ChainAppend ==
  ASSUME NEW log \in Seq(Step), NEW s, NEW t, Chained(log, s),
         [from |-> s, to |-> t] \in Step
  PROVE  Chained(Append(log, [from |-> s, to |-> t]), t)
  BY DEF Chained

(* Appending the matching entry, or nothing when the status stays, keeps the *)
(* history a chain that ends at the status.                                  *)
LEMMA ChainGrows ==
  ASSUME IInv, NEW i \in Invoice, NEW row \in Row, Exists(i), row.status \in InvoiceStatus,
         invoice' = [invoice EXCEPT ![i] = row],
         \/ row.status = invoice[i].status /\ UNCHANGED history
         \/ Record(i, invoice[i].status, row.status)
  PROVE  HistoryFollowsStatus' /\ history' \in [Invoice -> Seq(Step)]
<1>0. /\ history \in [Invoice -> Seq(Step)] /\ invoice \in [Invoice -> Row]
      /\ invoice[i].status \in InvoiceStatus
  BY DEF IInv, TypeOK, Exists, Row
<1>1. Exists(i)' /\ invoice'[i].status = row.status
  BY <1>0 DEF Exists, Absent, InvoiceStatus
<1>2. \A j \in Invoice \ {i} : invoice'[j] = invoice[j]
  BY <1>0
<1>3. CASE row.status = invoice[i].status /\ UNCHANGED history
  BY <1>0, <1>1, <1>2, <1>3 DEF IInv, HistoryFollowsStatus, Exists
<1>4. CASE Record(i, invoice[i].status, row.status)
  <2> DEFINE entry == [from |-> invoice[i].status, to |-> row.status]
  <2>1. entry \in Step
    BY <1>0 DEF Step
  <2>2. history' = [history EXCEPT ![i] = Append(history[i], entry)]
    BY <1>4 DEF Record
  <2>3. history' \in [Invoice -> Seq(Step)]
    BY <1>0, <2>1, <2>2
  <2>4. \A j \in Invoice \ {i} : history'[j] = history[j]
    BY <1>0, <2>2
  <2>5. history'[i] = Append(history[i], entry)
    BY <1>0, <2>2
  <2>6. Chained(history'[i], row.status)
    BY <1>0, <2>1, <2>5, ChainAppend DEF IInv, HistoryFollowsStatus
  <2>7. \A j \in Invoice \ {i} : Exists(j)' = Exists(j)
    BY <1>2 DEF Exists
  <2> QED
    BY <1>1, <1>2, <2>3, <2>4, <2>6, <2>7 DEF IInv, HistoryFollowsStatus
<1> QED
  BY <1>3, <1>4

(* A write that changes the ledger of invoice i only leaves the other sums.  *)
LEMMA CacheKept ==
  ASSUME IInv, NEW i \in Invoice, NEW row \in Row,
         invoice' = [invoice EXCEPT ![i] = row],
         \A p : p.invoice # i => (p \in payments' <=> p \in payments),
         row.status # "Paid" => row.amount_paid = LedgerSum(payments', i)
  PROVE  CacheIsLedgerSum'
<1> SUFFICES ASSUME NEW j \in Invoice, invoice'[j].status # "Paid"
             PROVE  invoice'[j].amount_paid = LedgerSum(payments', j)
  BY DEF CacheIsLedgerSum
<1>1. invoice'[j] = IF j = i THEN row ELSE invoice[j]
  BY DEF IInv, TypeOK
<1>2. CASE j = i
  BY <1>1, <1>2
<1>3. CASE j # i
  <2>1. Rows(payments', j) = Rows(payments, j)
    BY <1>3 DEF Rows
  <2> QED
    BY <1>1, <1>3, <2>1, SumDependsOnRows DEF IInv, CacheIsLedgerSum
<1> QED
  BY <1>2, <1>3

(* Replacing one row keeps the two invariants that look at rows alone.       *)
LEMMA RowInvariantsKept ==
  ASSUME IInv, NEW i \in Invoice, NEW row,
         \A j \in Invoice : invoice'[j] = IF j = i THEN row ELSE invoice[j],
         row.paid_at <=> row.status = "Paid",
         row.status \in {"Approved", "Partially Paid", "Paid"} => row.approved_at,
         row.archived_at => row.status # "Draft"
  PROVE  StampsMatchStatus' /\ ArchivedIsNotDraft'
<1>1. ASSUME NEW j \in Invoice
      PROVE  /\ invoice'[j].paid_at <=> invoice'[j].status = "Paid"
             /\ invoice'[j].status \in {"Approved", "Partially Paid", "Paid"}
                    => invoice'[j].approved_at
             /\ invoice'[j].archived_at => invoice'[j].status # "Draft"
  <2>1. CASE j = i
    <3>1. invoice'[j] = row
      BY <2>1
    <3> QED
      BY <3>1
  <2>2. CASE j # i
    <3>1. invoice'[j] = invoice[j]
      BY <2>2
    <3> QED
      BY <3>1 DEF IInv, StampsMatchStatus, ArchivedIsNotDraft
  <2> QED
    BY <2>1, <2>2
<1> QED
  BY <1>1 DEF StampsMatchStatus, ArchivedIsNotDraft

-----------------------------------------------------------------------------
(* persistInvoice inserts a row. *)
LEMMA CreateStep ==
  ASSUME IInv, NEW i \in Invoice, NEW total \in Total, Create(i, total)
  PROVE  IInv'
<1> DEFINE row == [Blank("Draft") EXCEPT !.total_amount = total]
<1>1. /\ row \in Row /\ row.status = "Draft" /\ row.amount_paid = 0
      /\ ~row.approved_at /\ ~row.paid_at /\ ~row.archived_at
  BY MoneyIsNatural DEF Blank, Row, InvoiceStatus
<1>2. /\ invoice[i].status = "None" /\ invoice' = [invoice EXCEPT ![i] = row]
      /\ UNCHANGED <<payments, issued, req>>
  BY DEF Create
<1>3. /\ invoice'[i] = row /\ \A j \in Invoice \ {i} : invoice'[j] = invoice[j]
      /\ \A j \in Invoice \ {i} : Exists(j)' = Exists(j)
      /\ Exists(i)' /\ ~Exists(i)
  BY <1>1, <1>2 DEF IInv, TypeOK, Exists, Absent
<1>4. history[i] = << >>
  BY <1>3 DEF IInv, HistoryFollowsStatus
<1>5. history' = [history EXCEPT ![i] = << [from |-> "None", to |-> "Draft"] >>]
  BY <1>4 DEF Create, Record, IInv, TypeOK
<1>6. TypeOK'
  <2>1. << [from |-> "None", to |-> "Draft"] >> \in Seq(Step)
    BY DEF Step, InvoiceStatus
  <2> QED
    BY <1>1, <1>2, <1>5, <2>1 DEF IInv, TypeOK
<1>7. HistoryFollowsStatus'
  <2>1. history'[i] = << [from |-> "None", to |-> "Draft"] >>
    BY <1>5 DEF IInv, TypeOK
  <2>2. \A j \in Invoice \ {i} : history'[j] = history[j]
    BY <1>5 DEF IInv, TypeOK
  <2>3. Chained(history'[i], "Draft")
    BY <2>1 DEF Chained
  <2> QED
    BY <1>1, <1>3, <2>2, <2>3 DEF IInv, HistoryFollowsStatus
<1>8. StampsMatchStatus' /\ ArchivedIsNotDraft'
  BY <1>1, <1>3 DEF IInv, StampsMatchStatus, ArchivedIsNotDraft
<1>9. CacheIsLedgerSum'
  <2>1. Rows(payments', i) = {}
    BY <1>2, <1>3 DEF IInv, LedgerOK, Rows
  <2> QED
    BY <1>1, <1>2, <2>1, SumOfNone, CacheKept
<1>10. SnapshotsAge'
  <2>1. RowsAge
    BY <1>2, <1>3 DEF RowsAge, Exists
  <2> QED
    BY <1>2, <1>6, <2>1, SnapshotsSurvive, MaxPaymentsIsNatural
       DEF LedgerAges, IInv, TypeOK
<1>11. LedgerOK'
  BY <1>2, <1>3 DEF IInv, LedgerOK, TypeOK, Payment
<1> QED
  BY <1>6, <1>7, <1>8, <1>9, <1>10, <1>11 DEF IInv

(* Writes that touch neither the status nor the money received.             *)
LEMMA PlainWrite ==
  ASSUME IInv, NEW h \in Handler, NEW op \in Op, Serving(h, op), NEW row \in Row,
         row.status = invoice[req[h].invoice].status,
         row.amount_paid = invoice[req[h].invoice].amount_paid,
         row.approved_at = invoice[req[h].invoice].approved_at,
         row.paid_at = invoice[req[h].invoice].paid_at,
         row.archived_at => row.status # "Draft",
         invoice' = [invoice EXCEPT ![req[h].invoice] = row],
         Done(h), UNCHANGED <<payments, issued, history>>
  PROVE  IInv'
<1> DEFINE i == req[h].invoice
<1>1. i \in Invoice /\ invoice[i].status \in InvoiceStatus /\ Exists(i)
  BY Served DEF Serving
<1>2. req' = [req EXCEPT ![h] = Idle]
  BY DEF Done
<1>3. invoice'[i] = row /\ \A j \in Invoice \ {i} : invoice'[j] = invoice[j]
  BY <1>1 DEF IInv, TypeOK
<1>4. HistoryFollowsStatus' /\ history' \in [Invoice -> Seq(Step)]
  <2> HIDE DEF i
  <2> QED
    BY <1>1, ChainGrows DEF i
<1>5. TypeOK'
  BY <1>1, <1>2, <1>4 DEF IInv, TypeOK
<1>6. StampsMatchStatus' /\ ArchivedIsNotDraft'
  <2>1. /\ row.paid_at <=> row.status = "Paid"
        /\ row.status \in {"Approved", "Partially Paid", "Paid"} => row.approved_at
    BY <1>1 DEF IInv, StampsMatchStatus
  <2> HIDE DEF i
  <2> QED
    BY <1>3, <2>1 DEF IInv, StampsMatchStatus, ArchivedIsNotDraft
<1>7. CacheIsLedgerSum'
  <2>1. row.status # "Paid" => row.amount_paid = LedgerSum(payments', i)
    BY <1>1 DEF IInv, CacheIsLedgerSum
  <2> HIDE DEF i
  <2> QED
    BY <1>1, <2>1, CacheKept DEF i
<1>8. \A j \in Invoice : Exists(j)' = Exists(j)
  BY <1>1, <1>3 DEF Exists
<1>9. SnapshotsAge'
  <2>1. RowsAge
    BY <1>1, <1>3, <1>8 DEF RowsAge
  <2>2. LedgerAges
    BY MaxPaymentsIsNatural DEF LedgerAges, IInv, TypeOK
  <2> QED
    BY <1>2, <1>5, <2>1, <2>2, SnapshotsSurvive DEF IInv, TypeOK
<1>10. LedgerOK'
  BY <1>8 DEF IInv, LedgerOK, TypeOK, Payment
<1> QED
  BY <1>4, <1>5, <1>6, <1>7, <1>9, <1>10 DEF IInv

(* update, archive and restore. *)
LEMMA PlainSteps ==
  ASSUME IInv, NEW h \in Handler, Update(h) \/ Archive(h) \/ Restore(h)
  PROVE  IInv'
<1> DEFINE i == req[h].invoice
<1>1. CASE Update(h)
  <2> DEFINE row == [invoice[i] EXCEPT !.total_amount = req[h].n]
  <2>1. Serving(h, "update") /\ "update" \in Op
    BY <1>1 DEF Update, Op
  <2>2. invoice[i] \in Row /\ req[h].n \in Nat /\ i \in Invoice
    BY <2>1, Served
  <2>3. /\ row \in Row /\ row.status = invoice[i].status
        /\ row.amount_paid = invoice[i].amount_paid
        /\ row.approved_at = invoice[i].approved_at /\ row.paid_at = invoice[i].paid_at
        /\ row.archived_at = invoice[i].archived_at
    BY <2>2 DEF Row
  <2>4. invoice' = [invoice EXCEPT ![i] = row]
    BY <1>1, <2>2 DEF Update, IInv, TypeOK
  <2>5. row.archived_at => row.status # "Draft"
    BY <2>2, <2>3 DEF IInv, ArchivedIsNotDraft
  <2> QED
    BY <1>1, <2>1, <2>3, <2>4, <2>5, PlainWrite DEF Update
<1>2. CASE Archive(h)
  <2> DEFINE row == [invoice[i] EXCEPT !.archived_at = TRUE]
  <2>1. Serving(h, "archive") /\ "archive" \in Op
    BY <1>2 DEF Archive, Op
  <2>2. invoice[i] \in Row /\ i \in Invoice
    BY <2>1, Served
  <2>3. /\ row \in Row /\ row.status = invoice[i].status
        /\ row.amount_paid = invoice[i].amount_paid
        /\ row.approved_at = invoice[i].approved_at /\ row.paid_at = invoice[i].paid_at
    BY <2>2 DEF Row
  <2>4. invoice' = [invoice EXCEPT ![i] = row]
    BY <1>2, <2>2 DEF Archive, IInv, TypeOK
  <2>5. row.status # "Draft"
    BY <2>1, <2>3, Served DEF SnapshotOK, Serving
  <2> QED
    BY <1>2, <2>1, <2>3, <2>4, <2>5, PlainWrite DEF Archive
<1>3. CASE Restore(h)
  <2> DEFINE row == [invoice[i] EXCEPT !.archived_at = FALSE]
  <2>1. Serving(h, "restore") /\ "restore" \in Op
    BY <1>3 DEF Restore, Op
  <2>2. invoice[i] \in Row /\ i \in Invoice
    BY <2>1, Served
  <2>3. /\ row \in Row /\ row.status = invoice[i].status
        /\ row.amount_paid = invoice[i].amount_paid
        /\ row.approved_at = invoice[i].approved_at /\ row.paid_at = invoice[i].paid_at
        /\ ~row.archived_at
    BY <2>2 DEF Row
  <2>4. invoice' = [invoice EXCEPT ![i] = row]
    BY <1>3, <2>2 DEF Restore, IInv, TypeOK
  <2> QED
    BY <1>3, <2>1, <2>3, <2>4, PlainWrite DEF Restore
<1> QED
  BY <1>1, <1>2, <1>3

(* remove deletes the row, its ledger and its history. *)
LEMMA RemoveStep ==
  ASSUME IInv, NEW h \in Handler, Remove(h)
  PROVE  IInv'
<1>1. PICK i \in Invoice : i = req[h].invoice /\ Exists(i)
  BY Served DEF Remove, Op, Serving
<1>2. /\ invoice' = [invoice EXCEPT ![i] = Blank("Deleted")]
      /\ payments' = payments \ Rows(payments, i) /\ issued' = issued
      /\ history' = [history EXCEPT ![i] = << >>] /\ req' = [req EXCEPT ![h] = Idle]
  BY <1>1 DEF Remove, Done
<1>3. /\ Blank("Deleted") \in Row /\ Blank("Deleted").status = "Deleted"
      /\ Blank("Deleted").amount_paid = 0
      /\ ~Blank("Deleted").paid_at /\ ~Blank("Deleted").archived_at
  BY BlankIsRow DEF Blank, Absent
<1>4. /\ \A j \in Invoice : invoice'[j] = IF j = i THEN Blank("Deleted") ELSE invoice[j]
      /\ ~Exists(i)'
      /\ \A j \in Invoice \ {i} : Exists(j)' = Exists(j)
  <2>1. \A j \in Invoice : invoice'[j] = IF j = i THEN Blank("Deleted") ELSE invoice[j]
    BY <1>1, <1>2 DEF IInv, TypeOK
  <2>2. invoice'[i].status = "Deleted"
    BY <1>1, <1>3, <2>1
  <2> QED
    BY <2>1, <2>2 DEF Exists, Absent
<1>5. TypeOK'
  BY <1>1, <1>2, <1>3 DEF IInv, TypeOK
<1>6. HistoryFollowsStatus'
  <2>1. history'[i] = << >> /\ \A j \in Invoice \ {i} : history'[j] = history[j]
    BY <1>1, <1>2 DEF IInv, TypeOK
  <2> QED
    BY <1>4, <2>1 DEF IInv, HistoryFollowsStatus
<1>7. StampsMatchStatus' /\ ArchivedIsNotDraft'
  BY <1>1, <1>3, <1>4, RowInvariantsKept
<1>8. CacheIsLedgerSum'
  <2>1. Rows(payments', i) = {}
    BY <1>2 DEF Rows
  <2>2. \A p : p.invoice # i => (p \in payments' <=> p \in payments)
    BY <1>2 DEF Rows
  <2> QED
    BY <1>1, <1>2, <1>3, <2>1, <2>2, SumOfNone, CacheKept
<1>9. SnapshotsAge'
  <2>1. RowsAge
    BY <1>1, <1>3, <1>4 DEF RowsAge, Exists, Absent
  <2>2. LedgerAges
    BY <1>2, MaxPaymentsIsNatural DEF LedgerAges, IInv, TypeOK
  <2> QED
    BY <1>2, <1>5, <2>1, <2>2, SnapshotsSurvive DEF IInv, TypeOK
<1>10. LedgerOK'
  BY <1>2, <1>4 DEF IInv, LedgerOK, TypeOK, Payment, Rows
<1> QED
  BY <1>5, <1>6, <1>7, <1>8, <1>9, <1>10 DEF IInv

(* What recordPayment, voidPayment and transition do to the ledger: only rows *)
(* of the served invoice come or go, and new rows get a fresh id.             *)
LedgerStep(i) ==
    /\ payments' \subseteq Payment /\ issued' \in 0 .. MaxPayments /\ issued <= issued'
    /\ \A p \in payments' :
           p \in payments \/ (issued < p.id /\ p.id <= issued' /\ p.invoice = i)
    /\ \A p : p.invoice # i => (p \in payments' <=> p \in payments)
    /\ \A p, q \in payments' : p.id = q.id => p = q

(* An allowed change of the ledger keeps it well formed and its payments in place. *)
LEMMA LedgerStepAges ==
  ASSUME IInv, NEW i \in Invoice, Exists(i)', LedgerStep(i),
         \A j \in Invoice : Exists(j) => Exists(j)'
  PROVE  LedgerAges /\ LedgerOK'
<1>1. issued \in Int /\ issued' \in Int
  BY MaxPaymentsIsNatural DEF IInv, TypeOK, LedgerStep
<1>2. \A p \in payments' : p.invoice \in Invoice /\ p.id \in Int
  BY MaxPaymentsIsNatural DEF LedgerStep, Payment
<1>3. LedgerAges
  BY DEF LedgerStep, LedgerAges
<1>4. ASSUME NEW p \in payments' PROVE p.id <= issued' /\ Exists(p.invoice)'
  <2>1. CASE p \in payments
    <3>1. p.id <= issued /\ Exists(p.invoice)
      BY <2>1 DEF IInv, LedgerOK
    <3>2. issued <= issued'
      BY DEF LedgerStep
    <3> QED
      BY <1>1, <1>2, <3>1, <3>2
  <2>2. CASE p \notin payments
    BY <2>2 DEF LedgerStep
  <2> QED
    BY <2>1, <2>2
<1> QED
  BY <1>3, <1>4 DEF LedgerOK, LedgerStep

(* What they write into the row: never Draft, with the stamps that go with   *)
(* the new status, keeping an approval and the cached ledger sum.            *)
MoneyRow(i, row) ==
    /\ row \in Row /\ row.status \in InvoiceStatus \ {"Draft"}
    /\ row.paid_at <=> row.status = "Paid"
    /\ row.status \in {"Approved", "Partially Paid", "Paid"} => row.approved_at
    /\ invoice[i].approved_at => row.approved_at
    /\ row.status # "Paid" => row.amount_paid = LedgerSum(payments', i)

(* A write to one row and its ledger keeps the invariant if the new row is right. *)
LEMMA MoneyWrite ==
  ASSUME IInv, NEW h \in Handler, NEW op \in Op, Serving(h, op), NEW row,
         MoneyRow(req[h].invoice, row), LedgerStep(req[h].invoice),
         invoice' = [invoice EXCEPT ![req[h].invoice] = row],
         \/ row.status = invoice[req[h].invoice].status /\ UNCHANGED history
         \/ Record(req[h].invoice, invoice[req[h].invoice].status, row.status),
         Done(h)
  PROVE  IInv'
<1>1. PICK i \in Invoice :
          i = req[h].invoice /\ invoice[i].status \in InvoiceStatus /\ Exists(i)
  BY Served DEF Serving
<1>2. req' = [req EXCEPT ![h] = Idle]
  BY DEF Done
<1>3. MoneyRow(i, row) /\ LedgerStep(i) /\ invoice' = [invoice EXCEPT ![i] = row]
  BY <1>1
<1>4. \A j \in Invoice : invoice'[j] = IF j = i THEN row ELSE invoice[j]
  BY <1>1, <1>3 DEF IInv, TypeOK
<1>5. row \in Row /\ row.status \in InvoiceStatus \ {"Draft"}
  BY <1>3 DEF MoneyRow
<1>6. \A j \in Invoice : Exists(j)' = Exists(j)
  <2>1. Exists(i)'
    BY <1>1, <1>4, <1>5 DEF Exists, Absent, InvoiceStatus
  <2> QED
    BY <1>1, <1>4, <2>1 DEF Exists
<1>7. HistoryFollowsStatus' /\ history' \in [Invoice -> Seq(Step)]
  BY <1>1, <1>5, ChainGrows
<1>8. TypeOK'
  BY <1>1, <1>2, <1>3, <1>5, <1>7 DEF IInv, TypeOK, LedgerStep
<1>9. StampsMatchStatus' /\ ArchivedIsNotDraft'
  <2>1. /\ row.paid_at <=> row.status = "Paid"
        /\ row.status \in {"Approved", "Partially Paid", "Paid"} => row.approved_at
        /\ row.archived_at => row.status # "Draft"
    BY <1>3 DEF MoneyRow
  <2> QED
    BY <1>1, <1>4, <2>1, RowInvariantsKept
<1>10. CacheIsLedgerSum'
  BY <1>1, <1>3, <1>5, CacheKept DEF MoneyRow, LedgerStep
<1>11. LedgerAges /\ LedgerOK'
  BY <1>1, <1>3, <1>6, LedgerStepAges
<1>12. SnapshotsAge'
  <2>1. RowsAge
    BY <1>1, <1>3, <1>4, <1>5, <1>6 DEF RowsAge, MoneyRow, Exists, Absent, InvoiceStatus
  <2> QED
    BY <1>2, <1>8, <1>11, <2>1, SnapshotsSurvive DEF IInv, TypeOK
<1> QED
  BY <1>7, <1>8, <1>9, <1>10, <1>11, <1>12 DEF IInv

(* The ledger is finite: its ids tell its rows apart, and are bounded. *)
LEMMA LedgerIsPriced ==
  ASSUME IInv
  PROVE  Priced(payments)
<1>1. payments \subseteq Payment /\ \A p, q \in payments : p.id = q.id => p = q
  BY DEF IInv, TypeOK, LedgerOK
<1>2. PICK f : f = [p \in payments |-> p.id]
  OBVIOUS
<1>3. f \in Injection(payments, 1 .. MaxPayments)
  BY <1>1, <1>2 DEF Injection, IsInjective, Payment
<1>4. IsFiniteSet(1 .. MaxPayments)
  BY FS_Interval, MaxPaymentsIsNatural
<1>5. IsFiniteSet(payments)
  BY <1>3, <1>4, FS_Injection
<1> QED
  BY <1>1, <1>5 DEF Priced, Payment

(* A payment more or less leaves it so. *)
LEMMA PricedWith ==
  ASSUME IInv, NEW i, NEW amount \in Nat
  PROVE  Priced(payments \cup {NewPayment(i, amount)})
<1>1. IsFiniteSet(payments \cup {NewPayment(i, amount)})
  BY LedgerIsPriced, FS_AddElement DEF Priced
<1>2. NewPayment(i, amount).amount \in Nat
  BY DEF NewPayment
<1> QED
  BY <1>1, <1>2, LedgerIsPriced DEF Priced

LEMMA PricedWithout ==
  ASSUME IInv, NEW ledger, ledger \subseteq payments
  PROVE  Priced(ledger)
  BY LedgerIsPriced, FS_Subset DEF Priced

(* reconcileFromLedger writes such a row. *)
LEMMA ReconcileStep ==
  ASSUME IInv, NEW h \in Handler, NEW op \in Op, Serving(h, op), NEW ledger,
         reconcileFromLedger(req[h], ledger),
         payments' = ledger => LedgerStep(req[h].invoice), Priced(ledger),
         Done(h)
  PROVE  IInv'
<1>1. PICK i \in Invoice : i = req[h].invoice /\ invoice[i] \in Row /\ Exists(i)
  BY Served DEF Serving
<1> DEFINE paid == LedgerSum(ledger, i)
           was == req[h].snap.approved_at
           row == Reconciled(invoice[i], paid, was)
<1>2. /\ payments' = ledger /\ invoice' = [invoice EXCEPT ![i] = row]
      /\ \/ row.status = invoice[i].status /\ UNCHANGED history
         \/ Record(i, invoice[i].status, row.status)
  BY <1>1 DEF reconcileFromLedger
<1>3. was \in BOOLEAN /\ (was => invoice[i].approved_at)
  BY <1>1, Served DEF SnapshotOK, Row
<1>4. paid \in Nat
  BY SumIsNatural
<1> HIDE DEF paid, was
<1>5. /\ row \in Row /\ row.amount_paid = paid
      /\ row.status \in {"Submitted", "Approved", "Partially Paid", "Paid"}
      /\ row.paid_at <=> row.status = "Paid"
      /\ row.status # "Submitted" => row.approved_at
      /\ invoice[i].approved_at => row.approved_at
  BY <1>1, <1>3, <1>4, ReconciledIsRow
<1> HIDE DEF row
<1>6. MoneyRow(i, row)
  BY <1>2, <1>5 DEF MoneyRow, InvoiceStatus, paid
<1> QED
  BY <1>1, <1>2, <1>6, MoneyWrite

(* A new payment keeps the ledger well formed. *)
LEMMA NewPaymentStep ==
  ASSUME IInv, NEW i \in Invoice, NEW amount \in Nat, issued < MaxPayments,
         payments' = payments \cup {NewPayment(i, amount)}, issued' = issued + 1
  PROVE  LedgerStep(i)
<1>1. issued \in Nat /\ payments \subseteq Payment /\ MaxPayments \in Nat
  BY MaxPaymentsIsNatural DEF IInv, TypeOK
<1>2. /\ NewPayment(i, amount) \in Payment /\ NewPayment(i, amount).id = issued + 1
      /\ NewPayment(i, amount).invoice = i
  BY <1>1 DEF NewPayment, Payment
<1>3. \A p \in payments : p.id <= issued /\ p.id \in Int
  BY <1>1 DEF IInv, LedgerOK, Payment
<1>4. \A p, q \in payments' : p.id = q.id => p = q
  BY <1>1, <1>2, <1>3 DEF IInv, LedgerOK
<1> QED
  BY <1>1, <1>2, <1>4 DEF LedgerStep

(* recordPayment. *)
LEMMA RecordPaymentStep ==
  ASSUME IInv, NEW h \in Handler, recordPayment(h)
  PROVE  IInv'
<1>1. Serving(h, "recordPayment") /\ "recordPayment" \in Op
  BY DEF recordPayment, Op
<1>2. req[h].invoice \in Invoice /\ req[h].n \in Nat
  BY <1>1, Served
<1> DEFINE ledger == payments \cup {NewPayment(req[h].invoice, req[h].n)}
<1>3. /\ issued < MaxPayments /\ issued' = issued + 1
      /\ reconcileFromLedger(req[h], ledger) /\ Done(h)
  BY DEF recordPayment
<1>4. payments' = ledger => LedgerStep(req[h].invoice)
  BY <1>2, <1>3, NewPaymentStep
<1>5. Priced(ledger)
  BY <1>2, PricedWith
<1> HIDE DEF ledger
<1> QED
  BY <1>1, <1>3, <1>4, <1>5, ReconcileStep

(* voidPayment. *)
LEMMA VoidPaymentStep ==
  ASSUME IInv, NEW h \in Handler, voidPayment(h)
  PROVE  IInv'
<1>1. Serving(h, "voidFound") /\ "voidFound" \in Op
  BY DEF voidPayment, Op
<1>2. /\ req[h].invoice \in Invoice
      /\ \A p \in payments : p.id = req[h].n => p.invoice = req[h].invoice
  BY <1>1, Served DEF SnapshotOK, Serving
<1> DEFINE ledger == {p \in payments : p.id # req[h].n}
<1>3. UNCHANGED issued /\ reconcileFromLedger(req[h], ledger) /\ Done(h)
  BY DEF voidPayment
<1>4. payments \subseteq Payment /\ issued \in 0 .. MaxPayments /\ MaxPayments \in Nat
  BY MaxPaymentsIsNatural DEF IInv, TypeOK
<1>5. payments' = ledger => LedgerStep(req[h].invoice)
  BY <1>2, <1>3, <1>4 DEF LedgerStep, IInv, LedgerOK
<1>6. Priced(ledger)
  BY PricedWithout
<1> HIDE DEF ledger
<1> QED
  BY <1>1, <1>3, <1>5, <1>6, ReconcileStep

(* Where a transition can lead and where it can start. *)
LEMMA LegalTargets ==
  ASSUME NEW from \in InvoiceStatus, NEW to \in TRANSITIONS[from]
  PROVE  /\ to \in InvoiceStatus \ {"Draft", "Partially Paid"} /\ from # "Paid"
         /\ from # "Cancelled"
         /\ to = "Submitted" => from = "Draft"
  BY DEF TRANSITIONS, InvoiceStatus

(* transition. *)
LEMMA TransitionStep ==
  ASSUME IInv, NEW h \in Handler, Transition(h)
  PROVE  IInv'
<1>1. Serving(h, "transition") /\ "transition" \in Op
  BY DEF Transition, Op
<1>2. PICK i \in Invoice : /\ i = req[h].invoice /\ invoice[i] \in Row
                           /\ invoice[i].status \in InvoiceStatus
  BY <1>1, Served
<1>3. /\ invoice[i].status = req[h].snap.status
      /\ req[h].to \in TRANSITIONS[invoice[i].status]
  BY <1>1, <1>2, Served DEF Transition, SnapshotOK, Serving
<1> DEFINE to == req[h].to
           remaining == Remaining(req[h])
           settles == Settles(req[h])
           row == Transitioned(invoice[i], to)
<1>4. /\ to \in InvoiceStatus \ {"Draft", "Partially Paid"}
      /\ invoice[i].status # "Paid"
  BY <1>2, <1>3, LegalTargets
<1>5. invoice' = [invoice EXCEPT ![i] = row] /\ Record(i, invoice[i].status, to) /\ Done(h)
  BY <1>2, <1>3 DEF Transition, IInv, TypeOK
<1>6. LedgerStep(i)
  <2>1. CASE settles
    <3>1. req[h].snap \in Row
      BY <1>1, Served
    <3>2. remaining \in Nat
      BY <2>1, <3>1 DEF Row, Settles, Remaining
    <3>3. /\ issued < MaxPayments /\ issued' = issued + 1
          /\ payments' = payments \cup {NewPayment(i, remaining)}
      BY <1>2, <2>1 DEF Transition
    <3> QED
      BY <3>2, <3>3, NewPaymentStep
  <2>2. CASE ~settles
    <3>1. UNCHANGED <<payments, issued>>
      BY <2>2 DEF Transition
    <3>2. payments \subseteq Payment /\ issued \in 0 .. MaxPayments /\ MaxPayments \in Nat
      BY MaxPaymentsIsNatural DEF IInv, TypeOK
    <3> QED
      BY <3>1, <3>2 DEF LedgerStep, IInv, LedgerOK
  <2> QED
    BY <2>1, <2>2
<1>7. /\ row \in Row /\ row.status = to
      /\ invoice[i].approved_at \/ to \in {"Approved", "Paid"} => row.approved_at
      /\ row.paid_at <=> invoice[i].paid_at \/ to = "Paid"
      /\ to # "Paid" => row.amount_paid = invoice[i].amount_paid
  BY <1>2, <1>4, TransitionedIsRow
<1>8. invoice[i].paid_at = FALSE
  BY <1>2, <1>4 DEF IInv, StampsMatchStatus, Row
<1>9. to # "Paid" => invoice[i].amount_paid = LedgerSum(payments', i)
  <2>1. to # "Paid" => payments' = payments
    BY DEF Transition, Settles
  <2> QED
    BY <1>4, <2>1 DEF IInv, CacheIsLedgerSum
<1>10. MoneyRow(i, row)
  <2>1. row.paid_at <=> row.status = "Paid"
    BY <1>7, <1>8
  <2>2. row.status \in {"Approved", "Partially Paid", "Paid"} => row.approved_at
    BY <1>4, <1>7
  <2>3. invoice[i].approved_at => row.approved_at
    BY <1>7
  <2> HIDE DEF row, to
  <2> QED
    BY <1>4, <1>7, <1>9, <2>1, <2>2, <2>3 DEF MoneyRow
<1> HIDE DEF row
<1> QED
  BY <1>1, <1>2, <1>5, <1>6, <1>7, <1>10, MoneyWrite

(* voidPayment finds its payment. *)
LEMMA VoidFindStep ==
  ASSUME IInv, NEW h \in Handler, VoidFind(h)
  PROVE  IInv'
<1>1. /\ req[h].op = "voidPayment" /\ UNCHANGED <<invoice, payments, issued, history>>
      /\ req' = [req EXCEPT ![h].op = "voidFound"]
  BY DEF VoidFind
<1>2. PICK q \in payments : q.id = req[h].n /\ q.invoice = req[h].invoice
  BY DEF VoidFind
<1>3. req[h] # Idle /\ req[h] \in Request
  BY <1>1 DEF Idle, IInv, TypeOK
<1> DEFINE new == [req[h] EXCEPT !.op = "voidFound"]
<1>4. /\ new \in Request /\ new.op = "voidFound" /\ new.invoice = req[h].invoice
      /\ new.snap = req[h].snap /\ new.n = req[h].n /\ req' = [req EXCEPT ![h] = new]
  BY <1>1, <1>3 DEF Request, Op, IInv, TypeOK
<1>5. TypeOK'
  BY <1>1, <1>4 DEF IInv, TypeOK
<1>6. (HistoryFollowsStatus /\ StampsMatchStatus /\ CacheIsLedgerSum
        /\ ArchivedIsNotDraft /\ LedgerOK)'
  BY <1>1 DEF IInv, HistoryFollowsStatus, StampsMatchStatus, CacheIsLedgerSum,
              ArchivedIsNotDraft, LedgerOK, Exists
<1>7. SnapshotsAge'
  <2> SUFFICES ASSUME NEW g \in Handler, req'[g] # Idle PROVE SnapshotOK(g)'
    BY DEF SnapshotsAge
  <2>1. CASE g = h
    <3>1. req'[g] = new /\ SnapshotOK(h)
      BY <1>3, <1>4, <2>1 DEF IInv, TypeOK, SnapshotsAge
    <3>2. \A p \in payments : p.id = req[h].n => p.invoice = req[h].invoice
      BY <1>2 DEF IInv, LedgerOK
    <3>3. req[h].n <= issued
      BY <1>2 DEF IInv, LedgerOK
    <3> HIDE DEF new
    <3> QED
      BY <1>1, <1>4, <3>1, <3>2, <3>3 DEF SnapshotOK, Exists
  <2>2. CASE g # h
    <3>1. req'[g] = req[g] /\ SnapshotOK(g)
      BY <1>4, <2>2 DEF IInv, TypeOK, SnapshotsAge
    <3> QED
      BY <1>1, <3>1 DEF SnapshotOK, Exists
  <2> QED
    BY <2>1, <2>2
<1> QED
  BY <1>5, <1>6, <1>7 DEF IInv

(* A request is rejected or fails. *)
LEMMA FailStep ==
  ASSUME IInv, NEW h \in Handler, Fail(h)
  PROVE  IInv'
<1>1. req' = [req EXCEPT ![h] = Idle] /\ UNCHANGED <<invoice, payments, issued, history>>
  BY DEF Fail, Done
<1>2. TypeOK'
  BY <1>1 DEF IInv, TypeOK
<1>3. (HistoryFollowsStatus /\ StampsMatchStatus /\ CacheIsLedgerSum
        /\ ArchivedIsNotDraft /\ LedgerOK)'
  BY <1>1 DEF IInv, HistoryFollowsStatus, StampsMatchStatus, CacheIsLedgerSum,
              ArchivedIsNotDraft, LedgerOK, Exists
<1>4. SnapshotsAge'
  <2>1. RowsAge
    BY <1>1 DEF RowsAge
  <2>2. LedgerAges
    BY <1>1, MaxPaymentsIsNatural DEF LedgerAges, IInv, TypeOK
  <2> QED
    BY <1>1, <1>2, <2>1, <2>2, SnapshotsSurvive DEF IInv, TypeOK
<1> QED
  BY <1>2, <1>3, <1>4 DEF IInv

(* Nothing changes. *)
LEMMA StutterStep ==
  ASSUME IInv, UNCHANGED vars
  PROVE  IInv'
<1>1. (TypeOK /\ HistoryFollowsStatus /\ StampsMatchStatus /\ CacheIsLedgerSum
        /\ ArchivedIsNotDraft /\ LedgerOK)'
  BY DEF vars, IInv, TypeOK, HistoryFollowsStatus, StampsMatchStatus, CacheIsLedgerSum,
         ArchivedIsNotDraft, LedgerOK, Exists
<1>2. SnapshotsAge'
  BY DEF vars, IInv, SnapshotsAge, SnapshotOK, Exists
<1> QED
  BY <1>1, <1>2 DEF IInv

(* Every step keeps the inductive invariant. *)
LEMMA NextIInv == IInv /\ [Next]_vars => IInv'
<1> SUFFICES ASSUME IInv, [Next]_vars PROVE IInv'
  OBVIOUS
<1>1. ASSUME NEW i \in Invoice, NEW total \in Total, Create(i, total) PROVE IInv'
  BY <1>1, CreateStep
<1>2. ASSUME NEW h \in Handler, NEW i \in Invoice, Check(h, i) PROVE IInv'
  BY <1>2, CheckStep
<1>3. ASSUME NEW h \in Handler, Write(h) PROVE IInv'
  BY <1>3, VoidFindStep, PlainSteps, TransitionStep, RemoveStep, RecordPaymentStep,
     VoidPaymentStep, FailStep DEF Write
<1>4. CASE UNCHANGED vars
  BY <1>4, StutterStep
<1> QED
  BY <1>1, <1>2, <1>3, <1>4 DEF Next

(* The inductive invariant: the checked invariants, what each snapshot still says of
   its row, and a well-formed ledger. *)
THEOREM Inductive == Spec => []IInv
<1> QED
  BY InitIInv, NextIInv, PTL DEF Spec

-----------------------------------------------------------------------------
(* Every column and every request in flight keeps its type.                 *)
THEOREM TypeCorrect == Spec => []TypeOK
<1>1. IInv => TypeOK
  BY DEF IInv
<1> QED
  BY Inductive, <1>1, PTL

(* The status history of every invoice is an unbroken chain ending at its   *)
(* status, for any number of racing transitions, payments and voids.        *)
THEOREM HistoryIsChain == Spec => []HistoryFollowsStatus
<1>1. IInv => HistoryFollowsStatus
  BY DEF IInv
<1> QED
  BY Inductive, <1>1, PTL

(* A Paid invoice has paid_at, an approved or paid one has approved_at, and  *)
(* no other invoice has paid_at.                                             *)
THEOREM StampsFollow == Spec => []StampsMatchStatus
<1>1. IInv => StampsMatchStatus
  BY DEF IInv
<1> QED
  BY Inductive, <1>1, PTL

(* amount_paid is the sum of the ledger for every invoice not yet Paid.      *)
THEOREM CacheIsExact == Spec => []CacheIsLedgerSum
<1>1. IInv => CacheIsLedgerSum
  BY DEF IInv
<1> QED
  BY Inductive, <1>1, PTL

(* No interleaving of archive, submit and edit archives a Draft.             *)
THEOREM DraftsStayActive == Spec => []ArchivedIsNotDraft
<1>1. IInv => ArchivedIsNotDraft
  BY DEF IInv
<1> QED
  BY Inductive, <1>1, PTL

-----------------------------------------------------------------------------
(* No step overpays.                                                        *)
NothingOverpaid ==
    \A i \in Invoice :
        invoice'[i].amount_paid > invoice[i].amount_paid
            => invoice'[i].amount_paid <= invoice'[i].total_amount

(* A step that writes one row need answer for this row only. *)
LEMMA OneRowPaid ==
  ASSUME IInv, NEW i \in Invoice, NEW row, invoice' = [invoice EXCEPT ![i] = row],
         row.amount_paid > invoice[i].amount_paid => row.amount_paid <= row.total_amount
  PROVE  NothingOverpaid
<1>1. invoice \in [Invoice -> Row]
  BY DEF IInv, TypeOK
<1>2. \A j \in Invoice : ~ (invoice[j].amount_paid > invoice[j].amount_paid)
  BY <1>1 DEF Row
<1> QED
  BY <1>1, <1>2 DEF NothingOverpaid

LEMMA NoRowPaid ==
  ASSUME IInv, UNCHANGED invoice
  PROVE  NothingOverpaid
<1>1. invoice \in [Invoice -> Row]
  BY DEF IInv, TypeOK
<1> QED
  BY <1>1 DEF NothingOverpaid, Row

(* What reconcileFromLedger makes of the sum of the ledger. *)
LEMMA ReconcilePays ==
  ASSUME IInv, NEW h \in Handler, NEW op \in Op, Serving(h, op), NEW ledger,
         reconcileFromLedger(req[h], ledger), NEW paid, paid = LedgerSum(ledger, req[h].invoice),
         paid > invoice[req[h].invoice].amount_paid => paid <= invoice[req[h].invoice].total_amount
  PROVE  NothingOverpaid
<1>1. PICK i \in Invoice : i = req[h].invoice /\ invoice[i] \in Row
  BY Served
<1>2. PICK row : row = Reconciled(invoice[i], paid, req[h].snap.approved_at)
  OBVIOUS
<1>3. invoice' = [invoice EXCEPT ![i] = row]
  BY <1>1, <1>2 DEF reconcileFromLedger
<1>4. row.amount_paid = paid /\ row.total_amount = invoice[i].total_amount
  BY <1>1, <1>2 DEF Reconciled, Row
<1> QED
  BY <1>1, <1>3, <1>4, OneRowPaid

(* recordPayment: the balance is that of the locked row, and amount_paid is the sum of the
   ledger there. *)
LEMMA RecordPaysUpToTotal ==
  ASSUME IInv, NEW h \in Handler, recordPayment(h)
  PROVE  NothingOverpaid
<1>1. Serving(h, "recordPayment") /\ "recordPayment" \in Op
  BY DEF recordPayment, Op
<1>2. PICK i \in Invoice : i = req[h].invoice /\ invoice[i] \in Row /\ req[h].n \in Nat
  BY <1>1, Served
<1>3. /\ invoice[i].status # "Paid"
      /\ req[h].n <= invoice[i].total_amount - invoice[i].amount_paid
  BY <1>2 DEF recordPayment, isUnpaid
<1>4. invoice[i].amount_paid = LedgerSum(payments, i)
  BY <1>3 DEF IInv, CacheIsLedgerSum
<1>5. PICK p : p = NewPayment(i, req[h].n)
  OBVIOUS
<1>6. p.invoice = i /\ p.amount = req[h].n /\ p.id = issued + 1
  BY <1>5 DEF NewPayment
<1>7. PICK ledger : ledger = payments \cup {p}
  OBVIOUS
<1>8. p \notin payments
  BY <1>6 DEF IInv, LedgerOK, TypeOK
<1>9. ledger \ {p} = payments /\ p \in ledger
  BY <1>7, <1>8
<1>10. Priced(ledger)
  BY <1>2, <1>5, <1>7, PricedWith
<1>11. LedgerSum(ledger, i) = req[h].n + LedgerSum(payments, i)
  BY <1>6, <1>9, <1>10, SumOfRow
<1>12. PICK paid : paid = LedgerSum(ledger, i)
  OBVIOUS
<1>13. paid <= invoice[i].total_amount
  BY <1>2, <1>3, <1>4, <1>11, <1>12 DEF Row
<1>14. reconcileFromLedger(req[h], ledger)
  BY <1>2, <1>5, <1>7 DEF recordPayment
<1> QED
  BY <1>1, <1>2, <1>12, <1>13, <1>14, ReconcilePays

(* voidPayment: the sum of the ledger falls. *)
LEMMA VoidPaysBack ==
  ASSUME IInv, NEW h \in Handler, voidPayment(h)
  PROVE  NothingOverpaid
<1>1. Serving(h, "voidFound") /\ "voidFound" \in Op
  BY DEF voidPayment, Op
<1>2. PICK i \in Invoice : i = req[h].invoice /\ invoice[i] \in Row
  BY <1>1, Served
<1>3. \A p \in payments : p.id = req[h].n => p.invoice = i
  BY <1>1, <1>2, Served DEF SnapshotOK, Serving
<1>4. invoice[i].status # "Paid"
  BY <1>2 DEF voidPayment
<1>5. invoice[i].amount_paid = LedgerSum(payments, i)
  BY <1>4 DEF IInv, CacheIsLedgerSum
<1>6. PICK ledger : ledger = {p \in payments : p.id # req[h].n}
  OBVIOUS
<1>7. LedgerSum(ledger, i) \in Nat
  BY <1>6, PricedWithout, SumIsNatural
<1>8. LedgerSum(ledger, i) <= invoice[i].amount_paid
  <2>1. CASE \E p \in payments : p.id = req[h].n
    <3>1. PICK p \in payments : p.id = req[h].n
      BY <2>1
    <3>2. p.invoice = i /\ p.amount \in Nat
      BY <1>3, <3>1 DEF IInv, TypeOK, Payment
    <3>3. ledger = payments \ {p}
      BY <1>6, <3>1 DEF IInv, LedgerOK
    <3>4. LedgerSum(payments, i) = p.amount + LedgerSum(payments \ {p}, i)
      BY <3>1, <3>2, LedgerIsPriced, SumOfRow
    <3> QED
      BY <1>5, <1>7, <3>2, <3>3, <3>4
  <2>2. CASE ~ \E p \in payments : p.id = req[h].n
    <3>1. ledger = payments
      BY <1>6, <2>2
    <3> QED
      BY <1>5, <1>7, <3>1
  <2> QED
    BY <2>1, <2>2
<1>9. PICK paid : paid = LedgerSum(ledger, i)
  OBVIOUS
<1>10. ~ (paid > invoice[i].amount_paid)
  BY <1>2, <1>7, <1>8, <1>9 DEF Row
<1>11. reconcileFromLedger(req[h], ledger)
  BY <1>6 DEF voidPayment
<1> QED
  BY <1>1, <1>2, <1>9, <1>10, <1>11, ReconcilePays

(* The other writes leave amount_paid alone, reset it or set it to the total. *)
LEMMA OtherWritesPay ==
  ASSUME IInv, NEW h \in Handler,
         Update(h) \/ Transition(h) \/ Archive(h) \/ Restore(h) \/ Remove(h)
  PROVE  NothingOverpaid
<1>1. invoice \in [Invoice -> Row]
  BY DEF IInv, TypeOK
<1>2. PICK op \in Op : Serving(h, op)
  BY DEF Update, Transition, Archive, Restore, Remove, Op
<1>3. PICK i \in Invoice : i = req[h].invoice /\ invoice[i] \in Row
  BY <1>2, Served
<1>4. ~ (invoice[i].amount_paid > invoice[i].amount_paid) /\ ~ (0 > invoice[i].amount_paid)
      /\ invoice[i].total_amount <= invoice[i].total_amount
  BY <1>3 DEF Row
<1>5. CASE Update(h)
  <2>1. PICK row : row = [invoice[i] EXCEPT !.total_amount = req[h].n]
    OBVIOUS
  <2>2. invoice' = [invoice EXCEPT ![i] = row] /\ row.amount_paid = invoice[i].amount_paid
    BY <1>1, <1>3, <1>5, <2>1 DEF Update, Row
  <2> QED
    BY <1>4, <2>2, OneRowPaid
<1>6. CASE Transition(h)
  <2>1. PICK row : row = Transitioned(invoice[i], req[h].to)
    OBVIOUS
  <2>2. /\ invoice' = [invoice EXCEPT ![i] = row]
        /\ row.amount_paid \in {invoice[i].amount_paid, invoice[i].total_amount}
        /\ row.total_amount = invoice[i].total_amount
    BY <1>1, <1>3, <1>6, <2>1 DEF Transition, Transitioned, Row
  <2> QED
    BY <1>4, <2>2, OneRowPaid
<1>7. CASE Archive(h) \/ Restore(h)
  <2>1. PICK on \in BOOLEAN : invoice' = [invoice EXCEPT ![i].archived_at = on]
    BY <1>3, <1>7 DEF Archive, Restore
  <2>2. PICK row : row = [invoice[i] EXCEPT !.archived_at = on]
    OBVIOUS
  <2>3. invoice' = [invoice EXCEPT ![i] = row] /\ row.amount_paid = invoice[i].amount_paid
    BY <1>1, <1>3, <2>1, <2>2 DEF Row
  <2> QED
    BY <1>4, <2>3, OneRowPaid
<1>8. CASE Remove(h)
  <2>1. PICK row : row = Blank("Deleted")
    OBVIOUS
  <2>2. invoice' = [invoice EXCEPT ![i] = row] /\ row.amount_paid = 0
    BY <1>3, <1>8, <2>1 DEF Remove, Blank
  <2> QED
    BY <1>4, <2>2, OneRowPaid
<1> QED
  BY <1>5, <1>6, <1>7, <1>8

LEMMA CreatePaysNothing ==
  ASSUME IInv, NEW i \in Invoice, NEW total \in Total, Create(i, total)
  PROVE  NothingOverpaid
<1>1. PICK row : row = [Blank("Draft") EXCEPT !.total_amount = total]
  OBVIOUS
<1>2. invoice' = [invoice EXCEPT ![i] = row] /\ row.amount_paid = 0
  BY <1>1 DEF Create, Blank
<1>3. ~ (0 > invoice[i].amount_paid)
  BY DEF IInv, TypeOK, Row
<1> QED
  BY <1>2, <1>3, OneRowPaid

LEMMA NextPays ==
  ASSUME IInv, Next
  PROVE  NothingOverpaid
<1>1. ASSUME NEW i \in Invoice, NEW total \in Total, Create(i, total)
      PROVE  NothingOverpaid
  BY <1>1, CreatePaysNothing
<1>2. ASSUME NEW h \in Handler, NEW i \in Invoice, Check(h, i)
      PROVE  NothingOverpaid
  <2>1. UNCHANGED invoice
    BY <1>2 DEF Check, UpdateCheck, TransitionCheck, ArchiveCheck, RestoreCheck, RemoveCheck,
       RecordCheck, VoidCheck, Load
  <2> QED
    BY <2>1, NoRowPaid
<1>3. ASSUME NEW h \in Handler, Write(h)
      PROVE  NothingOverpaid
  <2>1. CASE VoidFind(h) \/ Fail(h)
    BY <2>1, NoRowPaid DEF VoidFind, Fail
  <2>2. CASE recordPayment(h)
    BY <2>2, RecordPaysUpToTotal
  <2>3. CASE voidPayment(h)
    BY <2>3, VoidPaysBack
  <2> QED
    BY <1>3, <2>1, <2>2, <2>3, OtherWritesPay DEF Write
<1> QED
  BY <1>1, <1>2, <1>3 DEF Next

(* However many payments, voids, edits and transitions race, no step that    *)
(* takes money in leaves more paid than the total of the invoice.            *)
THEOREM NobodyOverpays == Spec => NoOverpayment
<1>1. IInv /\ [Next]_vars => [NothingOverpaid]_vars
  BY NextPays
<1> QED
  BY <1>1, Inductive, PTL DEF Spec, NoOverpayment, NothingOverpaid

-----------------------------------------------------------------------------
(* The refinement: each step of Invoices opens, moves or erases a document   *)
(* of AuditedStatus, or leaves its two variables alone.                      *)
LEMMA LogStutters ==
  ASSUME \A j \in Invoice : invoice'[j].status = invoice[j].status, UNCHANGED history
  PROVE  UNCHANGED Log!vars
  BY DEF Log!vars

(* One row changes its status and the history records it: a Move.           *)
LEMMA LogMoves ==
  ASSUME IInv, NEW i \in Invoice, NEW row, invoice[i].status \in InvoiceStatus \ {"Paid"},
         invoice' = [invoice EXCEPT ![i] = row], row.status \in InvoiceStatus \ {"Draft"},
         Record(i, invoice[i].status, row.status)
  PROVE  Log!Next
<1>1. \A j \in Invoice :
          invoice'[j].status = IF j = i THEN row.status ELSE invoice[j].status
  BY DEF IInv, TypeOK
<1>2. [j \in Invoice |-> invoice'[j].status]
        = [[j \in Invoice |-> invoice[j].status] EXCEPT ![i] = row.status]
  BY <1>1
<1>3. history' = [history EXCEPT ![i] =
                     Append(@, [from |-> invoice[i].status, to |-> row.status])]
  BY DEF Record
<1>4. Log!Move(i, row.status)
  BY <1>2, <1>3 DEF Log!Move, Log!Live
<1> QED
  BY <1>4 DEF Log!Next

(* reconcileFromLedger is a move of the abstract document, or leaves it alone. *)
LEMMA LogReconciles ==
  ASSUME IInv, NEW h \in Handler, NEW op \in Op, Serving(h, op), NEW ledger,
         reconcileFromLedger(req[h], ledger), invoice[req[h].invoice].status # "Paid"
  PROVE  Log!Next \/ UNCHANGED Log!vars
<1>1. PICK i \in Invoice : /\ i = req[h].invoice /\ invoice[i] \in Row
                           /\ invoice[i].status \in InvoiceStatus
  BY Served
<1> DEFINE row == Reconciled(invoice[i], LedgerSum(ledger, i), req[h].snap.approved_at)
<1>2. row.status \in InvoiceStatus \ {"Draft"}
  BY <1>1 DEF Reconciled, LedgerStatus, Row, InvoiceStatus
<1>3. /\ invoice' = [invoice EXCEPT ![i] = row]
      /\ \/ row.status = invoice[i].status /\ UNCHANGED history
         \/ Record(i, invoice[i].status, row.status)
  BY <1>1 DEF reconcileFromLedger
<1> HIDE DEF row
<1>4. CASE row.status = invoice[i].status /\ UNCHANGED history
  <2>1. \A j \in Invoice : invoice'[j].status = invoice[j].status
    BY <1>1, <1>3, <1>4 DEF IInv, TypeOK
  <2> QED
    BY <1>4, <2>1, LogStutters
<1>5. CASE Record(i, invoice[i].status, row.status)
  BY <1>1, <1>2, <1>3, <1>5, LogMoves
<1> QED
  BY <1>3, <1>4, <1>5

(* Every write maps to an abstract step or a stutter. *)
LEMMA LogWrite ==
  ASSUME IInv, NEW h \in Handler, Write(h)
  PROVE  Log!Next \/ UNCHANGED Log!vars
<1>1. CASE VoidFind(h) \/ Fail(h)
  BY <1>1, LogStutters DEF VoidFind, Fail
<1>2. ASSUME NEW op \in Op, Serving(h, op), NEW row,
             invoice' = [invoice EXCEPT ![req[h].invoice] = row],
             row.status = invoice[req[h].invoice].status, UNCHANGED history
      PROVE  UNCHANGED Log!vars
  BY <1>2, LogStutters, Served DEF IInv, TypeOK
<1>3. CASE Update(h)
  <2>1. Serving(h, "update") /\ "update" \in Op
    BY <1>3 DEF Update, Op
  <2>2. invoice[req[h].invoice] \in Row /\ req[h].invoice \in Invoice
    BY <2>1, Served
  <2> DEFINE row == [invoice[req[h].invoice] EXCEPT !.total_amount = req[h].n]
  <2>3. invoice' = [invoice EXCEPT ![req[h].invoice] = row] /\ UNCHANGED history
    BY <1>3, <2>2 DEF Update, IInv, TypeOK
  <2>4. row.status = invoice[req[h].invoice].status
    BY <2>2 DEF Row
  <2> QED
    BY <1>2, <2>1, <2>3, <2>4
<1>4. CASE Archive(h)
  <2>1. Serving(h, "archive") /\ "archive" \in Op
    BY <1>4 DEF Archive, Op
  <2>2. invoice[req[h].invoice] \in Row /\ req[h].invoice \in Invoice
    BY <2>1, Served
  <2> DEFINE row == [invoice[req[h].invoice] EXCEPT !.archived_at = TRUE]
  <2>3. invoice' = [invoice EXCEPT ![req[h].invoice] = row] /\ UNCHANGED history
    BY <1>4, <2>2 DEF Archive, IInv, TypeOK
  <2>4. row.status = invoice[req[h].invoice].status
    BY <2>2 DEF Row
  <2> QED
    BY <1>2, <2>1, <2>3, <2>4
<1>5. CASE Restore(h)
  <2>1. Serving(h, "restore") /\ "restore" \in Op
    BY <1>5 DEF Restore, Op
  <2>2. invoice[req[h].invoice] \in Row /\ req[h].invoice \in Invoice
    BY <2>1, Served
  <2> DEFINE row == [invoice[req[h].invoice] EXCEPT !.archived_at = FALSE]
  <2>3. invoice' = [invoice EXCEPT ![req[h].invoice] = row] /\ UNCHANGED history
    BY <1>5, <2>2 DEF Restore, IInv, TypeOK
  <2>4. row.status = invoice[req[h].invoice].status
    BY <2>2 DEF Row
  <2> QED
    BY <1>2, <2>1, <2>3, <2>4
<1>6. CASE Transition(h)
  <2>1. Serving(h, "transition") /\ "transition" \in Op
    BY <1>6 DEF Transition, Op
  <2>2. PICK i \in Invoice : /\ i = req[h].invoice /\ invoice[i] \in Row
                             /\ invoice[i].status \in InvoiceStatus
    BY <2>1, Served
  <2>3. /\ invoice[i].status = req[h].snap.status
        /\ req[h].to \in TRANSITIONS[invoice[i].status]
    BY <1>6, <2>1, <2>2, Served DEF Transition, SnapshotOK, Serving
  <2>4. req[h].to \in InvoiceStatus \ {"Draft"} /\ invoice[i].status # "Paid"
    BY <2>2, <2>3, LegalTargets
  <2> DEFINE row == Transitioned(invoice[i], req[h].to)
  <2>5. row.status = req[h].to
    BY <2>2, <2>4, TransitionedIsRow
  <2>6. invoice' = [invoice EXCEPT ![i] = row] /\ Record(i, invoice[i].status, row.status)
    BY <1>6, <2>2, <2>3, <2>5 DEF Transition, IInv, TypeOK
  <2> HIDE DEF row
  <2> QED
    BY <2>2, <2>4, <2>5, <2>6, LogMoves
<1>7. CASE Remove(h)
  <2>1. PICK i \in Invoice : i = req[h].invoice /\ invoice[i].status \in InvoiceStatus
    BY <1>7, Served DEF Remove, Op
  <2>2. /\ invoice' = [invoice EXCEPT ![i] = Blank("Deleted")]
        /\ history' = [history EXCEPT ![i] = << >>]
    BY <1>7, <2>1 DEF Remove
  <2>3. \A j \in Invoice : invoice'[j].status =
                                IF j = i THEN "Deleted" ELSE invoice[j].status
    BY <2>1, <2>2 DEF Blank, IInv, TypeOK
  <2>4. [j \in Invoice |-> invoice'[j].status]
          = [[j \in Invoice |-> invoice[j].status] EXCEPT ![i] = "Deleted"]
    BY <2>3
  <2>5. Log!Erase(i)
    BY <2>1, <2>2, <2>4 DEF Log!Erase, Log!Live
  <2> QED
    BY <2>5 DEF Log!Next
<1>8. CASE recordPayment(h)
  <2>1. /\ Serving(h, "recordPayment") /\ "recordPayment" \in Op
        /\ invoice[req[h].invoice].status # "Paid"
        /\ reconcileFromLedger(req[h], payments \cup {NewPayment(req[h].invoice, req[h].n)})
    BY <1>8 DEF recordPayment, Op, isUnpaid
  <2> QED
    BY <2>1, LogReconciles
<1>9. CASE voidPayment(h)
  <2>1. /\ Serving(h, "voidFound") /\ "voidFound" \in Op
        /\ invoice[req[h].invoice].status # "Paid"
        /\ reconcileFromLedger(req[h], {p \in payments : p.id # req[h].n})
    BY <1>9 DEF voidPayment, Op
  <2> QED
    BY <2>1, LogReconciles
<1> QED
  BY <1>1, <1>3, <1>4, <1>5, <1>6, <1>7, <1>8, <1>9 DEF Write

(* Creation opens the abstract document. *)
LEMMA LogCreate ==
  ASSUME IInv, NEW i \in Invoice, NEW total \in Total, Create(i, total)
  PROVE  Log!Next
<1>1. history[i] = << >>
  BY DEF Create, IInv, HistoryFollowsStatus, Exists, Absent
<1>2. history' = [history EXCEPT ![i] = << [from |-> "None", to |-> "Draft"] >>]
  BY <1>1 DEF Create, Record, IInv, TypeOK
<1>3. \A j \in Invoice : invoice'[j].status = IF j = i THEN "Draft" ELSE invoice[j].status
  BY DEF Create, Blank, IInv, TypeOK
<1>4. [j \in Invoice |-> invoice'[j].status]
        = [[j \in Invoice |-> invoice[j].status] EXCEPT ![i] = "Draft"]
  BY <1>3
<1>5. Log!Open(i)
  BY <1>2, <1>4 DEF Log!Open, Create
<1> QED
  BY <1>5 DEF Log!Next

(* The rows and their history implement AuditedStatus: whatever requests     *)
(* race, the history is only appended to, a Paid invoice is never un-paid,   *)
(* no invoice is a Draft again, and history leaves only with its invoice.    *)
THEOREM Refinement == Spec => ImplementsAuditedStatus
<1>1. Init => Log!Init
  BY DEF Init, Log!Init, Blank
<1>2. IInv /\ [Next]_vars => [Log!Next]_(Log!vars)
  <2> SUFFICES ASSUME IInv, [Next]_vars PROVE Log!Next \/ UNCHANGED Log!vars
    OBVIOUS
  <2>1. ASSUME NEW i \in Invoice, NEW total \in Total, Create(i, total) PROVE Log!Next
    BY <2>1, LogCreate
  <2>2. ASSUME NEW h \in Handler, NEW i \in Invoice, Check(h, i)
        PROVE  UNCHANGED Log!vars
    BY <2>2, LogStutters DEF Check, UpdateCheck, TransitionCheck, ArchiveCheck,
       RestoreCheck, RemoveCheck, RecordCheck, VoidCheck, Load
  <2>3. ASSUME NEW h \in Handler, Write(h) PROVE Log!Next \/ UNCHANGED Log!vars
    BY <2>3, LogWrite
  <2>4. CASE UNCHANGED vars
    BY <2>4, LogStutters DEF vars
  <2> QED
    BY <2>1, <2>2, <2>3, <2>4 DEF Next
<1> QED
  BY Inductive, <1>1, <1>2, PTL DEF Spec, ImplementsAuditedStatus, Log!Spec
=============================================================================
