------------------------------ MODULE Invoices ------------------------------
(***************************************************************************)
(* The invoice workflow of backend/src/controllers/invoices.controller.ts: *)
(* the rows of public.invoices, the payment ledger public.invoice_payments *)
(* and the status history public.invoice_status_history, under concurrent  *)
(* requests of several managers.                                           *)
(*                                                                         *)
(* Every handler first reads the row without a lock (its "snapshot"),      *)
(* checks it, and only later, in a statement or transaction of its own,    *)
(* writes.  The two halves are two actions here, so any number of other    *)
(* requests run between them.  A transaction is one action: each of them   *)
(* takes the row lock of the invoice with its first UPDATE or SELECT ...   *)
(* FOR UPDATE and holds it to the commit.                                  *)
(*                                                                         *)
(* Money is counted in cents (the code rounds to cents and compares with a *)
(* tolerance of half a cent).  Timestamps are abstracted to "is it set".   *)
(***************************************************************************)
EXTENDS Integers, Sequences, Folds

CONSTANTS Invoice,      \* ids an invoice can get (never reused: UUIDs)
          Handler,      \* requests served at the same time
          Total,        \* totals calculateInvoiceTotals can return
          Amount,       \* amounts a payment request can carry, in cents
          MaxPayments   \* bound: ledger rows ever inserted

ASSUME MoneyIsNatural == Total \subseteq Nat /\ Amount \subseteq Nat
ASSUME MaxPaymentsIsNatural == MaxPayments \in Nat

VARIABLES invoice,      \* invoice[i] : the row of public.invoices
          payments,     \* the rows of public.invoice_payments
          issued,       \* how many payment ids were handed out
          history,      \* history[i] : rows of public.invoice_status_history, oldest first
          req           \* req[h] : the request handler h is serving

vars == <<invoice, payments, issued, history, req>>

InvoiceStatus ==
    {"Draft", "Submitted", "Approved", "Partially Paid", "Paid", "Cancelled"}

\* A row that is not there: not created yet, or deleted.
Absent == {"None", "Deleted"}

Row == [status : InvoiceStatus \cup Absent, total_amount : Nat, amount_paid : Nat,
        approved_at : BOOLEAN, paid_at : BOOLEAN, archived_at : BOOLEAN]

Blank(s) == [status |-> s, total_amount |-> 0, amount_paid |-> 0,
             approved_at |-> FALSE, paid_at |-> FALSE, archived_at |-> FALSE]

Payment == [id : 1 .. MaxPayments, invoice : Invoice, amount : Nat]

Step == [from : InvoiceStatus \cup {"None"}, to : InvoiceStatus]

\* "voidFound" is a voidPayment request that has also selected its payment.
Op == {"update", "transition", "archive", "restore", "remove",
       "recordPayment", "voidPayment", "voidFound"}

Idle == [op |-> "idle"]

\* snap is the unlocked read; to is the target of a transition; n is the number
\* the request carries: the new total, the amount paid or the payment's id.
Request == [op : Op, invoice : Invoice, snap : Row,
            to : InvoiceStatus \cup {"None"}, n : Nat]

-----------------------------------------------------------------------------
(* The rules of the workflow. *)

TRANSITIONS ==
    [s \in InvoiceStatus |->
        CASE s = "Draft"          -> {"Submitted"}
          [] s = "Submitted"      -> {"Approved", "Paid", "Cancelled"}
          [] s = "Approved"       -> {"Paid", "Cancelled"}
          [] s = "Partially Paid" -> {"Paid"}
          [] OTHER                -> {}]

isUnpaid(s) == s \in {"Submitted", "Approved", "Partially Paid"}

Rows(ledger, i) == {p \in ledger : p.invoice = i}

\* The sum of the amounts of a set of ledger rows.
AmountSum(rows) ==
    MapThenFoldSet(+, 0, LAMBDA p : p.amount, LAMBDA s : CHOOSE p \in s : TRUE, rows)

\* select coalesce(sum(amount), 0): a sum over no rows is NULL, hence 0.
LedgerSum(ledger, i) == AmountSum(Rows(ledger, i))

\* Mutant of Transitioned: a Paid invoice gets no approval timestamp.
PaidWithoutApproval(row, to) ==
    [row EXCEPT !.status = to,
                !.amount_paid = IF to = "Paid" THEN row.total_amount ELSE @,
                !.approved_at = @ \/ to = "Approved",
                !.paid_at = @ \/ to = "Paid"]

\* The row transition writes; marking an invoice Paid settles the balance and
\* makes sure there is an approval timestamp.
Transitioned(row, to) ==
    [row EXCEPT !.status = to,
                !.amount_paid = IF to = "Paid" THEN row.total_amount ELSE @,
                !.approved_at = @ \/ to \in {"Approved", "Paid"},
                !.paid_at = @ \/ to = "Paid"]

\* The status that follows from the ledger.  wasApproved is approved_at of the
\* snapshot the caller spreads into reconcileFromLedger's argument.
LedgerStatus(row, paid, wasApproved) ==
    IF paid > 0
    THEN IF paid >= row.total_amount THEN "Paid" ELSE "Partially Paid"
    ELSE IF wasApproved THEN "Approved" ELSE "Submitted"

\* Mutant of Reconciled: an emptied ledger leaves the cached sum alone.
ReconciledIfPaid(row, paid, wasApproved) ==
    LET newStatus == LedgerStatus(row, paid, wasApproved)
    IN  [row EXCEPT !.status = newStatus,
                    !.amount_paid = IF paid > 0 THEN paid ELSE @,
                    !.approved_at = @ \/ paid > 0,
                    !.paid_at = (newStatus = "Paid")]

\* The row reconcileFromLedger writes when the ledger sums to paid.
Reconciled(row, paid, wasApproved) ==
    LET newStatus == LedgerStatus(row, paid, wasApproved)
    IN  [row EXCEPT !.status = newStatus,
                    !.amount_paid = paid,
                    !.approved_at = @ \/ paid > 0,
                    !.paid_at = (newStatus = "Paid")]

-----------------------------------------------------------------------------
Init == /\ invoice = [i \in Invoice |-> Blank("None")]
        /\ payments = {}
        /\ issued = 0
        /\ history = [i \in Invoice |-> << >>]
        /\ req = [h \in Handler |-> Idle]

Exists(i) == invoice[i].status \notin Absent

Record(i, from, to) ==
    history' = [history EXCEPT ![i] = Append(@, [from |-> from, to |-> to])]

\* persistInvoice('create'): one transaction inserts the row and its first
\* history entry.
Create(i, total) ==
    /\ invoice[i].status = "None"
    /\ invoice' = [invoice EXCEPT ![i] = [Blank("Draft") EXCEPT !.total_amount = total]]
    /\ Record(i, "None", "Draft")
    /\ UNCHANGED <<payments, issued, req>>

\* loadInvoiceScopedOr404: the unlocked read every handler starts with.
Load(h, i, op, to, n) ==
    /\ req[h] = Idle
    /\ Exists(i)
    /\ req' = [req EXCEPT ![h] = [op |-> op, invoice |-> i, snap |-> invoice[i],
                                  to |-> to, n |-> n]]
    /\ UNCHANGED <<invoice, payments, issued, history>>

UpdateCheck(h, i, total) ==
    /\ ~invoice[i].archived_at
    /\ invoice[i].status \in {"Draft", "Submitted"}
    /\ Load(h, i, "update", "None", total)

TransitionCheck(h, i, to) ==
    /\ Exists(i)
    /\ ~invoice[i].archived_at
    /\ to \in TRANSITIONS[invoice[i].status]
    /\ Load(h, i, "transition", to, 0)

\* Mutant of ArchiveCheck: Drafts can be archived.
ArchiveAnyCheck(h, i) ==
    /\ ~invoice[i].archived_at
    /\ Load(h, i, "archive", "None", 0)

ArchiveCheck(h, i) ==
    /\ invoice[i].status # "Draft"
    /\ ~invoice[i].archived_at
    /\ Load(h, i, "archive", "None", 0)

RestoreCheck(h, i) ==
    /\ invoice[i].archived_at
    /\ Load(h, i, "restore", "None", 0)

RemoveCheck(h, i) ==
    /\ invoice[i].status = "Draft"
    /\ Load(h, i, "remove", "None", 0)

RecordCheck(h, i, amount) ==
    /\ ~invoice[i].archived_at
    /\ isUnpaid(invoice[i].status)
    /\ Load(h, i, "recordPayment", "None", amount)

VoidCheck(h, i, id) ==
    /\ ~invoice[i].archived_at
    /\ invoice[i].status # "Paid"
    /\ Load(h, i, "voidPayment", "None", id)

\* voidPayment's second read: the payment must exist and belong to the invoice.
VoidFind(h) ==
    /\ req[h].op = "voidPayment"
    /\ \E p \in payments : p.id = req[h].n /\ p.invoice = req[h].invoice
    /\ req' = [req EXCEPT ![h].op = "voidFound"]
    /\ UNCHANGED <<invoice, payments, issued, history>>

-----------------------------------------------------------------------------
(* The writing halves.  Serving(h, op) : h serves op and its row is there.   *)

Serving(h, op) == req[h].op = op /\ Exists(req[h].invoice)

Done(h) == req' = [req EXCEPT ![h] = Idle]

\* persistInvoice('update'): UPDATE ... WHERE id = $23, with no status guard.
Update(h) ==
    /\ Serving(h, "update")
    /\ invoice' = [invoice EXCEPT ![req[h].invoice].total_amount = req[h].n]
    /\ Done(h)
    /\ UNCHANGED <<payments, issued, history>>

NewPayment(i, amount) == [id |-> issued + 1, invoice |-> i, amount |-> amount]

\* What is still owed according to the snapshot.
Remaining(r) == r.snap.total_amount - r.snap.amount_paid

\* Mutant of Settles: the guard on a positive remainder is gone.
SettlesAlways(r) == r.to = "Paid"

\* Marking an invoice Paid adds a reconciling payment when something is owed.
Settles(r) == r.to = "Paid" /\ Remaining(r) > 0

\* transition: UPDATE ... WHERE id = $2 AND status = $3, the history row, and
\* for Paid the reconciling payment computed from the snapshot.
Transition(h) ==
    LET r == req[h]
    IN  /\ Serving(h, "transition")
        /\ invoice[r.invoice].status = r.snap.status
        /\ Settles(r) => issued < MaxPayments
        /\ invoice' = [invoice EXCEPT ![r.invoice] = Transitioned(@, r.to)]
        /\ Record(r.invoice, r.snap.status, r.to)
        /\ payments' = IF Settles(r) THEN payments \cup {NewPayment(r.invoice, Remaining(r))}
                                     ELSE payments
        /\ issued' = IF Settles(r) THEN issued + 1 ELSE issued
        /\ Done(h)

Archive(h) ==
    /\ Serving(h, "archive")
    /\ invoice' = [invoice EXCEPT ![req[h].invoice].archived_at = TRUE]
    /\ Done(h)
    /\ UNCHANGED <<payments, issued, history>>

Restore(h) ==
    /\ Serving(h, "restore")
    /\ invoice' = [invoice EXCEPT ![req[h].invoice].archived_at = FALSE]
    /\ Done(h)
    /\ UNCHANGED <<payments, issued, history>>

\* remove: DELETE ... WHERE id = $1; payments and history go by ON DELETE CASCADE.
Remove(h) ==
    LET i == req[h].invoice
    IN  /\ Serving(h, "remove")
        /\ invoice' = [invoice EXCEPT ![i] = Blank("Deleted")]
        /\ payments' = payments \ Rows(payments, i)
        /\ history' = [history EXCEPT ![i] = << >>]
        /\ Done(h)
        /\ UNCHANGED issued

\* Mutant of reconcileFromLedger: the history names the snapshot's status, as if
\* the callers did not overwrite it with the locked row's.
reconcileFromSnapshot(r, ledger) ==
    LET new == Reconciled(invoice[r.invoice], LedgerSum(ledger, r.invoice), r.snap.approved_at)
    IN  /\ payments' = ledger
        /\ invoice' = [invoice EXCEPT ![r.invoice] = new]
        /\ IF new.status # r.snap.status
           THEN Record(r.invoice, r.snap.status, new.status)
           ELSE UNCHANGED history

\* reconcileFromLedger, inside the caller's transaction; ledger is the ledger
\* the transaction has already changed.
reconcileFromLedger(r, ledger) ==
    LET row == invoice[r.invoice]
        new == Reconciled(row, LedgerSum(ledger, r.invoice), r.snap.approved_at)
    IN  /\ payments' = ledger
        /\ invoice' = [invoice EXCEPT ![r.invoice] = new]
        /\ IF new.status # row.status
           THEN Record(r.invoice, row.status, new.status)
           ELSE UNCHANGED history

\* Mutant of recordPayment: the balance is the snapshot's, not the locked row's.
recordOnSnapshot(h) ==
    LET r == req[h]
    IN  /\ Serving(h, "recordPayment")
        /\ isUnpaid(invoice[r.invoice].status)
        /\ r.n > 0
        /\ r.n <= Remaining(r)
        /\ issued < MaxPayments
        /\ issued' = issued + 1
        /\ reconcileFromLedger(r, payments \cup {NewPayment(r.invoice, r.n)})
        /\ Done(h)

\* recordPayment: everything is re-read under the row lock except archived_at
\* and approved_at.  A zero amount fails the ledger's CHECK (amount > 0).
recordPayment(h) ==
    LET r == req[h]
        row == invoice[r.invoice]
    IN  /\ Serving(h, "recordPayment")
        /\ isUnpaid(row.status)
        /\ r.n > 0
        /\ r.n <= row.total_amount - row.amount_paid
        /\ issued < MaxPayments
        /\ issued' = issued + 1
        /\ reconcileFromLedger(r, payments \cup {NewPayment(r.invoice, r.n)})
        /\ Done(h)

\* Mutant of voidPayment: Paid is not checked again under the row lock.
voidUnchecked(h) ==
    LET r == req[h]
    IN  /\ Serving(h, "voidFound")
        /\ reconcileFromLedger(r, {p \in payments : p.id # r.n})
        /\ Done(h)
        /\ UNCHANGED issued

\* voidPayment: DELETE ... WHERE id = $1 under the row lock; a payment another
\* request has voided meanwhile is simply not there any more.
voidPayment(h) ==
    LET r == req[h]
    IN  /\ Serving(h, "voidFound")
        /\ invoice[r.invoice].status # "Paid"
        /\ reconcileFromLedger(r, {p \in payments : p.id # r.n})
        /\ Done(h)
        /\ UNCHANGED issued

\* A rejected, failed or crashed request: ROLLBACK leaves the tables alone.
Fail(h) ==
    /\ req[h] # Idle
    /\ Done(h)
    /\ UNCHANGED <<invoice, payments, issued, history>>

Check(h, i) ==
    \/ \E total \in Total : UpdateCheck(h, i, total)
    \/ \E to \in InvoiceStatus : TransitionCheck(h, i, to)
    \/ ArchiveCheck(h, i)
    \/ RestoreCheck(h, i)
    \/ RemoveCheck(h, i)
    \/ \E amount \in Amount : RecordCheck(h, i, amount)
    \/ \E id \in 1 .. issued : VoidCheck(h, i, id)

Write(h) ==
    \/ VoidFind(h)
    \/ Update(h) \/ Transition(h) \/ Archive(h) \/ Restore(h) \/ Remove(h)
    \/ recordPayment(h) \/ voidPayment(h)
    \/ Fail(h)

Next ==
    \/ \E i \in Invoice, total \in Total : Create(i, total)
    \/ \E h \in Handler : (\E i \in Invoice : Check(h, i)) \/ Write(h)

Spec == Init /\ [][Next]_vars
-----------------------------------------------------------------------------
(* Properties. *)

\* Every variable holds what the columns and the request fields can hold.
TypeOK ==
    /\ invoice \in [Invoice -> Row]
    /\ payments \subseteq Payment
    /\ issued \in 0 .. MaxPayments
    /\ history \in [Invoice -> Seq(Step)]
    /\ req \in [Handler -> Request \cup {Idle}]

Chained(log, s) ==
    /\ log # << >>
    /\ log[1].from = "None"
    /\ log[Len(log)].to = s
    /\ \A k \in 1 .. Len(log) - 1 : log[k].to = log[k + 1].from

\* The status history is an unbroken chain: it starts at the creation, each entry
\* starts where the one before ended, and the last one ends at the status the row
\* has now, whichever requests raced to write it.
HistoryFollowsStatus ==
    \A i \in Invoice :
        IF Exists(i) THEN Chained(history[i], invoice[i].status)
                     ELSE history[i] = << >>

\* paid_at is set exactly while the invoice is Paid, and an invoice that is
\* Approved, Partially Paid or Paid has an approval timestamp ("a Paid invoice
\* should never have a NULL approved_at"), although reconcileFromLedger decides
\* by the approval timestamp of a stale snapshot.
StampsMatchStatus ==
    \A i \in Invoice :
        /\ invoice[i].paid_at <=> invoice[i].status = "Paid"
        /\ invoice[i].status \in {"Approved", "Partially Paid", "Paid"}
                => invoice[i].approved_at

\* amount_paid is "a maintained cache of the ledger sum": exact for every
\* invoice that still collects money, whatever edits, voids and payments raced.
CacheIsLedgerSum ==
    \A i \in Invoice : invoice[i].status # "Paid" =>
        invoice[i].amount_paid = LedgerSum(payments, i)

\* An archived invoice is never a Draft: archive decides on a snapshot, which is
\* safe because no request takes a status back to Draft.  (A Draft is deleted,
\* not archived, and cannot be edited or submitted once archived.)
ArchivedIsNotDraft ==
    \A i \in Invoice : invoice[i].archived_at => invoice[i].status # "Draft"

\* No step that takes money in leaves more paid than the invoice's total: "two
\* concurrent payments can't both pass the over-balance guard and overpay".
NoOverpayment ==
    [][\A i \in Invoice :
          invoice'[i].amount_paid > invoice[i].amount_paid
              => invoice'[i].amount_paid <= invoice'[i].total_amount]_vars

\* The rows and their history implement the abstract life of a document: the
\* history is append-only, a Paid invoice stays Paid, no invoice returns to Draft.
Log == INSTANCE AuditedStatus
           WITH Document <- Invoice, Status <- InvoiceStatus,
                status <- [i \in Invoice |-> invoice[i].status], log <- history
ImplementsAuditedStatus == Log!Spec

\* transition: "drop a reconciling payment into the ledger so the two never
\* diverge" -- a Paid invoice's ledger sums to its amount_paid.
PaidLedgerReconciles ==
    \A i \in Invoice : invoice[i].status = "Paid" =>
        invoice[i].amount_paid = LedgerSum(payments, i)

\* The history shows that somebody approved invoice i by the Approve transition.
EverApproved(i) ==
    \E k \in 1 .. Len(history[i]) :
        history[i][k] = [from |-> "Submitted", to |-> "Approved"]

\* invoices.payments.test.ts: "voiding the only payment on a never-approved invoice
\* reverts to Submitted" -- of what voidPayment does when it empties the ledger.
VoidRevertsUnapproved ==
    [][\A h \in Handler :
          LET i == req[h].invoice
          IN  voidPayment(h) /\ LedgerSum(payments', i) = 0 /\ ~EverApproved(i)
                  => invoice'[i].status = "Submitted"]_vars
=============================================================================
