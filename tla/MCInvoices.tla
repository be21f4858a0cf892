----------------------------- MODULE MCInvoices -----------------------------
(* Small instances of Invoices for TLC. *)
EXTENDS Invoices

\* Two totals, so that a racing edit can move the balance; amounts below, at and
\* above the balance, and the zero that a sub-cent request rounds to.
MCTotal == {1, 3}
MCAmount == {0, 1, 2, 3}
=============================================================================
