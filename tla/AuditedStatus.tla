--------------------------- MODULE AuditedStatus ---------------------------
(***************************************************************************)
(* What the invoice back end promises about the life of one invoice and    *)
(* its status history, with no request, transaction or payment in sight:   *)
(* a document is opened as a Draft with a one-entry log, every change of   *)
(* its status appends exactly the entry that says so, a Paid document      *)
(* never moves again, no document becomes a Draft again, and the log       *)
(* disappears only together with the document.  Invoices.tla implements it.*)
(***************************************************************************)
EXTENDS Sequences

CONSTANTS Document,   \* identifiers of the documents (rows of public.invoices)
          Status      \* the states a live document can be in

VARIABLES status,     \* status[d] : "None" before creation, "Deleted" after removal
          log         \* log[d] : the sequence of moves made so far

vars == <<status, log>>

Live(d) == status[d] \in Status

Init == /\ status = [d \in Document |-> "None"]
        /\ log = [d \in Document |-> << >>]

Open(d) ==
    /\ status[d] = "None"
    /\ status' = [status EXCEPT ![d] = "Draft"]
    /\ log' = [log EXCEPT ![d] = << [from |-> "None", to |-> "Draft"] >>]

Move(d, s) ==
    /\ Live(d) /\ status[d] # "Paid"
    /\ status' = [status EXCEPT ![d] = s]
    /\ log' = [log EXCEPT ![d] = Append(@, [from |-> status[d], to |-> s])]

Erase(d) ==
    /\ Live(d)
    /\ status' = [status EXCEPT ![d] = "Deleted"]
    /\ log' = [log EXCEPT ![d] = << >>]

Next == \E d \in Document :
            \/ Open(d)
            \/ \E s \in Status \ {"Draft"} : Move(d, s)
            \/ Erase(d)

Spec == Init /\ [][Next]_vars
=============================================================================
