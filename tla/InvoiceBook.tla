------------------------------ MODULE InvoiceBook ------------------------------
(***************************************************************************)
(* The office's own invoices and the payments recorded on them             *)
(* (app/invoices/service.py and invoice_payment_service.py).               *)
(*                                                                         *)
(* Every HTTP request runs in one database transaction at READ COMMITTED   *)
(* and takes no lock on the invoice, so a handler is two steps: one that   *)
(* reads and validates, and one that flushes and commits what follows from *)
(* the values it read.  req[r] is what the request in slot r has read so   *)
(* far; a request that is refused, raises, loses its client or dies with   *)
(* its worker is rolled back and simply gives up its slot (Abandon).       *)
(*                                                                         *)
(* Lines, VAT and due dates are abstracted: an invoice is edited only as a *)
(* concept, so its total is a constant.  A credit note is an invoice with  *)
(* a negative total, which is what create_credit_note always produces.     *)
(***************************************************************************)
EXTENDS Money

CONSTANTS
    Requests,    \* slots for requests in flight at the same time
    Invoices,    \* the invoices of one client
    Total,       \* Total[i]: the total of invoice i, in coins
    PaymentIds,  \* bound: the payment rows that may exist at one time
    Txs,         \* the trust transactions a payment row may refer to
    NoTx         \* the reference of a payment that books no trust offset

ASSUME TotalAssumption == Total \in [Invoices -> Int]
ASSUME NoTxAssumption == NoTx \notin Txs

VARIABLES
    invoice,     \* invoice[i]: the status and is_active columns of invoice i
    payments,    \* the rows of invoice_payments
    req          \* req[r]: what the request in slot r has read so far

bookVars == <<invoice, payments>>

InvoiceStatus ==
    {"concept", "approved", "sent", "overdue", "partially_paid", "paid", "cancelled"}

Payable == {"sent", "overdue", "partially_paid"}

Idle == [op |-> "idle"]

-----------------------------------------------------------------------------
(* A request reads and validates (Load), then commits or is rolled back.   *)

Load(r, seen) == req[r] = Idle /\ req' = [req EXCEPT ![r] = seen]

Advance(r, seen) == req' = [req EXCEPT ![r] = seen]

Done(r) == req' = [req EXCEPT ![r] = Idle]

Abandon(r) == req[r] # Idle /\ Done(r) /\ UNCHANGED bookVars

-----------------------------------------------------------------------------
(* Sums and the status column.                                             *)

RowAmount == [p \in payments |-> p.amount]

PaymentsOn(i) == {p \in payments : p.inv = i}

Paid(i) == SumOf(PaymentsOn(i), RowAmount)

\* Mutant of FreshId: row ids are handed out twice.
ReusedId(id) == id \in PaymentIds

FreshId(id) == \A p \in payments : p.id # id

\* Mutant of Room: forgets what was paid before.
SomeRoom(i, a) == a <= Total[i]

\* A payment of a coins does not exceed what is open on the invoice.
Room(i, a) == Paid(i) + a <= Total[i]

\* Mutant of StatusAfter: forgets to go back to sent.
StatusNeverReverts(i, status, paid) ==
    IF paid >= Total[i] THEN "paid" ELSE IF paid > 0 THEN "partially_paid" ELSE status

\* _update_invoice_payment_status: the status that follows from the total paid.
StatusAfter(i, status, paid) ==
    IF paid >= Total[i] THEN "paid"
    ELSE IF paid > 0 THEN "partially_paid"
    ELSE IF status \in {"partially_paid", "paid"} THEN "sent"
    ELSE status

\* The session writes the status column only when the handler changed the value
\* it had loaded, so an unchanged stale value overwrites nothing.
WriteStatus(i, loaded, new) ==
    invoice' = [invoice EXCEPT ![i].status = IF new = loaded THEN @ ELSE new]

-----------------------------------------------------------------------------
(* create_invoice_payment                                                  *)

BeginPay(r, i, a) ==
    /\ invoice[i].active
    /\ invoice[i].status \in Payable
    /\ Room(i, a)
    /\ Load(r, [op |-> "pay", inv |-> i, amount |-> a,
                status |-> invoice[i].status, paid |-> Paid(i)])
    /\ UNCHANGED bookVars

Pay(r) ==
    /\ req[r].op = "pay"
    /\ LET i == req[r].inv
           a == req[r].amount
       IN  /\ \E id \in PaymentIds :
                 /\ FreshId(id)
                 /\ payments' = payments \cup
                       {[id |-> id, inv |-> i, amount |-> a, ref |-> NoTx]}
           /\ WriteStatus(i, req[r].status,
                          StatusAfter(i, req[r].status, req[r].paid + a))
    /\ Done(r)

(* delete_invoice_payment: any payment, the booking of an offset included. *)

BeginUnpay(r, p) ==
    /\ invoice[p.inv].active
    /\ Load(r, [op |-> "unpay", row |-> p, status |-> invoice[p.inv].status])
    /\ UNCHANGED bookVars

Unpay(r) ==
    /\ req[r].op = "unpay"
    /\ LET i == req[r].row.inv
           left == payments \ {req[r].row}
           paid == SumOf({p \in left : p.inv = i}, RowAmount)
       IN  /\ payments' = left
           /\ WriteStatus(i, req[r].status, StatusAfter(i, req[r].status, paid))
    /\ Done(r)

-----------------------------------------------------------------------------
(* The status workflow: approve_invoice, send_invoice (which hands the mail *)
(* to the provider between its two steps), mark_paid, cancel_invoice and    *)
(* the nightly process_overdue_invoices.                                    *)

ValidTransitions ==
    [concept        |-> {"approved", "cancelled"},
     approved       |-> {"sent", "cancelled"},
     sent           |-> {"partially_paid", "paid", "overdue", "cancelled"},
     overdue        |-> {"partially_paid", "paid", "cancelled"},
     partially_paid |-> {"paid", "cancelled"},
     paid           |-> {},
     cancelled      |-> {}]

BeginStatus(r, i, new) ==
    /\ invoice[i].active
    /\ new \in ValidTransitions[invoice[i].status] \ {"partially_paid"}
    /\ new = "paid" => Paid(i) >= Total[i]
    /\ new = "overdue" => Total[i] >= 0
    /\ Load(r, [op |-> "status", inv |-> i, status |-> invoice[i].status, new |-> new])
    /\ UNCHANGED bookVars

ChangeStatus(r) ==
    /\ req[r].op = "status"
    /\ WriteStatus(req[r].inv, req[r].status, req[r].new)
    /\ Done(r)
    /\ UNCHANGED payments

\* delete_invoice: a soft delete.
DeleteInvoice(i) ==
    /\ invoice[i].active
    /\ invoice[i].status \in {"concept", "cancelled"}
    /\ invoice' = [invoice EXCEPT ![i].active = FALSE]
    /\ UNCHANGED <<payments, req>>

-----------------------------------------------------------------------------
BookInit ==
    /\ invoice = [i \in Invoices |-> [status |-> "concept", active |-> TRUE]]
    /\ payments = {}
    /\ req = [r \in Requests |-> Idle]

BookNext ==
    \/ \E r \in Requests :
         \/ \E i \in Invoices, a \in Amounts : BeginPay(r, i, a)
         \/ Pay(r)
         \/ \E p \in payments : BeginUnpay(r, p)
         \/ Unpay(r)
         \/ \E i \in Invoices, new \in InvoiceStatus : BeginStatus(r, i, new)
         \/ ChangeStatus(r)
         \/ Abandon(r)
    \/ \E i \in Invoices : DeleteInvoice(i)

\* The invoice book on its own.
BookSpec == BookInit /\ [][BookNext]_<<bookVars, req>>

-----------------------------------------------------------------------------
(* Properties                                                              *)

PaymentRow == [id : PaymentIds, inv : Invoices, amount : Amounts, ref : Txs \cup {NoTx}]

\* What a request of this module may have read.
BookRequest ==
    [op : {"idle"}]
      \cup [op : {"pay"}, inv : Invoices, amount : Amounts, status : InvoiceStatus, paid : Nat]
      \cup [op : {"unpay"}, row : PaymentRow, status : InvoiceStatus]
      \cup [op : {"status"}, inv : Invoices, status : InvoiceStatus, new : InvoiceStatus]

\* Type invariant of the invoice book: statuses, rows and the primary key.
BookTypeOK ==
    /\ invoice \in [Invoices -> [status : InvoiceStatus, active : BOOLEAN]]
    /\ payments \subseteq PaymentRow
    /\ IsFiniteSet(payments)
    /\ \A p, q \in payments : p.id = q.id => p = q

\* The payments recorded on an invoice never exceed its total, the rule that
\* create_invoice_payment and _book_offset_payment state.
NeverOverpaid == \A i \in Invoices : Paid(i) > 0 => Paid(i) <= Total[i]

\* The status column and the payment rows tell the same story: nothing paid on
\* an invoice that is open, part paid when it says so, and settled only when
\* the payments cover the total.  A cancelled invoice keeps its payments.
StatusMatchesPayments ==
    \A i \in Invoices :
        LET status == invoice[i].status
        IN  /\ status \in {"concept", "approved", "sent", "overdue"} => Paid(i) = 0
            /\ status = "partially_paid" => Paid(i) > 0 /\ Paid(i) < Total[i]
            /\ status = "paid" => Paid(i) >= Total[i]

\* VALID_TRANSITIONS gives a cancelled invoice no way out.
CancelledIsFinal ==
    [][\A i \in Invoices : invoice[i].status = "cancelled"
                              => invoice'[i].status = "cancelled"]_<<bookVars, req>>
=============================================================================
