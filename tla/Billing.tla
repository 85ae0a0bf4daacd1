-------------------------------- MODULE Billing --------------------------------
(***************************************************************************)
(* What is billed (app/invoices/service.py, invoice_numbering.py and the   *)
(* unbilled lists of app/time_entries/service.py): hours and expenses, the *)
(* lines of invoices and credit notes, the totals cached on an invoice,    *)
(* and the flag `invoiced' that decides what is offered for billing.       *)
(*                                                                         *)
(* The amounts that payments leave open are the business of InvoiceBook;   *)
(* here a payment covers the invoice or does not.  Every line is worth one *)
(* coin, and totals are kept per VAT rate, as the code groups them before  *)
(* it rounds.  One request runs at a time; only the page on which an       *)
(* invoice is drawn up is older than the request that saves it.            *)
(***************************************************************************)
EXTENDS Integers, FiniteSets

CONSTANTS
    InvoiceIds,  \* bound: the invoices ever drawn up
    Hours,       \* billable time entries
    Expenses,    \* billable expenses
    NoItem,      \* the item of a line that bills neither
    Rates,       \* VAT rates
    NoRate,      \* the rate of an invoice that was never drawn up
    MaxLines     \* bound: lines on all invoices together

ASSUME BillingAssumption ==
    /\ Hours \cap Expenses = {} /\ NoItem \notin Hours \cup Expenses
    /\ Rates # {} /\ MaxLines \in Nat

VARIABLES
    inv,       \* inv[i]: the row of invoice i, its lines and how many payments it has
    invoiced,  \* the items marked as invoiced
    gone,      \* the items that were deleted
    offered,   \* the unbilled items as the page in front of the user lists them
    loose      \* history: items whose mark stopped meaning anything, and see Loosened

vars == <<inv, invoiced, gone, offered, loose>>

Items == Hours \cup Expenses

Statuses == {"concept", "approved", "sent", "overdue", "partially_paid", "paid", "cancelled"}

Totals(lines) ==
    [r \in Rates |-> Cardinality({l \in lines : l.rate = r /\ l.sign = 1})
                     - Cardinality({l \in lines : l.rate = r /\ l.sign = -1})]

NoInvoice ==
    [kind |-> "none", status |-> "concept", active |-> FALSE, rate |-> NoRate,
     lines |-> {}, total |-> Totals({}), pays |-> 0]

On(i) == {l.item : l \in inv[i].lines} \ {NoItem}

Live(i) == inv[i].active /\ inv[i].status # "cancelled"

BilledOn(x) == {i \in InvoiceIds : Live(i) /\ x \in On(i)}

\* Mutant of WithLines: the lines change, and the totals are not calculated again.
LinesOnly(row, lines) == [row EXCEPT !.lines = lines]

\* _recalculate_totals follows every change of the lines.
WithLines(row, lines) == [row EXCEPT !.lines = lines, !.total = Totals(lines)]

-----------------------------------------------------------------------------
(* Hours and expenses.                                                     *)

\* The page lists what is billable and not marked.
open_page ==
    /\ offered' = Items \ (invoiced \cup gone)
    /\ UNCHANGED <<inv, invoiced, gone, loose>>

\* A time entry is deleted for good, unless a line refers to it.
delete_time_entry(h) ==
    /\ h \in Hours \ gone
    /\ \A i \in InvoiceIds : h \notin On(i)
    /\ gone' = gone \cup {h}
    /\ UNCHANGED <<inv, invoiced, offered, loose>>

\* An expense is hidden, unless it is marked as invoiced.
delete_expense(e) ==
    /\ e \in Expenses \ (gone \cup invoiced)
    /\ gone' = gone \cup {e}
    /\ UNCHANGED <<inv, invoiced, offered, loose>>

-----------------------------------------------------------------------------
(* Drawing up.                                                             *)

MarkInvoiced(items) == invoiced' = invoiced \cup items

\* Nothing checks that the items on an old page are still unbilled.
Loosened(items) == {x \in items : BilledOn(x) # {} \/ x \in gone}

\* A line and its key: a number, or what it bills if it came with its invoice.
Line(n, x, r, sign) == [id |-> n, item |-> x, rate |-> r, sign |-> sign]

\* The bound on lines leaves room for n more.
Fits(n) ==
    n + Cardinality(UNION {{<<i, l>> : l \in inv[i].lines} : i \in InvoiceIds}) <= MaxLines

NewInvoice(kind, r, lines) ==
    WithLines([NoInvoice EXCEPT !.kind = kind, !.active = TRUE, !.rate = r], lines)

\* The first of the numbers that are left (_next_number).
NextNumber(i) ==
    /\ inv[i] = NoInvoice
    /\ \A j \in InvoiceIds : j < i => inv[j] # NoInvoice

\* A line for each item that was chosen, each at most once on a page.
create_invoice(i, chosen, r) ==
    /\ NextNumber(i)
    /\ chosen \subseteq offered /\ Fits(Cardinality(chosen))
    /\ chosen \cap gone \subseteq Expenses
    /\ inv' = [inv EXCEPT ![i] =
                  NewInvoice("invoice", r, {Line(x, x, r, 1) : x \in chosen})]
    /\ MarkInvoiced(chosen)
    /\ loose' = loose \cup Loosened(chosen)
    /\ UNCHANGED <<gone, offered>>

\* An advance has one line, and goes the way of every other invoice.
create_voorschotnota(i, r) ==
    /\ NextNumber(i) /\ Fits(1)
    /\ inv' = [inv EXCEPT ![i] = NewInvoice("invoice", r, {Line(1, NoItem, r, 1)})]
    /\ UNCHANGED <<invoiced, gone, offered, loose>>

\* The lines of a credit note are made negative, and bill no item.
create_credit_note(i, original, n, r) ==
    /\ NextNumber(i) /\ Fits(n)
    /\ inv[original].active
    /\ inv[original].status \notin {"concept", "cancelled"}
    /\ inv[original].kind # "credit_note"
    /\ inv' = [inv EXCEPT ![i] =
                  NewInvoice("credit_note", r, {Line(k, NoItem, r, -1) : k \in 1..n})]
    /\ UNCHANGED <<invoiced, gone, offered, loose>>

Editable(i) == inv[i].active /\ inv[i].status = "concept"

\* An expense on the new line is marked; a time entry is not.
add_line(i, x, r) ==
    /\ Editable(i)
    /\ x \in offered \cup {NoItem} /\ x \notin gone \cap Hours
    /\ Fits(1)
    /\ \E n \in 1..MaxLines :
          /\ {k \in 1..n : \A l \in inv[i].lines : l.id # k} = {n}
          /\ inv' = [inv EXCEPT ![i] = WithLines(@, @.lines \cup {Line(n, x, r, 1)})]
    /\ invoiced' = invoiced \cup ({x} \cap Expenses)
    /\ loose' = loose \cup Loosened({x} \cap Items) \cup ({x} \cap Hours)
    /\ UNCHANGED <<gone, offered>>

\* Mutant of Freed: every item of the invoice is offered again.
FreedAll(i, l) == On(i)

\* What a removed line gives back.
Freed(i, l) == {l.item}

remove_line(i, l) ==
    /\ Editable(i)
    /\ l \in inv[i].lines
    /\ inv' = [inv EXCEPT ![i] = WithLines(@, @.lines \ {l})]
    /\ invoiced' = invoiced \ Freed(i, l)
    /\ UNCHANGED <<gone, offered, loose>>

\* A new rate for the invoice also holds for the lines that had the old one.
update_invoice(i, r) ==
    /\ Editable(i)
    /\ r # inv[i].rate
    /\ inv' = [inv EXCEPT ![i] = WithLines([@ EXCEPT !.rate = r],
                  {IF l.rate = inv[i].rate THEN [l EXCEPT !.rate = r] ELSE l : l \in @.lines})]
    /\ UNCHANGED <<invoiced, gone, offered, loose>>

-----------------------------------------------------------------------------
(* The way of an invoice.                                                  *)

\* Mutant of Released: what was billed stays marked.
KeepsMarked(i) == invoiced

\* _release_invoiced_items.
Released(i) == invoiced \ On(i)

SetStatus(i, status) ==
    /\ inv' = [inv EXCEPT ![i].status = status]
    /\ UNCHANGED <<invoiced, gone, offered, loose>>

\* Mutant of MayApprove: an empty invoice can be approved.
MayApproveEmpty(i) == inv[i].active /\ inv[i].status = "concept"

MayApprove(i) == inv[i].active /\ inv[i].status = "concept" /\ inv[i].lines # {}

approve_invoice(i) == MayApprove(i) /\ SetStatus(i, "approved")

send_invoice(i) == inv[i].active /\ inv[i].status = "approved" /\ SetStatus(i, "sent")

process_overdue_invoices(i) ==
    /\ inv[i].active /\ inv[i].status = "sent" /\ inv[i].kind # "credit_note"
    /\ SetStatus(i, "overdue")

\* A credit note is no debt, unless more was added to it than it credits.
Positive(i) ==
    Cardinality({l \in inv[i].lines : l.sign = 1}) > Cardinality({l \in inv[i].lines : l.sign = -1})

Payable(i) == inv[i].active /\ inv[i].status \in {"sent", "partially_paid", "overdue"}

\* Without a payment only what is no debt counts as paid.
mark_paid(i) == Payable(i) /\ ~Positive(i) /\ SetStatus(i, "paid")

\* A payment that covers part or all of the invoice.
create_invoice_payment(i, covered) ==
    /\ Payable(i) /\ Positive(i) /\ inv[i].pays < 2
    /\ inv' = [inv EXCEPT ![i].pays = @ + 1,
                          ![i].status = IF covered THEN "paid" ELSE "partially_paid"]
    /\ UNCHANGED <<invoiced, gone, offered, loose>>

\* The status that is left when one payment is taken back.
StatusOnDeletion(i) ==
    IF inv[i].pays > 1 THEN "partially_paid"
    ELSE IF inv[i].status \in {"partially_paid", "paid"} THEN "sent" ELSE inv[i].status

\* Whatever the status, it follows from the payments that are left: a
\* cancelled invoice comes back, without the items it gave up.
delete_invoice_payment(i) ==
    /\ inv[i].active /\ inv[i].pays > 0
    /\ inv' = [inv EXCEPT ![i].pays = @ - 1, ![i].status = StatusOnDeletion(i)]
    /\ loose' = IF inv[i].status = "cancelled" /\ inv[i].pays > 1
                THEN loose \cup On(i) ELSE loose
    /\ UNCHANGED <<invoiced, gone, offered>>

cancel_invoice(i) ==
    /\ inv[i].active
    /\ inv[i].status \notin {"paid", "cancelled"}
    /\ inv' = [inv EXCEPT ![i].status = "cancelled"]
    /\ invoiced' = Released(i)
    /\ UNCHANGED <<gone, offered, loose>>

\* A cancelled invoice gives up its items a second time, though they may be
\* on a new invoice by then.  Nothing finds a deleted invoice again; its lines
\* stay, and the rest of the row is left out.
delete_invoice(i) ==
    /\ inv[i].active
    /\ inv[i].status \in {"concept", "cancelled"}
    /\ inv' = [inv EXCEPT ![i] = [NoInvoice EXCEPT !.kind = "deleted", !.lines = inv[i].lines,
                                                   !.total = inv[i].total]]
    /\ invoiced' = Released(i)
    /\ loose' = loose \cup {x \in On(i) : BilledOn(x) \ {i} # {}}
    /\ UNCHANGED <<gone, offered>>

-----------------------------------------------------------------------------
Init ==
    /\ inv = [i \in InvoiceIds |-> NoInvoice]
    /\ invoiced = {} /\ gone = {} /\ offered = {} /\ loose = {}

Next ==
    \/ open_page
    \/ \E x \in Items : delete_time_entry(x) \/ delete_expense(x)
    \/ \E i \in InvoiceIds, r \in Rates :
          \/ \E chosen \in SUBSET offered : create_invoice(i, chosen, r)
          \/ create_voorschotnota(i, r)
          \/ \E j \in InvoiceIds, n \in 1..MaxLines : create_credit_note(i, j, n, r)
          \/ \E x \in Items \cup {NoItem} : add_line(i, x, r)
          \/ update_invoice(i, r)
    \/ \E i \in InvoiceIds :
          \/ \E l \in inv[i].lines : remove_line(i, l)
          \/ approve_invoice(i) \/ send_invoice(i) \/ process_overdue_invoices(i)
          \/ mark_paid(i)
          \/ \E covered \in BOOLEAN : create_invoice_payment(i, covered)
          \/ delete_invoice_payment(i)
          \/ cancel_invoice(i) \/ delete_invoice(i)

Spec == Init /\ [][Next]_vars

-----------------------------------------------------------------------------
(* Properties.                                                             *)

\* Every column keeps a value its schema allows.
TypeOK ==
    /\ \A i \in InvoiceIds :
          /\ inv[i].status \in Statuses
          /\ inv[i].kind \in {"none", "invoice", "credit_note", "deleted"}
          /\ \A l, k \in inv[i].lines : l.id = k.id => l = k
    /\ invoiced \cup gone \cup offered \cup loose \subseteq Items

\* Nothing is stuck: what is marked as invoiced is on an invoice that counts,
\* so that it can be billed again once its invoice is cancelled or deleted.
NothingStuck == \A x \in invoiced : BilledOn(x) # {}

\* No hour and no expense is billed twice, offered for billing while it is on
\* an invoice that counts, or deleted from under one, except for four routes:
\* a page older than the last billing, an hour put on a line afterwards, the
\* deletion of a cancelled invoice whose items were billed anew, and a
\* cancelled invoice that comes back when a payment of it is deleted.
BilledOnce ==
    \A x \in Items \ loose :
        /\ \A i, j \in BilledOn(x) : i = j
        /\ BilledOn(x) # {} => x \in invoiced \ gone

\* The totals cached on an invoice are those of its lines.
TotalsAgree == \A i \in InvoiceIds : inv[i].total = Totals(inv[i].lines)

\* What was approved and may have been sent bills something.
SentBillsSomething ==
    \A i \in InvoiceIds :
        inv[i].status \notin {"concept", "cancelled"} => inv[i].lines # {}

\* The credit notes of an office are negative, every line of them.
CreditNotesAreNegative ==
    \A i \in InvoiceIds : inv[i].kind = "credit_note" => \A l \in inv[i].lines : l.sign = -1
=============================================================================
