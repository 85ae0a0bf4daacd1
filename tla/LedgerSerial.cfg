CONSTANTS
    MaxAmount = 1
    InvoiceTotal = 2
    Requests = {r1}
    Invoices = {inv, invNote}
    Total <- InvoiceTotals
    PaymentIds = {p1, p2, p3}
    Txs = {t1, t2, t3, t4}
    invNote = invNote
    NoTx = NoTx
    Cases = {c1}
    Users = {u1}
    SelfApprovalFlag = TRUE
    NoUser = NoUser
    NoInvoice = NoInvoice
    NoCase = NoCase
SPECIFICATION Spec
INVARIANTS TypeOK NeverOverpaid StatusMatchesPayments PaymentsBackedByOffsets AvailableNonNegative
    StornoMatchesOriginal
SYMMETRY Symmetric
CHECK_DEADLOCK FALSE
