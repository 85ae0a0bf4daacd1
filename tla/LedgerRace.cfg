CONSTANTS
    MaxAmount = 1
    InvoiceTotal = 2
    Requests = {r1, r2}
    Invoices = {}
    Total <- InvoiceTotals
    PaymentIds = {p1}
    Txs = {t1, t2, t3}
    invNote = invNote
    NoTx = NoTx
    Cases = {c1}
    Users = {u1, u2, u3}
    SelfApprovalFlag = FALSE
    NoUser = NoUser
    NoInvoice = NoInvoice
    NoCase = NoCase
SPECIFICATION Spec
INVARIANTS BalanceNonNegative TwoOthersSigned
PROPERTY ImplementsAccount
SYMMETRY Symmetric
CHECK_DEADLOCK FALSE
