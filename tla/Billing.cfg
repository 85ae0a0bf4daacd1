CONSTANTS
    InvoiceIds = {1, 2}
    Hours = {h1}
    Expenses = {e1}
    NoItem = NoItem
    NoRate = NoRate
    Rates = {high, low}
    MaxLines = 2
SPECIFICATION Spec
INVARIANTS NothingStuck BilledOnce TotalsAgree SentBillsSomething
SYMMETRY Symmetric
