SPECIFICATION BankSpec
CONSTANTS
    MaxAmount = 1
    Requests = {r1}
    ClaimIds = {c1}
    PaymentIds = {p1, p2}
    ArrIds = {}
    Plans = {}
    Bik <- CostsOf
    OpenWork <- Nothing
    Steps = {"regeling", "betaald", "afgesloten"}
    NoStep = "none"
    PaidStep = "betaald"
    ClosedStep = "afgesloten"
    HoldSteps = {"regeling"}
    RegelingStep = "regeling"
    FirstSteps = {"none"}
    ByHand = {}
    FreezeDates = {}
    MailTasks = {}
    Hasty = TRUE
    MaxHeld = 1
    MaxDay = 0
    BankRows = {b1}
    AmountOf <- OneCoin
    MatchIds = {m1}
    NoRow = none
    NoPayment = none
    b1 = b1
    m1 = m1
    r1 = r1
    c1 = c1
    p1 = p1
    p2 = p2
INVARIANTS NoCreditForgotten
PROPERTIES BookedInOrder SubmittedOnce UndoTakesBoth
SYMMETRY Symmetric
CHECK_DEADLOCK FALSE
