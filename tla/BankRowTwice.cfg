SPECIFICATION BankSpec
CONSTANTS
    MaxAmount = 2
    Requests = {}
    ClaimIds = {c1}
    PaymentIds = {p1, p2}
    ArrIds = {}
    Plans = {}
    Bik <- CostsOf
    OpenWork <- Waiting
    Steps = {"regeling", "betaald", "afgesloten"}
    NoStep = "none"
    PaidStep = "betaald"
    ClosedStep = "afgesloten"
    HoldSteps = {"regeling"}
    RegelingStep = "regeling"
    FirstSteps = {"none"}
    ByHand = {"in_behandeling", "betaald", "afgesloten"}
    FreezeDates = {}
    MailTasks = {}
    Hasty = FALSE
    MaxHeld = 2
    MaxDay = 0
    BankRows = {b1}
    AmountOf <- OneCoin
    MatchIds = {m1, m2}
    NoRow = none
    NoPayment = none
    c1 = c1
    p1 = p1
    p2 = p2
    b1 = b1
    m1 = m1
    m2 = m2
INVARIANT BankRowBookedOnce
SYMMETRY Symmetric
CHECK_DEADLOCK FALSE
