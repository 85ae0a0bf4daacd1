\* One request at a time; every handler and every daily job.
SPECIFICATION Spec
CONSTANTS
    MaxAmount = 2
    Requests = {}
    ClaimIds = {c1}
    PaymentIds = {p1}
    ArrIds = {a1}
    Plans <- TwoInstallments
    Bik <- CostsOf
    OpenWork <- Nothing
    Steps = {"regeling", "betaald", "afgesloten"}
    NoStep = "none"
    PaidStep = "betaald"
    ClosedStep = "afgesloten"
    HoldSteps = {"regeling"}
    RegelingStep = "regeling"
    FirstSteps = {"none"}
    ByHand = {"in_behandeling", "betaald", "afgesloten"}
    FreezeDates = {1}
    MailTasks = {"payment_promise"}
    Hasty = FALSE
    MaxHeld = 0
    MaxDay = 1
    c1 = c1
    a1 = a1
    p1 = p1
INVARIANTS CacheAgrees InstallmentsHonest ClosedDateAgrees
PROPERTIES LastPaymentCloses  CoinsReachInstallments
SYMMETRY Symmetric
CHECK_DEADLOCK FALSE
