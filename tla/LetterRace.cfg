SPECIFICATION Spec
CONSTANTS
    Requests = {1}
    Steps = {"dagenbrief", "sommatie", "verweer", "betaald", "afgesloten"}
    NoStep = "none"
    PaidStep = "betaald"
    ClosedStep = "afgesloten"
    HoldSteps = {"verweer"}
    MaxDay = 0
    DagenbriefStep = "dagenbrief"
    VerweerStep = "verweer"
    LetterSteps = {"dagenbrief"}
    TextSteps = {}
    DunningSteps = {"dagenbrief", "sommatie"}
    MainSteps = {"sommatie"}
    B2BSteps = {}
    Advance <- FirstStepOnly
    MinWait = 0
    RuleDays = 1
    TermDays = 1
    FirstSteps = {"dagenbrief"}
    FirstConsumers = {FALSE}
    ByHand = {"afgesloten", "debtor_type", "none"}
    AdviceIds = {1}
    DraftIds = {}
    MaxRows = 1
    Overlap = TRUE
INVARIANTS MirrorHasAdvice
CHECK_DEADLOCK FALSE
PROPERTY ClosedIsMailedByOldRequestsOnly
