SPECIFICATION FairSpec
CONSTANTS
    Requests = {}
    Steps = {"dagenbrief", "sommatie", "laatste", "verweer", "betaald", "afgesloten"}
    NoStep = "none"
    PaidStep = "betaald"
    ClosedStep = "afgesloten"
    HoldSteps = {"verweer"}
    MaxDay = 1
    DagenbriefStep = "dagenbrief"
    VerweerStep = "verweer"
    LetterSteps = {"dagenbrief", "sommatie"}
    TextSteps = {}
    DunningSteps = {"dagenbrief", "sommatie", "laatste"}
    MainSteps = {"sommatie"}
    B2BSteps = {"laatste"}
    Advance <- MainPath
    MinWait = 0
    RuleDays = 1
    TermDays = 1
    FirstSteps = {"dagenbrief"}
    FirstConsumers = {TRUE}
    ByHand = {"sommatie", "afgesloten", "in_behandeling", "verweer", "payment"}
    AdviceIds = {1}
    DraftIds = {}
    MaxRows = 1
    Overlap = FALSE
PROPERTIES ClosingSweeps TermRespected GoesOnAsRuled RipeCaseIsAdvised
CHECK_DEADLOCK FALSE
