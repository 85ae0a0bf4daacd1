SPECIFICATION Spec
CONSTANTS
    Requests = {}
    Steps = {"dagenbrief", "sommatie", "laatste", "verweer", "betaald", "afgesloten"}
    NoStep = "none"
    PaidStep = "betaald"
    ClosedStep = "afgesloten"
    HoldSteps = {"verweer"}
    MaxDay = 1
    DagenbriefStep = "dagenbrief"
    VerweerStep = "verweer"
    LetterSteps = {}
    TextSteps = {"laatste", "verweer"}
    DunningSteps = {"dagenbrief", "sommatie", "laatste"}
    MainSteps = {"sommatie"}
    B2BSteps = {"laatste"}
    Advance <- MainPath
    MinWait = 0
    RuleDays = 1
    TermDays = 1
    FirstSteps = {"sommatie"}
    FirstConsumers = {FALSE}
    ByHand = {"sommatie", "laatste", "afgesloten", "in_behandeling", "payment"}
    AdviceIds = {}
    DraftIds = {d1, d2}
    MaxRows = 1
    Overlap = FALSE
PROPERTIES WaitingFitsStep ReviewsFollowDrafts
CHECK_DEADLOCK FALSE
SYMMETRY DraftSymmetry
