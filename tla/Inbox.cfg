SPECIFICATION FairSpec
CONSTANTS
    caseA = caseA
    caseN = caseN
    caseO = caseO
    client = client
    debtor = debtor
    reply = reply
    order = order
    noise = noise
    letterA = letterA
    letterB = letterB
    NoCase = NoCase
    NoContact = NoContact
    Requests = {}
    Mails <- ThreeMails
    Letters <- OneLetter
    Cases <- ThreeCases
    From <- OneStranger
    Answers <- Replies
    Quotes <- NoNumbers
    System = {}
    To <- ToClient
    About <- OwnCase
    Prefix <- OwnPrefix
    Graph = TRUE
    Window = 4
    FirstCases <- OneFile
    ByHand = {reply}
    MayDelete = {caseA}
    Blank = {}
    Unfit = {reply}
    DebtorIn <- NamesDebtor
    Batch = 1
    Readings = 1
INVARIANTS DecisionStands OneCasePerMail
PROPERTIES ThreadFollowsLetter 
CHECK_DEADLOCK FALSE
