SPECIFICATION FairSpec
CONSTANTS
    m1 = m1
    m2 = m2
    d1 = d1
    p1 = p1
    p2 = p2
    NoDraft = NoDraft
    Mails <- TwoMails
    Advised <- OtherMail
    Drafts <- NoDrafts
    Subject <- OwnSubjects
    Dispatchers <- OneDispatcher
    Limit = 1
    MaxFaults = 1
PROPERTY DueMailsGetAnOutcome
