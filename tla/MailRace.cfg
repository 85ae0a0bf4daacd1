SPECIFICATION Spec
CONSTANTS
    m1 = m1
    m2 = m2
    d1 = d1
    p1 = p1
    p2 = p2
    NoDraft = NoDraft
    Mails <- OneMail
    Advised <- OneMail
    Drafts <- OneDraft
    Subject <- OneSubject
    Dispatchers <- TwoDispatchers
    Limit = 2
    MaxFaults = 2
INVARIANTS NoticesAreHonest OutcomeIsReported NothingStaleIsMailed
PROPERTY KeepsPromise
