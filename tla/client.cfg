\* A session of up to MaxRuns checks, resets and changes of place.
SPECIFICATION FairSpec
CONSTANTS
    Order = {o1, o2}
    File = {f1}
    Id = {v1, v2, v3}
    Txn = {t1}
    o1 = o1
    f1 = f1
    t1 = t1
    v1 = v1
    Outcomes <- EachScreen
    Earlier <- OneEarlier
    MaxRuns = 4
    MaxListings = 1
    None = None
INVARIANTS
    TypeOK
    VerdictAnswersLastAsk
    OnePaymentOneRelease
PROPERTIES
    LeavesForWhereItWasAsked
    CheckingEnds
\* The bound on runs ends the session.
CHECK_DEADLOCK FALSE
