\* Two server processes that may wait for each other's write lock.
SPECIFICATION FairSpec
CONSTANTS
    Process = {p1, p2}
    Approver = {a1}
    Host <- MCHost
    Order = {o1}
    Content = {c1}
    Image = {c1}
    StoredAs <- MCStoredAs
    Txn = {t1}
    Key = {k1, k2}
    AttemptId = {1, 2}
    Readings <- MCReadings
    MaxCrashes = 1
    None = None
PROPERTIES
    LockIsReleased
