\* One process; one VERIFIED attempt approved on two pool threads at once.
SPECIFICATION Spec
CONSTANTS
    Process = {p1}
    Approver = {a1, a2}
    Host <- MCHost
    Order = {o1}
    Content = {c1}
    Image = {c1}
    StoredAs <- MCStoredAs
    Txn = {t1}
    Key = {k1}
    AttemptId = {1}
    Readings <- CleanReadings
    MaxCrashes = 0
    None = None
INVARIANTS
    ApprovalNeverRaises
