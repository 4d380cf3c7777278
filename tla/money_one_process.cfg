\* One server process, two pool threads, three attempts on two payments.
SPECIFICATION Spec
CONSTANTS
    Process = {p1}
    Approver = {a1, a2}
    Host <- MCHost
    Order = {o1, o2}
    Content = {c1, c2}
    Image = {c1, c2}
    StoredAs <- MCStoredAs
    Txn = {t1, t2}
    Key = {k1, k2, k3}
    AttemptId = {1, 2, 3}
    Readings <- MoneyReadings
    MaxCrashes = 0
    None = None
SYMMETRY Interchangeable
PROPERTIES
    NoAccusationWithoutApproval
    ImplementsLedger
    FirstVerdictIsFresh
