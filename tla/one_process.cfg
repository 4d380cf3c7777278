\* The shipped deployment: one server process.
SPECIFICATION Spec
CONSTANTS
    Process = {p1}
    Approver = {a1}
    Host <- MCHost
    Order = {o1, o2}
    Content = {c1, c2}
    Image = {c1, c2}
    StoredAs <- MCStoredAs
    Txn = {t1}
    Key = {k1, k2, k3}
    AttemptId = {1, 2, 3}
    Readings <- MCReadings
    MaxCrashes = 1
    None = None
SYMMETRY Interchangeable
INVARIANTS
    TypeOK
    ProofHasBlob
    BlobsAccounted
    KeyBindsItsRequest
    EveryAttemptBound
PROPERTIES
    ImplementsAtomic
