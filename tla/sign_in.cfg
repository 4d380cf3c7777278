\* Three calls across a replacement of the backend.
SPECIFICATION FairSpec
CONSTANTS
    Call = {c1, c2, c3}
    MaxRestarts = 1
    None = None
INVARIANTS
    TypeOK
    RejectedOnlyAcrossRestart
    ActsAtMostOnce
    BurstSharesSignIn
    NoCallAwaitsNothing
PROPERTIES
    CallsSettle
\* A session ends when every call has settled.
CHECK_DEADLOCK FALSE
