\* One receipt shown again and again beside another order's approvals.
SPECIFICATION FairPipelineSpec
CONSTANTS
    Txn = {1, 2, 3}
    Order = {o1, o2}
    ThisOrder = o1
    None = None
    Policies <- MCPolicies
    Totals <- MCTotals
    Receipts <- AnyReceipt
    Entries <- AnyEntry
    Feeds <- AnyFeed
    Croppable = {}
    Reach <- MCReach
    HourTolerance = 90
    Modes = {"cloud", "offline"}
    Pictures <- MCPictures
    Books <- MCBooks
    NameRung <- MCNameRung
    NameKeys <- MCNameKeys
    LongTails = {"210377", "998800", "111111", "0000a7", "0000c2"}
    Anchor = 0
    TimeWindow = 86400
INVARIANTS
    PipelineTypeOK
    FailedReadingReleasesNothing
    DoubtIsAFailedCheck
    GenuineReceiptNamesItsPayment
PROPERTIES
    SubmissionsEnd
