\* A reader that times out, is unavailable, answers nonsense or refuses.
SPECIFICATION PipelineSpec
CONSTANTS
    Txn = {1, 2, 3}
    Order = {o1, o2}
    ThisOrder = o1
    None = None
    Policies <- MCPolicies
    Totals <- MCTotals
    Receipts <- AnyReceipt
    Entries <- AnyEntry
    Feeds <- AnyFeed
    Croppable = {}
    Reach <- MCReach
    HourTolerance = 90
    Modes = {"cloud", "offline"}
    Pictures <- MCPictures
    Books <- MCBooks
    NameRung <- MCNameRung
    NameKeys <- MCNameKeys
    LongTails = {"210377", "998800", "111111", "0000a7", "0000c2"}
    Anchor = 0
    TimeWindow = 86400
INVARIANTS
    FailedReadingIsReviewed
