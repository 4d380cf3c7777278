CONSTANTS
    Txn = {1, 2}
    Order = {o1, o2}
    ThisOrder = o1
    None = None
    Policies <- MCPolicies
    Totals <- MCTotals
    Receipts <- MCReceipts
    Entries <- MCRows
    Feeds <- MCFeeds
    Croppable = {"reference", "amount"}
SPECIFICATION Spec
INVARIANTS TypeOK VerifiedIsSafe PostConditionHolds TwinsNeverNamed SummaryTellsTheFindings StoredVerdictReadsTheSame
PROPERTIES HistoryOnlyAccuses CroppingNeverRaisesScore
\* A receipt may have nothing left to be asked or approved.
CHECK_DEADLOCK FALSE
