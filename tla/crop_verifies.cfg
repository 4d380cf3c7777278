CONSTANTS
    Txn = {1, 2}
    Order = {o1, o2}
    ThisOrder = o1
    None = None
    Policies <- OnlyDefault
    Totals <- OnlyPaid
    Receipts <- OnlySure
    Entries <- SuffixRows
    Feeds <- TwoRows
    Croppable = {"reference", "amount", "timestamp", "sender_name"}
SPECIFICATION Spec
PROPERTY CroppingNeverVerifies
\* A receipt may have nothing left to be asked or approved.
CHECK_DEADLOCK FALSE
