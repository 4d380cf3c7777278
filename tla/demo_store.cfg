\* The scripted picture and a contested one, two approving threads that run to
\* their ends, a reset.
SPECIFICATION FairSpec
CONSTANTS
    o1 = o1
    o2 = o2
    o3 = o3
    c1 = c1
    c2 = c2
    Approver = {a1, a2}
    Order = {o1, o2, o3}
    Content = {c1, c2}
    Key = {k1, k2}
    Id = {1, 2, 3}
    Requests <- DemoRequests
    Reads <- DemoReading
    MaxResets = 1
    None = None
INVARIANTS
    TypeOK
    ReuseRestsOnApproval
    VerdictsKeepTheirOrder
PROPERTIES
    SettledAcceptanceStands
    AnswersStand
    ApprovalLands
