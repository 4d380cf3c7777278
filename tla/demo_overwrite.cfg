\* Two pool threads that approve two orders' checks of one picture.
SPECIFICATION Spec
CONSTANTS
    o1 = o1
    o2 = o2
    o3 = o3
    c1 = c1
    c2 = c2
    Approver = {a1, a2}
    Order = {o1, o2}
    Content = {c1}
    Key = {k1, k2}
    Id = {1, 2}
    Requests <- OnePerOrder
    Reads <- AnyReading
    MaxResets = 1
    None = None
PROPERTIES
    FirstAcceptanceStands
