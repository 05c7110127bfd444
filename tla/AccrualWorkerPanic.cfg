SPECIFICATION Spec
CONSTANTS
    Orders = {o1}
    Capacity = 1
    Slots = {g1}
    Ticker = ticker
    Views = {"REGISTERED", "PROCESSING", "INVALID", "PROCESSED"}
    RetryAfter <- MCRetryAfter
    DefaultBan = 1
    Panicky = {o1}
INVARIANTS OneCallPerOrder
