SPECIFICATION FairSpec
CONSTANTS
    Orders = {o1, o2}
    Capacity = 1
    Slots = {g1}
    Ticker = ticker
    Views = {"PROCESSED"}
    RetryAfter <- MCRetryAfter
    DefaultBan = 1
    Panicky = {o2}
INVARIANTS WorkerTypeOK OneCallPerCalmOrder LocksMatchCalls AtMostOneSlips
PROPERTIES EveryOrderSettles
