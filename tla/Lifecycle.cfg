SPECIFICATION LifeFairSpec
CONSTANTS
    Orders = {o1}
    Capacity = 1
    Slots = {g1}
    Ticker = ticker
    Views = {"PROCESSING", "PROCESSED"}
    RetryAfter = {0}
    DefaultBan = 1
    Panicky = {o1}
    MaxStarts = 2
INVARIANTS LifeTypeOK NoCallOutlivesStart
PROPERTIES VerdictsStay ShutdownEnds EveryOrderSettles
