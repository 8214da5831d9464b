\* Takeovers, stalls, crashes and a reboot around one lease of three ticks.
SPECIFICATION Spec
CONSTANTS
    a = a
    b = b
    p = p
    q = q
    None = None
    Old = Old
    Jobs = {a, b}
    Processes = {p, q}
    ProcessOf <- MCProcessOf
    Lease = 3
    Margin = 1
    Attempts = 2
    MaxClock = 4
    MaxReboots = 1
CHECK_DEADLOCK FALSE
INVARIANTS
    PublicationInvariant
    AssertionHoldsForTheLease
    FinishedWorkStays
    TornPairIsUnfinished
PROPERTY ImplementsExclusiveLease
