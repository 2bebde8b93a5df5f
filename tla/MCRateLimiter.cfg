\* Three callers, one slot for name a under a global limit of two; two contexts can be
\* cancelled, b can be given a limit and the global limit can drop to one.
CONSTANTS
    a = a
    b = b
    Caller = {c1, c2, c3}
    Name = {a, b}
    Global = Global
    Limits = {1}
    InitLimits <- OneForA
    InitGlobal = 2
    Cancellable = {c1, c2}
    Reconfigure = TRUE
SPECIFICATION FairSpec
INVARIANTS TypeOK SlotsCounted SleepersListed
PROPERTIES NeverOverLimit SlotsNotWasted
