\* Two processes with one worker each and batches of two; the first process recovers
\* stuck commands; one crash, stop or lost answer in the first tick, and two ticks, so
\* that a row orphaned then is taken back while a caller cancels and replays.
CONSTANTS
    Cmd = {x, y}
    NoInst = NoInst
    w1 = w1
    w2 = w2
    p1 = p1
    p2 = p2
    Proc = {p1, p2}
    Worker = {w1, w2}
    Host <- OnePerProcess
    Recoverer = {p1}
    Client = {k1}
    ClaimBatchSize = 2
    Threshold = 2
    BatchesInTime = TRUE
    Retries = 0
    Delays = {0}
    Deadlines = {}
    Backoff = 0
    Period = 1
    Unregistered = {}
    DeadLetter = TRUE
    Limited = FALSE
    CtxAware = TRUE
    Outcomes = {"ok", "repeat", "error"}
    ApiOps = {"cancel", "replay", "cleanup"}
    Faults = {"crash", "stop", "lost"}
    MaxFaults = 1
    LastFault = 0
    MaxAttempt = 2
    MaxTime = 2
    LastAdd = 0
SPECIFICATION Spec
SYMMETRY Symmetry
INVARIANTS TypeOK ClaimExclusive LeaseHeld
CHECK_DEADLOCK FALSE
