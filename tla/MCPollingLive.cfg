\* The same processes behind a rate limiter, with retries, repeats, panics, deadlines and
\* an unregistered name, and no caller that interferes; three ticks, so that a row
\* orphaned in the first can be taken back and retried.
CONSTANTS
    Cmd = {x, y}
    NoInst = NoInst
    w1 = w1
    w2 = w2
    p1 = p1
    p2 = p2
    Proc = {p1, p2}
    Worker = {w1, w2}
    Host <- OnePerProcess
    Recoverer = {p1}
    Client = {k1}
    ClaimBatchSize = 2
    Threshold = 2
    BatchesInTime = TRUE
    Retries = 1
    Delays = {0}
    Deadlines = {0}
    Backoff = 1
    Period = 1
    Unregistered = {y}
    DeadLetter = FALSE
    Limited = TRUE
    CtxAware = TRUE
    Outcomes = {"ok", "repeat", "retry", "error", "panic", "callback panic"}
    ApiOps = {}
    Faults = {"crash", "stop", "lost"}
    MaxFaults = 1
    LastFault = 0
    MaxAttempt = 2
    MaxTime = 3
    LastAdd = 0
SPECIFICATION FairSpec
INVARIANTS NoOrphans
PROPERTIES EventuallyTerminal
CHECK_DEADLOCK FALSE
