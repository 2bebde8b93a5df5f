\* No faults: two commands with children, retries, errors, panics, an unregistered name
\* and deadlines; three ticks, so that a delayed command can use its retries.
CONSTANTS
    Cmd = {x, y}
    NoInst = NoInst
    Worker = {w1, w2}
    Client = {k1}
    QueueSize = 1
    Retries = 2
    Delays = {0, 1}
    Deadlines = {0}
    Backoff = 1
    Period = 1
    MaxDelay = 1
    KidPlans <- TwoChildren
    Unregistered = {y}
    DeadLetter = FALSE
    Limited = FALSE
    CtxAware = FALSE
    Outcomes = {"ok", "retry", "error", "panic", "callback panic"}
    ApiOps = {}
    Faults = {}
    MaxTime = 3
    LastAdd = 0
    MaxUncharged = 0
SPECIFICATION FairSpec
PROPERTIES DeadlineRespected TerminalIsFinal EventuallyTerminal
CHECK_DEADLOCK FALSE
