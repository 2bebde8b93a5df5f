\* Two rows of one key, two callers beside Start, one worker per run: a second run
\* may find the worker of the first.
CONSTANTS
    Cmd = {i1, i2}
    NoInst = NoInst
    Key = {k}
    NoKey = NoKey
    DefaultKey = k
    Client = {c1, c2}
    Starter = starter
    Worker = {w1, w2}
    Parallelism = 1
    Permanent = {k}
    MaxStarts = 2
    MaxCalls = 3

SPECIFICATION Spec
SYMMETRY Symmetry
VIEW View
CHECK_DEADLOCK FALSE
INVARIANT TypeOK
INVARIANT OneActivePerKey
INVARIANT OneCarrier
INVARIANT QuietAfterStop
