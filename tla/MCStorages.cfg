\* Two ids, two ticks that make a second, three changes of an instance: time enough
\* to create a child, delete its parent and write an old copy.
CONSTANTS
    Id = {i1, i2}
    a = a
    b = b
    Name = {a, b}
    None = None
    NoRow = NoRow
    Same = Same
    NoCopy = NoCopy
    Second = 2
    Alike <- MCAlike
    Age = {0, 1}
    Limit = {1}
    Queries <- MCQueries
    Labels <- MCLabels
    Timeouts = {1}
    Delays = {0}
    Backoffs = {1}
    Finals = {"FAILED"}
    MaxTime = 1
    MaxEdits = 3

SPECIFICATION Spec
SYMMETRY Symmetry
VIEW WithoutCall
INVARIANT TypeOK
PROPERTY ImplementsContract
