\* storage.go as it stands, asked of the three storages.
CONSTANTS
    Id = {i1, i2}
    a = a
    b = b
    Name = {a, b}
    None = None
    NoRow = NoRow
    Same = Same
    NoCopy = NoCopy
    Second = 2
    Alike <- MCAlike
    Age = {0, 1}
    Limit = {1}
    Queries <- MCQueries
    Labels <- MCLabels
    Timeouts = {1}
    Delays = {1}
    Backoffs = {1}
    Finals = {"FAILED"}
    MaxTime = 1
    MaxEdits = 1

SPECIFICATION Spec
PROPERTY ImplementsStorageGo
