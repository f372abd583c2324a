CONSTANTS
    MaxFiles = 2
    FirstFiles = 1
    WithPassword = {1}
    ShortName = {2}
    Goroutine = {g1, g2}
SYMMETRY Symmetry
SPECIFICATION Spec
INVARIANTS
    TypeOK
    RowsAreTheList
    UndisturbedIsMeant
    DeletedRowsLeave
    QuietIsLoaded
