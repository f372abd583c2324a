CONSTANTS
    MaxFiles = 2
    FirstFiles = 2
    WithPassword = {}
    ShortName = {}
    Goroutine = {g1, g2}
SYMMETRY Symmetry
SPECIFICATION Spec
INVARIANT DeletesWhatWasAsked
