CONSTANTS
    Key = {k1, k2}
    NoKey = NoKey
    Login = {l1, l2}
    Loop = Loop
    MaxIdx = 3
    MaxUsed = 2
    Absent = Absent
    Empty = Empty
    Garbled = Garbled
SYMMETRY Symmetry
SPECIFICATION Spec
INVARIANTS
    TypeOK
    OneEntryPerKey
    PasswordIsTheKeys
    UndisturbedIsKept
