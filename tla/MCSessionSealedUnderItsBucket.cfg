CONSTANTS
    Bucket = {b1, b2}
    SessionId = {s1, s2}
    Login = {l1}
    Job = {j1}
    NilKey = NilKey
    ZeroKey = ZeroKey
SYMMETRY Symmetry
SPECIFICATION Spec
INVARIANT SealedUnderItsBucket
