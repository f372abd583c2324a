CONSTANTS
    Download = {d1, d2, d3}
    File = {f1, f2}
    Name = {n1}
    NameOf <- OneName
    Pieces = 2
SYMMETRY Symmetry
SPECIFICATION Spec
INVARIANTS
    TypeOK
    NoEncryptedCopyLeft
    FindsItsOwnCopy
    NamedLeavesWholeFile
