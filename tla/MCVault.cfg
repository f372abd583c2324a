CONSTANTS
    Password = {"good", "runs"}
    NoPassword = "none"
    Char = {"a", "B", "s", "d"}
    Class <- MCClass
    Spelling <- MCSpelling
    Creation = {c1, c2}
    NoFilePassword = "none"
    FilePassword = {"secret", "other"}
    Upload = {u1, u2}
    MaxVersion = 2
    Parts = 2
SYMMETRY Symmetry
SPECIFICATION Spec
INVARIANTS
    TypeOK
    CompletedOpens
    OpensOnlyItsOwn
    CreatedOpens
    PasswordsFollowFirstFourRules
