\* Two sessions add versions to two documents, known or not, and validate them.
SPECIFICATION Spec
CONSTANTS
    Documents = {d1, d2}
    Sessions = {s1, s2}
    MaxVersion = 2
    MaxValidations = 1
    None = None
SYMMETRY Symmetry
INVARIANTS
    VersionsCountAdds
    CurrentIsLatest
    ConflictHasCause
    ValidationsRefer
