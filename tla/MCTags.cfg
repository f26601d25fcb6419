\* Two sessions create one tag or change its fields: three field lists, three
\* versions.
SPECIFICATION Spec
CONSTANTS
    Sessions = {s1, s2}
    Positions = {p1, p2}
    Keys = {ka, kb}
    MaxWrites = 3
    MaxVersion = 3
    None = None
SYMMETRY Symmetry
INVARIANTS
    FieldsAreOneList
    SnapshotIsCurrent
    SnapshotsAreTrue
CHECK_DEADLOCK FALSE
