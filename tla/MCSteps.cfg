\* Two sessions, every call, two steps: the whole state machine.
SPECIFICATION Spec
CONSTANTS
    Documents = {d1}
    Sessions = {s1, s2}
    NumSteps = 2
    Used = {"ensure_steps", "claim", "mark_succeeded", "mark_failed", "reset_from"}
    Given = {TRUE}
    MaxResets = 1
    None = None
SYMMETRY Symmetry
INVARIANTS
    AllOrNoSteps
    WinsAreExclusive
    RowsAreConsistent
PROPERTIES
    ImplementsLedger
