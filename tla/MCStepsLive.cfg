\* Two overlapping resets, and sessions that lock rows in opposite orders.
SPECIFICATION FairSpec
CONSTANTS
    Documents = {d1}
    Sessions = {s1, s2}
    NumSteps = 2
    Used = {"ensure_steps", "claim", "reset_from"}
    Given = {TRUE}
    MaxResets = 2
    None = None
INVARIANTS
    DownstreamIsReset
PROPERTIES
    CallsReturn
