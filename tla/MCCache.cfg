\* Three clients make one call each, every command sent up to twice.
SPECIFICATION Spec
CONSTANTS
    Clients = {c1, c2, c3}
    Used = {"lock", "idem", "json"}
    MaxTries = 1
    MaxSends = 2
    None = None
SYMMETRY Symmetry
INVARIANTS
    LeaseIsHonoured
    ClaimsAreExclusive
    CachedIsCurrent
CHECK_DEADLOCK FALSE
