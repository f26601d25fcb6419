\* Two sessions that patch, embed and refresh one document.
SPECIFICATION Spec
CONSTANTS
    Actors = {a1, a2}
    Keys = {k1, k2}
    Values = {1, 2}
INVARIANTS
    PatchIsApplied
    FiltersAreFresh
