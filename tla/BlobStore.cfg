\* Three writers on an original's key and a page's key.
SPECIFICATION Spec
CONSTANTS
    Writers = {w1, w2, w3}
    Keys = {k1, k2}
    Addressed = {k1}
    Sized = {TRUE}
    MaxDeletes = 1
INVARIANTS
    ReturnedIsStored
PROPERTIES
    ImplementsContract
