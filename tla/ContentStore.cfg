\* Two processes, each of which may call init_storage when it starts.
SPECIFICATION Spec
CONSTANTS
    Processes = {p1, p2}
    Versions = {1}
    MaxRecords = 3
    MaxDeletes = 1
INVARIANTS
    OneRowPerVersion
    DeletedIsGone
