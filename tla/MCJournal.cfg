\* Two sessions and three transactions over one document, delivery and address.
SPECIFICATION JournalSpec
CONSTANTS
    Sessions = {s1, s2}
    Spellings = {lower, upper}
    MaxBegins = 3
    MaxEvents = 3
    MaxDeliveries = 1
    MaxCompletions = 3
INVARIANTS
    ListedInOrder
    OutcomeIsLast
PROPERTIES
    ConflictUndoesAll
SYMMETRY Symmetry
CHECK_DEADLOCK FALSE
