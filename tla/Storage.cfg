\* Two calls over batches of two while the stores are closed and made again.
SPECIFICATION FairSpec
CONSTANTS
    NumPages = 3
    UPSERT_BATCH_SIZE = 2
    Attempts = 2
    Closers = {t1}
    MaxMade = 2
INVARIANTS
    ReturnedIsComplete
    RetryOverwrites
    NoClientLeaks
PROPERTIES
    ImplementsPages
    PutReturns
CHECK_DEADLOCK FALSE
