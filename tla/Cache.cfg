\* Three keys in three bytes; a value of four bytes does not fit at all.
CONSTANTS
    Keys = {k1, k2, k3}
    Nil = Nil
    MaxBytes = 3
    Sizes = {1, 2, 4}
    cleanupBatchSize = 1
    addExpiryScanLimit = 2
SPECIFICATION HSpec
INVARIANTS BytesExact CursorsInList ListInRecencyOrder RoundCoversUnlessBumped
