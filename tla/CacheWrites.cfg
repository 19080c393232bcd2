\* Four keys without a limit: writes alone reclaim what has expired.
CONSTANTS
    Keys = {k1, k2, k3, k4}
    Nil = Nil
    MaxBytes = 0
    Sizes = {1}
    cleanupBatchSize = 1
    addExpiryScanLimit = 2
SPECIFICATION WritesSpec
PROPERTIES ExpiredReclaimedByWrites
