SPECIFICATION FairSpec
CONSTANTS
    MaxRows = 2
    MaxBoots = 3
    Window = 100
    MaxRaises = 1
    None = None
INVARIANTS TypeOK ReplayReproducesLedger StampsIncrease HandledOnce DroppedMeansUnsent OneLiveAttempt
PROPERTIES RestrictionStopsNewRisk EventuallyConsumed PendingTimesOut
CHECK_DEADLOCK FALSE
