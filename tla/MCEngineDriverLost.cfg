SPECIFICATION PolledSpec
CONSTANTS
    MaxRows = 1
    MaxBoots = 2
    Window = 100
    MaxRaises = 0
    None = None
PROPERTIES LostResultTimesOut
CHECK_DEADLOCK FALSE
