SPECIFICATION Spec
CONSTANTS
    MaxRows = 2
    MaxBoots = 1
    Window = 100
    MaxRaises = 0
    None = None
PROPERTIES ClearWipesNoNewerViolation
CHECK_DEADLOCK FALSE
