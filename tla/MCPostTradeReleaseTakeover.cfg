\* A second process takes over while the first one goes on.
SPECIFICATION Spec
CONSTANTS
    Procs = {p1, p2}
    MaxAttempts = 3
    MaxQty = 2
    MaxBoots = 2
    MaxRefusals = 0
    FlowEnds = {"halted", "sent"}
    None = None
INVARIANTS ExposureIsReserved AnchorStands
CHECK_DEADLOCK FALSE
