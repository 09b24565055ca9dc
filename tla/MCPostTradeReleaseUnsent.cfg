\* Violated: a crash between the two rows of a discard.
SPECIFICATION Spec
CONSTANTS
    Procs = {p1}
    MaxAttempts = 2
    MaxQty = 1
    MaxBoots = 2
    MaxRefusals = 0
    FlowEnds = {"halted", "sent"}
    None = None
INVARIANTS UnsentProvable
CHECK_DEADLOCK FALSE
