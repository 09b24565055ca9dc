\* One process that may die anywhere and start again once.
SPECIFICATION FairSpec
CONSTANTS
    Procs = {p1}
    MaxAttempts = 4
    MaxQty = 2
    MaxBoots = 2
    MaxRefusals = 1
    FlowEnds = {"halted", "sent", "raised"}
    None = None
INVARIANTS TypeOK ExposureIsReserved NeverShort CloseNotForgotten ScopeShape LedgerCoversLog
PROPERTIES EntryEventuallyDischarged
CHECK_DEADLOCK FALSE
