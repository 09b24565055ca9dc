\* Two workers of one group over two streams.
SPECIFICATION FairSpec
CONSTANTS
    Workers = {w1, w2}
    NumStreams = 2
    BatchSize = 1
    MaxEntries = 2
    MaxFaults = 2
    None = None
INVARIANTS NothingSkipped RetriesArePaid
PROPERTIES EventuallyHandled
CHECK_DEADLOCK FALSE
