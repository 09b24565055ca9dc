\* Two processes, one of them possibly an operator's command, and a key staged at any moment.
SPECIFICATION Spec
CONSTANTS
    None = None
    ann = ann
    bob = bob
    cat = cat
    eve = eve
    Principals <- MCPrincipals
    Roster <- MCRoster
    ControlEdges <- MCControlEdges
    Files <- MCFiles
    Procs = {p1, p2}
    MaxGen = 2
    MaxRoom = 7
SYMMETRY ProcsSymmetry
INVARIANTS OnlyOverlapLocksStore ClearedByQuorum HaltIsTraced
CHECK_DEADLOCK FALSE
