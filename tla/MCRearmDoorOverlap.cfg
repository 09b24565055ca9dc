\* Violated: a key is staged while a process opens, or rotated while one is up.
SPECIFICATION Spec
CONSTANTS
    None = None
    ann = ann
    bob = bob
    cat = cat
    eve = eve
    Principals <- MCPrincipals
    Roster <- MCRoster
    ControlEdges <- MCControlEdges
    Files <- MCFiles
    Procs = {p1, p2}
    MaxGen = 2
    MaxRoom = 7
SYMMETRY ProcsSymmetry
INVARIANTS NoOverlap
CHECK_DEADLOCK FALSE
