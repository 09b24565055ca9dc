\* Violated: the door's process dies between the approval and the clear.
SPECIFICATION Spec
CONSTANTS
    None = None
    ann = ann
    bob = bob
    cat = cat
    eve = eve
    Principals <- MCPrincipals
    Roster <- MCRoster
    ControlEdges <- MCControlEdges
    Files <- MCFiles
    Procs = {p1, p2}
    MaxGen = 1
    MaxRoom = 5
SYMMETRY ProcsSymmetry
INVARIANTS RearmPossible
CHECK_DEADLOCK FALSE
