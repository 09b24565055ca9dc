---------------------------- MODULE MCEngineCore ----------------------------
EXTENDS EngineCoreProps, TLC

CONSTANTS s1, p1, p2, k1

\* Both proposals are for the one scope: they compete for its slot.
MCScopeOf == (p1 :> s1) @@ (p2 :> s1)

\* The proposals are interchangeable: the same scope, no order among them.
Symmetry == Permutations({p1, p2})
=============================================================================
