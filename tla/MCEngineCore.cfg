CONSTANTS
  None = None
  s1 = s1
  p1 = p1
  p2 = p2
  k1 = k1
  Scopes = {s1}
  Proposals = {p1, p2}
  ScopeOf <- MCScopeOf
  Permits = {k1}
  MaxRef = 2
  MaxUnresolved = 1
  MaxQuantity = 2
  Witnesses = {1}
  MaxApplied = 3
SYMMETRY Symmetry
SPECIFICATION Spec
INVARIANT TypeOK
INVARIANT SentAttemptIsHeld
INVARIANT ApplyNeverRaises
PROPERTY SettlementNeverUnwound
PROPERTY FillsOnlyAccumulate
PROPERTY ImplementsSlot
