SPECIFICATION Spec
CONSTANTS
  None = None
  c1 = c1
  c2 = c2
  c3 = c3
  c4 = c4
  d1 = d1
  d2 = d2
  r1 = r1
  s1 = s1
  v1 = v1
  Writers = {w1, w2}
  Commands <- MCCommands
  Digests <- MCDigests
  Reservations <- MCReservations
  Scopes <- MCScopes
  Vectors <- MCVectors
  Requests <- MCRequests
  MaxEpoch = 2
  MaxLog = 3
INVARIANTS
  TypeOK
  EvidenceCoversLog
  FencedWriterNeverAppends
  CommandCommittedOnce
  ReplayReproducesHeld
  LifecycleIsAChain
  OutcomeIsTruthful
  ApprovalGapKeepsCapacity
PROPERTIES
  LockIsReturned
CHECK_DEADLOCK FALSE
