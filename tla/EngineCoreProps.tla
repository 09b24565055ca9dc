-------------------------- MODULE EngineCoreProps ---------------------------
(***************************************************************************)
(* Correctness properties of the engine core and its provisional           *)
(* reservation ledger.                                                     *)
(***************************************************************************)
EXTENDS EngineCore

\* Every variable of the core has its type; the ledger's tables are indexed by
\* scope and a flow never runs past the hand-off to the send boundary.
TypeOK ==
    /\ last \in Refs \cup {None}
    /\ flow \in Flow \cup {None}
    /\ reservations \in [Scopes -> ProvisionalReservation \cup {None}]
    /\ signatures \in [Scopes -> SUBSET EgressResultPayload]
    /\ released \in [Scopes -> SUBSET Attempts]
    /\ sent \in SUBSET Attempts

MayBeLive(c) == PROJECTION_RANK[c] >= PROJECTION_RANK["POTENTIALLY_LIVE"]

\* At-most-one exposure: an attempt that was handed to the send boundary and
\* whose release no finality proof established is still the reservation of
\* its scope, projected POTENTIALLY_LIVE or later.  Hence no scope ever has
\* two of them, whatever order ticks, results, releases and discards come in.
SentAttemptIsHeld ==
    \A a \in sent :
        LET s == AttemptScope(a)
        IN  a \in released[s] \/ ( /\ reservations[s] # None
                                   /\ reservations[s].attempt = a
                                   /\ reservations[s].capacity # "RELEASED"
                                   /\ MayBeLive(reservations[s].capacity) )

\* Quarantine and ignorance coincide: a reservation is QUARANTINED_UNKNOWN
\* exactly while the last thing heard of its attempt is UNKNOWN or TIMEOUT,
\* and exactly then it remembers the capacity it held before, which is one a
\* handed-off attempt can have and never quarantine itself.
QuarantineIsIgnorance ==
    \A s \in Scopes :
        reservations[s] # None =>
            LET v == reservations[s]
            IN  /\ v.capacity = "QUARANTINED_UNKNOWN" <=> v.knowledge = "UNKNOWN"
                /\ v.capacity = "QUARANTINED_UNKNOWN" <=> v.pre_quarantine # None
                /\ v.pre_quarantine # None =>
                     /\ MayBeLive(v.pre_quarantine)
                     /\ v.pre_quarantine \notin {"QUARANTINED_UNKNOWN", "RELEASED"}

\* apply_egress_result decides every refusal itself: when it reaches _store,
\* the non-revival guards there cannot raise out of the event handler.
ApplyNeverRaises ==
    \A p \in EgressResultPayload :
        LET s == AttemptScope(p.attempt)
        IN  p.attempt \in sent /\ disposition(p) = "APPLIED"
              => StoreAccepts(s, AfterResult(outstanding(s), p),
                              resolving_quarantine(outstanding(s), p))

-----------------------------------------------------------------------------
\* The capacity proven so far: what was held before, while quarantined.
Settled(v) ==
    IF v.capacity = "QUARANTINED_UNKNOWN" THEN v.pre_quarantine ELSE v.capacity

SameAttempt(s) ==
    /\ reservations[s] # None /\ reservations'[s] # None
    /\ reservations[s].attempt # None
    /\ reservations[s].attempt = reservations'[s].attempt

\* A settlement is never unwound: for one attempt the proven capacity only
\* advances, through quarantine and out of it, whichever results arrive late,
\* duplicated or in the wrong order.
SettlementNeverUnwound ==
    [][\A s \in Scopes :
         SameAttempt(s) => PROJECTION_RANK[Settled(reservations'[s])]
                             >= PROJECTION_RANK[Settled(reservations[s])]]_vars

\* Fills only accumulate: for one attempt a recorded fill is never lost, never
\* shrinks, and keeps the authorized total the first one established.
FillsOnlyAccumulate ==
    [][\A s \in Scopes :
         SameAttempt(s) /\ reservations[s].fill # None =>
            LET was == reservations[s].fill
                now == reservations'[s].fill
            IN  /\ now # None
                /\ now.filled >= was.filled
                /\ now.filled + now.remaining = was.filled + was.remaining]_vars

-----------------------------------------------------------------------------
\* The refinement mapping to the abstract slot.
LiveAttempt ==
    [s \in Scopes |->
        IF /\ reservations[s] # None
           /\ MayBeLive(reservations[s].capacity)
           /\ reservations[s].capacity # "RELEASED"
          THEN reservations[s].attempt
          ELSE None]

SettledAttempts ==
    {a \in sent : \E x \in signatures[AttemptScope(a)] :
                     x.attempt = a /\ x.kind \in TERMINAL_RESULT_KINDS}

Slot == INSTANCE ExposureSlot
          WITH Nobody <- None, live <- LiveAttempt, spent <- sent,
               settled <- SettledAttempts

\* The core implements the one-slot-per-scope promise: an attempt reaches the
\* send boundary at most once ever (a redelivered tick, a reopened scope and a
\* discarded reservation included), only when nothing of its scope may be
\* live, and its slot is given back only after a terminal broker answer.
ImplementsSlot == Slot!Spec
=============================================================================
