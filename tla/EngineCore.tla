----------------------------- MODULE EngineCore -----------------------------
(***************************************************************************)
(* The kernel engine core (tos/src/tos/engine): one event at a time is     *)
(* taken from the driver; a DECISION_TICK may walk the commitment flow     *)
(* (steps 1-14, then the hand-off to the send boundary), an EGRESS_RESULT  *)
(* is applied to the provisional reservation ledger.  The ledger holds at  *)
(* most one reservation per (account, instrument) scope; a scope is given  *)
(* back only by a finality proof token (release) or, for a reservation     *)
(* that never left the core, by an unsent-discard token.                   *)
(*                                                                         *)
(* The core is single threaded and processes an event to completion, so a  *)
(* result, a release or a discard is taken only between flows; the flow    *)
(* itself is walked one step at a time because every step may stop it and  *)
(* leave the ledger as the earlier steps made it.                          *)
(*                                                                         *)
(* Abstractions: an ordering coordinate is a number (greater = positively  *)
(* after, equal = ambiguous); the proof digest of step 11 is a function of *)
(* the proposal, and `permit' is the identity bound at step 9, so an       *)
(* attempt id, the digest of both with the coordinate, is the triple       *)
(* itself; `witness' stands for the pair (broker_execution_id,             *)
(* resolution_generation), which only the duplicate signature reads.       *)
(***************************************************************************)
EXTENDS Naturals, FiniteSets

CONSTANTS Scopes,           \* (account, instrument) keys
          Proposals,        \* proposal ids the decision pipeline may emit
          ScopeOf,          \* the scope a proposal is for
          Permits,          \* Action Flow Permit identities step 9 may bind
          MaxRef,           \* bound on ordering coordinates
          MaxUnresolved,    \* max_unresolved_send_per_scope
          MaxQuantity,      \* bound on a filled or a remaining quantity
          Witnesses,        \* (execution id, resolution generation) pairs
          MaxApplied,       \* bound on the results applied in one scope
          None              \* Python's None

ASSUME ScopeOfType == ScopeOf \in [Proposals -> Scopes]

ASSUME BoundsAreNaturals ==
    /\ MaxRef \in Nat
    /\ MaxUnresolved \in Nat
    /\ MaxQuantity \in Nat

VARIABLES last,             \* EngineCore._last_reference
          flow,             \* the commitment flow being walked, or None
          reservations,     \* ProvisionalReservationLedger._reservations
          signatures,       \* ..._applied_result_signatures
          released,         \* ..._released_attempt_ids
          sent              \* attempts passed to the injected transmit

vars == <<last, flow, reservations, signatures, released, sent>>

Refs == 1..MaxRef

\* The order of the capacity projection; RELEASED is reached by a token only.
PROJECTION_RANK ==
    [COMMITTED_UNBOUND |-> 0, ATTEMPT_BOUND |-> 1, POTENTIALLY_LIVE |-> 2,
     PARTIALLY_CONSUMED |-> 3, POSITION_CONSUMED |-> 4,
     RELEASE_PENDING_PROOF |-> 5, QUARANTINED_UNKNOWN |-> 6, RELEASED |-> 7]

CapacityState == DOMAIN PROJECTION_RANK

FillKinds == {"PARTIAL_FILL", "FULL_FILL"}

TERMINAL_RESULT_KINDS == {"FULL_FILL", "REJECT", "CANCEL_ACK", "EXPIRED"}

\* The knowledge an egress result establishes.
ResultKnowledge ==
    [ACK |-> "ACKNOWLEDGED", FULL_FILL |-> "FILLED",
     PARTIAL_FILL |-> "PARTIALLY_FILLED", REJECT |-> "REJECTED",
     UNKNOWN |-> "UNKNOWN", TIMEOUT |-> "UNKNOWN",
     CANCEL_ACK |-> "CANCEL_ACKNOWLEDGED", EXPIRED |-> "EXPIRED"]

EgressResultKind == DOMAIN ResultKnowledge

EgressKnowledge ==
    {"NOT_SENT", "SENT_UNCONFIRMED", "ACKNOWLEDGED", "PARTIALLY_FILLED",
     "FILLED", "REJECTED", "UNKNOWN", "CANCEL_ACKNOWLEDGED", "EXPIRED"}

\* The capacity an egress result asks for outside quarantine (ACK asks none).
ResultCapacity ==
    [FULL_FILL |-> "POSITION_CONSUMED", PARTIAL_FILL |-> "PARTIALLY_CONSUMED",
     REJECT |-> "RELEASE_PENDING_PROOF", UNKNOWN |-> "QUARANTINED_UNKNOWN",
     TIMEOUT |-> "QUARANTINED_UNKNOWN", CANCEL_ACK |-> "RELEASE_PENDING_PROOF",
     EXPIRED |-> "RELEASE_PENDING_PROOF"]

\* The least capacity a result may bring a quarantined reservation back to.
QUARANTINE_RESOLUTION_EDGES ==
    [ACK |-> "POTENTIALLY_LIVE", PARTIAL_FILL |-> "PARTIALLY_CONSUMED",
     FULL_FILL |-> "POSITION_CONSUMED", REJECT |-> "RELEASE_PENDING_PROOF",
     CANCEL_ACK |-> "RELEASE_PENDING_PROOF", EXPIRED |-> "RELEASE_PENDING_PROOF"]

RELEASABLE_KNOWLEDGE == {ResultKnowledge[k] : k \in TERMINAL_RESULT_KINDS}

DISCARDABLE_CAPACITY == {"COMMITTED_UNBOUND", "ATTEMPT_BOUND"}

Attempts == [proposal : Proposals, permit : Permits, ref : Refs]

AttemptScope(a) == ScopeOf[a.proposal]

\* The magnitudes a fill may carry: something filled, a remainder of zero
\* exactly for a full fill.
Fill == [filled : 1..MaxQuantity, remaining : 0..MaxQuantity]

\* Payloads the shape validator accepts.  The record is also the signature
\* duplicates are recognised by.
EgressResultPayload ==
    {p \in [attempt : Attempts, kind : EgressResultKind,
            fill : Fill \cup {None}, witness : Witnesses] :
        /\ p.kind \in FillKinds <=> p.fill # None
        /\ p.kind \in FillKinds =>
              (p.kind = "PARTIAL_FILL" <=> p.fill.remaining > 0)}

ProvisionalReservation ==
    [capacity : CapacityState, knowledge : EgressKnowledge,
     proposal : Proposals, attempt : Attempts \cup {None},
     fill : Fill \cup {None}, pre_quarantine : CapacityState \cup {None}]

Flow == [proposal : Proposals, ref : Refs, step : 2..15,
         permit : Permits \cup {None}, proof : Proposals \cup {None}]

ASSUME NoneIsNew ==
    /\ None \notin ProvisionalReservation
    /\ None \notin Flow
    /\ None \notin Attempts
    /\ None \notin Fill
    /\ None \notin CapacityState
    /\ None \notin Permits
    /\ None \notin Refs

-----------------------------------------------------------------------------
(* ProvisionalReservationLedger *)

outstanding(s) ==
    IF reservations[s] # None /\ reservations[s].capacity # "RELEASED"
      THEN reservations[s]
      ELSE None

outstanding_count(s) == IF outstanding(s) = None THEN 0 ELSE 1

admits_new_exposure(s) == outstanding_count(s) < MaxUnresolved

\* _store does not raise: the attempt was never released in this scope, and
\* the capacity does not revive unless the scope reopens or a quarantine is
\* being resolved.
StoreAccepts(s, new, resolving) ==
    /\ new.attempt # None => new.attempt \notin released[s]
    /\ \/ reservations[s] = None
       \/ reservations[s].capacity = "RELEASED"
       \/ PROJECTION_RANK[new.capacity] >= PROJECTION_RANK[reservations[s].capacity]
       \/ resolving /\ reservations[s].capacity = "QUARANTINED_UNKNOWN"

\* Mutant: an increase of the filled quantity is all that is asked.
QuantityRegressedFilledOnly(current, p) ==
    /\ p.kind \in FillKinds
    /\ current.fill # None
    /\ p.fill.filled < current.fill.filled

quantity_regressed(current, p) ==
    /\ p.kind \in FillKinds
    /\ current.fill # None
    /\ \/ p.fill.filled < current.fill.filled
       \/ p.fill.remaining > current.fill.remaining
       \/ p.fill.filled + p.fill.remaining
            # current.fill.filled + current.fill.remaining

resolving_quarantine(current, p) ==
    /\ current.capacity = "QUARANTINED_UNKNOWN"
    /\ p.kind \in DOMAIN QUARANTINE_RESOLUTION_EDGES

\* Mutant: the table entry is taken as the destination (no floor).
ResolveWithoutFloor(current, p) ==
    IF resolving_quarantine(current, p)
      THEN QUARANTINE_RESOLUTION_EDGES[p.kind]
      ELSE IF p.kind = "ACK" THEN current.capacity ELSE ResultCapacity[p.kind]

\* The capacity a result leads to: out of quarantine no lower than what was
\* held before it; an ACK otherwise leaves the capacity where it is.
resolve_capacity_target(current, p) ==
    IF resolving_quarantine(current, p)
      THEN LET target == QUARANTINE_RESOLUTION_EDGES[p.kind]
               floor  == current.pre_quarantine
           IN  IF floor # None /\ PROJECTION_RANK[floor] > PROJECTION_RANK[target]
                 THEN floor ELSE target
      ELSE IF p.kind = "ACK" THEN current.capacity ELSE ResultCapacity[p.kind]

\* Mutant: the rank check is left to _store.
NeverNonMonotonic(current, p) == FALSE

non_monotonic(current, p) ==
    /\ ~resolving_quarantine(current, p)
    /\ PROJECTION_RANK[resolve_capacity_target(current, p)]
         < PROJECTION_RANK[current.capacity]

\* The capacity held just before quarantine is noted on entry, kept while
\* quarantined and cleared on resolution.
pre_quarantine_floor_update(current, capacity, resolving) ==
    CASE capacity = "QUARANTINED_UNKNOWN"
           /\ current.capacity # "QUARANTINED_UNKNOWN" -> current.capacity
      [] capacity # "QUARANTINED_UNKNOWN" /\ resolving -> None
      [] OTHER -> current.pre_quarantine

\* The six dispositions of apply_egress_result, in the order it decides them.
disposition(p) ==
    LET s == AttemptScope(p.attempt)
        current == outstanding(s)
    IN  CASE current = None                   -> "ORPHAN_NO_RESERVATION"
          [] current # None /\ current.attempt # p.attempt
                                              -> "MISMATCHED_ATTEMPT"
          [] OTHER ->
             IF p \in signatures[s]                   THEN "DUPLICATE"
             ELSE IF non_monotonic(current, p)        THEN "NON_MONOTONIC_PROJECTION"
             ELSE IF quantity_regressed(current, p)   THEN "QUANTITY_REGRESSION"
             ELSE "APPLIED"

\* The reservation after an applied result.
AfterResult(current, p) ==
    LET target == resolve_capacity_target(current, p)
    IN  [current EXCEPT
          !.knowledge = ResultKnowledge[p.kind],
          !.capacity = target,
          !.pre_quarantine =
              IF p.kind = "ACK" /\ ~resolving_quarantine(current, p)
                THEN @
                ELSE pre_quarantine_floor_update(
                         current, target, resolving_quarantine(current, p)),
          !.fill = IF p.kind \in FillKinds THEN p.fill ELSE @]

-----------------------------------------------------------------------------
(* The commitment flow of one decision tick *)

LEDGER_VERIFICATION == 8
ATOMIC_COMMIT == 9
ORDER_CONFORMANCE_PROOF == 11
ATTEMPT_REQUEST == 12
SEND_HANDOFF == 15

\* Steps 2-11, 13 and 14 run an injected stage.
StageSteps == (2..14) \ {ATTEMPT_REQUEST}

FlowScope == ScopeOf[flow.proposal]

FlowAttempt ==
    [proposal |-> flow.proposal, permit |-> flow.permit, ref |-> flow.ref]

ordering_admission(r) ==
    CASE last = None              -> "MONOTONE"
      [] last # None /\ r < last  -> "REVERSED"
      [] last # None /\ r = last  -> "AMBIGUOUS"
      [] OTHER                    -> "MONOTONE"

Init ==
    /\ last = None
    /\ flow = None
    /\ reservations = [s \in Scopes |-> None]
    /\ signatures = [s \in Scopes |-> {}]
    /\ released = [s \in Scopes |-> {}]
    /\ sent = {}

\* handle: an event that precedes the last consumed one is refused (recorded,
\* nothing changes); any other moves the coordinate before it is dispatched.
Consume(r) ==
    /\ flow = None
    /\ ordering_admission(r) # "REVERSED"
    /\ last' = r

\* A tick whose pipeline emits a proposal starts the flow; step 1 is realised.
DecisionTick(p, r) ==
    /\ Consume(r)
    /\ flow' = [proposal |-> p, ref |-> r, step |-> 2,
                permit |-> None, proof |-> None]
    /\ UNCHANGED <<reservations, signatures, released, sent>>

\* A tick refused by the coordinator preconditions, a key with no strategy, a
\* pipeline without a proposal, a corporate action: the coordinate advances.
EventWithoutFlow(r) ==
    /\ Consume(r)
    /\ UNCHANGED <<flow, reservations, signatures, released, sent>>

\* A stage is missing, raises, answers nothing or for another step, denies or
\* does not know; step 8 finds the scope held; no transmit is injected.
FlowHalts ==
    /\ flow # None
    /\ flow.step \in StageSteps \cup {SEND_HANDOFF}
    /\ flow' = None
    /\ UNCHANGED <<last, reservations, signatures, released, sent>>

\* An admitting verdict of a stage with no effect on the ledger.  Step 8 asks
\* first that the scope admits a new exposure; step 11 may bind its digest.
StageAdmits ==
    /\ flow # None
    /\ flow.step \in StageSteps \ {ATOMIC_COMMIT}
    /\ flow.step = LEDGER_VERIFICATION => admits_new_exposure(FlowScope)
    /\ \E digest \in {flow.proposal, None} :
          flow' = [flow EXCEPT !.step = @ + 1,
                     !.proof = IF flow.step = ORDER_CONFORMANCE_PROOF
                                 THEN digest ELSE @]
    /\ UNCHANGED <<last, reservations, signatures, released, sent>>

\* The records commit_unbound, bind_attempt and mark_potentially_live store.
commit_unbound(p) ==
    [capacity |-> "COMMITTED_UNBOUND", knowledge |-> "NOT_SENT", proposal |-> p,
     attempt |-> None, fill |-> None, pre_quarantine |-> None]

bind_attempt(current, a) ==
    [current EXCEPT !.capacity = "ATTEMPT_BOUND", !.attempt = a]

mark_potentially_live(current) ==
    [current EXCEPT !.capacity = "POTENTIALLY_LIVE",
                    !.knowledge = "SENT_UNCONFIRMED"]

\* Step 9: the stage admits and commit_unbound occupies the scope, or raises
\* and the flow stops.
AtomicCommit(permit) ==
    /\ flow # None
    /\ flow.step = ATOMIC_COMMIT
    /\ LET new == commit_unbound(flow.proposal)
       IN  IF admits_new_exposure(FlowScope) /\ StoreAccepts(FlowScope, new, FALSE)
             THEN /\ reservations' = [reservations EXCEPT ![FlowScope] = new]
                  /\ flow' = [flow EXCEPT !.step = @ + 1, !.permit = permit]
             ELSE /\ flow' = None
                  /\ UNCHANGED reservations
    /\ UNCHANGED <<last, signatures, released, sent>>

\* Step 12: the attempt is built from the permit and the proof and bound to
\* the reservation.  A missing binding halts the flow; a refused bind_attempt
\* raises out of it.  Either way the reservation stays as step 9 left it.
AttemptRequest ==
    /\ flow # None
    /\ flow.step = ATTEMPT_REQUEST
    /\ LET new == bind_attempt(outstanding(FlowScope), FlowAttempt)
       IN  IF /\ flow.permit # None
              /\ flow.proof # None
              /\ outstanding(FlowScope) # None
              /\ StoreAccepts(FlowScope, new, FALSE)
             THEN /\ reservations' = [reservations EXCEPT ![FlowScope] = new]
                  /\ flow' = [flow EXCEPT !.step = @ + 1]
             ELSE /\ flow' = None
                  /\ UNCHANGED reservations
    /\ UNCHANGED <<last, signatures, released, sent>>

\* Mutant: the flow is not ended after the hand-off.
TransmitAndGoOn ==
    /\ flow # None
    /\ flow.step = SEND_HANDOFF
    /\ LET new == mark_potentially_live(outstanding(FlowScope))
       IN  /\ outstanding(FlowScope) # None
           /\ StoreAccepts(FlowScope, new, FALSE)
           /\ reservations' = [reservations EXCEPT ![FlowScope] = new]
    /\ sent' = sent \cup {FlowAttempt}
    /\ flow' = [flow EXCEPT !.step = @ + 1]
    /\ UNCHANGED <<last, signatures, released>>

\* The hand-off: the projection becomes POTENTIALLY_LIVE before the call and
\* stays so whether transmit returns or raises.
Transmit ==
    /\ flow # None
    /\ flow.step = SEND_HANDOFF
    /\ LET new == mark_potentially_live(outstanding(FlowScope))
       IN  /\ outstanding(FlowScope) # None
           /\ StoreAccepts(FlowScope, new, FALSE)
           /\ reservations' = [reservations EXCEPT ![FlowScope] = new]
    /\ sent' = sent \cup {FlowAttempt}
    /\ flow' = None
    /\ UNCHANGED <<last, signatures, released>>

-----------------------------------------------------------------------------
(* Results, releases and discards *)

\* An egress result, for any attempt handed off so far and in any order: late,
\* duplicated and contradictory ones included.  Only an APPLIED one changes
\* the ledger; the others are recorded as unmatched.
EgressResult(p, r) ==
    /\ Consume(r)
    /\ p.attempt \in sent
    /\ LET s == AttemptScope(p.attempt)
           new == AfterResult(outstanding(s), p)
       IN  IF /\ disposition(p) = "APPLIED"
              /\ StoreAccepts(s, new, resolving_quarantine(outstanding(s), p))
             THEN /\ Cardinality(signatures[s]) < MaxApplied
                  /\ reservations' = [reservations EXCEPT ![s] = new]
                  /\ signatures' = [signatures EXCEPT ![s] = @ \cup {p}]
             ELSE UNCHANGED <<reservations, signatures>>
    /\ UNCHANGED <<flow, released, sent>>

\* Mutant: any knowledge may be released.
ReleaseUnsettled(a) ==
    LET s == AttemptScope(a)
    IN  /\ flow = None
        /\ reservations[s] # None
        /\ reservations[s].attempt = a
        /\ reservations[s].capacity # "RELEASED"
        /\ reservations' = [reservations EXCEPT ![s].capacity = "RELEASED"]
        /\ released' = [released EXCEPT ![s] = @ \cup {a}]
        /\ UNCHANGED <<last, flow, signatures, sent>>

\* release: a finality proof token for the attempt the scope holds, whose
\* knowledge is settled.  Every other token is answered False.
release(a) ==
    LET s == AttemptScope(a)
        new == [reservations[s] EXCEPT !.capacity = "RELEASED"]
    IN  /\ flow = None
        /\ reservations[s] # None
        /\ reservations[s].attempt = a
        /\ reservations[s].capacity # "RELEASED"
        /\ reservations[s].knowledge \in RELEASABLE_KNOWLEDGE
        /\ StoreAccepts(s, new, FALSE)
        /\ reservations' = [reservations EXCEPT ![s] = new]
        /\ released' = [released EXCEPT ![s] = @ \cup {a}]
        /\ UNCHANGED <<last, flow, signatures, sent>>

\* Mutant: neither the knowledge nor the capacity is looked at.
DiscardWithoutGates(p) ==
    LET s == ScopeOf[p]
    IN  /\ flow = None
        /\ reservations[s] # None
        /\ reservations[s].proposal = p
        /\ reservations' = [reservations EXCEPT ![s] = None]
        /\ UNCHANGED <<last, flow, signatures, released, sent>>

\* discard_unsent: a reservation that was never handed off is removed.
discard_unsent(p) ==
    LET s == ScopeOf[p]
    IN  /\ flow = None
        /\ reservations[s] # None
        /\ reservations[s].proposal = p
        /\ reservations[s].knowledge = "NOT_SENT"
        /\ reservations[s].capacity \in DISCARDABLE_CAPACITY
        /\ ~\E x \in signatures[s] : x.attempt = reservations[s].attempt
        /\ reservations' = [reservations EXCEPT ![s] = None]
        /\ UNCHANGED <<last, flow, signatures, released, sent>>

Next ==
    \/ \E p \in Proposals, r \in Refs : DecisionTick(p, r)
    \/ \E r \in Refs : EventWithoutFlow(r)
    \/ FlowHalts
    \/ StageAdmits
    \/ \E permit \in Permits \cup {None} : AtomicCommit(permit)
    \/ AttemptRequest
    \/ Transmit
    \/ \E p \in EgressResultPayload, r \in Refs : EgressResult(p, r)
    \/ \E a \in Attempts : release(a)
    \/ \E p \in Proposals : discard_unsent(p)

Spec == Init /\ [][Next]_vars
=============================================================================
