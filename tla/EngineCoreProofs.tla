-------------------------- MODULE EngineCoreProofs --------------------------
(***************************************************************************)
(* Proofs about the engine core, for every set of scopes and proposals and *)
(* every value of the bounds.                                              *)
(***************************************************************************)
EXTENDS EngineCoreProps, TLAPS

-----------------------------------------------------------------------------
(* The inductive invariant *)

\* A running flow finds its scope as its own earlier steps left it: committed
\* without an attempt up to step 12, bound to the flow's attempt after it.
FlowInv ==
    flow # None =>
        LET v == reservations[FlowScope]
        IN  /\ flow.step \in 10..12 =>
                 /\ v # None
                 /\ v.capacity = "COMMITTED_UNBOUND"
                 /\ v.proposal = flow.proposal
            /\ flow.step > 12 =>
                 /\ flow.permit # None
                 /\ v # None
                 /\ v.capacity = "ATTEMPT_BOUND"
                 /\ v.attempt = FlowAttempt

\* A reservation belongs to its scope, its attempt to its proposal.
Ownership(s) ==
    LET v == reservations[s]
    IN  v # None =>
          /\ ScopeOf[v.proposal] = s
          /\ v.attempt # None => v.attempt.proposal = v.proposal

\* What each part of the capacity order says of the attempt.
StageOfLife(s) ==
    LET v == reservations[s]
    IN  v # None =>
          /\ v.capacity = "COMMITTED_UNBOUND" => v.attempt = None
          /\ v.capacity = "ATTEMPT_BOUND" => v.attempt # None /\ v.attempt \notin sent
          /\ MayBeLive(v.capacity) => v.attempt # None /\ v.attempt \in sent
          /\ v.knowledge = "NOT_SENT" <=> ~MayBeLive(v.capacity)
          /\ v.capacity = "RELEASED" <=> v.attempt \in released[s]
          /\ ~MayBeLive(v.capacity) => v.fill = None

Quarantine(s) ==
    LET v == reservations[s]
    IN  v # None =>
          /\ v.capacity = "QUARANTINED_UNKNOWN" <=> v.knowledge = "UNKNOWN"
          /\ v.capacity = "QUARANTINED_UNKNOWN" <=> v.pre_quarantine # None
          /\ v.pre_quarantine # None =>
               /\ MayBeLive(v.pre_quarantine)
               /\ v.pre_quarantine \notin {"QUARANTINED_UNKNOWN", "RELEASED"}

\* Settled knowledge comes from a terminal result for this very attempt.
Provenance(s) ==
    LET v == reservations[s]
    IN  v # None /\ v.knowledge \in RELEASABLE_KNOWLEDGE =>
          \E x \in signatures[s] :
              x.attempt = v.attempt /\ x.kind \in TERMINAL_RESULT_KINDS

\* Results are only ever applied to attempts that were sent, in their scope.
SignatureInv(s) ==
    \A x \in signatures[s] : x.attempt \in sent /\ AttemptScope(x.attempt) = s

ScopeInv(s) ==
    Ownership(s) /\ StageOfLife(s) /\ Quarantine(s) /\ Provenance(s) /\ SignatureInv(s)

IInv == TypeOK /\ FlowInv /\ SentAttemptIsHeld /\ \A s \in Scopes : ScopeInv(s)

-----------------------------------------------------------------------------
(* The vocabulary *)

\* The capacity order, value by value.
LEMMA RankFacts ==
    /\ CapacityState = {"COMMITTED_UNBOUND", "ATTEMPT_BOUND", "POTENTIALLY_LIVE",
                        "PARTIALLY_CONSUMED", "POSITION_CONSUMED",
                        "RELEASE_PENDING_PROOF", "QUARANTINED_UNKNOWN", "RELEASED"}
    /\ PROJECTION_RANK["COMMITTED_UNBOUND"] = 0
    /\ PROJECTION_RANK["ATTEMPT_BOUND"] = 1
    /\ PROJECTION_RANK["POTENTIALLY_LIVE"] = 2
    /\ PROJECTION_RANK["PARTIALLY_CONSUMED"] = 3
    /\ PROJECTION_RANK["POSITION_CONSUMED"] = 4
    /\ PROJECTION_RANK["RELEASE_PENDING_PROOF"] = 5
    /\ PROJECTION_RANK["QUARANTINED_UNKNOWN"] = 6
    /\ PROJECTION_RANK["RELEASED"] = 7
BY DEF CapacityState, PROJECTION_RANK

\* A capacity may be live exactly from POTENTIALLY_LIVE on.
LEMMA LiveFacts ==
    ASSUME NEW c \in CapacityState
    PROVE  MayBeLive(c) <=> c \notin {"COMMITTED_UNBOUND", "ATTEMPT_BOUND"}
BY RankFacts, SMT DEF MayBeLive

\* The tables of the egress results, value by value.
LEMMA ResultFacts ==
    /\ EgressResultKind = {"ACK", "FULL_FILL", "PARTIAL_FILL", "REJECT", "UNKNOWN",
                           "TIMEOUT", "CANCEL_ACK", "EXPIRED"}
    /\ ResultKnowledge["ACK"] = "ACKNOWLEDGED"
    /\ ResultKnowledge["FULL_FILL"] = "FILLED"
    /\ ResultKnowledge["PARTIAL_FILL"] = "PARTIALLY_FILLED"
    /\ ResultKnowledge["REJECT"] = "REJECTED"
    /\ ResultKnowledge["UNKNOWN"] = "UNKNOWN"
    /\ ResultKnowledge["TIMEOUT"] = "UNKNOWN"
    /\ ResultKnowledge["CANCEL_ACK"] = "CANCEL_ACKNOWLEDGED"
    /\ ResultKnowledge["EXPIRED"] = "EXPIRED"
    /\ ResultCapacity["FULL_FILL"] = "POSITION_CONSUMED"
    /\ ResultCapacity["PARTIAL_FILL"] = "PARTIALLY_CONSUMED"
    /\ ResultCapacity["REJECT"] = "RELEASE_PENDING_PROOF"
    /\ ResultCapacity["UNKNOWN"] = "QUARANTINED_UNKNOWN"
    /\ ResultCapacity["TIMEOUT"] = "QUARANTINED_UNKNOWN"
    /\ ResultCapacity["CANCEL_ACK"] = "RELEASE_PENDING_PROOF"
    /\ ResultCapacity["EXPIRED"] = "RELEASE_PENDING_PROOF"
BY DEF EgressResultKind, ResultKnowledge, ResultCapacity

\* What the results resolve a quarantined reservation to.
LEMMA EdgeFacts ==
    /\ DOMAIN QUARANTINE_RESOLUTION_EDGES
          = {"ACK", "PARTIAL_FILL", "FULL_FILL", "REJECT", "CANCEL_ACK", "EXPIRED"}
    /\ QUARANTINE_RESOLUTION_EDGES["ACK"] = "POTENTIALLY_LIVE"
    /\ QUARANTINE_RESOLUTION_EDGES["PARTIAL_FILL"] = "PARTIALLY_CONSUMED"
    /\ QUARANTINE_RESOLUTION_EDGES["FULL_FILL"] = "POSITION_CONSUMED"
    /\ QUARANTINE_RESOLUTION_EDGES["REJECT"] = "RELEASE_PENDING_PROOF"
    /\ QUARANTINE_RESOLUTION_EDGES["CANCEL_ACK"] = "RELEASE_PENDING_PROOF"
    /\ QUARANTINE_RESOLUTION_EDGES["EXPIRED"] = "RELEASE_PENDING_PROOF"
BY DEF QUARANTINE_RESOLUTION_EDGES

\* The knowledge of exactly the terminal results can be released.
LEMMA ReleasableFacts ==
    /\ RELEASABLE_KNOWLEDGE
          = {"FILLED", "REJECTED", "CANCEL_ACKNOWLEDGED", "EXPIRED"}
    /\ \A k \in EgressResultKind :
          ResultKnowledge[k] \in RELEASABLE_KNOWLEDGE <=> k \in TERMINAL_RESULT_KINDS
<1>1. RELEASABLE_KNOWLEDGE = {"FILLED", "REJECTED", "CANCEL_ACKNOWLEDGED", "EXPIRED"}
  BY ResultFacts DEF RELEASABLE_KNOWLEDGE, TERMINAL_RESULT_KINDS
<1>2. QED
  BY <1>1, ResultFacts DEF TERMINAL_RESULT_KINDS

\* Where a result leads a reservation that may be live: to another capacity
\* that may be live, quarantine exactly when nothing definite is known.
LEMMA TargetFacts ==
    ASSUME NEW v \in ProvisionalReservation, NEW p \in EgressResultPayload,
           MayBeLive(v.capacity), v.capacity # "RELEASED",
           v.capacity = "QUARANTINED_UNKNOWN" <=> v.pre_quarantine # None,
           v.pre_quarantine # None =>
               /\ MayBeLive(v.pre_quarantine)
               /\ v.pre_quarantine \notin {"QUARANTINED_UNKNOWN", "RELEASED"}
    PROVE  LET t == resolve_capacity_target(v, p)
           IN  /\ t \in CapacityState
               /\ t # "RELEASED"
               /\ MayBeLive(t)
               /\ t = "QUARANTINED_UNKNOWN" <=> ResultKnowledge[p.kind] = "UNKNOWN"
               /\ resolving_quarantine(v, p) => t # "QUARANTINED_UNKNOWN"
<1>1. /\ v.capacity \in CapacityState
      /\ v.pre_quarantine \in CapacityState \cup {None}
      /\ p.kind \in EgressResultKind
  BY DEF ProvisionalReservation, EgressResultPayload
<1>2. \A c \in CapacityState : MayBeLive(c) <=> c \notin {"COMMITTED_UNBOUND", "ATTEMPT_BOUND"}
  BY LiveFacts
<1>3. CASE resolving_quarantine(v, p)
  BY <1>1, <1>2, <1>3, RankFacts, ResultFacts, EdgeFacts
     DEF resolve_capacity_target, resolving_quarantine
<1>4. CASE ~resolving_quarantine(v, p)
  BY <1>1, <1>2, <1>4, RankFacts, ResultFacts, EdgeFacts
     DEF resolve_capacity_target, resolving_quarantine
<1>5. QED
  BY <1>3, <1>4

\* The records the ledger stores, field by field.
LEMMA BindFacts ==
    ASSUME NEW v \in ProvisionalReservation, NEW a \in Attempts
    PROVE  LET new == bind_attempt(v, a)
           IN  /\ new \in ProvisionalReservation
               /\ new # None
               /\ new.capacity = "ATTEMPT_BOUND"
               /\ new.attempt = a
               /\ new.knowledge = v.knowledge
               /\ new.proposal = v.proposal
               /\ new.fill = v.fill
               /\ new.pre_quarantine = v.pre_quarantine
BY RankFacts, NoneIsNew DEF bind_attempt, ProvisionalReservation

\* A reservation that was handed off: potentially live, not confirmed.
LEMMA MarkFacts ==
    ASSUME NEW v \in ProvisionalReservation
    PROVE  LET new == mark_potentially_live(v)
           IN  /\ new \in ProvisionalReservation
               /\ new # None
               /\ new.capacity = "POTENTIALLY_LIVE"
               /\ new.knowledge = "SENT_UNCONFIRMED"
               /\ new.attempt = v.attempt
               /\ new.proposal = v.proposal
               /\ new.fill = v.fill
               /\ new.pre_quarantine = v.pre_quarantine
BY RankFacts, NoneIsNew DEF mark_potentially_live, ProvisionalReservation, EgressKnowledge

\* A released reservation keeps all but its capacity.
LEMMA ReleaseFacts ==
    ASSUME NEW v \in ProvisionalReservation
    PROVE  LET new == [v EXCEPT !.capacity = "RELEASED"]
           IN  /\ new \in ProvisionalReservation
               /\ new # None
               /\ new.capacity = "RELEASED"
               /\ new.knowledge = v.knowledge
               /\ new.attempt = v.attempt
               /\ new.proposal = v.proposal
               /\ new.fill = v.fill
               /\ new.pre_quarantine = v.pre_quarantine
BY RankFacts, NoneIsNew DEF ProvisionalReservation

\* A reservation a result can be applied to.
Receptive(v) ==
    /\ v \in ProvisionalReservation
    /\ MayBeLive(v.capacity)
    /\ v.capacity # "RELEASED"
    /\ v.capacity = "QUARANTINED_UNKNOWN" <=> v.pre_quarantine # None
    /\ v.pre_quarantine # None =>
         /\ MayBeLive(v.pre_quarantine)
         /\ v.pre_quarantine \notin {"QUARANTINED_UNKNOWN", "RELEASED"}

\* The reservation after a result is again one a result can be applied to; the
\* floor is there exactly in quarantine.
LEMMA AfterResultFacts ==
    ASSUME NEW v, Receptive(v), NEW p \in EgressResultPayload
    PROVE  LET new == AfterResult(v, p)
           IN  /\ new # None
               /\ Receptive(new)
               /\ new.capacity = resolve_capacity_target(v, p)
               /\ new.knowledge = ResultKnowledge[p.kind]
               /\ new.attempt = v.attempt
               /\ new.proposal = v.proposal
               /\ new.fill = IF p.kind \in FillKinds THEN p.fill ELSE v.fill
               /\ v.capacity = "QUARANTINED_UNKNOWN" /\ new.capacity = "QUARANTINED_UNKNOWN"
                    => new.pre_quarantine = v.pre_quarantine
               /\ v.capacity # "QUARANTINED_UNKNOWN" /\ new.capacity = "QUARANTINED_UNKNOWN"
                    => new.pre_quarantine = v.capacity
<1> DEFINE t == resolve_capacity_target(v, p)
           f == IF p.kind = "ACK" /\ ~resolving_quarantine(v, p)
                  THEN v.pre_quarantine
                  ELSE pre_quarantine_floor_update(v, t, resolving_quarantine(v, p))
           fill == IF p.kind \in FillKinds THEN p.fill ELSE v.fill
           new == [capacity |-> t, knowledge |-> ResultKnowledge[p.kind],
                   proposal |-> v.proposal, attempt |-> v.attempt,
                   fill |-> fill, pre_quarantine |-> f]
<1>1. /\ v \in ProvisionalReservation
      /\ v.capacity \in CapacityState
      /\ v.pre_quarantine \in CapacityState \cup {None}
      /\ p.kind \in EgressResultKind
      /\ fill \in Fill \cup {None}
  BY DEF Receptive, ProvisionalReservation, EgressResultPayload
<1>2. /\ t \in CapacityState
      /\ t # "RELEASED"
      /\ MayBeLive(t)
      /\ t = "QUARANTINED_UNKNOWN" <=> ResultKnowledge[p.kind] = "UNKNOWN"
      /\ resolving_quarantine(v, p) => t # "QUARANTINED_UNKNOWN"
  BY TargetFacts DEF Receptive
<1>3. ResultKnowledge[p.kind] \in EgressKnowledge
  BY <1>1, ResultFacts DEF EgressKnowledge
<1>4. /\ f \in CapacityState \cup {None}
      /\ t = "QUARANTINED_UNKNOWN" <=> f # None
      /\ f # None => MayBeLive(f) /\ f \notin {"QUARANTINED_UNKNOWN", "RELEASED"}
      /\ v.capacity = "QUARANTINED_UNKNOWN" /\ t = "QUARANTINED_UNKNOWN"
           => f = v.pre_quarantine
      /\ v.capacity # "QUARANTINED_UNKNOWN" /\ t = "QUARANTINED_UNKNOWN"
           => f = v.capacity
  <2>1. CASE p.kind = "ACK" /\ ~resolving_quarantine(v, p)
    <3>1. v.capacity # "QUARANTINED_UNKNOWN" /\ t = v.capacity
      BY <2>1, EdgeFacts DEF resolving_quarantine, resolve_capacity_target
    <3>2. QED
      BY <2>1, <3>1, <1>1 DEF Receptive
  <2>2. CASE ~(p.kind = "ACK" /\ ~resolving_quarantine(v, p))
    <3> DEFINE rq == resolving_quarantine(v, p)
    <3>1. f = pre_quarantine_floor_update(v, t, rq)
      BY <2>2
    <3>2. CASE t = "QUARANTINED_UNKNOWN" /\ v.capacity # "QUARANTINED_UNKNOWN"
      <4>1. f = v.capacity
        BY <3>1, <3>2 DEF pre_quarantine_floor_update
      <4>2. QED
        BY <4>1, <3>2, <1>1, NoneIsNew DEF Receptive
    <3>3. CASE t = "QUARANTINED_UNKNOWN" /\ v.capacity = "QUARANTINED_UNKNOWN"
      <4>1. f = v.pre_quarantine
        BY <3>1, <3>3 DEF pre_quarantine_floor_update
      <4>2. QED
        BY <4>1, <3>3, <1>1 DEF Receptive
    <3>4. CASE t # "QUARANTINED_UNKNOWN" /\ rq
      <4>1. f = None
        BY <3>1, <3>4 DEF pre_quarantine_floor_update
      <4>2. QED
        BY <4>1, <3>4
    <3>5. CASE t # "QUARANTINED_UNKNOWN" /\ ~rq
      <4>1. f = v.pre_quarantine
        BY <3>1, <3>5 DEF pre_quarantine_floor_update
      <4>2. v.capacity # "QUARANTINED_UNKNOWN"
        BY <3>5, <1>1, <1>2, EdgeFacts, ResultFacts DEF resolving_quarantine
      <4>3. QED
        BY <4>1, <4>2, <3>5, <1>1 DEF Receptive
    <3>6. QED
      BY <3>2, <3>3, <3>4, <3>5
  <2>3. QED
    BY <2>1, <2>2
<1>5. AfterResult(v, p) = new
  <2>1. AfterResult(v, p)
          = [v EXCEPT !.knowledge = ResultKnowledge[p.kind], !.capacity = t,
                      !.pre_quarantine = f, !.fill = fill]
    BY DEF AfterResult
  <2> HIDE DEF t, f, fill
  <2>2. QED
    BY <1>1, <2>1 DEF ProvisionalReservation
<1> HIDE DEF t, f, fill
<1>6. new \in ProvisionalReservation
  BY <1>1, <1>2, <1>3, <1>4 DEF ProvisionalReservation
<1>7. Receptive(new)
  BY <1>2, <1>4, <1>6 DEF Receptive
<1>8. QED
  BY <1>2, <1>4, <1>5, <1>6, <1>7, NoneIsNew DEF t, fill

-----------------------------------------------------------------------------
(* The invariant is inductive *)

USE ScopeOfType, BoundsAreNaturals, NoneIsNew

\* The core starts in the invariant.
LEMMA InitInv == Init => IInv
<1> SUFFICES ASSUME Init PROVE IInv
  OBVIOUS
<1>1. TypeOK
  BY DEF Init, TypeOK
<1>2. FlowInv /\ SentAttemptIsHeld
  BY DEF Init, FlowInv, SentAttemptIsHeld
<1>3. \A s \in Scopes : ScopeInv(s)
  BY DEF Init, ScopeInv, Ownership, StageOfLife, Quarantine, Provenance, SignatureInv
<1>4. QED
  BY <1>1, <1>2, <1>3 DEF IInv

\* The parts that speak of the ledger alone are kept by a step that leaves it.
LEMMA LedgerUnchanged ==
    ASSUME IInv, UNCHANGED <<reservations, signatures, released, sent>>
    PROVE  SentAttemptIsHeld' /\ (\A s \in Scopes : ScopeInv(s)')
<1>1. SentAttemptIsHeld'
  BY DEF IInv, SentAttemptIsHeld, AttemptScope, MayBeLive
<1>2. \A s \in Scopes : ScopeInv(s)'
  BY DEF IInv, ScopeInv, Ownership, StageOfLife, Quarantine, Provenance, SignatureInv,
         AttemptScope, MayBeLive
<1>3. QED
  BY <1>1, <1>2

\* Steps of the flow, and events, that do not touch the ledger.
LEMMA LedgerlessSteps ==
    ASSUME IInv,
           \/ \E p \in Proposals, r \in Refs : DecisionTick(p, r)
           \/ \E r \in Refs : EventWithoutFlow(r)
           \/ FlowHalts
           \/ StageAdmits
           \/ UNCHANGED vars
    PROVE  IInv'
<1>1. UNCHANGED <<reservations, signatures, released, sent>>
  BY DEF DecisionTick, EventWithoutFlow, FlowHalts, StageAdmits, vars
<1>2. TypeOK' /\ FlowInv'
  <2>1. CASE \E p \in Proposals, r \in Refs : DecisionTick(p, r)
    BY <2>1, <1>1 DEF DecisionTick, Consume, IInv, TypeOK, FlowInv, Flow
  <2>2. CASE \E r \in Refs : EventWithoutFlow(r)
    BY <2>2, <1>1 DEF EventWithoutFlow, Consume, IInv, TypeOK, FlowInv
  <2>3. CASE FlowHalts
    BY <2>3, <1>1 DEF FlowHalts, IInv, TypeOK, FlowInv
  <2>4. CASE StageAdmits
    <3>1. /\ flow # None /\ flow \in Flow
          /\ flow.step \in StageSteps \ {ATOMIC_COMMIT}
          /\ last' = last
      BY <2>4 DEF StageAdmits, IInv, TypeOK
    <3>2. PICK d \in Proposals \cup {None} :
                flow' = [flow EXCEPT !.step = @ + 1, !.proof = d]
      BY <2>4, <3>1 DEF StageAdmits, Flow
    <3>3. /\ flow' \in Flow
          /\ flow'.step = flow.step + 1
          /\ flow'.proposal = flow.proposal
          /\ flow'.permit = flow.permit
          /\ flow'.ref = flow.ref
      <4>1. flow.step \in 2..14 /\ flow.step + 1 \in 2..15
        BY <3>1 DEF StageSteps
      <4>2. flow' \in Flow
        BY <3>1, <3>2, <4>1 DEF Flow
      <4>3. QED
        BY <3>1, <3>2, <4>1, <4>2 DEF Flow
    <3>4. TypeOK'
      BY <1>1, <3>1, <3>3 DEF IInv, TypeOK
    <3>5. flow.step \in (10..11) \cup (13..14) \/ flow'.step < 10
      BY <3>1, <3>3 DEF StageSteps, ATTEMPT_REQUEST, ATOMIC_COMMIT, Flow
    <3>6. FlowInv'
      BY <1>1, <3>1, <3>3, <3>5 DEF IInv, FlowInv, FlowScope, FlowAttempt, Flow
    <3>7. QED
      BY <3>4, <3>6
  <2>5. CASE UNCHANGED vars
    BY <2>5 DEF vars, IInv, TypeOK, FlowInv, FlowScope, FlowAttempt
  <2>6. QED
    BY <2>1, <2>2, <2>3, <2>4, <2>5
<1>3. QED
  BY <1>1, <1>2, LedgerUnchanged DEF IInv

\* A scope the step does not work on keeps its invariant.
LEMMA OtherScope ==
    ASSUME IInv, NEW s \in Scopes, NEW t \in Scopes, t # s,
           reservations'[t] = reservations[t],
           signatures'[t] = signatures[t],
           released'[t] = released[t],
           sent \subseteq sent',
           \A a \in sent' \ sent : AttemptScope(a) = s
    PROVE  ScopeInv(t)'
<1>1. ScopeInv(t)
  BY DEF IInv
<1>2. Ownership(t)' /\ Quarantine(t)' /\ Provenance(t)' /\ SignatureInv(t)'
  BY <1>1 DEF ScopeInv, Ownership, Quarantine, Provenance, SignatureInv, AttemptScope,
              MayBeLive
<1>3. StageOfLife(t)'
  <2>1. reservations[t] # None /\ reservations[t].attempt # None
          => AttemptScope(reservations[t].attempt) = t
    BY <1>1 DEF ScopeInv, Ownership, AttemptScope
  <2>2. QED
    BY <1>1, <2>1 DEF ScopeInv, StageOfLife, MayBeLive
<1>4. QED
  BY <1>2, <1>3 DEF ScopeInv

\* What the type invariant says of a scope's reservation and of the flow.
LEMMA ScopeTypes ==
    ASSUME IInv, NEW s \in Scopes
    PROVE  /\ reservations[s] # None =>
                /\ reservations[s] \in ProvisionalReservation
                /\ reservations[s].capacity \in CapacityState
                /\ MayBeLive(reservations[s].capacity)
                     <=> reservations[s].capacity \notin {"COMMITTED_UNBOUND", "ATTEMPT_BOUND"}
           /\ ScopeInv(s)
BY LiveFacts DEF IInv, TypeOK, ProvisionalReservation

\* What the types say of a flow that is under way.
LEMMA FlowTypes ==
    ASSUME IInv, flow # None
    PROVE  /\ flow \in Flow
           /\ flow.proposal \in Proposals
           /\ FlowScope \in Scopes
           /\ flow.permit # None =>
                /\ FlowAttempt \in Attempts
                /\ FlowAttempt # None
                /\ FlowAttempt.proposal = flow.proposal
                /\ AttemptScope(FlowAttempt) = FlowScope
BY DEF IInv, TypeOK, Flow, FlowScope, FlowAttempt, Attempts, AttemptScope

\* Step 9 overwrites nothing that was sent and not released.
LEMMA AtomicCommitStep ==
    ASSUME IInv, NEW k \in Permits \cup {None}, AtomicCommit(k)
    PROVE  IInv'
<1> DEFINE new == commit_unbound(flow.proposal)
<1>0. PICK s \in Scopes : s = FlowScope
  BY FlowTypes DEF AtomicCommit
<1>1. /\ flow # None /\ flow.step = 9 /\ flow \in Flow
      /\ flow.proposal \in Proposals
      /\ UNCHANGED <<last, signatures, released, sent>>
  BY FlowTypes DEF AtomicCommit, ATOMIC_COMMIT
<1>2. CASE flow' = None /\ UNCHANGED reservations
  <2>1. TypeOK' /\ FlowInv'
    BY <1>1, <1>2 DEF IInv, TypeOK, FlowInv
  <2>2. QED
    BY <1>1, <1>2, <2>1, LedgerUnchanged DEF IInv
<1>3. CASE /\ StoreAccepts(s, new, FALSE)
           /\ reservations' = [reservations EXCEPT ![s] = new]
           /\ flow' = [flow EXCEPT !.step = @ + 1, !.permit = k]
  <2>1. /\ new \in ProvisionalReservation
        /\ new # None
        /\ new.capacity = "COMMITTED_UNBOUND"
        /\ new.knowledge = "NOT_SENT"
        /\ new.proposal = flow.proposal
        /\ new.attempt = None
        /\ new.fill = None
        /\ new.pre_quarantine = None
    BY <1>1, RankFacts DEF commit_unbound, ProvisionalReservation, EgressKnowledge
  <2>2. /\ flow' \in Flow
        /\ flow'.step = 10
        /\ flow'.proposal = flow.proposal
    <3>1. flow.step + 1 = 10 /\ 10 \in 2..15
      BY <1>1
    <3>2. flow' = [proposal |-> flow.proposal, ref |-> flow.ref, step |-> 10,
                   permit |-> k, proof |-> flow.proof]
      BY <1>1, <1>3, <3>1 DEF Flow
    <3>3. QED
      BY <1>1, <3>1, <3>2 DEF Flow
  <2>3. reservations'[s] = new /\ \A t \in Scopes \ {s} : reservations'[t] = reservations[t]
    BY <1>1, <1>3 DEF IInv, TypeOK
  <2>4. TypeOK'
    BY <1>1, <1>3, <2>1, <2>2 DEF IInv, TypeOK
  <2>5. FlowInv'
    BY <1>0, <1>1, <2>1, <2>2, <2>3 DEF FlowInv, FlowScope
  <2>6. reservations[s] = None \/ reservations[s].capacity \in {"RELEASED", "COMMITTED_UNBOUND"}
    BY <1>1, <1>3, <2>1, RankFacts, ScopeTypes DEF StoreAccepts
  <2>7. SentAttemptIsHeld'
    <3> SUFFICES ASSUME NEW a \in sent,
                        a \notin released[AttemptScope(a)]
                 PROVE  /\ AttemptScope(a) # s
                        /\ AttemptScope(a) \in Scopes
      BY <1>1, <2>3 DEF IInv, SentAttemptIsHeld, MayBeLive, AttemptScope
    <3>1. AttemptScope(a) \in Scopes
      BY DEF IInv, TypeOK, Attempts, AttemptScope
    <3>2. QED
      BY <2>6, <3>1, ScopeTypes DEF IInv, SentAttemptIsHeld
  <2>8. ScopeInv(s)'
    <3>1. None \notin released[s]
      BY <1>1 DEF IInv, TypeOK
    <3>2. ~MayBeLive(new.capacity)
      BY <2>1, LiveFacts DEF ProvisionalReservation
    <3>3. new.knowledge \notin RELEASABLE_KNOWLEDGE
      BY <2>1, ReleasableFacts
    <3>4. SignatureInv(s)
      BY <1>1 DEF IInv, ScopeInv
    <3>5. Ownership(s)'
      BY <1>0, <2>1, <2>3 DEF Ownership, FlowScope
    <3>6. StageOfLife(s)'
      BY <1>1, <2>1, <2>3, <3>1, <3>2 DEF StageOfLife, MayBeLive
    <3>7. Quarantine(s)'
      BY <2>1, <2>3 DEF Quarantine
    <3>8. Provenance(s)' /\ SignatureInv(s)'
      BY <1>1, <2>3, <3>3, <3>4 DEF Provenance, SignatureInv, AttemptScope
    <3>9. QED
      BY <3>5, <3>6, <3>7, <3>8 DEF ScopeInv
  <2>9. \A t \in Scopes \ {s} : ScopeInv(t)'
    BY <1>1, <2>3, OtherScope
  <2>10. QED
    BY <2>4, <2>5, <2>7, <2>8, <2>9 DEF IInv
<1>4. QED
  BY <1>0, <1>2, <1>3 DEF AtomicCommit

\* Step 12 binds an attempt that was never sent: had it been, it would either
\* be released, which _store refuses, or be what the scope holds.
LEMMA AttemptRequestStep ==
    ASSUME IInv, AttemptRequest
    PROVE  IInv'
<1> DEFINE new == bind_attempt(outstanding(FlowScope), FlowAttempt)
<1>0. PICK s \in Scopes : s = FlowScope
  BY FlowTypes DEF AttemptRequest
<1>1. /\ flow # None /\ flow.step = 12 /\ flow \in Flow
      /\ flow.proposal \in Proposals
      /\ UNCHANGED <<last, signatures, released, sent>>
  BY FlowTypes DEF AttemptRequest, ATTEMPT_REQUEST
<1>2. CASE flow' = None /\ UNCHANGED reservations
  <2>1. TypeOK' /\ FlowInv'
    BY <1>1, <1>2 DEF IInv, TypeOK, FlowInv
  <2>2. QED
    BY <1>1, <1>2, <2>1, LedgerUnchanged DEF IInv
<1>3. CASE /\ flow.permit # None
           /\ StoreAccepts(s, new, FALSE)
           /\ reservations' = [reservations EXCEPT ![s] = new]
           /\ flow' = [flow EXCEPT !.step = @ + 1]
  <2>0. /\ FlowAttempt \in Attempts
        /\ FlowAttempt # None
        /\ FlowAttempt.proposal = flow.proposal
        /\ AttemptScope(FlowAttempt) = s
    BY <1>0, <1>1, <1>3, FlowTypes
  <2>1. /\ reservations[s] # None
        /\ reservations[s].capacity = "COMMITTED_UNBOUND"
        /\ reservations[s].proposal = flow.proposal
        /\ reservations[s] \in ProvisionalReservation
        /\ outstanding(s) = reservations[s]
    BY <1>0, <1>1, ScopeTypes DEF IInv, FlowInv, outstanding
  <2>2. /\ new \in ProvisionalReservation
        /\ new # None
        /\ new.capacity = "ATTEMPT_BOUND"
        /\ new.knowledge = reservations[s].knowledge
        /\ new.proposal = flow.proposal
        /\ new.attempt = FlowAttempt
        /\ new.fill = reservations[s].fill
        /\ new.pre_quarantine = reservations[s].pre_quarantine
    <3>1. new = bind_attempt(reservations[s], FlowAttempt)
      BY <1>0, <2>1
    <3>2. QED
      BY <2>0, <2>1, <3>1, BindFacts
  <2>3. /\ flow' \in Flow
        /\ flow'.step = 13
        /\ flow'.proposal = flow.proposal
        /\ flow'.permit = flow.permit
        /\ flow'.ref = flow.ref
    <3>1. flow.step + 1 = 13
      BY <1>1
    <3>2. flow' \in Flow
      BY <1>1, <1>3, <3>1 DEF Flow
    <3>3. QED
      BY <1>1, <1>3, <3>1, <3>2 DEF Flow
  <2>4. reservations'[s] = new /\ \A t \in Scopes \ {s} : reservations'[t] = reservations[t]
    BY <1>1, <1>3 DEF IInv, TypeOK
  <2>5. TypeOK'
    BY <1>1, <1>3, <2>2, <2>3 DEF IInv, TypeOK
  <2>6. FlowInv'
    BY <1>0, <1>1, <1>3, <2>2, <2>3, <2>4 DEF FlowInv, FlowScope, FlowAttempt
  <2>7. ~MayBeLive(reservations[s].capacity) /\ ~MayBeLive(new.capacity)
    BY <2>1, <2>2, LiveFacts, RankFacts
  <2>8. FlowAttempt \notin released[s] /\ FlowAttempt \notin sent
    BY <1>3, <2>0, <2>2, <2>7 DEF StoreAccepts, IInv, SentAttemptIsHeld
  <2>9. SentAttemptIsHeld'
    <3> SUFFICES ASSUME NEW a \in sent,
                        a \notin released[AttemptScope(a)]
                 PROVE  /\ AttemptScope(a) # s
                        /\ AttemptScope(a) \in Scopes
      BY <1>1, <2>4 DEF IInv, SentAttemptIsHeld, MayBeLive, AttemptScope
    <3>1. AttemptScope(a) \in Scopes
      BY DEF IInv, TypeOK, Attempts, AttemptScope
    <3>2. QED
      BY <2>7, <3>1 DEF IInv, SentAttemptIsHeld
  <2>10. ScopeInv(s)'
    <3>1. ScopeInv(s)
      BY DEF IInv
    <3>2. Ownership(s)'
      BY <1>0, <2>0, <2>2, <2>4 DEF Ownership, FlowScope
    <3>3. StageOfLife(s)'
      BY <1>1, <2>0, <2>1, <2>2, <2>4, <2>7, <2>8, <3>1 DEF ScopeInv, StageOfLife, MayBeLive
    <3>4. Quarantine(s)'
      BY <2>1, <2>2, <2>4, <3>1 DEF ScopeInv, Quarantine
    <3>5. new.knowledge = "NOT_SENT"
      BY <2>1, <2>2, <2>7, <3>1 DEF ScopeInv, StageOfLife
    <3>6. Provenance(s)' /\ SignatureInv(s)'
      BY <1>1, <2>4, <3>1, <3>5, ReleasableFacts
         DEF ScopeInv, Provenance, SignatureInv, AttemptScope
    <3>7. QED
      BY <3>2, <3>3, <3>4, <3>6 DEF ScopeInv
  <2>11. \A t \in Scopes \ {s} : ScopeInv(t)'
    BY <1>1, <2>4, OtherScope
  <2>12. QED
    BY <2>5, <2>6, <2>9, <2>10, <2>11 DEF IInv
<1>4. QED
  BY <1>0, <1>2, <1>3 DEF AttemptRequest

\* The hand-off: the attempt is new to the send boundary.
LEMMA TransmitStep ==
    ASSUME IInv, Transmit
    PROVE  IInv'
<1> DEFINE new == mark_potentially_live(outstanding(FlowScope))
<1>0. PICK s \in Scopes : s = FlowScope
  BY FlowTypes DEF Transmit
<1>1. /\ flow # None /\ flow.step = 15 /\ flow \in Flow
      /\ flow' = None
      /\ reservations' = [reservations EXCEPT ![s] = new]
      /\ sent' = sent \cup {FlowAttempt}
      /\ UNCHANGED <<last, signatures, released>>
  BY <1>0, FlowTypes DEF Transmit, SEND_HANDOFF
<1>2. /\ reservations[s] # None
      /\ reservations[s].capacity = "ATTEMPT_BOUND"
      /\ reservations[s].attempt = FlowAttempt
      /\ reservations[s] \in ProvisionalReservation
      /\ flow.permit # None
      /\ outstanding(s) = reservations[s]
      /\ ScopeInv(s)
  BY <1>0, <1>1, ScopeTypes DEF IInv, FlowInv, outstanding
<1>3. /\ FlowAttempt \in Attempts
      /\ FlowAttempt # None
      /\ AttemptScope(FlowAttempt) = s
  BY <1>0, <1>1, <1>2, FlowTypes
<1>4. /\ new \in ProvisionalReservation
      /\ new # None
      /\ new.capacity = "POTENTIALLY_LIVE"
      /\ new.knowledge = "SENT_UNCONFIRMED"
      /\ new.attempt = FlowAttempt
      /\ new.proposal = reservations[s].proposal
      /\ new.pre_quarantine = reservations[s].pre_quarantine
  BY <1>0, <1>2, MarkFacts
<1>5. reservations'[s] = new /\ \A t \in Scopes \ {s} : reservations'[t] = reservations[t]
  BY <1>1 DEF IInv, TypeOK
<1>6. MayBeLive(new.capacity) /\ FlowAttempt \notin sent /\ FlowAttempt \notin released[s]
  BY <1>2, <1>4, LiveFacts, RankFacts DEF ScopeInv, StageOfLife
<1>7. TypeOK' /\ FlowInv'
  BY <1>1, <1>3, <1>4 DEF IInv, TypeOK, FlowInv
<1>8. SentAttemptIsHeld'
  <2> SUFFICES ASSUME NEW a \in sent', a \notin released[AttemptScope(a)]'
               PROVE  LET t == AttemptScope(a)
                      IN  /\ reservations'[t] # None
                          /\ reservations'[t].attempt = a
                          /\ reservations'[t].capacity # "RELEASED"
                          /\ MayBeLive(reservations'[t].capacity)
    BY DEF SentAttemptIsHeld, AttemptScope, MayBeLive
  <2>1. CASE a = FlowAttempt
    BY <1>3, <1>4, <1>5, <1>6, <2>1
  <2>2. CASE a \in sent
    <3>1. AttemptScope(a) \in Scopes
      BY <2>2 DEF IInv, TypeOK, Attempts, AttemptScope
    <3>2. a \notin released[AttemptScope(a)]
      BY <1>1 DEF AttemptScope
    <3>3. AttemptScope(a) # s
      BY <1>2, <1>6, <2>2, <3>2 DEF IInv, SentAttemptIsHeld
    <3>4. QED
      BY <1>5, <2>2, <3>1, <3>2, <3>3 DEF IInv, SentAttemptIsHeld
  <2>3. QED
    BY <1>1, <2>1, <2>2
<1>9. ScopeInv(s)'
  <2>1. Ownership(s)'
    BY <1>2, <1>4, <1>5 DEF ScopeInv, Ownership
  <2>2. StageOfLife(s)'
    BY <1>1, <1>3, <1>4, <1>5, <1>6 DEF StageOfLife, MayBeLive
  <2>3. Quarantine(s)'
    BY <1>2, <1>4, <1>5 DEF ScopeInv, Quarantine
  <2>4. Provenance(s)' /\ SignatureInv(s)'
    BY <1>1, <1>2, <1>4, <1>5, ReleasableFacts
       DEF ScopeInv, Provenance, SignatureInv, AttemptScope
  <2>5. QED
    BY <2>1, <2>2, <2>3, <2>4 DEF ScopeInv
<1>10. \A t \in Scopes \ {s} : ScopeInv(t)'
  BY <1>1, <1>3, <1>5, OtherScope
<1>11. QED
  BY <1>7, <1>8, <1>9, <1>10 DEF IInv

\* The reservation a result is applied to is one a result can be applied to.
LEMMA AppliedFacts ==
    ASSUME IInv, NEW p \in EgressResultPayload, p.attempt \in sent,
           disposition(p) = "APPLIED"
    PROVE  LET s == AttemptScope(p.attempt)
               v == reservations[s]
           IN  /\ s \in Scopes
               /\ outstanding(s) = v
               /\ v # None
               /\ v.attempt = p.attempt
               /\ p.attempt \notin released[s]
               /\ Receptive(v)
               /\ ScopeInv(s)
               /\ ~non_monotonic(v, p)
               /\ ~quantity_regressed(v, p)
<1> DEFINE s == AttemptScope(p.attempt)
           v == reservations[s]
<1>1. s \in Scopes /\ p.attempt \in Attempts
  BY DEF IInv, TypeOK, Attempts, AttemptScope
<1>2. /\ outstanding(s) # None
      /\ outstanding(s).attempt = p.attempt
      /\ ~non_monotonic(outstanding(s), p)
      /\ ~quantity_regressed(outstanding(s), p)
  BY DEF disposition
<1>3. outstanding(s) = v /\ v # None /\ v.capacity # "RELEASED"
  BY <1>2 DEF outstanding
<1>4. ScopeInv(s) /\ v \in ProvisionalReservation
  BY <1>1, <1>3, ScopeTypes
<1>5. p.attempt \notin released[s]
  BY <1>2, <1>3, <1>4 DEF ScopeInv, StageOfLife
<1>6. MayBeLive(v.capacity)
  BY <1>5 DEF IInv, SentAttemptIsHeld
<1>7. Receptive(v)
  BY <1>3, <1>4, <1>6 DEF ScopeInv, Quarantine, Receptive
<1>8. QED
  BY <1>1, <1>2, <1>3, <1>4, <1>5, <1>7

\* An applied result moves the reservation of its own attempt and no other.
LEMMA EgressResultStep ==
    ASSUME IInv, NEW p \in EgressResultPayload, NEW r \in Refs, EgressResult(p, r)
    PROVE  IInv'
<1>1. /\ flow = None /\ flow' = None /\ last' = r
      /\ p.attempt \in sent
      /\ UNCHANGED <<released, sent>>
  BY DEF EgressResult, Consume
<1>2. CASE UNCHANGED <<reservations, signatures>>
  <2>1. TypeOK' /\ FlowInv'
    BY <1>1, <1>2 DEF IInv, TypeOK, FlowInv
  <2>2. QED
    BY <1>1, <1>2, <2>1, LedgerUnchanged DEF IInv
<1>3. CASE ~UNCHANGED <<reservations, signatures>>
  <2>0. PICK s : s = AttemptScope(p.attempt)
    OBVIOUS
  <2> DEFINE v == reservations[s]
             new == AfterResult(v, p)
  <2>1. disposition(p) = "APPLIED"
    BY <1>3 DEF EgressResult
  <2>2. /\ s \in Scopes
        /\ outstanding(s) = v
        /\ v # None
        /\ v.attempt = p.attempt
        /\ p.attempt \notin released[s]
        /\ Receptive(v)
        /\ ScopeInv(s)
    BY <1>1, <2>0, <2>1, AppliedFacts
  <2>3. /\ reservations' = [reservations EXCEPT ![s] = new]
        /\ signatures' = [signatures EXCEPT ![s] = @ \cup {p}]
    BY <1>3, <2>0, <2>2 DEF EgressResult
  <2>4. /\ new # None
        /\ Receptive(new)
        /\ new.capacity = resolve_capacity_target(v, p)
        /\ new.knowledge = ResultKnowledge[p.kind]
        /\ new.attempt = v.attempt
        /\ new.proposal = v.proposal
    BY <2>2, AfterResultFacts
  <2>5. /\ new.capacity = "QUARANTINED_UNKNOWN" <=> new.knowledge = "UNKNOWN"
        /\ p.kind \in EgressResultKind
    BY <2>2, <2>4, TargetFacts DEF Receptive, EgressResultPayload
  <2> HIDE DEF new
  <2>6. /\ reservations'[s] = new
        /\ signatures'[s] = signatures[s] \cup {p}
        /\ \A t \in Scopes \ {s} : /\ reservations'[t] = reservations[t]
                                    /\ signatures'[t] = signatures[t]
    BY <2>2, <2>3 DEF IInv, TypeOK
  <2>7. TypeOK' /\ FlowInv'
    BY <1>1, <2>2, <2>3, <2>4 DEF IInv, TypeOK, FlowInv, Receptive
  <2>8. SentAttemptIsHeld'
    <3> SUFFICES ASSUME NEW a \in sent, a \notin released[AttemptScope(a)]
                 PROVE  LET t == AttemptScope(a)
                        IN  /\ reservations'[t] # None
                            /\ reservations'[t].attempt = a
                            /\ reservations'[t].capacity # "RELEASED"
                            /\ MayBeLive(reservations'[t].capacity)
      BY <1>1 DEF SentAttemptIsHeld, AttemptScope, MayBeLive
    <3>1. AttemptScope(a) \in Scopes
      BY DEF IInv, TypeOK, Attempts, AttemptScope
    <3>2. CASE AttemptScope(a) = s
      <4>1. v.attempt = a
        BY <3>2 DEF IInv, SentAttemptIsHeld
      <4>2. QED
        BY <2>4, <2>6, <3>2, <4>1 DEF Receptive
    <3>3. CASE AttemptScope(a) # s
      BY <2>6, <3>1, <3>3 DEF IInv, SentAttemptIsHeld
    <3>4. QED
      BY <3>2, <3>3
  <2>9. ScopeInv(s)'
    <3>1. Ownership(s)'
      BY <2>2, <2>4, <2>6 DEF ScopeInv, Ownership
    <3>2. v.attempt # None /\ new.knowledge # "NOT_SENT"
      <4>1. p.attempt \in Attempts
        BY DEF EgressResultPayload
      <4>2. QED
        BY <2>2, <2>4, <2>5, <4>1, ResultFacts
    <3>3. new.capacity \in CapacityState
      BY <2>4 DEF Receptive, ProvisionalReservation
    <3>4. StageOfLife(s)'
      BY <1>1, <2>2, <2>4, <2>6, <3>2, <3>3, LiveFacts DEF StageOfLife, MayBeLive, Receptive
    <3>5. Quarantine(s)'
      BY <2>4, <2>5, <2>6 DEF Quarantine, Receptive, MayBeLive
    <3>6. Provenance(s)'
      BY <2>2, <2>4, <2>5, <2>6, ReleasableFacts DEF Provenance
    <3>7. SignatureInv(s)'
      BY <1>1, <2>0, <2>2, <2>6 DEF ScopeInv, SignatureInv, AttemptScope
    <3>8. QED
      BY <3>1, <3>4, <3>5, <3>6, <3>7 DEF ScopeInv
  <2>10. \A t \in Scopes \ {s} : ScopeInv(t)'
    BY <1>1, <2>2, <2>6, OtherScope
  <2>11. QED
    BY <2>7, <2>8, <2>9, <2>10 DEF IInv
<1>4. QED
  BY <1>2, <1>3

\* A finality token releases the attempt its scope holds.
LEMMA ReleaseStep ==
    ASSUME IInv, NEW a \in Attempts, release(a)
    PROVE  IInv'
<1>0. PICK s \in Scopes : s = AttemptScope(a)
  BY DEF AttemptScope, Attempts
<1> DEFINE v == reservations[s]
           new == [v EXCEPT !.capacity = "RELEASED"]
<1>1. /\ flow = None /\ v # None /\ v.attempt = a
      /\ v.knowledge \in RELEASABLE_KNOWLEDGE
      /\ reservations' = [reservations EXCEPT ![s] = new]
      /\ released' = [released EXCEPT ![s] = @ \cup {a}]
      /\ UNCHANGED <<last, flow, signatures, sent>>
  BY <1>0 DEF release
<1>2. ScopeInv(s) /\ v \in ProvisionalReservation
  BY <1>1, ScopeTypes
<1>3. /\ new \in ProvisionalReservation
      /\ new # None
      /\ new.capacity = "RELEASED"
      /\ new.knowledge = v.knowledge
      /\ new.attempt = a
      /\ new.proposal = v.proposal
      /\ new.fill = v.fill
      /\ new.pre_quarantine = v.pre_quarantine
  BY <1>1, <1>2, ReleaseFacts
<1> HIDE DEF new
<1>4. /\ reservations'[s] = new
      /\ released'[s] = released[s] \cup {a}
      /\ \A t \in Scopes \ {s} : /\ reservations'[t] = reservations[t]
                                  /\ released'[t] = released[t]
  BY <1>1 DEF IInv, TypeOK
<1>5. TypeOK' /\ FlowInv'
  BY <1>1, <1>3 DEF IInv, TypeOK, FlowInv
<1>6. a \in sent /\ MayBeLive(v.capacity) /\ MayBeLive(new.capacity)
  <2>1. v.knowledge # "NOT_SENT"
    BY <1>1, ReleasableFacts
  <2>2. QED
    BY <1>1, <1>2, <1>3, <2>1, LiveFacts, RankFacts DEF ScopeInv, StageOfLife
<1>7. SentAttemptIsHeld'
  <2> SUFFICES ASSUME NEW b \in sent, b \notin released'[AttemptScope(b)]
               PROVE  LET t == AttemptScope(b)
                      IN  /\ reservations'[t] # None
                          /\ reservations'[t].attempt = b
                          /\ reservations'[t].capacity # "RELEASED"
                          /\ MayBeLive(reservations'[t].capacity)
    BY <1>1 DEF SentAttemptIsHeld, AttemptScope, MayBeLive
  <2>1. AttemptScope(b) \in Scopes
    BY DEF IInv, TypeOK, Attempts, AttemptScope
  <2>2. AttemptScope(b) # s
    BY <1>0, <1>1, <1>4 DEF IInv, SentAttemptIsHeld
  <2>3. QED
    BY <1>4, <2>1, <2>2 DEF IInv, SentAttemptIsHeld
<1>8. ScopeInv(s)'
  <2>1. Ownership(s)'
    BY <1>1, <1>2, <1>3, <1>4 DEF ScopeInv, Ownership
  <2>2. StageOfLife(s)'
    BY <1>1, <1>2, <1>3, <1>4, <1>6 DEF ScopeInv, StageOfLife, MayBeLive
  <2>3. v.capacity # "QUARANTINED_UNKNOWN"
    BY <1>1, <1>2, ReleasableFacts DEF ScopeInv, Quarantine
  <2>4. Quarantine(s)'
    BY <1>2, <1>3, <1>4, <2>3 DEF ScopeInv, Quarantine
  <2>5. Provenance(s)' /\ SignatureInv(s)'
    BY <1>1, <1>2, <1>3, <1>4 DEF ScopeInv, Provenance, SignatureInv, AttemptScope
  <2>6. QED
    BY <2>1, <2>2, <2>4, <2>5 DEF ScopeInv
<1>9. \A t \in Scopes \ {s} : ScopeInv(t)'
  BY <1>1, <1>4, OtherScope
<1>10. QED
  BY <1>5, <1>7, <1>8, <1>9 DEF IInv

\* A discard removes what was never sent.
LEMMA DiscardStep ==
    ASSUME IInv, NEW p \in Proposals, discard_unsent(p)
    PROVE  IInv'
<1>0. PICK s \in Scopes : s = ScopeOf[p]
  OBVIOUS
<1>1. /\ flow = None /\ reservations[s] # None
      /\ reservations[s].knowledge = "NOT_SENT"
      /\ reservations' = [reservations EXCEPT ![s] = None]
      /\ UNCHANGED <<last, flow, signatures, released, sent>>
  BY <1>0 DEF discard_unsent
<1>2. ScopeInv(s) /\ ~MayBeLive(reservations[s].capacity)
  BY <1>1, ScopeTypes DEF ScopeInv, StageOfLife
<1>3. /\ reservations'[s] = None
      /\ \A t \in Scopes \ {s} : reservations'[t] = reservations[t]
  BY <1>1 DEF IInv, TypeOK
<1>4. TypeOK' /\ FlowInv'
  BY <1>1 DEF IInv, TypeOK, FlowInv
<1>5. SentAttemptIsHeld'
  <2> SUFFICES ASSUME NEW a \in sent, a \notin released[AttemptScope(a)]
               PROVE  /\ AttemptScope(a) # s
                      /\ AttemptScope(a) \in Scopes
    BY <1>1, <1>3 DEF IInv, SentAttemptIsHeld, MayBeLive, AttemptScope
  <2>1. AttemptScope(a) \in Scopes
    BY DEF IInv, TypeOK, Attempts, AttemptScope
  <2>2. QED
    BY <1>2, <2>1 DEF IInv, SentAttemptIsHeld
<1>6. ScopeInv(s)'
  BY <1>1, <1>2, <1>3
     DEF ScopeInv, Ownership, StageOfLife, Quarantine, Provenance, SignatureInv, AttemptScope
<1>7. \A t \in Scopes \ {s} : ScopeInv(t)'
  BY <1>1, <1>3, OtherScope
<1>8. QED
  BY <1>4, <1>5, <1>6, <1>7 DEF IInv

\* Every step of the core keeps the invariant.
LEMMA NextInv == IInv /\ [Next]_vars => IInv'
<1> SUFFICES ASSUME IInv, [Next]_vars PROVE IInv'
  OBVIOUS
<1>1. CASE \E p \in Proposals, r \in Refs : DecisionTick(p, r)
  BY <1>1, LedgerlessSteps
<1>2. CASE \E r \in Refs : EventWithoutFlow(r)
  BY <1>2, LedgerlessSteps
<1>3. CASE FlowHalts \/ StageAdmits \/ UNCHANGED vars
  BY <1>3, LedgerlessSteps
<1>4. CASE \E k \in Permits \cup {None} : AtomicCommit(k)
  BY <1>4, AtomicCommitStep
<1>5. CASE AttemptRequest
  BY <1>5, AttemptRequestStep
<1>6. CASE Transmit
  BY <1>6, TransmitStep
<1>7. CASE \E p \in EgressResultPayload, r \in Refs : EgressResult(p, r)
  BY <1>7, EgressResultStep
<1>8. CASE \E a \in Attempts : release(a)
  BY <1>8, ReleaseStep
<1>9. CASE \E p \in Proposals : discard_unsent(p)
  BY <1>9, DiscardStep
<1>10. QED
  BY <1>1, <1>2, <1>3, <1>4, <1>5, <1>6, <1>7, <1>8, <1>9 DEF Next

\* The invariant of the core holds in every state.
LEMMA Invariance == Spec => []IInv
<1>1. Init => IInv
  BY InitInv
<1>2. IInv /\ [Next]_vars => IInv'
  BY NextInv
<1>3. QED
  BY <1>1, <1>2, PTL DEF Spec

-----------------------------------------------------------------------------
(* Invariants *)

\* The core's variables keep their types.
THEOREM TypeCorrect == Spec => []TypeOK
<1>1. IInv => TypeOK
  BY DEF IInv
<1>2. QED
  BY <1>1, Invariance, PTL

\* At-most-one exposure: what was handed off and not released is still held.
THEOREM AtMostOneExposure == Spec => []SentAttemptIsHeld
<1>1. IInv => SentAttemptIsHeld
  BY DEF IInv
<1>2. QED
  BY <1>1, Invariance, PTL

\* Quarantine, ignorance and the remembered floor coincide.
THEOREM QuarantineExact == Spec => []QuarantineIsIgnorance
<1>1. IInv => QuarantineIsIgnorance
  BY DEF IInv, ScopeInv, Quarantine, QuarantineIsIgnorance
<1>2. QED
  BY <1>1, Invariance, PTL

\* Applying an egress result never raises out of the handler.
THEOREM ResultsNeverRaise == Spec => []ApplyNeverRaises
<1>1. IInv => ApplyNeverRaises
  <2> SUFFICES ASSUME IInv, NEW p \in EgressResultPayload,
                      p.attempt \in sent, disposition(p) = "APPLIED"
               PROVE  LET s == AttemptScope(p.attempt)
                      IN  StoreAccepts(s, AfterResult(outstanding(s), p),
                                       resolving_quarantine(outstanding(s), p))
    BY DEF ApplyNeverRaises
  <2> DEFINE s == AttemptScope(p.attempt)
             v == reservations[s]
             new == AfterResult(v, p)
  <2>1. /\ outstanding(s) = v
        /\ v # None
        /\ v.attempt = p.attempt
        /\ p.attempt \notin released[s]
        /\ Receptive(v)
        /\ ~non_monotonic(v, p)
    BY AppliedFacts
  <2>2. /\ new.attempt = p.attempt
        /\ new.capacity = resolve_capacity_target(v, p)
        /\ new.capacity \in CapacityState
        /\ v.capacity \in CapacityState
    BY <2>1, AfterResultFacts DEF Receptive, ProvisionalReservation
  <2>3. \/ resolving_quarantine(v, p) /\ v.capacity = "QUARANTINED_UNKNOWN"
        \/ PROJECTION_RANK[new.capacity] >= PROJECTION_RANK[v.capacity]
    BY <2>1, <2>2, RankFacts DEF non_monotonic, resolving_quarantine
  <2>4. QED
    BY <2>1, <2>2, <2>3 DEF StoreAccepts
<1>2. QED
  BY <1>1, Invariance, PTL

-----------------------------------------------------------------------------
(* Action properties *)

\* What one applied result does to the settlement and to the fills.
LEMMA ResultKeepsSettlement ==
    ASSUME NEW v, Receptive(v), NEW p \in EgressResultPayload, ~non_monotonic(v, p)
    PROVE  PROJECTION_RANK[Settled(AfterResult(v, p))] >= PROJECTION_RANK[Settled(v)]
<1> DEFINE new == AfterResult(v, p)
           t == resolve_capacity_target(v, p)
<1>1. /\ Receptive(new)
      /\ new.capacity = t
      /\ v.capacity = "QUARANTINED_UNKNOWN" /\ t = "QUARANTINED_UNKNOWN"
           => new.pre_quarantine = v.pre_quarantine
      /\ v.capacity # "QUARANTINED_UNKNOWN" /\ t = "QUARANTINED_UNKNOWN"
           => new.pre_quarantine = v.capacity
  BY AfterResultFacts
<1> HIDE DEF new, t
<1>2. /\ v.capacity \in CapacityState /\ t \in CapacityState /\ t # "RELEASED"
      /\ v.pre_quarantine \in CapacityState \cup {None}
      /\ v.capacity = "QUARANTINED_UNKNOWN" <=> v.pre_quarantine # None
      /\ p.kind \in EgressResultKind
  BY <1>1 DEF Receptive, ProvisionalReservation, EgressResultPayload
<1>3. CASE t = "QUARANTINED_UNKNOWN"
  BY <1>1, <1>2, <1>3, RankFacts DEF Settled, new
<1>4. CASE t # "QUARANTINED_UNKNOWN" /\ resolving_quarantine(v, p)
  <2>1. PROJECTION_RANK[t] >= PROJECTION_RANK[v.pre_quarantine]
    BY <1>2, <1>4, RankFacts, EdgeFacts DEF t, resolve_capacity_target, resolving_quarantine
  <2>2. QED
    BY <1>1, <1>4, <2>1 DEF Settled, resolving_quarantine, new
<1>5. CASE t # "QUARANTINED_UNKNOWN" /\ ~resolving_quarantine(v, p)
  <2>1. PROJECTION_RANK[t] >= PROJECTION_RANK[v.capacity]
    BY <1>2, <1>5, RankFacts DEF non_monotonic, t
  <2>2. v.capacity # "QUARANTINED_UNKNOWN"
    BY <1>2, <1>5, <2>1, RankFacts
  <2>3. QED
    BY <1>1, <1>5, <2>1, <2>2 DEF Settled, new
<1>6. QED
  BY <1>3, <1>4, <1>5

\* A result that does not regress keeps the total and never lowers the fills.
LEMMA ResultKeepsFills ==
    ASSUME NEW v, Receptive(v), NEW p \in EgressResultPayload, ~quantity_regressed(v, p),
           v.fill # None
    PROVE  LET now == AfterResult(v, p).fill
           IN  /\ now # None
               /\ now.filled >= v.fill.filled
               /\ now.filled + now.remaining = v.fill.filled + v.fill.remaining
<1>1. /\ AfterResult(v, p).fill = IF p.kind \in FillKinds THEN p.fill ELSE v.fill
      /\ v.fill \in Fill
      /\ p.kind \in FillKinds => p.fill # None /\ p.fill \in Fill
  BY AfterResultFacts DEF Receptive, ProvisionalReservation, EgressResultPayload
<1>2. QED
  BY <1>1 DEF Fill, quantity_regressed

\* The step that leaves an attempt in its scope: the hand-off, a result, a
\* release, or one that leaves the reservation as it is.
LEMMA SameAttemptSteps ==
    ASSUME IInv, [Next]_vars, NEW s \in Scopes, SameAttempt(s)
    PROVE  LET v == reservations[s]
               w == reservations'[s]
           IN  \/ w = v
               \/ v \in ProvisionalReservation /\ w = mark_potentially_live(v) /\ Transmit
                     /\ v.capacity = "ATTEMPT_BOUND"
               \/ \E p \in EgressResultPayload :
                     /\ Receptive(v) /\ ~non_monotonic(v, p) /\ ~quantity_regressed(v, p)
                     /\ w = AfterResult(v, p)
               \/ v \in ProvisionalReservation /\ w = [v EXCEPT !.capacity = "RELEASED"]
                     /\ v.knowledge \in RELEASABLE_KNOWLEDGE
<1> DEFINE v == reservations[s]
           w == reservations'[s]
<1>0. /\ v # None /\ v.attempt # None /\ w # None /\ v.attempt = w.attempt
      /\ v \in ProvisionalReservation /\ ScopeInv(s)
      /\ reservations \in [Scopes -> ProvisionalReservation \cup {None}]
  BY ScopeTypes DEF SameAttempt, IInv, TypeOK
<1>1. CASE UNCHANGED reservations
  BY <1>1
<1>2. CASE \E k \in Permits \cup {None} : AtomicCommit(k)
  <2>1. CASE UNCHANGED reservations
    BY <2>1, <1>1
  <2>2. CASE ~UNCHANGED reservations
    <3>1. reservations' = [reservations EXCEPT ![FlowScope] = commit_unbound(flow.proposal)]
      BY <1>2, <2>2 DEF AtomicCommit
    <3>2. commit_unbound(flow.proposal).attempt = None
      BY DEF commit_unbound
    <3>3. QED
      BY <1>0, <3>1, <3>2
  <2>3. QED
    BY <2>1, <2>2
<1>3. CASE AttemptRequest
  <2>1. CASE UNCHANGED reservations
    BY <2>1, <1>1
  <2>2. CASE ~UNCHANGED reservations
    <3>1. /\ flow # None /\ flow.step = 12
          /\ reservations' = [reservations EXCEPT
                ![FlowScope] = bind_attempt(outstanding(FlowScope), FlowAttempt)]
      BY <1>3, <2>2 DEF AttemptRequest, ATTEMPT_REQUEST
    <3>2. s = FlowScope => v.capacity = "COMMITTED_UNBOUND"
      BY <3>1 DEF IInv, FlowInv
    <3>3. s # FlowScope
      BY <1>0, <3>2 DEF ScopeInv, StageOfLife
    <3>4. QED
      BY <1>0, <3>1, <3>3
  <2>3. QED
    BY <2>1, <2>2
<1>4. CASE Transmit
  <2>1. /\ flow # None /\ flow.step = 15
        /\ reservations' = [reservations EXCEPT
              ![FlowScope] = mark_potentially_live(outstanding(FlowScope))]
    BY <1>4 DEF Transmit, SEND_HANDOFF
  <2>2. s = FlowScope => v.capacity = "ATTEMPT_BOUND" /\ outstanding(s) = v
    BY <1>0, <2>1 DEF IInv, FlowInv, outstanding
  <2>3. QED
    BY <1>0, <1>4, <2>1, <2>2
<1>5. CASE \E p \in EgressResultPayload, r \in Refs : EgressResult(p, r)
  <2>1. PICK p \in EgressResultPayload, r \in Refs : EgressResult(p, r)
    BY <1>5
  <2>2. CASE UNCHANGED reservations
    BY <2>2, <1>1
  <2>3. CASE ~UNCHANGED reservations
    <3>1. /\ p.attempt \in sent /\ disposition(p) = "APPLIED"
          /\ reservations' = [reservations EXCEPT ![AttemptScope(p.attempt)]
                                = AfterResult(outstanding(AttemptScope(p.attempt)), p)]
      BY <2>1, <2>3 DEF EgressResult
    <3>2. CASE s = AttemptScope(p.attempt)
      <4>1. /\ outstanding(s) = v /\ Receptive(v)
            /\ ~non_monotonic(v, p) /\ ~quantity_regressed(v, p)
        BY <3>1, <3>2, AppliedFacts
      <4>2. w = AfterResult(v, p)
        BY <1>0, <3>1, <3>2, <4>1
      <4>3. QED
        BY <4>1, <4>2
    <3>3. CASE s # AttemptScope(p.attempt)
      BY <1>0, <3>1, <3>3
    <3>4. QED
      BY <3>2, <3>3
  <2>4. QED
    BY <2>2, <2>3
<1>6. CASE \E a \in Attempts : release(a)
  BY <1>0, <1>6 DEF release
<1>7. CASE \E p \in Proposals : discard_unsent(p)
  BY <1>0, <1>7 DEF discard_unsent
<1>8. QED
  BY <1>1, <1>2, <1>3, <1>4, <1>5, <1>6, <1>7
     DEF Next, vars, DecisionTick, EventWithoutFlow, FlowHalts, StageAdmits

\* For one attempt the proven capacity only advances.
THEOREM SettlementKept == Spec => SettlementNeverUnwound
<1>1. IInv /\ [Next]_vars =>
        [\A s \in Scopes :
           SameAttempt(s) => PROJECTION_RANK[Settled(reservations'[s])]
                               >= PROJECTION_RANK[Settled(reservations[s])]]_vars
  <2> SUFFICES ASSUME IInv, [Next]_vars, NEW s \in Scopes, SameAttempt(s)
               PROVE  PROJECTION_RANK[Settled(reservations'[s])]
                        >= PROJECTION_RANK[Settled(reservations[s])]
    OBVIOUS
  <2> DEFINE v == reservations[s]
             w == reservations'[s]
  <2>1. /\ v \in ProvisionalReservation /\ v.capacity \in CapacityState
        /\ v.capacity = "QUARANTINED_UNKNOWN" => v.pre_quarantine \in CapacityState
        /\ v.capacity # "QUARANTINED_UNKNOWN" => v.pre_quarantine = None
    BY ScopeTypes DEF SameAttempt, ScopeInv, Quarantine, ProvisionalReservation
  <2>2. CASE w = v
    BY <2>1, <2>2, RankFacts DEF Settled
  <2>3. CASE v.capacity = "ATTEMPT_BOUND" /\ w = mark_potentially_live(v)
    <3>1. w.capacity = "POTENTIALLY_LIVE"
      BY <2>1, <2>3, MarkFacts
    <3>2. QED
      BY <2>3, <3>1, RankFacts DEF Settled
  <2>4. CASE \E p \in EgressResultPayload :
                /\ Receptive(v) /\ ~non_monotonic(v, p)
                /\ w = AfterResult(v, p)
    BY <2>4, ResultKeepsSettlement
  <2>5. CASE w = [v EXCEPT !.capacity = "RELEASED"]
    <3>1. w.capacity = "RELEASED"
      BY <2>1, <2>5, ReleaseFacts
    <3>2. QED
      BY <2>1, <3>1, RankFacts DEF Settled
  <2>6. QED
    BY <2>2, <2>3, <2>4, <2>5, SameAttemptSteps
<1>2. QED
  BY <1>1, Invariance, PTL DEF Spec, SettlementNeverUnwound

\* For one attempt fills only accumulate, within a constant authorized total.
THEOREM FillsKept == Spec => FillsOnlyAccumulate
<1>1. IInv /\ [Next]_vars =>
        [\A s \in Scopes :
           SameAttempt(s) /\ reservations[s].fill # None =>
              LET was == reservations[s].fill
                  now == reservations'[s].fill
              IN  /\ now # None
                  /\ now.filled >= was.filled
                  /\ now.filled + now.remaining = was.filled + was.remaining]_vars
  <2> SUFFICES ASSUME IInv, [Next]_vars, NEW s \in Scopes, SameAttempt(s),
                      reservations[s].fill # None
               PROVE  LET was == reservations[s].fill
                          now == reservations'[s].fill
                      IN  /\ now # None
                          /\ now.filled >= was.filled
                          /\ now.filled + now.remaining = was.filled + was.remaining
    OBVIOUS
  <2> DEFINE v == reservations[s]
             w == reservations'[s]
  <2>1. v \in ProvisionalReservation /\ v.fill \in Fill
    BY ScopeTypes DEF SameAttempt, ProvisionalReservation
  <2>2. CASE w.fill = v.fill
    BY <2>1, <2>2 DEF Fill
  <2>3. CASE \E p \in EgressResultPayload :
                /\ Receptive(v) /\ ~quantity_regressed(v, p)
                /\ w = AfterResult(v, p)
    BY <2>3, ResultKeepsFills
  <2>4. CASE w = mark_potentially_live(v)
    BY <2>1, <2>2, <2>4, MarkFacts
  <2>5. CASE w = [v EXCEPT !.capacity = "RELEASED"]
    BY <2>1, <2>2, <2>5, ReleaseFacts
  <2>6. QED
    BY <2>2, <2>3, <2>4, <2>5, SameAttemptSteps
<1>2. QED
  BY <1>1, Invariance, PTL DEF Spec, FillsOnlyAccumulate

-----------------------------------------------------------------------------
(* Refinement *)

\* The slot a scope shows when it holds nothing that may be live.
LEMMA SlotFacts ==
    ASSUME IInv, NEW s \in Scopes
    PROVE  /\ (reservations[s] = None \/ reservations[s].capacity
                  \in {"COMMITTED_UNBOUND", "ATTEMPT_BOUND", "RELEASED"})
                => LiveAttempt[s] = None
           /\ (reservations[s] # None /\ reservations[s].capacity
                  \notin {"COMMITTED_UNBOUND", "ATTEMPT_BOUND", "RELEASED"})
                => LiveAttempt[s] = reservations[s].attempt
BY ScopeTypes DEF LiveAttempt

\* A step that changes nothing the slot shows is a stutter of the slot.
LEMMA SlotStutter ==
    ASSUME LiveAttempt' = LiveAttempt, sent' = sent, signatures' = signatures
    PROVE  UNCHANGED Slot!slotVars
BY DEF Slot!slotVars, SettledAttempts, AttemptScope

\* One scope changed: the slots of the others are what they were.
LEMMA SlotFrame ==
    ASSUME NEW s \in Scopes, NEW c,
           \A t \in Scopes \ {s} : reservations'[t] = reservations[t],
           LiveAttempt'[s] = c
    PROVE  LiveAttempt' = [LiveAttempt EXCEPT ![s] = c]
<1>1. \A t \in Scopes \ {s} : LiveAttempt'[t] = LiveAttempt[t]
  BY DEF LiveAttempt, MayBeLive
<1>2. /\ DOMAIN LiveAttempt = Scopes /\ DOMAIN LiveAttempt' = Scopes
      /\ LiveAttempt = [t \in Scopes |-> LiveAttempt[t]]
      /\ LiveAttempt' = [t \in Scopes |-> LiveAttempt'[t]]
  BY DEF LiveAttempt
<1>3. QED
  BY <1>1, <1>2

\* A step that empties or keeps empty the slot of one scope.
LEMMA SlotStaysEmpty ==
    ASSUME IInv, NEW s \in Scopes,
           reservations[s] = None \/ reservations[s].capacity
              \in {"COMMITTED_UNBOUND", "ATTEMPT_BOUND", "RELEASED"},
           reservations'[s] = None \/ ~MayBeLive(reservations'[s].capacity),
           \A t \in Scopes \ {s} : reservations'[t] = reservations[t],
           sent' = sent, signatures' = signatures
    PROVE  UNCHANGED Slot!slotVars
<1>1. LiveAttempt[s] = None
  BY SlotFacts
<1>2. LiveAttempt'[s] = None
  BY DEF LiveAttempt, MayBeLive
<1>3. LiveAttempt' = [LiveAttempt EXCEPT ![s] = None]
  BY <1>2, SlotFrame
<1>4. LiveAttempt' = LiveAttempt
  BY <1>1, <1>3 DEF LiveAttempt
<1>5. QED
  BY <1>4, SlotStutter

\* Committing, binding and discarding leave the slot alone.
LEMMA UnsentStepsAreStutters ==
    ASSUME IInv,
           \/ \E k \in Permits \cup {None} : AtomicCommit(k)
           \/ AttemptRequest
           \/ \E p \in Proposals : discard_unsent(p),
           ~UNCHANGED reservations
    PROVE  UNCHANGED Slot!slotVars
<1>0. reservations \in [Scopes -> ProvisionalReservation \cup {None}]
  BY DEF IInv, TypeOK
<1>1. CASE \E k \in Permits \cup {None} : AtomicCommit(k)
  <2>0. PICK s \in Scopes : s = FlowScope
    BY <1>1, FlowTypes DEF AtomicCommit
  <2> DEFINE new == commit_unbound(flow.proposal)
  <2>1. /\ StoreAccepts(s, new, FALSE)
        /\ reservations' = [reservations EXCEPT ![s] = new]
        /\ sent' = sent /\ signatures' = signatures
    BY <1>1, <2>0 DEF AtomicCommit
  <2>2. new.capacity = "COMMITTED_UNBOUND"
    BY DEF commit_unbound
  <2> HIDE DEF new
  <2>3. reservations[s] = None \/ reservations[s].capacity \in {"RELEASED", "COMMITTED_UNBOUND"}
    BY <2>1, <2>2, RankFacts, ScopeTypes DEF StoreAccepts
  <2>4. ~MayBeLive(new.capacity)
    BY <2>2, LiveFacts, RankFacts
  <2>5. QED
    BY <1>0, <2>1, <2>3, <2>4, SlotStaysEmpty
<1>2. CASE AttemptRequest
  <2>0. PICK s \in Scopes : s = FlowScope
    BY <1>2, FlowTypes DEF AttemptRequest
  <2> DEFINE new == bind_attempt(outstanding(s), FlowAttempt)
  <2>1. /\ flow # None /\ flow.step = 12 /\ flow.permit # None
        /\ reservations' = [reservations EXCEPT ![s] = new]
        /\ sent' = sent /\ signatures' = signatures
    BY <1>2, <2>0 DEF AttemptRequest, ATTEMPT_REQUEST
  <2>2. /\ reservations[s].capacity = "COMMITTED_UNBOUND"
        /\ reservations[s] \in ProvisionalReservation
        /\ outstanding(s) = reservations[s]
    BY <2>0, <2>1, ScopeTypes DEF IInv, FlowInv, outstanding
  <2>3. new.capacity = "ATTEMPT_BOUND"
    BY <2>1, <2>2, FlowTypes, BindFacts
  <2>4. ~MayBeLive(new.capacity)
    BY <2>3, LiveFacts, RankFacts
  <2> HIDE DEF new
  <2>5. QED
    BY <1>0, <2>1, <2>2, <2>4, SlotStaysEmpty
<1>3. CASE \E p \in Proposals : discard_unsent(p)
  <2>0. PICK p \in Proposals : discard_unsent(p)
    BY <1>3
  <2>1. PICK s \in Scopes : s = ScopeOf[p]
    OBVIOUS
  <2>2. /\ reservations' = [reservations EXCEPT ![s] = None]
        /\ reservations[s].capacity \in DISCARDABLE_CAPACITY
        /\ sent' = sent /\ signatures' = signatures
    BY <2>0, <2>1 DEF discard_unsent
  <2>3. QED
    BY <1>0, <2>2, SlotStaysEmpty DEF DISCARDABLE_CAPACITY
<1>4. QED
  BY <1>1, <1>2, <1>3

\* The hand-off opens the slot.
LEMMA TransmitOpens ==
    ASSUME IInv, Transmit
    PROVE  \E s \in Scopes, a \in Attempts : Slot!Open(s, a)
<1>0. PICK s \in Scopes : s = FlowScope
  BY FlowTypes DEF Transmit
<1>1. PICK a : a = FlowAttempt
  OBVIOUS
<1> DEFINE new == mark_potentially_live(outstanding(s))
<1>2. /\ flow # None /\ flow.step = 15
      /\ reservations' = [reservations EXCEPT ![s] = new]
      /\ sent' = sent \cup {a}
      /\ signatures' = signatures
  BY <1>0, <1>1 DEF Transmit, SEND_HANDOFF
<1>3. /\ reservations[s] # None
      /\ reservations[s].capacity = "ATTEMPT_BOUND"
      /\ reservations[s].attempt = a
      /\ reservations[s] \in ProvisionalReservation
      /\ flow.permit # None
      /\ outstanding(s) = reservations[s]
      /\ ScopeInv(s)
  BY <1>0, <1>1, <1>2, ScopeTypes DEF IInv, FlowInv, outstanding
<1>4. a \in Attempts /\ a \notin sent /\ AttemptScope(a) = s
  BY <1>0, <1>1, <1>2, <1>3, FlowTypes DEF ScopeInv, StageOfLife
<1>5. /\ new # None /\ new.capacity = "POTENTIALLY_LIVE" /\ new.attempt = a
      /\ MayBeLive(new.capacity)
  BY <1>3, MarkFacts, LiveFacts, RankFacts
<1> HIDE DEF new
<1>6. /\ reservations'[s] = new
      /\ \A t \in Scopes \ {s} : reservations'[t] = reservations[t]
  BY <1>2 DEF IInv, TypeOK
<1>7. LiveAttempt[s] = None
  BY <1>3, SlotFacts
<1>8. LiveAttempt'[s] = a
  BY <1>5, <1>6 DEF LiveAttempt, MayBeLive
<1>9. LiveAttempt' = [LiveAttempt EXCEPT ![s] = a]
  BY <1>6, <1>8, SlotFrame
<1>10. SettledAttempts' = SettledAttempts
  <2>1. \A x \in signatures[s] : x.attempt # a
    BY <1>3, <1>4 DEF ScopeInv, SignatureInv
  <2>2. QED
    BY <1>2, <1>4, <2>1 DEF SettledAttempts, AttemptScope
<1>11. Slot!Open(s, a)
  BY <1>2, <1>4, <1>7, <1>9, <1>10 DEF Slot!Open
<1>12. QED
  BY <1>4, <1>11

\* An applied result settles the slot's attempt, or shows nothing.
LEMMA ResultSettles ==
    ASSUME IInv, NEW p \in EgressResultPayload, NEW r \in Refs, EgressResult(p, r),
           ~UNCHANGED <<reservations, signatures>>
    PROVE  (\E s \in Scopes : Slot!Settle(s)) \/ UNCHANGED Slot!slotVars
<1>0. PICK s : s = AttemptScope(p.attempt)
  OBVIOUS
<1> DEFINE v == reservations[s]
           new == AfterResult(v, p)
<1>1. disposition(p) = "APPLIED" /\ p.attempt \in sent /\ sent' = sent
  BY DEF EgressResult
<1>2. /\ s \in Scopes
      /\ outstanding(s) = v
      /\ v # None
      /\ v.attempt = p.attempt
      /\ Receptive(v)
  BY <1>0, <1>1, AppliedFacts
<1>3. /\ reservations' = [reservations EXCEPT ![s] = new]
      /\ signatures' = [signatures EXCEPT ![s] = @ \cup {p}]
  BY <1>0, <1>2 DEF EgressResult
<1>4. new # None /\ Receptive(new) /\ new.attempt = p.attempt
  BY <1>2, AfterResultFacts
<1> HIDE DEF new
<1>5. /\ reservations'[s] = new
      /\ signatures'[s] = signatures[s] \cup {p}
      /\ \A t \in Scopes \ {s} : /\ reservations'[t] = reservations[t]
                                  /\ signatures'[t] = signatures[t]
  BY <1>2, <1>3 DEF IInv, TypeOK
<1>6. LiveAttempt[s] = p.attempt /\ LiveAttempt'[s] = p.attempt
  BY <1>2, <1>4, <1>5 DEF LiveAttempt, Receptive, MayBeLive
<1>7. LiveAttempt' = LiveAttempt
  <2>1. LiveAttempt' = [LiveAttempt EXCEPT ![s] = p.attempt]
    BY <1>2, <1>5, <1>6, SlotFrame
  <2>2. QED
    BY <1>6, <2>1 DEF LiveAttempt
<1>8. \A a \in sent : AttemptScope(a) \in Scopes
  BY DEF IInv, TypeOK, Attempts, AttemptScope
<1>9. CASE p.kind \in TERMINAL_RESULT_KINDS
  <2>1. SettledAttempts' = SettledAttempts \cup {p.attempt}
    BY <1>0, <1>1, <1>5, <1>8, <1>9 DEF SettledAttempts, AttemptScope
  <2>2. p.attempt # None
    BY DEF EgressResultPayload
  <2>3. Slot!Settle(s)
    BY <1>1, <1>6, <1>7, <2>1, <2>2 DEF Slot!Settle
  <2>4. QED
    BY <1>2, <2>3
<1>10. CASE p.kind \notin TERMINAL_RESULT_KINDS
  <2>1. SettledAttempts' = SettledAttempts
    BY <1>0, <1>1, <1>5, <1>8, <1>10 DEF SettledAttempts, AttemptScope
  <2>2. QED
    BY <1>1, <1>7, <2>1 DEF Slot!slotVars
<1>11. QED
  BY <1>9, <1>10

\* A release closes the slot of a settled attempt.
LEMMA ReleaseCloses ==
    ASSUME IInv, NEW a \in Attempts, release(a)
    PROVE  \E s \in Scopes : Slot!Close(s)
<1>0. PICK s \in Scopes : s = AttemptScope(a)
  BY DEF AttemptScope, Attempts
<1> DEFINE v == reservations[s]
           new == [v EXCEPT !.capacity = "RELEASED"]
<1>1. /\ v # None /\ v.attempt = a /\ v.capacity # "RELEASED"
      /\ v.knowledge \in RELEASABLE_KNOWLEDGE
      /\ reservations' = [reservations EXCEPT ![s] = new]
      /\ sent' = sent /\ signatures' = signatures
  BY <1>0 DEF release
<1>2. /\ ScopeInv(s)
      /\ v \in ProvisionalReservation
      /\ v.capacity \in CapacityState
  BY <1>1, ScopeTypes
<1>3. new.capacity = "RELEASED"
  BY <1>2, ReleaseFacts
<1> HIDE DEF new
<1>4. /\ reservations'[s] = new
      /\ \A t \in Scopes \ {s} : reservations'[t] = reservations[t]
  BY <1>1 DEF IInv, TypeOK
<1>5. a \in sent /\ MayBeLive(v.capacity)
  <2>1. v.knowledge # "NOT_SENT"
    BY <1>1, ReleasableFacts
  <2>2. QED
    BY <1>1, <1>2, <2>1 DEF ScopeInv, StageOfLife
<1>6. LiveAttempt[s] = a /\ LiveAttempt'[s] = None
  BY <1>1, <1>3, <1>4, <1>5 DEF LiveAttempt, MayBeLive
<1>7. LiveAttempt' = [LiveAttempt EXCEPT ![s] = None]
  BY <1>4, <1>6, SlotFrame
<1>8. a \in SettledAttempts
  BY <1>0, <1>1, <1>2, <1>5 DEF ScopeInv, Provenance, SettledAttempts
<1>9. SettledAttempts' = SettledAttempts
  BY <1>1 DEF SettledAttempts, AttemptScope
<1>10. Slot!Close(s)
  BY <1>1, <1>6, <1>7, <1>8, <1>9 DEF Slot!Close
<1>11. QED
  BY <1>10

\* The engine core implements the exposure slot: every step of the core is a
\* step of the slot or leaves everything the slot shows unchanged.
THEOREM CoreImplementsSlot == Spec => ImplementsSlot
<1>1. Init => Slot!Init
  BY DEF Init, Slot!Init, LiveAttempt, SettledAttempts
<1>2. IInv /\ [Next]_vars => [Slot!Next]_(Slot!slotVars)
  <2> SUFFICES ASSUME IInv, [Next]_vars
               PROVE  Slot!Next \/ UNCHANGED Slot!slotVars
    OBVIOUS
  <2>1. CASE UNCHANGED <<reservations, signatures, sent>>
    <3>1. LiveAttempt' = LiveAttempt
      BY <2>1 DEF LiveAttempt, MayBeLive
    <3>2. QED
      BY <2>1, <3>1, SlotStutter
  <2>2. CASE \/ \E k \in Permits \cup {None} : AtomicCommit(k)
             \/ AttemptRequest
             \/ \E p \in Proposals : discard_unsent(p)
    <3>1. sent' = sent /\ signatures' = signatures
      BY <2>2 DEF AtomicCommit, AttemptRequest, discard_unsent
    <3>2. CASE UNCHANGED reservations
      BY <2>1, <3>1, <3>2
    <3>3. CASE ~UNCHANGED reservations
      BY <2>2, <3>3, UnsentStepsAreStutters
    <3>4. QED
      BY <3>2, <3>3
  <2>3. CASE Transmit
    BY <2>3, TransmitOpens DEF Slot!Next
  <2>4. CASE \E p \in EgressResultPayload, r \in Refs : EgressResult(p, r)
    <3>1. PICK p \in EgressResultPayload, r \in Refs : EgressResult(p, r)
      BY <2>4
    <3>2. CASE UNCHANGED <<reservations, signatures>>
      BY <2>1, <3>1, <3>2 DEF EgressResult
    <3>3. CASE ~UNCHANGED <<reservations, signatures>>
      BY <3>1, <3>3, ResultSettles DEF Slot!Next
    <3>4. QED
      BY <3>2, <3>3
  <2>5. CASE \E a \in Attempts : release(a)
    BY <2>5, ReleaseCloses DEF Slot!Next
  <2>6. QED
    BY <2>1, <2>2, <2>3, <2>4, <2>5
       DEF Next, vars, DecisionTick, EventWithoutFlow, FlowHalts, StageAdmits
<1>3. QED
  BY <1>1, <1>2, Invariance, PTL DEF Spec, ImplementsSlot, Slot!Spec
=============================================================================
