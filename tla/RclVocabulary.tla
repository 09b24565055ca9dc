--------------------------- MODULE RclVocabulary ---------------------------
(***************************************************************************)
(* The vocabulary of the Risk Capacity Ledger (RCL) and the pure           *)
(* predicates that decide whether a capacity reservation may move from one *)
(* state to another: tos/src/tos/rcl/vocabulary.py, the conservatism order *)
(* of tos/src/tos/rcl/predicates.py, the admission predicates of           *)
(* tos/src/tos/rcl/commitlog.py and the lifecycle gate of                  *)
(* tos/runtime/src/tos_runtime/rcl/gates.py.                               *)
(***************************************************************************)
EXTENDS Naturals

\* The nine capacity states of one reservation.
CapacityState ==
    { "COMMITTED_UNBOUND", "ATTEMPT_BOUND", "POTENTIALLY_LIVE",
      "PARTIALLY_CONSUMED", "POSITION_CONSUMED", "RELEASE_PENDING_PROOF",
      "QUARANTINED_UNKNOWN", "TRAPPED_CONSUMED", "RELEASED" }

\* Causes that may only make a reservation more conservative.
WEAK_CAUSES == { "TIMEOUT", "ABSENCE", "OPERATOR_ASSUMPTION" }

TransitionCause ==
    { "STRONGLY_AUTHORIZED_COMMAND", "BROKER_EVIDENCE_UNDER_PROFILE",
      "RECONCILIATION_PROOF", "RECOGNIZED_EXTERNAL_CHANGE", "CONTAINMENT",
      "FINAL_QUANTITY_PROOF" } \cup WEAK_CAUSES

\* How much a state holds back: a larger rank is more conservative.
CONSERVATISM_RANK ==
    [ s \in CapacityState |->
        CASE s = "RELEASED"              -> 0
          [] s = "COMMITTED_UNBOUND"     -> 1
          [] s = "ATTEMPT_BOUND"         -> 2
          [] s = "POTENTIALLY_LIVE"      -> 3
          [] s = "PARTIALLY_CONSUMED"    -> 4
          [] s = "POSITION_CONSUMED"     -> 5
          [] s = "RELEASE_PENDING_PROOF" -> 6
          [] s = "TRAPPED_CONSUMED"      -> 7
          [] s = "QUARANTINED_UNKNOWN"   -> 8 ]

\* RELEASED is left by nothing and reached only by a final-quantity proof; a
\* weak cause never lowers conservatism.
transition_allowed(from, to, cause) ==
    /\ from # "RELEASED"
    /\ IF to = "RELEASED"
         THEN cause = "FINAL_QUANTITY_PROOF"
         ELSE \/ CONSERVATISM_RANK[to] >= CONSERVATISM_RANK[from]
              \/ cause \notin WEAK_CAUSES

\* The cause-agnostic whitelist of the log layer: pairs reachable under some cause.
reservation_transition_structurally_legal(from, to) ==
    \E cause \in TransitionCause : transition_allowed(from, to, cause)

\* Destinations that need a positive broker-truth or evidence witness.
WITNESS_REQUIRED_DESTINATIONS == { "RELEASED", "POSITION_CONSUMED" }

release_admissible(to, witness) ==
    to \in WITNESS_REQUIRED_DESTINATIONS => witness

\* A reservation with no row yet may only start from one of these.
INITIAL_RESERVATION_STATES == { "COMMITTED_UNBOUND" }

\* The lifecycle gate, evaluated before any transaction is opened: the three
\* predicates above, in the order the code asks them.
reservation_lifecycle_refusal(from, to, cause, witness) ==
    IF ~ reservation_transition_structurally_legal(from, to)
      THEN "NOT_STRUCTURALLY_LEGAL"
    ELSE IF ~ transition_allowed(from, to, cause)
      THEN "CAUSE_NOT_ADMISSIBLE"
    ELSE IF ~ release_admissible(to, witness)
      THEN "FINALITY_WITNESS_REQUIRED"
    ELSE "NONE"
=============================================================================
