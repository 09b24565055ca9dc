------------------------- MODULE EngineDriverProps -------------------------
(***************************************************************************)
(* What the engine driver promises across crashes, exceptions and boots.   *)
(***************************************************************************)
EXTENDS EngineDriver

Rows == DOMAIN inbox

Places ==
    {"down", "held", "idle", "start", "pull", "marking", "handling",
     "boundary", "sending", "handed", "handled", "violated", "projected",
     "consumed", "latching", "latched", "finality", "releasing", "released",
     "drain", "interrupted", "closing", "closed", "clearing"}

\* Every variable holds a value of its kind, and what names a row, an attempt
\* or an evidence entry names one that exists.
TypeOK ==
    /\ pc \in Places
    /\ cur \in Rows \cup {None}
    /\ halt \in DOMAIN evidence \cup {None}
    /\ issued \in Nat
    /\ boots \in 0..MaxBoots /\ raises \in 0..MaxRaises
    /\ released \subseteq Rows /\ network \subseteq Rows
    /\ ledger # None => ledger.attempt \in Rows
    /\ timeouts # None => timeouts.attempt \in Rows
    /\ \A i \in DOMAIN results : results[i].attempt \in Rows
    /\ \A i \in DOMAIN handles : handles[i] \in Rows
    /\ \A n \in Rows :
          /\ inbox[n].kind = "EGRESS_RESULT" => inbox[n].attempt \in 1..(n - 1)
          /\ inbox[n].started \in DOMAIN evidence \cup {None}

\* driver.py _process_next: the core handles a row at most once, whatever
\* crashes, exceptions and boots come between (a second handling of a tick
\* would be a blind resubmission).
HandledOnce ==
    \A i, j \in DOMAIN handles : handles[i] = handles[j] => i = j

\* driver.py _handle_interrupted_event: a receipt that says there is no
\* evidence of a send is never given to a tick whose order went out.
DroppedMeansUnsent ==
    \A i \in DOMAIN evidence :
        evidence[i].note = "HANDLING_INTERRUPTED_NO_SEND_EVIDENCE"
            => evidence[i].row \notin network

\* Engine, gateway, boot replay and barrier together: of the orders that went
\* out for the scope, at most one has not been released by the RCL.
OneLiveAttempt == Cardinality(network \ released) <= 1

Interrupted ==
    \E i \in DOMAIN evidence : evidence[i].note \in InterruptedNotes

RaisedWithoutHandOff ==
    /\ \E i \in DOMAIN evidence : evidence[i].note = "TRANSMIT_RAISED"
    /\ ~any_recorded_hand_off

\* replay.py, _engine_wiring.py: if the process died now, the boot would
\* accept its stores and rebuild exactly the ledger the live core has.  Two
\* histories are left out, on which the replay is known to diverge: a receipt
\* of an interrupted event, and a transmit that raised before any hand-off.
\* A caller that goes on after an exception is left out too: the ledger then
\* has what the cut handling had done, its row has no receipt yet.
ReplayReproducesLedger ==
    pc = "idle" /\ raises = 0 /\ ~Interrupted /\ ~RaisedWithoutHandOff
        => replay_engine.ok /\ replay_engine.ledger = ledger

RestrictionAt(i) ==
    \/ evidence[i].kind = "COUPLING_VIOLATION"
    \/ evidence[i].kind = "EVENT_CONSUMED" /\ evidence[i].note = "RESTRICTIVE"

ClearedAfter(i) ==
    \E j \in DOMAIN evidence : j > i /\ evidence[j].kind = "NEW_RISK_HALT_CLEARED"

\* driver.py, latch.py, orthostate_projection.py: once the evidence of a
\* restrictive event or of a violation is durable, no tick reaches the core
\* until an operator's clearing is on record, even if the process dies
\* between that evidence and the latch.  It is the boot that sets the latch
\* again, so a caller that goes on after an exception is left out.
RestrictionStopsNewRisk ==
    [][HandleTick /\ raises = 0 => \A i \in DOMAIN evidence : RestrictionAt(i) => ClearedAfter(i)]_vars

\* driver.py _YieldOrderCounter: the coordinates of stamped rows increase
\* strictly in inbox order, over restarts and rows queued without one.
StampsIncrease ==
    \A m, n \in Rows : m < n /\ inbox[m].ref # 0 /\ inbox[n].ref # 0
                          => inbox[m].ref < inbox[n].ref

\* driver.py run_until_idle: a drain that has begun ends with every row of the
\* inbox consumed, the results and the timeout it enqueues itself included,
\* unless the process goes down or an exception cuts it.
EventuallyConsumed ==
    pc = "start" ~> (pc = "idle" /\ unconsumed = {}) \/ pc = "down" \/ raises > 0

Unanswered == ledger # None /\ ledger.knowledge = "SENT_UNCONFIRMED"

\* _timeout_tracker.py, driver.py run_until_idle: if the wait bound of an
\* unanswered attempt has elapsed when a drain begins, the drain does not
\* leave it unanswered: the injected TIMEOUT, or a result, is applied to it.
PendingTimesOut ==
    Unanswered /\ due /\ timeouts.attempt = ledger.attempt /\ pc = "start"
        ~> ~Unanswered \/ raises > 0

\* driver.py:46-50, _timeout_tracker.py:36-40: a hand-off with no result is
\* turned UNKNOWN by an injected TIMEOUT once the wait bound elapses; it does
\* not sit SENT_UNCONFIRMED for ever.
LostResultTimesOut ==
    Unanswered /\ Seqs("SEND_HANDED_OFF", ledger.attempt) # {} ~> ~Unanswered

\* inbox.py:632-635: clearing the latch for one violation never wipes a newer
\* one the operator has not seen.
ClearWipesNoNewerViolation ==
    [][clear_new_risk_halt => \A i \in DOMAIN evidence : RestrictionAt(i) => i <= halt]_vars

=============================================================================
