---------------------------- MODULE EngineDriver ----------------------------
(***************************************************************************)
(* The runtime's engine driver (tos_runtime/engine/driver.py) around its   *)
(* two durable stores, the event inbox and the evidence store, with boot   *)
(* replay, the recovery barrier and the new-risk halt latch.               *)
(*                                                                         *)
(* _process_next is walked one durable write at a time: `pc' names the     *)
(* place between two writes where a crash, or an exception, may fall.  A   *)
(* crash loses the memory variables and keeps the durable ones.  The event *)
(* core is atomic here except for its send, which passes the egress        *)
(* gateway (EngineCore models the core's own steps).                       *)
(*                                                                         *)
(* Abstractions: one (account, instrument) scope, which is all compose     *)
(* wires; the number of an inbox row stands for the event's identity and,  *)
(* for a tick, for the attempt it may create; results are ACK, FULL_FILL   *)
(* and the injected TIMEOUT; the outcome digest and flow fingerprint of a  *)
(* receipt are its `note'; evidence rows nobody reads back are left out.   *)
(***************************************************************************)
EXTENDS Naturals, Sequences, FiniteSets

CONSTANTS MaxRows,          \* no event arrives from outside beyond this row
          MaxBoots,         \* bound on process starts
          Window,           \* replay_window_events
          MaxRaises,        \* bound on the exceptions a caller survives; the
                            \* run loop dies of the first
          None

ASSUME BoundsAreNaturals ==
    /\ MaxRows \in Nat
    /\ MaxBoots \in Nat
    /\ MaxRaises \in Nat
    /\ Window \in Nat \ {0}

\* A reservation of the core: its attempt, how much of the send is known, and
\* the results applied to it.
Reservation ==
    [attempt   : Nat,
     knowledge : {"NOT_SENT", "SENT_UNCONFIRMED", "ACKNOWLEDGED", "FILLED", "UNKNOWN"},
     seen      : SUBSET {"ACK", "FULL_FILL", "TIMEOUT"}]

ASSUME NoneIsNew == None \notin Nat /\ None \notin Reservation

VARIABLES
  \* durable
  inbox,        \* rows of the events table, in seq order
  evidence,     \* entries of the evidence store, in seq order
  halt,         \* evidence_seq of the new_risk_halt row, or None
  released,     \* attempts whose capacity the RCL has released
  network,      \* attempts the transport was called with
  \* memory of the process
  pc,           \* place in the process
  cur,          \* row in hand
  note,         \* outcome of the row in hand
  issued,       \* _YieldOrderCounter._issued
  ledger,       \* the reservation the core holds for the scope
  results,      \* gateway results not yet drained
  timeouts,     \* the _TimeoutTracker's pending attempt
  \* history
  handles,      \* rows core.handle was called with
  boots,        \* process starts
  raises        \* exceptions survived

durable == <<inbox, evidence, halt, released, network>>
memory  == <<cur, note, issued, ledger, results, timeouts>>
history == <<handles, boots, raises>>
vars    == <<durable, pc, memory, history>>

SendEvidenceKinds == {"SEND_STARTED", "SEND_HANDED_OFF"}

InterruptedNotes ==
    {"HANDLING_INTERRUPTED_NO_SEND_EVIDENCE",
     "HANDLING_INTERRUPTED_POSSIBLY_LIVE_SEND"}

Event(kind, attempt, result) ==
    [kind |-> kind, attempt |-> attempt, result |-> result,
     ref |-> 0, started |-> None, consumed |-> FALSE]

DecisionTick == Event("DECISION_TICK", None, "NONE")

CorporateActions ==
    {Event("CORPORATE_ACTION", None, r) : r \in {"RESTRICTIVE", "BENIGN"}}

EgressResult(attempt, kind) == Event("EGRESS_RESULT", attempt, kind)

BrokerResults == {"ACK", "FULL_FILL"}

Knowledge == [ACK |-> "ACKNOWLEDGED", FULL_FILL |-> "FILLED", TIMEOUT |-> "UNKNOWN"]

-----------------------------------------------------------------------------
(* Writes *)

append(kind, row, n) ==
    evidence' = Append(evidence, [kind |-> kind, row |-> row, note |-> n])

\* The driver stamps an event with the next coordinate and enqueues it.  Counter
\* and row move together: one thread drives, and a boot counts the rows again.
enqueue_stamped(event) ==
    /\ issued' = issued + 1
    /\ inbox' = Append(inbox, [event EXCEPT !.ref = issued + 1])

\* Mutant: the mark is never committed.
MarkLost(n) == inbox' = inbox

mark_consumed(n) == inbox' = [inbox EXCEPT ![n].consumed = TRUE]

\* The latch is a singleton: INSERT OR IGNORE keeps the first cause.
record_new_risk_halt(seq) == halt' = IF halt = None THEN seq ELSE halt

-----------------------------------------------------------------------------
(* Reads *)

Seqs(kind, row) ==
    {i \in DOMAIN evidence : evidence[i].kind = kind /\ evidence[i].row = row}

find_consumed_receipt(n) ==
    IF Seqs("EVENT_CONSUMED", n) = {} THEN None
    ELSE CHOOSE i \in Seqs("EVENT_CONSUMED", n) :
            \A j \in Seqs("EVENT_CONSUMED", n) : i <= j

unconsumed == {n \in DOMAIN inbox : ~inbox[n].consumed}

next_unconsumed == CHOOSE n \in unconsumed : \A m \in unconsumed : n <= m

\* Mutant: only the engine's own hand-off record counts as send evidence.
HandedOffAfter(marker) ==
    \E i \in DOMAIN evidence : i > marker /\ evidence[i].kind = "SEND_HANDED_OFF"

send_evidence_exists_after(marker) ==
    \E i \in DOMAIN evidence : i > marker /\ evidence[i].kind \in SendEvidenceKinds

-----------------------------------------------------------------------------
(* The core's ledger, seen from the driver *)

Sent(attempt) == [attempt |-> attempt, knowledge |-> "SENT_UNCONFIRMED", seen |-> {}]

Unsent(attempt) == [attempt |-> attempt, knowledge |-> "NOT_SENT", seen |-> {}]

Applies(l, row) == l # None /\ l.attempt = row.attempt /\ row.result \notin l.seen

Applied(l, row) ==
    [l EXCEPT !.knowledge = Knowledge[row.result], !.seen = @ \cup {row.result}]

Releasable(l, attempt) == l # None /\ l.attempt = attempt /\ l.knowledge = "FILLED"

-----------------------------------------------------------------------------
(* Boot replay *)

any_recorded_hand_off == \E i \in DOMAIN evidence : evidence[i].kind = "SEND_HANDED_OFF"

\* What the recorded receipt says happened, done again on the replayed
\* ledger.  A receipt the core never ran for is skipped.  The recorded
\* transmit raises for an attempt without a hand-off record, but it is
\* installed only when some attempt was handed off.
ReplayTick(acc, n, recorded) ==
    CASE recorded = "NEW_RISK_HALTED" -> acc
      [] recorded = "SCOPE_HELD" -> [acc EXCEPT !.ok = @ /\ acc.ledger # None]
      [] recorded = "STOPPED" -> [acc EXCEPT !.ok = @ /\ acc.ledger = None]
      [] recorded = "UNSENT" ->
            [acc EXCEPT !.ok = @ /\ acc.ledger = None, !.ledger = Unsent(n)]
      [] recorded = "HANDED_OFF" ->
            [acc EXCEPT !.ok = @ /\ acc.ledger = None, !.ledger = Sent(n)]
      [] recorded = "TRANSMIT_RAISED" ->
            [acc EXCEPT !.ok = @ /\ acc.ledger = None /\ any_recorded_hand_off,
                        !.ledger = Sent(n)]
      [] OTHER -> [acc EXCEPT !.ok = FALSE]

ReplayResult(acc, row, recorded) ==
    [ledger |-> IF Applies(acc.ledger, row) THEN Applied(acc.ledger, row) ELSE acc.ledger,
     ok     |-> acc.ok /\ recorded = IF Applies(acc.ledger, row) THEN "APPLIED" ELSE "NOT_APPLIED",
     seen   |-> acc.seen \cup {row.attempt}]

compare_one_event(acc, n, recorded) ==
    IF recorded \in InterruptedNotes THEN [acc EXCEPT !.ok = FALSE]
    ELSE CASE inbox[n].kind = "DECISION_TICK" -> ReplayTick(acc, n, recorded)
           [] inbox[n].kind = "EGRESS_RESULT" -> ReplayResult(acc, inbox[n], recorded)
           [] OTHER -> acc

\* A recorded release is done again if the window has a result of its attempt;
\* it must be committed in the RCL and the replayed ledger must accept it.
ReplayRelease(acc, attempt) ==
    IF attempt \in released
      THEN CASE attempt \notin acc.seen -> acc
             [] attempt \in acc.seen /\ Releasable(acc.ledger, attempt) ->
                   [acc EXCEPT !.ledger = None]
             [] OTHER -> [acc EXCEPT !.ok = FALSE]
      ELSE [acc EXCEPT !.ok = FALSE]

ReplayEntry(acc, i) ==
    LET e == evidence[i] IN
    CASE e.kind = "ENGINE_PROJECTION_RELEASED" -> ReplayRelease(acc, e.row)
      [] /\ e.kind = "EVENT_CONSUMED"
         /\ e.row + Window > Len(inbox) -> compare_one_event(acc, e.row, e.note)
      [] OTHER -> acc

\* Rows are consumed in inbox order, so replaying the admitted events with
\* each release before the first later receipt is following the evidence.
replay_engine ==
    LET acc[i \in 0..Len(evidence)] ==
          IF i = 0 THEN [ledger |-> None, ok |-> TRUE, seen |-> {}]
          ELSE ReplayEntry(acc[i - 1], i)
    IN  acc[Len(evidence)]

\* The obligation the barrier derives from the inbox.
possibly_live == {n \in unconsumed : inbox[n].started # None}

\* Mutant: a row that was started and never marked does not hold the barrier.
BarrierIgnoresStarted ==
    \A i \in DOMAIN evidence : evidence[i].kind # "REPLAY_DIVERGED"

barrier_obligations ==
    /\ \A i \in DOMAIN evidence : evidence[i].kind # "REPLAY_DIVERGED"
    /\ possibly_live = {}

-----------------------------------------------------------------------------
(* Process start and stop *)

Init ==
    /\ inbox = <<>> /\ evidence = <<>> /\ halt = None
    /\ released = {} /\ network = {}
    /\ pc = "down" /\ cur = None /\ note = "NONE"
    /\ issued = 0 /\ ledger = None /\ results = <<>> /\ timeouts = None
    /\ handles = <<>> /\ boots = 0 /\ raises = 0

\* The replay rebuilds the ledger; a divergence refuses the boot and stays
\* on record.
BootDiverges ==
    /\ pc = "down" /\ boots < MaxBoots
    /\ ~replay_engine.ok
    /\ append("REPLAY_DIVERGED", None, "NONE")
    /\ boots' = boots + 1
    /\ UNCHANGED <<inbox, halt, released, network, pc, memory, handles, raises>>

\* Mutant: the counter of coordinates starts again from nothing.
BootForgetsCoordinates ==
    /\ pc = "down" /\ boots < MaxBoots
    /\ replay_engine.ok /\ barrier_obligations
    /\ pc' = "idle" /\ boots' = boots + 1
    /\ ledger' = replay_engine.ledger /\ issued' = 0
    /\ UNCHANGED <<durable, cur, note, results, timeouts, handles, raises>>

BootReady ==
    /\ pc = "down" /\ boots < MaxBoots
    /\ replay_engine.ok /\ barrier_obligations
    /\ pc' = "idle" /\ boots' = boots + 1
    /\ ledger' = replay_engine.ledger /\ issued' = Len(inbox)
    /\ UNCHANGED <<durable, cur, note, results, timeouts, handles, raises>>

\* The barrier also holds for its other obligations (legacy receipts,
\* generation, parseability), so it may hold whatever this model's stores say.
BootHolds ==
    /\ pc = "down" /\ boots < MaxBoots
    /\ replay_engine.ok
    /\ pc' = "held" /\ boots' = boots + 1
    /\ UNCHANGED <<durable, memory, handles, raises>>

Crash ==
    /\ pc # "down" /\ pc' = "down"
    /\ cur' = None /\ note' = "NONE" /\ issued' = 0
    /\ ledger' = None /\ results' = <<>> /\ timeouts' = None
    /\ UNCHANGED <<durable, history>>

-----------------------------------------------------------------------------
(* Arrivals *)

\* The fill observer feeds a result only for the attempt the engine holds.
ObservedResults ==
    IF ledger # None /\ ledger.attempt \in network
      THEN {EgressResult(ledger.attempt, k) : k \in BrokerResults} ELSE {}

enqueue_and_run ==
    /\ pc = "idle" /\ Len(inbox) < MaxRows
    /\ \E e \in {DecisionTick} \cup CorporateActions \cup ObservedResults :
          enqueue_stamped(e)
    /\ pc' = "start"
    /\ UNCHANGED <<evidence, halt, released, network, cur, note, ledger,
                   results, timeouts, history>>

run_until_idle ==
    /\ pc = "idle" /\ pc' = "start"
    /\ UNCHANGED <<durable, memory, history>>

\* A held runtime has no driver: events are queued without a coordinate.
QueueUntilRecovery ==
    /\ pc = "held" /\ Len(inbox) < MaxRows
    /\ \E e \in {DecisionTick} \cup CorporateActions : inbox' = Append(inbox, e)
    /\ UNCHANGED <<evidence, halt, released, network, pc, memory, history>>

-----------------------------------------------------------------------------
(* Timeouts *)

WaitBoundElapses ==
    /\ timeouts # None /\ ~timeouts.elapsed
    /\ timeouts' = [timeouts EXCEPT !.elapsed = TRUE]
    /\ UNCHANGED <<durable, pc, cur, note, issued, ledger, results, history>>

due == timeouts # None /\ timeouts.elapsed /\ ~timeouts.timed_out

\* Mutant: the attempt is marked timed out and no event is enqueued.
TimeoutNotEnqueued ==
    /\ pc = "start" /\ pc' = "pull"
    /\ timeouts' = IF due THEN [timeouts EXCEPT !.timed_out = TRUE] ELSE timeouts
    /\ UNCHANGED <<durable, cur, note, issued, ledger, results, history>>

inject_due_timeouts ==
    /\ pc = "start" /\ pc' = "pull"
    /\ IF due
         THEN /\ enqueue_stamped(EgressResult(timeouts.attempt, "TIMEOUT"))
              /\ timeouts' = [timeouts EXCEPT !.timed_out = TRUE]
         ELSE UNCHANGED <<inbox, issued, timeouts>>
    /\ UNCHANGED <<evidence, halt, released, network, cur, note, ledger,
                   results, history>>

track_timeouts ==
    timeouts' = CASE note = "HANDED_OFF" ->
                       [attempt |-> cur, elapsed |-> FALSE, timed_out |-> FALSE]
                  [] /\ note = "APPLIED" /\ timeouts # None
                     /\ timeouts.attempt = inbox[cur].attempt -> None
                  [] OTHER -> timeouts

-----------------------------------------------------------------------------
(* _process_next: which row, and is it new? *)

Idle ==
    /\ pc = "pull" /\ unconsumed = {}
    /\ pc' = "idle" /\ cur' = None /\ note' = "NONE"
    /\ UNCHANGED <<durable, issued, ledger, results, timeouts, history>>

\* Crash window 1: the receipt exists, the row was not marked.
MarkRecovered ==
    /\ pc = "pull" /\ unconsumed # {}
    /\ find_consumed_receipt(next_unconsumed) # None
    /\ mark_consumed(next_unconsumed)
    /\ UNCHANGED <<evidence, halt, released, network, pc, memory, history>>

\* Crash window 2: handling was started and left no receipt.
FindInterrupted ==
    /\ pc = "pull" /\ unconsumed # {}
    /\ find_consumed_receipt(next_unconsumed) = None
    /\ inbox[next_unconsumed].started # None
    /\ cur' = next_unconsumed /\ pc' = "interrupted"
    /\ UNCHANGED <<durable, note, issued, ledger, results, timeouts, history>>

\* Mutant: the write-ahead marker of an earlier handling is not looked for.
StartRegardless ==
    /\ pc = "pull" /\ unconsumed # {}
    /\ find_consumed_receipt(next_unconsumed) = None
    /\ append("EVENT_HANDLING_STARTED", next_unconsumed, "NONE")
    /\ cur' = next_unconsumed /\ pc' = "marking"
    /\ UNCHANGED <<inbox, halt, released, network, note, issued, ledger,
                   results, timeouts, history>>

StartHandling ==
    /\ pc = "pull" /\ unconsumed # {}
    /\ find_consumed_receipt(next_unconsumed) = None
    /\ inbox[next_unconsumed].started = None
    /\ append("EVENT_HANDLING_STARTED", next_unconsumed, "NONE")
    /\ cur' = next_unconsumed /\ pc' = "marking"
    /\ UNCHANGED <<inbox, halt, released, network, note, issued, ledger,
                   results, timeouts, history>>

\* Mutant: the marker names the entry after its own.
MarkerOffByOne ==
    /\ pc = "marking" /\ pc' = "handling"
    /\ inbox' = [inbox EXCEPT ![cur].started = Len(evidence) + 1]
    /\ UNCHANGED <<evidence, halt, released, network, memory, history>>

mark_handling_started ==
    /\ pc = "marking" /\ pc' = "handling"
    /\ inbox' = [inbox EXCEPT ![cur].started = Len(evidence)]
    /\ UNCHANGED <<evidence, halt, released, network, memory, history>>

\* The event is never handled again; what is recorded depends on whether the
\* flow can have reached the send boundary.
handle_interrupted_event ==
    /\ pc = "interrupted" /\ pc' = "closing"
    /\ IF send_evidence_exists_after(inbox[cur].started)
         THEN /\ append("HANDLING_INTERRUPTED_POSSIBLY_LIVE_SEND", cur, "NONE")
              /\ note' = "HANDLING_INTERRUPTED_POSSIBLY_LIVE_SEND"
         ELSE /\ append("DECISION_TICK_DROPPED_ON_RECOVERY", cur, "NONE")
              /\ note' = "HANDLING_INTERRUPTED_NO_SEND_EVIDENCE"
    /\ UNCHANGED <<inbox, halt, released, network, cur, issued, ledger,
                   results, timeouts, history>>

CloseInterrupted ==
    /\ pc = "closing" /\ pc' = "closed"
    /\ append("EVENT_CONSUMED", cur, note)
    /\ UNCHANGED <<inbox, halt, released, network, memory, history>>

MarkInterrupted ==
    /\ pc = "closed" /\ pc' = "pull"
    /\ mark_consumed(cur)
    /\ UNCHANGED <<evidence, halt, released, network, memory, history>>

-----------------------------------------------------------------------------
(* core.handle *)

\* A tick is refused before the core while a new-risk halt is latched.
RefuseHalted ==
    /\ pc = "handling" /\ inbox[cur].kind = "DECISION_TICK" /\ halt # None
    /\ append("EVENT_CONSUMED", cur, "NEW_RISK_HALTED")
    /\ note' = "NEW_RISK_HALTED" /\ pc' = "consumed"
    /\ UNCHANGED <<inbox, halt, released, network, cur, issued, ledger,
                   results, timeouts, history>>

\* The flow is refused because the scope is held, stops before the commit,
\* stops after it with the attempt unsent, or enters the send boundary with
\* the reservation already marked potentially live.
FlowOutcome ==
    \/ ledger # None /\ note' = "SCOPE_HELD" /\ pc' = "handled" /\ ledger' = ledger
    \/ ledger = None /\ note' = "STOPPED" /\ pc' = "handled" /\ ledger' = ledger
    \/ ledger = None /\ note' = "UNSENT" /\ pc' = "handled" /\ ledger' = Unsent(cur)
    \/ ledger = None /\ note' = note /\ pc' = "boundary" /\ ledger' = Sent(cur)

HandleTick ==
    /\ pc = "handling" /\ inbox[cur].kind = "DECISION_TICK" /\ halt = None
    /\ FlowOutcome
    /\ handles' = Append(handles, cur)
    /\ UNCHANGED <<durable, cur, issued, results, timeouts, boots, raises>>

HandleResult ==
    /\ pc = "handling" /\ inbox[cur].kind = "EGRESS_RESULT"
    /\ IF Applies(ledger, inbox[cur])
         THEN ledger' = Applied(ledger, inbox[cur]) /\ note' = "APPLIED"
         ELSE ledger' = ledger /\ note' = "NOT_APPLIED"
    /\ pc' = "handled"
    /\ handles' = Append(handles, cur)
    /\ UNCHANGED <<durable, cur, issued, results, timeouts, boots, raises>>

HandleCorporateAction ==
    /\ pc = "handling" /\ inbox[cur].kind = "CORPORATE_ACTION"
    /\ note' = inbox[cur].result /\ pc' = "handled"
    /\ handles' = Append(handles, cur)
    /\ UNCHANGED <<durable, cur, issued, ledger, results, timeouts, boots, raises>>

-----------------------------------------------------------------------------
(* The egress gateway, as the sequencer's transmit *)

\* A refusal of the gateway, or a transport that is missing or fails before
\* the network, is still a hand-off.
GatewayRefuses ==
    /\ pc \in {"boundary", "sending"} /\ pc' = "handed"
    /\ UNCHANGED <<durable, memory, history>>

SendStarted ==
    /\ pc = "boundary" /\ pc' = "sending"
    /\ append("SEND_STARTED", cur, "NONE")
    /\ UNCHANGED <<inbox, halt, released, network, memory, history>>

\* The sequencer catches whatever transmit raises; the reservation stays
\* potentially live and no hand-off is recorded.
TransmitRaises ==
    /\ pc \in {"boundary", "sending"} /\ pc' = "handled"
    /\ note' = "TRANSMIT_RAISED"
    /\ UNCHANGED <<durable, cur, issued, ledger, results, timeouts, history>>

\* The transport answers with a result or without one; after the answer is
\* kept, writing it to the evidence store may still raise.
SendOnce ==
    /\ pc = "sending"
    /\ network' = network \cup {cur}
    /\ \/ results' = results
       \/ \E k \in BrokerResults : results' = Append(results, EgressResult(cur, k))
    /\ \/ pc' = "handed" /\ note' = note
       \/ pc' = "handled" /\ note' = "TRANSMIT_RAISED"
    /\ UNCHANGED <<inbox, evidence, halt, released, cur, issued, ledger,
                   timeouts, history>>

SendHandedOff ==
    /\ pc = "handed" /\ pc' = "handled"
    /\ append("SEND_HANDED_OFF", cur, "NONE") /\ note' = "HANDED_OFF"
    /\ UNCHANGED <<inbox, halt, released, network, cur, issued, ledger,
                   results, timeouts, history>>

-----------------------------------------------------------------------------
(* _process_next: after core.handle *)

\* The orthostate projection of an applied result may find a coupling or an
\* ownership violation: evidence first, then the latch.
ProjectionViolated ==
    /\ pc = "handled" /\ note = "APPLIED"
    /\ append("COUPLING_VIOLATION", cur, "NONE") /\ pc' = "violated"
    /\ UNCHANGED <<inbox, halt, released, network, memory, history>>

LatchViolation ==
    /\ pc = "violated" /\ pc' = "projected"
    /\ record_new_risk_halt(Len(evidence))
    /\ UNCHANGED <<inbox, evidence, released, network, memory, history>>

record_consumed ==
    /\ pc \in {"handled", "projected"} /\ pc' = "consumed"
    /\ append("EVENT_CONSUMED", cur, note)
    /\ UNCHANGED <<inbox, halt, released, network, memory, history>>

latch_restrictive ==
    /\ pc = "consumed" /\ note = "RESTRICTIVE" /\ pc' = "latching"
    /\ append("INCIDENT_CANDIDATE", cur, "NONE")
    /\ UNCHANGED <<inbox, halt, released, network, memory, history>>

\* Mutant: the incident is recorded and the latch is not set.
LatchForgotten ==
    /\ pc = "latching" /\ pc' = "latched"
    /\ UNCHANGED <<durable, memory, history>>

LatchRestriction ==
    /\ pc = "latching" /\ pc' = "latched"
    /\ record_new_risk_halt(find_consumed_receipt(cur))
    /\ UNCHANGED <<inbox, evidence, released, network, memory, history>>

AfterMark ==
    CASE note = "APPLIED" -> "finality"
      [] /\ inbox[cur].kind = "DECISION_TICK"
         /\ note \notin {"APPLIED", "NEW_RISK_HALTED"} -> "drain"
      [] OTHER -> "start"

MarkConsumed ==
    /\ pc = "latched" \/ (pc = "consumed" /\ note # "RESTRICTIVE")
    /\ mark_consumed(cur)
    /\ track_timeouts
    /\ pc' = AfterMark
    /\ UNCHANGED <<evidence, halt, released, network, cur, note, issued,
                   ledger, results, history>>

-----------------------------------------------------------------------------
(* Finality and the gateway's results *)

\* The release consumer commits the capacity release in the RCL, at most once
\* for an attempt; every other answer of it leaves the capacity held.
RclReleases ==
    /\ pc = "finality" /\ inbox[cur].result = "FULL_FILL"
    /\ inbox[cur].attempt \notin released
    /\ released' = released \cup {inbox[cur].attempt}
    /\ pc' = "releasing"
    /\ UNCHANGED <<inbox, evidence, halt, network, memory, history>>

RclKeeps ==
    /\ pc = "finality" /\ pc' = "start"
    /\ UNCHANGED <<durable, memory, history>>

\* The projection follows the RCL if the ledger knows the fill.
ReleaseProjection ==
    /\ pc = "releasing"
    /\ IF Releasable(ledger, inbox[cur].attempt)
         THEN ledger' = None /\ pc' = "released"
         ELSE ledger' = ledger /\ pc' = "start"
    /\ UNCHANGED <<durable, cur, note, issued, results, timeouts, history>>

\* Mutant: the projection's release leaves no evidence row.
ReleaseUnrecorded ==
    /\ pc = "released" /\ pc' = "start"
    /\ UNCHANGED <<durable, memory, history>>

RecordRelease ==
    /\ pc = "released" /\ pc' = "start"
    /\ append("ENGINE_PROJECTION_RELEASED", inbox[cur].attempt, "NONE")
    /\ UNCHANGED <<inbox, halt, released, network, memory, history>>

\* The fill observer projects finality again for a recorded fill whose
\* release has not committed.
project_recovered_finality ==
    /\ pc = "idle" /\ pc' = "finality"
    /\ \E n \in DOMAIN inbox :
          /\ inbox[n].consumed /\ inbox[n].result = "FULL_FILL"
          /\ inbox[n].attempt \notin released
          /\ evidence[find_consumed_receipt(n)].note = "APPLIED"
          /\ cur' = n
    /\ UNCHANGED <<durable, note, issued, ledger, results, timeouts, history>>

drain_gateway_results ==
    /\ pc = "drain"
    /\ IF results = <<>>
         THEN pc' = "start" /\ UNCHANGED <<inbox, issued, results>>
         ELSE /\ pc' = "drain"
              /\ enqueue_stamped(Head(results))
              /\ results' = Tail(results)
    /\ UNCHANGED <<evidence, halt, released, network, cur, note, ledger,
                   timeouts, history>>

-----------------------------------------------------------------------------
(* The operator clears the latch: evidence first, then the row *)

ClearIsAttested ==
    /\ pc \in {"idle", "held"} /\ halt # None
    /\ append("NEW_RISK_HALT_CLEARED", halt, "NONE")
    /\ note' = pc /\ pc' = "clearing"
    /\ UNCHANGED <<inbox, halt, released, network, cur, issued, ledger,
                   results, timeouts, history>>

clear_new_risk_halt ==
    /\ pc = "clearing" /\ pc' = note /\ note' = "NONE"
    /\ halt' = None
    /\ UNCHANGED <<inbox, evidence, released, network, cur, issued, ledger,
                   results, timeouts, history>>

-----------------------------------------------------------------------------

\* An exception leaves _process_next anywhere; the finally clause re-opens it.
Raise ==
    /\ raises < MaxRaises /\ raises' = raises + 1
    /\ pc \notin {"down", "held", "idle", "clearing"} /\ pc' = "idle"
    /\ cur' = None /\ note' = "NONE"
    /\ UNCHANGED <<durable, issued, ledger, results, timeouts, handles, boots>>

Boot == BootReady \/ BootHolds \/ BootDiverges

ProcessNext ==
    \/ inject_due_timeouts
    \/ Idle \/ MarkRecovered \/ FindInterrupted \/ StartHandling
    \/ mark_handling_started
    \/ handle_interrupted_event \/ CloseInterrupted \/ MarkInterrupted
    \/ RefuseHalted \/ HandleTick \/ HandleResult \/ HandleCorporateAction
    \/ GatewayRefuses \/ SendStarted \/ TransmitRaises \/ SendOnce \/ SendHandedOff
    \/ ProjectionViolated \/ LatchViolation
    \/ record_consumed \/ latch_restrictive \/ LatchRestriction \/ MarkConsumed
    \/ RclReleases \/ RclKeeps \/ ReleaseProjection \/ RecordRelease
    \/ drain_gateway_results
    \/ clear_new_risk_halt

Environment ==
    \/ enqueue_and_run \/ run_until_idle \/ QueueUntilRecovery
    \/ WaitBoundElapses \/ project_recovered_finality \/ ClearIsAttested

Next == Boot \/ Crash \/ Raise \/ ProcessNext \/ Environment

Spec == Init /\ [][Next]_vars

\* A process that is up goes on with the drain it has begun.  Nothing more is
\* promised: no loop polls run_until_idle, a drain begins only when a tick, a
\* fill or another event is enqueued, and none need ever come.
Fairness == WF_vars(ProcessNext)

FairSpec == Spec /\ Fairness

\* A kinder world than the code gives, for the counterexample that survives it:
\* drains keep coming, time passes and a supervisor starts the process again.
PolledSpec ==
    /\ FairSpec
    /\ WF_vars(run_until_idle)
    /\ WF_vars(WaitBoundElapses)
    /\ WF_vars(BootReady)

=============================================================================
