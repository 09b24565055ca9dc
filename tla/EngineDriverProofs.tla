------------------------- MODULE EngineDriverProofs -------------------------
(***************************************************************************)
(* Proofs about the engine driver, for every number of rows, boots and     *)
(* survived exceptions and every replay window.                            *)
(***************************************************************************)
EXTENDS EngineDriverProps, NatSetInduction, FiniteSetTheorems

-----------------------------------------------------------------------------
(* The inductive invariant *)

EventKinds == {"DECISION_TICK", "CORPORATE_ACTION", "EGRESS_RESULT"}

ResultKinds == {"ACK", "FULL_FILL", "TIMEOUT"}

InboxRow ==
    [kind : EventKinds, attempt : Nat \cup {None},
     result : ResultKinds \cup {"NONE", "RESTRICTIVE", "BENIGN"},
     ref : Nat, started : Nat \cup {None}, consumed : BOOLEAN]

EntryKinds ==
    {"EVENT_HANDLING_STARTED", "EVENT_CONSUMED", "REPLAY_DIVERGED",
     "HANDLING_INTERRUPTED_POSSIBLY_LIVE_SEND", "DECISION_TICK_DROPPED_ON_RECOVERY",
     "SEND_STARTED", "SEND_HANDED_OFF", "COUPLING_VIOLATION", "INCIDENT_CANDIDATE",
     "ENGINE_PROJECTION_RELEASED", "NEW_RISK_HALT_CLEARED"}

TickNotes ==
    {"NEW_RISK_HALTED", "SCOPE_HELD", "STOPPED", "UNSENT", "HANDED_OFF", "TRANSMIT_RAISED"}

Notes ==
    InterruptedNotes \cup TickNotes \cup ResultKinds
      \cup {"NONE", "RESTRICTIVE", "BENIGN", "APPLIED", "NOT_APPLIED", "idle", "held"}

Entry == [kind : EntryKinds, row : Nat \cup {None}, note : Notes]

Wait == [attempt : Nat, elapsed : BOOLEAN, timed_out : BOOLEAN]

\* The kinds of the variables.
TInv ==
    /\ inbox \in Seq(InboxRow) /\ evidence \in Seq(Entry)
    /\ halt \in Nat \cup {None}
    /\ pc \in Places /\ cur \in Nat \cup {None} /\ note \in Notes
    /\ issued \in Nat
    /\ ledger \in Reservation \cup {None}
    /\ results \in Seq(InboxRow)
    /\ timeouts \in Wait \cup {None}
    /\ handles \in Seq(Nat)
    /\ boots \in 0..MaxBoots /\ raises \in 0..MaxRaises

Receipt(i, n) == evidence[i].kind = "EVENT_CONSUMED" /\ evidence[i].row = n

HasReceipt(n) == \E i \in DOMAIN evidence : Receipt(i, n)

SendEvidence(n) ==
    \E i \in DOMAIN evidence : i > inbox[n].started /\ evidence[i].kind \in SendEvidenceKinds

\* Places with an unfinished row in hand, before its receipt and after it.
BeforeReceipt ==
    {"marking", "handling", "boundary", "sending", "handed", "handled",
     "violated", "projected", "interrupted", "closing"}
AfterReceipt == {"consumed", "latching", "latched", "closed"}
AfterMarked == {"finality", "releasing", "released", "drain"}
InBoundary == {"boundary", "sending", "handed"}
AfterCore == {"handled", "violated", "projected", "consumed", "latching", "latched"}

\* What the code has established of the row in hand where it stands.
PlaceInv ==
    /\ pc \in BeforeReceipt \cup AfterReceipt => cur \in Rows /\ ~inbox[cur].consumed
    /\ pc \in AfterMarked => cur \in Rows
    /\ pc = "marking" => inbox[cur].started = None
    /\ pc \in (BeforeReceipt \cup AfterReceipt) \ {"marking"} => inbox[cur].started # None
    /\ pc \in BeforeReceipt => ~HasReceipt(cur)
    /\ pc \in AfterReceipt => HasReceipt(cur)
    /\ pc \in InBoundary => inbox[cur].kind = "DECISION_TICK"
    /\ pc \in AfterCore => note \notin InterruptedNotes
    /\ pc \in {"closing", "closed"} => note \in InterruptedNotes
    /\ pc = "clearing" => note \in {"idle", "held"}
    /\ pc \in {"marking", "violated"} => Len(evidence) > 0

\* Rows and entries: a marker names an entry, a marked row has its receipt,
\* and only a receipt carries the note of an interrupted handling.
StoreInv ==
    /\ \A n \in Rows :
          /\ inbox[n].started \in DOMAIN evidence \cup {None}
          /\ inbox[n].consumed => HasReceipt(n)
          /\ inbox[n].kind = "EGRESS_RESULT" <=> inbox[n].result \in ResultKinds
          /\ inbox[n].kind = "EGRESS_RESULT" => inbox[n].attempt \in 1..(n - 1)
    /\ \A i \in DOMAIN evidence :
          /\ evidence[i].note \in InterruptedNotes => evidence[i].kind = "EVENT_CONSUMED"
          /\ evidence[i].kind = "EVENT_CONSUMED" => evidence[i].row \in Rows
    /\ halt \in DOMAIN evidence \cup {None}

\* The core was called only with rows whose handling was marked.
HandleInv ==
    /\ HandledOnce
    /\ \A i \in DOMAIN handles : handles[i] \in Rows /\ inbox[handles[i]].started # None
    /\ pc = "handling" => \A i \in DOMAIN handles : handles[i] # cur
    /\ pc \in InBoundary => \E i \in DOMAIN handles : handles[i] = cur

\* An order went out only for a handled tick, after the entry that says so.
NetworkInv ==
    /\ \A n \in network :
          /\ n \in Rows /\ inbox[n].kind = "DECISION_TICK"
          /\ \E i \in DOMAIN handles : handles[i] = n
          /\ inbox[n].started # None /\ SendEvidence(n)
          /\ \A i \in DOMAIN evidence : Receipt(i, n) =>
                evidence[i].note \in {"HANDED_OFF", "TRANSMIT_RAISED",
                                      "HANDLING_INTERRUPTED_POSSIBLY_LIVE_SEND"}
    /\ pc = "sending" => SendEvidence(cur)
    /\ pc \in AfterCore /\ cur \in network => note \in {"HANDED_OFF", "TRANSMIT_RAISED"}
    /\ pc = "closing" /\ note = "HANDLING_INTERRUPTED_NO_SEND_EVIDENCE" => cur \notin network

\* The process has no driver: down, held, or clearing the latch while held.
Driverless == pc \in {"down", "held"} \/ (pc = "clearing" /\ note = "held")

\* A driver counts exactly the rows of the inbox, and a stamp is its row's.
StampInv ==
    /\ \A n \in Rows : inbox[n].ref \in {0, n}
    /\ ~Driverless => issued = Len(inbox)

\* What memory names exists.
MemoryInv ==
    /\ ledger # None => ledger.attempt \in Rows
    /\ timeouts # None => timeouts.attempt \in Rows
    /\ \A i \in DOMAIN results :
          /\ results[i].kind = "EGRESS_RESULT" /\ results[i].result \in BrokerResults
          /\ results[i].attempt \in Rows
          /\ results[i].started = None /\ ~results[i].consumed
    /\ released \subseteq Rows /\ cur \in Rows \cup {None}

IInv ==
    /\ TInv /\ PlaceInv /\ StoreInv /\ MemoryInv
    /\ HandleInv /\ NetworkInv /\ StampInv

\* An order that may be live occupies the ledger of every process that drives.
Live == network \ released

LiveInv ==
    /\ \A m, n \in Live : m = n
    /\ \A n \in Live : ~Driverless => ledger # None /\ ledger.attempt = n
    /\ pc \in InBoundary => ledger # None /\ ledger.attempt = cur
    /\ pc \in {"releasing", "released"} => inbox[cur].attempt \in released

\* Between the evidence of a restriction and the latch.
LatchDue ==
    pc \in {"violated", "latching"} \/ (pc = "consumed" /\ note = "RESTRICTIVE")

\* A restriction that nobody cleared is latched, is about to be, or left a row
\* that keeps the recovery barrier closed.
RestrictInv ==
    /\ \A i \in DOMAIN evidence :
          RestrictionAt(i) /\ ~ClearedAfter(i) =>
             halt # None \/ LatchDue \/ (Driverless /\ possibly_live # {})
    /\ pc = "clearing" => \A i \in DOMAIN evidence : RestrictionAt(i) => ClearedAfter(i)

-----------------------------------------------------------------------------
(* Sequences and rows *)

\* What an append leaves and adds.
LEMMA AppendFacts ==
    ASSUME NEW S, NEW s \in Seq(S), NEW e \in S
    PROVE  /\ Append(s, e) \in Seq(S)
           /\ Len(Append(s, e)) = Len(s) + 1
           /\ DOMAIN Append(s, e) = 1..(Len(s) + 1) /\ DOMAIN s = 1..Len(s)
           /\ Len(s) + 1 \notin DOMAIN s
           /\ \A i \in DOMAIN s : Append(s, e)[i] = s[i]
           /\ Append(s, e)[Len(s) + 1] = e
  OBVIOUS

\* The events that arrive from outside.
LEMMA ArrivalTyped ==
    ASSUME TInv, NEW e \in {DecisionTick} \cup CorporateActions \cup ObservedResults
    PROVE  /\ e \in InboxRow /\ e.started = None /\ ~e.consumed
           /\ e.ref = 0
           /\ e.kind = "EGRESS_RESULT" <=> e.result \in ResultKinds
           /\ e.kind = "EGRESS_RESULT" => ledger # None /\ e.attempt = ledger.attempt
<1>1. CASE e = DecisionTick
  BY <1>1 DEF DecisionTick, Event, InboxRow, EventKinds, ResultKinds
<1>2. CASE e \in CorporateActions
  <2>1. PICK r \in {"RESTRICTIVE", "BENIGN"} : e = Event("CORPORATE_ACTION", None, r)
    BY <1>2 DEF CorporateActions
  <2> QED BY <2>1 DEF Event, InboxRow, EventKinds, ResultKinds
<1>3. CASE e \in ObservedResults
  <2>1. PICK k \in BrokerResults : /\ e = EgressResult(ledger.attempt, k)
                                   /\ ledger # None
    BY <1>3 DEF ObservedResults
  <2>2. ledger.attempt \in Nat
    BY <2>1 DEF TInv, Reservation
  <2> QED BY <2>1, <2>2 DEF EgressResult, BrokerResults, Event, InboxRow, EventKinds, ResultKinds
<1> QED BY <1>1, <1>2, <1>3

\* A stamped event differs from the event in its coordinate.
LEMMA StampTyped ==
    ASSUME NEW e \in InboxRow, NEW r \in Nat
    PROVE  LET f == [e EXCEPT !.ref = r] IN
           /\ f \in InboxRow /\ f.ref = r
           /\ f.kind = e.kind /\ f.attempt = e.attempt /\ f.result = e.result
           /\ f.started = e.started /\ f.consumed = e.consumed
  BY DEF InboxRow

-----------------------------------------------------------------------------
(* The steps by what they do to the two stores *)

QuietStep ==
    \/ BootReady \/ BootHolds \/ Crash \/ Raise
    \/ run_until_idle \/ WaitBoundElapses \/ Idle \/ FindInterrupted
    \/ HandleTick \/ HandleResult \/ HandleCorporateAction
    \/ GatewayRefuses \/ TransmitRaises \/ SendOnce
    \/ LatchViolation \/ LatchRestriction
    \/ RclReleases \/ RclKeeps \/ ReleaseProjection
    \/ project_recovered_finality \/ clear_new_risk_halt

RecordStep ==
    \/ BootDiverges \/ StartHandling \/ handle_interrupted_event \/ CloseInterrupted
    \/ RefuseHalted \/ SendStarted \/ SendHandedOff \/ ProjectionViolated
    \/ record_consumed \/ latch_restrictive \/ RecordRelease \/ ClearIsAttested

ArriveStep ==
    enqueue_and_run \/ QueueUntilRecovery \/ inject_due_timeouts \/ drain_gateway_results

MarkStep ==
    MarkRecovered \/ MarkInterrupted \/ MarkConsumed \/ mark_handling_started

\* Every step is of one of the four sorts.
LEMMA StepSorts == Next => QuietStep \/ RecordStep \/ ArriveStep \/ MarkStep
  BY DEF Next, Boot, ProcessNext, Environment, QuietStep, RecordStep, ArriveStep, MarkStep

\* A quiet step writes neither store.
LEMMA QuietFrame == QuietStep => inbox' = inbox /\ evidence' = evidence
  BY DEF QuietStep, BootReady, BootHolds, Crash, Raise, run_until_idle,
         WaitBoundElapses, Idle, FindInterrupted, HandleTick, HandleResult,
         HandleCorporateAction, GatewayRefuses, TransmitRaises, SendOnce,
         LatchViolation, LatchRestriction, RclReleases, RclKeeps,
         ReleaseProjection, project_recovered_finality, clear_new_risk_halt, durable

\* A row of the inbox has the fields of an event.
LEMMA RowTyped ==
    ASSUME TInv, NEW n \in Rows
    PROVE  /\ n \in Nat \ {0} /\ n \in 1..Len(inbox) /\ inbox[n] \in InboxRow
           /\ inbox[n].attempt \in Nat \cup {None}
           /\ inbox[n].started \in Nat \cup {None}
           /\ inbox[n].consumed \in BOOLEAN /\ inbox[n].ref \in Nat
           /\ inbox[n].kind \in EventKinds
<1>1. inbox[n] \in InboxRow /\ n \in 1..Len(inbox) /\ Len(inbox) \in Nat
  BY DEF TInv, Rows
<1> QED BY <1>1 DEF InboxRow

\* The oldest unmarked row exists.
LEMMA OldestUnmarked ==
    ASSUME TInv, unconsumed # {}
    PROVE  next_unconsumed \in Rows /\ ~inbox[next_unconsumed].consumed
<1>1. unconsumed \subseteq Nat
  BY DEF unconsumed, TInv
<1>2. \E n \in unconsumed : \A m \in unconsumed : n <= m
  BY <1>1, LeastNat
<1>3. next_unconsumed \in unconsumed
  BY <1>2 DEF next_unconsumed
<1> QED BY <1>3 DEF unconsumed, Rows

\* The receipt that is looked up is a receipt of the row.
LEMMA ReceiptFound ==
    ASSUME TInv, NEW n
    PROVE  /\ HasReceipt(n) => find_consumed_receipt(n) \in DOMAIN evidence
                                /\ Receipt(find_consumed_receipt(n), n)
           /\ ~HasReceipt(n) <=> find_consumed_receipt(n) = None
<1> DEFINE S == Seqs("EVENT_CONSUMED", n)
<1>1. HasReceipt(n) <=> S # {}
  BY DEF HasReceipt, Receipt, Seqs
<1>2. S \subseteq Nat /\ None \notin S
  BY NoneIsNew DEF Seqs, TInv
<1>3. ASSUME S # {}
      PROVE  find_consumed_receipt(n) \in S
  <2>1. \E i \in S : \A j \in S : i <= j
    BY <1>2, <1>3, LeastNat
  <2>2. find_consumed_receipt(n) = CHOOSE i \in S : \A j \in S : i <= j
    BY <1>3 DEF find_consumed_receipt
  <2> HIDE DEF S
  <2> QED BY <2>1, <2>2
<1>4. S = {} => find_consumed_receipt(n) = None
  BY DEF find_consumed_receipt
<1>5. \A i \in S : i \in DOMAIN evidence /\ Receipt(i, n)
  BY DEF Seqs, Receipt
<1> HIDE DEF S
<1> QED BY <1>1, <1>2, <1>3, <1>4, <1>5

\* A recording step appends one entry and leaves the inbox alone.  A receipt is
\* written for the row in hand, and only a receipt has an interrupted note.
LEMMA RecordFrame ==
    ASSUME IInv, RecordStep
    PROVE  /\ inbox' = inbox
           /\ \E e \in Entry :
                 /\ evidence' = Append(evidence, e)
                 /\ e.note \in InterruptedNotes =>
                       e.kind = "EVENT_CONSUMED" /\ pc = "closing" /\ e.note = note
                 /\ e.kind = "EVENT_CONSUMED" => e.row = cur /\ e.note = note'
                 /\ e.kind = "EVENT_CONSUMED" <=>
                       CloseInterrupted \/ RefuseHalted \/ record_consumed
<1> DEFINE Written(k, r, n) ==
             /\ inbox' = inbox
             /\ k \in EntryKinds /\ r \in Nat \cup {None} /\ n \in Notes
             /\ append(k, r, n)
             /\ n \in InterruptedNotes => k = "EVENT_CONSUMED" /\ pc = "closing" /\ n = note
             /\ k = "EVENT_CONSUMED" => r = cur /\ n = note'
             /\ k = "EVENT_CONSUMED" <=> CloseInterrupted \/ RefuseHalted \/ record_consumed
<1>0. SUFFICES \E k, r, n : Written(k, r, n)
  <2>1. PICK k, r, n : Written(k, r, n)
    BY <1>0
  <2>2. [kind |-> k, row |-> r, note |-> n] \in Entry
    BY <2>1 DEF Entry
  <2> QED BY <2>1, <2>2 DEF append
<1>1. /\ cur \in Nat \cup {None} /\ note \in Notes /\ halt \in Nat \cup {None}
      /\ Rows \subseteq Nat
  BY DEF IInv, TInv, Rows
<1>1a. CloseInterrupted \/ RefuseHalted \/ record_consumed =>
         pc' \in {"closed", "consumed"} /\ pc # "down"
  BY DEF CloseInterrupted, RefuseHalted, record_consumed
<1>2. CASE StartHandling
  <2>1. next_unconsumed \in Nat
    BY <1>1, <1>2, OldestUnmarked DEF StartHandling, IInv
  <2>2. Written("EVENT_HANDLING_STARTED", next_unconsumed, "NONE")
    BY <1>1a, <1>2, <2>1 DEF StartHandling, EntryKinds, Notes, InterruptedNotes
  <2> QED BY <2>2
<1>3. CASE CloseInterrupted
  <2>1. Written("EVENT_CONSUMED", cur, note)
    BY <1>1, <1>3 DEF CloseInterrupted, memory, EntryKinds
  <2> QED BY <2>1
<1>4. CASE record_consumed
  <2>1. Written("EVENT_CONSUMED", cur, note)
    BY <1>1, <1>4 DEF record_consumed, memory, IInv, PlaceInv, AfterCore, EntryKinds
  <2> QED BY <2>1
<1>5. CASE RefuseHalted
  <2>1. Written("EVENT_CONSUMED", cur, "NEW_RISK_HALTED")
    BY <1>1, <1>5 DEF RefuseHalted, EntryKinds, Notes, TickNotes, InterruptedNotes
  <2> QED BY <2>1
<1> USE DEF EntryKinds, Notes, InterruptedNotes
<1>6. CASE handle_interrupted_event
  <2>1. \/ Written("HANDLING_INTERRUPTED_POSSIBLY_LIVE_SEND", cur, "NONE")
        \/ Written("DECISION_TICK_DROPPED_ON_RECOVERY", cur, "NONE")
    BY <1>1a, <1>1, <1>6 DEF handle_interrupted_event
  <2> QED BY <2>1
<1>7. CASE RecordRelease
  <2>1. cur \in Rows
    BY <1>7 DEF RecordRelease, IInv, PlaceInv, AfterMarked
  <2>2. inbox[cur].attempt \in Nat \cup {None}
    BY <2>1, RowTyped DEF IInv
  <2>3. Written("ENGINE_PROJECTION_RELEASED", inbox[cur].attempt, "NONE")
    BY <1>1a, <1>7, <2>2 DEF RecordRelease
  <2> QED BY <2>3
<1>8. CASE BootDiverges
  <2>1. Written("REPLAY_DIVERGED", None, "NONE")
    BY <1>1a, <1>8 DEF BootDiverges
  <2> QED BY <2>1
<1>9. CASE SendStarted
  <2>1. Written("SEND_STARTED", cur, "NONE")
    BY <1>1a, <1>1, <1>9 DEF SendStarted
  <2> QED BY <2>1
<1>10. CASE SendHandedOff
  <2>1. Written("SEND_HANDED_OFF", cur, "NONE")
    BY <1>1a, <1>1, <1>10 DEF SendHandedOff
  <2> QED BY <2>1
<1>11. CASE ProjectionViolated
  <2>1. Written("COUPLING_VIOLATION", cur, "NONE")
    BY <1>1a, <1>1, <1>11 DEF ProjectionViolated
  <2> QED BY <2>1
<1>12. CASE latch_restrictive
  <2>1. Written("INCIDENT_CANDIDATE", cur, "NONE")
    BY <1>1a, <1>1, <1>12 DEF latch_restrictive
  <2> QED BY <2>1
<1>13. CASE ClearIsAttested
  <2>1. Written("NEW_RISK_HALT_CLEARED", halt, "NONE")
    BY <1>1a, <1>1, <1>13 DEF ClearIsAttested
  <2> QED BY <2>1
<1> QED BY <1>2, <1>3, <1>4, <1>5, <1>6, <1>7, <1>8, <1>9, <1>10, <1>11, <1>12,
           <1>13 DEF RecordStep

\* What an appended entry adds to the evidence store.
LEMMA RecordEffect ==
    ASSUME TInv, NEW e \in Entry, evidence' = Append(evidence, e), inbox' = inbox
    PROVE  /\ evidence' \in Seq(Entry)
           /\ DOMAIN evidence = 1..Len(evidence) /\ Len(evidence) \in Nat
           /\ Len(evidence') = Len(evidence) + 1
           /\ DOMAIN evidence' = 1..(Len(evidence) + 1)
           /\ \A i \in DOMAIN evidence : evidence'[i] = evidence[i]
           /\ evidence'[Len(evidence) + 1] = e
           /\ \A n : HasReceipt(n)' <=>
                     HasReceipt(n) \/ (e.kind = "EVENT_CONSUMED" /\ e.row = n)
<1>1. /\ evidence \in Seq(Entry) /\ Len(evidence) \in Nat
      /\ DOMAIN evidence = 1..Len(evidence)
  BY DEF TInv
<1>2. /\ evidence' \in Seq(Entry) /\ Len(evidence') = Len(evidence) + 1
      /\ DOMAIN evidence' = 1..(Len(evidence) + 1)
      /\ \A i \in DOMAIN evidence : evidence'[i] = evidence[i]
      /\ evidence'[Len(evidence) + 1] = e
  BY <1>1, AppendFacts
<1>3. ASSUME NEW n
      PROVE  HasReceipt(n)' <=>
                HasReceipt(n) \/ (e.kind = "EVENT_CONSUMED" /\ e.row = n)
  BY <1>1, <1>2 DEF HasReceipt, Receipt
<1> QED BY <1>1, <1>2, <1>3

\* An arriving event, if any, is appended to the inbox.
LEMMA ArriveFrame ==
    ASSUME IInv, ArriveStep
    PROVE  /\ evidence' = evidence
           /\ \/ inbox' = inbox
              \/ \E e \in InboxRow :
                    /\ inbox' = Append(inbox, e)
                    /\ e.started = None /\ ~e.consumed /\ e.ref \in {0, Len(inbox) + 1}
                    /\ e.kind = "EGRESS_RESULT" <=> e.result \in ResultKinds
                    /\ e.kind = "EGRESS_RESULT" => e.attempt \in Rows
<1> DEFINE Fresh(e) ==
             /\ e \in InboxRow /\ e.started = None /\ ~e.consumed
             /\ e.kind = "EGRESS_RESULT" <=> e.result \in ResultKinds
             /\ e.kind = "EGRESS_RESULT" => e.attempt \in Rows
           Goal == \E e \in InboxRow :
                      /\ inbox' = Append(inbox, e)
                      /\ e.started = None /\ ~e.consumed /\ e.ref \in {0, Len(inbox) + 1}
                      /\ e.kind = "EGRESS_RESULT" <=> e.result \in ResultKinds
                      /\ e.kind = "EGRESS_RESULT" => e.attempt \in Rows
<1>1. ASSUME NEW e, Fresh(e), enqueue_stamped(e), ~Driverless
      PROVE  Goal
  <2>1. issued = Len(inbox) /\ issued \in Nat
    BY <1>1 DEF IInv, StampInv, TInv
  <2> DEFINE f == [e EXCEPT !.ref = issued + 1]
  <2>2. Fresh(f) /\ f.ref = Len(inbox) + 1
    <3>1. e \in InboxRow /\ issued + 1 \in Nat
      BY <1>1, <2>1
    <3>2. /\ f \in InboxRow /\ f.ref = issued + 1
          /\ f.kind = e.kind /\ f.attempt = e.attempt /\ f.result = e.result
          /\ f.started = e.started /\ f.consumed = e.consumed
      BY <3>1, StampTyped
    <3> HIDE DEF f
    <3> QED BY <1>1, <2>1, <3>2
  <2>3. inbox' = Append(inbox, f)
    BY <1>1 DEF enqueue_stamped
  <2> HIDE DEF f
  <2> QED BY <2>2, <2>3
<1>2. \A e \in {DecisionTick} \cup CorporateActions \cup ObservedResults :
         Fresh(e) /\ e.ref = 0
  BY ArrivalTyped DEF IInv, MemoryInv
<1>3. CASE enqueue_and_run
  <2>1. PICK e \in {DecisionTick} \cup CorporateActions \cup ObservedResults :
           enqueue_stamped(e)
    BY <1>3 DEF enqueue_and_run
  <2>2. ~Driverless /\ evidence' = evidence
    BY <1>3 DEF enqueue_and_run, Driverless
  <2>3. Fresh(e)
    BY <1>2
  <2> HIDE DEF Fresh, Goal
  <2>4. Goal
    BY <1>1, <2>1, <2>2, <2>3
  <2> QED BY <2>2, <2>4 DEF Goal
<1>4. CASE QueueUntilRecovery
  <2>1. PICK e \in {DecisionTick} \cup CorporateActions : inbox' = Append(inbox, e)
    BY <1>4 DEF QueueUntilRecovery
  <2>2. evidence' = evidence
    BY <1>4 DEF QueueUntilRecovery
  <2>3. Fresh(e) /\ e.ref = 0
    BY <1>2
  <2> QED BY <2>1, <2>2, <2>3
<1>5. CASE inject_due_timeouts
  <2>1. CASE due
    <3>1. enqueue_stamped(EgressResult(timeouts.attempt, "TIMEOUT"))
      BY <1>5, <2>1 DEF inject_due_timeouts
    <3>2. ~Driverless /\ evidence' = evidence
      BY <1>5 DEF inject_due_timeouts, Driverless
    <3>3. timeouts.attempt \in Rows /\ timeouts.attempt \in Nat
      BY <2>1 DEF due, IInv, MemoryInv, TInv, Wait
    <3>4. Fresh(EgressResult(timeouts.attempt, "TIMEOUT"))
      BY <3>3 DEF EgressResult, Event, InboxRow, EventKinds, ResultKinds
    <3> HIDE DEF Fresh, Goal
    <3>5. Goal
      BY <1>1, <3>1, <3>2, <3>4
    <3> QED BY <3>2, <3>5 DEF Goal
  <2>2. CASE ~due
    BY <1>5, <2>2 DEF inject_due_timeouts
  <2> QED BY <2>1, <2>2
<1>6. CASE drain_gateway_results
  <2>1. CASE results # <<>>
    <3>1. enqueue_stamped(Head(results))
      BY <1>6, <2>1 DEF drain_gateway_results
    <3>2. ~Driverless /\ evidence' = evidence
      BY <1>6 DEF drain_gateway_results, Driverless
    <3>3. results \in Seq(InboxRow) /\ 1 \in DOMAIN results /\ Head(results) = results[1]
      BY <2>1 DEF IInv, TInv
    <3>4. results[1] \in InboxRow
      BY <3>3
    <3>5. Fresh(Head(results))
      BY <3>3, <3>4 DEF IInv, MemoryInv, BrokerResults, ResultKinds
    <3> HIDE DEF Fresh, Goal
    <3>6. Goal
      BY <1>1, <3>1, <3>2, <3>5
    <3> QED BY <3>2, <3>6 DEF Goal
  <2>2. CASE results = <<>>
    BY <1>6, <2>2 DEF drain_gateway_results
  <2> QED BY <2>1, <2>2
<1> QED BY <1>3, <1>4, <1>5, <1>6 DEF ArriveStep

\* What an appended event adds to the inbox.
LEMMA ArriveEffect ==
    ASSUME TInv, NEW e \in InboxRow, inbox' = Append(inbox, e)
    PROVE  /\ inbox' \in Seq(InboxRow) /\ Len(inbox) \in Nat
           /\ Len(inbox') = Len(inbox) + 1
           /\ Rows = 1..Len(inbox) /\ Rows' = Rows \cup {Len(inbox) + 1}
           /\ \A n \in Rows : inbox'[n] = inbox[n]
           /\ inbox'[Len(inbox) + 1] = e
<1>1. inbox \in Seq(InboxRow) /\ Len(inbox) \in Nat /\ DOMAIN inbox = 1..Len(inbox)
  BY DEF TInv
<1>2. /\ inbox' \in Seq(InboxRow) /\ Len(inbox') = Len(inbox) + 1
      /\ DOMAIN inbox' = 1..(Len(inbox) + 1)
      /\ \A i \in DOMAIN inbox : inbox'[i] = inbox[i]
      /\ inbox'[Len(inbox) + 1] = e
  BY <1>1, AppendFacts
<1> QED BY <1>1, <1>2 DEF Rows

\* A marking step sets one mark of one row: that it is consumed, if it has its
\* receipt, or that its handling starts.
Marks(m) ==
    /\ m \in Rows /\ ~inbox[m].consumed
    /\ inbox' \in Seq(InboxRow) /\ Len(inbox') = Len(inbox) /\ Rows' = Rows
    /\ \A n \in Rows :
          /\ inbox'[n].kind = inbox[n].kind /\ inbox'[n].attempt = inbox[n].attempt
          /\ inbox'[n].result = inbox[n].result /\ inbox'[n].ref = inbox[n].ref
          /\ n # m => inbox'[n] = inbox[n]
    /\ \/ /\ inbox'[m].consumed /\ HasReceipt(m) /\ pc # "marking"
          /\ inbox'[m].started = inbox[m].started
       \/ /\ pc = "marking" /\ cur = m /\ ~inbox'[m].consumed
          /\ inbox'[m].started = Len(evidence) /\ inbox[m].started = None

\* A step that marks a row records no evidence and changes that row only.
LEMMA MarkFrame ==
    ASSUME IInv, MarkStep
    PROVE  evidence' = evidence /\ \E m : Marks(m)
<1>1. ASSUME NEW m \in Rows, ~inbox[m].consumed, HasReceipt(m), mark_consumed(m), pc # "marking"
      PROVE  Marks(m)
  <2>1. inbox[m] \in InboxRow /\ inbox \in Seq(InboxRow)
    BY RowTyped DEF IInv, TInv
  <2>2. [inbox[m] EXCEPT !.consumed = TRUE] \in InboxRow
    BY <2>1 DEF InboxRow
  <2>3. /\ inbox' = [inbox EXCEPT ![m] = [inbox[m] EXCEPT !.consumed = TRUE]]
    BY <1>1 DEF mark_consumed
  <2>4. /\ inbox' \in Seq(InboxRow) /\ Len(inbox') = Len(inbox) /\ DOMAIN inbox' = DOMAIN inbox
        /\ \A n \in Rows : inbox'[n] = IF n = m THEN [inbox[m] EXCEPT !.consumed = TRUE]
                                       ELSE inbox[n]
    BY <1>1, <2>1, <2>2, <2>3 DEF Rows
  <2> QED BY <1>1, <2>1, <2>4 DEF Marks, Rows, InboxRow
<1>2. CASE MarkRecovered
  BY <1>1, <1>2, OldestUnmarked, ReceiptFound DEF MarkRecovered, IInv
<1>3. CASE MarkInterrupted \/ MarkConsumed
  BY <1>1, <1>3 DEF MarkInterrupted, MarkConsumed, IInv, PlaceInv, AfterReceipt
<1>4. CASE mark_handling_started
  <2>1. /\ cur \in Rows /\ ~inbox[cur].consumed /\ inbox[cur].started = None
        /\ pc = "marking" /\ evidence' = evidence
    BY <1>4 DEF mark_handling_started, IInv, PlaceInv, BeforeReceipt
  <2>2. inbox[cur] \in InboxRow /\ inbox \in Seq(InboxRow) /\ Len(evidence) \in Nat
    BY <2>1, RowTyped DEF IInv, TInv
  <2>3. [inbox[cur] EXCEPT !.started = Len(evidence)] \in InboxRow
    BY <2>2 DEF InboxRow
  <2>4. inbox' = [inbox EXCEPT ![cur] = [inbox[cur] EXCEPT !.started = Len(evidence)]]
    BY <1>4 DEF mark_handling_started
  <2>5. /\ inbox' \in Seq(InboxRow) /\ Len(inbox') = Len(inbox) /\ DOMAIN inbox' = DOMAIN inbox
        /\ \A n \in Rows : inbox'[n] = IF n = cur THEN [inbox[cur] EXCEPT !.started = Len(evidence)]
                                       ELSE inbox[n]
    BY <2>1, <2>2, <2>3, <2>4 DEF Rows
  <2>6. Marks(cur)
    BY <2>1, <2>2, <2>5 DEF Marks, Rows, InboxRow
  <2> QED BY <2>1, <2>6
<1> QED BY <1>2, <1>3, <1>4 DEF MarkStep

-----------------------------------------------------------------------------
(* The boot replay is a fold over the evidence *)

Accumulator ==
    [ledger : Reservation \cup {None}, ok : BOOLEAN, seen : SUBSET (Nat \cup {None})]

NothingReplayed == [ledger |-> None, ok |-> TRUE, seen |-> {}]

\* f has the replay's state after each entry up to the n-th.
Replays(f, n) ==
    f = [i \in 0..n |-> IF i = 0 THEN NothingReplayed ELSE ReplayEntry(f[i - 1], i)]

\* The recursion of the replay has a solution for every length.
LEMMA ReplayExists == \A n \in Nat : \E f : Replays(f, n)
<1> DEFINE Bad == {n \in Nat : ~ \E f : Replays(f, n)}
<1>1. SUFFICES ASSUME Bad # {} PROVE FALSE
  OBVIOUS
<1>2. PICK n \in Bad : \A m \in Bad : n <= m
  <2>1. Bad \subseteq Nat
    OBVIOUS
  <2> HIDE DEF Bad
  <2> QED BY <1>1, <2>1, LeastNat
<1>3. n # 0
  <2> DEFINE f == [i \in 0..0 |-> NothingReplayed]
  <2>1. Replays(f, 0)
    BY DEF Replays
  <2> HIDE DEF f
  <2> QED BY <2>1
<1>4. PICK f : Replays(f, n - 1)
  BY <1>2, <1>3
<1> DEFINE g == [i \in 0..n |-> IF i < n THEN f[i] ELSE ReplayEntry(f[n - 1], n)]
<1>5. ASSUME NEW i \in 0..n
      PROVE  g[i] = IF i = 0 THEN NothingReplayed ELSE ReplayEntry(g[i - 1], i)
  <2>1. CASE i = n
    BY <2>1, <1>2, <1>3
  <2>2. CASE i # n
    <3>1. i \in 0..(n - 1) /\ g[i] = f[i]
      BY <2>2, <1>2
    <3>2. i # 0 => i - 1 \in 0..n /\ i - 1 < n /\ g[i - 1] = f[i - 1]
      BY <3>1, <1>2
    <3>3. f[i] = IF i = 0 THEN NothingReplayed ELSE ReplayEntry(f[i - 1], i)
      BY <3>1, <1>4 DEF Replays
    <3> HIDE DEF g
    <3> QED BY <3>1, <3>2, <3>3
  <2> QED BY <2>1, <2>2
<1>6. g = [i \in 0..n |-> g[i]]
  OBVIOUS
<1> HIDE DEF g
<1>7. Replays(g, n)
  BY <1>5, <1>6 DEF Replays
<1> QED BY <1>2, <1>7

\* What the boot computes is the last state of the fold.
LEMMA ReplayIsFold ==
    ASSUME TInv
    PROVE  \E f : Replays(f, Len(evidence)) /\ replay_engine = f[Len(evidence)]
<1> DEFINE N == Len(evidence)
           acc == CHOOSE f : f = [i \in 0..N |->
                     IF i = 0 THEN [ledger |-> None, ok |-> TRUE, seen |-> {}]
                     ELSE ReplayEntry(f[i - 1], i)]
<1>1. N \in Nat
  BY DEF TInv
<1>2. acc = [i \in 0..N |-> IF i = 0 THEN [ledger |-> None, ok |-> TRUE, seen |-> {}]
                            ELSE ReplayEntry(acc[i - 1], i)]
  BY <1>1, ReplayExists DEF Replays, NothingReplayed
<1>3. replay_engine = acc[N]
  BY DEF replay_engine
<1> HIDE DEF acc
<1> QED BY <1>2, <1>3 DEF Replays, NothingReplayed

\* Applying a result keeps the reservation's attempt.
LEMMA AppliedTyped ==
    ASSUME NEW l \in Reservation, NEW row, row.result \in ResultKinds
    PROVE  /\ Applied(l, row) \in Reservation
           /\ Applied(l, row).attempt = l.attempt
<1>1. Knowledge[row.result] \in {"ACKNOWLEDGED", "FILLED", "UNKNOWN"}
  BY DEF Knowledge, ResultKinds
<1>2. l.seen \cup {row.result} \in SUBSET {"ACK", "FULL_FILL", "TIMEOUT"}
  BY DEF Reservation, ResultKinds
<1> DEFINE k == Knowledge[row.result]
           s == l.seen \cup {row.result}
<1> HIDE DEF k, s
<1>3. /\ [l EXCEPT !.knowledge = k, !.seen = s] \in Reservation
      /\ [l EXCEPT !.knowledge = k, !.seen = s].attempt = l.attempt
  BY <1>1, <1>2 DEF k, s, Reservation
<1> QED BY <1>3 DEF Applied, k, s

\* An entry replayed on a typed state gives a typed state.
LEMMA ReplayEntryTyped ==
    ASSUME TInv, StoreInv, NEW i \in DOMAIN evidence, NEW a \in Accumulator,
           a.ledger # None => a.ledger.attempt \in Rows
    PROVE  /\ ReplayEntry(a, i) \in Accumulator
           /\ ReplayEntry(a, i).ledger # None => ReplayEntry(a, i).ledger.attempt \in Rows
<1> DEFINE Good(b) == b \in Accumulator /\ (b.ledger # None => b.ledger.attempt \in Rows)
<1>1. evidence[i] \in Entry
  BY DEF TInv
<1>2. Good([a EXCEPT !.ok = FALSE]) /\ Good(a) /\ Good([a EXCEPT !.ledger = None])
  BY DEF Accumulator
<1>3. ASSUME NEW n \in Rows, NEW r
      PROVE  Good(ReplayTick(a, n, r))
  <2>1. Unsent(n) \in Reservation /\ Sent(n) \in Reservation
    BY <1>3, RowTyped DEF Unsent, Sent, Reservation
  <2>2. Unsent(n).attempt = n /\ Sent(n).attempt = n
    BY DEF Unsent, Sent
  <2>3. ASSUME NEW p \in BOOLEAN PROVE Good([a EXCEPT !.ok = p])
    BY <2>3 DEF Accumulator
  <2>4. ASSUME NEW p \in BOOLEAN, NEW l \in {Sent(n), Unsent(n)}
        PROVE  Good([a EXCEPT !.ok = p, !.ledger = l])
    BY <1>3, <2>1, <2>2, <2>4 DEF Accumulator
  <2> HIDE DEF Good
  <2> QED BY <1>2, <2>3, <2>4 DEF ReplayTick
<1>4. ASSUME NEW n \in Rows, NEW r, inbox[n].kind = "EGRESS_RESULT"
      PROVE  Good(ReplayResult(a, inbox[n], r))
  <2>1. inbox[n].result \in ResultKinds /\ inbox[n].attempt \in Nat \cup {None}
    BY <1>4, RowTyped DEF StoreInv
  <2>2. Applies(a.ledger, inbox[n]) => a.ledger \in Reservation
    BY DEF Applies, Accumulator
  <2>3. Applies(a.ledger, inbox[n]) => /\ Applied(a.ledger, inbox[n]) \in Reservation
                                      /\ Applied(a.ledger, inbox[n]).attempt = a.ledger.attempt
    BY <2>1, <2>2, AppliedTyped
  <2> QED BY <2>1, <2>2, <2>3 DEF ReplayResult, Accumulator, Applies
<1> HIDE DEF Good
<1>5. ASSUME evidence[i].kind = "EVENT_CONSUMED"
      PROVE  Good(compare_one_event(a, evidence[i].row, evidence[i].note))
  <2>1. evidence[i].row \in Rows
    BY <1>5 DEF StoreInv
  <2> QED BY <1>2, <1>3, <1>4, <2>1 DEF compare_one_event
<1>6. Good(ReplayRelease(a, evidence[i].row))
  BY <1>2 DEF ReplayRelease
<1>7. Good(ReplayEntry(a, i))
  BY <1>2, <1>5, <1>6 DEF ReplayEntry
<1> QED BY <1>7 DEF Good

\* Every state of the fold is typed, and its ledger names a row.
LEMMA ReplayTyped ==
    ASSUME TInv, StoreInv, NEW f, Replays(f, Len(evidence))
    PROVE  \A i \in 0..Len(evidence) :
              /\ f[i] \in Accumulator
              /\ f[i].ledger # None => f[i].ledger.attempt \in Rows
<1> DEFINE N == Len(evidence)
           S == {i \in 0..N : f[i] \in Accumulator
                                /\ (f[i].ledger # None => f[i].ledger.attempt \in Rows)}
<1>1. N \in Nat /\ DOMAIN evidence = 1..N
  BY DEF TInv
<1>2. 0 \in S
  BY <1>1 DEF Replays, NothingReplayed, Accumulator
<1>3. ASSUME NEW i \in 0..N, i \in S, i < N
      PROVE  i + 1 \in S
  <2>1. i + 1 \in DOMAIN evidence /\ i + 1 \in 0..N /\ (i + 1) - 1 = i
    BY <1>1, <1>3
  <2>2. f[i + 1] = ReplayEntry(f[i], i + 1)
    BY <1>1, <2>1 DEF Replays
  <2> QED BY <1>3, <2>1, <2>2, ReplayEntryTyped
<1> HIDE DEF N, S
<1>4. \A i \in 0..N : i \in S
  <2>1. N \in Nat /\ 0 \in S /\ \A i \in 0..N : i \in S /\ i < N => i + 1 \in S
    BY <1>1, <1>2, <1>3
  <2> QED BY <2>1, SetInduction
<1> QED BY <1>4 DEF N, S

\* The ledger a boot would rebuild is a reservation of a row, or none.
LEMMA ReplayedLedger ==
    ASSUME TInv, StoreInv
    PROVE  /\ replay_engine.ledger \in Reservation \cup {None}
           /\ replay_engine.ledger # None => replay_engine.ledger.attempt \in Rows
<1>1. PICK f : Replays(f, Len(evidence)) /\ replay_engine = f[Len(evidence)]
  BY ReplayIsFold
<1>2. Len(evidence) \in 0..Len(evidence)
  BY DEF TInv
<1>3. replay_engine \in Accumulator
  BY <1>1, <1>2, ReplayTyped
<1> QED BY <1>1, <1>2, <1>3, ReplayTyped DEF Accumulator

-----------------------------------------------------------------------------
(* What no step takes back *)

\* Entries stay as they are; rows keep what they say, a marker and a mark.
Grows ==
    /\ Rows \subseteq Rows' /\ DOMAIN evidence \subseteq DOMAIN evidence'
    /\ \A i \in DOMAIN evidence : evidence'[i] = evidence[i]
    /\ \A n \in Rows :
          /\ inbox'[n].kind = inbox[n].kind /\ inbox'[n].attempt = inbox[n].attempt
          /\ inbox'[n].result = inbox[n].result /\ inbox'[n].ref = inbox[n].ref
          /\ inbox[n].started # None => inbox'[n].started = inbox[n].started
          /\ inbox[n].consumed => inbox'[n].consumed

\* Rows and evidence that are there stay, whatever step is taken.
LEMMA StoresGrow ==
    ASSUME IInv, Next
    PROVE  /\ inbox' \in Seq(InboxRow) /\ evidence' \in Seq(Entry)
           /\ Grows
<1>1. inbox \in Seq(InboxRow) /\ evidence \in Seq(Entry) /\ TInv
  BY DEF IInv, TInv
<1>2. CASE QuietStep
  BY <1>1, <1>2, QuietFrame DEF Grows, Rows
<1>3. CASE RecordStep
  <2>1. PICK e \in Entry : evidence' = Append(evidence, e)
    BY <1>3, RecordFrame
  <2>2. inbox' = inbox
    BY <1>3, RecordFrame
  <2>3. /\ evidence' \in Seq(Entry) /\ DOMAIN evidence \subseteq DOMAIN evidence'
        /\ \A i \in DOMAIN evidence : evidence'[i] = evidence[i]
    BY <1>1, <2>1, <2>2, RecordEffect
  <2> QED BY <1>1, <2>2, <2>3 DEF Grows, Rows
<1>4. CASE ArriveStep
  <2>1. evidence' = evidence
    BY <1>4, ArriveFrame
  <2>2. CASE inbox' = inbox
    BY <1>1, <2>1, <2>2 DEF Grows, Rows
  <2>3. CASE inbox' # inbox
    <3>1. PICK e \in InboxRow : inbox' = Append(inbox, e)
      BY <1>4, <2>3, ArriveFrame
    <3>2. inbox' \in Seq(InboxRow) /\ Rows \subseteq Rows' /\ \A n \in Rows : inbox'[n] = inbox[n]
      BY <1>1, <3>1, ArriveEffect
    <3> QED BY <1>1, <2>1, <3>2 DEF Grows
  <2> QED BY <2>2, <2>3
<1>5. CASE MarkStep
  <2>1. PICK m : Marks(m)
    BY <1>5, MarkFrame
  <2>2. evidence' = evidence
    BY <1>5, MarkFrame
  <2>3. ASSUME NEW n \in Rows
        PROVE  /\ inbox[n].started # None => inbox'[n].started = inbox[n].started
               /\ inbox[n].consumed => inbox'[n].consumed
    BY <2>1, <2>3 DEF Marks
  <2> QED BY <1>1, <2>1, <2>2, <2>3 DEF Marks, Grows
<1> QED BY <1>2, <1>3, <1>4, <1>5, StepSorts

\* Receipts and the evidence of a send stay.
LEMMA EvidenceStays ==
    ASSUME IInv, Next
    PROVE  /\ \A n : HasReceipt(n) => HasReceipt(n)'
           /\ \A n \in Rows : inbox[n].started # None /\ SendEvidence(n) => SendEvidence(n)'
<1>1. Grows
  BY StoresGrow
<1> QED BY <1>1 DEF Grows, HasReceipt, Receipt, SendEvidence

\* Who writes a variable.
LEMMA Writers ==
    ASSUME Next
    PROVE  /\ halt' = halt \/ LatchViolation \/ LatchRestriction \/ clear_new_risk_halt
           /\ released' = released \/ RclReleases
           /\ network' = network \/ SendOnce
           /\ cur' = cur \/ Crash \/ Raise \/ Idle \/ FindInterrupted \/ StartHandling
                         \/ project_recovered_finality
           /\ issued' = issued \/ BootReady \/ Crash \/ ArriveStep
           /\ ledger' = ledger \/ BootReady \/ Crash \/ HandleTick \/ HandleResult
                               \/ ReleaseProjection
           /\ results' = results \/ Crash \/ SendOnce \/ drain_gateway_results
           /\ timeouts' = timeouts \/ Crash \/ WaitBoundElapses \/ inject_due_timeouts
                                   \/ MarkConsumed
           /\ handles' = handles \/ HandleTick \/ HandleResult \/ HandleCorporateAction
           /\ boots' = boots \/ Boot
           /\ raises' = raises \/ Raise
<1> USE DEF Next, Boot, ProcessNext, Environment, ArriveStep, durable, memory, history
<1>1. ASSUME Boot \/ Crash \/ Raise \/ Environment
      PROVE  /\ halt' = halt /\ released' = released /\ network' = network
             /\ cur' = cur \/ Crash \/ Raise \/ project_recovered_finality
             /\ issued' = issued \/ BootReady \/ Crash \/ ArriveStep
             /\ ledger' = ledger \/ BootReady \/ Crash
             /\ results' = results \/ Crash
             /\ timeouts' = timeouts \/ Crash \/ WaitBoundElapses
             /\ handles' = handles
             /\ boots' = boots \/ Boot
             /\ raises' = raises \/ Raise
  BY <1>1 DEF BootReady, BootHolds, BootDiverges, Crash, Raise, enqueue_and_run,
     run_until_idle, QueueUntilRecovery, WaitBoundElapses,
     project_recovered_finality, ClearIsAttested
<1>2. ASSUME ProcessNext
      PROVE  /\ halt' = halt \/ LatchViolation \/ LatchRestriction \/ clear_new_risk_halt
             /\ released' = released \/ RclReleases
             /\ network' = network \/ SendOnce
             /\ cur' = cur \/ Idle \/ FindInterrupted \/ StartHandling
             /\ issued' = issued \/ ArriveStep
             /\ ledger' = ledger \/ HandleTick \/ HandleResult \/ ReleaseProjection
             /\ results' = results \/ SendOnce \/ drain_gateway_results
             /\ timeouts' = timeouts \/ inject_due_timeouts \/ MarkConsumed
             /\ handles' = handles \/ HandleTick \/ HandleResult \/ HandleCorporateAction
             /\ boots' = boots /\ raises' = raises
  BY <1>2 DEF inject_due_timeouts, Idle, MarkRecovered,
     FindInterrupted, StartHandling, mark_handling_started,
     handle_interrupted_event, CloseInterrupted, MarkInterrupted, RefuseHalted,
     HandleTick, HandleResult, HandleCorporateAction, GatewayRefuses,
     SendStarted, TransmitRaises, SendOnce, SendHandedOff, ProjectionViolated,
     LatchViolation, record_consumed, latch_restrictive, LatchRestriction,
     MarkConsumed, RclReleases, RclKeeps, ReleaseProjection, RecordRelease,
     drain_gateway_results, clear_new_risk_halt
<1> QED BY <1>1, <1>2

\* Who writes receipts, and for which row.
LEMMA ReceiptWriters ==
    ASSUME IInv, Next, NEW n
    PROVE  HasReceipt(n)' <=>
             HasReceipt(n) \/ (n = cur /\ (CloseInterrupted \/ RefuseHalted \/ record_consumed))
<1>1. CASE RecordStep
  <2>1. PICK e \in Entry :
           /\ evidence' = Append(evidence, e)
           /\ e.kind = "EVENT_CONSUMED" => e.row = cur
           /\ e.kind = "EVENT_CONSUMED" <=> CloseInterrupted \/ RefuseHalted \/ record_consumed
    BY <1>1, RecordFrame
  <2>2. inbox' = inbox
    BY <1>1, RecordFrame
  <2>3. HasReceipt(n)' <=> HasReceipt(n) \/ (e.kind = "EVENT_CONSUMED" /\ e.row = n)
    BY <2>1, <2>2, RecordEffect DEF IInv
  <2> QED BY <2>1, <2>3
<1>2. CASE ~RecordStep
  <2>1. evidence' = evidence
    BY <1>2, StepSorts, QuietFrame, ArriveFrame, MarkFrame
  <2>2. ~CloseInterrupted /\ ~RefuseHalted /\ ~record_consumed
    BY <1>2 DEF RecordStep
  <2> QED BY <2>1, <2>2 DEF HasReceipt, Receipt
<1> QED BY <1>1, <1>2

\* The same, for the row in hand after the step.
LEMMA ReceiptInHand ==
    ASSUME IInv, Next
    PROVE  HasReceipt(cur)' <=>
             \/ HasReceipt(cur')
             \/ cur' = cur /\ (CloseInterrupted \/ RefuseHalted \/ record_consumed)
<1>1. PICK n : n = cur'
  OBVIOUS
<1>2. HasReceipt(cur)' <=> HasReceipt(n)'
  BY <1>1 DEF HasReceipt, Receipt
<1>3. HasReceipt(cur') <=> HasReceipt(n)
  BY <1>1
<1>4. HasReceipt(n)' <=>
        HasReceipt(n) \/ (n = cur /\ (CloseInterrupted \/ RefuseHalted \/ record_consumed))
  BY ReceiptWriters
<1> QED BY <1>1, <1>2, <1>3, <1>4

\* Every variable stays of its kind.
LEMMA TypePreserved == ASSUME IInv, Next PROVE TInv'
<1>1. inbox' \in Seq(InboxRow) /\ evidence' \in Seq(Entry)
  BY StoresGrow
<1>2. TInv /\ StoreInv /\ PlaceInv
  BY DEF IInv
<1>3. halt' \in Nat \cup {None}
  <2>0. halt \in Nat \cup {None} /\ Len(evidence) \in Nat /\ DOMAIN evidence \subseteq Nat
    BY <1>2 DEF TInv
  <2>1. CASE LatchViolation
    BY <2>0, <2>1 DEF LatchViolation, record_new_risk_halt
  <2>2. CASE LatchRestriction
    <3>1. HasReceipt(cur)
      BY <1>2, <2>2 DEF LatchRestriction, PlaceInv, AfterReceipt
    <3>2. find_consumed_receipt(cur) \in DOMAIN evidence
      BY <1>2, <3>1, ReceiptFound
    <3> QED BY <2>0, <2>2, <3>2 DEF LatchRestriction, record_new_risk_halt
  <2>3. CASE clear_new_risk_halt
    BY <2>3 DEF clear_new_risk_halt
  <2> QED BY <2>0, <2>1, <2>2, <2>3, Writers
<1>4. cur' \in Nat \cup {None}
  <2>1. cur \in Nat \cup {None} /\ DOMAIN inbox \subseteq Nat
    BY <1>2 DEF TInv
  <2>2. unconsumed # {} => next_unconsumed \in Nat
    BY <1>2, <2>1, OldestUnmarked DEF Rows
  <2> QED BY <2>1, <2>2, Writers
       DEF Crash, Raise, Idle, FindInterrupted, StartHandling, project_recovered_finality
<1>5. issued' \in Nat
  <2>1. issued \in Nat /\ Len(inbox) \in Nat
    BY <1>2 DEF TInv
  <2>2. ArriveStep => issued' \in {issued, issued + 1}
    BY DEF ArriveStep, enqueue_and_run, QueueUntilRecovery, inject_due_timeouts,
           drain_gateway_results, enqueue_stamped, memory
  <2> QED BY <2>1, <2>2, Writers DEF BootReady, Crash
<1>6. ledger' \in Reservation \cup {None}
  <2>1. ledger \in Reservation \cup {None}
    BY <1>2 DEF TInv
  <2>2. CASE BootReady
    BY <1>2, <2>2, ReplayedLedger DEF BootReady
  <2>3. CASE HandleTick
    <3>1. cur \in Rows
      BY <1>2, <2>3 DEF HandleTick, PlaceInv, BeforeReceipt
    <3>2. cur \in Nat
      BY <1>2, <3>1, RowTyped
    <3>3. Sent(cur) \in Reservation /\ Unsent(cur) \in Reservation
      BY <3>2 DEF Sent, Unsent, Reservation
    <3> QED BY <2>1, <2>3, <3>3 DEF HandleTick, FlowOutcome
  <2>4. CASE HandleResult
    <3>1. cur \in Rows /\ inbox[cur].kind = "EGRESS_RESULT"
      BY <1>2, <2>4 DEF HandleResult, PlaceInv, BeforeReceipt
    <3>2. inbox[cur].result \in ResultKinds
      BY <1>2, <3>1 DEF StoreInv
    <3>3. Applies(ledger, inbox[cur]) => Applied(ledger, inbox[cur]) \in Reservation
      BY <2>1, <3>2, AppliedTyped DEF Applies
    <3> QED BY <2>1, <2>4, <3>3 DEF HandleResult
  <2>5. CASE ReleaseProjection \/ Crash
    BY <2>1, <2>5 DEF ReleaseProjection, Crash
  <2> QED BY <2>1, <2>2, <2>3, <2>4, <2>5, Writers
<1>7. results' \in Seq(InboxRow)
  <2>1. results \in Seq(InboxRow)
    BY <1>2 DEF TInv
  <2>2. CASE SendOnce
    <3>1. cur \in Rows
      BY <1>2, <2>2 DEF SendOnce, PlaceInv, BeforeReceipt
    <3>2. cur \in Nat
      BY <1>2, <3>1, RowTyped
    <3>3. \A k \in BrokerResults : EgressResult(cur, k) \in InboxRow
      BY <3>2 DEF BrokerResults, EgressResult, Event, InboxRow, EventKinds, ResultKinds
    <3> QED BY <2>1, <2>2, <3>3 DEF SendOnce
  <2>3. CASE drain_gateway_results
    BY <2>1, <2>3 DEF drain_gateway_results
  <2>4. CASE Crash
    BY <2>4 DEF Crash
  <2> QED BY <2>1, <2>2, <2>3, <2>4, Writers
<1>8. timeouts' \in Wait \cup {None}
  <2>1. timeouts \in Wait \cup {None}
    BY <1>2 DEF TInv
  <2>2. CASE WaitBoundElapses
    BY <2>1, <2>2 DEF WaitBoundElapses, Wait
  <2>3. CASE inject_due_timeouts
    <3>1. due => [timeouts EXCEPT !.timed_out = TRUE] \in Wait
      BY <2>1 DEF due, Wait
    <3> QED BY <2>1, <2>3, <3>1 DEF inject_due_timeouts
  <2>4. CASE MarkConsumed
    <3>1. cur \in Rows
      BY <1>2, <2>4 DEF MarkConsumed, PlaceInv, AfterReceipt
    <3>2. cur \in Nat
      BY <1>2, <3>1, RowTyped
    <3>3. [attempt |-> cur, elapsed |-> FALSE, timed_out |-> FALSE] \in Wait
      BY <3>2 DEF Wait
    <3> QED BY <2>1, <2>4, <3>3 DEF MarkConsumed, track_timeouts
  <2> QED BY <2>1, <2>2, <2>3, <2>4, Writers DEF Crash
<1>9. handles' \in Seq(Nat)
  <2>1. handles \in Seq(Nat)
    BY <1>2 DEF TInv
  <2>2. CASE HandleTick \/ HandleResult \/ HandleCorporateAction
    <3>1. cur \in Rows /\ handles' = Append(handles, cur)
      BY <1>2, <2>2 DEF HandleTick, HandleResult, HandleCorporateAction, PlaceInv, BeforeReceipt
    <3>2. cur \in Nat
      BY <1>2, <3>1, RowTyped
    <3> QED BY <2>1, <3>1, <3>2
  <2> QED BY <2>1, <2>2, Writers
<1>10. boots' \in 0..MaxBoots /\ raises' \in 0..MaxRaises
  <2>1. boots \in 0..MaxBoots /\ raises \in 0..MaxRaises
    BY <1>2 DEF TInv
  <2> QED BY <2>1, BoundsAreNaturals, Writers
       DEF Boot, BootReady, BootHolds, BootDiverges, Raise
<1>11. pc' \in Places /\ note' \in Notes
  <2>0. pc \in Places /\ note \in Notes /\ (pc = "clearing" => note \in {"idle", "held"})
    BY <1>2 DEF TInv, PlaceInv
  <2>1. CASE Boot \/ Crash \/ Raise \/ Environment
    BY <2>0, <2>1 DEF Boot, Environment, BootReady, BootHolds, BootDiverges, Crash, Raise,
       enqueue_and_run, run_until_idle, QueueUntilRecovery, WaitBoundElapses,
       project_recovered_finality, ClearIsAttested, memory, Places, Notes
  <2>2. CASE HandleCorporateAction
    <3>1. cur \in Rows
      BY <1>2, <2>2 DEF HandleCorporateAction, PlaceInv, BeforeReceipt
    <3>2. inbox[cur] \in InboxRow
      BY <1>2, <3>1, RowTyped
    <3>3. inbox[cur].result \in Notes
      BY <3>2 DEF InboxRow, Notes
    <3> QED BY <2>2, <3>3 DEF HandleCorporateAction, Places
  <2>3. CASE HandleTick
    BY <2>0, <2>3 DEF HandleTick, FlowOutcome, Places, Notes, TickNotes
  <2>4. CASE MarkConsumed
    BY <2>0, <2>4 DEF MarkConsumed, AfterMark, Places
  <2>5. CASE SendOnce
    BY <2>0, <2>5 DEF SendOnce, Places, Notes, TickNotes
  <2>6. CASE ProcessNext /\ ~HandleCorporateAction /\ ~HandleTick /\ ~MarkConsumed /\ ~SendOnce
    <3>1. /\ pc' \in Places
      BY <2>0, <2>6 DEF ProcessNext, inject_due_timeouts, Idle, MarkRecovered,
         FindInterrupted, StartHandling, mark_handling_started,
         handle_interrupted_event, CloseInterrupted, MarkInterrupted, RefuseHalted,
         HandleResult, GatewayRefuses, SendStarted, TransmitRaises, SendHandedOff,
         ProjectionViolated, LatchViolation, record_consumed, latch_restrictive,
         LatchRestriction, RclReleases, RclKeeps, ReleaseProjection, RecordRelease,
         drain_gateway_results, clear_new_risk_halt, Places
    <3>2. \/ note' = note
          \/ note' \in InterruptedNotes \cup {"NONE", "NEW_RISK_HALTED", "APPLIED",
                           "NOT_APPLIED", "TRANSMIT_RAISED", "HANDED_OFF"}
      BY <2>6 DEF ProcessNext, inject_due_timeouts, Idle, MarkRecovered,
         FindInterrupted, StartHandling, mark_handling_started,
         handle_interrupted_event, CloseInterrupted, MarkInterrupted, RefuseHalted,
         HandleResult, GatewayRefuses, SendStarted, TransmitRaises, SendHandedOff,
         ProjectionViolated, LatchViolation, record_consumed, latch_restrictive,
         LatchRestriction, RclReleases, RclKeeps, ReleaseProjection, RecordRelease,
         drain_gateway_results, clear_new_risk_halt, memory, InterruptedNotes
    <3> QED BY <2>0, <3>1, <3>2 DEF Notes, TickNotes
  <2> QED BY <2>1, <2>2, <2>3, <2>4, <2>5, <2>6 DEF Next, ProcessNext
<1> QED BY <1>1, <1>3, <1>4, <1>5, <1>6, <1>7, <1>8, <1>9, <1>10, <1>11 DEF TInv

\* The stores stay consistent with each other.
LEMMA StorePreserved == ASSUME IInv, Next PROVE StoreInv'
<1>1. TInv /\ StoreInv /\ PlaceInv /\ Grows
  BY StoresGrow DEF IInv
<1>2. /\ Rows = 1..Len(inbox) /\ Len(inbox) \in Nat /\ Rows \subseteq Rows'
      /\ DOMAIN evidence = 1..Len(evidence) /\ Len(evidence) \in Nat
      /\ DOMAIN evidence \subseteq DOMAIN evidence'
  BY <1>1 DEF TInv, Rows, Grows
<1>3. ASSUME NEW n \in Rows'
      PROVE  /\ inbox'[n].started \in DOMAIN evidence' \cup {None}
             /\ inbox'[n].consumed => HasReceipt(n)'
             /\ inbox'[n].kind = "EGRESS_RESULT" <=> inbox'[n].result \in ResultKinds
             /\ inbox'[n].kind = "EGRESS_RESULT" => inbox'[n].attempt \in 1..(n - 1)
  <2>1. CASE n \in Rows /\ inbox'[n] = inbox[n]
    BY <1>1, <1>2, <2>1, EvidenceStays DEF StoreInv
  <2>2. CASE n \in Rows /\ inbox'[n] # inbox[n]
    <3>1. MarkStep
      <4>1. ~QuietStep /\ ~RecordStep
        BY <2>2, QuietFrame, RecordFrame
      <4>2. ASSUME ArriveStep PROVE FALSE
        <5>1. PICK e \in InboxRow : inbox' = Append(inbox, e)
          BY <2>2, <4>2, ArriveFrame
        <5> QED BY <1>1, <2>2, <5>1, ArriveEffect
      <4> QED BY <4>1, <4>2, StepSorts
    <3>2. PICK m : Marks(m)
      BY <3>1, MarkFrame
    <3>3. evidence' = evidence /\ n = m
      BY <2>2, <3>1, <3>2, MarkFrame DEF Marks
    <3>4. CASE inbox'[m].consumed /\ HasReceipt(m) /\ inbox'[m].started = inbox[m].started
      BY <1>1, <2>2, <3>2, <3>3, <3>4 DEF Marks, StoreInv, HasReceipt, Receipt
    <3>5. CASE pc = "marking" /\ ~inbox'[m].consumed /\ inbox'[m].started = Len(evidence)
      <4>1. Len(evidence) \in DOMAIN evidence
        BY <1>1, <1>2, <3>5 DEF PlaceInv
      <4> QED BY <1>1, <2>2, <3>2, <3>3, <3>5, <4>1 DEF Marks, StoreInv
    <3> QED BY <3>2, <3>4, <3>5 DEF Marks
  <2>3. CASE n \notin Rows
    <3>1. ArriveStep /\ inbox' # inbox
      BY <2>3, StepSorts, QuietFrame, RecordFrame, MarkFrame DEF Marks, Rows
    <3>2. PICK e \in InboxRow :
             /\ inbox' = Append(inbox, e)
             /\ e.started = None /\ ~e.consumed
             /\ e.kind = "EGRESS_RESULT" <=> e.result \in ResultKinds
             /\ e.kind = "EGRESS_RESULT" => e.attempt \in Rows
      BY <3>1, ArriveFrame
    <3>3. n = Len(inbox) + 1 /\ inbox'[n] = e
      BY <1>1, <2>3, <3>2, ArriveEffect
    <3> QED BY <1>2, <3>2, <3>3
  <2> QED BY <2>1, <2>2, <2>3
<1>4. ASSUME NEW i \in DOMAIN evidence'
      PROVE  /\ evidence'[i].note \in InterruptedNotes => evidence'[i].kind = "EVENT_CONSUMED"
             /\ evidence'[i].kind = "EVENT_CONSUMED" => evidence'[i].row \in Rows'
  <2>1. CASE i \in DOMAIN evidence
    BY <1>1, <1>2, <2>1 DEF StoreInv, Grows
  <2>2. CASE i \notin DOMAIN evidence
    <3>1. RecordStep
      BY <2>2, StepSorts, QuietFrame, ArriveFrame, MarkFrame
    <3>2. PICK e \in Entry :
             /\ evidence' = Append(evidence, e)
             /\ e.note \in InterruptedNotes => e.kind = "EVENT_CONSUMED"
             /\ e.kind = "EVENT_CONSUMED" =>
                   e.row = cur /\ (CloseInterrupted \/ RefuseHalted \/ record_consumed)
      BY <3>1, RecordFrame
    <3>3. inbox' = inbox
      BY <3>1, RecordFrame
    <3>4. evidence'[i] = e
      BY <1>1, <2>2, <3>2, <3>3, RecordEffect
    <3>5. CloseInterrupted \/ RefuseHalted \/ record_consumed => cur \in Rows
      BY <1>1 DEF CloseInterrupted, RefuseHalted, record_consumed, PlaceInv, BeforeReceipt
    <3> QED BY <1>2, <3>2, <3>4, <3>5
  <2> QED BY <2>1, <2>2
<1>5. halt' \in DOMAIN evidence' \cup {None}
  <2>1. halt \in DOMAIN evidence \cup {None}
    BY <1>1 DEF StoreInv
  <2>2. CASE LatchViolation
    <3>1. Len(evidence) \in DOMAIN evidence
      BY <1>1, <1>2, <2>2 DEF LatchViolation, PlaceInv
    <3> QED BY <1>2, <2>1, <2>2, <3>1 DEF LatchViolation, record_new_risk_halt
  <2>3. CASE LatchRestriction
    <3>1. HasReceipt(cur)
      BY <1>1, <2>3 DEF LatchRestriction, PlaceInv, AfterReceipt
    <3>2. find_consumed_receipt(cur) \in DOMAIN evidence
      BY <1>1, <3>1, ReceiptFound
    <3> QED BY <1>2, <2>1, <2>3, <3>2 DEF LatchRestriction, record_new_risk_halt
  <2>4. CASE clear_new_risk_halt
    BY <2>4 DEF clear_new_risk_halt
  <2> QED BY <1>2, <2>1, <2>2, <2>3, <2>4, Writers
<1> QED BY <1>3, <1>4, <1>5 DEF StoreInv

\* What memory names still exists.
LEMMA MemoryPreserved == ASSUME IInv, Next PROVE MemoryInv'
<1>1. TInv /\ StoreInv /\ PlaceInv /\ MemoryInv
  BY DEF IInv
<1>2. Rows \subseteq Rows' /\ Rows = 1..Len(inbox) /\ Len(inbox) \in Nat
  BY <1>1, StoresGrow DEF Grows, TInv, Rows
<1>3. ledger' # None => ledger'.attempt \in Rows'
  <2>1. CASE ledger' = ledger
    BY <1>1, <1>2, <2>1 DEF MemoryInv
  <2>2. CASE BootReady
    <3>1. ledger' = replay_engine.ledger /\ Rows' = Rows
      BY <2>2 DEF BootReady, durable, Rows
    <3> QED BY <1>1, <3>1, ReplayedLedger
  <2>3. CASE HandleTick
    <3>1. cur \in Rows
      BY <1>1, <2>3 DEF HandleTick, PlaceInv, BeforeReceipt
    <3> QED BY <1>1, <1>2, <2>3, <3>1 DEF HandleTick, FlowOutcome, Sent, Unsent, MemoryInv
  <2>4. CASE HandleResult
    <3>1. cur \in Rows /\ inbox[cur].kind = "EGRESS_RESULT"
      BY <1>1, <2>4 DEF HandleResult, PlaceInv, BeforeReceipt
    <3>2. inbox[cur].result \in ResultKinds
      BY <1>1, <3>1 DEF StoreInv
    <3>3. Applies(ledger, inbox[cur]) =>
             ledger # None /\ Applied(ledger, inbox[cur]).attempt = ledger.attempt
      BY <1>1, <3>2, AppliedTyped DEF Applies, TInv
    <3> QED BY <1>1, <1>2, <2>4, <3>3 DEF HandleResult, MemoryInv
  <2>5. CASE ReleaseProjection \/ Crash
    BY <1>1, <1>2, <2>5 DEF ReleaseProjection, Crash, MemoryInv
  <2> QED BY <2>1, <2>2, <2>3, <2>4, <2>5, Writers
<1>4. timeouts' # None => timeouts'.attempt \in Rows'
  <2>1. CASE timeouts' = timeouts \/ Crash
    BY <1>1, <1>2, <2>1 DEF MemoryInv, Crash
  <2>2. CASE WaitBoundElapses \/ inject_due_timeouts
    <3>1. timeouts # None => timeouts \in Wait /\ timeouts.attempt \in Rows
      BY <1>1 DEF MemoryInv, TInv
    <3>2. timeouts \in Wait => /\ [timeouts EXCEPT !.elapsed = TRUE].attempt = timeouts.attempt
                               /\ [timeouts EXCEPT !.timed_out = TRUE].attempt = timeouts.attempt
      BY DEF Wait
    <3> QED BY <1>2, <2>2, <3>1, <3>2 DEF WaitBoundElapses, inject_due_timeouts, due
  <2>3. CASE MarkConsumed
    <3>1. cur \in Rows
      BY <1>1, <2>3 DEF MarkConsumed, PlaceInv, AfterReceipt
    <3> QED BY <1>1, <1>2, <2>3, <3>1 DEF MarkConsumed, track_timeouts, MemoryInv
  <2> QED BY <2>1, <2>2, <2>3, Writers
<1>5. ASSUME NEW i \in DOMAIN results'
      PROVE  /\ results'[i].kind = "EGRESS_RESULT" /\ results'[i].result \in BrokerResults
             /\ results'[i].attempt \in Rows'
             /\ results'[i].started = None /\ ~results'[i].consumed
  <2>0. results \in Seq(InboxRow)
    BY <1>1 DEF TInv
  <2>1. CASE results' = results
    BY <1>1, <1>2, <2>1 DEF MemoryInv
  <2>2. CASE Crash
    BY <2>2 DEF Crash
  <2>3. CASE SendOnce /\ results' # results
    <3>1. cur \in Rows
      BY <1>1, <2>3 DEF SendOnce, PlaceInv, BeforeReceipt
    <3>2. PICK k \in BrokerResults : results' = Append(results, EgressResult(cur, k))
      BY <2>3 DEF SendOnce
    <3>3. EgressResult(cur, k) \in InboxRow
      BY <1>1, <3>1, RowTyped DEF BrokerResults, EgressResult, Event, InboxRow, EventKinds, ResultKinds
    <3>4. \/ i \in DOMAIN results /\ results'[i] = results[i]
          \/ results'[i] = EgressResult(cur, k)
      BY <2>0, <3>2, <3>3, AppendFacts
    <3> QED BY <1>1, <1>2, <3>1, <3>4 DEF MemoryInv, EgressResult, Event
  <2>4. CASE drain_gateway_results /\ results' # results
    <3>1. results' = Tail(results) /\ results # <<>>
      BY <2>4 DEF drain_gateway_results
    <3>2. i + 1 \in DOMAIN results /\ results'[i] = results[i + 1]
      BY <2>0, <3>1
    <3> QED BY <1>1, <1>2, <3>2 DEF MemoryInv
  <2> QED BY <2>1, <2>2, <2>3, <2>4, Writers
<1>6. released' \subseteq Rows'
  <2>1. CASE RclReleases
    <3>1. cur \in Rows /\ inbox[cur].result = "FULL_FILL"
      BY <1>1, <2>1 DEF RclReleases, PlaceInv, AfterMarked
    <3>2. inbox[cur].attempt \in 1..(cur - 1)
      BY <1>1, <3>1 DEF StoreInv, ResultKinds
    <3>3. inbox[cur].attempt \in Rows
      BY <1>2, <3>1, <3>2
    <3> QED BY <1>1, <1>2, <2>1, <3>3 DEF RclReleases, MemoryInv
  <2> QED BY <1>1, <1>2, <2>1, Writers DEF MemoryInv
<1>7. cur' \in Rows' \cup {None}
  <2>1. unconsumed # {} => next_unconsumed \in Rows
    BY <1>1, OldestUnmarked
  <2> QED BY <1>1, <1>2, <2>1, Writers DEF MemoryInv, Crash, Raise, Idle, FindInterrupted,
       StartHandling, project_recovered_finality, Rows
<1> QED BY <1>3, <1>4, <1>5, <1>6, <1>7 DEF MemoryInv

\* What the code knows of the row in hand where it stands stays true.
LEMMA PlacePreserved == ASSUME IInv, Next PROVE PlaceInv'
<1>1. TInv /\ StoreInv /\ PlaceInv /\ Grows
  BY StoresGrow DEF IInv
<1>2. pc \in Places /\ note \in Notes /\ Len(evidence) \in Nat
  BY <1>1 DEF TInv
<1> USE DEF BeforeReceipt, AfterReceipt, AfterMarked, InBoundary, AfterCore
<1>3. CASE pc' \in {"down", "held", "idle", "start", "pull"}
  BY <1>3 DEF PlaceInv
<1>4. CASE WaitBoundElapses
  <2>1. UNCHANGED <<inbox, evidence, pc, cur, note>>
    BY <1>4 DEF WaitBoundElapses, durable
  <2> QED BY <1>1, <2>1 DEF PlaceInv, Rows, HasReceipt, Receipt
<1>5. CASE FindInterrupted \/ StartHandling
  <2>1. /\ next_unconsumed \in Rows /\ ~inbox[next_unconsumed].consumed
        /\ ~HasReceipt(next_unconsumed)
    BY <1>1, <1>5, OldestUnmarked, ReceiptFound DEF FindInterrupted, StartHandling
  <2>2. /\ cur' = next_unconsumed /\ inbox' = inbox /\ Rows' = Rows
        /\ \/ pc' = "interrupted" /\ inbox[cur'].started # None
           \/ pc' = "marking" /\ inbox[cur'].started = None
    BY <1>5 DEF FindInterrupted, StartHandling, durable, Rows
  <2>3. StartHandling => Len(evidence') > 0
    BY <1>1, <1>2, StoresGrow, AppendFacts DEF StartHandling, append, TInv
  <2>4. FindInterrupted => pc' = "interrupted"
    BY DEF FindInterrupted
  <2>5. ~HasReceipt(cur)'
    <3>1. ~CloseInterrupted /\ ~RefuseHalted /\ ~record_consumed
      BY <1>5 DEF FindInterrupted, StartHandling, CloseInterrupted, RefuseHalted, record_consumed
    <3>2. ~HasReceipt(cur')
      BY <2>1, <2>2
    <3> QED BY <3>1, <3>2, ReceiptInHand
  <2> QED BY <1>5, <2>1, <2>2, <2>3, <2>4, <2>5 DEF PlaceInv
<1>6. ASSUME pc \in BeforeReceipt \cup AfterReceipt, inbox' = inbox, cur' = cur
      PROVE  /\ cur' \in Rows' /\ ~inbox'[cur'].consumed
             /\ inbox'[cur'].kind = inbox[cur].kind /\ inbox'[cur'].result = inbox[cur].result
             /\ pc # "marking" => inbox'[cur'].started # None
  BY <1>1, <1>6 DEF PlaceInv, Rows
<1>7. ASSUME cur' = cur
      PROVE  HasReceipt(cur)' <=>
                HasReceipt(cur) \/ CloseInterrupted \/ RefuseHalted \/ record_consumed
  BY <1>7, ReceiptInHand
<1>8. CASE CloseInterrupted \/ RefuseHalted \/ record_consumed
  <2>1. /\ pc \in BeforeReceipt \ {"marking"} /\ cur' = cur /\ inbox' = inbox
        /\ \/ pc' = "closed" /\ note' \in InterruptedNotes
           \/ pc' = "consumed" /\ note' \notin InterruptedNotes
    BY <1>1, <1>8 DEF CloseInterrupted, RefuseHalted, record_consumed, memory, PlaceInv,
                      InterruptedNotes
  <2> QED BY <1>6, <1>7, <1>8, <2>1 DEF PlaceInv
<1>9. ASSUME ~CloseInterrupted, ~RefuseHalted, ~record_consumed, cur' = cur, inbox' = inbox,
             pc \in BeforeReceipt \ {"marking"}, pc' \in BeforeReceipt \ {"marking"},
             pc' \in InBoundary => inbox[cur].kind = "DECISION_TICK",
             pc' \in AfterCore => note' \notin InterruptedNotes,
             pc' = "closing" => note' \in InterruptedNotes,
             pc' = "violated" => Len(evidence') > 0
      PROVE  PlaceInv'
  <2>1. ~HasReceipt(cur)'
    BY <1>1, <1>7, <1>9 DEF PlaceInv
  <2> QED BY <1>6, <1>9, <2>1 DEF PlaceInv
<1>10. CASE mark_handling_started
  <2>1. PICK m : Marks(m)
    BY <1>10, MarkFrame DEF MarkStep
  <2>2. /\ m = cur /\ inbox'[cur].started = Len(evidence) /\ ~inbox'[cur].consumed
        /\ pc' = "handling" /\ cur' = cur /\ pc = "marking"
    BY <1>10, <2>1 DEF mark_handling_started, Marks, memory
  <2>3. ~HasReceipt(cur)'
    <3>1. ~CloseInterrupted /\ ~RefuseHalted /\ ~record_consumed
      BY <2>2 DEF CloseInterrupted, RefuseHalted, record_consumed
    <3> QED BY <1>1, <1>7, <2>2, <3>1 DEF PlaceInv
  <2>4. Len(evidence) # None
    BY <1>2, NoneIsNew
  <2> QED BY <2>1, <2>2, <2>3, <2>4 DEF PlaceInv, Marks
<1>11. CASE handle_interrupted_event
  <2>1. /\ ~CloseInterrupted /\ ~RefuseHalted /\ ~record_consumed /\ cur' = cur /\ inbox' = inbox
        /\ pc = "interrupted" /\ pc' = "closing" /\ note' \in InterruptedNotes
    BY <1>11 DEF handle_interrupted_event, CloseInterrupted, RefuseHalted, record_consumed,
                 InterruptedNotes
  <2> QED BY <1>9, <2>1
<1>12. CASE HandleTick \/ HandleResult
  <2>1. /\ ~CloseInterrupted /\ ~RefuseHalted /\ ~record_consumed /\ cur' = cur /\ inbox' = inbox
        /\ pc = "handling" /\ pc' \in {"handled", "boundary"}
        /\ pc' = "boundary" => inbox[cur].kind = "DECISION_TICK"
        /\ pc' = "handled" => note' \notin InterruptedNotes
    BY <1>12 DEF HandleTick, FlowOutcome, HandleResult, CloseInterrupted, RefuseHalted,
                 record_consumed, InterruptedNotes, durable
  <2> QED BY <1>9, <2>1
<1>13. CASE HandleCorporateAction
  <2>1. /\ ~CloseInterrupted /\ ~RefuseHalted /\ ~record_consumed /\ cur' = cur /\ inbox' = inbox
        /\ pc = "handling" /\ pc' = "handled" /\ note' = inbox[cur].result
    BY <1>13 DEF HandleCorporateAction, CloseInterrupted, RefuseHalted, record_consumed, durable
  <2>2. inbox[cur] \in InboxRow
    BY <1>1, <2>1, RowTyped DEF PlaceInv
  <2>3. inbox[cur].result \notin InterruptedNotes
    BY <2>2 DEF InboxRow, ResultKinds, InterruptedNotes
  <2> QED BY <1>9, <2>1, <2>3
<1>14. CASE GatewayRefuses \/ SendStarted \/ TransmitRaises \/ SendOnce \/ SendHandedOff
  <2>1. /\ ~CloseInterrupted /\ ~RefuseHalted /\ ~record_consumed /\ cur' = cur /\ inbox' = inbox
        /\ pc \in InBoundary /\ pc' \in InBoundary \cup {"handled"}
        /\ pc' = "handled" => note' \notin InterruptedNotes
    BY <1>14 DEF GatewayRefuses, SendStarted, TransmitRaises, SendOnce, SendHandedOff,
       CloseInterrupted, RefuseHalted, record_consumed, InterruptedNotes, durable, memory
  <2>2. inbox[cur].kind = "DECISION_TICK"
    BY <1>1, <2>1 DEF PlaceInv
  <2> QED BY <1>9, <2>1, <2>2
<1>15. CASE ProjectionViolated \/ LatchViolation
  <2>1. /\ ~CloseInterrupted /\ ~RefuseHalted /\ ~record_consumed /\ cur' = cur /\ inbox' = inbox
        /\ pc \in {"handled", "violated"} /\ pc' \in {"violated", "projected"} /\ note' = note
    BY <1>15 DEF ProjectionViolated, LatchViolation,
       CloseInterrupted, RefuseHalted, record_consumed, memory
  <2>2. note \notin InterruptedNotes
    BY <1>1, <2>1 DEF PlaceInv
  <2>3. pc' = "violated" => Len(evidence') > 0
    BY <1>1, <1>2, <1>15, AppendFacts, StoresGrow DEF ProjectionViolated, LatchViolation, append, TInv
  <2> QED BY <1>9, <2>1, <2>2, <2>3
<1>16. CASE latch_restrictive \/ LatchRestriction
  <2>1. /\ cur' = cur /\ inbox' = inbox /\ note' = note
        /\ pc \in {"consumed", "latching"} /\ pc' \in {"latching", "latched"}
    BY <1>16 DEF latch_restrictive, LatchRestriction, memory
  <2>2. HasReceipt(cur)'
    BY <1>1, <1>7, <2>1 DEF PlaceInv
  <2> QED BY <1>1, <1>6, <2>1, <2>2 DEF PlaceInv
<1>17. CASE pc' \in AfterMarked
  <2>1. \/ MarkConsumed \/ RclReleases \/ ReleaseProjection \/ drain_gateway_results
        \/ project_recovered_finality \/ WaitBoundElapses
    BY <1>1, <1>17 DEF PlaceInv, Next, Boot, ProcessNext, Environment, BootReady, BootHolds,
       BootDiverges, Crash, Raise, inject_due_timeouts, Idle, MarkRecovered,
       FindInterrupted, StartHandling, mark_handling_started,
       handle_interrupted_event, CloseInterrupted, MarkInterrupted, RefuseHalted,
       HandleTick, FlowOutcome, HandleResult, HandleCorporateAction, GatewayRefuses,
       SendStarted, TransmitRaises, SendOnce, SendHandedOff, ProjectionViolated,
       LatchViolation, record_consumed, latch_restrictive, LatchRestriction,
       RclKeeps, RecordRelease, clear_new_risk_halt, enqueue_and_run, run_until_idle,
       QueueUntilRecovery, ClearIsAttested
  <2>2. cur' \in Rows
    BY <1>1, <1>17, <2>1 DEF PlaceInv, MarkConsumed, RclReleases, ReleaseProjection,
       drain_gateway_results, project_recovered_finality, WaitBoundElapses, memory, Rows
  <2> QED BY <1>1, <1>17, <2>2 DEF PlaceInv, Grows
<1>18. CASE ClearIsAttested
  BY <1>18 DEF ClearIsAttested, PlaceInv
<1>19. CASE clear_new_risk_halt \/ MarkRecovered
  BY <1>1, <1>3, <1>19 DEF clear_new_risk_halt, MarkRecovered, PlaceInv
<1>20. CASE Boot \/ Crash \/ Raise \/ enqueue_and_run \/ run_until_idle \/ QueueUntilRecovery
            \/ inject_due_timeouts \/ Idle \/ MarkInterrupted \/ RclKeeps \/ RecordRelease
  BY <1>3, <1>20 DEF Boot, BootReady, BootHolds, BootDiverges, Crash, Raise, enqueue_and_run,
     run_until_idle, QueueUntilRecovery, inject_due_timeouts, Idle, MarkInterrupted,
     RclKeeps, RecordRelease
<1>21. CASE MarkConsumed \/ RclReleases \/ ReleaseProjection \/ drain_gateway_results
            \/ project_recovered_finality
  BY <1>3, <1>17, <1>21 DEF MarkConsumed, AfterMark, RclReleases, ReleaseProjection,
     drain_gateway_results, project_recovered_finality
<1> QED BY <1>4, <1>5, <1>8, <1>10, <1>11, <1>12, <1>13, <1>14, <1>15, <1>16, <1>18, <1>19,
           <1>20, <1>21 DEF Next, ProcessNext, Environment

\* The core is never called again with a row it was called with.
LEMMA HandlePreserved == ASSUME IInv, Next PROVE HandleInv'
<1>1. TInv /\ PlaceInv /\ HandleInv /\ Grows
  BY StoresGrow DEF IInv
<1>2. handles \in Seq(Nat)
  BY <1>1 DEF TInv
<1>3. CASE HandleTick \/ HandleResult \/ HandleCorporateAction
  <2>1. /\ pc = "handling" /\ cur' = cur /\ handles' = Append(handles, cur) /\ pc' # "handling"
        /\ inbox' = inbox
    BY <1>3 DEF HandleTick, FlowOutcome, HandleResult, HandleCorporateAction, durable
  <2>2. cur \in Rows /\ inbox[cur].started # None /\ \A i \in DOMAIN handles : handles[i] # cur
    BY <1>1, <2>1 DEF PlaceInv, BeforeReceipt, HandleInv
  <2>3. cur \in Nat
    BY <1>1, <2>2, RowTyped
  <2>4. /\ DOMAIN handles' = 1..(Len(handles) + 1) /\ DOMAIN handles = 1..Len(handles)
        /\ Len(handles) \in Nat
        /\ \A i \in DOMAIN handles : handles'[i] = handles[i]
        /\ handles'[Len(handles) + 1] = cur
    BY <1>2, <2>1, <2>3, AppendFacts
  <2>5. \A i \in DOMAIN handles' : i \in DOMAIN handles \/ i = Len(handles) + 1
    BY <2>4
  <2>6. HandledOnce'
    BY <1>1, <2>2, <2>4, <2>5 DEF HandleInv, HandledOnce
  <2>7. \A i \in DOMAIN handles' : handles'[i] \in Rows' /\ inbox'[handles'[i]].started # None
    BY <1>1, <2>1, <2>2, <2>4, <2>5 DEF HandleInv, Rows
  <2>8. Len(handles) + 1 \in DOMAIN handles'
    BY <2>4
  <2> QED BY <2>1, <2>4, <2>6, <2>7, <2>8 DEF HandleInv
<1>4. CASE ~HandleTick /\ ~HandleResult /\ ~HandleCorporateAction
  <2>1. handles' = handles
    BY <1>4, Writers
  <2>2. \A i \in DOMAIN handles : handles[i] \in Rows' /\ inbox'[handles[i]].started # None
    BY <1>1 DEF HandleInv, Grows
  <2>3. pc' = "handling" => \A i \in DOMAIN handles : handles[i] # cur'
    <3>1. ASSUME pc' = "handling"
          PROVE  mark_handling_started \/ WaitBoundElapses
      BY <1>1, <1>4, <3>1 DEF PlaceInv, Next, Boot, ProcessNext, Environment, BootReady, BootHolds,
         BootDiverges, Crash, Raise, inject_due_timeouts, Idle, MarkRecovered,
         FindInterrupted, StartHandling,
         handle_interrupted_event, CloseInterrupted, MarkInterrupted, RefuseHalted,
         GatewayRefuses, SendStarted, TransmitRaises, SendOnce, SendHandedOff,
         ProjectionViolated, LatchViolation, record_consumed, latch_restrictive,
         LatchRestriction, MarkConsumed, AfterMark, RclReleases, ReleaseProjection,
         RclKeeps, RecordRelease, drain_gateway_results, clear_new_risk_halt,
         project_recovered_finality, enqueue_and_run, run_until_idle,
         QueueUntilRecovery, ClearIsAttested
    <3>2. mark_handling_started => cur' = cur /\ inbox[cur].started = None
      BY <1>1 DEF mark_handling_started, memory, PlaceInv
    <3>3. WaitBoundElapses => cur' = cur /\ pc' = pc
      BY DEF WaitBoundElapses
    <3> QED BY <1>1, <3>1, <3>2, <3>3 DEF HandleInv
  <2>4. pc' \in InBoundary => \E i \in DOMAIN handles : handles[i] = cur'
    <3>1. ASSUME pc' \in InBoundary
          PROVE  pc \in InBoundary /\ cur' = cur
      BY <1>1, <1>4, <3>1 DEF PlaceInv, Next, Boot, ProcessNext, Environment, BootReady, BootHolds,
         BootDiverges, Crash, Raise, inject_due_timeouts, Idle, MarkRecovered,
         FindInterrupted, StartHandling, mark_handling_started, WaitBoundElapses,
         handle_interrupted_event, CloseInterrupted, MarkInterrupted, RefuseHalted,
         GatewayRefuses, SendStarted, TransmitRaises, SendOnce, SendHandedOff,
         ProjectionViolated, LatchViolation, record_consumed, latch_restrictive,
         LatchRestriction, MarkConsumed, AfterMark, RclReleases, ReleaseProjection,
         RclKeeps, RecordRelease, drain_gateway_results, clear_new_risk_halt,
         project_recovered_finality, enqueue_and_run, run_until_idle,
         QueueUntilRecovery, ClearIsAttested, InBoundary, memory
    <3> QED BY <1>1, <3>1 DEF HandleInv
  <2> QED BY <1>1, <2>1, <2>2, <2>3, <2>4 DEF HandleInv, HandledOnce
<1> QED BY <1>3, <1>4

\* A driver goes on counting the rows, and stamps a row with its number.
LEMMA StampPreserved == ASSUME IInv, Next PROVE StampInv'
<1>1. TInv /\ PlaceInv /\ StampInv /\ Grows
  BY StoresGrow DEF IInv
<1>2. ASSUME NEW n \in Rows'
      PROVE  inbox'[n].ref \in {0, n}
  <2>1. CASE n \in Rows
    BY <1>1, <2>1 DEF Grows, StampInv
  <2>2. CASE n \notin Rows
    <3>1. ArriveStep /\ inbox' # inbox
      BY <2>2, StepSorts, QuietFrame, RecordFrame, MarkFrame DEF Marks, Rows
    <3>2. PICK e \in InboxRow : inbox' = Append(inbox, e) /\ e.ref \in {0, Len(inbox) + 1}
      BY <3>1, ArriveFrame
    <3> QED BY <1>1, <1>2, <2>2, <3>2, ArriveEffect
  <2> QED BY <2>1, <2>2
<1>3. ASSUME ~Driverless'
      PROVE  issued' = Len(inbox')
  <2>1. CASE ArriveStep
    <3>1. ~Driverless
      BY <1>3, <2>1 DEF ArriveStep, enqueue_and_run, QueueUntilRecovery,
         inject_due_timeouts, drain_gateway_results, Driverless
    <3>2. issued = Len(inbox) /\ inbox \in Seq(InboxRow)
      BY <1>1, <3>1 DEF StampInv, TInv
    <3>3. ASSUME NEW e, enqueue_stamped(e)
          PROVE  issued' = Len(inbox')
      <4> DEFINE f == [e EXCEPT !.ref = issued + 1]
      <4>1. inbox' = Append(inbox, f) /\ issued' = issued + 1
        BY <3>3 DEF enqueue_stamped
      <4> HIDE DEF f
      <4> QED BY <3>2, <4>1
    <3>4. (\E e : enqueue_stamped(e)) \/ UNCHANGED <<inbox, issued>>
      BY <2>1, <3>1 DEF ArriveStep, enqueue_and_run, QueueUntilRecovery,
         inject_due_timeouts, drain_gateway_results, Driverless
    <3> QED BY <3>2, <3>3, <3>4
  <2>2. CASE BootReady
    BY <2>2 DEF BootReady, durable
  <2>3. CASE ~ArriveStep /\ ~BootReady
    <3>1. issued' = issued
      BY <1>3, <2>3, Writers DEF Crash, Driverless
    <3>2. Len(inbox') = Len(inbox)
      BY <2>3, StepSorts, QuietFrame, RecordFrame, MarkFrame DEF Marks
    <3>3. ~Driverless
      BY <1>1, <1>3, <2>3 DEF PlaceInv, Driverless, Next, Boot, ProcessNext, Environment, BootHolds,
         BootDiverges, Crash, Raise, Idle, MarkRecovered, ArriveStep,
         FindInterrupted, StartHandling, mark_handling_started, WaitBoundElapses,
         handle_interrupted_event, CloseInterrupted, MarkInterrupted, RefuseHalted,
         HandleTick, HandleResult, HandleCorporateAction,
         GatewayRefuses, SendStarted, TransmitRaises, SendOnce, SendHandedOff,
         ProjectionViolated, LatchViolation, record_consumed, latch_restrictive,
         LatchRestriction, MarkConsumed, RclReleases, ReleaseProjection,
         RclKeeps, RecordRelease, clear_new_risk_halt,
         project_recovered_finality, run_until_idle, ClearIsAttested, memory
    <3> QED BY <1>1, <3>1, <3>2, <3>3 DEF StampInv
  <2> QED BY <2>1, <2>2, <2>3
<1> QED BY <1>2, <1>3 DEF StampInv

\* An order on the network keeps a handled tick, send evidence after its marker,
\* and receipts that do not deny the send.
LEMMA NetworkPreserved == ASSUME IInv, Next PROVE NetworkInv'
<1>1. TInv /\ PlaceInv /\ StoreInv /\ HandleInv /\ NetworkInv /\ Grows
  BY StoresGrow DEF IInv
<1>2. \A n \in Rows : inbox[n].started # None /\ SendEvidence(n) => SendEvidence(n)'
  BY EvidenceStays
<1>3. \A n : (\E i \in DOMAIN handles : handles[i] = n) => \E i \in DOMAIN handles' : handles'[i] = n
  <2>1. handles \in Seq(Nat)
    BY <1>1 DEF TInv
  <2>2. CASE handles' = handles
    BY <2>2
  <2>3. CASE handles' # handles
    <3>1. pc = "handling" /\ handles' = Append(handles, cur)
      BY <2>3, Writers DEF HandleTick, HandleResult, HandleCorporateAction
    <3>2. cur \in Rows
      BY <1>1, <3>1 DEF PlaceInv, BeforeReceipt
    <3>3. cur \in Nat
      BY <1>1, <3>2, RowTyped
    <3>4. /\ DOMAIN handles' = 1..(Len(handles) + 1) /\ DOMAIN handles = 1..Len(handles)
          /\ Len(handles) \in Nat
          /\ \A i \in DOMAIN handles : handles'[i] = handles[i]
      BY <2>1, <3>1, <3>3, AppendFacts
    <3> QED BY <3>4
  <2> QED BY <2>2, <2>3
<1>4. ASSUME NEW n \in network'
      PROVE  /\ n \in Rows' /\ inbox'[n].kind = "DECISION_TICK"
             /\ \E i \in DOMAIN handles' : handles'[i] = n
             /\ inbox'[n].started # None /\ SendEvidence(n)'
             /\ \A i \in DOMAIN evidence' : Receipt(i, n)' =>
                   evidence'[i].note \in {"HANDED_OFF", "TRANSMIT_RAISED",
                                         "HANDLING_INTERRUPTED_POSSIBLY_LIVE_SEND"}
  <2>1. CASE n \in network
    <3>1. /\ n \in Rows /\ inbox[n].kind = "DECISION_TICK" /\ inbox[n].started # None
          /\ SendEvidence(n) /\ \E i \in DOMAIN handles : handles[i] = n
      BY <1>1, <2>1 DEF NetworkInv
    <3>2. ASSUME NEW i \in DOMAIN evidence', Receipt(i, n)'
          PROVE  evidence'[i].note \in {"HANDED_OFF", "TRANSMIT_RAISED",
                                       "HANDLING_INTERRUPTED_POSSIBLY_LIVE_SEND"}
      <4>1. CASE i \in DOMAIN evidence
        BY <1>1, <2>1, <3>2, <4>1 DEF NetworkInv, Grows, Receipt
      <4>2. CASE i \notin DOMAIN evidence
        <5>1. RecordStep
          BY <4>2, StepSorts, QuietFrame, ArriveFrame, MarkFrame
        <5>2. PICK e \in Entry :
                 /\ evidence' = Append(evidence, e)
                 /\ e.kind = "EVENT_CONSUMED" =>
                       /\ e.row = cur /\ e.note = note'
                       /\ CloseInterrupted \/ RefuseHalted \/ record_consumed
          BY <5>1, RecordFrame
        <5>3. inbox' = inbox
          BY <5>1, RecordFrame
        <5>4. evidence'[i] = e
          BY <1>1, <4>2, <5>2, <5>3, RecordEffect
        <5>5. /\ n = cur /\ evidence'[i].note = note'
              /\ CloseInterrupted \/ RefuseHalted \/ record_consumed
          BY <3>2, <5>2, <5>4 DEF Receipt
        <5>6. CASE CloseInterrupted
          BY <1>1, <2>1, <5>5, <5>6 DEF CloseInterrupted, memory, NetworkInv, PlaceInv,
                                        InterruptedNotes
        <5>7. ~RefuseHalted
          BY <1>1, <3>1, <5>5 DEF RefuseHalted, HandleInv
        <5>8. CASE record_consumed
          BY <1>1, <2>1, <5>5, <5>8 DEF record_consumed, memory, NetworkInv, AfterCore
        <5> QED BY <5>5, <5>6, <5>7, <5>8
      <4> QED BY <4>1, <4>2
    <3> QED BY <1>1, <1>2, <1>3, <3>1, <3>2 DEF Grows
  <2>2. CASE n \notin network
    <3>1. SendOnce /\ n = cur
      BY <2>2, Writers DEF SendOnce
    <3>2. /\ n \in Rows /\ inbox[n].kind = "DECISION_TICK" /\ inbox[n].started # None
          /\ SendEvidence(n) /\ \E i \in DOMAIN handles : handles[i] = n
          /\ ~HasReceipt(n) /\ evidence' = evidence
      BY <1>1, <3>1 DEF SendOnce, PlaceInv, HandleInv, NetworkInv, BeforeReceipt, InBoundary
    <3>3. \A i \in DOMAIN evidence' : ~Receipt(i, n)'
      BY <3>2 DEF HasReceipt, Receipt
    <3> QED BY <1>1, <1>2, <1>3, <3>2, <3>3 DEF Grows
  <2> QED BY <2>1, <2>2
<1>5. ASSUME pc' = "sending"
      PROVE  SendEvidence(cur)'
  <2>1. SendStarted \/ WaitBoundElapses
    BY <1>1, <1>5 DEF PlaceInv, AfterCore,
       handle_interrupted_event, RefuseHalted, HandleTick, FlowOutcome, HandleResult,
       HandleCorporateAction, GatewayRefuses, TransmitRaises, SendOnce, SendHandedOff,
       ProjectionViolated, LatchViolation, record_consumed, latch_restrictive,
       LatchRestriction,
       Next, Boot, ProcessNext, Environment, BootReady, BootHolds,
       BootDiverges, Crash, Raise, inject_due_timeouts, Idle, MarkRecovered,
       FindInterrupted, StartHandling, mark_handling_started,
       CloseInterrupted, MarkInterrupted, RclKeeps, RecordRelease, MarkConsumed, AfterMark,
       RclReleases, ReleaseProjection, drain_gateway_results, clear_new_risk_halt,
       project_recovered_finality, enqueue_and_run, run_until_idle,
       QueueUntilRecovery, ClearIsAttested
  <2>2. CASE SendStarted
    <3>1. /\ cur' = cur /\ inbox' = inbox /\ pc = "boundary"
          /\ evidence' = Append(evidence, [kind |-> "SEND_STARTED", row |-> cur, note |-> "NONE"])
      BY <2>2 DEF SendStarted, append, memory
    <3>2. cur \in Rows /\ inbox[cur].started # None
      BY <1>1, <3>1 DEF PlaceInv, BeforeReceipt
    <3>3. inbox[cur].started \in DOMAIN evidence
      BY <1>1, <3>2 DEF StoreInv
    <3>4. [kind |-> "SEND_STARTED", row |-> cur, note |-> "NONE"] \in Entry
      BY <1>1, <3>2, RowTyped DEF Entry, EntryKinds, Notes
    <3>5. /\ Len(evidence) \in Nat /\ DOMAIN evidence = 1..Len(evidence)
          /\ Len(evidence) + 1 \in DOMAIN evidence'
          /\ evidence'[Len(evidence) + 1].kind = "SEND_STARTED"
      BY <1>1, <3>1, <3>4, RecordEffect
    <3>6. Len(evidence) + 1 > inbox'[cur'].started
      BY <3>1, <3>3, <3>5
    <3> QED BY <3>5, <3>6 DEF SendEvidence, SendEvidenceKinds
  <2>3. CASE WaitBoundElapses
    <3>1. UNCHANGED <<inbox, evidence, pc, cur>>
      BY <2>3 DEF WaitBoundElapses, durable
    <3> QED BY <1>1, <1>5, <3>1 DEF NetworkInv, SendEvidence
  <2> QED BY <2>1, <2>2, <2>3
<1>6. ASSUME pc' \in AfterCore, cur' \in network'
      PROVE  note' \in {"HANDED_OFF", "TRANSMIT_RAISED"}
  <2>1. \/ RefuseHalted \/ HandleTick \/ HandleResult \/ HandleCorporateAction
        \/ TransmitRaises \/ SendOnce \/ SendHandedOff
        \/ pc \in AfterCore /\ UNCHANGED <<network, cur, note>>
    BY <1>1, <1>6 DEF PlaceInv, AfterCore, durable, memory,
       handle_interrupted_event, GatewayRefuses, SendStarted, WaitBoundElapses,
       ProjectionViolated, LatchViolation, record_consumed, latch_restrictive,
       LatchRestriction,
       Next, Boot, ProcessNext, Environment, BootReady, BootHolds,
       BootDiverges, Crash, Raise, inject_due_timeouts, Idle, MarkRecovered,
       FindInterrupted, StartHandling, mark_handling_started,
       CloseInterrupted, MarkInterrupted, RclKeeps, RecordRelease, MarkConsumed, AfterMark,
       RclReleases, ReleaseProjection, drain_gateway_results, clear_new_risk_halt,
       project_recovered_finality, enqueue_and_run, run_until_idle,
       QueueUntilRecovery, ClearIsAttested
  <2>2. CASE RefuseHalted \/ HandleTick \/ HandleResult \/ HandleCorporateAction
    <3>1. pc = "handling" /\ cur' = cur /\ network' = network
      BY <2>2 DEF RefuseHalted, HandleTick, HandleResult, HandleCorporateAction, durable
    <3> QED BY <1>1, <1>6, <3>1 DEF NetworkInv, HandleInv
  <2>3. CASE TransmitRaises \/ SendOnce \/ SendHandedOff
    BY <1>6, <2>3 DEF TransmitRaises, SendOnce, SendHandedOff, AfterCore
  <2> QED BY <1>1, <1>6, <2>1, <2>2, <2>3 DEF NetworkInv
<1>7. ASSUME pc' = "closing", note' = "HANDLING_INTERRUPTED_NO_SEND_EVIDENCE"
      PROVE  cur' \notin network'
  <2>1. \/ handle_interrupted_event
        \/ pc = "closing" /\ UNCHANGED <<network, cur, note>>
    BY <1>1, <1>7 DEF PlaceInv, durable, memory, WaitBoundElapses,
       RefuseHalted, HandleTick, FlowOutcome, HandleResult,
       HandleCorporateAction, GatewayRefuses, SendStarted, TransmitRaises, SendOnce,
       SendHandedOff, ProjectionViolated, LatchViolation, record_consumed,
       latch_restrictive, LatchRestriction,
       Next, Boot, ProcessNext, Environment, BootReady, BootHolds,
       BootDiverges, Crash, Raise, inject_due_timeouts, Idle, MarkRecovered,
       FindInterrupted, StartHandling, mark_handling_started,
       CloseInterrupted, MarkInterrupted, RclKeeps, RecordRelease, MarkConsumed, AfterMark,
       RclReleases, ReleaseProjection, drain_gateway_results, clear_new_risk_halt,
       project_recovered_finality, enqueue_and_run, run_until_idle,
       QueueUntilRecovery, ClearIsAttested
  <2>2. CASE handle_interrupted_event
    <3>1. ~SendEvidence(cur) /\ cur' = cur /\ network' = network
      BY <1>7, <2>2 DEF handle_interrupted_event, send_evidence_exists_after, SendEvidence
    <3> QED BY <1>1, <3>1 DEF NetworkInv
  <2> QED BY <1>1, <1>7, <2>1, <2>2 DEF NetworkInv
<1> QED BY <1>4, <1>5, <1>6, <1>7 DEF NetworkInv

\* The invariant holds at the start and no step breaks it.
THEOREM Invariant == Spec => []IInv
<1>1. Init => IInv
  <2> SUFFICES ASSUME Init PROVE IInv
    OBVIOUS
  <2>1. TInv
    BY BoundsAreNaturals DEF Init, TInv, Places, Notes
  <2>2. Rows = {} /\ DOMAIN evidence = {} /\ DOMAIN handles = {} /\ DOMAIN results = {}
    BY DEF Init, Rows
  <2> QED BY <2>1, <2>2 DEF Init, IInv, PlaceInv, StoreInv, MemoryInv, HandleInv, HandledOnce,
       NetworkInv, StampInv, Driverless, BeforeReceipt, AfterReceipt, AfterMarked,
       InBoundary, AfterCore
<1>2. IInv /\ [Next]_vars => IInv'
  <2>1. CASE Next
    BY <2>1, TypePreserved, PlacePreserved, StorePreserved, MemoryPreserved,
       HandlePreserved, NetworkPreserved, StampPreserved DEF IInv
  <2>2. CASE UNCHANGED vars
    BY <2>2 DEF vars, durable, memory, history, IInv, TInv, PlaceInv, StoreInv, MemoryInv,
       HandleInv, HandledOnce, NetworkInv, StampInv, Driverless, Rows, HasReceipt, Receipt,
       SendEvidence
  <2> QED BY <2>1, <2>2
<1> QED BY <1>1, <1>2, PTL DEF Spec

\* EngineDriverProps.TypeOK: what names a row, an attempt or an entry names one
\* that exists, also after a boot rebuilt the ledger from the evidence.
THEOREM TypeCorrect == Spec => []TypeOK
<1>1. IInv => TypeOK
  <2> SUFFICES ASSUME IInv PROVE TypeOK
    OBVIOUS
  <2>1. network \subseteq Rows /\ \A i \in DOMAIN handles : handles[i] \in Rows
    BY DEF IInv, NetworkInv, HandleInv
  <2> QED BY <2>1 DEF IInv, TInv, StoreInv, MemoryInv, TypeOK
<1> QED BY <1>1, Invariant, PTL

\* EngineDriverProps.HandledOnce: driver.py _process_next calls the core at most
\* once with a row, over any crashes, exceptions and boots.
THEOREM RowsAreHandledOnce == Spec => []HandledOnce
<1>1. IInv => HandledOnce
  BY DEF IInv, HandleInv
<1> QED BY <1>1, Invariant, PTL

\* EngineDriverProps.DroppedMeansUnsent: driver.py _handle_interrupted_event never
\* records "no send evidence" for a tick whose order went out.
THEOREM DroppedWasUnsent == Spec => []DroppedMeansUnsent
<1>1. IInv => DroppedMeansUnsent
  BY DEF IInv, NetworkInv, StoreInv, DroppedMeansUnsent, Receipt, InterruptedNotes
<1> QED BY <1>1, Invariant, PTL

\* EngineDriverProps.StampsIncrease: the coordinates of stamped rows increase in
\* inbox order, over restarts and rows queued without a coordinate.
THEOREM CoordinatesIncrease == Spec => []StampsIncrease
<1>1. IInv => StampsIncrease
  BY DEF IInv, StampInv, StampsIncrease
<1> QED BY <1>1, Invariant, PTL

-----------------------------------------------------------------------------
(* Restrictions and the new-risk latch *)

\* An entry that a step adds is the one it appends, at the end.
LEMMA NewEntry ==
    ASSUME IInv, Next, NEW i \in DOMAIN evidence', i \notin DOMAIN evidence
    PROVE  RecordStep /\ inbox' = inbox /\ i = Len(evidence) + 1
<1>1. RecordStep
  BY StepSorts, QuietFrame, ArriveFrame, MarkFrame
<1>2. PICK e \in Entry : evidence' = Append(evidence, e)
  BY <1>1, RecordFrame
<1>3. inbox' = inbox
  BY <1>1, RecordFrame
<1>4. DOMAIN evidence = 1..Len(evidence) /\ DOMAIN evidence' = 1..(Len(evidence) + 1)
      /\ Len(evidence) \in Nat
  BY <1>2, <1>3, RecordEffect DEF IInv
<1> QED BY <1>1, <1>3, <1>4

\* A new restriction is written where the latch is the next thing to be set.
LEMMA NewRestriction ==
    ASSUME IInv, Next, NEW i \in DOMAIN evidence', i \notin DOMAIN evidence,
           RestrictionAt(i)'
    PROVE  LatchDue'
<1>1. RecordStep /\ i = Len(evidence) + 1 /\ evidence \in Seq(Entry)
  BY NewEntry DEF IInv, TInv
<1>2. ASSUME NEW k, NEW r, NEW n, append(k, r, n)
      PROVE  evidence'[i] = [kind |-> k, row |-> r, note |-> n]
  BY <1>1, <1>2 DEF append
<1>3. CASE ProjectionViolated
  BY <1>3 DEF ProjectionViolated, LatchDue
<1>4. CASE record_consumed
  <2>1. evidence'[i].note = note /\ evidence'[i].kind = "EVENT_CONSUMED"
    BY <1>2, <1>4 DEF record_consumed
  <2> QED BY <1>4, <2>1 DEF record_consumed, memory, LatchDue, RestrictionAt
<1>5. CASE CloseInterrupted
  <2>1. evidence'[i].note = note /\ evidence'[i].kind = "EVENT_CONSUMED"
    BY <1>2, <1>5 DEF CloseInterrupted
  <2>2. note \in InterruptedNotes
    BY <1>5 DEF CloseInterrupted, IInv, PlaceInv
  <2> QED BY <2>1, <2>2 DEF RestrictionAt, InterruptedNotes
<1>6. CASE RefuseHalted
  <2>1. evidence'[i].note = "NEW_RISK_HALTED" /\ evidence'[i].kind = "EVENT_CONSUMED"
    BY <1>2, <1>6 DEF RefuseHalted
  <2> QED BY <2>1 DEF RestrictionAt
<1>7. CASE ~ProjectionViolated /\ ~record_consumed /\ ~CloseInterrupted /\ ~RefuseHalted
  <2>1. evidence'[i].kind \notin {"COUPLING_VIOLATION", "EVENT_CONSUMED"}
    <3> DEFINE Other == {"REPLAY_DIVERGED", "EVENT_HANDLING_STARTED",
                         "HANDLING_INTERRUPTED_POSSIBLY_LIVE_SEND",
                         "DECISION_TICK_DROPPED_ON_RECOVERY", "SEND_STARTED",
                         "SEND_HANDED_OFF", "INCIDENT_CANDIDATE",
                         "ENGINE_PROJECTION_RELEASED", "NEW_RISK_HALT_CLEARED"}
    <3>1. \E k, r, n : k \in Other /\ append(k, r, n)
      BY <1>1, <1>7 DEF RecordStep, BootDiverges, StartHandling, handle_interrupted_event,
         SendStarted, SendHandedOff, latch_restrictive, RecordRelease, ClearIsAttested
    <3>2. PICK k, r, n : k \in Other /\ append(k, r, n)
      BY <3>1
    <3>3. evidence'[i].kind = k
      BY <1>2, <3>2
    <3> QED BY <3>2, <3>3
  <2> QED BY <2>1 DEF RestrictionAt
<1> QED BY <1>3, <1>4, <1>5, <1>6, <1>7

\* A restriction and its clearing stay on record.
LEMMA RestrictionsStay ==
    ASSUME IInv, Next, NEW i \in DOMAIN evidence
    PROVE  /\ RestrictionAt(i)' <=> RestrictionAt(i)
           /\ ClearedAfter(i) => ClearedAfter(i)'
<1>1. Grows
  BY StoresGrow
<1> QED BY <1>1 DEF Grows, RestrictionAt, ClearedAfter

\* The attestation of a clearing comes after every restriction on record.
LEMMA AttestationCovers ==
    ASSUME IInv, Next, ClearIsAttested
    PROVE  \A i \in DOMAIN evidence' : RestrictionAt(i)' => ClearedAfter(i)'
<1> DEFINE e == [kind |-> "NEW_RISK_HALT_CLEARED", row |-> halt, note |-> "NONE"]
<1>1. evidence' = Append(evidence, e) /\ inbox' = inbox
  BY DEF ClearIsAttested, append
<1>2. e \in Entry /\ e.kind = "NEW_RISK_HALT_CLEARED"
  BY DEF IInv, TInv, Entry, EntryKinds, Notes
<1> HIDE DEF e
<1>3. /\ DOMAIN evidence = 1..Len(evidence) /\ Len(evidence) \in Nat
      /\ DOMAIN evidence' = 1..(Len(evidence) + 1)
      /\ evidence'[Len(evidence) + 1] = e
  BY <1>1, <1>2, RecordEffect DEF IInv
<1>4. ASSUME NEW i \in DOMAIN evidence', RestrictionAt(i)'
      PROVE  ClearedAfter(i)'
  <2>1. i # Len(evidence) + 1
    BY <1>2, <1>3, <1>4 DEF RestrictionAt
  <2>2. Len(evidence) + 1 \in DOMAIN evidence' /\ Len(evidence) + 1 > i
    BY <1>3, <2>1
  <2> QED BY <1>2, <1>3, <2>2 DEF ClearedAfter
<1> QED BY <1>4

\* A caller that has survived no exception after a step had survived none before.
LEMMA NoExceptionYet ==
    ASSUME TInv, Next, raises' = 0
    PROVE  raises = 0 /\ ~Raise
<1>1. raises \in Nat
  BY BoundsAreNaturals DEF TInv
<1>2. ~Raise
  BY <1>1 DEF Raise
<1> QED BY <1>2, Writers

\* A restriction nobody cleared stays latched, about to be, or behind the barrier.
LEMMA RestrictPreserved ==
    ASSUME IInv, RestrictInv, Next, raises' = 0
    PROVE  RestrictInv'
<1>1. TInv /\ StoreInv /\ PlaceInv /\ Grows
  BY StoresGrow DEF IInv
<1>2. ~Raise
  BY <1>1, NoExceptionYet
<1>3. ASSUME NEW i \in DOMAIN evidence', RestrictionAt(i)', ~ClearedAfter(i)'
      PROVE  halt' # None \/ LatchDue' \/ (Driverless' /\ possibly_live' # {})
  <2>1. CASE i \notin DOMAIN evidence
    BY <1>3, <2>1, NewRestriction
  <2>2. CASE i \in DOMAIN evidence
    <3>1. RestrictionAt(i) /\ ~ClearedAfter(i)
      BY <1>3, <2>2, RestrictionsStay
    <3>2. pc # "clearing"
      BY <2>2, <3>1 DEF RestrictInv
    <3>3. CASE halt # None
      <4>1. Len(evidence) # None
        BY <1>1, NoneIsNew DEF TInv
      <4> QED BY <3>2, <3>3, <4>1, Writers DEF LatchViolation, LatchRestriction,
           record_new_risk_halt, clear_new_risk_halt
    <3>4. CASE LatchDue
      <4>1. cur \in Rows /\ ~inbox[cur].consumed /\ inbox[cur].started # None
        BY <1>1, <3>4 DEF LatchDue, PlaceInv, BeforeReceipt, AfterReceipt
      <4>2. CASE Crash
        <5>1. inbox' = inbox /\ Driverless'
          BY <4>2 DEF Crash, durable, Driverless
        <5>2. cur \in possibly_live'
          BY <4>1, <5>1 DEF possibly_live, unconsumed, Rows
        <5> QED BY <5>1, <5>2
      <4>3. CASE LatchViolation
        <5>1. Len(evidence) # None
          BY <1>1, NoneIsNew DEF TInv
        <5> QED BY <4>3, <5>1 DEF LatchViolation, record_new_risk_halt
      <4>4. CASE LatchRestriction
        <5>1. HasReceipt(cur)
          BY <1>1, <4>4 DEF LatchRestriction, PlaceInv, AfterReceipt
        <5>2. find_consumed_receipt(cur) # None
          BY <1>1, <5>1, ReceiptFound
        <5> QED BY <4>4, <5>2 DEF LatchRestriction, record_new_risk_halt
      <4>5. CASE ~Crash /\ ~LatchViolation /\ ~LatchRestriction
        <5>1. WaitBoundElapses \/ latch_restrictive
          BY <1>2, <3>4, <4>5 DEF LatchDue, Next, Boot, ProcessNext, Environment, BootReady,
             BootHolds, BootDiverges, inject_due_timeouts, Idle, MarkRecovered,
             FindInterrupted, StartHandling, mark_handling_started,
             handle_interrupted_event, CloseInterrupted, MarkInterrupted, RefuseHalted,
             HandleTick, HandleResult, HandleCorporateAction, GatewayRefuses, SendStarted,
             TransmitRaises, SendOnce, SendHandedOff, ProjectionViolated, record_consumed,
             MarkConsumed, RclReleases, RclKeeps, ReleaseProjection, RecordRelease,
             drain_gateway_results, clear_new_risk_halt, project_recovered_finality,
             enqueue_and_run, run_until_idle, QueueUntilRecovery, ClearIsAttested
        <5> QED BY <3>4, <5>1 DEF WaitBoundElapses, latch_restrictive, LatchDue, memory
      <4> QED BY <4>2, <4>3, <4>4, <4>5
    <3>5. CASE Driverless /\ possibly_live # {}
      <4>1. ~BootReady
        BY <3>5 DEF BootReady, barrier_obligations
      <4>2. Driverless' /\ ~MarkStep
        BY <1>1, <3>2, <3>5, <4>1, AttestationCovers, <1>3
           DEF Driverless, Next, Boot, ProcessNext, Environment,
             BootHolds, BootDiverges, inject_due_timeouts, Idle, MarkRecovered, Raise, Crash,
             FindInterrupted, StartHandling, mark_handling_started, MarkStep,
             handle_interrupted_event, CloseInterrupted, MarkInterrupted, RefuseHalted,
             HandleTick, HandleResult, HandleCorporateAction, GatewayRefuses, SendStarted,
             TransmitRaises, SendOnce, SendHandedOff, ProjectionViolated, record_consumed,
             MarkConsumed, RclReleases, RclKeeps, ReleaseProjection, RecordRelease,
             LatchViolation, latch_restrictive, LatchRestriction, WaitBoundElapses,
             drain_gateway_results, clear_new_risk_halt, project_recovered_finality,
             enqueue_and_run, run_until_idle, QueueUntilRecovery, ClearIsAttested
      <4>3. \A n \in Rows : inbox'[n] = inbox[n]
        <5>1. CASE ArriveStep /\ inbox' # inbox
          <6>1. PICK e \in InboxRow : inbox' = Append(inbox, e)
            BY <5>1, ArriveFrame
          <6> QED BY <1>1, <6>1, ArriveEffect
        <5> QED BY <4>2, <5>1, StepSorts, QuietFrame, RecordFrame
      <4>4. PICK n \in Rows : ~inbox[n].consumed /\ inbox[n].started # None
        BY <3>5 DEF possibly_live, unconsumed, Rows
      <4>5. n \in possibly_live'
        BY <1>1, <4>3, <4>4 DEF possibly_live, unconsumed, Rows, Grows
      <4> QED BY <4>2, <4>5
    <3> QED BY <2>2, <3>1, <3>3, <3>4, <3>5 DEF RestrictInv
  <2> QED BY <2>1, <2>2
<1>4. ASSUME pc' = "clearing"
      PROVE  \A i \in DOMAIN evidence' : RestrictionAt(i)' => ClearedAfter(i)'
  <2>1. ClearIsAttested \/ (pc = "clearing" /\ evidence' = evidence)
    BY <1>1, <1>4 DEF PlaceInv, Next, Boot, ProcessNext, Environment, BootReady, BootHolds,
       BootDiverges, Crash, Raise, inject_due_timeouts, Idle, MarkRecovered,
       FindInterrupted, StartHandling, mark_handling_started, WaitBoundElapses,
       handle_interrupted_event, CloseInterrupted, MarkInterrupted, RefuseHalted,
       HandleTick, FlowOutcome, HandleResult, HandleCorporateAction,
       GatewayRefuses, SendStarted, TransmitRaises, SendOnce, SendHandedOff,
       ProjectionViolated, LatchViolation, record_consumed, latch_restrictive,
       LatchRestriction, MarkConsumed, AfterMark, RclReleases, ReleaseProjection,
       RclKeeps, RecordRelease, drain_gateway_results, clear_new_risk_halt,
       project_recovered_finality, enqueue_and_run, run_until_idle,
       QueueUntilRecovery, durable
  <2>2. CASE pc = "clearing" /\ evidence' = evidence
    BY <2>2, RestrictionsStay DEF RestrictInv
  <2> QED BY <2>1, <2>2, AttestationCovers
<1> QED BY <1>3, <1>4 DEF RestrictInv

\* EngineDriverProps.RestrictionStopsNewRisk: until a caller goes on after an
\* exception, no tick reaches the core after the evidence of a restriction
\* before a clearing is on record, wherever the process dies in between.
THEOREM RestrictionHolds == Spec => RestrictionStopsNewRisk
<1> DEFINE Inv == raises = 0 => RestrictInv
<1>1. Init => Inv
  BY DEF Init, RestrictInv
<1>2. IInv /\ Inv /\ [Next]_vars => Inv'
  <2> SUFFICES ASSUME IInv, Inv, [Next]_vars, raises' = 0 PROVE RestrictInv'
    OBVIOUS
  <2>1. CASE UNCHANGED vars
    BY <2>1 DEF vars, durable, memory, history, RestrictInv, RestrictionAt, ClearedAfter, LatchDue,
       Driverless, possibly_live, unconsumed
  <2>2. CASE Next
    <3>1. RestrictInv
      BY <2>2, NoExceptionYet DEF IInv
    <3> QED BY <2>2, <3>1, RestrictPreserved
  <2> QED BY <2>1, <2>2
<1>3. Inv /\ [Next]_vars =>
        [HandleTick /\ raises = 0 =>
            \A i \in DOMAIN evidence : RestrictionAt(i) => ClearedAfter(i)]_vars
  BY DEF RestrictInv, HandleTick, LatchDue, Driverless
<1> QED BY <1>1, <1>2, <1>3, Invariant, PTL DEF Spec, RestrictionStopsNewRisk

-----------------------------------------------------------------------------
(* One order at a time *)

\* A replay that fails stays failed.
LEMMA FailureSticks ==
    ASSUME NEW a \in Accumulator, NEW i, ReplayEntry(a, i).ok
    PROVE  a.ok
<1>1. \A n, r : ReplayTick(a, n, r).ok => a.ok
  BY DEF ReplayTick, Accumulator
<1>2. \A row, r : ReplayResult(a, row, r).ok => a.ok
  BY DEF ReplayResult
<1>3. \A n, r : compare_one_event(a, n, r).ok => a.ok
  BY <1>1, <1>2 DEF compare_one_event, Accumulator
<1>4. \A n : ReplayRelease(a, n).ok => a.ok
  BY DEF ReplayRelease, Accumulator
<1> QED BY <1>3, <1>4 DEF ReplayEntry

\* Once the replayed ledger holds an attempt the RCL has not released, an entry
\* that replays without divergence leaves it there.
LEMMA ReplayKeepsAttempt ==
    ASSUME TInv, StoreInv, NEW i \in DOMAIN evidence, NEW a \in Accumulator,
           NEW n, n \notin released, a.ledger # None, a.ledger.attempt = n,
           ReplayEntry(a, i).ok
    PROVE  ReplayEntry(a, i).ledger # None /\ ReplayEntry(a, i).ledger.attempt = n
<1> DEFINE Good(b) == b.ok => b.ledger # None /\ b.ledger.attempt = n
<1>1. Good(a) /\ Good([a EXCEPT !.ok = FALSE])
  BY DEF Accumulator
<1>2. \A m, r : Good(ReplayTick(a, m, r))
  BY DEF ReplayTick, Accumulator
<1>3. ASSUME NEW m \in Rows, NEW r, inbox[m].kind = "EGRESS_RESULT"
      PROVE  Good(ReplayResult(a, inbox[m], r))
  <2>1. inbox[m].result \in ResultKinds /\ a.ledger \in Reservation
    BY <1>3 DEF StoreInv, Accumulator
  <2>2. Applied(a.ledger, inbox[m]) \in Reservation /\ Applied(a.ledger, inbox[m]).attempt = n
    BY <2>1, AppliedTyped
  <2>3. Applied(a.ledger, inbox[m]) # None
    BY <2>2, NoneIsNew
  <2> QED BY <2>2, <2>3 DEF ReplayResult
<1> HIDE DEF Good
<1>4. ASSUME NEW m
      PROVE  Good(ReplayRelease(a, m))
  <2>1. m \in released => ~Releasable(a.ledger, m)
    BY DEF Releasable
  <2>2. ReplayRelease(a, m) = a \/ ReplayRelease(a, m) = [a EXCEPT !.ok = FALSE]
    BY <2>1 DEF ReplayRelease
  <2> QED BY <1>1, <2>2
<1>5. ASSUME evidence[i].kind = "EVENT_CONSUMED"
      PROVE  Good(compare_one_event(a, evidence[i].row, evidence[i].note))
  <2>1. evidence[i].row \in Rows
    BY <1>5 DEF StoreInv
  <2> QED BY <1>1, <1>2, <1>3, <2>1 DEF compare_one_event
<1>6. Good(ReplayEntry(a, i))
  BY <1>1, <1>4, <1>5 DEF ReplayEntry
<1> QED BY <1>6 DEF Good

\* The receipt of an order that went out puts its attempt in the replayed ledger.
LEMMA ReplayTakesAttempt ==
    ASSUME IInv, NEW n \in network, NEW k \in DOMAIN evidence, Receipt(k, n),
           NEW a \in Accumulator, Len(inbox) <= Window, ReplayEntry(a, k).ok
    PROVE  ReplayEntry(a, k).ledger # None /\ ReplayEntry(a, k).ledger.attempt = n
<1>1. /\ n \in Rows /\ inbox[n].kind = "DECISION_TICK"
      /\ evidence[k].note \in {"HANDED_OFF", "TRANSMIT_RAISED",
                               "HANDLING_INTERRUPTED_POSSIBLY_LIVE_SEND"}
  BY DEF IInv, NetworkInv
<1>2. evidence[k].row = n /\ evidence[k].kind = "EVENT_CONSUMED"
  BY DEF Receipt
<1>3. n + Window > Len(inbox)
  <2>1. n \in Nat \ {0} /\ Len(inbox) \in Nat
    BY <1>1, RowTyped DEF IInv, TInv
  <2> QED BY <2>1, BoundsAreNaturals
<1>4. ReplayEntry(a, k) = compare_one_event(a, n, evidence[k].note)
  BY <1>2, <1>3 DEF ReplayEntry
<1>5. evidence[k].note \notin InterruptedNotes
  <2> SUFFICES ASSUME evidence[k].note \in InterruptedNotes PROVE FALSE
    OBVIOUS
  <2>1. [a EXCEPT !.ok = FALSE].ok = FALSE
    BY DEF Accumulator
  <2>2. compare_one_event(a, n, evidence[k].note) = [a EXCEPT !.ok = FALSE]
    BY DEF compare_one_event
  <2> QED BY <1>4, <2>1, <2>2
<1>6. ReplayEntry(a, k) = ReplayTick(a, n, evidence[k].note)
  BY <1>1, <1>4, <1>5 DEF compare_one_event
<1>7. evidence[k].note \in {"HANDED_OFF", "TRANSMIT_RAISED"}
  BY <1>1, <1>5 DEF InterruptedNotes
<1>8. Sent(n) # None /\ Sent(n).attempt = n
  <2>1. Sent(n) \in Reservation
    BY <1>1, RowTyped DEF Sent, Reservation, IInv
  <2> QED BY <2>1, NoneIsNew DEF Sent
<1>9. ReplayTick(a, n, evidence[k].note).ledger = Sent(n)
  BY <1>7 DEF ReplayTick, Accumulator
<1> QED BY <1>6, <1>8, <1>9

\* A boot that passes the replay and the barrier has every order that may be
\* live in its rebuilt ledger.
LEMMA BootKnowsLive ==
    ASSUME IInv, NEW n \in Live, replay_engine.ok, barrier_obligations,
           Len(inbox) <= Window
    PROVE  replay_engine.ledger # None /\ replay_engine.ledger.attempt = n
<1>1. TInv /\ StoreInv /\ n \in network /\ n \notin released
  BY DEF IInv, Live
<1>2. HasReceipt(n)
  <2>1. n \in Rows /\ inbox[n].started # None
    BY <1>1 DEF IInv, NetworkInv
  <2>2. inbox[n].consumed
    BY <2>1 DEF barrier_obligations, possibly_live, unconsumed, Rows
  <2> QED BY <1>1, <2>1, <2>2 DEF StoreInv
<1>3. PICK k \in DOMAIN evidence : Receipt(k, n)
  BY <1>2 DEF HasReceipt
<1>4. PICK f : Replays(f, Len(evidence)) /\ replay_engine = f[Len(evidence)]
  BY <1>1, ReplayIsFold
<1> DEFINE N == Len(evidence)
           S == {i \in 0..N : i >= k /\ f[i].ok => f[i].ledger # None /\ f[i].ledger.attempt = n}
<1>5. N \in Nat /\ DOMAIN evidence = 1..N
  BY <1>1 DEF TInv
<1>6. 0 \in S
  BY <1>3, <1>5
<1>7. ASSUME NEW i \in 0..N, i \in S, i < N
      PROVE  i + 1 \in S
  <2>1. i + 1 \in DOMAIN evidence /\ i + 1 \in 0..N /\ (i + 1) - 1 = i
    BY <1>5, <1>7
  <2>2. f[i + 1] = ReplayEntry(f[i], i + 1) /\ f[i] \in Accumulator
    BY <1>1, <1>4, <1>5, <2>1, ReplayTyped DEF Replays
  <2>3. ASSUME i + 1 >= k, f[i + 1].ok
        PROVE  f[i + 1].ledger # None /\ f[i + 1].ledger.attempt = n
    <3>1. f[i].ok
      BY <2>2, <2>3, FailureSticks
    <3>2. CASE i + 1 = k
      BY <1>1, <1>3, <2>2, <2>3, <3>2, ReplayTakesAttempt
    <3>3. CASE i >= k
      <4>1. f[i].ledger # None /\ f[i].ledger.attempt = n
        BY <1>7, <3>1, <3>3
      <4> QED BY <1>1, <2>1, <2>2, <2>3, <4>1, ReplayKeepsAttempt
    <3> QED BY <1>5, <1>7, <1>3, <2>3, <3>2, <3>3
  <2> QED BY <2>1, <2>3
<1> HIDE DEF N, S
<1>8. N \in S
  <2>1. N \in Nat /\ 0 \in S /\ \A i \in 0..N : i \in S /\ i < N => i + 1 \in S
    BY <1>5, <1>6, <1>7
  <2>2. \A i \in 0..N : i \in S
    BY <2>1, SetInduction
  <2> QED BY <2>1, <2>2
<1>9. N >= k
  BY <1>3, <1>5
<1> QED BY <1>4, <1>8, <1>9 DEF N, S

\* A process gets a driver only by a boot that passes the barrier.
LEMMA DriverStarts ==
    ASSUME IInv, Next, Driverless, ~Driverless'
    PROVE  BootReady
<1>1. PlaceInv
  BY DEF IInv
<1> USE DEF Driverless, memory
<1>2. ASSUME Boot \/ Crash \/ Environment \/ Raise, ~BootReady
      PROVE  Driverless'
  BY <1>2 DEF Boot, Environment, Crash, Raise, BootHolds, BootDiverges, enqueue_and_run,
     run_until_idle, QueueUntilRecovery, WaitBoundElapses,
     project_recovered_finality, ClearIsAttested
<1>3. ASSUME ProcessNext
      PROVE  Driverless'
  BY <1>1, <1>3 DEF ProcessNext, inject_due_timeouts, Idle, MarkRecovered,
     FindInterrupted, StartHandling, mark_handling_started,
     handle_interrupted_event, CloseInterrupted, MarkInterrupted, RefuseHalted,
     HandleTick, HandleResult, HandleCorporateAction, GatewayRefuses,
     SendStarted, TransmitRaises, SendOnce, SendHandedOff, ProjectionViolated,
     LatchViolation, record_consumed, latch_restrictive, LatchRestriction, MarkConsumed,
     RclReleases, RclKeeps, ReleaseProjection, RecordRelease,
     drain_gateway_results, clear_new_risk_halt
<1> QED BY <1>2, <1>3 DEF Next

\* The order that may be live stays the one in the ledger.
LEMMA LivePreserved ==
    ASSUME IInv, LiveInv, Next, Len(inbox) <= Window
    PROVE  LiveInv'
<1>1. TInv /\ StoreInv /\ PlaceInv /\ NetworkInv /\ Grows
  BY StoresGrow DEF IInv
<1>2. released \subseteq released'
  BY Writers DEF RclReleases
<1>3. pc' \in InBoundary => ledger' # None /\ ledger'.attempt = cur'
  <2>1. CASE HandleTick
    <3>1. cur \in Rows /\ cur' = cur
      BY <1>1, <2>1 DEF HandleTick, PlaceInv, BeforeReceipt
    <3>2. Sent(cur) \in Reservation
      BY <1>1, <3>1, RowTyped DEF Sent, Reservation
    <3>3. Sent(cur) # None /\ Sent(cur).attempt = cur
      BY <3>2, NoneIsNew DEF Sent
    <3> QED BY <2>1, <3>1, <3>3 DEF HandleTick, FlowOutcome, InBoundary
  <2>2. CASE ~HandleTick
    <3>1. pc' \in InBoundary => pc \in InBoundary /\ cur' = cur /\ ledger' = ledger
      BY <1>1, <2>2 DEF PlaceInv, Next, Boot, ProcessNext, Environment, BootReady, BootHolds,
         BootDiverges, Crash, Raise, inject_due_timeouts, Idle, MarkRecovered,
         FindInterrupted, StartHandling, mark_handling_started, WaitBoundElapses,
         handle_interrupted_event, CloseInterrupted, MarkInterrupted, RefuseHalted,
         HandleResult, HandleCorporateAction,
         GatewayRefuses, SendStarted, TransmitRaises, SendOnce, SendHandedOff,
         ProjectionViolated, LatchViolation, record_consumed, latch_restrictive,
         LatchRestriction, MarkConsumed, AfterMark, RclReleases, ReleaseProjection,
         RclKeeps, RecordRelease, drain_gateway_results, clear_new_risk_halt,
         project_recovered_finality, enqueue_and_run, run_until_idle,
         QueueUntilRecovery, ClearIsAttested, InBoundary, memory
    <3> QED BY <3>1 DEF LiveInv
  <2> QED BY <2>1, <2>2
<1>4. pc' \in {"releasing", "released"} => inbox'[cur'].attempt \in released'
  <2>1. ASSUME pc' \in {"releasing", "released"}
        PROVE  \/ RclReleases
               \/ pc \in {"releasing", "released"} /\ cur' = cur
    BY <1>1, <2>1 DEF PlaceInv, Next, Boot, ProcessNext, Environment, BootReady, BootHolds,
       BootDiverges, Crash, Raise, inject_due_timeouts, Idle, MarkRecovered,
       FindInterrupted, StartHandling, mark_handling_started, WaitBoundElapses,
       handle_interrupted_event, CloseInterrupted, MarkInterrupted, RefuseHalted,
       HandleTick, FlowOutcome, HandleResult, HandleCorporateAction,
       GatewayRefuses, SendStarted, TransmitRaises, SendOnce, SendHandedOff,
       ProjectionViolated, LatchViolation, record_consumed, latch_restrictive,
       LatchRestriction, MarkConsumed, AfterMark, ReleaseProjection,
       RclKeeps, RecordRelease, drain_gateway_results, clear_new_risk_halt,
       project_recovered_finality, enqueue_and_run, run_until_idle,
       QueueUntilRecovery, ClearIsAttested
  <2>2. CASE RclReleases
    BY <2>2 DEF RclReleases, memory
  <2>3. CASE pc \in {"releasing", "released"} /\ cur' = cur
    <3>1. cur \in Rows
      BY <1>1, <2>3 DEF PlaceInv, AfterMarked
    <3> QED BY <1>1, <1>2, <2>3, <3>1 DEF LiveInv, Grows
  <2> QED BY <2>1, <2>2, <2>3
<1>5. ASSUME NEW n \in Live'
      PROVE  \/ n \in Live
             \/ n = cur /\ SendOnce
  BY <1>2, <1>5, Writers DEF Live, SendOnce
<1>6. ASSUME SendOnce
      PROVE  \A m \in Live : m = cur
  BY <1>6 DEF SendOnce, LiveInv, Driverless, InBoundary
<1>7. \A m, n \in Live' : m = n
  BY <1>5, <1>6 DEF LiveInv
<1>8. ASSUME NEW n \in Live', ~Driverless'
      PROVE  ledger' # None /\ ledger'.attempt = n
  <2>1. CASE SendOnce
    <3>1. n = cur /\ ledger' = ledger
      BY <1>5, <1>6, <2>1 DEF SendOnce
    <3> QED BY <2>1, <3>1 DEF SendOnce, LiveInv, InBoundary
  <2>2. CASE BootReady
    <3>1. n \in Live /\ ledger' = replay_engine.ledger
      BY <2>2 DEF BootReady, durable, Live
    <3>2. replay_engine.ok /\ barrier_obligations
      BY <2>2 DEF BootReady
    <3> QED BY <3>1, <3>2, BootKnowsLive
  <2>3. CASE ~SendOnce /\ ~BootReady
    <3>1. n \in Live
      BY <1>5, <2>3
    <3>2. ~Driverless
      BY <1>8, <2>3, DriverStarts
    <3>3. ledger # None /\ ledger.attempt = n
      BY <3>1, <3>2 DEF LiveInv
    <3>4. CASE ledger' = ledger
      BY <3>3, <3>4
    <3>5. ~Crash
      BY <1>8 DEF Crash, Driverless
    <3>6. CASE HandleTick
      BY <3>3, <3>6 DEF HandleTick, FlowOutcome
    <3>7. CASE HandleResult
      <4>1. cur \in Rows /\ inbox[cur].kind = "EGRESS_RESULT"
        BY <1>1, <3>7 DEF HandleResult, PlaceInv, BeforeReceipt
      <4>2. inbox[cur].result \in ResultKinds /\ ledger \in Reservation
        BY <1>1, <3>3, <4>1 DEF StoreInv, TInv
      <4>3. /\ Applied(ledger, inbox[cur]).attempt = ledger.attempt
            /\ Applied(ledger, inbox[cur]) # None
        BY <4>2, AppliedTyped, NoneIsNew
      <4> QED BY <3>3, <3>7, <4>3 DEF HandleResult
    <3>8. CASE ReleaseProjection
      <4>1. inbox[cur].attempt \in released
        BY <3>8 DEF ReleaseProjection, LiveInv
      <4>2. n \notin released
        BY <3>1 DEF Live
      <4> QED BY <3>3, <3>8, <4>1, <4>2 DEF ReleaseProjection, Releasable
    <3> QED BY <2>3, <3>4, <3>5, <3>6, <3>7, <3>8, Writers
  <2> QED BY <2>1, <2>2, <2>3
<1> QED BY <1>3, <1>4, <1>7, <1>8 DEF LiveInv

\* The order that may be live is the one in the ledger of every driver.
LEMMA LiveInvariant == Spec /\ [](Len(inbox) <= Window) => []LiveInv
<1>1. Init => LiveInv
  BY DEF Init, LiveInv, Live, InBoundary
<1>2. IInv /\ LiveInv /\ Len(inbox) <= Window /\ [Next]_vars => LiveInv'
  <2>1. CASE UNCHANGED vars
    BY <2>1 DEF vars, durable, memory, LiveInv, Live, Driverless
  <2> QED BY <2>1, LivePreserved
<1> QED BY <1>1, <1>2, Invariant, PTL DEF Spec

\* EngineDriverProps.OneLiveAttempt: as long as the inbox fits in the replay
\* window, at most one order that went out is not released, over any crashes,
\* exceptions and boots.  (Beyond the window replay.py forgets reservations.)
THEOREM OneOrderAtATime ==
    Spec /\ [](Len(inbox) <= Window) => []OneLiveAttempt
<1>1. LiveInv => OneLiveAttempt
  <2> SUFFICES ASSUME LiveInv PROVE Cardinality(Live) <= 1
    BY DEF OneLiveAttempt, Live
  <2>1. CASE Live = {}
    BY <2>1, FS_EmptySet
  <2>2. CASE Live # {}
    <3>1. PICK n : n \in Live
      BY <2>2
    <3>2. Live = {n}
      BY <3>1 DEF LiveInv
    <3> QED BY <3>2, FS_Singleton
  <2> QED BY <2>1, <2>2
<1> QED BY <1>1, LiveInvariant, PTL

-----------------------------------------------------------------------------
(* The replay rebuilds the ledger *)

\* The replay of one entry without what may still change: the recorded transmit
\* is installed, the RCL has the release, every row is in the window.
SteadyTick(acc, n, recorded) ==
    IF recorded = "TRANSMIT_RAISED"
      THEN [acc EXCEPT !.ok = acc.ok /\ acc.ledger = None, !.ledger = Sent(n)]
      ELSE ReplayTick(acc, n, recorded)

SteadyEvent(acc, n, recorded) ==
    IF recorded \in InterruptedNotes THEN [acc EXCEPT !.ok = FALSE]
    ELSE CASE inbox[n].kind = "DECISION_TICK" -> SteadyTick(acc, n, recorded)
           [] inbox[n].kind = "EGRESS_RESULT" -> ReplayResult(acc, inbox[n], recorded)
           [] OTHER -> acc

SteadyRelease(acc, attempt) ==
    CASE attempt \notin acc.seen -> acc
      [] attempt \in acc.seen /\ Releasable(acc.ledger, attempt) -> [acc EXCEPT !.ledger = None]
      [] OTHER -> [acc EXCEPT !.ok = FALSE]

SteadyEntry(acc, i) ==
    CASE evidence[i].kind = "ENGINE_PROJECTION_RELEASED" -> SteadyRelease(acc, evidence[i].row)
      [] evidence[i].kind = "EVENT_CONSUMED" -> SteadyEvent(acc, evidence[i].row, evidence[i].note)
      [] OTHER -> acc

\* f has the state of the steady replay after each entry.
Steady(f) ==
    f = [i \in 0..Len(evidence) |-> IF i = 0 THEN NothingReplayed ELSE SteadyEntry(f[i - 1], i)]

\* Between a change of the ledger in memory and the entry that records it.
Ahead == InBoundary \cup {"handled", "violated", "projected", "released"}

\* A replayed fill comes from a replayed result.
Sound(a) ==
    /\ a \in Accumulator
    /\ a.ledger # None /\ a.ledger.knowledge = "FILLED" => a.ledger.attempt \in a.seen

\* How the replayed state compares with the memory of a process that drives.
Match(a) ==
    /\ Sound(a)
    /\ ~Driverless =>
          /\ a.ok
          /\ pc \notin Ahead => ledger = a.ledger
          /\ pc \in InBoundary => a.ledger = None /\ ledger = Sent(cur)
          /\ pc \in {"handled", "violated", "projected"} =>
                /\ SteadyEvent(a, cur, note).ok
                /\ SteadyEvent(a, cur, note).ledger = ledger
          /\ pc = "released" =>
                /\ Releasable(a.ledger, inbox[cur].attempt) /\ inbox[cur].attempt \in a.seen
                /\ ledger = None

\* Without survived exceptions a driver meets no interrupted row.
UninterruptedInv ==
    /\ pc \notin {"interrupted", "closing", "closed"}
    /\ ~Driverless => \A n \in possibly_live : n = cur /\ pc \in BeforeReceipt \cup AfterReceipt

\* What the entries that a replay acts on rest on.
RecordInv ==
    \A i \in DOMAIN evidence :
        /\ evidence[i].kind = "ENGINE_PROJECTION_RELEASED" => evidence[i].row \in released
        /\ evidence[i].note = "TRANSMIT_RAISED" =>
              evidence[i].kind = "EVENT_CONSUMED" /\ inbox[evidence[i].row].kind = "DECISION_TICK"

RaiseInv ==
    pc \in AfterCore /\ note = "TRANSMIT_RAISED" => inbox[cur].kind = "DECISION_TICK"

ReplayInv ==
    /\ UninterruptedInv /\ RecordInv /\ RaiseInv
    /\ \E f : Steady(f) /\ Match(f[Len(evidence)])

\* What the steady replay does with an entry does not change.
LEMMA SteadyStays ==
    ASSUME IInv, Next, NEW a, NEW i \in DOMAIN evidence
    PROVE  SteadyEntry(a, i)' = SteadyEntry(a, i)
<1>1. Grows /\ StoreInv /\ evidence'[i] = evidence[i]
  BY StoresGrow DEF IInv, Grows
<1>2. ASSUME NEW n, NEW r
      PROVE  SteadyTick(a, n, r)' = SteadyTick(a, n, r)
  BY DEF SteadyTick, ReplayTick, Sent, Unsent
<1>3. ASSUME NEW n \in Rows, NEW r
      PROVE  ReplayResult(a, inbox[n], r)' = ReplayResult(a, inbox[n], r)
  <2>1. inbox'[n].attempt = inbox[n].attempt /\ inbox'[n].result = inbox[n].result
    BY <1>1 DEF Grows
  <2> QED BY <2>1 DEF ReplayResult, Applies, Applied
<1>4. ASSUME NEW n \in Rows, NEW r
      PROVE  SteadyEvent(a, n, r)' = SteadyEvent(a, n, r)
  <2>1. inbox'[n].kind = inbox[n].kind
    BY <1>1 DEF Grows
  <2> QED BY <1>2, <1>3, <2>1 DEF SteadyEvent
<1>5. \A n : SteadyRelease(a, n)' = SteadyRelease(a, n)
  BY DEF SteadyRelease, Releasable
<1> QED BY <1>1, <1>4, <1>5 DEF SteadyEntry, StoreInv

\* A replayed event or release leaves a sound state.
LEMMA SteadySound ==
    ASSUME TInv, StoreInv, NEW a, Sound(a)
    PROVE  /\ \A n, r : n \in Rows => Sound(SteadyEvent(a, n, r))
           /\ \A n : Sound(SteadyRelease(a, n))
<1>1. Sound([a EXCEPT !.ok = FALSE]) /\ Sound([a EXCEPT !.ledger = None])
  BY DEF Sound, Accumulator
<1>2. ASSUME NEW n \in Rows, NEW r
      PROVE  Sound(SteadyTick(a, n, r))
  <2>1. Unsent(n) \in Reservation /\ Sent(n) \in Reservation
    BY <1>2, RowTyped DEF Unsent, Sent, Reservation
  <2>2. Unsent(n).knowledge # "FILLED" /\ Sent(n).knowledge # "FILLED"
    BY DEF Unsent, Sent
  <2>3. ASSUME NEW p \in BOOLEAN PROVE Sound([a EXCEPT !.ok = p])
    BY <2>3 DEF Sound, Accumulator
  <2>4. ASSUME NEW p \in BOOLEAN, NEW l \in {Sent(n), Unsent(n)}
        PROVE  Sound([a EXCEPT !.ok = p, !.ledger = l])
    BY <2>1, <2>2, <2>4 DEF Sound, Accumulator
  <2> QED BY <1>1, <2>3, <2>4 DEF SteadyTick, ReplayTick
<1>3. ASSUME NEW n \in Rows, NEW r, inbox[n].kind = "EGRESS_RESULT"
      PROVE  Sound(ReplayResult(a, inbox[n], r))
  <2>1. inbox[n].result \in ResultKinds /\ inbox[n].attempt \in Nat \cup {None}
    BY <1>3, RowTyped DEF StoreInv
  <2>2. Applies(a.ledger, inbox[n]) => a.ledger \in Reservation /\ a.ledger.attempt = inbox[n].attempt
    BY DEF Applies, Sound, Accumulator
  <2>3. Applies(a.ledger, inbox[n]) =>
           /\ Applied(a.ledger, inbox[n]) \in Reservation
           /\ Applied(a.ledger, inbox[n]).attempt = inbox[n].attempt
    BY <2>1, <2>2, AppliedTyped
  <2> QED BY <2>1, <2>2, <2>3 DEF ReplayResult, Sound, Accumulator
<1>4. ASSUME NEW n \in Rows, NEW r
      PROVE  Sound(SteadyEvent(a, n, r))
  BY <1>1, <1>2, <1>3 DEF SteadyEvent
<1>5. \A n : Sound(SteadyRelease(a, n))
  BY <1>1 DEF SteadyRelease
<1> QED BY <1>4, <1>5

\* The steady replay goes on over a step: unchanged, or by the new entry.
LEMMA SteadyGoesOn ==
    ASSUME IInv, Next, NEW f, Steady(f)
    PROVE  /\ evidence' = evidence => Steady(f)'
           /\ \A e \in Entry : evidence' = Append(evidence, e) /\ inbox' = inbox =>
                \E g : /\ Steady(g)'
                       /\ g[Len(evidence')] =
                            CASE e.kind = "ENGINE_PROJECTION_RELEASED" ->
                                   SteadyRelease(f[Len(evidence)], e.row)
                              [] e.kind = "EVENT_CONSUMED" ->
                                   SteadyEvent(f[Len(evidence)], e.row, e.note)
                              [] OTHER -> f[Len(evidence)]
<1> DEFINE N == Len(evidence)
<1>0. N \in Nat /\ DOMAIN evidence = 1..N
  BY DEF IInv, TInv
<1>1. ASSUME evidence' = evidence
      PROVE  Steady(f)'
  <2>1. \A i \in 0..N : i # 0 => SteadyEntry(f[i - 1], i)' = SteadyEntry(f[i - 1], i)
    BY <1>0, SteadyStays
  <2> QED BY <1>0, <1>1, <2>1 DEF Steady
<1>2. ASSUME NEW e \in Entry, evidence' = Append(evidence, e), inbox' = inbox
      PROVE  \E g : /\ Steady(g)'
                    /\ g[Len(evidence')] =
                         CASE e.kind = "ENGINE_PROJECTION_RELEASED" -> SteadyRelease(f[N], e.row)
                           [] e.kind = "EVENT_CONSUMED" -> SteadyEvent(f[N], e.row, e.note)
                           [] OTHER -> f[N]
  <2>1. Len(evidence') = N + 1 /\ evidence'[N + 1] = e
    BY <1>2, RecordEffect DEF IInv
  <2> DEFINE x == CASE e.kind = "ENGINE_PROJECTION_RELEASED" -> SteadyRelease(f[N], e.row)
                    [] e.kind = "EVENT_CONSUMED" -> SteadyEvent(f[N], e.row, e.note)
                    [] OTHER -> f[N]
             g == [i \in 0..(N + 1) |-> IF i <= N THEN f[i] ELSE x]
  <2>2. PICK m, y, h : m = N /\ y = x /\ h = g
    OBVIOUS
  <2>3. SteadyEntry(f[m], m + 1)' = y
    <3>1. SteadyEntry(f[m], m + 1)' =
            CASE e.kind = "ENGINE_PROJECTION_RELEASED" -> SteadyRelease(f[m], e.row)'
              [] e.kind = "EVENT_CONSUMED" -> SteadyEvent(f[m], e.row, e.note)'
              [] OTHER -> f[m]
      BY <2>1, <2>2 DEF SteadyEntry
    <3>2. SteadyRelease(f[m], e.row)' = SteadyRelease(f[m], e.row)
      BY DEF SteadyRelease, Releasable
    <3>3. SteadyEvent(f[m], e.row, e.note)' = SteadyEvent(f[m], e.row, e.note)
      BY <1>2 DEF SteadyEvent, SteadyTick, ReplayTick, Sent, Unsent, ReplayResult, Applies, Applied
    <3> QED BY <2>2, <3>1, <3>2, <3>3
  <2>4. Steady(h)'
    <3>1. m \in Nat /\ DOMAIN evidence = 1..m /\ Len(evidence') = m + 1
      BY <1>0, <2>1, <2>2
    <3>2. h = [i \in 0..(m + 1) |-> IF i <= m THEN f[i] ELSE y]
      BY <2>2
    <3>3. f = [i \in 0..m |-> IF i = 0 THEN NothingReplayed ELSE SteadyEntry(f[i - 1], i)]
      BY <2>2 DEF Steady
    <3> HIDE DEF x, g, N
    <3>4. ASSUME NEW i \in 0..(m + 1)
          PROVE  h[i] = IF i = 0 THEN NothingReplayed ELSE SteadyEntry(h[i - 1], i)'
      <4>1. CASE i = 0
        BY <3>1, <3>2, <3>3, <4>1
      <4>2. CASE i = m + 1
        <5>1. h[i] = y /\ h[i - 1] = f[m] /\ i # 0
          BY <3>1, <3>2, <4>2
        <5> QED BY <2>3, <4>2, <5>1
      <4>3. CASE i # 0 /\ i # m + 1
        <5>1. /\ i \in 0..m /\ i \in DOMAIN evidence
              /\ i - 1 \in 0..(m + 1) /\ i - 1 <= m
          BY <3>1, <4>3
        <5>2. h[i] = f[i] /\ h[i - 1] = f[i - 1]
          BY <3>1, <3>2, <5>1
        <5>3. f[i] = SteadyEntry(f[i - 1], i)
          BY <3>3, <4>3, <5>1
        <5>4. SteadyEntry(h[i - 1], i)' = SteadyEntry(h[i - 1], i)
          BY <5>1, SteadyStays
        <5> QED BY <4>3, <5>2, <5>3, <5>4
      <4> QED BY <4>1, <4>2, <4>3
    <3>5. h = [i \in 0..(m + 1) |-> h[i]]
      BY <3>2
    <3> QED BY <3>1, <3>4, <3>5 DEF Steady
  <2> QED BY <2>1, <2>2, <2>4
<1> QED BY <1>1, <1>2

\* With every row in the window and the recorded transmit installed, or not
\* needed, the boot's replay is the steady one.
LEMMA ReplayIsSteady ==
    ASSUME IInv, RecordInv, Len(inbox) <= Window,
           any_recorded_hand_off \/ \A i \in DOMAIN evidence : evidence[i].note # "TRANSMIT_RAISED",
           NEW f, Steady(f)
    PROVE  replay_engine = f[Len(evidence)]
<1>1. TInv /\ StoreInv
  BY DEF IInv
<1>2. PICK h : Replays(h, Len(evidence)) /\ replay_engine = h[Len(evidence)]
  BY <1>1, ReplayIsFold
<1>3. ASSUME NEW a \in Accumulator, NEW i \in DOMAIN evidence
      PROVE  ReplayEntry(a, i) = SteadyEntry(a, i)
  <2>1. CASE evidence[i].kind = "ENGINE_PROJECTION_RELEASED"
    <3>1. evidence[i].row \in released
      BY <2>1 DEF RecordInv
    <3> QED BY <2>1, <3>1 DEF ReplayEntry, SteadyEntry, ReplayRelease, SteadyRelease
  <2>2. CASE evidence[i].kind = "EVENT_CONSUMED"
    <3>1. evidence[i].row \in Rows
      BY <1>1, <2>2 DEF StoreInv
    <3>2. evidence[i].row + Window > Len(inbox)
      <4>1. evidence[i].row \in Nat \ {0} /\ Len(inbox) \in Nat
        BY <1>1, <3>1, RowTyped DEF TInv
      <4> QED BY <4>1, BoundsAreNaturals
    <3>3. ReplayTick(a, evidence[i].row, evidence[i].note)
            = SteadyTick(a, evidence[i].row, evidence[i].note)
      <4>1. CASE evidence[i].note = "TRANSMIT_RAISED"
        <5>1. any_recorded_hand_off
          BY <4>1
        <5>2. (a.ok /\ a.ledger = None /\ any_recorded_hand_off) = (a.ok /\ a.ledger = None)
          BY <5>1
        <5> QED BY <4>1, <5>2 DEF ReplayTick, SteadyTick
      <4>2. CASE evidence[i].note # "TRANSMIT_RAISED"
        BY <4>2 DEF SteadyTick
      <4> QED BY <4>1, <4>2
    <3>4. compare_one_event(a, evidence[i].row, evidence[i].note)
            = SteadyEvent(a, evidence[i].row, evidence[i].note)
      BY <3>3 DEF compare_one_event, SteadyEvent
    <3> QED BY <2>2, <3>2, <3>4 DEF ReplayEntry, SteadyEntry
  <2>3. CASE evidence[i].kind \notin {"ENGINE_PROJECTION_RELEASED", "EVENT_CONSUMED"}
    BY <2>3 DEF ReplayEntry, SteadyEntry
  <2> QED BY <2>1, <2>2, <2>3
<1> DEFINE N == Len(evidence)
           S == {i \in 0..N : h[i] = f[i]}
<1>4. N \in Nat /\ DOMAIN evidence = 1..N
  BY <1>1 DEF TInv
<1>5. 0 \in S
  BY <1>2, <1>4 DEF Replays, Steady
<1>6. ASSUME NEW i \in 0..N, i \in S, i < N
      PROVE  i + 1 \in S
  <2>1. i + 1 \in DOMAIN evidence /\ i + 1 \in 0..N /\ (i + 1) - 1 = i /\ i + 1 # 0
    BY <1>4, <1>6
  <2>2. h[i + 1] = ReplayEntry(h[i], i + 1) /\ h[i] \in Accumulator
    BY <1>1, <1>2, <1>4, <2>1, ReplayTyped DEF Replays
  <2>3. f[i + 1] = SteadyEntry(f[i], i + 1)
    BY <2>1 DEF Steady
  <2> QED BY <1>3, <1>6, <2>1, <2>2, <2>3
<1> HIDE DEF N, S
<1>7. N \in S
  <2>1. N \in Nat /\ 0 \in S /\ \A i \in 0..N : i \in S /\ i < N => i + 1 \in S
    BY <1>4, <1>5, <1>6
  <2>2. \A i \in 0..N : i \in S
    BY <2>1, SetInduction
  <2> QED BY <2>1, <2>2
<1> QED BY <1>2, <1>7 DEF N, S

\* A boot that passes the replay has the recorded transmit, or no need of it.
LEMMA AcceptedReplay ==
    ASSUME IInv, RecordInv, Len(inbox) <= Window, replay_engine.ok
    PROVE  any_recorded_hand_off \/ \A i \in DOMAIN evidence : evidence[i].note # "TRANSMIT_RAISED"
<1> SUFFICES ASSUME ~any_recorded_hand_off, NEW k \in DOMAIN evidence,
                    evidence[k].note = "TRANSMIT_RAISED"
             PROVE  FALSE
  OBVIOUS
<1>1. TInv /\ StoreInv
  BY DEF IInv
<1>2. PICK h : Replays(h, Len(evidence)) /\ replay_engine = h[Len(evidence)]
  BY <1>1, ReplayIsFold
<1> DEFINE N == Len(evidence)
           S == {i \in 0..N : i >= k => ~h[i].ok}
<1>3. N \in Nat /\ DOMAIN evidence = 1..N
  BY <1>1 DEF TInv
<1>4. ASSUME NEW a \in Accumulator
      PROVE  ~ReplayEntry(a, k).ok
  <2>1. /\ evidence[k].kind = "EVENT_CONSUMED" /\ evidence[k].row \in Rows
        /\ inbox[evidence[k].row].kind = "DECISION_TICK"
    BY <1>1 DEF RecordInv, StoreInv
  <2>2. evidence[k].row + Window > Len(inbox)
    <3>1. evidence[k].row \in Nat \ {0} /\ Len(inbox) \in Nat
      BY <1>1, <2>1, RowTyped DEF TInv
    <3> QED BY <3>1, BoundsAreNaturals
  <2>3. ReplayEntry(a, k) = ReplayTick(a, evidence[k].row, "TRANSMIT_RAISED")
    BY <2>1, <2>2 DEF ReplayEntry, compare_one_event, InterruptedNotes
  <2>4. ~ReplayTick(a, evidence[k].row, "TRANSMIT_RAISED").ok
    BY DEF ReplayTick, Accumulator
  <2> QED BY <2>3, <2>4
<1>5. 0 \in S
  BY <1>3
<1>6. ASSUME NEW i \in 0..N, i \in S, i < N
      PROVE  i + 1 \in S
  <2>1. i + 1 \in DOMAIN evidence /\ i + 1 \in 0..N /\ (i + 1) - 1 = i
    BY <1>3, <1>6
  <2>2. h[i + 1] = ReplayEntry(h[i], i + 1) /\ h[i] \in Accumulator
    BY <1>1, <1>2, <1>3, <2>1, ReplayTyped DEF Replays
  <2>3. ASSUME i + 1 >= k
        PROVE  ~h[i + 1].ok
    <3>1. CASE i + 1 = k
      BY <1>4, <2>2, <3>1
    <3>2. CASE i >= k
      BY <1>6, <2>2, <3>2, FailureSticks
    <3> QED BY <1>3, <1>6, <2>3, <3>1, <3>2
  <2> QED BY <2>1, <2>3
<1> HIDE DEF S
<1>7. N \in S
  <2> HIDE DEF N
  <2>1. N \in Nat /\ 0 \in S /\ \A i \in 0..N : i \in S /\ i < N => i + 1 \in S
    BY <1>3, <1>5, <1>6
  <2>2. \A i \in 0..N : i \in S
    BY <2>1, SetInduction
  <2> QED BY <2>1, <2>2
<1> QED BY <1>2, <1>3, <1>7 DEF S


\* The row in hand stays in hand until it is marked, or the process dies.
LEMMA RowStaysInHand ==
    ASSUME Next, pc \in BeforeReceipt \cup AfterReceipt,
           pc \notin {"interrupted", "closing", "closed"}
    PROVE  \/ Crash \/ Raise \/ MarkConsumed
           \/ /\ cur' = cur
              /\ pc' \in (BeforeReceipt \cup AfterReceipt) \ {"interrupted", "closing", "closed"}
<1> USE DEF BeforeReceipt, AfterReceipt, memory
<1>1. ASSUME Boot \/ Environment
      PROVE  cur' = cur /\ pc' = pc
  BY <1>1 DEF Boot, Environment, BootReady, BootHolds, BootDiverges, enqueue_and_run,
     run_until_idle, QueueUntilRecovery, WaitBoundElapses,
     project_recovered_finality, ClearIsAttested
<1>2. ASSUME ProcessNext, ~MarkConsumed
      PROVE  /\ cur' = cur
             /\ pc' \in (BeforeReceipt \cup AfterReceipt) \ {"interrupted", "closing", "closed"}
  BY <1>2 DEF ProcessNext, inject_due_timeouts, Idle, MarkRecovered,
     FindInterrupted, StartHandling, mark_handling_started,
     handle_interrupted_event, CloseInterrupted, MarkInterrupted, RefuseHalted,
     HandleTick, FlowOutcome, HandleResult, HandleCorporateAction, GatewayRefuses,
     SendStarted, TransmitRaises, SendOnce, SendHandedOff, ProjectionViolated,
     LatchViolation, record_consumed, latch_restrictive, LatchRestriction,
     RclReleases, RclKeeps, ReleaseProjection, RecordRelease,
     drain_gateway_results, clear_new_risk_halt
<1> QED BY <1>1, <1>2 DEF Next

\* A row becomes possibly live only by the mark that its handling starts.
LEMMA LiveRows ==
    ASSUME IInv, Next, NEW n \in possibly_live'
    PROVE  \/ n \in possibly_live /\ ~(MarkConsumed /\ n = cur)
           \/ mark_handling_started /\ n = cur
<1>1. TInv /\ StoreInv /\ PlaceInv
  BY DEF IInv
<1>2. n \in Rows' /\ ~inbox'[n].consumed /\ inbox'[n].started # None
  BY DEF possibly_live, unconsumed, Rows
<1>3. ASSUME n \in Rows, inbox'[n] = inbox[n]
      PROVE  n \in possibly_live
  BY <1>2, <1>3 DEF possibly_live, unconsumed, Rows
<1>4. CASE MarkStep
  <2>1. PICK m : Marks(m)
    BY <1>4, MarkFrame
  <2>2. CASE n # m
    <3>1. n \in possibly_live
      BY <1>2, <1>3, <2>1, <2>2 DEF Marks
    <3>2. MarkConsumed /\ n = cur => FALSE
      <4> SUFFICES ASSUME MarkConsumed, n = cur PROVE FALSE
        OBVIOUS
      <4>1. inbox'[n].consumed
        <5>1. n \in Rows /\ inbox[n] \in InboxRow
          BY <1>1, <1>2, <2>1, RowTyped DEF Marks
        <5>2. inbox' = [inbox EXCEPT ![n].consumed = TRUE]
          BY DEF MarkConsumed, mark_consumed
        <5> QED BY <5>1, <5>2 DEF InboxRow, Rows
      <4> QED BY <1>2, <4>1
    <3> QED BY <3>1, <3>2
  <2>3. CASE n = m
    <3>1. pc = "marking" /\ cur = m
      BY <1>2, <2>1, <2>3 DEF Marks
    <3> QED BY <1>4, <2>3, <3>1 DEF MarkStep, MarkRecovered, MarkInterrupted, MarkConsumed
  <2> QED BY <2>2, <2>3
<1>5. CASE ArriveStep
  <2>1. ~MarkConsumed
    BY <1>5 DEF ArriveStep, enqueue_and_run, QueueUntilRecovery, inject_due_timeouts,
       drain_gateway_results, MarkConsumed
  <2>2. CASE inbox' = inbox
    BY <1>2, <1>3, <2>1, <2>2 DEF Rows
  <2>3. CASE inbox' # inbox
    <3>1. PICK e \in InboxRow : inbox' = Append(inbox, e) /\ e.started = None
      BY <1>5, <2>3, ArriveFrame
    <3>2. /\ Rows' = Rows \cup {Len(inbox) + 1} /\ \A r \in Rows : inbox'[r] = inbox[r]
          /\ inbox'[Len(inbox) + 1] = e
      BY <1>1, <3>1, ArriveEffect
    <3> QED BY <1>2, <1>3, <2>1, <3>1, <3>2
  <2> QED BY <2>2, <2>3
<1>6. CASE ~MarkStep /\ ~ArriveStep
  <2>1. inbox' = inbox /\ ~MarkConsumed
    BY <1>6, StepSorts, QuietFrame, RecordFrame DEF MarkStep
  <2> QED BY <1>2, <1>3, <2>1 DEF Rows
<1> QED BY <1>4, <1>5, <1>6

\* Without survived exceptions no driver meets an interrupted row.
LEMMA UninterruptedPreserved ==
    ASSUME IInv, UninterruptedInv, Next, raises' = 0
    PROVE  UninterruptedInv'
<1>1. ~Raise
  BY NoExceptionYet DEF IInv
<1>2. possibly_live' = {} \/ ~BootReady
  <2> SUFFICES ASSUME BootReady PROVE possibly_live' = {}
    OBVIOUS
  <2>1. inbox' = inbox /\ possibly_live = {}
    BY DEF BootReady, barrier_obligations, durable
  <2> QED BY <2>1 DEF possibly_live, unconsumed
<1>3. ~FindInterrupted
  <2> SUFFICES ASSUME FindInterrupted PROVE FALSE
    OBVIOUS
  <2>1. next_unconsumed \in possibly_live /\ pc = "pull"
    BY OldestUnmarked DEF FindInterrupted, possibly_live, unconsumed, Rows, IInv
  <2> QED BY <2>1 DEF UninterruptedInv, Driverless, BeforeReceipt, AfterReceipt
<1>4. pc' \notin {"interrupted", "closing", "closed"}
  <2>1. CASE pc \in BeforeReceipt \cup AfterReceipt
    BY <1>1, <2>1, RowStaysInHand DEF UninterruptedInv, Crash, MarkConsumed, AfterMark
  <2>2. CASE pc \notin BeforeReceipt \cup AfterReceipt
    <3> USE DEF BeforeReceipt, AfterReceipt, memory, IInv, PlaceInv
    <3>1. ASSUME Boot \/ Crash \/ Environment
          PROVE  pc' \notin {"interrupted", "closing", "closed"}
      BY <2>2, <3>1 DEF Boot, Environment, Crash, BootReady, BootHolds, BootDiverges,
         enqueue_and_run, run_until_idle, QueueUntilRecovery, WaitBoundElapses,
         project_recovered_finality, ClearIsAttested
    <3>2. ASSUME ProcessNext
          PROVE  pc' \notin {"interrupted", "closing", "closed"}
      BY <1>3, <2>2, <3>2 DEF ProcessNext, inject_due_timeouts, Idle, MarkRecovered,
         StartHandling, mark_handling_started,
         handle_interrupted_event, CloseInterrupted, MarkInterrupted, RefuseHalted,
         HandleTick, HandleResult, HandleCorporateAction, GatewayRefuses,
         SendStarted, TransmitRaises, SendOnce, SendHandedOff, ProjectionViolated,
         LatchViolation, record_consumed, latch_restrictive, LatchRestriction, MarkConsumed,
         RclReleases, RclKeeps, ReleaseProjection, RecordRelease,
         drain_gateway_results, clear_new_risk_halt
    <3> QED BY <1>1, <3>1, <3>2 DEF Next
  <2> QED BY <2>1, <2>2
<1>5. ASSUME ~Driverless', NEW n \in possibly_live'
      PROVE  n = cur' /\ pc' \in BeforeReceipt \cup AfterReceipt
  <2>1. ~Driverless
    BY <1>2, <1>5, DriverStarts
  <2>2. CASE mark_handling_started /\ n = cur
    BY <2>2 DEF mark_handling_started, memory, BeforeReceipt
  <2>3. CASE ~(mark_handling_started /\ n = cur)
    <3>1. n \in possibly_live /\ ~(MarkConsumed /\ n = cur)
      BY <1>5, <2>3, LiveRows
    <3>2. n = cur /\ pc \in BeforeReceipt \cup AfterReceipt
      BY <2>1, <3>1 DEF UninterruptedInv
    <3>3. ~Crash
      BY <1>5 DEF Crash, Driverless
    <3> QED BY <1>1, <3>1, <3>2, <3>3, RowStaysInHand DEF UninterruptedInv
  <2> QED BY <2>2, <2>3
<1>6. ~Driverless' => \A n \in possibly_live' : n = cur' /\ pc' \in BeforeReceipt \cup AfterReceipt
  BY <1>5
<1> QED BY <1>4, <1>6 DEF UninterruptedInv

\* The note of a raised transmit comes from the send boundary, with its row.
LEMMA RaisedInBoundary ==
    ASSUME IInv, Next, pc' \in AfterCore, note' = "TRANSMIT_RAISED"
    PROVE  cur' = cur /\ (pc \in InBoundary \/ (pc \in AfterCore /\ note = note'))
<1>1. TInv /\ PlaceInv /\ StoreInv
  BY DEF IInv
<1>2. CASE HandleCorporateAction
  <2>1. cur \in Rows
    BY <1>1, <1>2 DEF HandleCorporateAction, PlaceInv, BeforeReceipt
  <2>2. inbox[cur].result # "TRANSMIT_RAISED"
    BY <1>1, <2>1, RowTyped DEF InboxRow, ResultKinds
  <2> QED BY <1>2, <2>2 DEF HandleCorporateAction
<1>3. CASE ~HandleCorporateAction
  BY <1>1, <1>3 DEF PlaceInv, Next, Boot, ProcessNext, Environment, BootReady, BootHolds,
     BootDiverges, Crash, Raise, inject_due_timeouts, Idle, MarkRecovered,
     FindInterrupted, StartHandling, mark_handling_started, WaitBoundElapses,
     handle_interrupted_event, CloseInterrupted, MarkInterrupted, RefuseHalted,
     HandleTick, FlowOutcome, HandleResult,
     GatewayRefuses, SendStarted, TransmitRaises, SendOnce, SendHandedOff,
     ProjectionViolated, LatchViolation, record_consumed, latch_restrictive,
     LatchRestriction, MarkConsumed, AfterMark, RclReleases, ReleaseProjection,
     RclKeeps, RecordRelease, drain_gateway_results, clear_new_risk_halt,
     project_recovered_finality, enqueue_and_run, run_until_idle,
     QueueUntilRecovery, ClearIsAttested, InBoundary, AfterCore, memory
<1> QED BY <1>2, <1>3

\* A transmit raises only for a tick.
LEMMA RaisePreserved ==
    ASSUME IInv, RaiseInv, Next PROVE RaiseInv'
<1> SUFFICES ASSUME pc' \in AfterCore, note' = "TRANSMIT_RAISED"
             PROVE  inbox'[cur'].kind = "DECISION_TICK"
  BY DEF RaiseInv
<1>1. cur' = cur /\ (pc \in InBoundary \/ (pc \in AfterCore /\ note = note'))
  BY RaisedInBoundary
<1>2. cur \in Rows /\ inbox[cur].kind = "DECISION_TICK"
  BY <1>1 DEF RaiseInv, IInv, PlaceInv, InBoundary, AfterCore, BeforeReceipt, AfterReceipt
<1>3. inbox'[cur].kind = inbox[cur].kind
  BY <1>2, StoresGrow DEF Grows
<1> QED BY <1>1, <1>2, <1>3

\* The entries a replay acts on: who writes a release, and a raised transmit.
LEMMA NewRecord ==
    ASSUME IInv, Next, NEW i \in DOMAIN evidence', i \notin DOMAIN evidence
    PROVE  /\ evidence'[i].kind = "ENGINE_PROJECTION_RELEASED" =>
                RecordRelease /\ evidence'[i].row = inbox[cur].attempt
           /\ evidence'[i].note = "TRANSMIT_RAISED" =>
                /\ record_consumed /\ note = "TRANSMIT_RAISED"
                /\ evidence'[i].kind = "EVENT_CONSUMED" /\ evidence'[i].row = cur
<1>1. RecordStep /\ i = Len(evidence) + 1 /\ evidence \in Seq(Entry)
  BY NewEntry DEF IInv, TInv
<1>2. ASSUME NEW k, NEW r, NEW n, append(k, r, n)
      PROVE  evidence'[i] = [kind |-> k, row |-> r, note |-> n]
  BY <1>1, <1>2 DEF append
<1>3. CASE RecordRelease
  <2>1. append("ENGINE_PROJECTION_RELEASED", inbox[cur].attempt, "NONE")
    BY <1>3 DEF RecordRelease
  <2> QED BY <1>2, <1>3, <2>1
<1>4. CASE record_consumed
  <2>1. append("EVENT_CONSUMED", cur, note)
    BY <1>4 DEF record_consumed
  <2> QED BY <1>2, <1>4, <2>1
<1>5. CASE CloseInterrupted
  <2>1. append("EVENT_CONSUMED", cur, note) /\ note \in InterruptedNotes
    BY <1>5 DEF CloseInterrupted, IInv, PlaceInv
  <2> QED BY <1>2, <2>1 DEF InterruptedNotes
<1>6. CASE ~RecordRelease /\ ~record_consumed /\ ~CloseInterrupted
  <2>1. \E k, r, n : /\ append(k, r, n) /\ k # "ENGINE_PROJECTION_RELEASED"
                     /\ n \in {"NONE", "NEW_RISK_HALTED"}
    BY <1>1, <1>6 DEF RecordStep, BootDiverges, StartHandling, handle_interrupted_event,
       RefuseHalted, SendStarted, SendHandedOff, ProjectionViolated, latch_restrictive,
       ClearIsAttested
  <2>2. PICK k, r, n : /\ append(k, r, n) /\ k # "ENGINE_PROJECTION_RELEASED"
                       /\ n \in {"NONE", "NEW_RISK_HALTED"}
    BY <2>1
  <2> QED BY <1>2, <2>2
<1> QED BY <1>3, <1>4, <1>5, <1>6

\* A recorded release is committed, and only a tick has a raised transmit.
LEMMA RecordPreserved ==
    ASSUME IInv, LiveInv, RecordInv, RaiseInv, Next PROVE RecordInv'
<1>1. Grows /\ StoreInv /\ PlaceInv
  BY StoresGrow DEF IInv
<1>2. released \subseteq released'
  BY Writers DEF RclReleases
<1>3. ASSUME NEW i \in DOMAIN evidence', evidence'[i].kind = "ENGINE_PROJECTION_RELEASED"
      PROVE  evidence'[i].row \in released'
  <2>1. CASE i \in DOMAIN evidence
    BY <1>1, <1>2, <1>3, <2>1 DEF RecordInv, Grows
  <2>2. CASE i \notin DOMAIN evidence
    <3>1. RecordRelease /\ evidence'[i].row = inbox[cur].attempt
      BY <1>3, <2>2, NewRecord
    <3> QED BY <1>2, <3>1 DEF RecordRelease, LiveInv
  <2> QED BY <2>1, <2>2
<1>4. ASSUME NEW i \in DOMAIN evidence', evidence'[i].note = "TRANSMIT_RAISED"
      PROVE  /\ evidence'[i].kind = "EVENT_CONSUMED"
             /\ inbox'[evidence'[i].row].kind = "DECISION_TICK"
  <2>1. CASE i \in DOMAIN evidence
    <3>1. /\ evidence'[i] = evidence[i] /\ evidence[i].kind = "EVENT_CONSUMED"
          /\ evidence[i].row \in Rows /\ inbox[evidence[i].row].kind = "DECISION_TICK"
      BY <1>1, <1>4, <2>1 DEF RecordInv, Grows, StoreInv
    <3> QED BY <1>1, <3>1 DEF Grows
  <2>2. CASE i \notin DOMAIN evidence
    <3>1. /\ record_consumed /\ note = "TRANSMIT_RAISED"
          /\ evidence'[i].kind = "EVENT_CONSUMED" /\ evidence'[i].row = cur
      BY <1>4, <2>2, NewRecord
    <3>2. cur \in Rows /\ inbox[cur].kind = "DECISION_TICK"
      BY <1>1, <3>1 DEF record_consumed, RaiseInv, AfterCore, PlaceInv, BeforeReceipt
    <3> QED BY <1>1, <3>1, <3>2 DEF Grows
  <2> QED BY <2>1, <2>2
<1> QED BY <1>3, <1>4 DEF RecordInv

\* What a driver's step does, by where it stands: it leaves the ledger and its
\* record alone, or it is one of the steps around a change of the ledger.
LEMMA DriverSteps ==
    ASSUME IInv, UninterruptedInv, Next, ~Driverless, ~Driverless', ~Raise
    PROVE  \/ WaitBoundElapses
           \/ HandleTick \/ HandleResult \/ HandleCorporateAction
           \/ GatewayRefuses \/ SendStarted \/ TransmitRaises \/ SendOnce \/ SendHandedOff
           \/ ProjectionViolated \/ LatchViolation \/ record_consumed \/ RefuseHalted
           \/ ReleaseProjection \/ RecordRelease
           \/ StartHandling \/ latch_restrictive \/ ClearIsAttested
           \/ /\ ledger' = ledger /\ evidence' = evidence
              /\ pc \notin Ahead /\ pc' \notin Ahead
<1> USE DEF UninterruptedInv, Driverless, Ahead, InBoundary, durable, memory
<1>1. PlaceInv
  BY DEF IInv
<1>2. CASE Boot \/ Crash \/ Environment
  BY <1>2 DEF Boot, Environment, Crash, BootReady, BootHolds, BootDiverges,
     enqueue_and_run, run_until_idle, QueueUntilRecovery, project_recovered_finality
<1>3. CASE ProcessNext
  BY <1>1, <1>3 DEF PlaceInv, ProcessNext, inject_due_timeouts, Idle, MarkRecovered,
     FindInterrupted, mark_handling_started,
     handle_interrupted_event, CloseInterrupted, MarkInterrupted,
     LatchRestriction, MarkConsumed, AfterMark, RclReleases, RclKeeps,
     drain_gateway_results, clear_new_risk_halt
<1> QED BY <1>2, <1>3 DEF Next

\* The steady replay keeps the pace of the ledger.
LEMMA MatchPreserved ==
    ASSUME IInv, LiveInv, ReplayInv, Next, raises' = 0, Len(inbox) <= Window
    PROVE  \E g : Steady(g)' /\ Match(g[Len(evidence)])'
<1> DEFINE G == \E g : Steady(g)' /\ Match(g[Len(evidence)])'
<1> SUFFICES G
  OBVIOUS
<1>1. /\ TInv /\ StoreInv /\ PlaceInv /\ RecordInv /\ UninterruptedInv
      /\ Len(evidence) \in Nat
  BY DEF IInv, ReplayInv, TInv
<1>2. PICK f : Steady(f) /\ Match(f[Len(evidence)])
  BY DEF ReplayInv
<1>3. PICK a : a = f[Len(evidence)]
  OBVIOUS
<1>4. Match(a) /\ Sound(a) /\ a \in Accumulator
  BY <1>2, <1>3 DEF Match, Sound
\* It is enough to match the state after the new entry, if there is one.
<1>5. ASSUME evidence' = evidence, Match(a)'
      PROVE  G
  <2>1. Steady(f)' /\ f[Len(evidence')] = a
    BY <1>2, <1>3, <1>5, SteadyGoesOn
  <2>2. Match(f[Len(evidence)])'
    BY <1>5, <2>1
  <2> QED BY <2>1, <2>2
<1>6. ASSUME NEW k, NEW r, NEW n, NEW x, append(k, r, n), inbox' = inbox,
             [kind |-> k, row |-> r, note |-> n] \in Entry,
             k = "ENGINE_PROJECTION_RELEASED" => x = SteadyRelease(a, r),
             k = "EVENT_CONSUMED" => x = SteadyEvent(a, r, n),
             k \notin {"ENGINE_PROJECTION_RELEASED", "EVENT_CONSUMED"} => x = a,
             Match(x)'
      PROVE  G
  <2> DEFINE e == [kind |-> k, row |-> r, note |-> n]
  <2>1. e \in Entry /\ evidence' = Append(evidence, e) /\ e.kind = k /\ e.row = r /\ e.note = n
    BY <1>6 DEF append
  <2> HIDE DEF e
  <2>2. PICK g : Steady(g)' /\ g[Len(evidence')] = x
    BY <1>2, <1>3, <1>6, <2>1, SteadyGoesOn
  <2>3. Match(g[Len(evidence)])'
    BY <1>6, <2>2
  <2> QED BY <2>2, <2>3
<1> HIDE DEF G
<1>8. CASE Driverless'
  <2>1. Match(a)'
    BY <1>4, <1>8 DEF Match, Sound
  <2>2. CASE evidence' = evidence
    BY <1>5, <2>1, <2>2
  <2>3. CASE evidence' # evidence
    <3>1. RecordStep
      BY <2>3, StepSorts, QuietFrame, ArriveFrame, MarkFrame
    <3>2. BootDiverges \/ ClearIsAttested
      BY <1>8, <3>1 DEF Driverless, RecordStep, StartHandling, handle_interrupted_event,
         CloseInterrupted, RefuseHalted, SendStarted, SendHandedOff, ProjectionViolated,
         record_consumed, latch_restrictive, RecordRelease
    <3>3. CASE BootDiverges
      <4>1. append("REPLAY_DIVERGED", None, "NONE") /\ inbox' = inbox
        BY <3>3 DEF BootDiverges
      <4>2. [kind |-> "REPLAY_DIVERGED", row |-> None, note |-> "NONE"] \in Entry
        BY DEF Entry, EntryKinds, Notes
      <4> QED BY <1>6, <2>1, <4>1, <4>2
    <3>4. CASE ClearIsAttested
      <4>1. append("NEW_RISK_HALT_CLEARED", halt, "NONE") /\ inbox' = inbox
        BY <3>4 DEF ClearIsAttested
      <4>2. [kind |-> "NEW_RISK_HALT_CLEARED", row |-> halt, note |-> "NONE"] \in Entry
        BY <1>1 DEF Entry, EntryKinds, Notes, TInv
      <4> QED BY <1>6, <2>1, <4>1, <4>2
    <3> QED BY <3>2, <3>3, <3>4
  <2> QED BY <2>2, <2>3
<1>9. CASE Driverless /\ ~Driverless'
  <2>1. BootReady
    BY <1>9, DriverStarts
  <2>2. /\ replay_engine.ok /\ ledger' = replay_engine.ledger
        /\ evidence' = evidence /\ pc' = "idle"
    BY <2>1 DEF BootReady, durable
  <2>3. replay_engine = a
    BY <1>1, <1>2, <1>3, <2>2, AcceptedReplay, ReplayIsSteady
  <2>4. Match(a)'
    BY <1>4, <2>2, <2>3 DEF Match, Sound, Ahead, InBoundary
  <2> QED BY <1>5, <2>2, <2>4
<1>10. CASE ~Driverless /\ ~Driverless'
  <2>1. /\ a.ok
        /\ pc \notin Ahead => ledger = a.ledger
        /\ pc \in InBoundary => a.ledger = None /\ ledger = Sent(cur)
        /\ pc \in {"handled", "violated", "projected"} =>
              SteadyEvent(a, cur, note).ok /\ SteadyEvent(a, cur, note).ledger = ledger
        /\ pc = "released" =>
              /\ Releasable(a.ledger, inbox[cur].attempt) /\ inbox[cur].attempt \in a.seen
              /\ ledger = None
    BY <1>4, <1>10 DEF Match
  <2>2. ASSUME NEW x, Sound(x), x.ok, ledger' = x.ledger, pc' \notin Ahead
        PROVE  Match(x)'
    BY <2>2 DEF Match, Sound, Ahead, InBoundary
  <2>3. ASSUME pc' \in InBoundary, a.ledger = None, ledger' = Sent(cur')
        PROVE  Match(a)'
    BY <1>4, <2>1, <2>3 DEF Match, Sound, Ahead, InBoundary, Sent
  \* The receipt that the row in hand will get is replayed to the ledger.
  <2>4. ASSUME NEW c, NEW r, c = cur', r = note', inbox' = inbox,
               pc' \in {"handled", "violated", "projected"},
               SteadyEvent(a, c, r).ok, SteadyEvent(a, c, r).ledger = ledger'
        PROVE  Match(a)'
    <3>1. SteadyEvent(a, cur, note)' = SteadyEvent(a, c, r)
      BY <2>4 DEF SteadyEvent, SteadyTick, ReplayTick, Sent, Unsent, ReplayResult, Applies, Applied
    <3>2. Sound(a)' /\ pc' \in Ahead /\ pc' \notin InBoundary /\ pc' # "released"
      BY <1>4, <2>4 DEF Sound, Ahead, InBoundary
    <3> QED BY <2>1, <2>4, <3>1, <3>2 DEF Match
  <2>5. ~Raise
    BY <1>1, NoExceptionYet
  <2>6. CASE ledger' = ledger /\ evidence' = evidence /\ pc \notin Ahead /\ pc' \notin Ahead
    BY <1>4, <1>5, <2>1, <2>2, <2>6
  <2>7. CASE WaitBoundElapses
    <3>1. /\ evidence' = evidence /\ inbox' = inbox /\ pc' = pc /\ cur' = cur
          /\ note' = note /\ ledger' = ledger
      BY <2>7 DEF WaitBoundElapses, durable
    <3>2. CASE pc \notin Ahead
      BY <2>6, <3>1, <3>2
    <3>3. CASE pc \in InBoundary
      BY <1>5, <2>1, <2>3, <3>1, <3>3
    <3>4. CASE pc \in {"handled", "violated", "projected"}
      BY <1>5, <2>1, <2>4, <3>1, <3>4
    <3>5. CASE pc = "released"
      <4>1. Match(a)'
        BY <1>4, <2>1, <3>1, <3>5 DEF Match, Sound, Ahead, InBoundary, Releasable
      <4> QED BY <1>5, <3>1, <4>1
    <3> QED BY <3>2, <3>3, <3>4, <3>5 DEF Ahead
  <2>8. CASE HandleTick
    <3>1. /\ cur' = cur /\ inbox' = inbox /\ evidence' = evidence
          /\ ledger = a.ledger /\ inbox[cur].kind = "DECISION_TICK"
      BY <2>1, <2>8 DEF HandleTick, durable, Ahead, InBoundary
    <3>2. ASSUME NEW r \in {"SCOPE_HELD", "STOPPED", "UNSENT"}, note' = r, pc' = "handled",
                 SteadyTick(a, cur, r).ok, SteadyTick(a, cur, r).ledger = ledger'
          PROVE  G
      <4>1. SteadyEvent(a, cur, r) = SteadyTick(a, cur, r)
        BY <3>1, <3>2 DEF SteadyEvent, InterruptedNotes
      <4> QED BY <1>5, <2>4, <3>1, <3>2, <4>1
    <3>3. CASE ledger # None /\ note' = "SCOPE_HELD" /\ pc' = "handled" /\ ledger' = ledger
      BY <1>4, <2>1, <3>1, <3>2, <3>3 DEF SteadyTick, ReplayTick, Accumulator
    <3>4. CASE ledger = None /\ note' = "STOPPED" /\ pc' = "handled" /\ ledger' = ledger
      BY <1>4, <2>1, <3>1, <3>2, <3>4 DEF SteadyTick, ReplayTick, Accumulator
    <3>5. CASE ledger = None /\ note' = "UNSENT" /\ pc' = "handled" /\ ledger' = Unsent(cur)
      BY <1>4, <2>1, <3>1, <3>2, <3>5 DEF SteadyTick, ReplayTick, Accumulator
    <3>6. CASE ledger = None /\ pc' = "boundary" /\ ledger' = Sent(cur)
      BY <1>5, <2>3, <3>1, <3>6 DEF InBoundary
    <3> QED BY <2>8, <3>3, <3>4, <3>5, <3>6 DEF HandleTick, FlowOutcome
  <2>9. CASE HandleResult
    <3>1. /\ cur' = cur /\ inbox' = inbox /\ evidence' = evidence /\ pc' = "handled"
          /\ ledger = a.ledger /\ inbox[cur].kind = "EGRESS_RESULT"
          /\ IF Applies(ledger, inbox[cur])
               THEN ledger' = Applied(ledger, inbox[cur]) /\ note' = "APPLIED"
               ELSE ledger' = ledger /\ note' = "NOT_APPLIED"
      BY <2>1, <2>9 DEF HandleResult, durable, Ahead, InBoundary
    <3>2. PICK r : r = note'
      OBVIOUS
    <3>3. SteadyEvent(a, cur, r) = ReplayResult(a, inbox[cur], r)
      BY <3>1, <3>2 DEF SteadyEvent, InterruptedNotes
    <3>4. SteadyEvent(a, cur, r).ok /\ SteadyEvent(a, cur, r).ledger = ledger'
      <4>1. a.ok = TRUE
        BY <1>4, <2>1 DEF Accumulator
      <4>2. CASE Applies(a.ledger, inbox[cur])
        <5>1. r = "APPLIED" /\ ledger' = Applied(a.ledger, inbox[cur])
          BY <3>1, <3>2, <4>2
        <5>2. ReplayResult(a, inbox[cur], r).ledger = Applied(a.ledger, inbox[cur])
          BY <4>2 DEF ReplayResult
        <5>3. (a.ok /\ r = IF Applies(a.ledger, inbox[cur]) THEN "APPLIED" ELSE "NOT_APPLIED") = TRUE
          BY <4>1, <4>2, <5>1
        <5>4. ReplayResult(a, inbox[cur], r).ok = TRUE
          BY <5>3 DEF ReplayResult
        <5> QED BY <3>3, <5>1, <5>2, <5>4
      <4>3. CASE ~Applies(a.ledger, inbox[cur])
        <5>1. r = "NOT_APPLIED" /\ ledger' = a.ledger
          BY <3>1, <3>2, <4>3
        <5>2. ReplayResult(a, inbox[cur], r).ledger = a.ledger
          BY <4>3 DEF ReplayResult
        <5>3. (a.ok /\ r = IF Applies(a.ledger, inbox[cur]) THEN "APPLIED" ELSE "NOT_APPLIED") = TRUE
          BY <4>1, <4>3, <5>1
        <5>4. ReplayResult(a, inbox[cur], r).ok = TRUE
          BY <5>3 DEF ReplayResult
        <5> QED BY <3>3, <5>1, <5>2, <5>4
      <4> QED BY <4>2, <4>3
    <3> QED BY <1>5, <2>4, <3>1, <3>2, <3>4
  <2>10. CASE HandleCorporateAction
    <3>1. /\ cur' = cur /\ inbox' = inbox /\ evidence' = evidence /\ pc' = "handled"
          /\ ledger = a.ledger /\ ledger' = ledger /\ cur \in Rows
          /\ inbox[cur].kind = "CORPORATE_ACTION" /\ note' = inbox[cur].result
      BY <1>1, <2>1, <2>10 DEF HandleCorporateAction, durable, Ahead, InBoundary, PlaceInv,
         BeforeReceipt
    <3>2. PICK r : r = note'
      OBVIOUS
    <3>3. r \notin InterruptedNotes
      BY <1>1, <3>1, <3>2, RowTyped DEF InboxRow, ResultKinds, InterruptedNotes
    <3>4. SteadyEvent(a, cur, r) = a
      BY <3>1, <3>3 DEF SteadyEvent
    <3> QED BY <1>5, <2>1, <2>4, <3>1, <3>2, <3>4
  <2>11. CASE GatewayRefuses
    BY <1>5, <2>1, <2>3, <2>11 DEF GatewayRefuses, InBoundary, durable, memory
  <2>12. ASSUME NEW k, NEW r, append(k, r, "NONE"), inbox' = inbox,
                k \in EntryKinds \ {"ENGINE_PROJECTION_RELEASED", "EVENT_CONSUMED"},
                r \in Nat \cup {None}, Match(a)'
         PROVE  G
    <3>1. [kind |-> k, row |-> r, note |-> "NONE"] \in Entry
      BY <2>12 DEF Entry, Notes
    <3> QED BY <1>6, <2>12, <3>1
  <2>13. cur \in Nat \cup {None} /\ halt \in Nat \cup {None}
    BY <1>1 DEF TInv
  <2>14. CASE SendStarted
    <3>1. Match(a)'
      BY <2>1, <2>3, <2>14 DEF SendStarted, InBoundary, memory
    <3> QED BY <2>12, <2>13, <2>14, <3>1 DEF SendStarted, EntryKinds
  <2>15. ASSUME pc \in InBoundary, cur' = cur, inbox' = inbox, ledger' = ledger, pc' = "handled",
                note' \in {"HANDED_OFF", "TRANSMIT_RAISED"}
         PROVE  Match(a)'
    <3>1. inbox[cur].kind = "DECISION_TICK" /\ a.ledger = None /\ ledger = Sent(cur)
      BY <1>1, <2>1, <2>15 DEF PlaceInv
    <3>2. PICK r : r = note'
      OBVIOUS
    <3>3. SteadyEvent(a, cur, r) = SteadyTick(a, cur, r)
      BY <2>15, <3>1, <3>2 DEF SteadyEvent, InterruptedNotes
    <3>4. SteadyTick(a, cur, r).ok /\ SteadyTick(a, cur, r).ledger = Sent(cur)
      BY <1>4, <2>1, <2>15, <3>1, <3>2 DEF SteadyTick, ReplayTick, Accumulator
    <3> QED BY <2>4, <2>15, <3>1, <3>2, <3>3, <3>4
  <2>16. CASE TransmitRaises
    BY <1>5, <2>15, <2>16 DEF TransmitRaises, InBoundary, durable
  <2>17. CASE SendOnce
    <3>1. CASE pc' = "handled"
      BY <1>5, <2>15, <2>17, <3>1 DEF SendOnce, InBoundary
    <3>2. CASE pc' = "handed"
      BY <1>5, <2>1, <2>3, <2>17, <3>2 DEF SendOnce, InBoundary
    <3> QED BY <2>17, <3>1, <3>2 DEF SendOnce
  <2>18. CASE SendHandedOff
    <3>1. Match(a)'
      BY <2>15, <2>18 DEF SendHandedOff, InBoundary
    <3> QED BY <2>12, <2>13, <2>18, <3>1 DEF SendHandedOff, EntryKinds
  <2>19. CASE ProjectionViolated
    <3>1. Match(a)'
      BY <2>1, <2>4, <2>19 DEF ProjectionViolated, memory
    <3> QED BY <2>12, <2>13, <2>19, <3>1 DEF ProjectionViolated, EntryKinds
  <2>20. CASE LatchViolation
    BY <1>5, <2>1, <2>4, <2>20 DEF LatchViolation, memory
  <2>21. ASSUME NEW r \in Notes, append("EVENT_CONSUMED", cur, r), inbox' = inbox, cur \in Rows,
                SteadyEvent(a, cur, r).ok, SteadyEvent(a, cur, r).ledger = ledger',
                pc' = "consumed"
         PROVE  G
    <3>1. PICK x : x = SteadyEvent(a, cur, r)
      OBVIOUS
    <3>2. Sound(x)
      BY <1>1, <1>4, <2>21, <3>1, SteadySound
    <3>3. Match(x)'
      BY <2>2, <2>21, <3>1, <3>2 DEF Ahead, InBoundary
    <3>4. [kind |-> "EVENT_CONSUMED", row |-> cur, note |-> r] \in Entry
      BY <2>13, <2>21 DEF Entry, EntryKinds
    <3> QED BY <1>6, <2>21, <3>1, <3>3, <3>4
  <2>22. CASE record_consumed
    <3>1. /\ cur \in Rows /\ note \in Notes /\ inbox' = inbox /\ ledger' = ledger
          /\ pc \in {"handled", "projected"} /\ pc' = "consumed"
          /\ append("EVENT_CONSUMED", cur, note)
      BY <1>1, <2>22 DEF record_consumed, memory, PlaceInv, BeforeReceipt, TInv
    <3> QED BY <2>1, <2>21, <3>1
  <2>23. CASE RefuseHalted
    <3>1. /\ cur \in Rows /\ inbox' = inbox /\ ledger' = ledger /\ pc' = "consumed"
          /\ append("EVENT_CONSUMED", cur, "NEW_RISK_HALTED")
          /\ ledger = a.ledger /\ inbox[cur].kind = "DECISION_TICK"
      BY <1>1, <2>1, <2>23 DEF RefuseHalted, PlaceInv, BeforeReceipt, Ahead, InBoundary
    <3>2. SteadyEvent(a, cur, "NEW_RISK_HALTED") = a
      BY <3>1 DEF SteadyEvent, InterruptedNotes, SteadyTick, ReplayTick
    <3>3. "NEW_RISK_HALTED" \in Notes
      BY DEF Notes, TickNotes
    <3> QED BY <2>1, <2>21, <3>1, <3>2, <3>3
  <2>24. CASE ReleaseProjection
    <3>1. /\ ledger = a.ledger /\ evidence' = evidence /\ inbox' = inbox /\ cur' = cur
      BY <2>1, <2>24 DEF ReleaseProjection, durable, Ahead, InBoundary
    <3>2. CASE ledger' = ledger /\ pc' = "start"
      BY <2>6, <2>24, <3>1, <3>2 DEF ReleaseProjection, Ahead, InBoundary
    <3>3. CASE /\ Releasable(ledger, inbox[cur].attempt) /\ ledger' = None /\ pc' = "released"
      <4>1. inbox[cur].attempt \in a.seen
        BY <1>4, <3>1, <3>3 DEF Sound, Releasable
      <4>2. Match(a)'
        BY <1>4, <2>1, <3>1, <3>3, <4>1 DEF Match, Sound, Ahead, InBoundary, Releasable
      <4> QED BY <1>5, <3>1, <4>2
    <3> QED BY <2>24, <3>2, <3>3 DEF ReleaseProjection
  <2>25. CASE RecordRelease
    <3>1. PICK r : r = inbox[cur].attempt
      OBVIOUS
    <3>2. /\ append("ENGINE_PROJECTION_RELEASED", r, "NONE") /\ inbox' = inbox
          /\ ledger' = ledger /\ ledger = None /\ pc' = "start" /\ cur \in Rows
          /\ Releasable(a.ledger, r) /\ r \in a.seen
      BY <1>1, <2>1, <2>25, <3>1 DEF RecordRelease, memory, PlaceInv, AfterMarked
    <3>3. PICK x : x = SteadyRelease(a, r)
      OBVIOUS
    <3>4. Sound(x)
      BY <1>1, <1>4, <3>3, SteadySound
    <3>5. x.ok /\ x.ledger = None
      BY <1>4, <2>1, <3>2, <3>3 DEF SteadyRelease, Accumulator
    <3>6. Match(x)'
      BY <2>2, <3>2, <3>4, <3>5 DEF Ahead, InBoundary
    <3>7. [kind |-> "ENGINE_PROJECTION_RELEASED", row |-> r, note |-> "NONE"] \in Entry
      BY <1>1, <3>1, <3>2, RowTyped DEF Entry, EntryKinds, Notes
    <3> QED BY <1>6, <3>2, <3>3, <3>6, <3>7
  <2>26. CASE StartHandling
    <3>1. next_unconsumed \in Nat \cup {None}
      BY <1>1, <2>26, OldestUnmarked, RowTyped DEF StartHandling
    <3>2. Match(a)'
      BY <1>4, <2>1, <2>2, <2>26 DEF StartHandling, Ahead, InBoundary
    <3> QED BY <2>12, <2>26, <3>1, <3>2 DEF StartHandling, EntryKinds
  <2>27. CASE latch_restrictive
    <3>1. Match(a)'
      BY <1>4, <2>1, <2>2, <2>27 DEF latch_restrictive, memory, Ahead, InBoundary
    <3> QED BY <2>12, <2>13, <2>27, <3>1 DEF latch_restrictive, EntryKinds
  <2>28. CASE ClearIsAttested
    <3>1. Match(a)'
      BY <1>4, <2>1, <2>2, <2>28 DEF ClearIsAttested, Ahead, InBoundary
    <3> QED BY <2>12, <2>13, <2>28, <3>1 DEF ClearIsAttested, EntryKinds
  <2> QED BY <1>1, <1>10, <2>5, <2>6, <2>7, <2>8, <2>9, <2>10, <2>11, <2>14, <2>16, <2>17,
             <2>18, <2>19, <2>20, <2>22, <2>23, <2>24, <2>25, <2>26, <2>27, <2>28, DriverSteps
<1> QED BY <1>8, <1>9, <1>10

\* Without survived exceptions and with every row in the window, the replay of
\* the evidence is the ledger, up to the step in hand.
LEMMA ReplayInvariant ==
    Spec /\ [](Len(inbox) <= Window) => [](raises = 0 => ReplayInv)
<1>1. Init => (raises = 0 => ReplayInv)
  <2> SUFFICES ASSUME Init PROVE ReplayInv
    OBVIOUS
  <2>1. UninterruptedInv /\ RecordInv /\ RaiseInv
    BY DEF Init, UninterruptedInv, RecordInv, RaiseInv, Driverless, AfterCore
  <2> DEFINE f == [i \in 0..0 |-> NothingReplayed]
  <2>2. Len(evidence) = 0 /\ f[0] = NothingReplayed /\ 0..0 = {0}
    BY DEF Init
  <2>3. Steady(f)
    BY <2>2 DEF Steady
  <2>4. Match(f[Len(evidence)])
    BY <2>2 DEF Init, Match, Sound, Driverless, NothingReplayed, Accumulator
  <2> QED BY <2>1, <2>3, <2>4 DEF ReplayInv
<1>2. /\ IInv /\ LiveInv /\ (raises = 0 => ReplayInv) /\ Len(inbox) <= Window /\ [Next]_vars
      => (raises = 0 => ReplayInv)'
  <2> SUFFICES ASSUME IInv, LiveInv, raises = 0 => ReplayInv, Len(inbox) <= Window, [Next]_vars,
                      raises' = 0
               PROVE  ReplayInv'
    OBVIOUS
  <2>0. ReplayInv
    BY NoExceptionYet DEF IInv, vars, history
  <2>1. CASE Next
    BY <2>0, <2>1, UninterruptedPreserved, RecordPreserved, RaisePreserved, MatchPreserved
       DEF ReplayInv
  <2>2. CASE UNCHANGED vars
    <3> USE <2>0, <2>2 DEF vars, durable, memory
    <3>1. UninterruptedInv' /\ RecordInv' /\ RaiseInv'
      BY DEF ReplayInv, UninterruptedInv, RecordInv, RaiseInv, Driverless, possibly_live, unconsumed
    <3>2. PICK f : Steady(f) /\ Match(f[Len(evidence)])
      BY DEF ReplayInv
    <3>3. ASSUME NEW a, NEW n, NEW r
          PROVE  SteadyEvent(a, n, r)' = SteadyEvent(a, n, r)
      BY DEF SteadyEvent, SteadyTick, ReplayTick, Sent, Unsent, ReplayResult, Applies, Applied
    <3>4. ASSUME NEW a, NEW i
          PROVE  SteadyEntry(a, i)' = SteadyEntry(a, i)
      BY <3>3 DEF SteadyEntry, SteadyRelease, Releasable
    <3>5. Steady(f)'
      BY <3>2, <3>4 DEF Steady
    <3>6. PICK a : a = f[Len(evidence)]
      OBVIOUS
    <3>7. Match(a)'
      BY <3>2, <3>3, <3>6 DEF Match, Sound, Driverless, Sent, Releasable
    <3>8. Match(f[Len(evidence)])'
      BY <3>6, <3>7
    <3> QED BY <3>1, <3>5, <3>8 DEF ReplayInv
  <2> QED BY <2>1, <2>2
<1> QED BY <1>1, <1>2, Invariant, LiveInvariant, PTL DEF Spec

\* EngineDriverProps.ReplayReproducesLedger: while the inbox fits in the replay
\* window, and until a caller goes on after an exception, a boot from the
\* stores of an idle process accepts them and rebuilds its ledger.
THEOREM ReplayRebuildsLedger ==
    Spec /\ [](Len(inbox) <= Window) => []ReplayReproducesLedger
<1>1. IInv /\ (raises = 0 => ReplayInv) /\ Len(inbox) <= Window => ReplayReproducesLedger
  <2> SUFFICES ASSUME IInv, ReplayInv, Len(inbox) <= Window, pc = "idle", ~RaisedWithoutHandOff
               PROVE  replay_engine.ok /\ replay_engine.ledger = ledger
    BY DEF ReplayReproducesLedger
  <2>1. PICK f : Steady(f) /\ Match(f[Len(evidence)])
    BY DEF ReplayInv
  <2>2. any_recorded_hand_off \/ \A i \in DOMAIN evidence : evidence[i].note # "TRANSMIT_RAISED"
    BY DEF RaisedWithoutHandOff
  <2>3. replay_engine = f[Len(evidence)]
    BY <2>1, <2>2, ReplayIsSteady DEF ReplayInv
  <2> QED BY <2>1, <2>3 DEF Match, Driverless, Ahead, InBoundary
<1> QED BY <1>1, Invariant, ReplayInvariant, PTL

=============================================================================
