------------------------- MODULE RclCommitLogProofs -------------------------
(***************************************************************************)
(* Proofs, for every set of processes, commands and requests, of what      *)
(* RclCommitLogProps states and TLC checks on a small instance.            *)
(***************************************************************************)
EXTENDS RclCommitLogProps, NatSetInduction

\* The phases in which a call has the transaction of BEGIN IMMEDIATE open, a
\* call that an exception has ended among them.
InTransaction == { "begun", "inserted", "evidenced", "raised" }

\* The phases of a call in flight.
InFlight == { "begun", "inserted", "evidenced", "committed" }

\* A process that has a call in flight has a request.
CallsHaveRequests ==
    \A w \in Writers : call[w].phase \in InFlight => call[w].req \in Requests

TInv == TypeOK /\ CallsHaveRequests

\* The write lock is held by the process whose call is inside a transaction.
LockInv(w) == lock = w <=> call[w].phase \in InTransaction

\* A running process runs under an epoch that it acquired itself, and so does
\* every call of it that is not a release.
EpochInv(w) ==
    /\ held[w] # 0 => held[w] \in DOMAIN epochs /\ epochs[held[w]] = w
    /\ call[w].phase \in InFlight =>
         /\ held[w] # 0
         /\ call[w].req.kind # "RELEASE_RESERVATION" => call[w].epoch = held[w]
    /\ held[w] = 0 => outcome[w] = NoOutcome

\* What the gate and the checks admitted stays admissible until COMMIT: no other
\* process writes while the lock is held.
PendingInv(w) ==
    /\ call[w].phase \in InFlight => LifecycleRefusal(call[w].req) = "NONE"
    /\ call[w].phase \in { "inserted", "evidenced" } =>
         pre_insert_checks(call[w]) = "NONE"
    /\ call[w].phase = "evidenced" => EvidenceOf(call[w]) \in evidence

\* Between COMMIT and the receipt the entry is where the receipt will say.
CommittedInv(w) ==
    call[w].phase = "committed" =>
      /\ call[w].expected + 1 \in DOMAIN entries
      /\ entries[call[w].expected + 1] = EntryOf(call[w])
      /\ held[w] <= call[w].epoch

ProcessInv(w) ==
    /\ LockInv(w) /\ EpochInv(w) /\ PendingInv(w) /\ CommittedInv(w)
    /\ OutcomeTruthful(w)

\* A held row is the last transition of its reservation.
RowInv ==
    \A r \in Reservations :
      /\ reservations[r] = None => \A i \in DOMAIN entries : entries[i].req.resv # r
      /\ reservations[r] # None =>
           /\ reservations[r].last_seq + 1 \in DOMAIN entries
           /\ LET last == entries[reservations[r].last_seq + 1].req
              IN  last.resv = r /\ last.to = reservations[r].state
           /\ \A i \in DOMAIN entries :
                i > reservations[r].last_seq + 1 => entries[i].req.resv # r

TablesInv ==
    /\ RowInv /\ EvidenceCoversLog /\ FencedWriterNeverAppends
    /\ CommandCommittedOnce /\ LifecycleIsAChain

IInv == TInv /\ TablesInv /\ \A w \in Writers : ProcessInv(w)

\* Whatever the reason, a refusal is an outcome.
LEMMA RefusedTyped ==
    ASSUME NEW reason, NEW q \in Requests \cup {None}
    PROVE  Refused(reason, q) \in OutcomeType
  BY DEF Refused, Returned, NoOutcome, OutcomeType, Results

\* A rollback keeps every type.
LEMMA RollbackTyped ==
    ASSUME TInv, NEW w \in Writers, NEW result,
           RollbackWith(w, result)
    PROVE  /\ lock' \in Writers \cup {None}
           /\ outcome' \in [ Writers -> OutcomeType ]
           /\ call' \in [ Writers -> CallType ]
           /\ CallsHaveRequests'
           /\ UNCHANGED << epochs, entries, reservations, held, view >>
  <1>1. Refused(result, call[w].req) \in OutcomeType
    BY RefusedTyped DEF TInv, TypeOK, CallType
  <1>2. NoRequest \in CallType /\ NoRequest.phase = "idle"
    BY DEF NoRequest, CallType, Phases
  <1>. QED
    BY <1>1, <1>2 DEF RollbackWith, TInv, TypeOK, CallsHaveRequests, InFlight

\* The log starts typed, with no call under way.
LEMMA TypeInit == Init => TInv
  <1>. SUFFICES ASSUME Init PROVE TInv
    OBVIOUS
  <1>1. /\ NoRequest \in CallType /\ NoRequest.phase = "idle"
        /\ NoOutcome \in OutcomeType
    BY DEF NoRequest, CallType, Phases, NoOutcome, OutcomeType, Results
  <1>2. /\ lock \in Writers \cup {None}
        /\ held \in [ Writers -> Nat ] /\ view \in [ Writers -> ViewType ]
        /\ call \in [ Writers -> CallType ] /\ outcome \in [ Writers -> OutcomeType ]
        /\ CallsHaveRequests
    BY <1>1 DEF Init, CallsHaveRequests, InFlight, NoView, ViewType
  <1>3. /\ epochs \in Seq(Writers) /\ entries \in Seq(EntryType)
        /\ evidence \in SUBSET EvidenceType
        /\ reservations \in [ Reservations -> RowType \cup {None} ]
    <2>1. CASE epochs = << >> /\ entries = << >> /\ evidence = {}
               /\ reservations = [ r \in Reservations |-> None ]
      BY <2>1
    <2>2. ASSUME NEW w \in Writers, NEW q \in Requests,
                 NEW v \in Vectors \cup {None},
                 q.resv # None,
                 epochs = << w >>,
                 entries = << [ epoch |-> 1,
                                req |-> [ q EXCEPT !.vector = Unrecorded ] ] >>,
                 evidence = { [ seq |-> 0, epoch |-> 1, cmd |-> q.cmd,
                                digest |-> q.digest ] },
                 reservations =
                   [ r \in Reservations |->
                       IF r = q.resv
                         THEN [ state |-> q.to, last_seq |-> 0,
                                scope |-> q.scope, vector |-> v ]
                         ELSE None ]
          PROVE  /\ epochs \in Seq(Writers) /\ entries \in Seq(EntryType)
                 /\ evidence \in SUBSET EvidenceType
                 /\ reservations \in [ Reservations -> RowType \cup {None} ]
      <3>1. q \in RequestType
        BY RequestsAreTyped
      <3>2. [ q EXCEPT !.vector = Unrecorded ] \in RequestType
        BY <3>1 DEF RequestType
      <3>3. [ epoch |-> 1, req |-> [ q EXCEPT !.vector = Unrecorded ] ] \in EntryType
        BY <3>2 DEF EntryType
      <3>. QED
        BY <2>2, <3>1, <3>3 DEF RequestType, EvidenceType, RowType
    <2>. QED
      BY <2>1, <2>2 DEF Init
  <1>. QED
    BY <1>2, <1>3 DEF TInv, TypeOK

\* Every step keeps the types.
LEMMA TypeStep == TInv /\ [Next]_vars => TInv'
  <1>. SUFFICES ASSUME TInv, [Next]_vars PROVE TInv'
    OBVIOUS
  <1>. USE DEF TInv, InFlight
  <1>1. CASE UNCHANGED vars
    BY <1>1 DEF vars, TypeOK, CallsHaveRequests
  <1>2. ASSUME NEW w \in Writers, AcquireEpoch(w) PROVE TInv'
    BY <1>2 DEF AcquireEpoch, TypeOK, CallsHaveRequests
  <1>3. ASSUME NEW w \in Writers, NEW e \in ReadEpochs(w), ReadLinearizable(w, e)
        PROVE  TInv'
    <2>1. [ epoch |-> e, tip |-> current_seq_tip ] \in ViewType
      BY DEF ReadEpochs, current_epoch, current_seq_tip, TypeOK, ViewType
    <2>. QED
      BY <1>3, <2>1 DEF ReadLinearizable, TypeOK, CallsHaveRequests
  <1>4. ASSUME NEW w \in Writers, NEW q \in Requests, GateRefuses(w, q)
        PROVE  TInv'
    <2>1. Refused(LifecycleRefusal(q), q) \in OutcomeType
      BY RefusedTyped
    <2>. QED
      BY <1>4, <2>1 DEF GateRefuses, TypeOK, CallsHaveRequests
  <1>5. ASSUME NEW w \in Writers, NEW q \in Requests, Begin(w, q)
        PROVE  TInv'
    <2>1. NoOutcome \in OutcomeType
      BY DEF NoOutcome, OutcomeType, Results
    <2>2. [ phase |-> "begun", req |-> q, epoch |-> writer_epoch_of(w, q),
            expected |-> view[w].tip ] \in CallType
      BY DEF CallType, Phases, TypeOK, ViewType, writer_epoch_of
    <2>. QED
      BY <1>5, <2>1, <2>2 DEF Begin, TypeOK, CallsHaveRequests
  <1>6. ASSUME NEW w \in Writers, NEW q \in Requests, BeginBusy(w, q)
        PROVE  TInv'
    <2>1. Refused("STORE_UNAVAILABLE", q) \in OutcomeType
      BY RefusedTyped
    <2>. QED
      BY <1>6, <2>1 DEF BeginBusy, TypeOK, CallsHaveRequests
  <1>7. ASSUME NEW w \in Writers, ChecksRefuse(w) PROVE TInv'
    BY <1>7, RollbackTyped DEF ChecksRefuse, TypeOK
  <1>8. ASSUME NEW w \in Writers, InsertEntryAndReservation(w) PROVE TInv'
    <2>1. [ call[w] EXCEPT !.phase = "inserted" ] \in CallType
      BY DEF TypeOK, CallType, Phases
    <2>. QED
      BY <1>8, <2>1 DEF InsertEntryAndReservation, TypeOK, CallsHaveRequests, CallType
  <1>9. ASSUME NEW w \in Writers, AppendEvidence(w) PROVE TInv'
    <2>1. [ call[w] EXCEPT !.phase = "evidenced" ] \in CallType
      BY DEF TypeOK, CallType, Phases
    <2>2. call[w].req \in RequestType /\ call[w].epoch \in Nat
      BY <1>9, RequestsAreTyped DEF AppendEvidence, CallsHaveRequests, TypeOK, CallType
    <2>3. EvidenceOf(call[w]) \in EvidenceType
      BY <2>2 DEF EvidenceOf, EvidenceType, current_seq_tip, TypeOK, RequestType
    <2>. QED
      BY <1>9, <2>1, <2>3 DEF AppendEvidence, TypeOK, CallsHaveRequests, CallType
  <1>10. ASSUME NEW w \in Writers, EvidenceFails(w) PROVE TInv'
    BY <1>10, RollbackTyped DEF EvidenceFails, TypeOK
  <1>11. ASSUME NEW w \in Writers, StoreFails(w) PROVE TInv'
    BY <1>11, RollbackTyped DEF StoreFails, TypeOK
  <1>12. ASSUME NEW w \in Writers, Commit(w) PROVE TInv'
    <2>. DEFINE q == call[w].req
    <2>1. /\ q \in Requests /\ q \in RequestType /\ q.vector # Unrecorded
          /\ call[w].epoch \in Nat
      BY <1>12, RequestsAreTyped DEF Commit, CallsHaveRequests, TypeOK, CallType
    <2>2. [ call[w] EXCEPT !.phase = "committed",
                           !.expected = current_seq_tip + 1 ] \in CallType
      <3>1. call[w] \in CallType /\ current_seq_tip + 1 \in Int
        BY DEF TypeOK, current_seq_tip
      <3>2. [ call[w] EXCEPT !.phase = "committed" ] \in CallType
        BY <3>1 DEF CallType, Phases
      <3>. QED
        BY <3>1, <3>2 DEF CallType
    <2>3. EntryOf(call[w]) \in EntryType
      BY <2>1 DEF EntryOf, EntryType
    <2>4. upsert_reservation_projection(q, current_seq_tip + 1)
            \in [ Reservations -> RowType \cup {None} ]
      BY <2>1 DEF upsert_reservation_projection, TypeOK, RowType, RequestType,
                  current_seq_tip
    <2>. QED
      BY <1>12, <2>1, <2>2, <2>3, <2>4
      DEF Commit, TypeOK, CallsHaveRequests, CallType
  <1>13. ASSUME NEW w \in Writers, ReturnReceipt(w) PROVE TInv'
    <2>1. /\ NoRequest \in CallType /\ NoRequest.phase = "idle"
          /\ Returned("RECEIPT", call[w].req, call[w].expected) \in OutcomeType
      BY DEF NoRequest, CallType, Phases, Returned, OutcomeType, Results, TypeOK
    <2>. QED
      BY <1>13, <2>1 DEF ReturnReceipt, TypeOK, CallsHaveRequests
  <1>14. ASSUME NEW w \in Writers, Crash(w) PROVE TInv'
    <2>1. /\ NoRequest \in CallType /\ NoRequest.phase = "idle"
          /\ NoOutcome \in OutcomeType
      BY DEF NoRequest, CallType, Phases, NoOutcome, OutcomeType, Results
    <2>. QED
      BY <1>14, <2>1 DEF Crash, TypeOK, CallsHaveRequests, NoView, ViewType
  <1>15. ASSUME NEW w \in Writers, CallRaises(w) PROVE TInv'
    <2>1. /\ [ NoRequest EXCEPT !.phase = "raised" ] \in CallType
          /\ [ NoRequest EXCEPT !.phase = "raised" ].phase = "raised"
      BY DEF NoRequest, CallType, Phases
    <2>. QED
      BY <1>15, <2>1 DEF CallRaises, TypeOK, CallsHaveRequests
  <1>16. ASSUME NEW w \in Writers, GapReadRollsBack(w) PROVE TInv'
    <2>1. NoRequest \in CallType /\ NoRequest.phase = "idle"
      BY DEF NoRequest, CallType, Phases
    <2>. QED
      BY <1>16, <2>1 DEF GapReadRollsBack, TypeOK, CallsHaveRequests
  <1>. QED
    BY <1>1, <1>2, <1>3, <1>4, <1>5, <1>6, <1>7, <1>8, <1>9, <1>10, <1>11,
       <1>12, <1>13, <1>14, <1>15, <1>16 DEF Next, CallStep

\* Every reachable state of the commit log is well typed, whatever processes
\* crash and whatever steps fail (log.py, gates.py).
THEOREM TypeCorrect == Spec => []TypeOK
  <1>1. TInv => TypeOK
    BY DEF TInv
  <1>. QED
    BY <1>1, TypeInit, TypeStep, PTL DEF Spec

----------------------------------------------------------------------------
(* Safety of the log *)

\* A step that leaves the tables alone, evidence growing at most, keeps what
\* the tables promise.
LEMMA TablesUntouched ==
    ASSUME TablesInv, UNCHANGED << epochs, entries, reservations >>,
           evidence \subseteq evidence'
    PROVE  TablesInv'
  <1>1. RowInv'
    BY DEF TablesInv, RowInv
  <1>2. EvidenceCoversLog'
    BY DEF TablesInv, EvidenceCoversLog
  <1>3. FencedWriterNeverAppends' /\ CommandCommittedOnce'
    BY DEF TablesInv, FencedWriterNeverAppends, CommandCommittedOnce
  <1>4. LifecycleIsAChain'
    BY DEF TablesInv, LifecycleIsAChain
  <1>. QED
    BY <1>1, <1>2, <1>3, <1>4 DEF TablesInv

\* It also keeps what is promised of a process that takes no part in it.
LEMMA BystanderKeeps ==
    ASSUME NEW x \in Writers, ProcessInv(x),
           UNCHANGED << epochs, entries, reservations >>,
           evidence \subseteq evidence',
           call'[x] = call[x], outcome'[x] = outcome[x], held'[x] = held[x],
           lock' = x <=> lock = x
    PROVE  ProcessInv(x)'
  <1>1. LockInv(x)' /\ EpochInv(x)' /\ CommittedInv(x)' /\ OutcomeTruthful(x)'
    BY DEF ProcessInv, LockInv, EpochInv, CommittedInv, EntryOf, OutcomeTruthful
  <1>2. PendingInv(x)'
    BY DEF ProcessInv, PendingInv, pre_insert_checks, stale_writer_epoch,
       current_epoch, current_seq_tip, classify_duplicate_command,
       existing_command_row, check_reservation_from_state, EvidenceOf
  <1>. QED
    BY <1>1, <1>2 DEF ProcessInv

\* So of such a step only the process that takes it is left to look at.
LEMMA QuietStep ==
    ASSUME IInv, [Next]_vars, NEW w \in Writers,
           UNCHANGED << epochs, entries, reservations >>,
           evidence \subseteq evidence',
           \A x \in Writers \ {w} :
             /\ call'[x] = call[x] /\ outcome'[x] = outcome[x] /\ held'[x] = held[x]
             /\ lock' = x <=> lock = x,
           ProcessInv(w)'
    PROVE  IInv'
  <1>1. TInv'
    BY TypeStep DEF IInv
  <1>2. TablesInv'
    BY TablesUntouched DEF IInv
  <1>3. ASSUME NEW x \in Writers PROVE ProcessInv(x)'
    <2>1. CASE x = w
      BY <2>1
    <2>2. CASE x # w
      BY <2>2, BystanderKeeps DEF IInv
    <2>. QED
      BY <2>1, <2>2
  <1>. QED
    BY <1>1, <1>2, <1>3 DEF IInv

\* What the provers need to know of one more row.
LEMMA AppendFacts ==
    ASSUME NEW S, NEW s \in Seq(S), NEW e \in S
    PROVE  /\ Len(Append(s, e)) = Len(s) + 1
           /\ DOMAIN Append(s, e) = 1 .. (Len(s) + 1)
           /\ DOMAIN s = 1 .. Len(s) /\ Len(s) \in Nat
           /\ \A i \in 1 .. Len(s) : Append(s, e)[i] = s[i]
           /\ Append(s, e)[Len(s) + 1] = e
  OBVIOUS

\* What the types say of the tables.
LEMMA TablesTyped ==
    ASSUME TInv
    PROVE  /\ DOMAIN entries = 1 .. Len(entries) /\ Len(entries) \in Nat
           /\ \A i \in DOMAIN entries : /\ entries[i].epoch \in Nat
                                        /\ entries[i].req \in RequestType
           /\ DOMAIN epochs = 1 .. Len(epochs) /\ Len(epochs) \in Nat
  <1>1. entries \in Seq(EntryType) /\ epochs \in Seq(Writers)
    BY DEF TInv, TypeOK
  <1>2. \A i \in DOMAIN entries : entries[i] \in EntryType
    BY <1>1
  <1>. QED
    BY <1>1, <1>2 DEF EntryType

\* Boot: the tables keep their rows and the fence moves up.
LEMMA AcquireEpochKeeps ==
    ASSUME IInv, NEW w \in Writers, AcquireEpoch(w)
    PROVE  IInv'
  <1>. USE DEF IInv
  <1>1. TInv'
    BY TypeStep DEF Next
  <1>2. /\ epochs \in Seq(Writers)
        /\ epochs' = Append(epochs, w)
        /\ UNCHANGED << entries, reservations, evidence, call, outcome, lock >>
        /\ lock = None /\ None \notin Writers
        /\ held'[w] = Len(epochs) + 1 /\ call[w].phase = "idle"
        /\ \A x \in Writers : x # w => held'[x] = held[x]
    BY NoneIsNew DEF AcquireEpoch, Idle, TInv, TypeOK
  <1>3. /\ DOMAIN epochs = 1 .. Len(epochs) /\ Len(epochs) \in Nat
        /\ DOMAIN epochs' = 1 .. (Len(epochs) + 1)
        /\ \A n \in DOMAIN epochs : epochs'[n] = epochs[n]
        /\ epochs'[Len(epochs) + 1] = w
    BY <1>2, AppendFacts
  <1>4. TablesInv'
    <2>1. RowInv' /\ EvidenceCoversLog' /\ CommandCommittedOnce' /\ LifecycleIsAChain'
      BY <1>2 DEF TablesInv, RowInv, EvidenceCoversLog, CommandCommittedOnce,
                  LifecycleIsAChain
    <2>2. FencedWriterNeverAppends'
      BY <1>2, <1>3 DEF TablesInv, FencedWriterNeverAppends
    <2>. QED
      BY <2>1, <2>2 DEF TablesInv
  <1>5. ASSUME NEW x \in Writers PROVE ProcessInv(x)'
    <2>1. ProcessInv(x) /\ call[x].phase \notin InTransaction
      BY <1>2 DEF ProcessInv, LockInv
    <2>2. LockInv(x)' /\ CommittedInv(x)'
      BY <1>2, <2>1 DEF ProcessInv, LockInv, CommittedInv, EntryOf
    <2>3. EpochInv(x)'
      BY <1>2, <1>3, <2>1 DEF ProcessInv, EpochInv, InFlight
    <2>4. PendingInv(x)'
      BY <1>2, <2>1 DEF ProcessInv, PendingInv, InTransaction, InFlight
    <2>5. OutcomeTruthful(x)'
      <3>1. CASE x = w
        BY <1>2, <2>1, <3>1 DEF AcquireEpoch, ProcessInv, EpochInv, OutcomeTruthful,
                                NoOutcome
      <3>2. CASE x # w
        BY <1>2, <1>3, <2>1, <3>2 DEF ProcessInv, OutcomeTruthful, TablesInv,
                                      FencedWriterNeverAppends
      <3>. QED
        BY <3>1, <3>2
    <2>. QED
      BY <2>2, <2>3, <2>4, <2>5 DEF ProcessInv
  <1>. QED
    BY <1>1, <1>4, <1>5

\* A refusal inside the transaction gives the lock back and tells the truth.
LEMMA RollbackKeeps ==
    ASSUME IInv, [Next]_vars, NEW w \in Writers, NEW reason,
           RollbackWith(w, reason), UNCHANGED evidence,
           call[w].phase \in InTransaction \cap InFlight,
           reason = "DUPLICATE_COMMAND_ID" =>
             \E i \in existing_command_row(call[w].req.cmd) :
               entries[i].req.digest = call[w].req.digest,
           reason = "COMMAND_BYTES_MISMATCH" =>
             \E i \in existing_command_row(call[w].req.cmd) :
               entries[i].req.digest # call[w].req.digest
    PROVE  IInv'
  <1>. USE DEF IInv
  <1>1. /\ UNCHANGED << epochs, entries, reservations, held, evidence >>
        /\ lock' = None /\ None \notin Writers /\ lock = w
        /\ call'[w] = NoRequest
        /\ \A x \in Writers : x # w => call'[x] = call[x] /\ outcome'[x] = outcome[x]
        /\ outcome'[w] = Refused(reason, call[w].req)
    BY NoneIsNew DEF RollbackWith, TInv, TypeOK, ProcessInv, LockInv
  <1>2. call[w].req # None
    BY NoneIsNew DEF TInv, CallsHaveRequests
  <1>3. OutcomeTruthful(w)'
    BY <1>1, <1>2 DEF OutcomeTruthful, Refused, Returned, NoOutcome,
                      existing_command_row
  <1>4. ProcessInv(w)'
    BY <1>1, <1>3 DEF NoRequest, ProcessInv, LockInv, EpochInv, PendingInv,
                      CommittedInv, InTransaction, InFlight
  <1>. QED
    BY <1>1, <1>4, QuietStep

\* A duplicate refusal is only given for bytes the log holds.
LEMMA DuplicatesAreThere ==
    ASSUME NEW w \in Writers, pre_insert_checks(call[w]) # "NONE"
    PROVE  /\ pre_insert_checks(call[w]) = "DUPLICATE_COMMAND_ID" =>
                \E i \in existing_command_row(call[w].req.cmd) :
                  entries[i].req.digest = call[w].req.digest
           /\ pre_insert_checks(call[w]) = "COMMAND_BYTES_MISMATCH" =>
                \E i \in existing_command_row(call[w].req.cmd) :
                  entries[i].req.digest # call[w].req.digest
  BY DEF pre_insert_checks, classify_duplicate_command

\* The steps that commit nothing to the tables keep the invariant.
LEMMA QuietActionsKeep ==
    ASSUME IInv, NEW w \in Writers,
           \/ \E e \in ReadEpochs(w) : ReadLinearizable(w, e)
           \/ \E q \in Requests : GateRefuses(w, q) \/ Begin(w, q) \/ BeginBusy(w, q)
           \/ ChecksRefuse(w) \/ InsertEntryAndReservation(w)
           \/ AppendEvidence(w) \/ EvidenceFails(w) \/ StoreFails(w)
           \/ CallRaises(w) \/ GapReadRollsBack(w)
           \/ ReturnReceipt(w) \/ Crash(w)
    PROVE  IInv'
  <1>. USE DEF IInv, InFlight
  <1>0. /\ [Next]_vars /\ None \notin Writers /\ ProcessInv(w)
        /\ \A x \in Writers : ProcessInv(x)
    BY NoneIsNew DEF Next, CallStep
  <1>1. ASSUME NEW e \in ReadEpochs(w), ReadLinearizable(w, e) PROVE IInv'
    <2>1. ProcessInv(w)'
      BY <1>0, <1>1, BystanderKeeps DEF ReadLinearizable
    <2>. QED
      BY <1>0, <1>1, <2>1, QuietStep DEF ReadLinearizable
  <1>2. ASSUME NEW q \in Requests, GateRefuses(w, q) PROVE IInv'
    <2>1. /\ UNCHANGED << epochs, entries, reservations, evidence, lock, held, call >>
          /\ \A x \in Writers : x # w => outcome'[x] = outcome[x]
          /\ outcome'[w] = NoOutcome
      BY <1>2 DEF GateRefuses, TInv, TypeOK, Refused, LifecycleRefusal,
                  reservation_lifecycle_refusal
    <2>2. OutcomeTruthful(w)'
      BY <2>1 DEF OutcomeTruthful, NoOutcome
    <2>3. ProcessInv(w)'
      BY <1>0, <1>2, <2>1, <2>2
      DEF GateRefuses, MayCall, ProcessInv, LockInv, EpochInv, PendingInv,
          CommittedInv, InTransaction
    <2>. QED
      BY <1>0, <2>1, <2>3, QuietStep
  <1>3. ASSUME NEW q \in Requests, Begin(w, q) PROVE IInv'
    <2>1. /\ UNCHANGED << epochs, entries, reservations, evidence, held >>
          /\ \A x \in Writers : x # w => outcome'[x] = outcome[x] /\ call'[x] = call[x]
          /\ outcome'[w] = NoOutcome /\ lock = None /\ lock' = w
          /\ call'[w] = [ phase |-> "begun", req |-> q,
                          epoch |-> writer_epoch_of(w, q), expected |-> view[w].tip ]
          /\ q.kind # "RELEASE_RESERVATION" => writer_epoch_of(w, q) = held[w]
          /\ held[w] # 0 /\ LifecycleRefusal(q) = "NONE"
      BY <1>3 DEF Begin, TInv, TypeOK, writer_epoch_of
    <2>2. OutcomeTruthful(w)'
      BY <2>1 DEF OutcomeTruthful, NoOutcome
    <2>3. ProcessInv(w)'
      BY <1>0, <2>1, <2>2
      DEF ProcessInv, LockInv, EpochInv, PendingInv, CommittedInv, InTransaction,
          LifecycleRefusal
    <2>. QED
      BY <1>0, <2>1, <2>3, QuietStep
  <1>4. ASSUME NEW q \in Requests, BeginBusy(w, q) PROVE IInv'
    <2>1. /\ UNCHANGED << epochs, entries, reservations, evidence, lock, held, call >>
          /\ \A x \in Writers : x # w => outcome'[x] = outcome[x]
          /\ outcome'[w] = NoOutcome
      BY <1>4 DEF BeginBusy, TInv, TypeOK, Refused
    <2>2. OutcomeTruthful(w)'
      BY <2>1 DEF OutcomeTruthful, NoOutcome
    <2>3. ProcessInv(w)'
      BY <1>0, <1>4, <2>1, <2>2
      DEF BeginBusy, MayCall, ProcessInv, LockInv, EpochInv, PendingInv,
          CommittedInv, InTransaction
    <2>. QED
      BY <1>0, <2>1, <2>3, QuietStep
  <1>5. CASE ChecksRefuse(w)
    <2>1. call[w].phase \in InTransaction \cap InFlight
      BY <1>5 DEF ChecksRefuse, InTransaction
    <2>. QED
      BY <1>0, <1>5, <2>1, DuplicatesAreThere, RollbackKeeps DEF ChecksRefuse
  <1>6. CASE InsertEntryAndReservation(w)
    <2>1. /\ UNCHANGED << epochs, entries, reservations, evidence, held, lock, outcome >>
          /\ \A x \in Writers : x # w => call'[x] = call[x]
          /\ call'[w] = [ call[w] EXCEPT !.phase = "inserted" ]
          /\ call[w].phase = "begun" /\ pre_insert_checks(call[w]) = "NONE"
          /\ call[w] \in CallType
      BY <1>6 DEF InsertEntryAndReservation, TInv, TypeOK
    <2>2. /\ call'[w].phase = "inserted" /\ call'[w].req = call[w].req
          /\ call'[w].epoch = call[w].epoch /\ call'[w].expected = call[w].expected
      BY <2>1 DEF CallType
    <2>3. pre_insert_checks(call[w])' = "NONE"
      BY <2>1, <2>2 DEF pre_insert_checks, stale_writer_epoch, current_epoch,
         current_seq_tip, classify_duplicate_command, existing_command_row,
         check_reservation_from_state
    <2>4. ProcessInv(w)'
      BY <1>0, <2>1, <2>2, <2>3
      DEF ProcessInv, LockInv, EpochInv, PendingInv, CommittedInv, InTransaction,
          OutcomeTruthful, LifecycleRefusal
    <2>. QED
      BY <1>0, <2>1, <2>4, QuietStep
  <1>7. CASE AppendEvidence(w)
    <2>1. /\ UNCHANGED << epochs, entries, reservations, held, lock, outcome >>
          /\ \A x \in Writers : x # w => call'[x] = call[x]
          /\ call'[w] = [ call[w] EXCEPT !.phase = "evidenced" ]
          /\ call[w].phase = "inserted" /\ pre_insert_checks(call[w]) = "NONE"
          /\ call[w] \in CallType
          /\ evidence' = evidence \cup { EvidenceOf(call[w]) }
      BY <1>0, <1>7 DEF AppendEvidence, TInv, TypeOK, ProcessInv, PendingInv
    <2>2. /\ call'[w].phase = "evidenced" /\ call'[w].req = call[w].req
          /\ call'[w].epoch = call[w].epoch /\ call'[w].expected = call[w].expected
      BY <2>1 DEF CallType
    <2>3. /\ pre_insert_checks(call[w])' = "NONE"
          /\ EvidenceOf(call[w])' = EvidenceOf(call[w])
      BY <2>1, <2>2 DEF pre_insert_checks, stale_writer_epoch, current_epoch,
         current_seq_tip, classify_duplicate_command, existing_command_row,
         check_reservation_from_state, EvidenceOf
    <2>4. ProcessInv(w)'
      BY <1>0, <2>1, <2>2, <2>3
      DEF ProcessInv, LockInv, EpochInv, PendingInv, CommittedInv, InTransaction,
          OutcomeTruthful, LifecycleRefusal
    <2>. QED
      BY <1>0, <2>1, <2>4, QuietStep
  <1>8. CASE EvidenceFails(w)
    BY <1>0, <1>8, RollbackKeeps DEF EvidenceFails, InTransaction
  <1>9. CASE StoreFails(w)
    BY <1>0, <1>9, RollbackKeeps DEF StoreFails, InTransaction
  <1>10. CASE ReturnReceipt(w)
    <2>1. /\ UNCHANGED << epochs, entries, reservations, evidence, held, lock >>
          /\ \A x \in Writers : x # w => call'[x] = call[x] /\ outcome'[x] = outcome[x]
          /\ call'[w] = NoRequest /\ call[w].phase = "committed"
          /\ outcome'[w] = Returned("RECEIPT", call[w].req, call[w].expected)
      BY <1>10 DEF ReturnReceipt, TInv, TypeOK
    <2>2. /\ lock # w
          /\ call[w].req.kind # "RELEASE_RESERVATION" => call[w].epoch = held[w]
          /\ epochs[held[w]] = w /\ held[w] <= call[w].epoch
          /\ call[w].expected + 1 \in DOMAIN entries
          /\ entries[call[w].expected + 1] = EntryOf(call[w])
      BY <1>0, <2>1 DEF ProcessInv, LockInv, EpochInv, CommittedInv, InTransaction
    <2>3. OutcomeTruthful(w)'
      BY <2>1, <2>2 DEF OutcomeTruthful, Returned, EntryOf
    <2>4. ProcessInv(w)'
      BY <1>0, <2>1, <2>2, <2>3 DEF NoRequest, ProcessInv, LockInv, EpochInv,
         PendingInv, CommittedInv, InTransaction
    <2>. QED
      BY <1>0, <2>1, <2>4, QuietStep
  <1>11. CASE Crash(w)
    <2>1. /\ UNCHANGED << epochs, entries, reservations, evidence >>
          /\ \A x \in Writers : x # w => /\ call'[x] = call[x] /\ held'[x] = held[x]
                                         /\ outcome'[x] = outcome[x]
          /\ call'[w] = NoRequest /\ outcome'[w] = NoOutcome /\ held'[w] = 0
          /\ lock' = IF lock = w THEN None ELSE lock
      BY <1>11 DEF Crash, TInv, TypeOK
    <2>2. OutcomeTruthful(w)'
      BY <2>1 DEF OutcomeTruthful, NoOutcome
    <2>3. ProcessInv(w)'
      BY <1>0, <2>1, <2>2 DEF NoRequest, ProcessInv, LockInv, EpochInv,
         PendingInv, CommittedInv, InTransaction
    <2>. QED
      BY <1>0, <2>1, <2>3, QuietStep
  <1>12. CASE CallRaises(w)
    <2>1. /\ UNCHANGED << epochs, entries, reservations, evidence, held, lock, outcome >>
          /\ \A x \in Writers : x # w => call'[x] = call[x]
          /\ call'[w] = [ NoRequest EXCEPT !.phase = "raised" ]
          /\ call[w].phase = "begun"
      BY <1>12 DEF CallRaises, TInv, TypeOK
    <2>2. call'[w].phase = "raised"
      BY <2>1 DEF NoRequest
    <2>3. ProcessInv(w)'
      BY <1>0, <2>1, <2>2 DEF ProcessInv, LockInv, EpochInv, PendingInv,
         CommittedInv, InTransaction, OutcomeTruthful
    <2>. QED
      BY <1>0, <2>1, <2>3, QuietStep
  <1>13. CASE GapReadRollsBack(w)
    <2>1. /\ UNCHANGED << epochs, entries, reservations, evidence, held, outcome >>
          /\ \A x \in Writers : x # w => call'[x] = call[x]
          /\ call'[w] = NoRequest /\ call[w].phase = "raised" /\ lock' = None
      BY <1>13 DEF GapReadRollsBack, TInv, TypeOK
    <2>2. lock = w
      BY <1>0, <2>1 DEF ProcessInv, LockInv, InTransaction
    <2>3. ProcessInv(w)'
      BY <1>0, <2>1 DEF NoRequest, ProcessInv, LockInv, EpochInv, PendingInv,
         CommittedInv, InTransaction, OutcomeTruthful
    <2>. QED
      BY <1>0, <2>1, <2>2, <2>3, QuietStep
  <1>. QED
    BY <1>1, <1>2, <1>3, <1>4, <1>5, <1>6, <1>7, <1>8, <1>9, <1>10, <1>11, <1>12, <1>13

\* The one step that changes the log.
LEMMA CommitKeeps ==
    ASSUME IInv, NEW w \in Writers, Commit(w)
    PROVE  IInv'
  <1>. DEFINE q == call[w].req
              n == Len(entries) + 1
  <1>. USE DEF IInv
  <1>1. TInv'
    BY TypeStep DEF Next, CallStep
  <1>2. /\ call[w].phase = "evidenced" /\ q \in Requests /\ q \in RequestType
        /\ call[w] \in CallType
        /\ lock = w /\ None \notin Writers /\ lock' = None
        /\ UNCHANGED << epochs, evidence, held, view, outcome >>
        /\ entries' = Append(entries, EntryOf(call[w]))
        /\ reservations' = upsert_reservation_projection(q, current_seq_tip + 1)
        /\ \A x \in Writers : x # w => call'[x] = call[x]
        /\ EntryOf(call[w]) \in EntryType
    <2>1. call[w].phase = "evidenced" /\ q \in Requests /\ call[w] \in CallType
      BY DEF Commit, TInv, CallsHaveRequests, TypeOK, InFlight
    <2>2. q \in RequestType /\ EntryOf(call[w]) \in EntryType
      BY <2>1, RequestsAreTyped DEF EntryOf, EntryType, CallType
    <2>. QED
      BY <2>1, <2>2, NoneIsNew DEF Commit, TInv, TypeOK, ProcessInv, LockInv,
         InTransaction
  <1>3. /\ DOMAIN entries = 1 .. Len(entries) /\ Len(entries) \in Nat
        /\ DOMAIN entries' = 1 .. n
        /\ \A i \in DOMAIN entries : entries'[i] = entries[i]
        /\ entries'[n] = EntryOf(call[w]) /\ current_seq_tip + 1 = Len(entries)
        /\ \A i \in DOMAIN entries' : i \in DOMAIN entries \/ i = n
        /\ n \notin DOMAIN entries
    <2>1. entries \in Seq(EntryType)
      BY DEF TInv, TypeOK
    <2>. QED
      BY <1>2, <2>1, AppendFacts DEF current_seq_tip
  <1>4. /\ pre_insert_checks(call[w]) = "NONE"
        /\ EvidenceOf(call[w]) \in evidence
        /\ LifecycleRefusal(q) = "NONE"
        /\ held[w] # 0 /\ held[w] \in DOMAIN epochs /\ epochs[held[w]] = w
        /\ q.kind # "RELEASE_RESERVATION" => call[w].epoch = held[w]
    BY <1>2 DEF ProcessInv, PendingInv, EpochInv, InFlight
  <1>5. /\ call[w].epoch = Len(epochs)
        /\ \A i \in DOMAIN entries : entries[i].req.cmd # q.cmd
        /\ q.resv # None => check_reservation_from_state(q)
    BY <1>4 DEF pre_insert_checks, stale_writer_epoch, current_epoch,
       classify_duplicate_command, existing_command_row
  <1>6. EvidenceCoversLog'
    <2>1. /\ EvidenceOf(call[w]).seq = n - 1
          /\ EvidenceOf(call[w]).epoch = entries'[n].epoch
          /\ EvidenceOf(call[w]).cmd = entries'[n].req.cmd
          /\ EvidenceOf(call[w]).digest = entries'[n].req.digest
      BY <1>3 DEF EvidenceOf, EntryOf
    <2>. QED
      BY <1>2, <1>3, <1>4, <2>1 DEF EvidenceCoversLog, TablesInv
  <1>7. FencedWriterNeverAppends'
    <2>1. /\ DOMAIN epochs = 1 .. Len(epochs) /\ Len(epochs) \in Nat
          /\ \A i \in DOMAIN entries : entries[i].epoch \in Nat
      BY TablesTyped
    <2>2. entries'[n].epoch = Len(epochs) /\ entries'[n].epoch \in DOMAIN epochs
      BY <1>3, <1>4, <1>5, <2>1 DEF EntryOf
    <2>. QED
      BY <1>2, <1>3, <2>1, <2>2 DEF FencedWriterNeverAppends, TablesInv
  <1>8. CommandCommittedOnce'
    BY <1>3, <1>5 DEF CommandCommittedOnce, TablesInv, EntryOf
  <1>9. ASSUME NEW r \in Reservations
        PROVE  /\ q.resv # r => reservations'[r] = reservations[r]
               /\ q.resv = r => /\ reservations'[r] # None
                                /\ reservations'[r].state = q.to
                                /\ reservations'[r].last_seq = Len(entries)
    <2>1. reservations \in [ Reservations -> RowType \cup {None} ]
      BY DEF TInv, TypeOK
    <2>2. CASE q.resv # r
      BY <1>2, <2>1, <2>2 DEF upsert_reservation_projection
    <2>3. CASE q.resv = r
      <3>1. /\ reservations'[r].state = q.to
            /\ reservations'[r].last_seq = Len(entries)
        BY <1>2, <1>3, <2>1, <2>3, NoneIsNew DEF upsert_reservation_projection
      <3>2. /\ q.vector # Unrecorded /\ q.vector \in Vectors \cup {None}
            /\ q.to \in CapacityState /\ q.scope \in Scopes
        BY <1>2, RequestsAreTyped DEF RequestType
      <3>3. reservations'[r] \in RowType
        BY <1>2, <1>3, <2>1, <2>3, <3>2, NoneIsNew
        DEF upsert_reservation_projection, RowType
      <3>. QED
        BY <2>3, <3>1, <3>3, NoneIsNew
    <2>. QED
      BY <2>2, <2>3
  <1>10. RowInv'
    BY <1>3, <1>9 DEF RowInv, TablesInv, EntryOf
  <1>11. LifecycleIsAChain'
    <2>1. q.resv # None =>
            /\ transition_allowed(q.from, q.to, q.cause)
            /\ release_admissible(q.to, q.witness)
      BY <1>4 DEF LifecycleRefusal, reservation_lifecycle_refusal
    <2>2. ASSUME q.resv # None,
                 NEW j \in DOMAIN entries, entries[j].req.resv = q.resv
          PROVE  /\ entries[j].req.to # "RELEASED"
                 /\ (\A k \in DOMAIN entries : entries[k].req.resv = q.resv => k <= j)
                      => entries[j].req.to = q.from
      <3>1. q.resv \in Reservations
        BY <1>2, <2>2 DEF RequestType
      <3>2. reservations[q.resv] # None
        BY <2>2, <3>1 DEF RowInv, TablesInv
      <3>3. PICK last \in DOMAIN entries :
              /\ entries[last].req.resv = q.resv
              /\ entries[last].req.to = reservations[q.resv].state
              /\ \A i \in DOMAIN entries : i > last => entries[i].req.resv # q.resv
        BY <3>1, <3>2 DEF RowInv, TablesInv
      <3>4. reservations[q.resv].state = q.from
        BY <1>5, <2>2, <3>2 DEF check_reservation_from_state
      <3>5. q.from # "RELEASED"
        BY <2>1, <2>2 DEF transition_allowed
      <3>6. j <= last
        BY <1>3, <2>2, <3>3
      <3>7. CASE j = last
        BY <3>3, <3>4, <3>5, <3>7
      <3>8. CASE j # last
        <4>1. j \in 1 .. (last - 1)
          BY <1>3, <3>6, <3>8
        <4>2. entries[j].req.to # "RELEASED"
          BY <2>2, <3>3, <4>1 DEF LifecycleIsAChain, TablesInv
        <4>. QED
          BY <1>3, <3>3, <4>1, <4>2
      <3>. QED
        BY <3>7, <3>8
    <2>3. ASSUME q.resv # None, \A j \in DOMAIN entries : entries[j].req.resv # q.resv
          PROVE  q.from \in INITIAL_RESERVATION_STATES
      <3>1. q.resv \in Reservations
        BY <1>2, <2>3 DEF RequestType
      <3>2. reservations[q.resv] = None
        BY <2>3, <3>1 DEF RowInv, TablesInv
      <3>. QED
        BY <1>5, <2>3, <3>2 DEF check_reservation_from_state
    <2>4. q.resv # None =>
            /\ q.to = "RELEASED" => q.witness /\ q.cause = "FINAL_QUANTITY_PROOF"
            /\ q.to = "POSITION_CONSUMED" => q.witness
            /\ q.cause \in WEAK_CAUSES =>
                 CONSERVATISM_RANK[q.to] >= CONSERVATISM_RANK[q.from]
      BY <2>1 DEF transition_allowed, release_admissible,
         WITNESS_REQUIRED_DESTINATIONS, WEAK_CAUSES
    <2>5. entries'[n].req = q
      BY <1>3 DEF EntryOf
    <2>. QED
      <3>. SUFFICES ASSUME NEW i \in DOMAIN entries'
           PROVE LET p == entries'[i].req
                     before == { j \in 1 .. (i - 1) : entries'[j].req.resv = p.resv }
                 IN  p.resv # None =>
                       /\ \A j \in before :
                            (\A k \in before : k <= j) => p.from = entries'[j].req.to
                       /\ before = {} => p.from \in INITIAL_RESERVATION_STATES
                       /\ \A j \in before : entries'[j].req.to # "RELEASED"
                       /\ p.to = "RELEASED" =>
                            p.witness /\ p.cause = "FINAL_QUANTITY_PROOF"
                       /\ p.to = "POSITION_CONSUMED" => p.witness
                       /\ p.cause \in WEAK_CAUSES =>
                            CONSERVATISM_RANK[p.to] >= CONSERVATISM_RANK[p.from]
        BY DEF LifecycleIsAChain
      <3>1. CASE i \in DOMAIN entries
        <4>1. \A j \in 1 .. (i - 1) : j \in DOMAIN entries /\ entries'[j] = entries[j]
          BY <1>3, <3>1
        <4>2. entries'[i] = entries[i]
          BY <1>3, <3>1
        <4>3. { j \in 1 .. (i - 1) : entries'[j].req.resv = entries'[i].req.resv }
                = { j \in 1 .. (i - 1) : entries[j].req.resv = entries[i].req.resv }
          BY <4>1, <4>2
        <4>4. LET p == entries[i].req
                  before == { j \in 1 .. (i - 1) : entries[j].req.resv = p.resv }
              IN  p.resv # None =>
                    /\ \A j \in before :
                         (\A k \in before : k <= j) => p.from = entries[j].req.to
                    /\ before = {} => p.from \in INITIAL_RESERVATION_STATES
                    /\ \A j \in before : entries[j].req.to # "RELEASED"
                    /\ p.to = "RELEASED" =>
                         p.witness /\ p.cause = "FINAL_QUANTITY_PROOF"
                    /\ p.to = "POSITION_CONSUMED" => p.witness
                    /\ p.cause \in WEAK_CAUSES =>
                         CONSERVATISM_RANK[p.to] >= CONSERVATISM_RANK[p.from]
          BY <3>1 DEF LifecycleIsAChain, TablesInv
        <4>. QED
          BY <4>1, <4>2, <4>3, <4>4
      <3>2. CASE i = n
        <4>1. 1 .. (i - 1) = DOMAIN entries
          BY <1>3, <3>2
        <4>. QED
          BY <1>3, <2>2, <2>3, <2>4, <2>5, <3>2, <4>1
      <3>. QED
        BY <1>3, <3>1, <3>2
  <1>12. ASSUME NEW x \in Writers PROVE ProcessInv(x)'
    <2>1. ProcessInv(x)
      OBVIOUS
    <2>2. OutcomeTruthful(x)'
      BY <1>2, <1>3, <2>1 DEF ProcessInv, OutcomeTruthful
    <2>3. CASE x = w
      <3>1. /\ call'[w].phase = "committed" /\ call'[w].req = q
            /\ call'[w].epoch = call[w].epoch
            /\ call'[w].expected = current_seq_tip + 1
        BY <1>2 DEF Commit, CallType, TInv, TypeOK
      <3>2. LockInv(w)' /\ EpochInv(w)'
        BY <1>2, <1>4, <3>1 DEF LockInv, EpochInv, InTransaction, InFlight
      <3>3. PendingInv(w)'
        BY <1>4, <3>1 DEF PendingInv, LifecycleRefusal
      <3>4. CommittedInv(w)'
        BY <1>2, <1>3, <1>4, <1>5, <3>1, TablesTyped DEF CommittedInv, EntryOf
      <3>. QED
        BY <2>2, <2>3, <3>2, <3>3, <3>4 DEF ProcessInv
    <2>4. CASE x # w
      <3>1. call'[x] = call[x] /\ lock # x /\ lock' # x
            /\ call[x].phase \notin InTransaction
        BY <1>2, <2>1, <2>4 DEF ProcessInv, LockInv
      <3>2. LockInv(x)' /\ EpochInv(x)' /\ CommittedInv(x)'
        BY <1>2, <1>3, <2>1, <3>1 DEF ProcessInv, LockInv, EpochInv, CommittedInv,
                                      EntryOf
      <3>3. PendingInv(x)'
        BY <2>1, <3>1 DEF ProcessInv, PendingInv, InTransaction, InFlight,
                          LifecycleRefusal
      <3>. QED
        BY <2>2, <3>2, <3>3 DEF ProcessInv
    <2>. QED
      BY <2>3, <2>4
  <1>. QED
    BY <1>1, <1>6, <1>7, <1>8, <1>10, <1>11, <1>12 DEF TablesInv

\* Empty tables satisfy the invariant.
LEMMA SafetyInit == Init => IInv
  <1>. SUFFICES ASSUME Init PROVE IInv
    OBVIOUS
  <1>1. TInv
    BY TypeInit
  <1>2. ASSUME NEW w \in Writers PROVE ProcessInv(w)
    BY NoneIsNew DEF Init, ProcessInv, LockInv, EpochInv, PendingInv, CommittedInv,
       OutcomeTruthful, NoRequest, NoOutcome, InTransaction, InFlight
  <1>3. TablesInv
    <2>1. CASE entries = << >> /\ reservations = [ r \in Reservations |-> None ]
      BY <2>1 DEF TablesInv, RowInv, EvidenceCoversLog, FencedWriterNeverAppends,
         CommandCommittedOnce, LifecycleIsAChain
    <2>2. ASSUME NEW w \in Writers, NEW q \in Requests,
                 NEW v \in Vectors \cup {None},
                 q.resv # None, q.from \in INITIAL_RESERVATION_STATES,
                 reservation_lifecycle_refusal(q.from, q.to, q.cause, q.witness)
                   = "NONE",
                 epochs = << w >>,
                 entries = << [ epoch |-> 1,
                                req |-> [ q EXCEPT !.vector = Unrecorded ] ] >>,
                 evidence = { [ seq |-> 0, epoch |-> 1, cmd |-> q.cmd,
                                digest |-> q.digest ] },
                 reservations =
                   [ r \in Reservations |->
                       IF r = q.resv
                         THEN [ state |-> q.to, last_seq |-> 0,
                                scope |-> q.scope, vector |-> v ]
                         ELSE None ]
          PROVE  TablesInv
      <3>. DEFINE p == [ q EXCEPT !.vector = Unrecorded ]
      <3>1. /\ q \in RequestType
            /\ p.cmd = q.cmd /\ p.digest = q.digest /\ p.resv = q.resv
            /\ p.from = q.from /\ p.to = q.to /\ p.cause = q.cause
            /\ p.witness = q.witness
        BY RequestsAreTyped DEF RequestType
      <3>2. /\ DOMAIN entries = {1} /\ entries[1].epoch = 1 /\ entries[1].req = p
            /\ DOMAIN epochs = {1}
        BY <2>2
      <3>. HIDE DEF p
      <3>3. EvidenceCoversLog
        <4>. DEFINE record == [ seq |-> 0, epoch |-> 1, cmd |-> q.cmd,
                                digest |-> q.digest ]
        <4>1. /\ record \in evidence /\ record.seq = 1 - 1 /\ record.epoch = 1
              /\ record.cmd = q.cmd /\ record.digest = q.digest
          BY <2>2
        <4>. QED
          BY <3>1, <3>2, <4>1 DEF EvidenceCoversLog
      <3>4. FencedWriterNeverAppends /\ CommandCommittedOnce
        BY <3>2 DEF FencedWriterNeverAppends, CommandCommittedOnce
      <3>5. RowInv
        <4>1. [ state |-> q.to, last_seq |-> 0, scope |-> q.scope, vector |-> v ]
                \in RowType
          BY <3>1 DEF RowType, RequestType
        <4>2. ASSUME NEW r \in Reservations
              PROVE  /\ r # q.resv => reservations[r] = None
                     /\ r = q.resv => /\ reservations[r] # None
                                      /\ reservations[r].state = q.to
                                      /\ reservations[r].last_seq = 0
          BY <2>2, <4>1, NoneIsNew
        <4>. QED
          BY <3>1, <3>2, <4>2 DEF RowInv
      <3>6. LifecycleIsAChain
        <4>1. /\ q.to = "RELEASED" => q.witness /\ q.cause = "FINAL_QUANTITY_PROOF"
              /\ q.to = "POSITION_CONSUMED" => q.witness
              /\ q.cause \in WEAK_CAUSES =>
                   CONSERVATISM_RANK[q.to] >= CONSERVATISM_RANK[q.from]
          BY <2>2 DEF reservation_lifecycle_refusal, transition_allowed,
             release_admissible, WITNESS_REQUIRED_DESTINATIONS, WEAK_CAUSES
        <4>2. 1 .. (1 - 1) = {}
          OBVIOUS
        <4>. QED
          BY <2>2, <3>1, <3>2, <4>1, <4>2 DEF LifecycleIsAChain
      <3>. QED
        BY <3>3, <3>4, <3>5, <3>6 DEF TablesInv
    <2>. QED
      BY <2>1, <2>2 DEF Init
  <1>. QED
    BY <1>1, <1>2, <1>3 DEF IInv

\* Every step of a writer keeps the invariant.
LEMMA SafetyStep == IInv /\ [Next]_vars => IInv'
  <1>. SUFFICES ASSUME IInv, [Next]_vars PROVE IInv'
    OBVIOUS
  <1>1. CASE UNCHANGED vars
    <2>1. TInv'
      BY TypeStep DEF IInv
    <2>2. TablesInv'
      BY <1>1, TablesUntouched DEF IInv, vars
    <2>3. ASSUME NEW x \in Writers PROVE ProcessInv(x)'
      BY <1>1, BystanderKeeps DEF IInv, vars
    <2>. QED
      BY <2>1, <2>2, <2>3 DEF IInv
  <1>2. CASE Next
    BY <1>2, AcquireEpochKeeps, QuietActionsKeep, CommitKeeps DEF Next, CallStep
  <1>. QED
    BY <1>1, <1>2

\* The invariant of the log holds in every state.
LEMMA SafetyHolds == Spec => []IInv
  BY SafetyInit, SafetyStep, PTL DEF Spec

\* No committed entry is ever without its evidence record, wherever a process
\* crashes or a store fails (_commit_entry, _append_evidence_or_refuse).
THEOREM EvidenceFirst == Spec => []EvidenceCoversLog
  <1>1. IInv => EvidenceCoversLog
    BY DEF IInv, TablesInv
  <1>. QED
    BY <1>1, SafetyHolds, PTL

\* Nothing sent under an epoch that a newer one has fenced is ever appended
\* (stale_writer_epoch inside the transaction of _commit_entry).
THEOREM Fencing == Spec => []FencedWriterNeverAppends
  <1>1. IInv => FencedWriterNeverAppends
    BY DEF IInv, TablesInv
  <1>. QED
    BY <1>1, SafetyHolds, PTL

\* A command is committed at most once (classify_duplicate_command).
THEOREM AtMostOnce == Spec => []CommandCommittedOnce
  <1>1. IInv => CommandCommittedOnce
    BY DEF IInv, TablesInv
  <1>. QED
    BY <1>1, SafetyHolds, PTL

\* The transitions of every reservation form one legal chain
\* (check_reservation_from_state and the lifecycle gate).
THEOREM LifecycleChain == Spec => []LifecycleIsAChain
  <1>1. IInv => LifecycleIsAChain
    BY DEF IInv, TablesInv
  <1>. QED
    BY <1>1, SafetyHolds, PTL

\* Receipts and duplicate refusals are true of the log (_commit_entry), a
\* release that a fenced process sent under the current epoch included.
THEOREM TruthfulOutcomes == Spec => []OutcomeIsTruthful
  <1>1. IInv => OutcomeIsTruthful
    BY DEF IInv, ProcessInv, OutcomeIsTruthful
  <1>. QED
    BY <1>1, SafetyHolds, PTL

\* Rows of the log and of the epochs are never changed, and a released
\* reservation never moves again (the gate refuses every from-state RELEASED and
\* check_reservation_from_state pins the from-state to the held one).
THEOREM NoRevival == Spec => AppendOnlyAndNoRevival
  <1>. DEFINE Kept ==
         /\ \A i \in DOMAIN entries :
              i \in DOMAIN entries' /\ entries'[i] = entries[i]
         /\ \A n \in DOMAIN epochs :
              n \in DOMAIN epochs' /\ epochs'[n] = epochs[n]
         /\ \A r \in Reservations :
              reservations[r] # None =>
                /\ reservations'[r] # None
                /\ reservations[r].state = "RELEASED" =>
                     reservations'[r] = reservations[r]
  <1>1. ASSUME IInv, Next PROVE Kept
    <2>1. CASE UNCHANGED << epochs, entries, reservations >>
      BY <2>1
    <2>2. ASSUME NEW w \in Writers, AcquireEpoch(w) PROVE Kept
      <3>1. epochs \in Seq(Writers)
        BY <1>1 DEF IInv, TInv, TypeOK
      <3>. QED
        BY <2>2, <3>1, AppendFacts DEF AcquireEpoch
    <2>3. ASSUME NEW w \in Writers, Commit(w) PROVE Kept
      <3>. DEFINE q == call[w].req
      <3>1. /\ entries \in Seq(EntryType) /\ EntryOf(call[w]) \in EntryType
            /\ q \in RequestType /\ q.vector # Unrecorded
            /\ reservations \in [ Reservations -> RowType \cup {None} ]
        <4>1. q \in Requests /\ call[w] \in CallType
          BY <1>1, <2>3 DEF IInv, TInv, TypeOK, CallsHaveRequests, Commit, InFlight
        <4>. QED
          BY <1>1, <4>1, RequestsAreTyped
          DEF IInv, TInv, TypeOK, EntryOf, EntryType, CallType
      <3>2. \A i \in DOMAIN entries : i \in DOMAIN entries' /\ entries'[i] = entries[i]
        BY <2>3, <3>1, AppendFacts DEF Commit
      <3>3. q.resv # None =>
              /\ q.from # "RELEASED"
              /\ reservations[q.resv] # None => reservations[q.resv].state = q.from
        BY <1>1, <2>3 DEF IInv, ProcessInv, PendingInv, Commit, LifecycleRefusal, InFlight,
           reservation_lifecycle_refusal, transition_allowed, pre_insert_checks,
           check_reservation_from_state, classify_duplicate_command
      <3>5. ASSUME NEW r \in Reservations, reservations[r] # None
            PROVE  /\ reservations'[r] # None
                   /\ reservations[r].state = "RELEASED" =>
                        reservations'[r] = reservations[r]
        <4>1. CASE q.resv # r
          BY <2>3, <3>1, <3>5, <4>1 DEF Commit, upsert_reservation_projection
        <4>2. CASE q.resv = r
          <5>1. q.resv # None
            BY <4>2, NoneIsNew
          <5>2. reservations[r].state # "RELEASED"
            BY <3>3, <3>5, <4>2, <5>1
          <5>3. reservations'[r] =
                  [ state |-> q.to, last_seq |-> current_seq_tip + 1,
                    scope |-> q.scope,
                    vector |-> IF q.vector # None THEN q.vector
                               ELSE reservations[r].vector ]
            BY <2>3, <3>1, <3>5, <4>2, <5>1 DEF Commit, upsert_reservation_projection
          <5>4. reservations'[r] \in RowType
            BY <3>1, <3>5, <5>3 DEF RowType, RequestType, current_seq_tip
          <5>. QED
            BY <5>2, <5>4, NoneIsNew
        <4>. QED
          BY <4>1, <4>2
      <3>. QED
        BY <2>3, <3>2, <3>5 DEF Commit
    <2>. QED
      BY <1>1, <2>1, <2>2, <2>3
      DEF Next, CallStep, ReadLinearizable, GateRefuses, Begin, BeginBusy,
          ChecksRefuse, InsertEntryAndReservation, AppendEvidence, EvidenceFails,
          StoreFails, CallRaises, GapReadRollsBack, ReturnReceipt, Crash, RollbackWith
  <1>2. IInv /\ [Next]_vars => [Kept]_vars
    BY <1>1
  <1>. QED
    BY <1>2, SafetyHolds, PTL DEF Spec, AppendOnlyAndNoRevival

\* While the log has moved by approval consumptions only, no reservation and no
\* writer epoch has (read_approval_only_gap, currentness reuse).
THEOREM GapKeepsCapacity == Spec => []ApprovalGapKeepsCapacity
  <1>1. IInv => ApprovalGapKeepsCapacity
    <2>. SUFFICES ASSUME IInv, NEW start \in -1 .. current_seq_tip,
                         read_approval_only_gap(current_epoch, start)
                  PROVE  /\ \A r \in Reservations :
                              reservations[r] # None => reservations[r].last_seq <= start
                         /\ \A i \in DOMAIN entries :
                              i - 1 > start => epochs[entries[i].epoch] = epochs[current_epoch]
      BY DEF ApprovalGapKeepsCapacity
    <2>1. \A i \in DOMAIN entries :
            i - 1 > start => entries[i].epoch = current_epoch /\ entries[i].req.resv = None
      BY DEF read_approval_only_gap
    <2>2. start \in Int
      BY TablesTyped DEF current_seq_tip, IInv
    <2>3. ASSUME NEW r \in Reservations, reservations[r] # None
          PROVE  reservations[r].last_seq <= start
      <3>1. reservations[r].last_seq \in Nat
        BY <2>3 DEF IInv, TInv, TypeOK, RowType
      <3>2. /\ reservations[r].last_seq + 1 \in DOMAIN entries
            /\ entries[reservations[r].last_seq + 1].req.resv = r
        BY <2>3 DEF IInv, TablesInv, RowInv
      <3>3. r # None
        BY NoneIsNew
      <3>4. ~ ((reservations[r].last_seq + 1) - 1 > start)
        BY <2>1, <3>2, <3>3
      <3>. QED
        BY <2>2, <3>1, <3>4
    <2>. QED
      BY <2>1, <2>3
  <1>. QED
    BY <1>1, SafetyHolds, PTL

----------------------------------------------------------------------------
(* The replay of the log *)

\* What one more row makes of a replayed projection.
Refold(prev, e) ==
    IF e.resv = None
      THEN prev
      ELSE [ prev EXCEPT ![e.resv] =
               [ state  |-> e.to,
                 scope  |-> e.scope,
                 vector |-> IF e.vector # None THEN e.vector
                            ELSE IF prev[e.resv] = None THEN None
                            ELSE prev[e.resv].vector ] ]

\* f has the projections a replay of log s passes through.
IsReplay(f, s) ==
    f = [ n \in 0 .. Len(s) |->
            IF n = 0 THEN [ r \in Reservations |-> None ]
            ELSE Refold(f[n - 1], s[n].req) ]

\* A replayed row agrees with the held one: both are there or none is.
RowAgrees(replayed, row) ==
    IF replayed = None \/ row = None
      THEN replayed = None /\ row = None
      ELSE /\ replayed.state = row.state
           /\ replayed.scope = row.scope
           /\ replayed.vector = Unrecorded \/ replayed.vector = row.vector

\* The replay of the log ends in the held projection.
ReplayInv ==
    \E f : /\ IsReplay(f, entries)
           /\ f[Len(entries)] \in [ Reservations -> ReplayedType \cup {None} ]
           /\ \A r \in Reservations : RowAgrees(f[Len(entries)][r], reservations[r])

\* There is one replay of a log.
LEMMA ReplayIsUnique ==
    ASSUME NEW s, Len(s) \in Nat, NEW f, NEW g, IsReplay(f, s), IsReplay(g, s)
    PROVE  f[Len(s)] = g[Len(s)]
  <1>. DEFINE S == { n \in 0 .. Len(s) : f[n] = g[n] }
  <1>1. 0 \in S
    BY DEF IsReplay
  <1>2. ASSUME NEW n \in 0 .. Len(s), n \in S, n < Len(s)
        PROVE  n + 1 \in S
    <2>1. n + 1 \in 0 .. Len(s) /\ n + 1 # 0 /\ (n + 1) - 1 = n
      BY <1>2
    <2>2. f[n + 1] = Refold(f[n], s[n + 1].req)
      BY <2>1 DEF IsReplay
    <2>3. g[n + 1] = Refold(g[n], s[n + 1].req)
      BY <2>1 DEF IsReplay
    <2>. QED
      BY <1>2, <2>1, <2>2, <2>3
  <1>. HIDE DEF S
  <1>3. \A n \in 0 .. Len(s) : n \in S
    BY <1>1, <1>2, SetInduction
  <1>. QED
    BY <1>3 DEF S

\* A replay of a log goes on over its next row.
LEMMA ReplayGoesOn ==
    ASSUME NEW T, NEW s \in Seq(T), NEW e \in T, NEW f, IsReplay(f, s)
    PROVE  \E g : /\ IsReplay(g, Append(s, e))
                  /\ g[Len(s) + 1] = Refold(f[Len(s)], e.req)
  <1>. DEFINE N == Len(s)
              t == Append(s, e)
              g == [ n \in 0 .. (N + 1) |-> IF n <= N THEN f[n] ELSE Refold(f[N], e.req) ]
  <1>1. /\ N \in Nat /\ Len(t) = N + 1 /\ t[N + 1] = e
        /\ \A i \in 1 .. N : t[i] = s[i]
    BY AppendFacts
  <1>. HIDE DEF N, t
  <1>2. \A n \in 0 .. N : f[n] = IF n = 0 THEN [ r \in Reservations |-> None ]
                                 ELSE Refold(f[n - 1], s[n].req)
    BY DEF IsReplay, N
  <1>3. ASSUME NEW n \in 0 .. (N + 1)
        PROVE  g[n] = IF n = 0 THEN [ r \in Reservations |-> None ]
                      ELSE Refold(g[n - 1], t[n].req)
    <2>1. CASE n = N + 1
      <3>1. n # 0 /\ n - 1 = N /\ ~ (n <= N) /\ N \in 0 .. (N + 1)
        BY <1>1, <2>1
      <3>2. g[n] = Refold(f[N], e.req) /\ g[n - 1] = f[N]
        BY <1>1, <3>1
      <3>. HIDE DEF g
      <3>. QED
        BY <1>1, <2>1, <3>1, <3>2
    <2>2. CASE n # N + 1
      <3>1. n \in 0 .. N /\ g[n] = f[n]
        BY <1>1, <2>2
      <3>2. n # 0 => n - 1 \in 0 .. (N + 1) /\ g[n - 1] = f[n - 1] /\ t[n] = s[n]
        BY <1>1, <3>1
      <3>. HIDE DEF g
      <3>. QED
        BY <1>2, <3>1, <3>2
    <2>. QED
      BY <2>1, <2>2
  <1>4. g = [ n \in 0 .. (N + 1) |-> g[n] ] /\ g[N + 1] = Refold(f[N], e.req)
    BY <1>1
  <1>. HIDE DEF g
  <1>5. IsReplay(g, t)
    BY <1>1, <1>3, <1>4 DEF IsReplay
  <1>. QED
    BY <1>4, <1>5 DEF N, t

\* The replay starts in agreement, an old row without its vector included.
LEMMA ReplayInit == Init => ReplayInv
  <1>. SUFFICES ASSUME Init PROVE ReplayInv
    OBVIOUS
  <1>. DEFINE empty == [ r \in Reservations |-> None ]
  <1>1. CASE entries = << >> /\ reservations = empty
    <2>. DEFINE f == [ n \in 0 .. 0 |-> empty ]
    <2>1. Len(entries) = 0
      BY <1>1
    <2>2. f = [ n \in 0 .. 0 |-> IF n = 0 THEN empty ELSE Refold(f[n - 1], entries[n].req) ]
      OBVIOUS
    <2>3. f[0] = empty
      OBVIOUS
    <2>. HIDE DEF f
    <2>4. IsReplay(f, entries)
      BY <2>1, <2>2 DEF IsReplay
    <2>5. f[Len(entries)] \in [ Reservations -> ReplayedType \cup {None} ]
      BY <2>1, <2>3
    <2>6. \A r \in Reservations : RowAgrees(f[Len(entries)][r], reservations[r])
      BY <1>1, <2>1, <2>3 DEF RowAgrees
    <2>. QED
      BY <2>4, <2>5, <2>6 DEF ReplayInv
  <1>2. ASSUME NEW q \in Requests, NEW v \in Vectors \cup {None},
               q.resv # None,
               entries = << [ epoch |-> 1, req |-> [ q EXCEPT !.vector = Unrecorded ] ] >>,
               reservations =
                 [ r \in Reservations |->
                     IF r = q.resv
                       THEN [ state |-> q.to, last_seq |-> 0,
                              scope |-> q.scope, vector |-> v ]
                       ELSE None ]
        PROVE  ReplayInv
    <2>. DEFINE old == [ q EXCEPT !.vector = Unrecorded ]
                row == [ state |-> q.to, scope |-> q.scope, vector |-> Unrecorded ]
                one == [ r \in Reservations |-> IF r = q.resv THEN row ELSE None ]
                f == [ n \in 0 .. 1 |-> IF n = 0 THEN empty ELSE one ]
    <2>1. q \in RequestType /\ q.resv \in Reservations
      BY <1>2, RequestsAreTyped DEF RequestType
    <2>2. /\ old.resv = q.resv /\ old.to = q.to /\ old.scope = q.scope
          /\ old.vector = Unrecorded
      BY <2>1 DEF RequestType
    <2>3. Len(entries) = 1 /\ entries[1].req = old
      BY <1>2
    <2>. HIDE DEF old
    <2>4. Refold(empty, old) = one
      BY <1>2, <2>1, <2>2, NoneIsNew DEF Refold
    <2>5. f[0] = empty /\ f[1] = one
      OBVIOUS
    <2>6. f = [ n \in 0 .. 1 |-> f[n] ]
      OBVIOUS
    <2>. HIDE DEF f, one
    <2>7. ASSUME NEW n \in 0 .. 1
          PROVE  f[n] = IF n = 0 THEN empty ELSE Refold(f[n - 1], entries[n].req)
      <3>1. n = 0 \/ (n = 1 /\ n - 1 = 0)
        OBVIOUS
      <3>. QED
        BY <3>1, <2>3, <2>4, <2>5
    <2>8. IsReplay(f, entries)
      BY <2>3, <2>6, <2>7 DEF IsReplay
    <2>9. row \in ReplayedType /\ row # None
      BY <2>1, NoneIsNew DEF ReplayedType, RequestType
    <2>10. f[Len(entries)] \in [ Reservations -> ReplayedType \cup {None} ]
      BY <2>3, <2>5, <2>9 DEF one
    <2>11. ASSUME NEW r \in Reservations
           PROVE  RowAgrees(f[Len(entries)][r], reservations[r])
      <3>1. CASE r = q.resv
        <4>1. [ state |-> q.to, last_seq |-> 0, scope |-> q.scope, vector |-> v ] \in RowType
          BY <1>2, <2>1 DEF RowType, RequestType
        <4>2. reservations[r] = [ state |-> q.to, last_seq |-> 0,
                                  scope |-> q.scope, vector |-> v ]
          BY <1>2, <3>1
        <4>3. f[Len(entries)][r] = row
          BY <2>3, <2>5, <3>1 DEF one
        <4>4. reservations[r] # None
          BY <4>1, <4>2, NoneIsNew
        <4>. QED
          BY <2>9, <4>2, <4>3, <4>4 DEF RowAgrees
      <3>2. CASE r # q.resv
        BY <1>2, <2>3, <2>5, <3>2 DEF one, RowAgrees
      <3>. QED
        BY <3>1, <3>2
    <2>. QED
      BY <2>8, <2>10, <2>11 DEF ReplayInv
  <1>. QED
    BY <1>1, <1>2 DEF Init

\* COMMIT writes the row and the projection that a replay rebuilds from it.
LEMMA CommitReplays ==
    ASSUME IInv, ReplayInv, NEW w \in Writers, Commit(w)
    PROVE  ReplayInv'
  <1>1. PICK f : /\ IsReplay(f, entries)
                 /\ f[Len(entries)] \in [ Reservations -> ReplayedType \cup {None} ]
                 /\ \A r \in Reservations : RowAgrees(f[Len(entries)][r], reservations[r])
    BY DEF ReplayInv
  <1>2. PICK q : q = call[w].req
    OBVIOUS
  <1>3. /\ entries \in Seq(EntryType) /\ EntryOf(call[w]) \in EntryType
        /\ EntryOf(call[w]).req = q
        /\ q \in RequestType /\ q.vector # Unrecorded
        /\ reservations \in [ Reservations -> RowType \cup {None} ]
        /\ reservations' \in [ Reservations -> RowType \cup {None} ]
    <2>1. call[w].req \in Requests /\ call[w] \in CallType
      BY DEF IInv, TInv, TypeOK, CallsHaveRequests, Commit, InFlight
    <2>2. TInv'
      BY TypeStep DEF IInv, Next, CallStep
    <2>. QED
      BY <1>2, <2>1, <2>2, RequestsAreTyped
      DEF IInv, TInv, TypeOK, EntryOf, EntryType, CallType
  <1>4. PICK g : /\ IsReplay(g, Append(entries, EntryOf(call[w])))
                 /\ g[Len(entries) + 1] = Refold(f[Len(entries)], EntryOf(call[w]).req)
    BY <1>1, <1>3, ReplayGoesOn
  <1>5. IsReplay(g, entries') /\ Len(entries') = Len(entries) + 1
    BY <1>3, <1>4, AppendFacts DEF Commit
  <1>6. PICK p, h : p = f[Len(entries)] /\ h = reservations
    OBVIOUS
  <1>7. /\ g[Len(entries')] = Refold(p, q)
        /\ p \in [ Reservations -> ReplayedType \cup {None} ]
        /\ \A r \in Reservations : RowAgrees(p[r], h[r])
    BY <1>1, <1>3, <1>4, <1>5, <1>6
  <1>8. CASE q.resv = None
    <2>1. reservations' = h /\ Refold(p, q) = p
      BY <1>2, <1>6, <1>8 DEF Commit, upsert_reservation_projection, Refold
    <2>2. /\ g[Len(entries')] \in [ Reservations -> ReplayedType \cup {None} ]
          /\ \A r \in Reservations : RowAgrees(g[Len(entries')][r], reservations'[r])
      BY <1>7, <2>1
    <2>. QED
      BY <1>5, <2>2 DEF ReplayInv
  <1>9. CASE q.resv # None
    <2>. DEFINE row == [ state  |-> q.to,
                         scope  |-> q.scope,
                         vector |-> IF q.vector # None THEN q.vector
                                    ELSE IF p[q.resv] = None THEN None
                                    ELSE p[q.resv].vector ]
                kept == [ state    |-> q.to,
                          last_seq |-> current_seq_tip + 1,
                          scope    |-> q.scope,
                          vector   |-> IF q.vector # None THEN q.vector
                                       ELSE IF h[q.resv] = None THEN None
                                       ELSE h[q.resv].vector ]
    <2>1. q.resv \in Reservations
      BY <1>3, <1>9 DEF RequestType
    <2>2. /\ Refold(p, q) = [ p EXCEPT ![q.resv] = row ]
          /\ reservations' = [ h EXCEPT ![q.resv] = kept ]
      BY <1>2, <1>6, <1>9 DEF Commit, upsert_reservation_projection, Refold
    <2>3. row \in ReplayedType
      BY <1>3, <1>7, <2>1 DEF ReplayedType, RequestType
    <2>4. reservations'[q.resv] = kept /\ kept # None
      <3>1. reservations'[q.resv] = kept
        BY <1>3, <1>6, <2>1, <2>2
      <3>2. kept \in RowType
        <4>1. kept.vector \in Vectors \cup {None}
          BY <1>3, <1>6, <2>1 DEF RowType, RequestType
        <4>2. current_seq_tip + 1 \in Nat
          BY TablesTyped DEF IInv, current_seq_tip
        <4>. QED
          BY <1>3, <4>1, <4>2 DEF RowType, RequestType
      <3>. QED
        BY <3>1, <3>2, NoneIsNew
    <2>5. RowAgrees(row, kept)
      <3>1. row # None
        BY <2>3, NoneIsNew
      <3>2. RowAgrees(p[q.resv], h[q.resv])
        BY <1>7, <2>1
      <3>3. row.vector = Unrecorded \/ row.vector = kept.vector
        BY <3>2 DEF RowAgrees
      <3>. QED
        BY <2>4, <3>1, <3>3 DEF RowAgrees
    <2>. HIDE DEF row, kept
    <2>6. g[Len(entries')] \in [ Reservations -> ReplayedType \cup {None} ]
      BY <1>7, <2>1, <2>2, <2>3
    <2>7. ASSUME NEW r \in Reservations
          PROVE  RowAgrees(g[Len(entries')][r], reservations'[r])
      <3>1. CASE r = q.resv
        <4>1. g[Len(entries')][r] = row /\ reservations'[r] = kept
          BY <1>7, <2>1, <2>2, <2>4, <3>1
        <4>. QED
          BY <2>5, <4>1
      <3>2. CASE r # q.resv
        <4>1. g[Len(entries')][r] = p[r] /\ reservations'[r] = h[r]
          BY <1>3, <1>6, <1>7, <2>1, <2>2, <3>2
        <4>. QED
          BY <1>7, <4>1
      <3>. QED
        BY <3>1, <3>2
    <2>. QED
      BY <1>5, <2>6, <2>7 DEF ReplayInv
  <1>. QED
    BY <1>8, <1>9

\* Every step keeps log and projection in agreement: only COMMIT writes either.
LEMMA ReplayStep == IInv /\ ReplayInv /\ [Next]_vars => ReplayInv'
  <1>. SUFFICES ASSUME IInv, ReplayInv, [Next]_vars PROVE ReplayInv'
    OBVIOUS
  <1>1. CASE UNCHANGED << entries, reservations >>
    BY <1>1 DEF ReplayInv
  <1>2. ASSUME NEW w \in Writers, Commit(w) PROVE ReplayInv'
    BY <1>2, CommitReplays
  <1>. QED
    BY <1>1, <1>2
    DEF vars, Next, CallStep, AcquireEpoch, ReadLinearizable, GateRefuses, Begin,
        BeginBusy, ChecksRefuse, InsertEntryAndReservation, AppendEvidence,
        EvidenceFails, StoreFails, CallRaises, GapReadRollsBack, ReturnReceipt, Crash,
        RollbackWith

\* The fold of verify_replay is the replay.
LEMMA FoldIsReplay ==
    ASSUME NEW f, IsReplay(f, entries), Len(entries) \in Nat
    PROVE  fold_reservations_from_entries = f[Len(entries)]
  <1>. DEFINE N == Len(entries)
              c == CHOOSE fold : fold =
                     [ n \in 0 .. N |->
                         IF n = 0
                           THEN [ r \in Reservations |-> None ]
                           ELSE IF entries[n].req.resv = None
                             THEN fold[n - 1]
                             ELSE [ fold[n - 1] EXCEPT ![entries[n].req.resv] =
                                      [ state  |-> entries[n].req.to,
                                        scope  |-> entries[n].req.scope,
                                        vector |->
                                          IF entries[n].req.vector # None
                                            THEN entries[n].req.vector
                                          ELSE IF fold[n - 1][entries[n].req.resv] = None
                                            THEN None
                                          ELSE fold[n - 1][entries[n].req.resv].vector ] ] ]
  <1>1. IsReplay(c, entries)
    BY DEF IsReplay, Refold
  <1>2. fold_reservations_from_entries = c[N]
    BY DEF fold_reservations_from_entries
  <1>. HIDE DEF c
  <1>. QED
    BY <1>1, <1>2, ReplayIsUnique

\* In every committed state an independent replay of the log computes the held
\* projection, an old row's unrecorded vector excepted (verify_replay).
THEOREM ReplayAgrees == Spec => []ReplayReproducesHeld
  <1>1. IInv /\ ReplayInv => ReplayReproducesHeld
    <2>. SUFFICES ASSUME IInv, ReplayInv PROVE verify_replay
      BY DEF ReplayReproducesHeld
    <2>1. PICK f : /\ IsReplay(f, entries)
                   /\ \A r \in Reservations : RowAgrees(f[Len(entries)][r], reservations[r])
      BY DEF ReplayInv
    <2>2. Len(entries) \in Nat
      BY TablesTyped DEF IInv
    <2>3. fold_reservations_from_entries = f[Len(entries)]
      BY <2>1, <2>2, FoldIsReplay
    <2>. QED
      BY <2>1, <2>3 DEF verify_replay, RowAgrees
  <1>. QED
    BY <1>1, ReplayInit, ReplayStep, SafetyHolds, PTL DEF Spec
=============================================================================
