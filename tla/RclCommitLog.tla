---------------------------- MODULE RclCommitLog ----------------------------
(***************************************************************************)
(* The Safety Commit Log of the Risk Capacity Ledger: SqliteCommitLog      *)
(* (tos/runtime/src/tos_runtime/rcl/log.py) with its gates                 *)
(* (tos_runtime/rcl/gates.py) over one WAL/FULL SQLite file, and the       *)
(* separate evidence store every commit writes to first.                   *)
(*                                                                         *)
(* Several runtime processes may have the file open, an old one that was   *)
(* not stopped and the one that replaced it among them.  A process reads   *)
(* the tip under a writer epoch, and later appends against that tip: one   *)
(* call is BEGIN IMMEDIATE, the checks and the inserts, the evidence       *)
(* append (another file, durable by itself), COMMIT, and the receipt.  A   *)
(* process may die, and any of the steps may fail, between any two.  The   *)
(* flow stages read and append under the epoch their process acquired; the *)
(* release paths (posttrade/release_consumer.py, unsent_release.py) under  *)
(* whatever epoch is current when they read.                               *)
(***************************************************************************)
EXTENDS RclVocabulary, Integers, Sequences

CONSTANTS Writers,        \* process slots; a slot is reused after a crash
          Commands,       \* command identities
          Digests,        \* canonical digests of command bytes
          Reservations,   \* reservation identities
          Scopes,         \* (account, instrument) scopes
          Vectors,        \* committed capacity vectors
          None,           \* Python's None
          Requests,       \* the calls the processes make
          MaxEpoch,       \* bound: writer epochs ever acquired
          MaxLog          \* bound: entries ever committed

\* A vector that a row written before vectors were recorded does not carry.
Unrecorded == "UNRECORDED_BEFORE_B1"

\* What the gated commands of the log are to the reads over it, and whether
\* they come from a release path.
CommandKinds ==
    { "CONSUME_APPROVAL_DECISION", "RESERVATION", "RELEASE_RESERVATION", "OTHER" }

\* The arguments of append_cas (resv = None) and apply_reservation_transition.
RequestType ==
    [ cmd : Commands, digest : Digests \cup {None}, kind : CommandKinds,
      resv : Reservations \cup {None}, from : CapacityState, to : CapacityState,
      cause : TransitionCause, witness : BOOLEAN, scope : Scopes,
      vector : Vectors \cup {None, Unrecorded} ]

\* A row of table reservations.
RowType ==
    [ state : CapacityState, last_seq : Nat, scope : Scopes,
      vector : Vectors \cup {None} ]

\* What a replay of the log rebuilds of such a row.
ReplayedType ==
    [ state : CapacityState, scope : Scopes, vector : Vectors \cup {None, Unrecorded} ]

ASSUME NoneIsNew ==
    /\ None \notin Writers /\ None \notin Reservations
    /\ None \notin Digests /\ None \notin Vectors
    /\ None \notin Requests /\ None \notin RowType /\ None \notin ReplayedType
    /\ Unrecorded \notin Vectors /\ None # Unrecorded

\* Current code always records the vector key of a transition.
ASSUME RequestsAreTyped ==
    /\ Requests \subseteq RequestType
    /\ \A q \in Requests : q.vector # Unrecorded

ASSUME BoundsAreNat == MaxEpoch \in Nat /\ MaxLog \in Nat

VARIABLES
    epochs,        \* table epochs: epochs[n] is the process that acquired n
    entries,       \* table entries: the entry of seq n is entries[n + 1]
    reservations,  \* table reservations: the held projection, None without a row
    evidence,      \* evidence store: the payloads it has been given
    lock,          \* the process inside BEGIN IMMEDIATE, None when free
    held,          \* memory: the writer epoch a process runs under, 0 before
    view,          \* memory: epoch and tip its last linearizable read returned
    call,          \* memory: the call in flight and how far it has got
    outcome        \* memory: what the last call returned

vars == << epochs, entries, reservations, evidence, lock,
           held, view, call, outcome >>

----------------------------------------------------------------------------
(* Reads *)

current_epoch == Len(epochs)

\* MAX(seq), or -1 of the empty log.
current_seq_tip == Len(entries) - 1

\* Mutant: a fence that only rejects epochs nobody has acquired yet.
unissued_writer_epoch(attempted) == attempted > current_epoch

\* The fence is equality with the current epoch, never "at or above".
stale_writer_epoch(attempted) == attempted # current_epoch

\* Mutant: an idempotency index rebuilt at boot from the own epoch's rows.
command_row_of_this_epoch(cmd) ==
    { i \in DOMAIN entries : /\ entries[i].req.cmd = cmd
                             /\ entries[i].epoch = current_epoch }

existing_command_row(cmd) == { i \in DOMAIN entries : entries[i].req.cmd = cmd }

\* Two absent digests are the same bytes; one absent digest never is.
classify_duplicate_command(cmd, digest) ==
    IF existing_command_row(cmd) = {} THEN "NONE"
    ELSE IF \E i \in existing_command_row(cmd) : entries[i].req.digest = digest
      THEN "DUPLICATE_COMMAND_ID"
    ELSE "COMMAND_BYTES_MISMATCH"

\* Mutant: the claimed from-state is only checked for a reservation without a row.
trust_claimed_from_state(q) ==
    reservations[q.resv] = None => q.from \in INITIAL_RESERVATION_STATES

\* The claimed from-state must be the held one, or an initial one without a row.
check_reservation_from_state(q) ==
    IF reservations[q.resv] = None
      THEN q.from \in INITIAL_RESERVATION_STATES
      ELSE reservations[q.resv].state = q.from

\* Mutant: any gap of the current epoch is taken for an approval-only gap.
any_gap_of_this_epoch(writer_epoch, start) ==
    /\ writer_epoch > 0
    /\ writer_epoch = current_epoch
    /\ start <= current_seq_tip
    /\ \A i \in DOMAIN entries : i - 1 > start => entries[i].epoch = writer_epoch

\* read_approval_only_gap: since seq `start` the log holds only approval
\* consumptions of the current epoch.
read_approval_only_gap(writer_epoch, start) ==
    /\ writer_epoch > 0
    /\ writer_epoch = current_epoch
    /\ start <= current_seq_tip
    /\ \A i \in DOMAIN entries :
         i - 1 > start => /\ entries[i].epoch = writer_epoch
                          /\ entries[i].req.kind = "CONSUME_APPROVAL_DECISION"
                          /\ entries[i].req.resv = None

\* The fold of the transition rows in log order: the last state and scope, and
\* the last recorded vector, of every reservation.
fold_reservations_from_entries ==
    LET fold[n \in 0 .. Len(entries)] ==
          IF n = 0
            THEN [ r \in Reservations |-> None ]
            ELSE LET e    == entries[n].req
                     prev == fold[n - 1]
                 IN  IF e.resv = None
                       THEN prev
                       ELSE [ prev EXCEPT ![e.resv] =
                                [ state  |-> e.to,
                                  scope  |-> e.scope,
                                  vector |-> IF e.vector # None THEN e.vector
                                             ELSE IF prev[e.resv] = None THEN None
                                             ELSE prev[e.resv].vector ] ]
    IN  fold[Len(entries)]

\* verify_replay passes: held projection and replay agree, except for a vector
\* that the log's old rows never recorded.
verify_replay ==
    LET replayed == fold_reservations_from_entries
    IN  \A r \in Reservations :
          IF replayed[r] = None \/ reservations[r] = None
            THEN replayed[r] = None /\ reservations[r] = None
            ELSE /\ replayed[r].state = reservations[r].state
                 /\ replayed[r].scope = reservations[r].scope
                 /\ \/ replayed[r].vector = Unrecorded
                    \/ replayed[r].vector = reservations[r].vector

----------------------------------------------------------------------------
(* Processes *)

NoRequest ==
    [ phase |-> "idle", req |-> None, epoch |-> 0, expected |-> -1 ]

NoView == [ epoch |-> 0, tip |-> -1 ]

NoOutcome == [ result |-> "none", req |-> None, seq |-> -1 ]

Returned(result, req, seq) == [ result |-> result, req |-> req, seq |-> seq ]

\* A refusal that tells what the log holds keeps its reason and the command it
\* is about; of any other a caller only learns that nothing was done.
Refused(reason, q) ==
    IF reason \in { "DUPLICATE_COMMAND_ID", "COMMAND_BYTES_MISMATCH" }
      THEN Returned(reason, q, -1)
      ELSE NoOutcome

\* The row the log inserts for a call.
EntryOf(c) == [ epoch |-> c.epoch, req |-> c.req ]

\* The evidence payload names the seq the entry is about to take.
EvidenceOf(c) == [ seq |-> current_seq_tip + 1, epoch |-> c.epoch,
                   cmd |-> c.req.cmd, digest |-> c.req.digest ]

\* An empty file, or one that already holds a transition written by the code
\* that did not record vectors in the log.
Init ==
    /\ lock = None
    /\ held = [ w \in Writers |-> 0 ]
    /\ view = [ w \in Writers |-> NoView ]
    /\ call = [ w \in Writers |-> NoRequest ]
    /\ outcome = [ w \in Writers |-> NoOutcome ]
    /\ \/ /\ epochs = << >>
          /\ entries = << >>
          /\ evidence = {}
          /\ reservations = [ r \in Reservations |-> None ]
       \/ \E w \in Writers, q \in Requests, v \in Vectors \cup {None} :
            LET e == [ epoch |-> 1, req |-> [ q EXCEPT !.vector = Unrecorded ] ]
            IN  /\ q.resv # None
                /\ q.from \in INITIAL_RESERVATION_STATES
                /\ reservation_lifecycle_refusal(q.from, q.to, q.cause, q.witness)
                     = "NONE"
                /\ epochs = << w >>
                /\ entries = << e >>
                /\ evidence = { [ seq |-> 0, epoch |-> 1, cmd |-> q.cmd,
                                  digest |-> q.digest ] }
                /\ reservations =
                     [ r \in Reservations |->
                         IF r = q.resv
                           THEN [ state |-> q.to, last_seq |-> 0,
                                  scope |-> q.scope, vector |-> v ]
                           ELSE None ]

Idle(w) == call[w].phase = "idle"

\* A process may call again after an exception has left a call half done.
MayCall(w) == call[w].phase \in { "idle", "raised" } /\ held[w] # 0

\* The flow stages pass the epoch of their process, the release paths
\* current_epoch() as they read it.
ReadEpochs(w) == { held[w], current_epoch }

\* Boot: one transaction takes the next epoch and fences every older one.
AcquireEpoch(w) ==
    /\ Idle(w) /\ lock = None
    /\ held[w] = 0
    /\ current_epoch < MaxEpoch
    /\ epochs' = Append(epochs, w)
    /\ held' = [ held EXCEPT ![w] = Len(epochs) + 1 ]
    /\ UNCHANGED << entries, reservations, evidence, lock, view, call, outcome >>

\* A stale epoch is refused the read (StaleEpochRead) and the old view kept.
ReadLinearizable(w, e) ==
    /\ Idle(w) /\ held[w] # 0
    /\ ~ stale_writer_epoch(e)
    /\ view' = [ view EXCEPT ![w] = [ epoch |-> e, tip |-> current_seq_tip ] ]
    /\ UNCHANGED << epochs, entries, reservations, evidence, lock, held,
                    call, outcome >>

LifecycleRefusal(q) ==
    IF q.resv = None THEN "NONE"
    ELSE reservation_lifecycle_refusal(q.from, q.to, q.cause, q.witness)

\* The gate raises before a transaction is opened.
GateRefuses(w, q) ==
    /\ MayCall(w)
    /\ LifecycleRefusal(q) # "NONE"
    /\ outcome' = [ outcome EXCEPT ![w] = Refused(LifecycleRefusal(q), q) ]
    /\ UNCHANGED << epochs, entries, reservations, evidence, lock, held, view, call >>

\* The epoch a caller hands to the log.
writer_epoch_of(w, q) ==
    IF q.kind = "RELEASE_RESERVATION" THEN view[w].epoch ELSE held[w]

\* BEGIN IMMEDIATE takes the only write lock of the file; every caller has read
\* the tip before ...
Begin(w, q) ==
    /\ Idle(w) /\ held[w] # 0 /\ view[w] # NoView
    /\ LifecycleRefusal(q) = "NONE"
    /\ lock = None
    /\ Len(entries) < MaxLog
    /\ lock' = w
    /\ call' = [ call EXCEPT ![w] = [ phase |-> "begun", req |-> q,
                                      epoch |-> writer_epoch_of(w, q),
                                      expected |-> view[w].tip ] ]
    /\ outcome' = [ outcome EXCEPT ![w] = NoOutcome ]
    /\ UNCHANGED << epochs, entries, reservations, evidence, held, view >>

\* ... and is refused when another process keeps it past the busy timeout, or
\* the process itself has left a transaction open on its connection.
BeginBusy(w, q) ==
    /\ MayCall(w)
    /\ LifecycleRefusal(q) = "NONE"
    /\ lock # None
    /\ outcome' = [ outcome EXCEPT ![w] = Refused("STORE_UNAVAILABLE", q) ]
    /\ UNCHANGED << epochs, entries, reservations, evidence, lock, held, view, call >>

\* The refusal the checks of an open transaction return, in their order.
pre_insert_checks(c) ==
    IF stale_writer_epoch(c.epoch) THEN "STALE_EPOCH"
    ELSE IF c.expected # current_seq_tip THEN "SEQ_MISMATCH"
    ELSE IF classify_duplicate_command(c.req.cmd, c.req.digest) # "NONE"
      THEN classify_duplicate_command(c.req.cmd, c.req.digest)
    ELSE IF c.req.resv # None /\ ~ check_reservation_from_state(c.req)
      THEN "INTEGRITY_VIOLATION"
    ELSE "NONE"

\* A refusal and an SQLite error roll back, free the lock and say why.
RollbackWith(w, result) ==
    /\ lock' = None
    /\ outcome' = [ outcome EXCEPT ![w] = Refused(result, call[w].req) ]
    /\ call' = [ call EXCEPT ![w] = NoRequest ]
    /\ UNCHANGED << epochs, entries, reservations, held, view >>

\* Mutant: the refusal returns without the ROLLBACK.
ChecksRefuseKeepingLock(w) ==
    /\ call[w].phase = "begun"
    /\ pre_insert_checks(call[w]) # "NONE"
    /\ outcome' = [ outcome EXCEPT ![w] =
                      Refused(pre_insert_checks(call[w]), call[w].req) ]
    /\ call' = [ call EXCEPT ![w] = NoRequest ]
    /\ UNCHANGED << epochs, entries, reservations, evidence, lock, held, view >>

ChecksRefuse(w) ==
    /\ call[w].phase = "begun"
    /\ pre_insert_checks(call[w]) # "NONE"
    /\ RollbackWith(w, pre_insert_checks(call[w]))
    /\ UNCHANGED evidence

\* Entry and projection rows are written inside the transaction: no other
\* process sees them before COMMIT.
InsertEntryAndReservation(w) ==
    /\ call[w].phase = "begun"
    /\ pre_insert_checks(call[w]) = "NONE"
    /\ call' = [ call EXCEPT ![w].phase = "inserted" ]
    /\ UNCHANGED << epochs, entries, reservations, evidence, lock, held,
                    view, outcome >>

AppendEvidence(w) ==
    /\ call[w].phase = "inserted"
    /\ evidence' = evidence \cup { EvidenceOf(call[w]) }
    /\ call' = [ call EXCEPT ![w].phase = "evidenced" ]
    /\ UNCHANGED << epochs, entries, reservations, lock, held, view, outcome >>

\* Mutant: a failed evidence append is logged and the commit goes on.
EvidenceFailsOpen(w) ==
    /\ call[w].phase = "inserted"
    /\ call' = [ call EXCEPT ![w].phase = "evidenced" ]
    /\ UNCHANGED << epochs, entries, reservations, evidence, lock, held, view,
                    outcome >>

EvidenceFails(w) ==
    /\ call[w].phase = "inserted"
    /\ RollbackWith(w, "STORE_UNAVAILABLE")
    /\ UNCHANGED evidence

\* An SQLite error in the checks, the inserts or COMMIT itself.
StoreFails(w) ==
    /\ call[w].phase \in { "begun", "evidenced" }
    /\ RollbackWith(w, "PARTIAL_COMMIT_SUSPECTED")
    /\ UNCHANGED evidence

\* Any other exception of the checks or the inserts (a held state that is no
\* CapacityState, a vector that does not serialise) passes both handlers: the
\* caller gets it, and the transaction stays open on the connection.
CallRaises(w) ==
    /\ call[w].phase = "begun"
    /\ call' = [ call EXCEPT ![w] = [ NoRequest EXCEPT !.phase = "raised" ] ]
    /\ UNCHANGED << epochs, entries, reservations, evidence, lock, held, view,
                    outcome >>

\* read_approval_only_gap is the one operation that ends such a transaction:
\* its own BEGIN fails inside its try, and the handler rolls back.
GapReadRollsBack(w) ==
    /\ call[w].phase = "raised"
    /\ lock' = None
    /\ call' = [ call EXCEPT ![w] = NoRequest ]
    /\ UNCHANGED << epochs, entries, reservations, evidence, held, view, outcome >>

\* Mutant: a transition without a vector overwrites the vector held.
upsert_without_coalesce(q, seq) ==
    IF q.resv = None
      THEN reservations
      ELSE [ reservations EXCEPT ![q.resv] =
               [ state |-> q.to, last_seq |-> seq, scope |-> q.scope,
                 vector |-> q.vector ] ]

\* Mutant: the row names the tip before the insert.
upsert_with_old_tip(q, seq) ==
    IF q.resv = None
      THEN reservations
      ELSE [ reservations EXCEPT ![q.resv] =
               [ state |-> q.to, last_seq |-> seq - 1, scope |-> q.scope,
                 vector |-> q.vector ] ]

\* The row of a reservation after a transition: a transition without a vector
\* keeps the vector already held (COALESCE).
upsert_reservation_projection(q, seq) ==
    IF q.resv = None
      THEN reservations
      ELSE [ reservations EXCEPT ![q.resv] =
               [ state    |-> q.to,
                 last_seq |-> seq,
                 scope    |-> q.scope,
                 vector   |-> IF q.vector # None THEN q.vector
                              ELSE IF reservations[q.resv] = None THEN None
                              ELSE reservations[q.resv].vector ] ]

Commit(w) ==
    /\ call[w].phase = "evidenced"
    /\ entries' = Append(entries, EntryOf(call[w]))
    /\ reservations' = upsert_reservation_projection(call[w].req, current_seq_tip + 1)
    /\ lock' = None
    /\ call' = [ call EXCEPT ![w].phase = "committed",
                             ![w].expected = current_seq_tip + 1 ]
    /\ UNCHANGED << epochs, evidence, held, view, outcome >>

\* Mutant: the receipt reads the tip again after COMMIT.
ReturnReceiptOfTip(w) ==
    /\ call[w].phase = "committed"
    /\ outcome' = [ outcome EXCEPT ![w] =
                      Returned("RECEIPT", call[w].req, current_seq_tip) ]
    /\ call' = [ call EXCEPT ![w] = NoRequest ]
    /\ UNCHANGED << epochs, entries, reservations, evidence, lock, held, view >>

ReturnReceipt(w) ==
    /\ call[w].phase = "committed"
    /\ outcome' = [ outcome EXCEPT ![w] =
                      Returned("RECEIPT", call[w].req, call[w].expected) ]
    /\ call' = [ call EXCEPT ![w] = NoRequest ]
    /\ UNCHANGED << epochs, entries, reservations, evidence, lock, held, view >>

\* The process dies: its memory is gone and SQLite rolls an open transaction
\* back.  The files keep what they hold.
Crash(w) ==
    /\ held[w] # 0
    /\ lock' = IF lock = w THEN None ELSE lock
    /\ held' = [ held EXCEPT ![w] = 0 ]
    /\ view' = [ view EXCEPT ![w] = NoView ]
    /\ call' = [ call EXCEPT ![w] = NoRequest ]
    /\ outcome' = [ outcome EXCEPT ![w] = NoOutcome ]
    /\ UNCHANGED << epochs, entries, reservations, evidence >>

----------------------------------------------------------------------------
CallStep(w) ==
    \/ ChecksRefuse(w) \/ InsertEntryAndReservation(w)
    \/ AppendEvidence(w) \/ EvidenceFails(w) \/ StoreFails(w) \/ CallRaises(w)
    \/ Commit(w) \/ ReturnReceipt(w)

Next ==
    \E w \in Writers :
      \/ AcquireEpoch(w)
      \/ \E e \in ReadEpochs(w) : ReadLinearizable(w, e)
      \/ GapReadRollsBack(w)
      \/ \E q \in Requests : GateRefuses(w, q) \/ Begin(w, q) \/ BeginBusy(w, q)
      \/ CallStep(w)
      \/ Crash(w)

\* A process that is running executes its call; nothing else is promised, not
\* that a process with an open transaction reads the gap or ends.
Fairness == \A w \in Writers : WF_vars(CallStep(w))

Spec == Init /\ [][Next]_vars /\ Fairness
=============================================================================
