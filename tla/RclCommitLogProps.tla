------------------------- MODULE RclCommitLogProps -------------------------
(***************************************************************************)
(* What the Safety Commit Log promises to the runtime above it.            *)
(***************************************************************************)
EXTENDS RclCommitLog

EntryType == [ epoch : Nat, req : RequestType ]

EvidenceType ==
    [ seq : Nat, epoch : Nat, cmd : Commands, digest : Digests \cup {None} ]

Phases == { "idle", "begun", "inserted", "evidenced", "committed", "raised" }

CallType ==
    [ phase : Phases, req : Requests \cup {None}, epoch : Nat, expected : Int ]

ViewType == [ epoch : Nat, tip : Int ]

Results ==
    { "none", "RECEIPT", "DUPLICATE_COMMAND_ID", "COMMAND_BYTES_MISMATCH" }

OutcomeType == [ result : Results, req : Requests \cup {None}, seq : Int ]

\* Every table and every process variable has its type (log.py, gates.py).
TypeOK ==
    /\ epochs \in Seq(Writers)
    /\ entries \in Seq(EntryType)
    /\ reservations \in [ Reservations -> RowType \cup {None} ]
    /\ evidence \in SUBSET EvidenceType
    /\ lock \in Writers \cup {None}
    /\ held \in [ Writers -> Nat ]
    /\ view \in [ Writers -> ViewType ]
    /\ call \in [ Writers -> CallType ]
    /\ outcome \in [ Writers -> OutcomeType ]

\* Evidence first: whatever fails or crashes between the evidence append and
\* COMMIT, no committed entry is without its evidence record at its own seq
\* (_append_evidence_or_refuse before COMMIT in _commit_entry).
EvidenceCoversLog ==
    \A i \in DOMAIN entries :
      \E v \in evidence : /\ v.seq = i - 1
                          /\ v.epoch = entries[i].epoch
                          /\ v.cmd = entries[i].req.cmd
                          /\ v.digest = entries[i].req.digest

\* Fencing: once a newer process has acquired an epoch, nothing sent under an
\* older one is appended, whatever was in flight or read before.  The epochs of
\* the log never go back, and each of them was acquired by a process.  (A fenced
\* process may still append a release: it sends it under the current epoch.)
FencedWriterNeverAppends ==
    /\ \A i, j \in DOMAIN entries : i < j => entries[i].epoch <= entries[j].epoch
    /\ \A i \in DOMAIN entries : entries[i].epoch \in DOMAIN epochs

\* A command identity is committed at most once, however often a process that
\* lost its receipt (crash after COMMIT) sends it again, with the same or with
\* other bytes (UNIQUE command_id, classify_duplicate_command).
CommandCommittedOnce ==
    \A i, j \in DOMAIN entries : entries[i].req.cmd = entries[j].req.cmd => i = j

\* The held projection is what an independent replay of the log computes, in
\* every committed state (verify_replay never raises CommitLogCorruption).
ReplayReproducesHeld == verify_replay

\* The transitions of a reservation form a chain from an initial state: each
\* starts where the one before it ended, none leaves RELEASED, RELEASED comes
\* only from a witnessed final-quantity proof and POSITION_CONSUMED only with a
\* witness, and a weak cause never lowered conservatism.
LifecycleIsAChain ==
    \A i \in DOMAIN entries :
      LET q == entries[i].req
          earlier == { j \in 1 .. (i - 1) : entries[j].req.resv = q.resv }
      IN  q.resv # None =>
            /\ \A j \in earlier :
                 (\A k \in earlier : k <= j) => q.from = entries[j].req.to
            /\ earlier = {} => q.from \in INITIAL_RESERVATION_STATES
            /\ \A j \in earlier : entries[j].req.to # "RELEASED"
            /\ q.to = "RELEASED" => q.witness /\ q.cause = "FINAL_QUANTITY_PROOF"
            /\ q.to = "POSITION_CONSUMED" => q.witness
            /\ q.cause \in WEAK_CAUSES =>
                 CONSERVATISM_RANK[q.to] >= CONSERVATISM_RANK[q.from]

\* The last answer a process got is true of the log.
OutcomeTruthful(w) ==
    LET o == outcome[w]
        same == { i \in DOMAIN entries :
                    o.req # None /\ entries[i].req.cmd = o.req.cmd }
    IN  /\ o.result = "RECEIPT" =>
             /\ o.seq + 1 \in DOMAIN entries
             /\ entries[o.seq + 1].req = o.req
             /\ IF o.req.kind = "RELEASE_RESERVATION"
                  THEN held[w] <= entries[o.seq + 1].epoch
                  ELSE epochs[entries[o.seq + 1].epoch] = w
        /\ o.result = "DUPLICATE_COMMAND_ID" =>
             \E i \in same : entries[i].req.digest = o.req.digest
        /\ o.result = "COMMAND_BYTES_MISMATCH" =>
             \E i \in same : entries[i].req.digest # o.req.digest

\* What a call returned stays true of the log: a receipt names the seq that
\* holds the command, under an epoch the caller acquired itself, or, for a
\* release, under its own or a later process's; a duplicate refusal means these
\* bytes are committed, a mismatch that other bytes are.
OutcomeIsTruthful == \A w \in Writers : OutcomeTruthful(w)

\* A currentness proof taken at seq `start` may be reused across an
\* approval-only gap: no reservation has moved and no epoch has begun to write
\* since, so what the proof was computed from is what is held now.
ApprovalGapKeepsCapacity ==
    \A start \in -1 .. current_seq_tip :
      read_approval_only_gap(current_epoch, start) =>
        /\ \A r \in Reservations :
             reservations[r] # None => reservations[r].last_seq <= start
        /\ \A i \in DOMAIN entries :
             i - 1 > start => epochs[entries[i].epoch] = epochs[current_epoch]

\* The log and the epochs are append-only, and a released reservation stays
\* released, across crashes and changes of writer.
AppendOnlyAndNoRevival ==
    [][ /\ \A i \in DOMAIN entries :
             i \in DOMAIN entries' /\ entries'[i] = entries[i]
        /\ \A n \in DOMAIN epochs :
             n \in DOMAIN epochs' /\ epochs'[n] = epochs[n]
        /\ \A r \in Reservations :
             reservations[r] # None =>
               /\ reservations'[r] # None
               /\ reservations[r].state = "RELEASED" =>
                    reservations'[r] = reservations[r]
      ]_vars

\* Under the fairness of a running process the write lock is given back: every
\* call ends in a receipt, a refusal or the death of its process, unless an
\* exception that is not SQLite's escaped it; only such a call keeps the lock.
LockIsReturned ==
    lock # None ~> lock = None \/ \E w \in Writers : lock = w /\ call[w].phase = "raised"
=============================================================================
