---------------------------- MODULE StreamStage ----------------------------
(***************************************************************************)
(* The consume loop of the streaming daemons (shared/streaming/stage.py):  *)
(* workers of one Redis consumer group over several input streams claim    *)
(* idle pending messages, read new ones, handle them one by one and        *)
(* acknowledge what the handler accepted.  StreamStage is the case of one  *)
(* stream, MultiStreamStage the general one.                               *)
(*                                                                         *)
(* Each await is a step of its own, so other workers, the publisher and    *)
(* the expiry of a key come between any two commands.  Redis is external:  *)
(* a stream is the set of its entry ids, which only grow, and a group is   *)
(* its last delivered id and its pending entries.  Sleeping, heartbeats    *)
(* and logging leave no trace; what a failure may do is bounded by one     *)
(* budget of faults.                                                       *)
(***************************************************************************)
EXTENDS Naturals, Sequences, FiniteSets, SequencesExt

CONSTANTS
    Workers,      \* processes of the consumer group
    NumStreams,   \* len(input_streams)
    BatchSize,    \* batch_size, the COUNT of a claim and of a read
    MaxEntries,   \* bound: messages ever published
    MaxFaults,    \* bound: failures, refusals, stops and vanished keys
    None

ASSUME ConstantsAssumption ==
    /\ NumStreams \in Nat \ {0} /\ BatchSize \in Nat \ {0}
    /\ MaxEntries \in Nat /\ MaxFaults \in Nat
    /\ None \notin Nat /\ IsFiniteSet(Workers)

Streams == 1 .. NumStreams
Ids == 1 .. MaxEntries

VARIABLES
    entries,   \* per stream, the ids of its messages
    group,     \* per stream, the group's last delivered id, None when missing
    pel,       \* per stream, the pending entries of the group
    idle,      \* per stream, those pending for pending_retry_idle_ms
    next_id,   \* the id of the next message published
    worker,    \* memory of each process
    autoclaim, \* this server knows XAUTOCLAIM
    faults,    \* failures so far
    handled,   \* history: messages whose handler returned True
    gone,      \* history: how often a group went missing or was not made at start
    retries    \* history: reads tried again without a backoff

redis == << entries, group, pel, idle, next_id, autoclaim >>
history == << handled, gone, retries >>
vars == << redis, worker, faults, history >>

\* at: the stream a loop over input_streams is at; batch: messages still to
\* process; cursor: _pending_claim_start_ids; disabled: _pending_claim_disabled;
\* created, failed: outcomes of the running sweep.
Down == [ pc |-> "down", at |-> 1, batch |-> << >>,
          cursor |-> [ s \in Streams |-> 0 ], disabled |-> FALSE,
          created |-> FALSE, failed |-> FALSE ]

At(w, pc) == worker[w].pc = pc
Fault == faults < MaxFaults /\ faults' = faults + 1
Dies(w) == worker' = [ worker EXCEPT ![w] = Down ]

Init ==
    /\ entries = [ s \in Streams |-> {} ] /\ group = [ s \in Streams |-> None ]
    /\ pel = [ s \in Streams |-> {} ] /\ idle = [ s \in Streams |-> {} ]
    /\ next_id = 1 /\ autoclaim \in BOOLEAN /\ faults = 0
    /\ worker = [ w \in Workers |-> Down ]
    /\ handled = {} /\ gone = 0 /\ retries = 0

-----------------------------------------------------------------------------
(* Redis, as the loop uses it *)

\* The usual XGROUP CREATE ... $: only what comes later.
CreateAtEnd(s) == group' = [ group EXCEPT ![s] = next_id - 1 ]

\* XGROUP CREATE ... 0 MKSTREAM: the new group will deliver what is there.
xgroup_create(s) == group' = [ group EXCEPT ![s] = 0 ]

\* _ensure_consumer_group: BUSYGROUP is EXISTED, any other error FAILED.
ensure_consumer_group(s, outcome) ==
    \/ /\ outcome = "CREATED" /\ group[s] = None
       /\ xgroup_create(s) /\ UNCHANGED faults
    \/ outcome = "EXISTED" /\ group[s] # None /\ UNCHANGED << group, faults >>
    \/ outcome = "FAILED" /\ Fault /\ UNCHANGED group

\* XAUTOCLAIM: the first BatchSize idle pending ids from `start` on.
xautoclaim(s, start) ==
    LET from == { e \in idle[s] : e >= start }
    IN  { e \in from : Cardinality({ f \in from : f <= e }) <= BatchSize }

\* The cursor it returns: the pending id after the last one claimed when the
\* count ran out before the list did, else 0-0.
ClaimCursor(s, claimed) ==
    LET rest == { e \in pel[s] : \A c \in claimed : c < e }
    IN  IF Cardinality(claimed) < BatchSize \/ rest = {}
          THEN 0
          ELSE CHOOSE e \in rest : \A f \in rest : e <= f

\* XREADGROUP >: u is the last id delivered of at most BatchSize new ones.
Undelivered(s) == { e \in entries[s] : e > group[s] }
ReadUpTo(s, u) ==
    LET fresh == Undelivered(s)
        taken == { e \in fresh : e <= u }
    IN  \/ fresh = {} /\ u = group[s]
        \/ /\ u \in fresh
           /\ \/ Cardinality(taken) = BatchSize
              \/ taken = fresh /\ Cardinality(taken) < BatchSize

-----------------------------------------------------------------------------
(* The loop *)

Messages(s, ids) ==
    LET inOrder == SetToSortSeq(ids, <)
    IN  [ i \in DOMAIN inOrder |-> << s, inOrder[i] >> ]

\* The top of the loop: back to the claims, from the first stream on.
TopOfLoop(w) == [ worker[w] EXCEPT !.pc = "claim", !.at = 1, !.batch = << >> ]

\* The process starts: on_startup, then run() ensures every group.
Start(w) ==
    /\ At(w, "down")
    /\ worker' = [ worker EXCEPT ![w] = [ Down EXCEPT !.pc = "ensure" ] ]
    /\ UNCHANGED << redis, faults, history >>

EnsureGroups(w) ==
    LET s == worker[w].at
    IN  /\ At(w, "ensure")
        /\ \E outcome \in { "CREATED", "EXISTED", "FAILED" } :
             /\ ensure_consumer_group(s, outcome)
             /\ gone' = IF outcome = "FAILED" THEN gone + 1 ELSE gone
        /\ worker' = [ worker EXCEPT ![w] =
               IF s < NumStreams THEN [ @ EXCEPT !.at = s + 1 ] ELSE TopOfLoop(w) ]
        /\ UNCHANGED << entries, pel, idle, next_id, autoclaim, handled, retries >>

\* stop() was called, or pre_iteration_gate said no.
Stop(w) ==
    /\ At(w, "claim") /\ worker[w].at = 1 /\ worker[w].batch = << >>
    /\ Fault /\ Dies(w)
    /\ UNCHANGED << redis, history >>

\* The claims of the earlier streams are forgotten when the last one has none.
LastClaimDecides(w, got, cursor, disabled) ==
    LET s == worker[w].at
    IN  worker' = [ worker EXCEPT ![w] =
          [ @ EXCEPT !.batch = IF s = NumStreams /\ got = << >> THEN << >> ELSE @ \o got,
                     !.cursor[s] = cursor, !.disabled = disabled,
                     !.at = IF s < NumStreams THEN s + 1 ELSE 1,
                     !.pc = CASE s < NumStreams -> "claim"
                              [] s = NumStreams /\ got # << >> -> "process"
                              [] OTHER -> "read" ] ]

\* _claim_pending_by_stream goes on with `got` added and the cursor moved; after
\* the last stream the claimed messages are processed before anything is read.
AfterClaim(w, got, cursor, disabled) ==
    LET s == worker[w].at
        all == worker[w].batch \o got
    IN  worker' = [ worker EXCEPT ![w] =
          [ @ EXCEPT !.batch = all, !.cursor[s] = cursor, !.disabled = disabled,
                     !.at = IF s < NumStreams THEN s + 1 ELSE 1,
                     !.pc = CASE s < NumStreams -> "claim"
                              [] s = NumStreams /\ all # << >> -> "process"
                              [] OTHER -> "read" ] ]

ClaimDisabled(w) ==
    LET me == worker[w]
    IN  /\ At(w, "claim") /\ (me.disabled \/ ~autoclaim)
        /\ AfterClaim(w, << >>, me.cursor[me.at], TRUE)
        /\ UNCHANGED << redis, faults, history >>

\* Any error but a missing group: sleep, then the next stream.
ClaimFails(w) ==
    LET me == worker[w]
    IN  /\ At(w, "claim") /\ ~me.disabled /\ Fault
        /\ AfterClaim(w, << >>, me.cursor[me.at], FALSE)
        /\ UNCHANGED << redis, history >>

\* NOGROUP: recover_missing_consumer_group, by when another worker may have
\* made the group; the outcome is not looked at.
ClaimMissing(w) ==
    /\ At(w, "claim") /\ ~worker[w].disabled /\ autoclaim
    /\ group[worker[w].at] = None
    /\ worker' = [ worker EXCEPT ![w].pc = "recover" ]
    /\ UNCHANGED << redis, faults, history >>

ClaimRecovers(w) ==
    /\ At(w, "recover")
    /\ \E outcome \in { "CREATED", "EXISTED", "FAILED" } :
         ensure_consumer_group(worker[w].at, outcome)
    /\ AfterClaim(w, << >>, 0, FALSE)
    /\ UNCHANGED << entries, pel, idle, next_id, autoclaim, history >>

ClaimPending(w) ==
    LET s == worker[w].at
        claimed == xautoclaim(s, worker[w].cursor[s])
    IN  /\ At(w, "claim") /\ ~worker[w].disabled /\ autoclaim /\ group[s] # None
        /\ idle' = [ idle EXCEPT ![s] = @ \ claimed ]
        /\ AfterClaim(w, Messages(s, claimed), ClaimCursor(s, claimed), FALSE)
        /\ UNCHANGED << entries, group, pel, next_id, autoclaim, faults, history >>

\* One XREADGROUP over all streams; an empty answer is an idle poll.
Read(w) ==
    /\ At(w, "read") /\ \A s \in Streams : group[s] # None
    /\ \E upTo \in [ Streams -> 0 .. MaxEntries ] :
         LET got == [ s \in Streams |-> { e \in Undelivered(s) : e <= upTo[s] } ]
             batch == FlattenSeq([ s \in Streams |-> Messages(s, got[s]) ])
         IN  /\ \A s \in Streams : ReadUpTo(s, upTo[s])
             /\ group' = upTo
             /\ pel' = [ s \in Streams |-> pel[s] \cup got[s] ]
             /\ worker' = [ worker EXCEPT ![w] =
                  IF batch = << >>
                    THEN TopOfLoop(w)
                    ELSE [ @ EXCEPT !.pc = "process", !.batch = batch ] ]
    /\ UNCHANGED << entries, idle, next_id, autoclaim, faults, history >>

\* Any error but a vanished stream: the error log, the backoff, the top.
ReadFails(w) ==
    /\ At(w, "read") /\ Fault
    /\ worker' = [ worker EXCEPT ![w] = TopOfLoop(w) ]
    /\ UNCHANGED << redis, history >>

\* NOGROUP, or UNBLOCKED when the key goes under a blocked read: the read fails
\* as a unit and all streams are swept.
ReadVanished(w) ==
    /\ At(w, "read") /\ \E s \in Streams : group[s] = None
    /\ worker' = [ worker EXCEPT ![w] =
         [ @ EXCEPT !.pc = "sweep", !.at = 1, !.created = FALSE, !.failed = FALSE ] ]
    /\ UNCHANGED << redis, faults, history >>

\* StrEnum members are truthy: all(outcomes) holds whatever was created.
RetryIfEnsured(created, failed) == ~failed

\* What the three-valued outcomes mean for the caller.
RetryAtOnce(created, failed) == created /\ ~failed

\* sweep_vanished_consumer_groups: with something created and nothing failed the
\* loop skips the backoff.
Sweep(w) ==
    LET s == worker[w].at
    IN  /\ At(w, "sweep")
        /\ \E outcome \in { "CREATED", "EXISTED", "FAILED" } :
             LET created == worker[w].created \/ outcome = "CREATED"
                 failed == worker[w].failed \/ outcome = "FAILED"
                 last == s = NumStreams
             IN  /\ ensure_consumer_group(s, outcome)
                 /\ worker' = [ worker EXCEPT ![w] =
                      IF last
                        THEN [ TopOfLoop(w) EXCEPT !.created = FALSE, !.failed = FALSE ]
                        ELSE [ @ EXCEPT !.at = s + 1, !.created = created,
                                        !.failed = failed ] ]
                 /\ retries' = IF last /\ RetryAtOnce(created, failed)
                                 THEN retries + 1 ELSE retries
        /\ UNCHANGED << entries, pel, idle, next_id, autoclaim, handled, gone >>

-----------------------------------------------------------------------------
(* _process_messages *)

Current(w) == Head(worker[w].batch)

\* The rest of the batch, or the top of the loop.
NextMessage(w) ==
    LET rest == Tail(worker[w].batch)
    IN  worker' = [ worker EXCEPT ![w] =
          IF rest = << >>
            THEN TopOfLoop(w)
            ELSE [ @ EXCEPT !.pc = "process", !.batch = rest ] ]

HandleAccepts(w) ==
    /\ At(w, "process")
    /\ handled' = handled \cup { Current(w)[2] }
    /\ worker' = [ worker EXCEPT ![w].pc = "ack" ]
    /\ UNCHANGED << redis, faults, gone, retries >>

\* handle_message returned False: no XACK, the message stays pending.
HandleRefuses(w) ==
    /\ At(w, "process") /\ Fault
    /\ NextMessage(w)
    /\ UNCHANGED << redis, history >>

\* handle_message raised: out of the loop, and the rest of the batch pending.
HandleRaises(w) ==
    /\ At(w, "process") /\ Fault /\ Dies(w)
    /\ UNCHANGED << redis, history >>

\* XACK; for an id that is not pending any more it is answered with 0.
xack(w) ==
    LET m == Current(w)
    IN  /\ At(w, "ack")
        /\ pel' = [ pel EXCEPT ![m[1]] = @ \ {m[2]} ]
        /\ idle' = [ idle EXCEPT ![m[1]] = @ \ {m[2]} ]
        /\ NextMessage(w)
        /\ UNCHANGED << entries, group, next_id, autoclaim, faults, history >>

\* XACK raised: the message was handled and will be handled again.
AckFails(w) ==
    /\ At(w, "ack") /\ Fault /\ Dies(w)
    /\ UNCHANGED << redis, history >>

-----------------------------------------------------------------------------
(* The world around the loop *)

Crash(w) ==
    /\ ~At(w, "down") /\ Fault /\ Dies(w)
    /\ UNCHANGED << redis, history >>

\* StreamPublisher.publish: XADD makes the key if need be.  Its maxlen is far
\* above MaxEntries, so nothing is trimmed.
publish(s) ==
    /\ next_id <= MaxEntries
    /\ entries' = [ entries EXCEPT ![s] = @ \cup {next_id} ]
    /\ next_id' = next_id + 1
    /\ UNCHANGED << group, pel, idle, autoclaim, worker, faults, history >>

\* The key expires (a day after the last publish), is deleted, or only its
\* group is destroyed.
Vanish(s, kept) ==
    /\ group[s] # None \/ kept # entries[s]
    /\ Fault
    /\ entries' = [ entries EXCEPT ![s] = kept ]
    /\ group' = [ group EXCEPT ![s] = None ]
    /\ pel' = [ pel EXCEPT ![s] = {} ] /\ idle' = [ idle EXCEPT ![s] = {} ]
    /\ gone' = IF group[s] = None THEN gone ELSE gone + 1
    /\ UNCHANGED << next_id, autoclaim, worker, handled, retries >>

\* A pending entry reaches pending_retry_idle_ms, also under a slow handler.
IdleElapses(s, e) ==
    /\ e \in pel[s] \ idle[s]
    /\ idle' = [ idle EXCEPT ![s] = @ \cup {e} ]
    /\ UNCHANGED << entries, group, pel, next_id, autoclaim, worker, faults, history >>

-----------------------------------------------------------------------------
Loop(w) ==
    \/ EnsureGroups(w) \/ ClaimDisabled(w) \/ ClaimMissing(w) \/ ClaimRecovers(w)
    \/ ClaimPending(w) \/ Read(w) \/ ReadVanished(w) \/ Sweep(w)
    \/ HandleAccepts(w) \/ xack(w)

Failure(w) ==
    \/ Stop(w) \/ ClaimFails(w) \/ ReadFails(w) \/ HandleRefuses(w)
    \/ HandleRaises(w) \/ AckFails(w) \/ Crash(w)

Next ==
    \/ \E w \in Workers : Start(w) \/ Loop(w) \/ Failure(w)
    \/ \E s \in Streams :
         \/ publish(s)
         \/ \E kept \in { {}, entries[s] } : Vanish(s, kept)
         \/ \E e \in pel[s] : IdleElapses(s, e)

Spec == Init /\ [][Next]_vars

\* The event loop runs while the process lives, a dead one is restarted, and
\* time passes for what is pending.
FairSpec ==
    /\ Spec
    /\ \A w \in Workers : WF_vars(Loop(w)) /\ WF_vars(Start(w))
    /\ \A s \in Streams, e \in Ids : WF_vars(IdleElapses(s, e))

=============================================================================
