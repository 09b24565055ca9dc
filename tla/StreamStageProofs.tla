------------------------- MODULE StreamStageProofs -------------------------
(***************************************************************************)
(* No message is skipped and no retry without a backoff is unpaid, for     *)
(* every number of workers, streams, messages and failures and every batch *)
(* size.                                                                   *)
(***************************************************************************)
EXTENDS StreamStageProps, FiniteSetTheorems, TLAPS

(***************************************************************************)
(* What a process keeps is a record of these fields; of their values only  *)
(* the program counter and the batch matter here.                          *)
(***************************************************************************)
Fields == { "pc", "at", "batch", "cursor", "disabled", "created", "failed" }
Shaped(r) == DOMAIN r = Fields

WorkersShaped ==
    /\ worker = [ w \in Workers |-> worker[w] ]
    /\ \A w \in Workers : Shaped(worker[w])

RedisTyped ==
    /\ entries \in [ Streams -> SUBSET (Nat \ {0}) ]
    /\ group \in [ Streams -> Nat \cup {None} ]
    /\ pel \in [ Streams -> SUBSET Nat ]
    /\ next_id \in Nat \ {0}

\* Ids grow: nothing in a stream and no group is at or past the next one.
IdsBelow ==
    \A s \in Streams : /\ \A e \in entries[s] : e < next_id
                       /\ group[s] # None => group[s] < next_id

\* A worker that is about to acknowledge has an accepted message in hand.
AckIsEarned ==
    \A w \in Workers : worker[w].pc = "ack" => Head(worker[w].batch)[2] \in handled

IndInv ==
    WorkersShaped /\ RedisTyped /\ IdsBelow /\ AckIsEarned /\ NothingSkipped

\* What a step that leaves Redis alone does to the rest of the invariant.
RedisUntouched == UNCHANGED << entries, group, pel, next_id >>

\* A step of w that leaves record r behind.
NewRecord(w, r) == worker' = [ worker EXCEPT ![w] = r ] /\ Shaped(r)

-----------------------------------------------------------------------------
\* A missing group is told from every last delivered id.
LEMMA NoneIsNoNumber == None \notin Nat
  BY ConstantsAssumption

\* The records a step of the loop may leave behind are records again.
LEMMA ShapedRecords ==
    ASSUME NEW w \in Workers, Shaped(worker[w])
    PROVE  /\ Shaped(Down) /\ Down.pc = "down"
           /\ Shaped(TopOfLoop(w)) /\ TopOfLoop(w).pc = "claim"
<1>1. Shaped(Down) /\ Down.pc = "down"
  BY DEF Shaped, Fields, Down
<1>2. Shaped(TopOfLoop(w)) /\ TopOfLoop(w).pc = "claim"
  BY DEF Shaped, Fields, TopOfLoop
<1> QED BY <1>1, <1>2

\* A step that replaces the record of one worker by one that is not about to
\* acknowledge keeps what concerns the workers.
LEMMA WorkerStep ==
    ASSUME WorkersShaped, AckIsEarned, handled \subseteq handled',
           NEW w \in Workers, NEW r, NewRecord(w, r),
           r.pc = "ack" => Head(r.batch)[2] \in handled'
    PROVE  WorkersShaped' /\ AckIsEarned'
  BY DEF WorkersShaped, AckIsEarned, NewRecord

\* A step of the world leaves the workers as they are.
LEMMA WorkerIdle ==
    ASSUME WorkersShaped, AckIsEarned, UNCHANGED << worker, handled >>
    PROVE  WorkersShaped' /\ AckIsEarned'
  BY DEF WorkersShaped, AckIsEarned, Shaped

\* A step that leaves the streams and the group alone skips nothing.
LEMMA RedisIdle ==
    ASSUME RedisTyped, IdsBelow, NothingSkipped, RedisUntouched,
           handled \subseteq handled'
    PROVE  RedisTyped' /\ IdsBelow' /\ NothingSkipped'
  BY DEF RedisTyped, IdsBelow, NothingSkipped, RedisUntouched

\* Making a group, or not, skips nothing: the new one starts before all ids.
LEMMA EnsureSkipsNothing ==
    ASSUME RedisTyped, IdsBelow, NothingSkipped,
           NEW s, NEW outcome, ensure_consumer_group(s, outcome),
           UNCHANGED << entries, pel, next_id, handled >>
    PROVE  RedisTyped' /\ IdsBelow' /\ NothingSkipped'
  BY NoneIsNoNumber
     DEF ensure_consumer_group, xgroup_create, RedisTyped, IdsBelow, NothingSkipped

\* Going on with the claims leaves the worker at no acknowledgement.
LEMMA AfterClaimStep ==
    ASSUME WorkersShaped, AckIsEarned, UNCHANGED handled, NEW w \in Workers,
           NEW got, NEW cursor, NEW disabled, AfterClaim(w, got, cursor, disabled)
    PROVE  WorkersShaped' /\ AckIsEarned'
<1> DEFINE s == worker[w].at
           all == worker[w].batch \o got
           place == CASE s < NumStreams -> "claim"
                      [] s = NumStreams /\ all # << >> -> "process"
                      [] OTHER -> "read"
           step == IF s < NumStreams THEN s + 1 ELSE 1
           r == [ worker[w] EXCEPT !.batch = all, !.cursor[s] = cursor,
                    !.disabled = disabled, !.at = step, !.pc = place ]
<1>1. worker' = [ worker EXCEPT ![w] = r ]
  BY DEF AfterClaim
<1>2. Shaped(worker[w])
  BY DEF WorkersShaped
<1>3. place # "ack"
  OBVIOUS
<1>4. Shaped(r) /\ r.pc = place
  <2> HIDE DEF place, all, s, step
  <2>1. DOMAIN r = DOMAIN worker[w]
    OBVIOUS
  <2>2. "pc" \in DOMAIN worker[w]
    BY <1>2 DEF Shaped, Fields
  <2>3. r.pc = place
    BY <2>2
  <2> QED BY <1>2, <2>1, <2>3 DEF Shaped
<1>5. NewRecord(w, r)
  BY <1>1, <1>4 DEF NewRecord
<1> HIDE DEF r
<1> QED BY <1>3, <1>4, <1>5, WorkerStep

\* Neither does going on to the next message of the batch,
LEMMA NextMessageStep ==
    ASSUME WorkersShaped, AckIsEarned, UNCHANGED handled, NEW w \in Workers,
           NextMessage(w)
    PROVE  WorkersShaped' /\ AckIsEarned'
<1> DEFINE rest == Tail(worker[w].batch)
           go == [ worker[w] EXCEPT !.pc = "process", !.batch = rest ]
           r == IF rest = << >> THEN TopOfLoop(w) ELSE go
<1>1. worker' = [ worker EXCEPT ![w] = r ]
  BY DEF NextMessage
<1>2. Shaped(worker[w])
  BY DEF WorkersShaped
<1>3. Shaped(go) /\ go.pc = "process"
  BY <1>2 DEF Shaped, Fields
<1>4. Shaped(r) /\ r.pc # "ack"
  <2> HIDE DEF go
  <2> QED BY <1>2, <1>3, ShapedRecords
<1>5. NewRecord(w, r)
  BY <1>1, <1>4 DEF NewRecord
<1> HIDE DEF r
<1> QED BY <1>4, <1>5, WorkerStep

\* nor the end of the process.
LEMMA DiesStep ==
    ASSUME WorkersShaped, AckIsEarned, UNCHANGED handled, NEW w \in Workers, Dies(w)
    PROVE  WorkersShaped' /\ AckIsEarned'
<1>1. Shaped(Down) /\ Down.pc # "ack"
  BY ShapedRecords DEF WorkersShaped
<1> QED BY <1>1, WorkerStep DEF Dies, NewRecord

\* A step that only moves the program counter, to an acknowledgement only when
\* the message in hand was accepted.
LEMMA PcStep ==
    ASSUME WorkersShaped, AckIsEarned, handled \subseteq handled', NEW w \in Workers,
           NEW place, worker' = [ worker EXCEPT ![w].pc = place ],
           place = "ack" => Head(worker[w].batch)[2] \in handled'
    PROVE  WorkersShaped' /\ AckIsEarned'
<1> DEFINE r == [ worker[w] EXCEPT !.pc = place ]
<1>1. Shaped(worker[w])
  BY DEF WorkersShaped
<1>2. Shaped(r) /\ r.pc = place /\ r.batch = worker[w].batch
  BY <1>1 DEF Shaped, Fields
<1>3. NewRecord(w, r)
  BY <1>2 DEF NewRecord
<1> HIDE DEF r
<1> QED BY <1>2, <1>3, WorkerStep

-----------------------------------------------------------------------------
\* The steps of a worker that leave the streams and the group alone.
LEMMA QuietStep ==
    ASSUME IndInv, NEW w \in Workers,
           \/ Start(w) \/ ClaimDisabled(w) \/ ClaimMissing(w) \/ ClaimPending(w)
           \/ ReadVanished(w) \/ HandleAccepts(w) \/ Failure(w)
    PROVE  IndInv'
<1>0. WorkersShaped /\ RedisTyped /\ IdsBelow /\ AckIsEarned /\ NothingSkipped
  BY DEF IndInv
<1>1. Shaped(worker[w])
  BY <1>0 DEF WorkersShaped
<1>2. RedisUntouched /\ handled \subseteq handled'
  BY DEF Start, ClaimDisabled, ClaimMissing, ClaimPending, ReadVanished, HandleAccepts,
         Failure, Stop, ClaimFails, ReadFails, HandleRefuses, HandleRaises, AckFails,
         Crash, redis, history, RedisUntouched
<1>3. RedisTyped' /\ IdsBelow' /\ NothingSkipped'
  BY <1>0, <1>2, RedisIdle
<1>4. WorkersShaped' /\ AckIsEarned'
  <2>1. CASE Start(w)
    <3> DEFINE r == [ Down EXCEPT !.pc = "ensure" ]
    <3>1. Shaped(r) /\ r.pc = "ensure"
      BY DEF Shaped, Fields, Down
    <3>2. NewRecord(w, r)
      BY <2>1, <3>1 DEF Start, NewRecord
    <3> HIDE DEF r
    <3> QED BY <1>0, <1>2, <3>1, <3>2, WorkerStep
  <2>2. CASE ClaimDisabled(w)
    BY <1>0, <2>2, AfterClaimStep DEF ClaimDisabled, history
  <2>3. CASE ClaimMissing(w)
    BY <1>0, <1>2, <2>3, PcStep DEF ClaimMissing
  <2>4. CASE ClaimPending(w)
    BY <1>0, <2>4, AfterClaimStep DEF ClaimPending, history
  <2>5. CASE ReadVanished(w)
    <3> DEFINE r == [ worker[w] EXCEPT !.pc = "sweep", !.at = 1, !.created = FALSE,
                                       !.failed = FALSE ]
    <3>1. Shaped(r) /\ r.pc = "sweep"
      BY <1>1 DEF Shaped, Fields
    <3>2. NewRecord(w, r)
      BY <2>5, <3>1 DEF ReadVanished, NewRecord
    <3> HIDE DEF r
    <3> QED BY <1>0, <1>2, <3>1, <3>2, WorkerStep
  <2>6. CASE HandleAccepts(w)
    BY <1>0, <1>2, <2>6, PcStep DEF HandleAccepts, Current
  <2>7. CASE Failure(w)
    <3>1. CASE ClaimFails(w)
      BY <1>0, <3>1, AfterClaimStep DEF ClaimFails, history
    <3>2. CASE ReadFails(w)
      <4>1. NewRecord(w, TopOfLoop(w))
        BY <1>1, <3>2, ShapedRecords DEF ReadFails, NewRecord
      <4> QED BY <1>0, <1>1, <1>2, <4>1, ShapedRecords, WorkerStep
    <3>3. CASE HandleRefuses(w)
      BY <1>0, <3>3, NextMessageStep DEF HandleRefuses, history
    <3>4. CASE Stop(w) \/ HandleRaises(w) \/ AckFails(w) \/ Crash(w)
      BY <1>0, <3>4, DiesStep DEF Stop, HandleRaises, AckFails, Crash, history
    <3> QED BY <2>7, <3>1, <3>2, <3>3, <3>4 DEF Failure
  <2> QED BY <2>1, <2>2, <2>3, <2>4, <2>5, <2>6, <2>7
<1> QED BY <1>3, <1>4 DEF IndInv

\* The steps that may make a group.
LEMMA EnsureStep ==
    ASSUME IndInv, NEW w \in Workers, EnsureGroups(w) \/ ClaimRecovers(w) \/ Sweep(w)
    PROVE  IndInv'
<1>0. WorkersShaped /\ RedisTyped /\ IdsBelow /\ AckIsEarned /\ NothingSkipped
  BY DEF IndInv
<1>1. Shaped(worker[w])
  BY <1>0 DEF WorkersShaped
<1> DEFINE s == worker[w].at
<1>2. UNCHANGED << entries, pel, next_id, handled >>
  BY DEF EnsureGroups, ClaimRecovers, Sweep, history
<1>3. PICK outcome : ensure_consumer_group(s, outcome)
  BY DEF EnsureGroups, ClaimRecovers, Sweep
<1>4. RedisTyped' /\ IdsBelow' /\ NothingSkipped'
  BY <1>0, <1>2, <1>3, EnsureSkipsNothing
<1>5. CASE EnsureGroups(w)
  <2> DEFINE go == [ worker[w] EXCEPT !.at = s + 1 ]
             r == IF s < NumStreams THEN go ELSE TopOfLoop(w)
  <2>1. worker' = [ worker EXCEPT ![w] = r ] /\ worker[w].pc = "ensure"
    BY <1>5 DEF EnsureGroups, At
  <2>2. Shaped(go) /\ go.pc = worker[w].pc
    BY <1>1 DEF Shaped, Fields
  <2>3. Shaped(r) /\ r.pc # "ack"
    <3> HIDE DEF go
    <3> QED BY <1>1, <2>1, <2>2, ShapedRecords
  <2>4. NewRecord(w, r)
    BY <2>1, <2>3 DEF NewRecord
  <2> HIDE DEF r
  <2>5. WorkersShaped' /\ AckIsEarned'
    BY <1>0, <1>2, <2>3, <2>4, WorkerStep
  <2> QED BY <1>4, <2>5 DEF IndInv
<1>6. CASE ClaimRecovers(w)
  <2>1. WorkersShaped' /\ AckIsEarned'
    BY <1>0, <1>2, <1>6, AfterClaimStep DEF ClaimRecovers
  <2> QED BY <1>4, <2>1 DEF IndInv
<1>7. CASE Sweep(w)
  <2>1. PICK c, f : worker' = [ worker EXCEPT ![w] =
               IF s = NumStreams
                 THEN [ TopOfLoop(w) EXCEPT !.created = FALSE, !.failed = FALSE ]
                 ELSE [ worker[w] EXCEPT !.at = s + 1, !.created = c, !.failed = f ] ]
    BY <1>7 DEF Sweep
  <2> DEFINE top == [ TopOfLoop(w) EXCEPT !.created = FALSE, !.failed = FALSE ]
             go == [ worker[w] EXCEPT !.at = s + 1, !.created = c, !.failed = f ]
             r == IF s = NumStreams THEN top ELSE go
  <2>2. Shaped(go) /\ go.pc = "sweep"
    BY <1>1, <1>7 DEF Shaped, Fields, Sweep, At
  <2>3. Shaped(top) /\ top.pc = "claim"
    BY <1>1, ShapedRecords DEF Shaped, Fields
  <2>4. worker' = [ worker EXCEPT ![w] = r ]
    BY <2>1
  <2>5. Shaped(r) /\ r.pc # "ack"
    <3> HIDE DEF go, top
    <3> QED BY <2>2, <2>3
  <2>6. NewRecord(w, r)
    BY <2>4, <2>5 DEF NewRecord
  <2> HIDE DEF r
  <2>7. WorkersShaped' /\ AckIsEarned'
    BY <1>0, <1>2, <2>5, <2>6, WorkerStep
  <2> QED BY <1>4, <2>7 DEF IndInv
<1> QED BY <1>5, <1>6, <1>7

\* A read hands every message it passes to the pending entries.
LEMMA ReadSkipsNothing ==
    ASSUME IndInv, NEW w \in Workers, Read(w)
    PROVE  IndInv'
<1>0. WorkersShaped /\ RedisTyped /\ IdsBelow /\ AckIsEarned /\ NothingSkipped
  BY DEF IndInv
<1>1. Shaped(worker[w])
  BY <1>0 DEF WorkersShaped
<1>2. PICK upTo, batch :
        /\ upTo \in [ Streams -> 0 .. MaxEntries ]
        /\ \A s \in Streams : ReadUpTo(s, upTo[s])
        /\ group' = upTo
        /\ pel' = [ s \in Streams |->
                      pel[s] \cup { e \in Undelivered(s) : e <= upTo[s] } ]
        /\ worker' = [ worker EXCEPT ![w] =
             IF batch = << >>
               THEN TopOfLoop(w)
               ELSE [ worker[w] EXCEPT !.pc = "process", !.batch = batch ] ]
  BY DEF Read
<1>3. UNCHANGED << entries, next_id, handled >> /\ \A s \in Streams : group[s] # None
  BY DEF Read, history
<1>4. RedisTyped'
  BY <1>0, <1>2, <1>3, ConstantsAssumption DEF RedisTyped, Undelivered
<1>5. ASSUME NEW s \in Streams
      PROVE  upTo[s] \in entries[s] \/ upTo[s] = group[s]
  BY <1>2 DEF ReadUpTo, Undelivered
<1>6. IdsBelow'
  BY <1>0, <1>2, <1>3, <1>5 DEF IdsBelow
<1>7. NothingSkipped'
  <2> SUFFICES ASSUME NEW s \in Streams, NEW e \in entries[s], ~ (e > upTo[s]),
                      e \notin handled
               PROVE  e \in pel'[s]
    BY <1>2, <1>3 DEF NothingSkipped
  <2>1. e > group[s] \/ e \in pel[s]
    BY <1>0, <1>3 DEF NothingSkipped
  <2>2. e \in Nat /\ upTo[s] \in Nat
    BY <1>0, <1>2, ConstantsAssumption DEF RedisTyped
  <2>3. e <= upTo[s]
    BY <2>2
  <2>4. pel'[s] = pel[s] \cup { x \in Undelivered(s) : x <= upTo[s] }
    BY <1>2
  <2> QED BY <2>1, <2>3, <2>4 DEF Undelivered
<1>8. WorkersShaped' /\ AckIsEarned'
  <2> DEFINE go == [ worker[w] EXCEPT !.pc = "process", !.batch = batch ]
             r == IF batch = << >> THEN TopOfLoop(w) ELSE go
  <2>1. Shaped(go) /\ go.pc = "process"
    BY <1>1 DEF Shaped, Fields
  <2>2. worker' = [ worker EXCEPT ![w] = r ]
    BY <1>2
  <2>3. Shaped(r) /\ r.pc # "ack"
    <3> HIDE DEF go
    <3> QED BY <1>1, <2>1, ShapedRecords
  <2>4. NewRecord(w, r)
    BY <2>2, <2>3 DEF NewRecord
  <2> HIDE DEF r
  <2> QED BY <1>0, <1>3, <2>3, <2>4, WorkerStep
<1> QED BY <1>4, <1>6, <1>7, <1>8 DEF IndInv

\* An acknowledgement takes a message out of the pending entries that was
\* accepted.
LEMMA AckSkipsNothing ==
    ASSUME IndInv, NEW w \in Workers, xack(w)
    PROVE  IndInv'
<1>0. WorkersShaped /\ RedisTyped /\ IdsBelow /\ AckIsEarned /\ NothingSkipped
  BY DEF IndInv
<1>1. UNCHANGED << entries, group, next_id, handled >>
  BY DEF xack, history
<1> DEFINE m == Head(worker[w].batch)
<1>2. pel' = [ pel EXCEPT ![m[1]] = @ \ {m[2]} ] /\ m[2] \in handled
  BY <1>0 DEF xack, Current, AckIsEarned, At
<1> HIDE DEF m
<1>3. ASSUME NEW s \in Streams
      PROVE  /\ pel'[s] \subseteq pel[s]
             /\ \A e \in pel[s] : e \in pel'[s] \/ e \in handled
  BY <1>0, <1>2 DEF RedisTyped
<1>4. RedisTyped'
  BY <1>0, <1>1, <1>2, <1>3 DEF RedisTyped
<1>5. IdsBelow' /\ NothingSkipped'
  BY <1>0, <1>1, <1>3 DEF IdsBelow, NothingSkipped
<1>6. WorkersShaped' /\ AckIsEarned'
  BY <1>0, <1>1, NextMessageStep DEF xack
<1> QED BY <1>4, <1>5, <1>6 DEF IndInv

\* A new message is past every group; with a key, or a group, go its claims.
LEMMA WorldSkipsNothing ==
    ASSUME IndInv, NEW s \in Streams,
           \/ publish(s)
           \/ \E kept \in { {}, entries[s] } : Vanish(s, kept)
           \/ \E e \in pel[s] : IdleElapses(s, e)
    PROVE  IndInv'
<1>0. WorkersShaped /\ RedisTyped /\ IdsBelow /\ AckIsEarned /\ NothingSkipped
  BY DEF IndInv
<1>1. UNCHANGED << worker, handled >>
  BY DEF publish, Vanish, IdleElapses, history
<1>2. WorkersShaped' /\ AckIsEarned'
  BY <1>0, <1>1, WorkerIdle
<1>3. CASE publish(s)
  <2>1. /\ entries' = [ entries EXCEPT ![s] = entries[s] \cup {next_id} ]
        /\ next_id' = next_id + 1 /\ UNCHANGED << group, pel >>
    BY <1>3 DEF publish
  <2>2. RedisTyped'
    BY <1>0, <2>1 DEF RedisTyped
  <2>3. IdsBelow' /\ NothingSkipped'
    <3>1. ASSUME NEW q \in Streams, NEW e \in entries'[q]
          PROVE  e \in entries[q] \/ e = next_id
      BY <1>0, <2>1 DEF RedisTyped
    <3>2. next_id \in Nat /\ \A q \in Streams : group[q] # None => group[q] \in Nat
      BY <1>0 DEF RedisTyped
    <3>3. \A q \in Streams : entries[q] \subseteq Nat
      BY <1>0 DEF RedisTyped
    <3>4. IdsBelow'
      BY <1>0, <2>1, <3>1, <3>2, <3>3 DEF IdsBelow
    <3>5. NothingSkipped'
      BY <1>0, <1>1, <2>1, <3>1, <3>2 DEF IdsBelow, NothingSkipped
    <3> QED BY <3>4, <3>5
  <2> QED BY <1>2, <2>2, <2>3 DEF IndInv
<1>4. CASE \E kept \in { {}, entries[s] } : Vanish(s, kept)
  <2>1. PICK kept \in { {}, entries[s] } :
          /\ entries' = [ entries EXCEPT ![s] = kept ]
          /\ group' = [ group EXCEPT ![s] = None ]
          /\ pel' = [ pel EXCEPT ![s] = {} ] /\ UNCHANGED next_id
    BY <1>4 DEF Vanish
  <2>2. RedisTyped' /\ IdsBelow' /\ NothingSkipped'
    BY <1>0, <1>1, <2>1 DEF RedisTyped, IdsBelow, NothingSkipped
  <2> QED BY <1>2, <2>2 DEF IndInv
<1>5. CASE \E e \in pel[s] : IdleElapses(s, e)
  <2>1. RedisUntouched
    BY <1>5 DEF IdleElapses, RedisUntouched
  <2>2. RedisTyped' /\ IdsBelow' /\ NothingSkipped'
    BY <1>0, <1>1, <2>1, RedisIdle
  <2> QED BY <1>2, <2>2 DEF IndInv
<1> QED BY <1>3, <1>4, <1>5

-----------------------------------------------------------------------------
\* The invariant holds at the start.
LEMMA InitIndInv == Init => IndInv
<1> SUFFICES ASSUME Init PROVE IndInv
  OBVIOUS
<1>1. WorkersShaped
  BY DEF Init, WorkersShaped, Shaped, Fields, Down
<1>2. RedisTyped /\ IdsBelow /\ NothingSkipped
  BY DEF Init, RedisTyped, IdsBelow, NothingSkipped
<1>3. AckIsEarned
  BY DEF Init, AckIsEarned, Down
<1> QED BY <1>1, <1>2, <1>3 DEF IndInv

\* Every step of a worker and of the world around it keeps it.
LEMMA NextIndInv == IndInv /\ [Next]_vars => IndInv'
<1> SUFFICES ASSUME IndInv, [Next]_vars PROVE IndInv'
  OBVIOUS
<1>1. CASE \E w \in Workers : Start(w) \/ Loop(w) \/ Failure(w)
  <2>1. PICK w \in Workers : Start(w) \/ Loop(w) \/ Failure(w)
    BY <1>1
  <2> QED BY <2>1, QuietStep, EnsureStep, ReadSkipsNothing, AckSkipsNothing DEF Loop
<1>2. CASE \E s \in Streams :
             \/ publish(s)
             \/ \E kept \in { {}, entries[s] } : Vanish(s, kept)
             \/ \E e \in pel[s] : IdleElapses(s, e)
  BY <1>2, WorldSkipsNothing
<1>3. CASE UNCHANGED vars
  BY <1>3 DEF vars, redis, history, IndInv, WorkersShaped, Shaped, RedisTyped,
              IdsBelow, AckIsEarned, NothingSkipped
<1> QED BY <1>1, <1>2, <1>3 DEF Next

\* stage.py MultiStreamStage.run: whatever the number of workers and streams, the
\* batch size and the failures, no message of a stream is passed over: with the
\* group there it is still to be delivered, is pending, or was accepted.
THEOREM NoMessageSkipped == Spec => []NothingSkipped
<1>1. IndInv => NothingSkipped
  BY DEF IndInv
<1> QED BY InitIndInv, NextIndInv, <1>1, PTL DEF Spec

-----------------------------------------------------------------------------
(***************************************************************************)
(* Retries are paid.  The account: what went missing covers the retries,   *)
(* the workers whose sweep has made a group and the groups that are        *)
(* missing now, but for the streams U that no worker has come to yet.      *)
(***************************************************************************)
Placed == \A w \in Workers : worker[w].at \in Streams /\ worker[w].created \in BOOLEAN

Missing == { s \in Streams : group[s] = None }
Sweepers == { w \in Workers : worker[w].pc = "sweep" /\ worker[w].created }

\* Nobody has come to the streams of U: no worker is up, or past them in run().
Awaited(U) ==
    /\ U \subseteq Missing
    /\ \A s \in U, w \in Workers :
          worker[w].pc = "down" \/ (worker[w].pc = "ensure" /\ worker[w].at <= s)

Covered(U) == retries + Cardinality(Sweepers) + Cardinality(Missing \ U) <= gone

PaidInv ==
    /\ Placed /\ retries \in Nat /\ gone \in Nat
    /\ \E U \in SUBSET Streams : Awaited(U) /\ Covered(U)

\* A step of w that leaves record r behind, with the loop at one of the streams.
MovesTo(w, r) == NewRecord(w, r) /\ r.at \in Streams /\ r.created \in BOOLEAN

\* The sets of the account are finite.
LEMMA AccountsFinite ==
    /\ IsFiniteSet(Sweepers) /\ Cardinality(Sweepers) \in Nat
    /\ IsFiniteSet(Missing)
    /\ \A U : IsFiniteSet(Missing \ U) /\ Cardinality(Missing \ U) \in Nat
<1>1. IsFiniteSet(Workers) /\ IsFiniteSet(Streams)
  BY ConstantsAssumption, FS_Interval DEF Streams
<1>2. IsFiniteSet(Sweepers) /\ IsFiniteSet(Missing)
  BY <1>1, FS_Subset DEF Sweepers, Missing
<1>3. \A U : IsFiniteSet(Missing \ U)
  BY <1>2, FS_Difference
<1> QED BY <1>2, <1>3, FS_CardinalityType

\* The loop is at one of the streams after every move.
LEMMA PlacedStep ==
    ASSUME WorkersShaped, Placed, NEW w \in Workers, NEW r, MovesTo(w, r)
    PROVE  /\ Placed' /\ worker'[w] = r
           /\ \A v \in Workers \ {w} : worker'[v] = worker[v]
<1>1. worker'[w] = r /\ \A v \in Workers \ {w} : worker'[v] = worker[v]
  BY DEF MovesTo, NewRecord, WorkersShaped
<1> QED BY <1>1 DEF MovesTo, Placed

\* The records at the ends of the loop.
LEMMA PlacedRecords ==
    ASSUME WorkersShaped, Placed, NEW w \in Workers
    PROVE  /\ Down.at = 1 /\ Down.created = FALSE /\ 1 \in Streams
           /\ TopOfLoop(w).at = 1 /\ TopOfLoop(w).created = worker[w].created
<1>1. Shaped(worker[w])
  BY DEF WorkersShaped
<1> QED BY <1>1, ConstantsAssumption DEF Down, TopOfLoop, Streams, Shaped, Fields

\* Going on with the claims.
LEMMA AfterClaimMoves ==
    ASSUME WorkersShaped, Placed, NEW w \in Workers,
           NEW got, NEW cursor, NEW disabled, AfterClaim(w, got, cursor, disabled)
    PROVE  \E r : MovesTo(w, r) /\ r.pc \in { "claim", "process", "read" }
<1> DEFINE s == worker[w].at
           all == worker[w].batch \o got
           place == CASE s < NumStreams -> "claim"
                      [] s = NumStreams /\ all # << >> -> "process"
                      [] OTHER -> "read"
           step == IF s < NumStreams THEN s + 1 ELSE 1
           r == [ worker[w] EXCEPT !.batch = all, !.cursor[s] = cursor,
                    !.disabled = disabled, !.at = step, !.pc = place ]
<1>1. worker' = [ worker EXCEPT ![w] = r ]
  BY DEF AfterClaim
<1>2. Shaped(worker[w]) /\ s \in Streams /\ worker[w].created \in BOOLEAN
  BY DEF WorkersShaped, Placed
<1>3. place \in { "claim", "process", "read" }
  OBVIOUS
<1>4. step \in Streams
  BY <1>2, ConstantsAssumption DEF Streams
<1>5. /\ Shaped(r) /\ r.pc = place /\ r.at = step /\ r.created = worker[w].created
  <2> HIDE DEF place, all, s, step
  <2>1. DOMAIN r = DOMAIN worker[w]
    OBVIOUS
  <2>2. "pc" \in DOMAIN worker[w] /\ "at" \in DOMAIN worker[w]
    BY <1>2 DEF Shaped, Fields
  <2>3. r.pc = place /\ r.at = step /\ r.created = worker[w].created
    BY <2>2
  <2> QED BY <1>2, <2>1, <2>3 DEF Shaped
<1> HIDE DEF r, place, step
<1>6. MovesTo(w, r)
  BY <1>1, <1>2, <1>4, <1>5 DEF MovesTo, NewRecord
<1> QED BY <1>3, <1>5, <1>6

\* Going on to the next message.
LEMMA NextMessageMoves ==
    ASSUME WorkersShaped, Placed, NEW w \in Workers, NextMessage(w)
    PROVE  \E r : MovesTo(w, r) /\ r.pc \in { "claim", "process" }
<1> DEFINE rest == Tail(worker[w].batch)
           go == [ worker[w] EXCEPT !.pc = "process", !.batch = rest ]
           r == IF rest = << >> THEN TopOfLoop(w) ELSE go
<1>1. worker' = [ worker EXCEPT ![w] = r ]
  BY DEF NextMessage
<1>2. Shaped(worker[w]) /\ worker[w].at \in Streams /\ worker[w].created \in BOOLEAN
  BY DEF WorkersShaped, Placed
<1>3. /\ Shaped(go) /\ go.pc = "process" /\ go.at = worker[w].at
      /\ go.created = worker[w].created
  BY <1>2 DEF Shaped, Fields
<1>4. Shaped(r) /\ r.pc \in { "claim", "process" } /\ r.at \in Streams /\ r.created \in BOOLEAN
  <2> HIDE DEF go
  <2> QED BY <1>2, <1>3, ShapedRecords, PlacedRecords
<1> HIDE DEF r
<1>5. MovesTo(w, r)
  BY <1>1, <1>4 DEF MovesTo, NewRecord
<1> QED BY <1>4, <1>5

\* A step of a worker that makes no group opens no new debt.
QuietMove(w, r) ==
    /\ MovesTo(w, r)
    /\ \/ r.pc = "down"
       \/ r.pc = "ensure" /\ r.at = 1 /\ worker[w].pc = "down"
       \/ /\ worker[w].pc \notin { "down", "ensure" }
          /\ r.pc = "sweep" => r.created = FALSE

\* Which record such a step leaves.
LEMMA QuietMoves ==
    ASSUME WorkersShaped, Placed, NEW w \in Workers,
           \/ Start(w) \/ ClaimDisabled(w) \/ ClaimMissing(w) \/ ClaimPending(w) \/ Read(w)
           \/ ReadVanished(w) \/ HandleAccepts(w) \/ xack(w) \/ Failure(w)
    PROVE  \E r : QuietMove(w, r)
<1>1. Shaped(worker[w]) /\ worker[w].at \in Streams /\ worker[w].created \in BOOLEAN
  BY DEF WorkersShaped, Placed
<1>2. /\ Shaped(Down) /\ Down.pc = "down" /\ Down.at = 1 /\ Down.created = FALSE
      /\ 1 \in Streams
      /\ Shaped(TopOfLoop(w)) /\ TopOfLoop(w).pc = "claim" /\ TopOfLoop(w).at = 1
      /\ TopOfLoop(w).created \in BOOLEAN
  BY <1>1, ShapedRecords, PlacedRecords
<1>3. ASSUME Dies(w)
      PROVE  QuietMove(w, Down)
  BY <1>2, <1>3 DEF Dies, QuietMove, MovesTo, NewRecord
<1>4. ASSUME worker' = [ worker EXCEPT ![w] = TopOfLoop(w) ],
             worker[w].pc \notin { "down", "ensure" }
      PROVE  QuietMove(w, TopOfLoop(w))
  BY <1>2, <1>4 DEF QuietMove, MovesTo, NewRecord
<1>5. ASSUME NEW place, worker' = [ worker EXCEPT ![w].pc = place ], place # "sweep",
             worker[w].pc \notin { "down", "ensure" }
      PROVE  \E r : QuietMove(w, r)
  <2> DEFINE r == [ worker[w] EXCEPT !.pc = place ]
  <2>1. Shaped(r) /\ r.pc = place /\ r.at = worker[w].at /\ r.created = worker[w].created
    BY <1>1 DEF Shaped, Fields
  <2>2. worker' = [ worker EXCEPT ![w] = r ]
    BY <1>5
  <2> HIDE DEF r
  <2> QED BY <1>1, <1>5, <2>1, <2>2 DEF QuietMove, MovesTo, NewRecord
<1>6. ASSUME NEW r, MovesTo(w, r), r.pc # "sweep", worker[w].pc \notin { "down", "ensure" }
      PROVE  \E q : QuietMove(w, q)
  BY <1>6 DEF QuietMove
<1>7. CASE Start(w)
  <2> DEFINE r == [ Down EXCEPT !.pc = "ensure" ]
  <2>1. Shaped(r) /\ r.pc = "ensure" /\ r.at = 1 /\ r.created = FALSE
    BY DEF Shaped, Fields, Down
  <2>2. worker' = [ worker EXCEPT ![w] = r ] /\ worker[w].pc = "down"
    BY <1>7 DEF Start, At
  <2> HIDE DEF r
  <2> QED BY <1>2, <2>1, <2>2 DEF QuietMove, MovesTo, NewRecord
<1>8. CASE ClaimDisabled(w) \/ ClaimPending(w) \/ ClaimFails(w)
  <2>1. \E r : MovesTo(w, r) /\ r.pc \in { "claim", "process", "read" }
    BY <1>8, AfterClaimMoves DEF ClaimDisabled, ClaimPending, ClaimFails
  <2>2. worker[w].pc = "claim"
    BY <1>8 DEF ClaimDisabled, ClaimPending, ClaimFails, At
  <2> QED BY <1>6, <2>1, <2>2
<1>9. CASE ClaimMissing(w)
  <2>1. worker' = [ worker EXCEPT ![w].pc = "recover" ] /\ worker[w].pc = "claim"
    BY <1>9 DEF ClaimMissing, At
  <2> QED BY <1>5, <2>1
<1>10. CASE Read(w)
  <2>1. PICK batch :
          worker' = [ worker EXCEPT ![w] =
             IF batch = << >>
               THEN TopOfLoop(w)
               ELSE [ worker[w] EXCEPT !.pc = "process", !.batch = batch ] ]
    BY <1>10 DEF Read
  <2>2. worker[w].pc = "read"
    BY <1>10 DEF Read, At
  <2>3. CASE batch = << >>
    BY <1>4, <2>1, <2>2, <2>3
  <2>4. CASE batch # << >>
    <3> DEFINE r == [ worker[w] EXCEPT !.pc = "process", !.batch = batch ]
    <3>1. /\ Shaped(r) /\ r.pc = "process" /\ r.at = worker[w].at
          /\ r.created = worker[w].created
      BY <1>1 DEF Shaped, Fields
    <3>2. worker' = [ worker EXCEPT ![w] = r ]
      BY <2>1, <2>4
    <3> HIDE DEF r
    <3>3. MovesTo(w, r)
      BY <1>1, <3>1, <3>2 DEF MovesTo, NewRecord
    <3> QED BY <1>6, <2>2, <3>1, <3>3
  <2> QED BY <2>3, <2>4
<1>11. CASE ReadVanished(w)
  <2> DEFINE r == [ worker[w] EXCEPT !.pc = "sweep", !.at = 1, !.created = FALSE,
                                     !.failed = FALSE ]
  <2>1. Shaped(r) /\ r.pc = "sweep" /\ r.at = 1 /\ r.created = FALSE
    BY <1>1 DEF Shaped, Fields
  <2>2. worker' = [ worker EXCEPT ![w] = r ] /\ worker[w].pc = "read"
    BY <1>11 DEF ReadVanished, At
  <2> HIDE DEF r
  <2> QED BY <1>2, <2>1, <2>2 DEF QuietMove, MovesTo, NewRecord
<1>12. CASE HandleAccepts(w)
  <2>1. worker' = [ worker EXCEPT ![w].pc = "ack" ] /\ worker[w].pc = "process"
    BY <1>12 DEF HandleAccepts, At
  <2> QED BY <1>5, <2>1
<1>13. CASE xack(w) \/ HandleRefuses(w)
  <2>1. \E r : MovesTo(w, r) /\ r.pc \in { "claim", "process" }
    BY <1>13, NextMessageMoves DEF xack, HandleRefuses
  <2>2. worker[w].pc \in { "ack", "process" }
    BY <1>13 DEF xack, HandleRefuses, At
  <2> QED BY <1>6, <2>1, <2>2
<1>14. CASE ReadFails(w)
  <2>1. worker' = [ worker EXCEPT ![w] = TopOfLoop(w) ] /\ worker[w].pc = "read"
    BY <1>14 DEF ReadFails, At
  <2> QED BY <1>4, <2>1
<1>15. CASE Stop(w) \/ HandleRaises(w) \/ AckFails(w) \/ Crash(w)
  BY <1>3, <1>15 DEF Stop, HandleRaises, AckFails, Crash
<1> QED BY <1>7, <1>8, <1>9, <1>10, <1>11, <1>12, <1>13, <1>14, <1>15 DEF Failure

\* The account after a step that makes no group and loses none.
LEMMA QuietAccount ==
    ASSUME WorkersShaped, PaidInv, Missing' = Missing, UNCHANGED << gone, retries >>,
           NEW w \in Workers, NEW r, QuietMove(w, r)
    PROVE  PaidInv'
<1>1. Placed /\ retries \in Nat /\ gone \in Nat /\ MovesTo(w, r)
  BY DEF PaidInv, QuietMove
<1>2. Placed' /\ worker'[w] = r /\ \A v \in Workers \ {w} : worker'[v] = worker[v]
  BY <1>1, PlacedStep
<1>3. PICK U \in SUBSET Streams : Awaited(U) /\ Covered(U)
  BY DEF PaidInv
<1>4. Sweepers' \subseteq Sweepers
  BY <1>2 DEF Sweepers, QuietMove
<1>5. Cardinality(Sweepers') <= Cardinality(Sweepers)
  BY <1>4, AccountsFinite, FS_Subset
<1>6. Cardinality(Sweepers') \in Nat
  <2>1. IsFiniteSet(Sweepers')
    BY <1>4, AccountsFinite, FS_Subset
  <2> QED BY <2>1, FS_CardinalityType
<1>7. Covered(U)'
  <2>1. retries + Cardinality(Sweepers') + Cardinality(Missing \ U) <= gone
    <3>1. Cardinality(Sweepers) \in Nat /\ Cardinality(Missing \ U) \in Nat
      BY AccountsFinite
    <3>2. retries + Cardinality(Sweepers) + Cardinality(Missing \ U) <= gone
      BY <1>3 DEF Covered
    <3> QED BY <1>1, <1>5, <1>6, <3>1, <3>2
  <2> QED BY <2>1 DEF Covered
<1>8. Awaited(U)'
  <2>1. \A s \in U : s \in Nat /\ 1 <= s
    BY ConstantsAssumption DEF Streams
  <2>2. \A s \in U : worker'[w].pc = "down" \/ (worker'[w].pc = "ensure" /\ worker'[w].at <= s)
    BY <1>2, <1>3, <2>1 DEF QuietMove, Awaited
  <2> QED BY <1>2, <1>3, <2>2 DEF Awaited
<1> QED BY <1>1, <1>2, <1>3, <1>7, <1>8 DEF PaidInv

\* What making a group, or not, does to the groups that are missing.
LEMMA EnsureAccount ==
    ASSUME RedisTyped, NEW s \in Streams, NEW outcome, ensure_consumer_group(s, outcome)
    PROVE  /\ outcome = "CREATED" => s \in Missing /\ Missing' = Missing \ {s}
           /\ outcome = "EXISTED" => s \notin Missing /\ Missing' = Missing
           /\ outcome = "FAILED" => Missing' = Missing
           /\ outcome \in { "CREATED", "EXISTED", "FAILED" }
<1>1. group \in [ Streams -> Nat \cup {None} ] /\ None # 0
  BY NoneIsNoNumber DEF RedisTyped
<1> QED BY <1>1 DEF ensure_consumer_group, xgroup_create, Missing

\* Start-up makes the groups: a stream it comes to is no longer waited for, and
\* one it fails to make counts as gone.
LEMMA StartAccount ==
    ASSUME WorkersShaped, RedisTyped, PaidInv, NEW w \in Workers, EnsureGroups(w)
    PROVE  PaidInv'
<1> DEFINE s == worker[w].at
           go == [ worker[w] EXCEPT !.at = s + 1 ]
           r == IF s < NumStreams THEN go ELSE TopOfLoop(w)
<1>1. /\ Placed /\ retries \in Nat /\ gone \in Nat /\ s \in Streams
      /\ Shaped(worker[w]) /\ worker[w].created \in BOOLEAN /\ worker[w].pc = "ensure"
  BY DEF PaidInv, Placed, WorkersShaped, EnsureGroups, At
<1>2. PICK outcome : /\ ensure_consumer_group(s, outcome)
                     /\ gone' = IF outcome = "FAILED" THEN gone + 1 ELSE gone
  BY DEF EnsureGroups
<1>3. retries' = retries /\ worker' = [ worker EXCEPT ![w] = r ]
  BY DEF EnsureGroups
<1>4. /\ Shaped(r) /\ r.at \in Streams /\ r.created \in BOOLEAN /\ r.pc # "sweep"
      /\ s < NumStreams => r.pc = "ensure" /\ r.at = s + 1
  <2>1. Shaped(go) /\ go.pc = "ensure" /\ go.at = s + 1 /\ go.created = worker[w].created
    BY <1>1 DEF Shaped, Fields
  <2>2. s < NumStreams => s + 1 \in Streams
    BY <1>1, ConstantsAssumption DEF Streams
  <2> HIDE DEF go, s
  <2> QED BY <1>1, <2>1, <2>2, ShapedRecords, PlacedRecords
<1> HIDE DEF r
<1>5. MovesTo(w, r)
  BY <1>3, <1>4 DEF MovesTo, NewRecord
<1>6. Placed' /\ worker'[w] = r /\ \A v \in Workers \ {w} : worker'[v] = worker[v]
  BY <1>1, <1>5, PlacedStep
<1>7. PICK U \in SUBSET Streams : Awaited(U) /\ Covered(U)
  BY DEF PaidInv
<1>8. Sweepers' = Sweepers
  BY <1>1, <1>4, <1>6 DEF Sweepers
<1>8a. PICK V : V = U \ {s}
  OBVIOUS
<1>9. V \subseteq Streams /\ V \subseteq Missing'
  BY <1>1, <1>2, <1>7, <1>8a, EnsureAccount DEF Awaited
<1>10. Awaited(V)'
  <2>1. ASSUME NEW t \in V
        PROVE  worker'[w].pc = "down" \/ (worker'[w].pc = "ensure" /\ worker'[w].at <= t)
    <3>1. t \in U /\ t # s /\ s <= t /\ s \in Nat /\ t \in Nat /\ t <= NumStreams
      BY <1>1, <1>7, <1>8a, <2>1, ConstantsAssumption DEF Awaited, Streams
    <3>2. s < NumStreams /\ s + 1 <= t
      BY <3>1, ConstantsAssumption
    <3> HIDE DEF s
    <3> QED BY <1>4, <1>6, <3>1, <3>2
  <2>2. \A t \in V, v \in Workers \ {w} :
          worker'[v].pc = "down" \/ (worker'[v].pc = "ensure" /\ worker'[v].at <= t)
    BY <1>6, <1>7, <1>8a DEF Awaited
  <2> QED BY <1>9, <2>1, <2>2 DEF Awaited
<1>11. Covered(V)'
  <2> DEFINE m == Cardinality(Missing \ U)
             n == Cardinality(Missing' \ V)
  <2>1. m \in Nat /\ IsFiniteSet(Missing \ U) /\ Cardinality(Sweepers) \in Nat
    BY AccountsFinite
  <2>2. retries + Cardinality(Sweepers) + m <= gone
    BY <1>7 DEF Covered
  <2>3. CASE outcome = "FAILED"
    <3>1. Missing' \ V \subseteq (Missing \ U) \cup {s}
      BY <1>1, <1>2, <1>8a, <2>3, EnsureAccount
    <3>2. /\ IsFiniteSet((Missing \ U) \cup {s})
          /\ Cardinality((Missing \ U) \cup {s}) <= m + 1
          /\ Cardinality((Missing \ U) \cup {s}) \in Nat
      BY <2>1, FS_AddElement
    <3>3. n <= m + 1 /\ n \in Nat
      <4>1. n <= Cardinality((Missing \ U) \cup {s}) /\ IsFiniteSet(Missing' \ V)
        BY <3>1, <3>2, FS_Subset
      <4>2. n \in Nat
        BY <4>1, FS_CardinalityType
      <4> QED BY <2>1, <3>2, <4>1, <4>2
    <3>4. gone' = gone + 1
      BY <1>2, <2>3
    <3> HIDE DEF m, n
    <3>5. retries + Cardinality(Sweepers) + n <= gone'
      BY <1>1, <2>1, <2>2, <3>3, <3>4
    <3> QED BY <1>3, <1>8, <3>5 DEF Covered, n
  <2>4. CASE outcome # "FAILED"
    <3>1. Missing' \ V \subseteq Missing \ U
      BY <1>1, <1>2, <1>7, <1>8a, <2>4, EnsureAccount DEF Awaited
    <3>2. n <= m /\ n \in Nat
      <4>1. n <= m /\ IsFiniteSet(Missing' \ V)
        BY <2>1, <3>1, FS_Subset
      <4> QED BY <4>1, FS_CardinalityType
    <3>3. gone' = gone
      BY <1>2, <2>4
    <3> HIDE DEF m, n
    <3>4. retries + Cardinality(Sweepers) + n <= gone'
      BY <1>1, <2>1, <2>2, <3>2, <3>3
    <3> QED BY <1>3, <1>8, <3>4 DEF Covered, n
  <2> QED BY <2>3, <2>4
<1>12. retries' \in Nat /\ gone' \in Nat
  BY <1>1, <1>2, <1>3
<1> QED BY <1>6, <1>9, <1>10, <1>11, <1>12 DEF PaidInv

\* When a worker is past its start-up, no stream is waited for.
LEMMA NoneAwaited ==
    ASSUME NEW U, Awaited(U), NEW w \in Workers, worker[w].pc \notin { "down", "ensure" }
    PROVE  U = {}
  BY DEF Awaited

\* A claim that finds its group missing makes it, or not: no new debt.
LEMMA RecoverAccount ==
    ASSUME WorkersShaped, RedisTyped, PaidInv, NEW w \in Workers, ClaimRecovers(w)
    PROVE  PaidInv'
<1> DEFINE s == worker[w].at
<1>1. /\ Placed /\ retries \in Nat /\ gone \in Nat /\ s \in Streams /\ worker[w].pc = "recover"
      /\ retries' = retries /\ gone' = gone
  BY DEF PaidInv, Placed, ClaimRecovers, At, history
<1>2. PICK r : MovesTo(w, r) /\ r.pc \in { "claim", "process", "read" }
  BY <1>1, AfterClaimMoves DEF ClaimRecovers
<1>3. Placed' /\ worker'[w] = r /\ \A v \in Workers \ {w} : worker'[v] = worker[v]
  BY <1>1, <1>2, PlacedStep
<1>4. PICK U \in SUBSET Streams : Awaited(U) /\ Covered(U)
  BY DEF PaidInv
<1>5. U = {}
  BY <1>1, <1>4, NoneAwaited
<1>6. PICK outcome : ensure_consumer_group(s, outcome)
  BY DEF ClaimRecovers
<1>7. Missing' \subseteq Missing /\ Sweepers' \subseteq Sweepers
  <2>1. Missing' \subseteq Missing
    BY <1>1, <1>6, EnsureAccount
  <2>2. Sweepers' \subseteq Sweepers
    BY <1>2, <1>3 DEF Sweepers
  <2> QED BY <2>1, <2>2
<1>8. /\ Cardinality(Missing') <= Cardinality(Missing) /\ Cardinality(Missing') \in Nat
      /\ Cardinality(Sweepers') <= Cardinality(Sweepers) /\ Cardinality(Sweepers') \in Nat
      /\ Cardinality(Missing) \in Nat /\ Cardinality(Sweepers) \in Nat
  <2>1. /\ IsFiniteSet(Missing') /\ Cardinality(Missing') <= Cardinality(Missing)
        /\ IsFiniteSet(Sweepers') /\ Cardinality(Sweepers') <= Cardinality(Sweepers)
        /\ IsFiniteSet(Missing) /\ IsFiniteSet(Sweepers)
    BY <1>7, AccountsFinite, FS_Subset
  <2> QED BY <2>1, FS_CardinalityType
<1>9. retries + Cardinality(Sweepers) + Cardinality(Missing) <= gone
  <2>1. Missing \ {} = Missing
    OBVIOUS
  <2> QED BY <1>4, <1>5, <2>1 DEF Covered
<1>10. Covered({})'
  <2>1. Missing' \ {} = Missing'
    OBVIOUS
  <2>2. retries + Cardinality(Sweepers') + Cardinality(Missing') <= gone
    BY <1>1, <1>8, <1>9
  <2> QED BY <1>1, <2>1, <2>2 DEF Covered
<1>11. Awaited({})'
  BY DEF Awaited
<1> QED BY <1>1, <1>3, <1>10, <1>11 DEF PaidInv

\* A sweep that makes a group takes it from the missing ones to its own account,
\* and to the retries at its end.
LEMMA SweepAccount ==
    ASSUME WorkersShaped, RedisTyped, PaidInv, NEW w \in Workers, Sweep(w)
    PROVE  PaidInv'
<1> DEFINE s == worker[w].at
<1>1. /\ Placed /\ retries \in Nat /\ gone \in Nat /\ s \in Streams /\ worker[w].pc = "sweep"
      /\ gone' = gone /\ Shaped(worker[w]) /\ worker[w].created \in BOOLEAN
  BY DEF PaidInv, Placed, Sweep, At, WorkersShaped
<1>2. PICK outcome, created, failed, last :
        /\ created = (worker[w].created \/ outcome = "CREATED")
        /\ failed = (worker[w].failed \/ outcome = "FAILED")
        /\ last = (s = NumStreams)
        /\ ensure_consumer_group(s, outcome)
        /\ worker' = [ worker EXCEPT ![w] =
             IF last
               THEN [ TopOfLoop(w) EXCEPT !.created = FALSE, !.failed = FALSE ]
               ELSE [ worker[w] EXCEPT !.at = s + 1, !.created = created, !.failed = failed ] ]
        /\ retries' = IF last /\ RetryAtOnce(created, failed) THEN retries + 1 ELSE retries
  BY DEF Sweep
<1> DEFINE top == [ TopOfLoop(w) EXCEPT !.created = FALSE, !.failed = FALSE ]
           go == [ worker[w] EXCEPT !.at = s + 1, !.created = created, !.failed = failed ]
           r == IF last THEN top ELSE go
<1>3. created \in BOOLEAN /\ last \in BOOLEAN
  BY <1>1, <1>2
<1>4. Shaped(go) /\ go.pc = "sweep" /\ go.at = s + 1 /\ go.created = created
  BY <1>1 DEF Shaped, Fields
<1>5. Shaped(top) /\ top.pc = "claim" /\ top.at = 1 /\ top.created = FALSE
  <2>1. Shaped(TopOfLoop(w)) /\ TopOfLoop(w).pc = "claim" /\ TopOfLoop(w).at = 1
    BY <1>1, ShapedRecords, PlacedRecords
  <2> QED BY <2>1 DEF Shaped, Fields
<1>6. worker' = [ worker EXCEPT ![w] = r ]
  BY <1>2
<1> HIDE DEF go, top
<1>7. ~last => s + 1 \in Streams
  <2>1. ~last => s # NumStreams
    BY <1>2
  <2>2. s # NumStreams => s + 1 \in Streams
    BY <1>1, ConstantsAssumption DEF Streams
  <2> QED BY <2>1, <2>2
<1>8. Shaped(r) /\ r.at \in Streams /\ r.created \in BOOLEAN
  BY <1>1, <1>3, <1>4, <1>5, <1>7, PlacedRecords
<1>9. ~last => r.created = created
  BY <1>4
<1>10. r.pc = "sweep" <=> ~last
  BY <1>3, <1>4, <1>5
<1> HIDE DEF r
<1>11. MovesTo(w, r)
  BY <1>6, <1>8 DEF MovesTo, NewRecord
<1>12. Placed' /\ worker'[w] = r /\ \A v \in Workers \ {w} : worker'[v] = worker[v]
  BY <1>1, <1>11, PlacedStep
<1>13. PICK U \in SUBSET Streams : Awaited(U) /\ Covered(U)
  BY DEF PaidInv
<1>14. U = {}
  BY <1>1, <1>13, NoneAwaited
<1> DEFINE K == Cardinality(Sweepers)
           M == Cardinality(Missing)
           L == Cardinality(Sweepers')
           N == Cardinality(Missing')
<1>15. /\ IsFiniteSet(Missing) /\ IsFiniteSet(Sweepers) /\ K \in Nat /\ M \in Nat
       /\ retries + K + M <= gone
  <2>1. Missing \ {} = Missing
    OBVIOUS
  <2>2. IsFiniteSet(Missing) /\ IsFiniteSet(Sweepers)
    BY AccountsFinite
  <2> QED BY <1>13, <1>14, <2>1, <2>2, FS_CardinalityType DEF Covered
<1>16. /\ outcome = "CREATED" => N = M - 1
       /\ outcome # "CREATED" => N = M
       /\ N \in Nat
  <2>1. /\ outcome = "CREATED" => s \in Missing /\ Missing' = Missing \ {s}
        /\ outcome # "CREATED" => Missing' = Missing
    BY <1>1, <1>2, EnsureAccount
  <2>2. /\ IsFiniteSet(Missing \ {s})
        /\ s \in Missing => Cardinality(Missing \ {s}) = M - 1
    BY <1>15, FS_RemoveElement
  <2>3. IsFiniteSet(Missing')
    BY <1>15, <2>1, <2>2
  <2>4. N \in Nat
    BY <2>3, FS_CardinalityType
  <2> QED BY <2>1, <2>2, <2>4
<1>17. /\ worker[w].created /\ ~last => L = K
       /\ worker[w].created /\ last => L = K - 1
       /\ ~worker[w].created /\ (last \/ ~created) => L = K
       /\ ~worker[w].created /\ ~last /\ created => L = K + 1
       /\ L \in Nat
  <2>1. w \in Sweepers <=> worker[w].created
    BY <1>1 DEF Sweepers
  <2>2. w \in Sweepers' <=> ~last /\ created
    BY <1>8, <1>9, <1>10, <1>12 DEF Sweepers
  <2>3. \A v \in Workers \ {w} : v \in Sweepers' <=> v \in Sweepers
    BY <1>12 DEF Sweepers
  <2>4. Sweepers \subseteq Workers /\ Sweepers' \subseteq Workers
    BY DEF Sweepers
  <2>5. Sweepers' = IF ~last /\ created THEN Sweepers \cup {w} ELSE Sweepers \ {w}
    BY <2>2, <2>3, <2>4
  <2>6. worker[w].created => created
    BY <1>2
  <2>7. /\ Cardinality(Sweepers \cup {w}) = IF w \in Sweepers THEN K ELSE K + 1
        /\ Cardinality(Sweepers \ {w}) = IF w \in Sweepers THEN K - 1 ELSE K
        /\ IsFiniteSet(Sweepers \cup {w}) /\ IsFiniteSet(Sweepers \ {w})
    BY <1>15, FS_AddElement, FS_RemoveElement
  <2>8. IsFiniteSet(Sweepers')
    BY <2>5, <2>7
  <2>9. L \in Nat
    BY <2>8, FS_CardinalityType
  <2> HIDE DEF K, L
  <2>10. L = IF ~last /\ created THEN (IF w \in Sweepers THEN K ELSE K + 1)
                                 ELSE (IF w \in Sweepers THEN K - 1 ELSE K)
    BY <2>5, <2>7 DEF L
  <2> QED BY <1>3, <2>1, <2>6, <2>9, <2>10
<1>18. retries' \in Nat /\ retries' + L + N <= gone
  <2> HIDE DEF K, L, M, N
  <2>1. created <=> worker[w].created \/ outcome = "CREATED"
    BY <1>1, <1>2
  <2>2. retries' = retries \/ (last /\ created /\ retries' = retries + 1)
    BY <1>2, <1>3 DEF RetryAtOnce
  <2>3. L + N <= K + M /\ (last /\ created => L + N <= (K + M) - 1)
    BY <1>1, <1>3, <1>15, <1>16, <1>17, <2>1
  <2> QED BY <1>1, <1>15, <1>16, <1>17, <2>2, <2>3
<1>19. Covered({})'
  <2>1. Missing' \ {} = Missing'
    OBVIOUS
  <2> QED BY <1>1, <1>18, <2>1 DEF Covered
<1>20. Awaited({})'
  BY DEF Awaited
<1> QED BY <1>1, <1>12, <1>18, <1>19, <1>20 DEF PaidInv

\* A group that goes missing is counted.
LEMMA VanishAccount ==
    ASSUME RedisTyped, PaidInv, NEW s \in Streams, NEW kept, Vanish(s, kept)
    PROVE  PaidInv'
<1>1. /\ Placed /\ retries \in Nat /\ gone \in Nat
      /\ worker' = worker /\ retries' = retries
      /\ group' = [ group EXCEPT ![s] = None ] /\ group \in [ Streams -> Nat \cup {None} ]
      /\ gone' = IF group[s] = None THEN gone ELSE gone + 1
  BY DEF PaidInv, Vanish, RedisTyped
<1>2. PICK U \in SUBSET Streams : Awaited(U) /\ Covered(U)
  BY DEF PaidInv
<1>3. Missing' = Missing \cup {s} /\ Sweepers' = Sweepers
  BY <1>1 DEF Missing, Sweepers
<1>4. Awaited(U)'
  BY <1>1, <1>2, <1>3 DEF Awaited
<1> DEFINE m == Cardinality(Missing \ U)
           n == Cardinality(Missing' \ U)
<1>5. /\ m \in Nat /\ Cardinality(Sweepers) \in Nat /\ IsFiniteSet(Missing \ U)
      /\ retries + Cardinality(Sweepers) + m <= gone
  BY <1>2, AccountsFinite DEF Covered
<1>6. CASE group[s] = None
  <2>1. Missing' = Missing /\ gone' = gone
    BY <1>1, <1>3, <1>6 DEF Missing
  <2>2. Covered(U)'
    BY <1>1, <1>2, <1>3, <2>1 DEF Covered
  <2>3. Placed'
    BY <1>1 DEF Placed
  <2> QED BY <1>1, <1>2, <1>4, <2>1, <2>2, <2>3 DEF PaidInv
<1>7. CASE group[s] # None
  <2>1. s \notin U /\ s \notin Missing
    BY <1>2, <1>7 DEF Awaited, Missing
  <2>2. Missing' \ U = (Missing \ U) \cup {s}
    BY <1>3, <2>1
  <2>3. n = m + 1
    BY <1>5, <2>1, <2>2, FS_AddElement
  <2>4. gone' = gone + 1
    BY <1>1, <1>7
  <2> HIDE DEF m, n
  <2>5. retries + Cardinality(Sweepers) + n <= gone'
    BY <1>1, <1>5, <2>3, <2>4
  <2>6. Covered(U)'
    BY <1>1, <1>3, <2>5 DEF Covered, n
  <2>7. Placed'
    BY <1>1 DEF Placed
  <2> QED BY <1>1, <1>2, <1>4, <2>4, <2>6, <2>7 DEF PaidInv
<1> QED BY <1>6, <1>7

\* The account holds at the start: every group is missing, and waited for.
LEMMA InitPaidInv == Init => PaidInv
<1> SUFFICES ASSUME Init PROVE PaidInv
  OBVIOUS
<1>1. /\ retries = 0 /\ gone = 0 /\ \A s \in Streams : group[s] = None
      /\ \A w \in Workers : worker[w] = Down
  BY DEF Init
<1>2. Down.pc = "down" /\ Down.at = 1 /\ Down.created = FALSE /\ 1 \in Streams
  BY ConstantsAssumption DEF Down, Streams
<1>3. Placed /\ Sweepers = {} /\ Missing = Streams
  BY <1>1, <1>2 DEF Placed, Sweepers, Missing
<1>4. Awaited(Streams)
  BY <1>1, <1>2, <1>3 DEF Awaited
<1>5. Covered(Streams)
  <2>1. Missing \ Streams = {} /\ Cardinality({}) = 0
    BY <1>3, FS_EmptySet
  <2> QED BY <1>1, <1>3, <2>1 DEF Covered
<1> QED BY <1>1, <1>3, <1>4, <1>5 DEF PaidInv

\* Every step keeps it.
LEMMA NextPaidInv == IndInv /\ PaidInv /\ [Next]_vars => PaidInv'
<1> SUFFICES ASSUME IndInv, PaidInv, [Next]_vars PROVE PaidInv'
  OBVIOUS
<1>0. WorkersShaped /\ RedisTyped /\ Placed
  BY DEF IndInv, PaidInv
<1>1. ASSUME NEW w \in Workers,
             \/ Start(w) \/ ClaimDisabled(w) \/ ClaimMissing(w) \/ ClaimPending(w) \/ Read(w)
             \/ ReadVanished(w) \/ HandleAccepts(w) \/ xack(w) \/ Failure(w)
      PROVE  PaidInv'
  <2>1. UNCHANGED << gone, retries >>
    BY <1>1 DEF Start, ClaimDisabled, ClaimMissing, ClaimPending, Read, ReadVanished,
       HandleAccepts, xack, Failure, Stop, ClaimFails, ReadFails, HandleRefuses, HandleRaises,
       AckFails, Crash, history
  <2>2. Missing' = Missing
    <3>1. CASE Read(w)
      <4>1. PICK upTo \in [ Streams -> 0 .. MaxEntries ] : group' = upTo
        BY <3>1 DEF Read
      <4>2. \A s \in Streams : group'[s] # None /\ group[s] # None
        BY <3>1, <4>1, NoneIsNoNumber, ConstantsAssumption DEF Read
      <4> QED BY <4>2 DEF Missing
    <3>2. CASE ~Read(w)
      <4>1. group' = group
        BY <1>1, <3>2 DEF Start, ClaimDisabled, ClaimMissing, ClaimPending, ReadVanished,
           HandleAccepts, xack, Failure, Stop, ClaimFails, ReadFails, HandleRefuses,
           HandleRaises, AckFails, Crash, redis
      <4> QED BY <4>1 DEF Missing
    <3> QED BY <3>1, <3>2
  <2>3. PICK r : QuietMove(w, r)
    BY <1>0, <1>1, QuietMoves
  <2> QED BY <1>0, <2>1, <2>2, <2>3, QuietAccount
<1>2. CASE \E w \in Workers : Start(w) \/ Loop(w) \/ Failure(w)
  BY <1>0, <1>1, <1>2, StartAccount, RecoverAccount, SweepAccount DEF Loop
<1>3. ASSUME UNCHANGED << group, worker, gone, retries >>
      PROVE  PaidInv'
  BY <1>3 DEF PaidInv, Placed, Awaited, Covered, Missing, Sweepers
<1>4. CASE \E s \in Streams :
             \/ publish(s)
             \/ \E kept \in { {}, entries[s] } : Vanish(s, kept)
             \/ \E e \in pel[s] : IdleElapses(s, e)
  <2>1. PICK s \in Streams : \/ publish(s)
                             \/ \E kept \in { {}, entries[s] } : Vanish(s, kept)
                             \/ \E e \in pel[s] : IdleElapses(s, e)
    BY <1>4
  <2>2. CASE publish(s) \/ \E e \in pel[s] : IdleElapses(s, e)
    BY <1>3, <2>2 DEF publish, IdleElapses, history
  <2>3. CASE \E kept \in { {}, entries[s] } : Vanish(s, kept)
    BY <1>0, <2>3, VanishAccount
  <2> QED BY <2>1, <2>2, <2>3
<1>5. CASE UNCHANGED vars
  BY <1>3, <1>5 DEF vars, redis, history
<1> QED BY <1>2, <1>4, <1>5 DEF Next

\* stage.py sweep_vanished_consumer_groups: for every number of workers and streams
\* and however they interleave, each read tried again without a backoff is paid for
\* by a group that was missing.
THEOREM EveryRetryIsPaid == Spec => []RetriesArePaid
<1>1. PaidInv => RetriesArePaid
  <2> SUFFICES ASSUME PaidInv PROVE retries <= gone
    BY DEF RetriesArePaid
  <2>1. PICK U : Covered(U)
    BY DEF PaidInv
  <2>2. Cardinality(Sweepers) \in Nat /\ Cardinality(Missing \ U) \in Nat
    BY AccountsFinite
  <2> QED BY <2>1, <2>2 DEF PaidInv, Covered
<1> QED BY InitIndInv, NextIndInv, InitPaidInv, NextPaidInv, <1>1, PTL DEF Spec

=============================================================================
