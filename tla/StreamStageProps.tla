------------------------- MODULE StreamStageProps --------------------------
(***************************************************************************)
(* What the consume loop promises to the daemons built on it.              *)
(***************************************************************************)
EXTENDS StreamStage

\* stage.py _ensure_consumer_group, _process_messages: no message is skipped.
\* Whatever workers die, groups vanish and are made again by any of them, a
\* message in a stream with a group is still to be delivered, is pending, or
\* was accepted by a handler.
NothingSkipped ==
    \A s \in Streams : group[s] # None =>
        \A e \in entries[s] : e > group[s] \/ e \in pel[s] \/ e \in handled

\* stage.py sweep_vanished_consumer_groups: every read that is tried again
\* without a backoff is paid for by a group that really was missing, whichever
\* worker made the groups anew; otherwise the loop would spin on a read that
\* fails for another reason.
RetriesArePaid == retries <= gone

\* stage.py run: if the server has XAUTOCLAIM, a published message is accepted
\* by a handler in the end, through refusals, raising handlers, dead workers
\* and claims that start anywhere in the pending list, unless its key goes.
EventuallyHandled ==
    \A s \in Streams, e \in Ids :
        autoclaim /\ e \in entries[s] ~> e \notin entries[s] \/ e \in handled

=============================================================================
