----------------------- MODULE PostTradeReleaseProps -----------------------
(***************************************************************************)
(* What the post-trade release path of PostTradeRelease promises.          *)
(***************************************************************************)
EXTENDS PostTradeRelease

Snapshot == [Attempt -> [seen : BOOLEAN, live : BOOLEAN, filled : 0..MaxQty]]
AttemptOrNone == Attempt \cup {None}

\* Every store and memory variable keeps its shape; a receipt never reports
\* more than was ordered (fill_observer._fill_state reads a cumulative
\* quantity, not an increment).
TypeOK ==
    /\ \A i \in DOMAIN log : log[i].res \in attempts
    /\ epoch \in 0..MaxBoots /\ boots \in 0..MaxBoots /\ refusals \in 0..MaxRefusals
    /\ Len(orders) <= MaxAttempts
    /\ \A a \in attempts : flow[a] \in FlowEnd \cup {"open"}
    /\ \A a \in attempts : \A i \in DOMAIN receipts[a] :
          receipts[a][i].filled \in {None} \cup 0..orders[a].qty
    /\ broker \in Snapshot
    /\ \A p \in Procs : mem[p].job.a \in AttemptOrNone /\ mem[p].job.entry \in AttemptOrNone
    /\ ev.unsent \cup ev.projected \cup ev.discarded \subseteq attempts

Released(a) == reservation_state(a) = "RELEASED"

\* Whatever the broker still owes has capacity in the log: no order that may
\* still fill has been RELEASED, and with nothing outstanding the position at
\* the broker is flat.  Release consumer, entry discharge and unsent release
\* each read stale snapshots and evidence before they release.
ExposureIsReserved ==
    /\ \A a \in attempts : Released(a) => ~broker[a].live
    /\ outstanding_reservations = {} => Position(broker) = 0

\* Closes never exceed what the entry filled, and no second entry is stacked
\* on the first, even though partial closes are admitted one after another
\* from a history that is proven each time (riskstate/close_bound.py).
NeverShort == Position(broker) \in 0..MaxQty

\* A close that was released while its entry is still consumed is found by
\* the recovery scan of the next boot or poll (entry_recovery.py), wherever
\* the process died.
CloseNotForgotten ==
    \A e, c \in attempts :
        /\ reservation_state(e) = "POSITION_CONSUMED"
        /\ c > e /\ Released(c) /\ committed_command("release", c)
        => c \in pending_recovery_attempt_ids

\* release_consumer.py 410-418: an OPEN is committed over an empty scope, a
\* CLOSE over exactly one consumed entry, and nothing as a third.
ScopeShape ==
    \/ Cardinality(outstanding_reservations) <= 1
    \/ \E e, c \in outstanding_reservations :
          /\ outstanding_reservations = {e, c} /\ e < c
          /\ reservation_state(e) = "POSITION_CONSUMED"
          /\ reservation_state(c) = "COMMITTED_UNBOUND"
          /\ orders[e].effect = "OPEN" /\ orders[c].effect = "CLOSE"

\* The verdict cache of the unsent pass relies on it: while the scope holds a
\* reservation the newest commit of the scope is that reservation's
\* (unsent_release.py 590-596).  A replaced process may hold an older one.
AnchorStands ==
    \A p \in Procs :
        mem[p].held # None /\ mem[p].epoch = epoch => mem[p].held.attempt = Len(orders)

\* The engine's ledger never forgets what the log still has in flight: the
\* process in charge holds the attempt whose reservation is unresolved.
LedgerCoversLog ==
    \A p \in Procs : \A a \in attempts :
        ~At(p, "down") /\ mem[p].epoch = epoch /\ reservation_state(a) = "COMMITTED_UNBOUND"
        => Holds(p, a)

\* A discarded reservation can be told from a fill in every later close
\* history: close_history.py 363-366, "refusing the whole history because it
\* carries no FULL_FILL would re-seal exactly the scope #974's release path
\* exists to re-open".  A pass cut short is finished by the next boot's pass
\* (unsent_release.py), so with every process idle both of its rows are there.
UnsentProvable ==
    (\A p \in Procs : At(p, "idle")) =>
        \A a \in ev.discarded : orders[a].effect = "CLOSE" => never_sent_release_proven(a)

\* A scope that is flat at the broker, with the last close released, is given
\* back: the entry's reservation is discharged although the process may die
\* between the two commits, unless no process is started again or the log
\* was unavailable to a release (a refused discharge is marked, and not tried
\* again at the same log position).
EntryEventuallyDischarged ==
    \A e \in Attempt :
        /\ e \in attempts /\ reservation_state(e) = "POSITION_CONSUMED"
        /\ outstanding_reservations = {e} /\ Position(broker) = 0
        ~> \/ e \in attempts /\ reservation_state(e) = "RELEASED"
           \/ boots = MaxBoots /\ \A p \in Procs : At(p, "down")
           \/ refusals > 0
=============================================================================
