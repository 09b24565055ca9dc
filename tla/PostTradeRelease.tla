-------------------------- MODULE PostTradeRelease --------------------------
(***************************************************************************)
(* How capacity is given back after a trade, in one (account, instrument)  *)
(* scope: the admission of an order over the scope's reservations (flow    *)
(* steps 6, 8 and 9), the finality projection of a broker's result, the    *)
(* release consumer, the discharge of an entry by its closes and its       *)
(* recovery after a crash, the release of a reservation that was never     *)
(* sent, and the reconciliation with a broker snapshot all of them need.   *)
(* Sources: risk/ledger_stages.py, riskstate/close_bound.py,               *)
(* engine/finality_projection.py, posttrade/*.py and recon/service.py of   *)
(* tos/runtime/src/tos_runtime.                                            *)
(*                                                                         *)
(* Attempt n is the n-th order committed in the scope and owns reservation *)
(* n.  Several processes may run over the same stores: one that was        *)
(* replaced finishes what it is doing, since only admission is fenced by   *)
(* the writer epoch.                                                       *)
(***************************************************************************)
EXTENDS Integers, Sequences, FiniteSets, SequencesExt, FiniteSetsExt

CONSTANTS
    Procs,          \* runtime processes
    MaxAttempts,    \* orders committed in the scope
    MaxQty,         \* largest order quantity
    MaxBoots,       \* process starts
    MaxRefusals,    \* times the log answers STORE_UNAVAILABLE to a release
    FlowEnds,       \* how a flow may end after step 9: subset of FlowEnd
    None

FlowEnd == {"halted", "sent", "raised"}

ASSUME BoundsAssumption ==
    /\ MaxAttempts \in Nat \ {0} /\ MaxQty \in Nat \ {0}
    /\ MaxBoots \in Nat /\ MaxRefusals \in Nat
    /\ FlowEnds \subseteq FlowEnd

ASSUME NoneIsNew ==
    /\ None \notin Nat /\ None \notin [attempt : Nat, sent : BOOLEAN]
    /\ None \notin [todo : Seq([op : {"resume", "reproject", "emit"}, a : Nat]),
                    snap : [1..MaxAttempts -> [seen : BOOLEAN, live : BOOLEAN, filled : Nat]]]

VARIABLES
    \* durable: the commit log's reservation transitions, the evidence rows
    \* and inbox columns that are read back
    log,        \* sequence of [res, to, cmd, by]
    epoch,      \* the log's current writer epoch
    orders,     \* per attempt: effect and quantity
    flow,       \* per attempt: how its commitment flow was recorded to end
    receipts,   \* per attempt: the results consumed, oldest first
    ev,         \* the post-trade rows, by kind
    \* the broker
    broker,     \* per attempt: seen (an order exists), live, filled
    \* memory of each process
    mem,        \* pc, epoch, held reservation, prefetched poll, job
    \* history and bounds
    boots, refusals

vars == <<log, epoch, orders, flow, receipts, ev, broker, mem, boots, refusals>>

Attempt == 1..MaxAttempts

\* f[1] + ... + f[n]
SumTo(f, n) ==
    LET sum[i \in 0..n] == IF i = 0 THEN 0 ELSE sum[i - 1] + f[i] IN sum[n]

-----------------------------------------------------------------------------
(* The reservation projection: risk capacity as the log says *)

attempts == DOMAIN orders
tip == Len(log)
RowsOf(r) == {i \in DOMAIN log : log[i].res = r}
reservation_state(r) == log[Max(RowsOf(r))].to
reservation_last_seq(r) == Max(RowsOf(r))
first_seq(r) == Min(RowsOf(r))
outstanding_reservations == {r \in attempts : reservation_state(r) # "RELEASED"}
other_outstanding(r) == outstanding_reservations \ {r}
Commands == {<<log[i].cmd, log[i].by>> : i \in DOMAIN log}
committed_command(cmd, a) == <<cmd, a>> \in Commands

Transition(res, to, cmd, by) == [res |-> res, to |-> to, cmd |-> cmd, by |-> by]

-----------------------------------------------------------------------------
(* Evidence read back *)

Recorded(a) == receipts[a] # <<>>
Terminal(a) == Recorded(a) /\ Last(receipts[a]).kind \in {"FULL_FILL", "REJECT"}

\* The last receipt is a full fill whose final-quantity proof is on record;
\* otherwise no quantity.
final_full_fill_quantity(a) ==
    IF Recorded(a) /\ Last(receipts[a]).kind = "FULL_FILL" /\ a \in ev.proofs
      THEN Last(receipts[a]).filled ELSE None

\* The reservation's only release is the unsent pass's, and its intent row
\* is there: it closed nothing.
never_sent_release_proven(r) ==
    /\ r \in ev.unsent
    /\ committed_command("release-unsent", r)

\* The close's own release command committed and every intent names RELEASED.
release_proven(r) ==
    /\ committed_command("release", r)
    /\ \E i \in ev.intents : i.attempt = r /\ i.res = r
    /\ \A i \in ev.intents :
          i.attempt = r /\ i.res = r => i.dest = "RELEASED"

\* Some row of the attempt names the entry, and no row a third reservation.
entry_binding_ambiguous(a, entry) ==
    \E i \in ev.intents : i.attempt = a /\ i.res \notin {a, entry}
entry_binding_proven(a, entry) ==
    \/ <<a, entry>> \in ev.links
    \/ \E i \in ev.intents : i.attempt = a /\ i.res = entry /\ i.dest = "RELEASED"

\* At each candidate's first row the entry was the only consumed position.
entry_was_only_position(entry, candidates, boundary) ==
    LET StateAt(r, i) == log[Max({j \in RowsOf(r) : j <= i})].to
        ConsumedBefore(i) == {r \in attempts : /\ first_seq(r) < i
                                               /\ StateAt(r, i - 1) = "POSITION_CONSUMED"}
    IN  /\ \A c \in candidates : ConsumedBefore(first_seq(c)) = {entry}
        /\ StateAt(entry, boundary) = "POSITION_CONSUMED"

Refused == [refused |-> TRUE]

\* The quantities closed against an entry, up to a current close or, with
\* none, up to the tip.  Anything unproven refuses the whole history.
durable_close_history(entry, current) ==
    LET boundary   == IF current = None THEN tip ELSE first_seq(current)
        candidates == {r \in attempts : /\ first_seq(entry) < first_seq(r)
                                        /\ first_seq(r) <= boundary}
        counted    == {r \in candidates : r = current \/ ~never_sent_release_proven(r)}
        closed(S)  == SumTo([r \in attempts |-> IF r \in S THEN final_full_fill_quantity(r) ELSE 0],
                            Len(orders))
        proven     ==
            /\ entry_was_only_position(entry, candidates, boundary)
            /\ final_full_fill_quantity(entry) # None
            /\ \A r \in counted :
                  /\ final_full_fill_quantity(r) # None
                  /\ release_proven(r)
                  /\ ~entry_binding_ambiguous(r, entry)
                  /\ r # current => entry_binding_proven(r, entry)
            /\ closed(counted) <= final_full_fill_quantity(entry)
    IN  IF ~proven THEN Refused
        ELSE [refused |-> FALSE, entry |-> final_full_fill_quantity(entry),
              prior |-> closed(counted \ {current}), tip |-> tip]

-----------------------------------------------------------------------------
(* Reconciliation with a broker snapshot *)

\* What the fills of an OPEN add to the position, those of a CLOSE take away.
Signed(b) ==
    [a \in attempts |-> IF orders[a].effect = "OPEN" THEN b[a].filled ELSE 0 - b[a].filled]
Position(b) == SumTo(Signed(b), Len(orders))

\* An attempt permits a capacity release if the log, the last receipt and the
\* snapshot all know it, both quantities agree and its full-fill proof is on
\* record; one attempt of the scope that does not withholds the permission.
capacity_ok(a, snap) ==
    /\ snap[a].seen
    /\ Recorded(a)
    /\ Last(receipts[a]).filled = snap[a].filled
    /\ a \in ev.proofs

reconcile(a, snap) ==
    \A b \in attempts :
        b = a \/ Recorded(b) \/ snap[b].seen => capacity_ok(b, snap)

broker_position_flat(snap) == Position(snap) = 0

-----------------------------------------------------------------------------
(* Memory *)

\* A job: the place in the code, the attempt it is about, the entry it
\* discharges, the operation, and the log position (tip and epoch) its next
\* conditional append is fenced by.
Idle == [pc |-> "idle", a |-> None, entry |-> None, op |-> None, at |-> None,
         sig |-> None]
LogAt == [tip |-> tip, epoch |-> epoch]
Down == [job |-> [Idle EXCEPT !.pc = "down"], epoch |-> 0, held |-> None,
         poll |-> None]

job(p) == mem[p].job
At(p, pc) == job(p).pc = pc
Go(p, j) == mem' = [mem EXCEPT ![p].job = j]
Goto(p, pc) == Go(p, [job(p) EXCEPT !.pc = pc])
Holds(p, a) == mem[p].held # None /\ mem[p].held.attempt = a

Init ==
    /\ log = <<>> /\ epoch = 0 /\ orders = <<>> /\ flow = <<>>
    /\ receipts = <<>>
    /\ ev = [pending |-> {}, links |-> {}, intents |-> {}, unsent |-> {},
             discarded |-> {}, projected |-> {}, obligations |-> {},
             proofs |-> {}, witness |-> {}, marks |-> {}]
    /\ broker = [a \in Attempt |-> [seen |-> FALSE, live |-> FALSE, filled |-> 0]]
    /\ mem = [p \in Procs |-> Down]
    /\ boots = 0 /\ refusals = 0

\* Mutant: the replay frees a scope whose flow ended without a send.
ReplayForgetsHalted ==
    LET n == Len(orders)
    IN  IF n = 0 \/ n \in ev.projected \cup ev.discarded \/ flow[n] = "halted" THEN None
        ELSE [attempt |-> n, sent |-> TRUE]

\* The engine replay: the last order keeps the scope unless its release or
\* its discard is on record.
ReplayedLedger ==
    LET n == Len(orders)
    IN  IF n = 0 \/ n \in ev.projected \cup ev.discarded THEN None
        ELSE [attempt |-> n, sent |-> flow[n] # "halted"]

\* A flow that never reached its receipt holds the recovery barrier; a raised
\* transmit replays only in a store that knows some hand-off.
ReplayAdmits ==
    /\ \A a \in attempts : flow[a] # "open"
    /\ (\E a \in attempts : flow[a] = "raised") => \E a \in attempts : flow[a] = "sent"

Boot(p) ==
    /\ At(p, "down") /\ boots < MaxBoots /\ ReplayAdmits
    /\ boots' = boots + 1 /\ epoch' = epoch + 1
    /\ mem' = [mem EXCEPT ![p] = [job   |-> [Idle EXCEPT !.pc = "turn"],
                                  epoch |-> epoch + 1,
                                  held  |-> ReplayedLedger,
                                  poll  |-> None]]
    /\ UNCHANGED <<log, orders, flow, receipts, ev, broker, refusals>>

\* A process that dies while transmitting may or may not have sent.
Crash(p) ==
    /\ ~At(p, "down")
    /\ mem' = [mem EXCEPT ![p] = Down]
    /\ \/ broker' = broker
       \/ /\ At(p, "flow")
          /\ broker' = [broker EXCEPT ![job(p).a] = [seen |-> TRUE, live |-> TRUE, filled |-> 0]]
    /\ UNCHANGED <<log, epoch, orders, flow, receipts, ev, boots, refusals>>

-----------------------------------------------------------------------------
(* Admission: the close bound, step 8 and step 9 *)

\* Mutant: earlier closes are not counted.
CloseIgnoresPrior(entry, prior, proposed) == proposed <= entry

\* A CLOSE must fit the proven rest of the one consumed entry.
close_within_entry(entry, prior, proposed) == prior + proposed <= entry

read_close_bound(qty) ==
    /\ Cardinality(outstanding_reservations) = 1
    /\ \E entry \in outstanding_reservations :
          /\ reservation_state(entry) = "POSITION_CONSUMED"
          /\ LET h == durable_close_history(entry, None)
             IN  ~h.refused /\ close_within_entry(h.entry, h.prior, qty)

\* Mutant: an OPEN over a consumed entry is admitted as well.
VerdictStacks(effect) ==
    \A r \in outstanding_reservations : reservation_state(r) = "POSITION_CONSUMED"

verdict_for_scope(effect) ==
    IF effect = "OPEN"
      THEN outstanding_reservations = {}
      ELSE /\ Cardinality(outstanding_reservations) = 1
           /\ \A r \in outstanding_reservations :
                 reservation_state(r) = "POSITION_CONSUMED"

\* Steps 6 and 8 of a tick; the tip is the close proof's fence.
VerifyLedger(p) ==
    /\ At(p, "idle") /\ mem[p].held = None
    /\ mem[p].epoch = epoch
    /\ Len(orders) < MaxAttempts
    /\ \E effect \in {"OPEN", "CLOSE"}, qty \in 1..MaxQty :
          /\ verdict_for_scope(effect)
          /\ effect = "CLOSE" => read_close_bound(qty)
          /\ Go(p, [Idle EXCEPT !.pc = "commit", !.at = LogAt,
                                !.op = [effect |-> effect, qty |-> qty]])
    /\ UNCHANGED <<log, epoch, orders, flow, receipts, ev, broker, boots, refusals>>

\* Mutant: the writer epoch is not checked again at the commit.
CommitUnfenced(p) ==
    job(p).op.effect = "CLOSE" => job(p).at.tip = tip

CommitFence(p) ==
    /\ mem[p].epoch = epoch
    /\ job(p).op.effect = "CLOSE" => job(p).at.tip = tip

AtomicCommit(p) ==
    /\ At(p, "commit") /\ CommitFence(p)
    /\ LET n == Len(orders) + 1 IN
       /\ n <= MaxAttempts
       /\ log' = Append(log, Transition(n, "COMMITTED_UNBOUND", "commit", n))
       /\ orders' = Append(orders, job(p).op)
       /\ flow' = Append(flow, "open")
       /\ receipts' = Append(receipts, <<>>)
       /\ mem' = [mem EXCEPT ![p].job = [Idle EXCEPT !.pc = "flow", !.a = n],
                             ![p].held = [attempt |-> n, sent |-> FALSE]]
    /\ UNCHANGED <<epoch, ev, broker, boots, refusals>>

CommitRefused(p) ==
    /\ At(p, "commit") /\ ~CommitFence(p) /\ Goto(p, "turn")
    /\ UNCHANGED <<log, epoch, orders, flow, receipts, ev, broker, boots, refusals>>

-----------------------------------------------------------------------------
(* Steps 10 to 18: the flow halts before the send, sends, or raises in it *)

FlowHalts(p) ==
    /\ At(p, "flow") /\ "halted" \in FlowEnds
    /\ flow' = [flow EXCEPT ![job(p).a] = "halted"]
    /\ Goto(p, "turn")
    /\ UNCHANGED <<log, epoch, orders, receipts, ev, broker, boots, refusals>>

\* The venue takes the order, or answers that it did not.
FlowSends(p) ==
    /\ At(p, "flow") /\ "sent" \in FlowEnds
    /\ flow' = [flow EXCEPT ![job(p).a] = "sent"]
    /\ \E accepted \in BOOLEAN :
          broker' = [broker EXCEPT ![job(p).a].seen = accepted, ![job(p).a].live = accepted]
    /\ mem' = [mem EXCEPT ![p].job.pc = "answer", ![p].held.sent = TRUE]
    /\ UNCHANGED <<log, epoch, orders, receipts, ev, boots, refusals>>

FlowRaises(p) ==
    /\ At(p, "flow") /\ "raised" \in FlowEnds
    /\ flow' = [flow EXCEPT ![job(p).a] = "raised"]
    /\ \E accepted \in BOOLEAN :
          broker' = [broker EXCEPT ![job(p).a].seen = accepted, ![job(p).a].live = accepted]
    /\ mem' = [mem EXCEPT ![p].job.pc = "turn", ![p].held.sent = TRUE]
    /\ UNCHANGED <<log, epoch, orders, receipts, ev, boots, refusals>>

\* The gateway's synchronous answer is consumed as the next event.  A REJECT
\* reaches the consumer, whose reconciliation finds no proof and holds.
RecordAnswer(p) ==
    /\ At(p, "answer")
    /\ LET a == job(p).a
           kind == IF broker[a].seen THEN "ACK" ELSE "REJECT"
       IN  receipts' = [receipts EXCEPT ![a] = Append(@, [kind |-> kind, filled |-> None])]
    /\ Goto(p, "turn")
    /\ UNCHANGED <<log, epoch, orders, flow, ev, broker, boots, refusals>>

-----------------------------------------------------------------------------
(* The broker *)

BrokerFills(a) ==
    /\ broker[a].live
    /\ broker' = [broker EXCEPT ![a].filled = broker[a].filled + 1,
                                ![a].live = broker[a].filled + 1 < orders[a].qty]
    /\ UNCHANGED <<log, epoch, orders, flow, receipts, ev, mem, boots, refusals>>

\* A cancelled or expired rest: the fill observer reports it to an operator
\* and delivers nothing.
BrokerCancels(a) ==
    /\ broker[a].live
    /\ broker' = [broker EXCEPT ![a].live = FALSE]
    /\ UNCHANGED <<log, epoch, orders, flow, receipts, ev, mem, boots, refusals>>

-----------------------------------------------------------------------------
(* The unsent release pass: after every turn and once at boot *)

\* Mutant: any reservation without a receipt counts as unsent.
UnsentWithoutReceipt(p) ==
    LET n == Len(orders) IN
    n > 0 /\ mem[p].held # None /\ mem[p].held.attempt = n /\ ~Recorded(n)

\* The scope's newest commit belongs to a flow recorded to halt before the
\* send, and the ledger holds exactly that reservation, unsent.
unsent_candidate(p) ==
    LET n == Len(orders) IN
    /\ n > 0 /\ flow[n] = "halted"
    /\ mem[p].held = [attempt |-> n, sent |-> FALSE]

EndTurn(p) ==
    /\ At(p, "turn")
    /\ Go(p, IF unsent_candidate(p)
               THEN [Idle EXCEPT !.pc = "unsent", !.a = Len(orders)] ELSE Idle)
    /\ UNCHANGED <<log, epoch, orders, flow, receipts, ev, broker, boots, refusals>>

\* The log first; a reservation already RELEASED goes straight to the discard.
UnsentRelease(p) ==
    /\ At(p, "unsent")
    /\ IF reservation_state(job(p).a) = "RELEASED"
         THEN log' = log
         ELSE log' = Append(log, Transition(job(p).a, "RELEASED", "release-unsent", job(p).a))
    /\ Goto(p, "discard")
    /\ UNCHANGED <<epoch, orders, flow, receipts, ev, broker, boots, refusals>>

UnsentRefused(p) ==
    /\ At(p, "unsent") /\ refusals < MaxRefusals
    /\ refusals' = refusals + 1
    /\ Go(p, Idle)
    /\ UNCHANGED <<log, epoch, orders, flow, receipts, ev, broker, boots>>

UnsentDiscard(p) ==
    /\ At(p, "discard")
    /\ mem' = [mem EXCEPT ![p].held = None, ![p].job.pc = "unsent_intent"]
    /\ ev' = [ev EXCEPT !.discarded = @ \cup {job(p).a}]
    /\ UNCHANGED <<log, epoch, orders, flow, receipts, broker, boots, refusals>>

UnsentIntent(p) ==
    /\ At(p, "unsent_intent")
    /\ ev' = [ev EXCEPT !.unsent = @ \cup {job(p).a}]
    /\ Go(p, Idle)
    /\ UNCHANGED <<log, epoch, orders, flow, receipts, broker, boots, refusals>>

-----------------------------------------------------------------------------
(* Entry discharge: what is pending and what has committed *)

valid_close_commit(it) ==
    \E i \in DOMAIN log : /\ log[i] = Transition(it.attempt, "RELEASED", "release", it.attempt)
                          /\ i > it.closeSeq
valid_entry_commit(it) == committed_command("release-entry", it.attempt)

entry_already_released(it) ==
    /\ reservation_state(it.entry) = "RELEASED"
    /\ \E o \in ev.pending : /\ o.entry = it.entry
                             /\ valid_close_commit(o) /\ valid_entry_commit(o)

\* Mutant: the recovery scan looks only at closes that have not committed.
RecoveryScanUncommitted ==
    {it.attempt : it \in {i \in ev.pending : ~valid_close_commit(i)}}

pending_recovery_attempt_ids ==
    {it.attempt : it \in {i \in ev.pending : /\ valid_close_commit(i)
                                            /\ ~valid_entry_commit(i)
                                            /\ ~entry_already_released(i)}}
PendingOf(a) == CHOOSE it \in ev.pending : it.attempt = a

scope_has_no_new_attempt(it) ==
    \A r \in attempts \ {it.entry, it.attempt} : first_seq(r) <= it.closeSeq

\* The close fills exactly the rest of the entry and the broker is flat.
entry_discharge_admits(a, h, snap) ==
    /\ ~h.refused
    /\ h.prior + final_full_fill_quantity(a) = h.entry
    /\ broker_position_flat(snap)

-----------------------------------------------------------------------------
(* The fill observer: plan and fetch, then apply later on the engine thread *)

reprojectable(a) ==
    /\ Recorded(a) /\ Last(receipts[a]).kind = "FULL_FILL"
    /\ ~committed_command("release", a)
tracked(a) == Recorded(a) /\ Head(receipts[a]).kind = "ACK" /\ ~Terminal(a)

\* The attempts of S as items of the plan, in their order.
Plan(op, S) ==
    LET plan[n \in 0..Len(orders)] ==
          IF n = 0 THEN <<>>
          ELSE IF n \in S THEN Append(plan[n - 1], [op |-> op, a |-> n])
          ELSE plan[n - 1]
    IN  plan[Len(orders)]

Poll(p) ==
    /\ At(p, "idle") /\ mem[p].poll = None
    /\ LET todo == Plan("resume", pending_recovery_attempt_ids)
                    \o Plan("reproject", {a \in attempts : reprojectable(a)})
                    \o Plan("emit", {a \in attempts : tracked(a)})
       IN  /\ todo # <<>>
           /\ mem' = [mem EXCEPT ![p].poll = [todo |-> todo, snap |-> broker]]
    /\ UNCHANGED <<log, epoch, orders, flow, receipts, ev, broker, boots, refusals>>

StartApply(p) ==
    /\ At(p, "idle") /\ mem[p].poll # None
    /\ Goto(p, "next")
    /\ UNCHANGED <<log, epoch, orders, flow, receipts, ev, broker, boots, refusals>>

EndApply(p) ==
    /\ At(p, "next") /\ mem[p].poll.todo = <<>>
    /\ mem' = [mem EXCEPT ![p].poll = None, ![p].job = [Idle EXCEPT !.pc = "turn"]]
    /\ UNCHANGED <<log, epoch, orders, flow, receipts, ev, broker, boots, refusals>>

Item(p, op) ==
    /\ At(p, "next") /\ mem[p].poll.todo # <<>>
    /\ Head(mem[p].poll.todo).op = op
\* Take the next item of the plan; its work goes on as job j.
Take(p, j) ==
    mem' = [mem EXCEPT ![p].job = j, ![p].poll.todo = Tail(mem[p].poll.todo)]
NextItem == [Idle EXCEPT !.pc = "next"]
snapshot(p) == mem[p].poll.snap

\* Mutant: the cumulative quantity is taken for an increment.
ClassifyIncrement(a, s) ==
    IF ~s.seen \/ s.filled = 0 THEN None
    ELSE LET known == IF Last(receipts[a]).filled = None THEN 0 ELSE Last(receipts[a]).filled
         IN  [kind |-> IF known + s.filled >= orders[a].qty THEN "FULL_FILL" ELSE "PARTIAL_FILL",
              filled |-> known + s.filled]

\* What the snapshot says of an order that is news and not a cancel.
classify(a, s) ==
    CASE \/ ~s.seen \/ s.filled = 0
         \/ ~s.live /\ s.filled < orders[a].qty
         \/ s.filled = Last(receipts[a]).filled -> None
      [] OTHER -> [kind |-> IF s.filled = orders[a].qty THEN "FULL_FILL" ELSE "PARTIAL_FILL",
                   filled |-> s.filled]

Emit(p) ==
    /\ Item(p, "emit")
    /\ LET a == Head(mem[p].poll.todo).a
           r == classify(a, snapshot(p)[a])
       IN  IF tracked(a) /\ r # None /\ Holds(p, a)
             THEN /\ receipts' = [receipts EXCEPT ![a] = Append(@, r)]
                  /\ Take(p, IF r.kind = "FULL_FILL"
                               THEN [Idle EXCEPT !.pc = "obligation", !.a = a, !.op = "fill"]
                               ELSE NextItem)
             ELSE Take(p, NextItem) /\ receipts' = receipts
    /\ UNCHANGED <<log, epoch, orders, flow, ev, broker, boots, refusals>>

\* The observer projects a recorded fill again while its release has not
\* committed: the proof if it is not durable, the witness if it is missing.
Reproject(p) ==
    /\ Item(p, "reproject")
    /\ LET a == Head(mem[p].poll.todo).a IN
       Take(p, CASE ~reprojectable(a) -> NextItem
                 [] reprojectable(a) /\ a \in ev.proofs /\ a \in ev.obligations ->
                       [Idle EXCEPT !.pc = "witness", !.a = a, !.op = "fill"]
                 [] OTHER -> [Idle EXCEPT !.pc = "obligation", !.a = a, !.op = "fill"])
    /\ UNCHANGED <<log, epoch, orders, flow, receipts, ev, broker, boots, refusals>>

-----------------------------------------------------------------------------
(* Finality projection: obligation, proof, witness, then the consumer *)

RecordObligation(p) ==
    /\ At(p, "obligation") /\ Goto(p, "proof")
    /\ ev' = [ev EXCEPT !.obligations = @ \cup {job(p).a}]
    /\ UNCHANGED <<log, epoch, orders, flow, receipts, broker, boots, refusals>>

RecordProof(p) ==
    /\ At(p, "proof") /\ Goto(p, "witness")
    /\ ev' = [ev EXCEPT !.proofs = @ \cup {job(p).a}]
    /\ UNCHANGED <<log, epoch, orders, flow, receipts, broker, boots, refusals>>

RecordWitness(p) ==
    /\ At(p, "witness") /\ Goto(p, "consume")
    /\ ev' = [ev EXCEPT !.witness = @ \cup {job(p).a}]
    /\ UNCHANGED <<log, epoch, orders, flow, receipts, broker, boots, refusals>>

-----------------------------------------------------------------------------
(* The release consumer *)

\* Every gate before the destination is chosen.
fill_is_proven(p, a) ==
    /\ a \in ev.witness /\ a \in ev.proofs /\ a \in ev.obligations
    /\ reconcile(a, snapshot(p))

\* The pending row of a close over one consumed entry; a retry must find the
\* row it would write.
pending_binding(a, entry) ==
    [attempt |-> a, entry |-> entry, closeSeq |-> reservation_last_seq(a),
     entrySeq |-> reservation_last_seq(entry)]
binding_consistent(a, entry) ==
    \A it \in ev.pending : it.attempt = a => it = pending_binding(a, entry)

\* An entry fill goes on to POSITION_CONSUMED, a close fill first binds
\* itself to the entry; any other shape holds.
Consume(p) ==
    /\ At(p, "consume")
    /\ LET a == job(p).a
           others == other_outstanding(a)
           close == /\ Cardinality(others) = 1
                    /\ \A e \in others : /\ reservation_state(e) = "POSITION_CONSUMED"
                                         /\ binding_consistent(a, e)
           proven == fill_is_proven(p, a)
       IN  Go(p, CASE proven /\ others = {} -> [job(p) EXCEPT !.pc = "intent"]
                   [] proven /\ close ->
                        [job(p) EXCEPT !.pc = "pending", !.entry = CHOOSE e \in others : TRUE]
                   [] OTHER -> NextItem)
    /\ UNCHANGED <<log, epoch, orders, flow, receipts, ev, broker, boots, refusals>>

\* Mutant: the close is released without a recovery row.
PendingSkipped(p) ==
    /\ At(p, "pending") /\ Goto(p, "link")
    /\ UNCHANGED <<log, epoch, orders, flow, receipts, ev, broker, boots, refusals>>

PersistPending(p) ==
    /\ At(p, "pending") /\ Goto(p, "link")
    /\ ev' = [ev EXCEPT !.pending = @ \cup {pending_binding(job(p).a, job(p).entry)}]
    /\ UNCHANGED <<log, epoch, orders, flow, receipts, broker, boots, refusals>>

PersistLink(p) ==
    /\ At(p, "link") /\ Goto(p, "intent")
    /\ ev' = [ev EXCEPT !.links = @ \cup {<<job(p).a, job(p).entry>>}]
    /\ UNCHANGED <<log, epoch, orders, flow, receipts, broker, boots, refusals>>

destination(j) == IF j.entry = None THEN "POSITION_CONSUMED" ELSE "RELEASED"

\* A close is released only in the state and at the sequence its pending row
\* names.
release_snapshot_current(j) ==
    \A it \in ev.pending : it.attempt = j.a => it.closeSeq = reservation_last_seq(j.a)

Intent(a, res, dest) == [attempt |-> a, res |-> res, dest |-> dest]

\* The intent is durable before the log is touched.
ReleaseIntent(p) ==
    /\ At(p, "intent")
    /\ IF release_snapshot_current(job(p))
         THEN /\ ev' = [ev EXCEPT !.intents = @ \cup {Intent(job(p).a, job(p).a, destination(job(p)))}]
              /\ Go(p, [job(p) EXCEPT !.pc = "release", !.at = LogAt])
         ELSE ev' = ev /\ Go(p, NextItem)
    /\ UNCHANGED <<log, epoch, orders, flow, receipts, broker, boots, refusals>>

\* The log's own checks: epoch, tip, one effect per command, nothing leaves
\* RELEASED.
log_accepts(j, cmd, res) ==
    /\ j.at = LogAt
    /\ ~committed_command(cmd, j.a)
    /\ reservation_state(res) # "RELEASED"

CommitRelease(p) ==
    /\ At(p, "release") /\ log_accepts(job(p), "release", job(p).a)
    /\ log' = Append(log, Transition(job(p).a, destination(job(p)), "release", job(p).a))
    /\ Go(p, [job(p) EXCEPT !.pc = IF job(p).entry = None THEN "project" ELSE "history",
                            !.at = None])
    /\ UNCHANGED <<epoch, orders, flow, receipts, ev, broker, boots, refusals>>

\* Refused by a check or by an unavailable store: held, tried again later.
ReleaseRefused(p) ==
    /\ At(p, "release") /\ Go(p, NextItem)
    /\ IF log_accepts(job(p), "release", job(p).a)
         THEN refusals < MaxRefusals /\ refusals' = refusals + 1
         ELSE refusals' = refusals
    /\ UNCHANGED <<log, epoch, orders, flow, receipts, ev, broker, boots>>

\* The engine's ledger follows the log.
ProjectRelease(p) ==
    /\ At(p, "project")
    /\ IF Holds(p, job(p).a)
         THEN /\ mem' = [mem EXCEPT ![p].held = None, ![p].job = NextItem]
              /\ ev' = [ev EXCEPT !.projected = @ \cup {job(p).a}]
         ELSE Go(p, NextItem) /\ ev' = ev
    /\ UNCHANGED <<log, epoch, orders, flow, receipts, broker, boots, refusals>>

-----------------------------------------------------------------------------
(* Entry discharge, and its recovery *)

\* The newest hold marker of an attempt.
Mark(a, sig) == {m \in ev.marks : m.attempt # a} \cup {[attempt |-> a, sig |-> sig]}

\* Recovery of a committed close whose entry is not discharged.  A refusal
\* marked with the same log position is not tried again.
Resume(p) ==
    /\ Item(p, "resume")
    /\ LET a  == Head(mem[p].poll.todo).a
           it == PendingOf(a)
           h  == durable_close_history(it.entry, a)
           ready == /\ reservation_state(it.entry) = "POSITION_CONSUMED"
                    /\ reservation_last_seq(it.entry) = it.entrySeq
                    /\ fill_is_proven(p, a)
                    /\ entry_discharge_admits(a, h, snapshot(p))
           done  == valid_entry_commit(it) \/ entry_already_released(it)
           tried == [attempt |-> a, sig |-> LogAt] \in ev.marks
       IN  CASE done \/ (ready /\ tried) -> Take(p, NextItem) /\ ev' = ev
             [] ~done /\ ~ready ->
                  Take(p, NextItem) /\ ev' = [ev EXCEPT !.marks = Mark(a, "HELD")]
             [] OTHER ->
                  /\ Take(p, [pc |-> "history", a |-> a, entry |-> it.entry, op |-> "resume",
                              at |-> None, sig |-> LogAt])
                  /\ ev' = ev
    /\ UNCHANGED <<log, epoch, orders, flow, receipts, broker, boots, refusals>>

\* Where a discharge that did not commit goes on.
AfterRefusal(p) ==
    IF job(p).op = "resume"
      THEN /\ Go(p, NextItem)
           /\ ev' = [ev EXCEPT !.marks = Mark(job(p).a, job(p).sig)]
      ELSE Goto(p, "project") /\ ev' = ev

\* The history, the snapshot and the log position are read one by one.
DischargeHistory(p) ==
    /\ At(p, "history")
    /\ LET h == durable_close_history(job(p).entry, job(p).a)
       IN  IF entry_discharge_admits(job(p).a, h, snapshot(p))
             THEN Go(p, [job(p) EXCEPT !.pc = "discharge", !.at = LogAt]) /\ ev' = ev
             ELSE AfterRefusal(p)
    /\ UNCHANGED <<log, epoch, orders, flow, receipts, broker, boots, refusals>>

discharge_fence(j) ==
    /\ j.at = LogAt
    /\ scope_has_no_new_attempt(PendingOf(j.a))
    /\ reservation_state(j.entry) = "POSITION_CONSUMED"
    /\ reservation_last_seq(j.entry) = PendingOf(j.a).entrySeq

DischargeIntent(p) ==
    /\ At(p, "discharge")
    /\ IF discharge_fence(job(p))
         THEN /\ ev' = [ev EXCEPT !.intents = @ \cup {Intent(job(p).a, job(p).entry, "RELEASED")}]
              /\ Goto(p, "discharge_commit")
         ELSE AfterRefusal(p)
    /\ UNCHANGED <<log, epoch, orders, flow, receipts, broker, boots, refusals>>

CommitDischarge(p) ==
    /\ At(p, "discharge_commit")
    /\ log_accepts(job(p), "release-entry", job(p).entry)
    /\ log' = Append(log, Transition(job(p).entry, "RELEASED", "release-entry", job(p).a))
    /\ IF job(p).op = "resume" THEN Go(p, NextItem) ELSE Goto(p, "project")
    /\ UNCHANGED <<epoch, orders, flow, receipts, ev, broker, boots, refusals>>

DischargeRefused(p) ==
    /\ At(p, "discharge_commit")
    /\ IF log_accepts(job(p), "release-entry", job(p).entry)
         THEN refusals < MaxRefusals /\ refusals' = refusals + 1
         ELSE refusals' = refusals
    /\ AfterRefusal(p)
    /\ UNCHANGED <<log, epoch, orders, flow, receipts, broker, boots>>

-----------------------------------------------------------------------------

Flow(p) == FlowHalts(p) \/ FlowSends(p) \/ FlowRaises(p) \/ RecordAnswer(p)
UnsentPass(p) ==
    EndTurn(p) \/ UnsentRelease(p) \/ UnsentRefused(p) \/ UnsentDiscard(p) \/ UnsentIntent(p)
Observe(p) == StartApply(p) \/ Emit(p) \/ Reproject(p) \/ Resume(p) \/ EndApply(p)
Project(p) == RecordObligation(p) \/ RecordProof(p) \/ RecordWitness(p) \/ ProjectRelease(p)
Release(p) ==
    \/ Consume(p) \/ PersistPending(p) \/ PersistLink(p)
    \/ ReleaseIntent(p) \/ CommitRelease(p) \/ ReleaseRefused(p)
Discharge(p) ==
    DischargeHistory(p) \/ DischargeIntent(p) \/ CommitDischarge(p) \/ DischargeRefused(p)

\* A step of the code once it has started something.
Work(p) ==
    \/ AtomicCommit(p) \/ CommitRefused(p) \/ Flow(p) \/ UnsentPass(p)
    \/ Observe(p) \/ Project(p) \/ Release(p) \/ Discharge(p)

Next ==
    \/ \E p \in Procs : Boot(p) \/ Crash(p) \/ VerifyLedger(p) \/ Poll(p) \/ Work(p)
    \/ \E a \in attempts : BrokerFills(a) \/ BrokerCancels(a)

Spec == Init /\ [][Next]_vars

\* A started process runs its loop and polls, and a supervisor starts one
\* when none is running; ticks, fills and crashes are never owed.
Fairness ==
    \A p \in Procs : WF_vars(Work(p)) /\ WF_vars(Poll(p)) /\ WF_vars(Boot(p))

FairSpec == Spec /\ Fairness

=============================================================================
