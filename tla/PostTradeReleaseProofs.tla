----------------------- MODULE PostTradeReleaseProofs -----------------------
(***************************************************************************)
(* Proofs about the post-trade release path, for every number of           *)
(* processes, orders, boots and refusals.                                  *)
(***************************************************************************)
EXTENDS PostTradeReleaseProps, NatSetInduction, FiniteSetTheorems, SequenceTheorems

-----------------------------------------------------------------------------
(* Types *)

Pc == {"down", "idle", "turn", "commit", "flow", "answer", "unsent", "discard",
       "unsent_intent", "next", "obligation", "proof", "witness", "consume", "pending",
       "link", "intent", "release", "project", "history", "discharge", "discharge_commit"}
Order == [effect : {"OPEN", "CLOSE"}, qty : 1..MaxQty]
Where == [tip : Nat, epoch : Nat]
JobType == [pc : Pc, a : AttemptOrNone, entry : AttemptOrNone,
            op : Order \cup {None, "fill", "resume"}, at : Where \cup {None},
            sig : Where \cup {None}]
HeldType == [attempt : Attempt, sent : BOOLEAN] \cup {None}
ItemType == [op : {"resume", "reproject", "emit"}, a : Attempt]
PollType == [todo : Seq(ItemType), snap : Snapshot] \cup {None}
MemType == [job : JobType, epoch : Nat, held : HeldType, poll : PollType]
States == {"COMMITTED_UNBOUND", "POSITION_CONSUMED", "RELEASED"}
Row == [res : Attempt, to : States,
        cmd : {"commit", "release", "release-unsent", "release-entry"}, by : Attempt]
Receipt == [kind : {"ACK", "REJECT", "FULL_FILL", "PARTIAL_FILL"},
            filled : (0..MaxQty) \cup {None}]
PendingType == [attempt : Attempt, entry : Attempt, closeSeq : Nat, entrySeq : Nat]
EvType ==
    [pending : SUBSET PendingType, links : SUBSET (Attempt \X Attempt),
     intents : SUBSET [attempt : Attempt, res : Attempt, dest : States],
     unsent : SUBSET Attempt, discarded : SUBSET Attempt, projected : SUBSET Attempt,
     obligations : SUBSET Attempt, proofs : SUBSET Attempt, witness : SUBSET Attempt,
     marks : SUBSET [attempt : Attempt, sig : Where \cup {None, "HELD"}]]

StoresTyped ==
    /\ log \in Seq(Row) /\ orders \in Seq(Order)
    /\ flow \in Seq(FlowEnd \cup {"open"}) /\ receipts \in Seq(Seq(Receipt))
    /\ Len(flow) = Len(orders) /\ Len(receipts) = Len(orders)
    /\ Len(orders) <= MaxAttempts
    /\ ev \in EvType
    /\ broker \in Snapshot
    /\ boots \in 0..MaxBoots /\ epoch = boots /\ refusals \in 0..MaxRefusals

TInv == StoresTyped /\ mem \in [Procs -> MemType]

-----------------------------------------------------------------------------
(* The rows of a reservation *)

\* The rows of r in a log l.
RowsIn(l, r) == {i \in DOMAIN l : l[i].res = r}

\* A set of positions has a first and a last one.
LEMMA Extremes ==
    ASSUME NEW n \in Nat, NEW S, S \subseteq 1..n, S # {}
    PROVE  /\ Max(S) \in S /\ \A y \in S : y <= Max(S)
           /\ Min(S) \in S /\ \A y \in S : Min(S) <= y
<1>1. \E x \in S : \A y \in S : x <= y
  <2>1. S \subseteq Nat
    OBVIOUS
  <2> QED BY <2>1, LeastNat
<1>2. \E x \in S : \A y \in S : x >= y
  <2> DEFINE T == {n - x : x \in S}
  <2>1. T \subseteq Nat /\ T # {}
    <3>1. \A x \in S : n - x \in Nat
      OBVIOUS
    <3> QED BY <3>1
  <2> HIDE DEF T
  <2>2. PICK t \in T : \A u \in T : t <= u
    BY <2>1, LeastNat
  <2>3. PICK x \in S : t = n - x
    BY <2>2 DEF T
  <2>4. ASSUME NEW y \in S PROVE x >= y
    <3>1. n - y \in T
      BY DEF T
    <3>2. n - x <= n - y
      BY <2>2, <2>3, <3>1
    <3> QED BY <3>2
  <2> QED BY <2>4
<1>3. Max(S) \in S /\ \A y \in S : Max(S) >= y
  BY <1>2 DEF Max
<1>4. Min(S) \in S /\ \A y \in S : Min(S) <= y
  BY <1>1 DEF Min
<1> QED BY <1>3, <1>4

\* The last position of a set is the one that no other is after.
LEMMA MaxIs ==
    ASSUME NEW S, S \subseteq Nat, NEW m \in S, \A y \in S : y <= m
    PROVE  Max(S) = m
<1>1. \A y \in S : m >= y
  OBVIOUS
<1>2. Max(S) \in S /\ \A y \in S : Max(S) >= y
  BY <1>1 DEF Max
<1>3. Max(S) <= m /\ m <= Max(S) /\ Max(S) \in Nat /\ m \in Nat
  BY <1>2
<1> QED BY <1>3

\* The first position of a set is the one that no other is before.
LEMMA MinIs ==
    ASSUME NEW S, S \subseteq Nat, NEW m \in S, \A y \in S : m <= y
    PROVE  Min(S) = m
<1>1. Min(S) \in S /\ \A y \in S : Min(S) <= y
  BY DEF Min
<1>2. Min(S) <= m /\ m <= Min(S) /\ Min(S) \in Nat /\ m \in Nat
  BY <1>1
<1> QED BY <1>2

\* What one more row makes of the rows of each reservation.
LEMMA RowsAppended ==
    ASSUME NEW l \in Seq(Row), NEW x \in Row, NEW r
    PROVE  /\ RowsIn(Append(l, x), r) = IF r = x.res THEN RowsIn(l, r) \cup {Len(l) + 1}
                                        ELSE RowsIn(l, r)
           /\ Len(l) \in Nat /\ RowsIn(l, r) \subseteq 1..Len(l)
           /\ \A i \in RowsIn(l, r) : Append(l, x)[i] = l[i]
           /\ Append(l, x)[Len(l) + 1] = x
BY DEF RowsIn, Row

\* The reservation of the new row is in the state it names; the others, and every
\* first row that was there, stay.
LEMMA ProjectionAppended ==
    ASSUME NEW l \in Seq(Row), NEW x \in Row, NEW r
    PROVE  /\ r = x.res =>
                /\ Append(l, x)[Max(RowsIn(Append(l, x), r))].to = x.to
                /\ Max(RowsIn(Append(l, x), r)) = Len(l) + 1
                /\ RowsIn(l, r) = {} => Min(RowsIn(Append(l, x), r)) = Len(l) + 1
           /\ r # x.res /\ RowsIn(l, r) # {} =>
                /\ Append(l, x)[Max(RowsIn(Append(l, x), r))].to = l[Max(RowsIn(l, r))].to
                /\ Max(RowsIn(Append(l, x), r)) = Max(RowsIn(l, r))
           /\ RowsIn(l, r) # {} => Min(RowsIn(Append(l, x), r)) = Min(RowsIn(l, r))
<1> DEFINE n == Len(l)
           A == RowsIn(l, r)
           B == RowsIn(Append(l, x), r)
<1>1. /\ B = IF r = x.res THEN A \cup {n + 1} ELSE A
      /\ n \in Nat /\ A \subseteq 1..n
      /\ \A i \in A : Append(l, x)[i] = l[i]
      /\ Append(l, x)[n + 1] = x
  BY RowsAppended
<1> HIDE DEF A, B, n
<1>2. CASE r = x.res
  <2>1. B = A \cup {n + 1} /\ B \subseteq Nat /\ n + 1 \in B /\ \A y \in B : y <= n + 1
    BY <1>1, <1>2
  <2>2. Max(B) = n + 1
    BY <2>1, MaxIs
  <2>3. A = {} => Min(B) = n + 1
    <3>1. A = {} => \A y \in B : n + 1 <= y
      BY <1>1, <2>1
    <3> QED BY <2>1, <3>1, MinIs
  <2>4. ASSUME A # {} PROVE Min(B) = Min(A)
    <3>1. Min(A) \in A /\ \A y \in A : Min(A) <= y
      BY <1>1, <2>4, Extremes
    <3>2. Min(A) \in B /\ \A y \in B : Min(A) <= y
      BY <1>1, <2>1, <3>1
    <3> QED BY <2>1, <3>2, MinIs
  <2> QED BY <1>1, <1>2, <2>2, <2>3, <2>4 DEF A, B, n
<1>3. CASE r # x.res
  <2>1. A # {} => Max(A) \in A
    BY <1>1, Extremes
  <2> QED BY <1>1, <1>3, <2>1 DEF A, B, n
<1> QED BY <1>2, <1>3

-----------------------------------------------------------------------------
(* The invariant *)

Unbound(a) == reservation_state(a) = "COMMITTED_UNBOUND"
Consumed(a) == reservation_state(a) = "POSITION_CONSUMED"
IsClose(a) == orders[a].effect = "CLOSE"
FullFill(a) == Recorded(a) /\ Last(receipts[a]).kind = "FULL_FILL"
InCharge(p) == ~At(p, "down") /\ mem[p].epoch = epoch
NoOrder == [seen |-> FALSE, live |-> FALSE, filled |-> 0]

\* e is the entry that the close c was committed over.
Anchor(e, c) ==
    /\ e \in attempts /\ e < c /\ ~IsClose(e)
    /\ \A r \in attempts : e < r /\ r <= c => IsClose(r)

\* The rows of the log name attempts, every attempt has one, and the release of a
\* fill gives the capacity back only for a close.
RowInv ==
    /\ \A i \in DOMAIN log :
          /\ log[i].res \in attempts /\ log[i].by \in attempts
          /\ log[i].cmd = "release" /\ log[i].to = "RELEASED" => IsClose(log[i].res)
    /\ \A a \in attempts : RowsOf(a) # {}

\* While a reservation is unbound nothing else happens in the log: its commit is
\* the last row, and if it is a close its entry is there.
UnboundInv ==
    \A a \in attempts : Unbound(a) =>
        /\ a = Len(orders) /\ log[tip].res = a /\ first_seq(a) = tip
        /\ a \notin ev.projected /\ a \notin ev.discarded
        /\ ~committed_command("release", a)
        /\ IsClose(a) => \E e \in attempts : e # a /\ Consumed(e)

\* A consumed entry came from the release of its fill, and since then only
\* closes were committed.
ConsumedInv ==
    \A a \in attempts : Consumed(a) =>
        /\ committed_command("release", a) /\ ~IsClose(a)
        /\ \A c \in attempts : a < c => IsClose(c)

\* Why a reservation is where it is: a full fill, or a flow that never sent; a
\* released close has its recovery row, and a discharged entry is released.
ReleasedInv ==
    \A a \in attempts :
        /\ committed_command("release", a) => FullFill(a)
        /\ Released(a) /\ flow[a] # "halted" => FullFill(a)
        /\ Released(a) /\ IsClose(a) /\ flow[a] # "halted" => committed_command("release", a)
        /\ committed_command("release-entry", a) =>
              \A e \in attempts : Anchor(e, a) => Released(e)
        /\ committed_command("release", a) /\ IsClose(a) =>
              \E it \in ev.pending : it.attempt = a /\ valid_close_commit(it)

\* A recovery row names a row of its close and the entry it was committed over.
PendingRow(it) ==
    /\ it.attempt \in attempts /\ it.entry \in attempts /\ ~Unbound(it.entry)
    /\ it.closeSeq \in RowsOf(it.attempt)
    /\ IsClose(it.attempt) => Anchor(it.entry, it.attempt)
PendingInv == \A it \in ev.pending : PendingRow(it)

EvInv ==
    /\ ev.unsent \subseteq attempts /\ ev.projected \subseteq attempts
    /\ ev.discarded \subseteq attempts
    /\ \A a \in ev.proofs : a \in attempts /\ FullFill(a)

\* What the broker and the receipts say of an order.
BrokerInv ==
    /\ \A a \in Attempt : a \notin attempts => broker[a] = NoOrder
    /\ \A a \in attempts :
        /\ broker[a].filled <= orders[a].qty
        /\ broker[a].live => broker[a].filled < orders[a].qty
        /\ flow[a] = "halted" => broker[a] = NoOrder
        /\ Recorded(a) => flow[a] = "sent"
        /\ \A i \in DOMAIN receipts[a] : receipts[a][i].filled \in {None} \cup 0..orders[a].qty
        /\ FullFill(a) => /\ Last(receipts[a]).filled = orders[a].qty
                          /\ broker[a].filled = orders[a].qty

StoreInv ==
    /\ RowInv /\ UnboundInv /\ ConsumedInv /\ ReleasedInv /\ PendingInv /\ EvInv
    /\ BrokerInv /\ ScopeShape

Unsent == {"unsent", "discard", "unsent_intent"}
Sending == {"flow", "answer"}
Proving == {"obligation", "proof", "witness", "consume"}
Binding == {"pending", "link", "intent", "release"}
Discharging == {"history", "discharge", "discharge_commit"}
After == Discharging \cup {"project"}
Filling == Proving \cup Binding \cup After

\* What a process with memory m is doing fits what the stores say of the attempt
\* it is about.
JobInv(m) ==
    LET j == m.job IN
    /\ j.pc = "down" => m = Down
    /\ j.pc # "down" => m.epoch \in 1..epoch
    /\ j.pc \in Sending \cup Unsent \cup Filling => j.a \in attempts
    /\ j.pc = "flow" => /\ flow[j.a] = "open" /\ receipts[j.a] = <<>>
                        /\ broker[j.a] = NoOrder
                        /\ m.held = [attempt |-> j.a, sent |-> FALSE]
    /\ j.pc = "answer" => flow[j.a] = "sent" /\ receipts[j.a] = <<>>
    /\ j.pc \in Unsent => flow[j.a] = "halted"
    /\ j.pc \in {"unsent", "discard"} => m.held # None /\ m.held.attempt = j.a
    /\ j.pc \in {"discard", "unsent_intent"} => Released(j.a)
    /\ j.pc \in Filling => FullFill(j.a) /\ j.op \in {"fill", "resume"}
    /\ j.pc \in Filling \cup {"next"} => m.poll # None
    /\ j.pc \in After => committed_command("release", j.a)

\* A poll is about attempts that there are, and what it read is in the past.
ItemInv(item) ==
    /\ item.a \in attempts
    /\ item.op = "resume" => /\ committed_command("release", item.a) /\ IsClose(item.a)
                             /\ \E it \in ev.pending : it.attempt = item.a
PollInv(m) ==
    m.poll # None =>
        /\ \A i \in DOMAIN m.poll.todo : ItemInv(m.poll.todo[i])
        /\ \A a \in Attempt : m.poll.snap[a].filled <= broker[a].filled

\* What step 8 verified holds until the commit, for the process in charge.
CommitInv(m) ==
    m.job.pc = "commit" =>
        /\ m.held = None /\ m.job.op \in Order /\ m.job.at \in Where
        /\ m.job.at.tip <= tip
        /\ m.epoch = epoch =>
              /\ m.job.op.effect = "OPEN" => outstanding_reservations = {}
              /\ m.job.op.effect = "CLOSE" /\ m.job.at.tip = tip =>
                    \E e \in attempts : outstanding_reservations = {e} /\ Consumed(e)

\* A close is released for the entry it was committed over, an entry fill only
\* for an OPEN, and with an unbound attempt about no entry is discharged.
BindInv(m) ==
    LET j == m.job IN
    /\ j.pc \in Proving => j.entry = None
    /\ j.pc \in {"pending", "link"} \cup Discharging => j.entry # None
    /\ j.pc \in Binding \cup Discharging /\ j.entry # None =>
          /\ j.entry \in attempts /\ ~Unbound(j.entry)
          /\ IsClose(j.a) => Anchor(j.entry, j.a)
          /\ Unbound(j.a) => IsClose(j.a)
          /\ j.pc # "pending" => \E it \in ev.pending : it.attempt = j.a
    /\ j.pc \in Binding /\ j.entry = None /\ Unbound(j.a) => ~IsClose(j.a)
    /\ j.pc \in Discharging => IsClose(j.a)
    /\ j.pc \in {"release", "discharge", "discharge_commit"} => j.at \in Where /\ j.at.tip <= tip
    /\ j.pc = "discharge_commit" /\ j.at.tip = tip => \A a \in attempts : ~Unbound(a)

\* The ledger of the process in charge.
HeldInv(m) ==
    m.job.pc # "down" /\ m.epoch = epoch =>
        /\ m.held # None => m.held.attempt = Len(orders)
        /\ \A a \in attempts : Unbound(a) => m.held # None /\ m.held.attempt = a

MemInv(m) == JobInv(m) /\ PollInv(m) /\ CommitInv(m) /\ BindInv(m) /\ HeldInv(m)
ProcInv(p) == \A m \in MemType : mem[p] = m => MemInv(m)

\* No two processes run under one epoch or send one order.
PairInv ==
    \A p, q \in Procs : p # q =>
        /\ ~At(p, "down") /\ ~At(q, "down") => mem[p].epoch # mem[q].epoch
        /\ job(p).pc \in Sending /\ job(q).pc \in Sending => job(p).a # job(q).a

IInv == TInv /\ StoreInv /\ PairInv /\ \A p \in Procs : ProcInv(p)

-----------------------------------------------------------------------------
(* Steps as they look to a process that does not take them *)

\* The stores only ever grow in this sense.
Grows ==
    /\ attempts \subseteq attempts' /\ \A a \in attempts : orders'[a] = orders[a]
    /\ \A a \in attempts :
          /\ flow[a] # "open" => flow'[a] = flow[a]
          /\ Unbound(a)' => Unbound(a)
          /\ Released(a) => Released(a)'
          /\ FullFill(a) => FullFill(a)'
          /\ committed_command("release", a) => committed_command("release", a)'
    /\ \A a \in Attempt : broker[a].filled <= broker'[a].filled
    /\ ev.pending \subseteq ev'.pending
    /\ tip <= tip' /\ (tip' = tip => log' = log /\ orders' = orders)
    /\ epoch <= epoch'

\* The order that a process with memory m is sending is left alone.
Spares(m) ==
    /\ m.job.pc \in Sending => /\ flow'[m.job.a] = flow[m.job.a]
                               /\ receipts'[m.job.a] = receipts[m.job.a]
    /\ m.job.pc = "flow" => broker'[m.job.a] = broker[m.job.a]

\* What the types say of the attempts.
LEMMA AttemptsAre ==
    ASSUME StoresTyped
    PROVE  /\ Len(orders) \in Nat /\ attempts = 1..Len(orders) /\ attempts \subseteq Attempt
           /\ tip \in Nat /\ DOMAIN log = 1..tip
           /\ DOMAIN flow = attempts /\ DOMAIN receipts = attempts
           /\ \A a \in attempts : orders[a] \in Order /\ receipts[a] \in Seq(Receipt)
BY BoundsAssumption DEF StoresTyped, attempts, tip, Attempt

\* The same after a step.
LEMMA AttemptsAreThen ==
    ASSUME StoresTyped'
    PROVE  /\ Len(orders') \in Nat /\ attempts' = 1..Len(orders') /\ attempts' \subseteq Attempt
           /\ tip' \in Nat /\ DOMAIN log' = 1..tip'
           /\ DOMAIN flow' = attempts' /\ DOMAIN receipts' = attempts'
           /\ \A a \in attempts' : orders'[a] \in Order /\ receipts'[a] \in Seq(Receipt)
BY BoundsAssumption DEF StoresTyped, attempts, tip, Attempt

\* Entries of committed closes are settled.
LEMMA AnchorsStay ==
    ASSUME StoresTyped, StoresTyped', attempts \subseteq attempts',
           \A a \in attempts : orders'[a] = orders[a], NEW c \in attempts, NEW e
    PROVE  Anchor(e, c)' <=> Anchor(e, c)
<1>1. /\ attempts = 1..Len(orders) /\ Len(orders) \in Nat
      /\ attempts' = 1..Len(orders') /\ Len(orders') \in Nat
  BY AttemptsAre, AttemptsAreThen
<1>2. \A r \in attempts' : r <= c => r \in attempts
  BY <1>1
<1>3. \A r \in attempts : IsClose(r)' <=> IsClose(r)
  BY DEF IsClose
<1>4. e < c /\ e \in attempts' => e \in attempts
  BY <1>1
<1> QED BY <1>2, <1>3, <1>4 DEF Anchor

\* A poll read before a step was read in the past of the step as well.
LEMMA PollStays ==
    ASSUME StoresTyped, StoresTyped', Grows, NEW m \in MemType, PollInv(m)
    PROVE  PollInv(m)'
<1> SUFFICES ASSUME m.poll # None
             PROVE  /\ \A i \in DOMAIN m.poll.todo : ItemInv(m.poll.todo[i])'
                    /\ \A b \in Attempt : m.poll.snap[b].filled <= broker'[b].filled
  BY DEF PollInv
<1>1. ASSUME NEW i \in DOMAIN m.poll.todo PROVE ItemInv(m.poll.todo[i])'
  <2> PICK item : item = m.poll.todo[i]
    OBVIOUS
  <2>1. ItemInv(item)
    BY DEF PollInv
  <2>2. ItemInv(item)'
    BY <2>1 DEF ItemInv, Grows, IsClose
  <2> QED BY <2>2
<1>2. ASSUME NEW b \in Attempt PROVE m.poll.snap[b].filled <= broker'[b].filled
  <2>1. /\ m.poll.snap[b].filled <= broker[b].filled /\ broker[b].filled <= broker'[b].filled
    BY DEF PollInv, Grows
  <2>2. /\ m.poll.snap[b].filled \in Nat /\ broker[b].filled \in Nat /\ broker'[b].filled \in Nat
    BY BoundsAssumption DEF MemType, PollType, Snapshot, StoresTyped
  <2> QED BY <2>1, <2>2
<1> QED BY <1>1, <1>2

\* A process that takes no part in a step keeps its invariant.
LEMMA Bystander ==
    ASSUME StoresTyped, StoresTyped', Grows, NEW m \in MemType, MemInv(m), Spares(m),
           m.job.pc # "down" /\ m.epoch = epoch' => orders' = orders /\ epoch' = epoch
    PROVE  MemInv(m)'
<1> DEFINE j == m.job
           a == m.job.a
<1>0. /\ j.pc \in Sending \cup Unsent \cup Filling => a \in attempts
      /\ a \in attempts => a \in attempts'
      /\ epoch \in Nat /\ epoch' \in Nat /\ tip \in Nat /\ tip' \in Nat
  <2>1. tip \in Nat /\ tip' \in Nat
    BY AttemptsAre, AttemptsAreThen
  <2>2. epoch \in Nat /\ epoch' \in Nat
    BY BoundsAssumption DEF StoresTyped
  <2> QED BY <2>1, <2>2 DEF MemInv, JobInv, Grows
<1>1. JobInv(m)'
  <2>1. /\ j.pc = "down" => m = Down
        /\ j.pc # "down" => m.epoch \in 1..epoch'
        /\ j.pc \in Sending \cup Unsent \cup Filling => j.a \in attempts'
    BY <1>0 DEF MemInv, JobInv, Grows
  <2>2. /\ j.pc = "flow" => /\ flow'[j.a] = "open" /\ receipts'[j.a] = <<>>
                            /\ broker'[j.a] = NoOrder
                            /\ m.held = [attempt |-> j.a, sent |-> FALSE]
        /\ j.pc = "answer" => flow'[j.a] = "sent" /\ receipts'[j.a] = <<>>
    BY DEF MemInv, JobInv, Spares, Sending
  <2>3. /\ j.pc \in Unsent => flow'[j.a] = "halted"
        /\ j.pc \in {"unsent", "discard"} => m.held # None /\ m.held.attempt = j.a
        /\ j.pc \in {"discard", "unsent_intent"} => Released(j.a)'
    BY <1>0 DEF MemInv, JobInv, Grows, Unsent
  <2>4. /\ j.pc \in Filling => FullFill(j.a)' /\ j.op \in {"fill", "resume"}
        /\ j.pc \in Filling \cup {"next"} => m.poll # None
        /\ j.pc \in After => committed_command("release", j.a)'
    BY <1>0 DEF MemInv, JobInv, Grows, Filling
  <2> QED BY <2>1, <2>2, <2>3, <2>4 DEF JobInv
<1>2. PollInv(m)'
  BY PollStays DEF MemInv
<1>3. CommitInv(m)'
  <2> SUFFICES ASSUME j.pc = "commit"
               PROVE  CommitInv(m)'
    BY DEF CommitInv
  <2>1. /\ m.held = None /\ j.op \in Order /\ j.at \in Where /\ j.at.tip <= tip /\ tip <= tip'
        /\ j.at.tip \in Nat
    BY DEF MemInv, CommitInv, Grows, Where
  <2>2. ASSUME m.epoch = epoch'
        PROVE  /\ j.op.effect = "OPEN" => outstanding_reservations' = {}
               /\ j.op.effect = "CLOSE" /\ j.at.tip = tip' =>
                    \E e \in attempts' : outstanding_reservations' = {e} /\ Consumed(e)'
    <3>1. orders' = orders /\ epoch' = epoch /\ attempts' = attempts
      BY <2>2 DEF attempts
    <3>2. outstanding_reservations' \subseteq outstanding_reservations
      BY <3>1 DEF outstanding_reservations, Grows, Released
    <3>3. j.at.tip = tip' => log' = log
      BY <1>0, <2>1 DEF Grows
    <3>4. log' = log => /\ outstanding_reservations' = outstanding_reservations
                        /\ \A e \in attempts : Consumed(e)' <=> Consumed(e)
      BY <3>1 DEF outstanding_reservations, Consumed, reservation_state, RowsOf
    <3>5. j.at.tip = tip' => j.at.tip = tip
      BY <1>0, <2>1
    <3> QED BY <2>2, <3>1, <3>2, <3>3, <3>4, <3>5 DEF MemInv, CommitInv
  <2>3. j.at.tip <= tip'
    BY <1>0, <2>1
  <2> QED BY <2>1, <2>2, <2>3 DEF CommitInv
<1>4. BindInv(m)'
  <2>1. /\ j.pc \in Proving => j.entry = None
        /\ j.pc \in {"pending", "link"} \cup Discharging => j.entry # None
    BY DEF MemInv, BindInv
  <2>2. ASSUME j.pc \in Binding \cup Discharging, j.entry # None
        PROVE  /\ j.entry \in attempts' /\ ~Unbound(j.entry)'
               /\ IsClose(j.a)' => Anchor(j.entry, j.a)'
               /\ Unbound(j.a)' => IsClose(j.a)'
               /\ j.pc # "pending" => \E it \in ev'.pending : it.attempt = j.a
    <3>1. /\ j.entry \in attempts /\ ~Unbound(j.entry)
          /\ IsClose(j.a) => Anchor(j.entry, j.a)
          /\ Unbound(j.a) => IsClose(j.a)
          /\ j.pc # "pending" => \E it \in ev.pending : it.attempt = j.a
      BY <2>2 DEF MemInv, BindInv
    <3>2. j.a \in attempts
      BY <1>0, <2>2 DEF Filling, After
    <3>3. IsClose(j.a)' <=> IsClose(j.a)
      BY <3>2 DEF Grows, IsClose
    <3>4. Anchor(j.entry, j.a)' <=> Anchor(j.entry, j.a)
      BY <3>2, AnchorsStay DEF Grows
    <3>5. /\ j.entry \in attempts' /\ ~Unbound(j.entry)'
          /\ Unbound(j.a)' => Unbound(j.a)
          /\ ev.pending \subseteq ev'.pending
      BY <3>1, <3>2 DEF Grows
    <3> QED BY <3>1, <3>3, <3>4, <3>5
  <2>3. /\ j.pc \in Binding /\ j.entry = None /\ Unbound(j.a)' => ~IsClose(j.a)'
        /\ j.pc \in Discharging => IsClose(j.a)'
    BY <1>0 DEF MemInv, BindInv, Grows, IsClose, Filling, After
  <2>4. ASSUME j.pc \in {"release", "discharge", "discharge_commit"}
        PROVE  j.at \in Where /\ j.at.tip <= tip'
    <3>1. j.at \in Where /\ j.at.tip <= tip /\ tip <= tip' /\ j.at.tip \in Nat
      BY <2>4 DEF MemInv, BindInv, Grows, Where
    <3> QED BY <1>0, <3>1
  <2>5. ASSUME j.pc = "discharge_commit", j.at.tip = tip' PROVE \A b \in attempts' : ~Unbound(b)'
    <3>1. j.at.tip <= tip /\ tip <= tip' /\ j.at.tip \in Nat
      BY <2>5 DEF MemInv, BindInv, Grows, Where
    <3>2. tip' = tip
      BY <1>0, <2>5, <3>1
    <3>3. log' = log /\ orders' = orders
      BY <3>2 DEF Grows
    <3>4. \A b \in attempts : ~Unbound(b)
      BY <2>5, <3>2 DEF MemInv, BindInv
    <3> QED BY <3>3, <3>4 DEF Grows, attempts
  <2> QED BY <2>1, <2>2, <2>3, <2>4, <2>5 DEF BindInv
<1>5. HeldInv(m)'
  <2> SUFFICES ASSUME j.pc # "down", m.epoch = epoch'
               PROVE  /\ m.held # None => m.held.attempt = Len(orders')
                      /\ \A b \in attempts' : Unbound(b)' => m.held # None /\ m.held.attempt = b
    BY DEF HeldInv
  <2>1. orders' = orders /\ epoch' = epoch /\ attempts' = attempts
    BY DEF attempts
  <2> QED BY <2>1 DEF MemInv, HeldInv, Grows
<1> QED BY <1>1, <1>2, <1>3, <1>4, <1>5 DEF MemInv

-----------------------------------------------------------------------------
(* The projection of the log under a step *)

\* A step that appends nothing leaves the projection alone.
LEMMA LogSame ==
    ASSUME log' = log, orders' = orders
    PROVE  /\ attempts' = attempts /\ tip' = tip
           /\ outstanding_reservations' = outstanding_reservations
           /\ Commands' = Commands
           /\ \A r : /\ reservation_state(r)' = reservation_state(r)
                    /\ RowsOf(r)' = RowsOf(r)
                    /\ first_seq(r)' = first_seq(r)
                    /\ reservation_last_seq(r)' = reservation_last_seq(r)
BY DEF attempts, tip, outstanding_reservations, Commands, reservation_state, RowsOf,
       first_seq, reservation_last_seq

\* A step that appends the row x.
LEMMA LogAppends ==
    ASSUME StoresTyped, NEW x \in Row, log' = Append(log, x)
    PROVE  /\ tip' = tip + 1 /\ DOMAIN log' = 1..(tip + 1)
           /\ \A i \in DOMAIN log : log'[i] = log[i]
           /\ log'[tip + 1] = x
           /\ reservation_state(x.res)' = x.to
           /\ \A r : r # x.res /\ RowsOf(r) # {} => reservation_state(r)' = reservation_state(r)
           /\ \A r : RowsOf(r) # {} => first_seq(r)' = first_seq(r)
           /\ RowsOf(x.res) = {} => first_seq(x.res)' = tip + 1
           /\ \A r : RowsOf(r) \subseteq RowsOf(r)'
           /\ RowsOf(x.res)' # {}
           /\ Commands' = Commands \cup {<<x.cmd, x.by>>}
<1>1. log \in Seq(Row)
  BY DEF StoresTyped
<1>2. /\ tip' = tip + 1 /\ DOMAIN log' = 1..(tip + 1) /\ DOMAIN log = 1..tip /\ tip \in Nat
      /\ \A i \in DOMAIN log : log'[i] = log[i]
      /\ log'[tip + 1] = x
  BY <1>1 DEF tip
<1>3. \A r : RowsOf(r) = RowsIn(log, r) /\ RowsOf(r)' = RowsIn(Append(log, x), r)
  BY DEF RowsOf, RowsIn
<1>4. /\ reservation_state(x.res)' = x.to
      /\ RowsOf(x.res) = {} => first_seq(x.res)' = tip + 1
  BY <1>1, <1>3, ProjectionAppended DEF reservation_state, first_seq, tip
<1>5. ASSUME NEW r, r # x.res, RowsOf(r) # {} PROVE reservation_state(r)' = reservation_state(r)
  BY <1>1, <1>3, <1>5, ProjectionAppended DEF reservation_state
<1>6. ASSUME NEW r, RowsOf(r) # {} PROVE first_seq(r)' = first_seq(r)
  BY <1>1, <1>3, <1>6, ProjectionAppended DEF first_seq
<1>7. /\ \A r : RowsOf(r) \subseteq RowsOf(r)'
      /\ RowsOf(x.res)' # {}
  BY <1>1, <1>3, RowsAppended
<1>8. Commands' = Commands \cup {<<x.cmd, x.by>>}
  <2>1. Commands' = {<<log'[i].cmd, log'[i].by>> : i \in 1..(tip + 1)}
    BY <1>2 DEF Commands
  <2>2. 1..(tip + 1) = (1..tip) \cup {tip + 1}
    BY <1>2
  <2>3. Commands = {<<log[i].cmd, log[i].by>> : i \in 1..tip}
    BY <1>2 DEF Commands
  <2> QED BY <1>2, <2>1, <2>2, <2>3
<1> QED BY <1>2, <1>4, <1>5, <1>6, <1>7, <1>8

-----------------------------------------------------------------------------
(* Assembling a step *)

\* A process that does not take the step keeps its invariant.
LEMMA OthersKeep ==
    ASSUME IInv, StoresTyped', Grows, NEW q \in Procs, mem'[q] = mem[q],
           \A k \in MemType : mem[q] = k => Spares(k),
           mem[q].job.pc # "down" /\ mem[q].epoch = epoch' => orders' = orders /\ epoch' = epoch
    PROVE  ProcInv(q)'
<1> SUFFICES ASSUME NEW k \in MemType, mem'[q] = k PROVE MemInv(k)'
  BY DEF ProcInv
<1>1. MemInv(k) /\ StoresTyped
  BY DEF IInv, ProcInv, TInv
<1>2. Spares(k) /\ (k.job.pc # "down" /\ k.epoch = epoch' => orders' = orders /\ epoch' = epoch)
  OBVIOUS
<1> QED BY <1>1, <1>2, Bystander

\* A step of process p, whose memory was m and is n.
LEMMA Assemble ==
    ASSUME IInv, StoresTyped', StoreInv', Grows,
           NEW p \in Procs, NEW m \in MemType, NEW n \in MemType,
           mem[p] = m, mem' = [mem EXCEPT ![p] = n], MemInv(n)',
           \A q \in Procs \ {p} : \A k \in MemType : mem[q] = k => Spares(k),
           \/ /\ epoch' = epoch /\ orders' = orders
              /\ n.job.pc # "down" => m.job.pc # "down" /\ n.epoch = m.epoch
           \/ /\ epoch' = epoch + 1 /\ n.epoch = epoch + 1
           \/ /\ epoch' = epoch /\ m.epoch = epoch /\ n.epoch = m.epoch /\ m.job.pc # "down",
           n.job.pc \in Sending => \/ m.job.pc \in Sending /\ n.job.a = m.job.a
                                   \/ n.job.a \notin attempts
    PROVE  IInv'
<1>1. mem \in [Procs -> MemType] /\ StoresTyped /\ PairInv
  BY DEF IInv, TInv
<1>2. TInv'
  BY <1>1 DEF TInv
<1>3. mem'[p] = n /\ \A q \in Procs \ {p} : mem'[q] = mem[q]
  BY <1>1
<1>4. ASSUME NEW q \in Procs \ {p}, mem[q].job.pc # "down"
      PROVE  mem[q].epoch \in Nat /\ mem[q].epoch <= epoch /\ epoch \in Nat
  <2> PICK k \in MemType : mem[q] = k
    BY <1>1
  <2>1. JobInv(k)
    BY DEF IInv, ProcInv, MemInv
  <2>2. epoch \in Nat
    BY <1>1, BoundsAssumption DEF StoresTyped
  <2> QED BY <1>4, <2>1, <2>2 DEF JobInv
<1>5. ASSUME NEW q \in Procs \ {p}, mem[q].job.pc \in Sending PROVE mem[q].job.a \in attempts
  <2> PICK k \in MemType : mem[q] = k
    BY <1>1
  <2>1. JobInv(k)
    BY DEF IInv, ProcInv, MemInv
  <2> QED BY <1>5, <2>1 DEF JobInv
<1>6. ASSUME NEW q \in Procs PROVE ProcInv(q)'
  <2>1. CASE q = p
    BY <1>3, <2>1 DEF ProcInv
  <2>2. CASE q # p
    <3>1. mem[q].job.pc # "down" /\ mem[q].epoch = epoch' => orders' = orders /\ epoch' = epoch
      <4>1. mem[p].epoch = epoch /\ mem[p].job.pc # "down" /\ mem[q].job.pc # "down"
              => mem[q].epoch # epoch
        BY <1>1, <2>2 DEF PairInv, At, job
      <4> QED BY <1>4, <2>2, <4>1
    <3> QED BY <1>3, <2>2, <3>1, OthersKeep
  <2> QED BY <2>1, <2>2
<1>7. PairInv'
  <2>1. ASSUME NEW q \in Procs, q # p
        PROVE  /\ n.job.pc # "down" /\ mem[q].job.pc # "down" => n.epoch # mem[q].epoch
               /\ n.job.pc \in Sending /\ mem[q].job.pc \in Sending => n.job.a # mem[q].job.a
    <3>1. /\ m.job.pc # "down" /\ mem[q].job.pc # "down" => m.epoch # mem[q].epoch
          /\ m.job.pc \in Sending /\ mem[q].job.pc \in Sending => m.job.a # mem[q].job.a
      BY <1>1, <2>1 DEF PairInv, At, job
    <3>2. mem[q].job.pc # "down" => mem[q].epoch # epoch + 1
      BY <1>4, <2>1
    <3> QED BY <1>5, <2>1, <3>1, <3>2
  <2>2. ASSUME NEW r \in Procs, NEW q \in Procs, r # q
        PROVE  /\ mem'[r].job.pc # "down" /\ mem'[q].job.pc # "down" => mem'[r].epoch # mem'[q].epoch
               /\ mem'[r].job.pc \in Sending /\ mem'[q].job.pc \in Sending
                    => mem'[r].job.a # mem'[q].job.a
    <3>1. CASE r # p /\ q # p
      BY <1>1, <1>3, <2>2, <3>1 DEF PairInv, At, job
    <3>2. CASE r = p
      BY <1>3, <2>1, <2>2, <3>2
    <3>3. CASE q = p
      BY <1>3, <2>1, <2>2, <3>3
    <3> QED BY <3>1, <3>2, <3>3
  <2> QED BY <2>2 DEF PairInv, At, job
<1> QED BY <1>2, <1>6, <1>7 DEF IInv

\* A step that changes post-trade rows only, or none.
LEMMA EvidenceStep ==
    ASSUME StoresTyped, StoresTyped', StoreInv,
           UNCHANGED <<log, orders, flow, receipts, broker>>, epoch <= epoch',
           ev.pending \subseteq ev'.pending,
           \A it \in ev'.pending : it \notin ev.pending => PendingRow(it),
           ev'.unsent \subseteq attempts,
           \A a \in ev'.projected \cup ev'.discarded :
              a \in attempts /\ (Unbound(a) => a \in ev.projected \cup ev.discarded),
           \A a \in ev'.proofs : a \in attempts /\ FullFill(a)
    PROVE  StoreInv' /\ Grows /\ \A k \in MemType : Spares(k)
<1> USE DEF StoreInv
<1>1. /\ attempts' = attempts /\ tip' = tip
      /\ outstanding_reservations' = outstanding_reservations
      /\ Commands' = Commands
      /\ \A r : /\ reservation_state(r)' = reservation_state(r)
               /\ RowsOf(r)' = RowsOf(r)
               /\ first_seq(r)' = first_seq(r)
  BY LogSame
<1>2. \A a : /\ (Unbound(a)' <=> Unbound(a)) /\ (Consumed(a)' <=> Consumed(a))
            /\ (Released(a)' <=> Released(a)) /\ (IsClose(a)' <=> IsClose(a))
            /\ (FullFill(a)' <=> FullFill(a)) /\ (Recorded(a)' <=> Recorded(a))
  BY <1>1 DEF Unbound, Consumed, Released, IsClose, FullFill, Recorded
<1>3. \A c, a : committed_command(c, a)' <=> committed_command(c, a)
  BY <1>1 DEF committed_command
<1>4. \A e, c : Anchor(e, c)' <=> Anchor(e, c)
  BY <1>1, <1>2 DEF Anchor
<1>5. \A it : valid_close_commit(it)' <=> valid_close_commit(it)
  BY DEF valid_close_commit
<1>6. RowInv'
  BY <1>1, <1>2 DEF RowInv
<1>7. UnboundInv'
  BY <1>1, <1>2, <1>3 DEF UnboundInv
<1>8. ConsumedInv'
  BY <1>1, <1>2, <1>3 DEF ConsumedInv
<1>9. ReleasedInv'
  BY <1>1, <1>2, <1>3, <1>4, <1>5 DEF ReleasedInv
<1>10. PendingInv'
  <2>1. \A it : PendingRow(it)' <=> PendingRow(it)
    BY <1>1, <1>2, <1>4 DEF PendingRow
  <2> QED BY <2>1 DEF PendingInv
<1>11. EvInv'
  BY <1>1, <1>2 DEF EvInv
<1>12. BrokerInv'
  BY <1>1, <1>2 DEF BrokerInv
<1>13. ScopeShape'
  BY <1>1 DEF ScopeShape
<1>14. \A a \in Attempt : broker[a].filled <= broker[a].filled
  BY BoundsAssumption DEF StoresTyped, Snapshot
<1>15. tip <= tip
  BY AttemptsAre
<1>16. Grows
  BY <1>1, <1>2, <1>3, <1>14, <1>15 DEF Grows
<1>17. \A k \in MemType : Spares(k)
  BY DEF Spares
<1> QED BY <1>6, <1>7, <1>8, <1>9, <1>10, <1>11, <1>12, <1>13, <1>16, <1>17

-----------------------------------------------------------------------------
(* The memory of the process that takes a step *)

\* n is m with another job, and possibly the first item of the plan taken.
Taken(m, n) ==
    /\ m.poll # None /\ n.poll # None /\ m.poll.todo # <<>>
    /\ n.poll.todo = Tail(m.poll.todo) /\ n.poll.snap = m.poll.snap
Keeps(m, n) ==
    n.epoch = m.epoch /\ n.held = m.held /\ (n.poll = m.poll \/ Taken(m, n))

\* A sequence over a set is one over any larger set.
LEMMA SeqWider ==
    ASSUME NEW S, NEW T, S \subseteq T, NEW s \in Seq(S)
    PROVE  s \in Seq(T)
<1>1. Len(s) \in Nat /\ \A i \in 1..Len(s) : s[i] \in T
  OBVIOUS
<1>2. s = [i \in 1..Len(s) |-> s[i]]
  OBVIOUS
<1> QED BY <1>1, <1>2

\* A sequence with one element replaced.
LEMMA SeqUpdated ==
    ASSUME NEW S, NEW s \in Seq(S), NEW i \in DOMAIN s, NEW e \in S
    PROVE  /\ [s EXCEPT ![i] = e] \in Seq(S) /\ Len([s EXCEPT ![i] = e]) = Len(s)
           /\ DOMAIN [s EXCEPT ![i] = e] = DOMAIN s
<1>1. i \in 1..Len(s)
  OBVIOUS
<1> QED BY <1>1, ExceptSeq

\* A poll is not the absence of one, and an attempt held not the absence of one.
LEMMA PollIsSome ==
    /\ None \notin [todo : Seq(ItemType), snap : Snapshot]
    /\ None \notin [attempt : Attempt, sent : BOOLEAN] /\ None \notin Attempt
<1>1. Attempt \subseteq Nat /\ 0..MaxQty \subseteq Nat
  BY BoundsAssumption DEF Attempt
<1>2. /\ ItemType \subseteq [op : {"resume", "reproject", "emit"}, a : Nat]
      /\ Snapshot \subseteq [1..MaxAttempts -> [seen : BOOLEAN, live : BOOLEAN, filled : Nat]]
  BY <1>1 DEF ItemType, Snapshot, Attempt
<1>3. ASSUME NEW s \in Seq(ItemType)
      PROVE  s \in Seq([op : {"resume", "reproject", "emit"}, a : Nat])
  BY <1>2, SeqWider
<1>4. None \notin [attempt : Attempt, sent : BOOLEAN] /\ None \notin Attempt
  BY <1>1, NoneIsNew
<1>5. ASSUME NEW k \in [todo : Seq(ItemType), snap : Snapshot] PROVE k # None
  <2>1. k = [todo |-> k.todo, snap |-> k.snap] /\ k.todo \in Seq(ItemType) /\ k.snap \in Snapshot
    OBVIOUS
  <2>2. /\ k.todo \in Seq([op : {"resume", "reproject", "emit"}, a : Nat])
        /\ k.snap \in [1..MaxAttempts -> [seen : BOOLEAN, live : BOOLEAN, filled : Nat]]
    BY <1>2, <1>3, <2>1
  <2>3. k \in [todo : Seq([op : {"resume", "reproject", "emit"}, a : Nat]),
               snap : [1..MaxAttempts -> [seen : BOOLEAN, live : BOOLEAN, filled : Nat]]]
    BY <2>1, <2>2
  <2> QED BY <2>3, NoneIsNew
<1> QED BY <1>4, <1>5

\* What the ledger holds of an attempt.
LEMMA HeldIsSome ==
    ASSUME NEW a \in Attempt, NEW s \in BOOLEAN
    PROVE  /\ [attempt |-> a, sent |-> s] # None
           /\ [attempt |-> a, sent |-> s] \in HeldType
<1>1. [attempt |-> a, sent |-> s] \in [attempt : Attempt, sent : BOOLEAN]
  OBVIOUS
<1> QED BY <1>1, PollIsSome DEF HeldType

\* What Go makes of the memory.
LEMMA GoIs ==
    ASSUME mem \in [Procs -> MemType], NEW p \in Procs, NEW m \in MemType, mem[p] = m,
           NEW j \in JobType, Go(p, j)
    PROVE  \E n \in MemType : /\ mem' = [mem EXCEPT ![p] = n] /\ n.job = j
                              /\ n.epoch = m.epoch /\ n.held = m.held /\ n.poll = m.poll
<1> DEFINE n == [m EXCEPT !.job = j]
<1>1. n \in MemType /\ n.job = j /\ n.epoch = m.epoch /\ n.held = m.held /\ n.poll = m.poll
  BY DEF MemType
<1>2. mem' = [mem EXCEPT ![p] = n]
  BY DEF Go
<1> QED BY <1>1, <1>2

\* What Take makes of the memory.
LEMMA TakeIs ==
    ASSUME mem \in [Procs -> MemType], NEW p \in Procs, NEW m \in MemType, mem[p] = m,
           NEW j \in JobType, Take(p, j), m.poll # None, m.poll.todo # <<>>
    PROVE  \E n \in MemType : /\ mem' = [mem EXCEPT ![p] = n] /\ n.job = j
                              /\ n.epoch = m.epoch /\ n.held = m.held /\ Taken(m, n)
<1> DEFINE k == [m.poll EXCEPT !.todo = Tail(m.poll.todo)]
           n == [m EXCEPT !.job = j, !.poll = k]
<1>1. m.poll \in [todo : Seq(ItemType), snap : Snapshot]
  BY DEF MemType, PollType
<1>2. /\ k \in [todo : Seq(ItemType), snap : Snapshot]
      /\ k.todo = Tail(m.poll.todo) /\ k.snap = m.poll.snap
  BY <1>1
<1>3. k # None
  BY <1>2, PollIsSome
<1> HIDE DEF k
<1>4. /\ n \in MemType /\ n.job = j /\ n.epoch = m.epoch /\ n.held = m.held /\ n.poll = k
  BY <1>2 DEF MemType, PollType
<1>5. mem' = [mem EXCEPT ![p] = n]
  BY DEF Take, k
<1> QED BY <1>2, <1>3, <1>4, <1>5 DEF Taken

\* Poll and ledger of the new memory are as good as those of the old one.
LEMMA Carries ==
    ASSUME NEW m \in MemType, NEW n \in MemType, Keeps(m, n), MemInv(m)',
           m.job.pc # "down", n.job.pc # "down"
    PROVE  /\ PollInv(n)' /\ HeldInv(n)' /\ n.epoch \in 1..epoch'
           /\ n.poll # None => m.poll # None
<1>1. n.epoch \in 1..epoch' /\ HeldInv(n)'
  BY DEF MemInv, JobInv, HeldInv, Keeps
<1>2. n.poll # None => m.poll # None
  BY DEF Keeps, Taken
<1>3. PollInv(n)'
  <2>1. CASE n.poll = m.poll
    BY <2>1 DEF MemInv, PollInv
  <2>2. CASE Taken(m, n)
    <3>1. m.poll.todo \in Seq(ItemType) /\ m.poll.todo # <<>> /\ n.poll.todo = Tail(m.poll.todo)
      BY <2>2 DEF Taken, MemType, PollType
    <3>2. /\ \A i \in DOMAIN m.poll.todo : ItemInv(m.poll.todo[i])'
          /\ \A a \in Attempt : m.poll.snap[a].filled <= broker'[a].filled
      BY <2>2 DEF MemInv, PollInv, Taken
    <3>3. ASSUME NEW i \in DOMAIN n.poll.todo PROVE ItemInv(n.poll.todo[i])'
      <4>1. i + 1 \in DOMAIN m.poll.todo /\ n.poll.todo[i] = m.poll.todo[i + 1]
        BY <3>1
      <4> PICK k : k = i + 1
        OBVIOUS
      <4>2. n.poll.todo[i] = m.poll.todo[k] /\ k \in DOMAIN m.poll.todo
        BY <4>1
      <4>3. ItemInv(m.poll.todo[k])'
        BY <3>2, <4>2
      <4> QED BY <4>2, <4>3
    <3> QED BY <2>2, <3>2, <3>3 DEF PollInv, Taken
  <2> QED BY <2>1, <2>2 DEF Keeps
<1> QED BY <1>1, <1>2, <1>3

\* A process between two pieces of work.
LEMMA Rests ==
    ASSUME NEW n \in MemType, PollInv(n)', HeldInv(n)', n.epoch \in 1..epoch',
           n.job.pc \in {"idle", "turn", "next"}, n.job.pc = "next" => n.poll # None
    PROVE  MemInv(n)'
<1>1. JobInv(n)'
  BY DEF JobInv, Sending, Unsent, Filling, After, Proving, Binding, Discharging
<1>2. CommitInv(n)'
  BY DEF CommitInv
<1>3. BindInv(n)'
  BY DEF BindInv, Proving, Binding, Discharging
<1> QED BY <1>1, <1>2, <1>3 DEF MemInv

\* A process proving a fill.
LEMMA Proves ==
    ASSUME NEW n \in MemType, PollInv(n)', HeldInv(n)', n.epoch \in 1..epoch',
           n.job.pc \in Proving, n.job.entry = None, n.job.a \in attempts', FullFill(n.job.a)',
           n.job.op \in {"fill", "resume"}, n.poll # None
    PROVE  MemInv(n)'
<1>1. JobInv(n)'
  BY DEF JobInv, Sending, Unsent, Filling, After, Proving, Binding, Discharging
<1>2. CommitInv(n)'
  BY DEF CommitInv, Proving
<1>3. BindInv(n)'
  BY DEF BindInv, Proving, Binding, Discharging
<1> QED BY <1>1, <1>2, <1>3 DEF MemInv

\* What a step that writes post-trade rows must respect.
EvKeeps ==
    /\ ev' \in EvType
    /\ ev.pending \subseteq ev'.pending
    /\ \A it \in ev'.pending : it \notin ev.pending => PendingRow(it)
    /\ ev'.unsent \subseteq attempts
    /\ \A a \in ev'.projected \cup ev'.discarded :
          a \in attempts /\ (Unbound(a) => a \in ev.projected \cup ev.discarded)
    /\ \A a \in ev'.proofs : a \in attempts /\ FullFill(a)

\* A step that writes no row respects it.
LEMMA EvUnchanged ==
    ASSUME IInv, ev' = ev
    PROVE  EvKeeps
BY DEF EvKeeps, IInv, TInv, StoresTyped, StoreInv, EvInv

\* A step of p that changes post-trade rows and its own job only: what is left
\* to show is that the new job fits.
LEMMA EvidenceActs ==
    ASSUME IInv, EvKeeps, UNCHANGED <<log, epoch, orders, flow, receipts, broker, boots>>,
           refusals' \in 0..MaxRefusals,
           NEW p \in Procs, NEW m \in MemType, NEW n \in MemType, mem[p] = m,
           mem' = [mem EXCEPT ![p] = n], m.job.pc # "down", n.epoch = m.epoch,
           n.job.pc \notin Sending \cup {"down"}
    PROVE  MemInv(m) /\ MemInv(m)' /\ (MemInv(n)' => IInv')
<1>1. StoresTyped /\ StoreInv /\ MemInv(m)
  BY DEF IInv, TInv, ProcInv
<1>2. StoresTyped'
  BY <1>1 DEF StoresTyped, EvKeeps
<1>3. epoch <= epoch'
  BY <1>1, BoundsAssumption DEF StoresTyped
<1>4. StoreInv' /\ Grows /\ \A k \in MemType : Spares(k)
  BY <1>1, <1>2, <1>3, EvidenceStep DEF EvKeeps
<1>5. MemInv(m)'
  BY <1>1, <1>2, <1>4, Bystander
<1>6. MemInv(n)' => IInv'
  BY <1>2, <1>4, Assemble
<1> QED BY <1>1, <1>5, <1>6

\* The same for a step that ends in Go or Take.
LEMMA GoActs ==
    ASSUME IInv, EvKeeps, UNCHANGED <<log, epoch, orders, flow, receipts, broker, boots>>,
           refusals' \in 0..MaxRefusals,
           NEW p \in Procs, NEW m \in MemType, mem[p] = m, m.job.pc # "down",
           NEW j \in JobType, j.pc \notin Sending \cup {"down"},
           Go(p, j) \/ (Take(p, j) /\ m.poll # None /\ m.poll.todo # <<>>)
    PROVE  \E n \in MemType :
              /\ n.job = j /\ Keeps(m, n) /\ (n.poll # None <=> m.poll # None)
              /\ MemInv(m) /\ MemInv(m)'
              /\ PollInv(n)' /\ HeldInv(n)' /\ n.epoch \in 1..epoch'
              /\ MemInv(n)' => IInv'
<1>1. mem \in [Procs -> MemType]
  BY DEF IInv, TInv
<1>2. PICK n \in MemType : mem' = [mem EXCEPT ![p] = n] /\ n.job = j /\ Keeps(m, n)
  <2>1. CASE Go(p, j)
    BY <1>1, <2>1, GoIs DEF Keeps
  <2>2. CASE Take(p, j) /\ m.poll # None /\ m.poll.todo # <<>>
    BY <1>1, <2>2, TakeIs DEF Keeps
  <2> QED BY <2>1, <2>2
<1>3. n.epoch = m.epoch /\ (n.poll # None <=> m.poll # None)
  BY <1>2 DEF Keeps, Taken
<1>4. MemInv(m) /\ MemInv(m)' /\ (MemInv(n)' => IInv')
  BY <1>2, <1>3, EvidenceActs
<1>5. PollInv(n)' /\ HeldInv(n)' /\ n.epoch \in 1..epoch'
  BY <1>2, <1>4, Carries
<1> QED BY <1>2, <1>3, <1>4, <1>5

\* A step that goes on to rest.
LEMMA GoRests ==
    ASSUME IInv, EvKeeps, UNCHANGED <<log, epoch, orders, flow, receipts, broker, boots>>,
           refusals' \in 0..MaxRefusals,
           NEW p \in Procs, NEW m \in MemType, mem[p] = m, m.job.pc # "down",
           NEW j \in JobType, j.pc \in {"idle", "turn", "next"},
           j.pc = "next" => m.poll # None,
           Go(p, j) \/ (Take(p, j) /\ m.poll # None /\ m.poll.todo # <<>>)
    PROVE  IInv'
<1>1. PICK n \in MemType : /\ n.job = j /\ (n.poll # None <=> m.poll # None)
                           /\ PollInv(n)' /\ HeldInv(n)' /\ n.epoch \in 1..epoch'
                           /\ MemInv(n)' => IInv'
  BY GoActs DEF Sending
<1> QED BY <1>1, Rests

\* A step that goes on with the proof of a fill.
LEMMA GoProves ==
    ASSUME IInv, EvKeeps, UNCHANGED <<log, epoch, orders, flow, receipts, broker, boots>>,
           refusals' \in 0..MaxRefusals,
           NEW p \in Procs, NEW m \in MemType, mem[p] = m, m.job.pc # "down",
           NEW j \in JobType, j.pc \in Proving, j.entry = None, j.a \in attempts,
           FullFill(j.a), j.op \in {"fill", "resume"}, m.poll # None,
           Go(p, j) \/ (Take(p, j) /\ m.poll # None /\ m.poll.todo # <<>>)
    PROVE  IInv'
<1>1. PICK n \in MemType : /\ n.job = j /\ (n.poll # None <=> m.poll # None)
                           /\ PollInv(n)' /\ HeldInv(n)' /\ n.epoch \in 1..epoch'
                           /\ MemInv(n)' => IInv'
  BY GoActs DEF Sending, Proving
<1>2. FullFill(j.a)' /\ j.a \in attempts'
  BY DEF FullFill, Recorded, attempts
<1> QED BY <1>1, <1>2, Proves

-----------------------------------------------------------------------------
(* Steps that change a job only, or a job and the rows it writes *)

\* Jobs that rest are jobs.
LEMMA RestingJobs ==
    Idle \in JobType /\ Idle.pc = "idle" /\ NextItem \in JobType /\ NextItem.pc = "next"
BY DEF Idle, NextItem, JobType, Pc, AttemptOrNone

\* A refused commitment ends the flow.
LEMMA StepCommitRefused ==
    ASSUME IInv, NEW p \in Procs, CommitRefused(p)
    PROVE  IInv'
<1> PICK m \in MemType : mem[p] = m
  BY DEF IInv, TInv
<1> DEFINE j == [m.job EXCEPT !.pc = "turn"]
<1>1. m.job.pc = "commit" /\ Go(p, j)
  BY DEF CommitRefused, At, Goto, job
<1>2. j \in JobType /\ j.pc = "turn"
  BY DEF MemType, JobType, Pc
<1>3. EvKeeps /\ refusals' \in 0..MaxRefusals
  BY EvUnchanged DEF CommitRefused, IInv, TInv, StoresTyped
<1> HIDE DEF j
<1> QED BY <1>1, <1>2, <1>3, GoRests DEF CommitRefused

\* A turn ends idle or with the unsent pass.
LEMMA StepEndTurn ==
    ASSUME IInv, NEW p \in Procs, EndTurn(p)
    PROVE  IInv'
<1> PICK m \in MemType : mem[p] = m
  BY DEF IInv, TInv
<1>1. m.job.pc = "turn"
  BY DEF EndTurn, At, job
<1>2. EvKeeps /\ refusals' \in 0..MaxRefusals
  BY EvUnchanged DEF EndTurn, IInv, TInv, StoresTyped
<1>3. CASE ~unsent_candidate(p)
  <2>1. Go(p, Idle)
    BY <1>3 DEF EndTurn
  <2> QED BY <1>1, <1>2, <2>1, GoRests, RestingJobs DEF EndTurn
<1>4. CASE unsent_candidate(p)
  <2>1. PICK a \in Attempt : a = Len(orders) /\ a \in attempts
    <3>1. Len(orders) > 0 /\ StoresTyped
      BY <1>4 DEF unsent_candidate, IInv, TInv
    <3> QED BY <3>1, AttemptsAre
  <2> DEFINE j == [Idle EXCEPT !.pc = "unsent", !.a = a]
  <2>2. /\ Go(p, j) /\ flow[a] = "halted" /\ m.held = [attempt |-> a, sent |-> FALSE]
    BY <1>4, <2>1 DEF EndTurn, unsent_candidate
  <2>3. j \in JobType /\ j.pc = "unsent" /\ j.a = a
    BY <2>1 DEF Idle, JobType, Pc, AttemptOrNone
  <2> HIDE DEF j
  <2>4. PICK n \in MemType : /\ n.job = j /\ Keeps(m, n)
                             /\ PollInv(n)' /\ HeldInv(n)' /\ n.epoch \in 1..epoch'
                             /\ MemInv(n)' => IInv'
    BY <1>1, <1>2, <2>2, <2>3, GoActs DEF EndTurn, Sending
  <2>5. flow'[a] = "halted" /\ a \in attempts'
    BY <2>1, <2>2 DEF EndTurn, attempts
  <2>6. n.held # None /\ n.held.attempt = a
    <3>1. [attempt |-> a, sent |-> FALSE] # None
      BY <2>1, HeldIsSome
    <3> QED BY <2>2, <2>4, <3>1 DEF Keeps
  <2>7. JobInv(n)'
    BY <2>3, <2>4, <2>5, <2>6
    DEF JobInv, Sending, Unsent, Filling, After, Proving, Binding, Discharging
  <2>8. CommitInv(n)' /\ BindInv(n)'
    BY <2>3, <2>4 DEF CommitInv, BindInv, Proving, Binding, Discharging
  <2> QED BY <2>4, <2>7, <2>8 DEF MemInv
<1> QED BY <1>3, <1>4

\* A release of an unsent reservation that the log refuses.
LEMMA StepUnsentRefused ==
    ASSUME IInv, NEW p \in Procs, UnsentRefused(p)
    PROVE  IInv'
<1> PICK m \in MemType : mem[p] = m
  BY DEF IInv, TInv
<1>1. m.job.pc = "unsent" /\ Go(p, Idle)
  BY DEF UnsentRefused, At, job
<1>2. EvKeeps /\ refusals' \in 0..MaxRefusals
  BY EvUnchanged, BoundsAssumption DEF UnsentRefused, IInv, TInv, StoresTyped
<1> QED BY <1>1, <1>2, GoRests, RestingJobs DEF UnsentRefused

\* The row that tells an unsent release from a fill.
LEMMA StepUnsentIntent ==
    ASSUME IInv, NEW p \in Procs, UnsentIntent(p)
    PROVE  IInv'
<1> PICK m \in MemType : mem[p] = m
  BY DEF IInv, TInv
<1>1. m.job.pc = "unsent_intent" /\ Go(p, Idle)
  BY DEF UnsentIntent, At, job
<1>2. StoresTyped /\ EvInv /\ MemInv(m)
  BY DEF IInv, TInv, StoreInv, ProcInv
<1>3. m.job.a \in attempts /\ m.job.a \in Attempt
  BY <1>1, <1>2, AttemptsAre DEF MemInv, JobInv, Unsent
<1>4. EvKeeps /\ refusals' \in 0..MaxRefusals
  BY <1>2, <1>3 DEF UnsentIntent, StoresTyped, EvKeeps, EvType, EvInv, job
<1> QED BY <1>1, <1>4, GoRests, RestingJobs DEF UnsentIntent

\* The discard of an unsent reservation.
LEMMA StepUnsentDiscard ==
    ASSUME IInv, NEW p \in Procs, UnsentDiscard(p)
    PROVE  IInv'
<1> PICK m \in MemType : mem[p] = m
  BY DEF IInv, TInv
<1>1. m.job.pc = "discard"
  BY DEF UnsentDiscard, At, job
<1>2. StoresTyped /\ EvInv /\ MemInv(m) /\ mem \in [Procs -> MemType]
  BY DEF IInv, TInv, StoreInv, ProcInv
<1>3. /\ m.job.a \in attempts /\ m.job.a \in Attempt /\ Released(m.job.a)
      /\ m.held # None /\ m.held.attempt = m.job.a
  BY <1>1, <1>2, AttemptsAre DEF MemInv, JobInv, Unsent
<1> DEFINE j == [m.job EXCEPT !.pc = "unsent_intent"]
           n == [m EXCEPT !.job = j, !.held = None]
<1>4. EvKeeps /\ refusals' \in 0..MaxRefusals
  BY <1>2, <1>3 DEF UnsentDiscard, StoresTyped, EvKeeps, EvType, EvInv, job, Released, Unbound
<1>5. j \in JobType /\ j.pc = "unsent_intent" /\ j.a = m.job.a
  BY DEF MemType, JobType, Pc
<1>6. n \in MemType /\ n.job = j /\ n.held = None /\ n.epoch = m.epoch /\ n.poll = m.poll
  BY <1>5 DEF MemType, HeldType
<1>7. mem' = [mem EXCEPT ![p] = n]
  BY <1>2 DEF UnsentDiscard
<1> HIDE DEF j, n
<1>8. MemInv(m)' /\ (MemInv(n)' => IInv')
  BY <1>1, <1>4, <1>5, <1>6, <1>7, EvidenceActs DEF UnsentDiscard, Sending
<1>9. PollInv(n)'
  BY <1>6, <1>8 DEF MemInv, PollInv
<1>10. HeldInv(n)'
  <2>1. Released(m.job.a)'
    BY <1>1, <1>8 DEF MemInv, JobInv
  <2>2. ASSUME n.epoch = epoch', NEW b \in attempts', Unbound(b)' PROVE FALSE
    <3>1. m.held.attempt = b
      BY <1>1, <1>6, <1>8, <2>2 DEF MemInv, HeldInv
    <3> QED BY <1>3, <2>1, <2>2, <3>1 DEF Released, Unbound
  <2> QED BY <1>5, <1>6, <2>2 DEF HeldInv
<1>11. JobInv(n)'
  BY <1>1, <1>5, <1>6, <1>8
  DEF MemInv, JobInv, Sending, Unsent, Filling, After, Proving, Binding, Discharging
<1>12. CommitInv(n)' /\ BindInv(n)'
  BY <1>5, <1>6 DEF CommitInv, BindInv, Proving, Binding, Discharging
<1> QED BY <1>8, <1>9, <1>10, <1>11, <1>12 DEF MemInv

\* The apply of a poll starts.
LEMMA StepStartApply ==
    ASSUME IInv, NEW p \in Procs, StartApply(p)
    PROVE  IInv'
<1> PICK m \in MemType : mem[p] = m
  BY DEF IInv, TInv
<1> DEFINE j == [m.job EXCEPT !.pc = "next"]
<1>1. m.job.pc = "idle" /\ Go(p, j) /\ m.poll # None
  BY DEF StartApply, At, Goto, job
<1>2. j \in JobType /\ j.pc = "next"
  BY DEF MemType, JobType, Pc
<1>3. EvKeeps /\ refusals' \in 0..MaxRefusals
  BY EvUnchanged DEF StartApply, IInv, TInv, StoresTyped
<1> HIDE DEF j
<1> QED BY <1>1, <1>2, <1>3, GoRests DEF StartApply

\* The apply of a poll ends.
LEMMA StepEndApply ==
    ASSUME IInv, NEW p \in Procs, EndApply(p)
    PROVE  IInv'
<1> PICK m \in MemType : mem[p] = m
  BY DEF IInv, TInv
<1>1. m.job.pc = "next" /\ mem \in [Procs -> MemType]
  BY DEF EndApply, At, job, IInv, TInv
<1> DEFINE j == [Idle EXCEPT !.pc = "turn"]
           n == [m EXCEPT !.job = j, !.poll = None]
<1>2. EvKeeps /\ refusals' \in 0..MaxRefusals
  BY EvUnchanged DEF EndApply, IInv, TInv, StoresTyped
<1>3. j \in JobType /\ j.pc = "turn"
  BY DEF Idle, JobType, Pc, AttemptOrNone
<1>4. n \in MemType /\ n.job = j /\ n.held = m.held /\ n.epoch = m.epoch /\ n.poll = None
  BY <1>3 DEF MemType, PollType
<1>5. mem' = [mem EXCEPT ![p] = n]
  BY <1>1 DEF EndApply
<1> HIDE DEF j, n
<1>6. MemInv(m)' /\ (MemInv(n)' => IInv')
  BY <1>1, <1>2, <1>3, <1>4, <1>5, EvidenceActs DEF EndApply, Sending
<1>7. PollInv(n)' /\ HeldInv(n)' /\ n.epoch \in 1..epoch'
  BY <1>1, <1>3, <1>4, <1>6 DEF MemInv, PollInv, HeldInv, JobInv
<1> QED BY <1>3, <1>4, <1>6, <1>7, Rests

\* What taking an item of a plan starts from.
LEMMA ItemIs ==
    ASSUME IInv, NEW p \in Procs, NEW op, Item(p, op), NEW m \in MemType, mem[p] = m
    PROVE  /\ m.job.pc = "next" /\ m.poll # None /\ m.poll.todo # <<>>
           /\ Head(m.poll.todo) \in ItemType /\ Head(m.poll.todo).op = op
           /\ ItemInv(Head(m.poll.todo)) /\ m.poll.snap \in Snapshot
<1>1. m.job.pc = "next" /\ m.poll.todo # <<>> /\ Head(m.poll.todo).op = op
  BY DEF Item, At, job
<1>2. MemInv(m)
  BY DEF IInv, ProcInv
<1>3. m.poll # None
  BY <1>1, <1>2 DEF MemInv, JobInv
<1>4. m.poll.todo \in Seq(ItemType) /\ m.poll.snap \in Snapshot
  BY <1>3 DEF MemType, PollType
<1>5. 1 \in DOMAIN m.poll.todo /\ Head(m.poll.todo) = m.poll.todo[1] /\ m.poll.todo[1] \in ItemType
  BY <1>1, <1>4
<1>6. ItemInv(m.poll.todo[1])
  BY <1>2, <1>3, <1>5 DEF MemInv, PollInv
<1> QED BY <1>1, <1>3, <1>4, <1>5, <1>6

\* A recorded fill is projected again.
LEMMA StepReproject ==
    ASSUME IInv, NEW p \in Procs, Reproject(p)
    PROVE  IInv'
<1> PICK m \in MemType : mem[p] = m
  BY DEF IInv, TInv
<1>1. /\ m.job.pc = "next" /\ m.poll # None /\ m.poll.todo # <<>>
      /\ Head(m.poll.todo) \in ItemType /\ ItemInv(Head(m.poll.todo))
  BY ItemIs DEF Reproject
<1> DEFINE a == Head(m.poll.todo).a
<1>2. a \in Attempt /\ a \in attempts
  BY <1>1 DEF ItemType, ItemInv
<1>3. EvKeeps /\ refusals' \in 0..MaxRefusals
  BY EvUnchanged DEF Reproject, IInv, TInv, StoresTyped
<1>4. CASE ~reprojectable(a)
  <2>1. Take(p, NextItem)
    BY <1>4 DEF Reproject
  <2> QED BY <1>1, <1>3, <2>1, GoRests, RestingJobs DEF Reproject
<1>5. CASE reprojectable(a)
  <2>1. PICK pc \in {"witness", "obligation"} :
            Take(p, [Idle EXCEPT !.pc = pc, !.a = a, !.op = "fill"])
    BY <1>5 DEF Reproject
  <2> DEFINE j == [Idle EXCEPT !.pc = pc, !.a = a, !.op = "fill"]
  <2>2. j \in JobType /\ j.pc \in Proving /\ j.entry = None /\ j.a = a /\ j.op = "fill"
    BY <1>2 DEF Idle, JobType, Pc, AttemptOrNone, Proving
  <2>3. FullFill(a)
    BY <1>5 DEF reprojectable, FullFill
  <2>4. Take(p, j)
    BY <2>1
  <2> HIDE DEF j, a
  <2> QED BY <1>1, <1>2, <1>3, <2>2, <2>3, <2>4, GoProves DEF Reproject
<1> QED BY <1>4, <1>5

\* What a process that proves, binds or discharges is about.
LEMMA FillingIs ==
    ASSUME IInv, NEW p \in Procs, NEW m \in MemType, mem[p] = m, m.job.pc \in Filling
    PROVE  /\ m.job.a \in attempts /\ m.job.a \in Attempt /\ FullFill(m.job.a)
           /\ m.job.op \in {"fill", "resume"} /\ m.poll # None /\ MemInv(m)
<1>1. MemInv(m) /\ StoresTyped
  BY DEF IInv, ProcInv, TInv
<1> QED BY <1>1, AttemptsAre DEF MemInv, JobInv

\* The obligation of a fill.
LEMMA StepRecordObligation ==
    ASSUME IInv, NEW p \in Procs, RecordObligation(p)
    PROVE  IInv'
<1> PICK m \in MemType : mem[p] = m
  BY DEF IInv, TInv
<1> DEFINE j == [m.job EXCEPT !.pc = "proof"]
<1>1. m.job.pc = "obligation" /\ Go(p, j)
  BY DEF RecordObligation, At, Goto, job
<1>2. /\ m.job.a \in attempts /\ m.job.a \in Attempt /\ FullFill(m.job.a)
      /\ m.job.op \in {"fill", "resume"} /\ m.poll # None /\ MemInv(m)
  BY <1>1, FillingIs DEF Filling, Proving
<1>3. /\ j \in JobType /\ j.pc \in Proving /\ j.a = m.job.a /\ j.entry = None /\ j.op = m.job.op
  BY <1>1, <1>2 DEF MemType, JobType, Pc, Proving, MemInv, BindInv
<1>4. EvKeeps /\ refusals' \in 0..MaxRefusals
  BY <1>2 DEF RecordObligation, IInv, TInv, StoresTyped, StoreInv, EvInv, EvKeeps, EvType, job
<1> HIDE DEF j
<1> QED BY <1>1, <1>2, <1>3, <1>4, GoProves DEF RecordObligation

\* The proof of a fill.
LEMMA StepRecordProof ==
    ASSUME IInv, NEW p \in Procs, RecordProof(p)
    PROVE  IInv'
<1> PICK m \in MemType : mem[p] = m
  BY DEF IInv, TInv
<1> DEFINE j == [m.job EXCEPT !.pc = "witness"]
<1>1. m.job.pc = "proof" /\ Go(p, j)
  BY DEF RecordProof, At, Goto, job
<1>2. /\ m.job.a \in attempts /\ m.job.a \in Attempt /\ FullFill(m.job.a)
      /\ m.job.op \in {"fill", "resume"} /\ m.poll # None /\ MemInv(m)
  BY <1>1, FillingIs DEF Filling, Proving
<1>3. /\ j \in JobType /\ j.pc \in Proving /\ j.a = m.job.a /\ j.entry = None /\ j.op = m.job.op
  BY <1>1, <1>2 DEF MemType, JobType, Pc, Proving, MemInv, BindInv
<1>4. EvKeeps /\ refusals' \in 0..MaxRefusals
  BY <1>2 DEF RecordProof, IInv, TInv, StoresTyped, StoreInv, EvInv, EvKeeps, EvType, job
<1> HIDE DEF j
<1> QED BY <1>1, <1>2, <1>3, <1>4, GoProves DEF RecordProof

\* The witness of a fill.
LEMMA StepRecordWitness ==
    ASSUME IInv, NEW p \in Procs, RecordWitness(p)
    PROVE  IInv'
<1> PICK m \in MemType : mem[p] = m
  BY DEF IInv, TInv
<1> DEFINE j == [m.job EXCEPT !.pc = "consume"]
<1>1. m.job.pc = "witness" /\ Go(p, j)
  BY DEF RecordWitness, At, Goto, job
<1>2. /\ m.job.a \in attempts /\ m.job.a \in Attempt /\ FullFill(m.job.a)
      /\ m.job.op \in {"fill", "resume"} /\ m.poll # None /\ MemInv(m)
  BY <1>1, FillingIs DEF Filling, Proving
<1>3. /\ j \in JobType /\ j.pc \in Proving /\ j.a = m.job.a /\ j.entry = None /\ j.op = m.job.op
  BY <1>1, <1>2 DEF MemType, JobType, Pc, Proving, MemInv, BindInv
<1>4. EvKeeps /\ refusals' \in 0..MaxRefusals
  BY <1>2 DEF RecordWitness, IInv, TInv, StoresTyped, StoreInv, EvInv, EvKeeps, EvType, job
<1> HIDE DEF j
<1> QED BY <1>1, <1>2, <1>3, <1>4, GoProves DEF RecordWitness

\* The scope's reservations are finitely many.
LEMMA OutstandingFinite ==
    ASSUME StoresTyped
    PROVE  IsFiniteSet(outstanding_reservations) /\ outstanding_reservations \subseteq attempts
<1>1. Len(orders) \in Nat /\ attempts = 1..Len(orders)
  BY AttemptsAre
<1>2. IsFiniteSet(attempts)
  BY <1>1, FS_Interval
<1> QED BY <1>2, FS_Subset DEF outstanding_reservations

\* Of two outstanding reservations one is a consumed entry and the other an
\* unbound close over it.
LEMMA TwoOutstanding ==
    ASSUME StoresTyped, ScopeShape,
           NEW a \in outstanding_reservations, NEW b \in outstanding_reservations, a # b
    PROVE  \E e, c \in outstanding_reservations :
              /\ outstanding_reservations = {e, c} /\ e < c
              /\ Consumed(e) /\ Unbound(c) /\ ~IsClose(e) /\ IsClose(c)
<1>1. IsFiniteSet(outstanding_reservations)
  BY OutstandingFinite
<1>2. ~(Cardinality(outstanding_reservations) <= 1)
  <2>1. {a, b} \subseteq outstanding_reservations
    OBVIOUS
  <2>2. IsFiniteSet({a}) /\ Cardinality({a}) = 1
    BY FS_Singleton
  <2>3. b \notin {a} /\ {a} \cup {b} = {a, b}
    OBVIOUS
  <2>4. IsFiniteSet({a, b}) /\ Cardinality({a, b}) = 2
    BY <2>2, <2>3, FS_AddElement
  <2>5. Cardinality({a, b}) <= Cardinality(outstanding_reservations)
    BY <1>1, <2>1, FS_Subset
  <2>6. Cardinality(outstanding_reservations) \in Nat
    BY <1>1, FS_CardinalityType
  <2> QED BY <2>4, <2>5, <2>6
<1>3. \A c : orders[c].effect = "OPEN" => ~IsClose(c)
  BY DEF IsClose
<1> QED BY <1>2, <1>3 DEF ScopeShape, Consumed, Unbound, IsClose

\* A set of one reservation.
LEMMA OneOutstanding ==
    ASSUME NEW S, IsFiniteSet(S), Cardinality(S) = 1
    PROVE  \E e \in S : S = {e}
<1>1. S # {}
  BY FS_EmptySet
<1>2. PICK e \in S : TRUE
  BY <1>1
<1>3. IsFiniteSet(S \ {e}) /\ Cardinality(S \ {e}) = Cardinality(S) - 1
  BY <1>2, FS_RemoveElement
<1>4. Cardinality(S \ {e}) = 0
  BY <1>3
<1>5. S \ {e} = {}
  BY <1>3, <1>4, FS_EmptySet
<1> QED BY <1>2, <1>5

\* The states of a reservation.
LEMMA StatesAre ==
    ASSUME StoresTyped, RowInv, NEW a \in attempts
    PROVE  /\ reservation_state(a) \in States
           /\ a \in outstanding_reservations <=> Unbound(a) \/ Consumed(a)
           /\ a \in outstanding_reservations <=> ~Released(a)
           /\ reservation_last_seq(a) \in RowsOf(a) /\ RowsOf(a) \subseteq 1..tip
<1>1. RowsOf(a) # {} /\ RowsOf(a) \subseteq 1..tip /\ tip \in Nat
  BY AttemptsAre DEF RowInv, RowsOf
<1>2. Max(RowsOf(a)) \in RowsOf(a)
  BY <1>1, Extremes
<1>3. Max(RowsOf(a)) \in DOMAIN log
  BY <1>2 DEF RowsOf
<1>4. reservation_state(a) \in States
  <2>1. log \in Seq(Row)
    BY DEF StoresTyped
  <2>2. log[Max(RowsOf(a))] \in Row
    BY <1>3, <2>1
  <2> QED BY <2>2 DEF reservation_state, Row
<1> QED BY <1>1, <1>2, <1>4
        DEF outstanding_reservations, Unbound, Consumed, Released, States, reservation_last_seq

\* The consumer chooses a destination.
LEMMA StepConsume ==
    ASSUME IInv, NEW p \in Procs, Consume(p)
    PROVE  IInv'
<1> PICK m \in MemType : mem[p] = m
  BY DEF IInv, TInv
<1> DEFINE a == m.job.a
           others == other_outstanding(a)
<1>1. m.job.pc = "consume"
  BY DEF Consume, At, job
<1>2. /\ a \in attempts /\ a \in Attempt /\ FullFill(a)
      /\ m.job.op \in {"fill", "resume"} /\ m.poll # None /\ MemInv(m)
  BY <1>1, FillingIs DEF Filling, Proving
<1>3. m.job.entry = None
  BY <1>1, <1>2 DEF MemInv, BindInv, Proving
<1>4. EvKeeps /\ refusals' \in 0..MaxRefusals
  BY EvUnchanged DEF Consume, IInv, TInv, StoresTyped
<1>5. /\ StoresTyped /\ RowInv /\ UnboundInv /\ ConsumedInv /\ ReleasedInv /\ PendingInv
      /\ BrokerInv /\ ScopeShape
  BY DEF IInv, TInv, StoreInv
<1>6. /\ attempts' = attempts /\ ev' = ev
      /\ \A r : /\ (Unbound(r)' <=> Unbound(r)) /\ (IsClose(r)' <=> IsClose(r))
               /\ (FullFill(r)' <=> FullFill(r))
      /\ \A r, e : Anchor(e, r)' <=> Anchor(e, r)
  <2>1. /\ attempts' = attempts /\ ev' = ev /\ orders' = orders
        /\ \A r : /\ (Unbound(r)' <=> Unbound(r)) /\ (IsClose(r)' <=> IsClose(r))
                 /\ (FullFill(r)' <=> FullFill(r))
    BY LogSame DEF Consume, Unbound, IsClose, FullFill, Recorded
  <2> QED BY <2>1 DEF Anchor
<1>7. CASE Go(p, [m.job EXCEPT !.pc = "intent"]) /\ others = {}
  <2> DEFINE j == [m.job EXCEPT !.pc = "intent"]
  <2>1. j \in JobType /\ j.pc = "intent" /\ j.a = a /\ j.entry = None /\ j.op = m.job.op
    BY <1>3 DEF MemType, JobType, Pc
  <2>2. Go(p, j)
    BY <1>7
  <2> HIDE DEF j
  <2>3. PICK n \in MemType : /\ n.job = j /\ (n.poll # None <=> m.poll # None)
                             /\ PollInv(n)' /\ HeldInv(n)' /\ n.epoch \in 1..epoch'
                             /\ MemInv(n)' => IInv'
    BY <1>1, <1>4, <2>1, <2>2, GoActs DEF Consume, Sending
  <2>4. ~(Unbound(a) /\ IsClose(a))
    <3> SUFFICES ASSUME Unbound(a), IsClose(a) PROVE FALSE
      OBVIOUS
    <3>1. PICK e \in attempts : e # a /\ Consumed(e)
      BY <1>2, <1>5 DEF UnboundInv
    <3>2. e \in others
      BY <1>5, <3>1, StatesAre DEF other_outstanding
    <3> QED BY <1>7, <3>2
  <2>5. JobInv(n)'
    BY <1>2, <1>6, <2>1, <2>3
    DEF JobInv, Sending, Unsent, Filling, After, Proving, Binding, Discharging
  <2>6. CommitInv(n)'
    BY <2>1, <2>3 DEF CommitInv
  <2>7. BindInv(n)'
    BY <1>6, <2>1, <2>3, <2>4 DEF BindInv, Proving, Binding, Discharging
  <2> QED BY <2>3, <2>5, <2>6, <2>7 DEF MemInv
<1>8. ASSUME Go(p, [m.job EXCEPT !.pc = "pending", !.entry = CHOOSE e \in others : TRUE]),
             Cardinality(others) = 1,
             \A e \in others : /\ reservation_state(e) = "POSITION_CONSUMED"
                               /\ binding_consistent(a, e)
      PROVE  IInv'
  <2>1. others \subseteq outstanding_reservations \ {a} /\ IsFiniteSet(others)
    BY <1>5, OutstandingFinite, FS_Subset DEF other_outstanding
  <2>2. others # {}
    BY <1>8, <2>1, OneOutstanding
  <2>3. PICK e \in others : e = (CHOOSE x \in others : TRUE)
    BY <2>2
  <2>4. /\ e \in outstanding_reservations /\ e # a /\ e \in attempts /\ e \in Attempt
        /\ Consumed(e) /\ ~Unbound(e) /\ binding_consistent(a, e)
    BY <1>5, <1>8, <2>1, <2>3, OutstandingFinite, AttemptsAre DEF Consumed, Unbound
  <2> DEFINE j == [m.job EXCEPT !.pc = "pending", !.entry = e]
  <2>5. Go(p, j)
    BY <1>8, <2>3
  <2>6. j \in JobType /\ j.pc = "pending" /\ j.a = a /\ j.entry = e /\ j.op = m.job.op
    BY <2>4 DEF MemType, JobType, Pc, AttemptOrNone
  <2> HIDE DEF j, a, others
  <2>7. PICK n \in MemType : /\ n.job = j /\ (n.poll # None <=> m.poll # None)
                             /\ PollInv(n)' /\ HeldInv(n)' /\ n.epoch \in 1..epoch'
                             /\ MemInv(n)' => IInv'
    BY <1>1, <1>4, <2>5, <2>6, GoActs DEF Consume, Sending
  <2>8. a \in outstanding_reservations => Unbound(a) /\ IsClose(a) /\ e < a
    <3> SUFFICES ASSUME a \in outstanding_reservations PROVE Unbound(a) /\ IsClose(a) /\ e < a
      OBVIOUS
    <3>1. PICK d, c \in outstanding_reservations :
              /\ outstanding_reservations = {d, c} /\ d < c
              /\ Consumed(d) /\ Unbound(c) /\ ~IsClose(d) /\ IsClose(c)
      BY <1>5, <2>4, TwoOutstanding
    <3>2. e = d /\ a = c
      BY <2>4, <3>1
    <3> QED BY <3>1, <3>2
  <2>9. Unbound(a) => IsClose(a)
    BY <1>2, <1>5, <2>8, StatesAre
  <2>10. IsClose(a) => Anchor(e, a)
    <3> SUFFICES ASSUME IsClose(a) PROVE Anchor(e, a)
      OBVIOUS
    <3>1. CASE e < a
      BY <1>5, <2>4, <3>1 DEF ConsumedInv, Anchor
    <3>2. CASE ~(e < a)
      <4>1. Released(a)
        BY <1>2, <1>5, <2>8, <3>2, StatesAre
      <4>2. flow[a] # "halted"
        BY <1>2, <1>5 DEF BrokerInv, FullFill
      <4>3. committed_command("release", a)
        BY <1>2, <1>5, <4>1, <4>2 DEF ReleasedInv
      <4>4. PICK it \in ev.pending : it.attempt = a
        BY <1>2, <1>5, <4>3 DEF ReleasedInv
      <4>5. it.entry = e
        BY <2>4, <4>4 DEF binding_consistent, pending_binding
      <4>6. PendingRow(it)
        BY <1>5, <4>4 DEF PendingInv
      <4> QED BY <4>4, <4>5, <4>6 DEF PendingRow
    <3> QED BY <3>1, <3>2
  <2>11. JobInv(n)'
    BY <1>2, <1>6, <2>6, <2>7
    DEF JobInv, Sending, Unsent, Filling, After, Proving, Binding, Discharging
  <2>12. CommitInv(n)'
    BY <2>6, <2>7 DEF CommitInv
  <2>13. e # None
    BY <2>4, PollIsSome
  <2>14. BindInv(n)'
    BY <1>6, <2>4, <2>6, <2>7, <2>9, <2>10, <2>13 DEF BindInv, Proving, Binding, Discharging
  <2> QED BY <2>7, <2>11, <2>12, <2>14 DEF MemInv
<1>9. CASE Go(p, NextItem)
  BY <1>1, <1>2, <1>4, <1>9, GoRests, RestingJobs DEF Consume
<1> QED BY <1>7, <1>8, <1>9 DEF Consume, job

\* One kind of row written: what it may be.
LEMMA RowsWritten ==
    ASSUME IInv, NEW X, UNCHANGED refusals,
           \/ /\ ev' = [ev EXCEPT !.pending = ev.pending \cup {X}]
              /\ X \in PendingType /\ PendingRow(X)
           \/ ev' = [ev EXCEPT !.links = ev.links \cup {X}] /\ X \in Attempt \X Attempt
           \/ /\ ev' = [ev EXCEPT !.intents = ev.intents \cup {X}]
              /\ X \in [attempt : Attempt, res : Attempt, dest : States]
           \/ /\ ev' = [ev EXCEPT !.projected = ev.projected \cup {X}]
              /\ X \in attempts /\ ~Unbound(X)
           \/ /\ ev' = [ev EXCEPT !.marks = X]
              /\ X \subseteq [attempt : Attempt, sig : Where \cup {None, "HELD"}]
    PROVE  EvKeeps /\ refusals' \in 0..MaxRefusals
<1>1. /\ ev \in EvType /\ StoresTyped /\ refusals' \in 0..MaxRefusals
  BY DEF IInv, TInv, StoresTyped
<1>3. /\ ev.unsent \subseteq attempts /\ ev.projected \subseteq attempts
      /\ ev.discarded \subseteq attempts
      /\ \A a \in ev.proofs : a \in attempts /\ FullFill(a)
  BY DEF IInv, StoreInv, EvInv
<1>4. attempts \subseteq Attempt
  BY <1>1, AttemptsAre
<1>5. CASE /\ ev' = [ev EXCEPT !.pending = ev.pending \cup {X}]
           /\ X \in PendingType /\ PendingRow(X)
  <2>1. ev' \in EvType
    BY <1>1, <1>5 DEF EvType
  <2>2. /\ ev'.pending = ev.pending \cup {X} /\ ev'.unsent = ev.unsent
        /\ ev'.projected = ev.projected /\ ev'.discarded = ev.discarded /\ ev'.proofs = ev.proofs
    BY <1>1, <1>5 DEF EvType
  <2> QED BY <1>1, <1>3, <1>5, <2>1, <2>2 DEF EvKeeps
<1>6. CASE ev' = [ev EXCEPT !.links = ev.links \cup {X}] /\ X \in Attempt \X Attempt
  <2>1. ev' \in EvType
    BY <1>1, <1>6 DEF EvType
  <2>2. /\ ev'.pending = ev.pending /\ ev'.unsent = ev.unsent
        /\ ev'.projected = ev.projected /\ ev'.discarded = ev.discarded /\ ev'.proofs = ev.proofs
    BY <1>1, <1>6 DEF EvType
  <2> QED BY <1>1, <1>3, <2>1, <2>2 DEF EvKeeps
<1>7. CASE /\ ev' = [ev EXCEPT !.intents = ev.intents \cup {X}]
           /\ X \in [attempt : Attempt, res : Attempt, dest : States]
  <2>1. ev' \in EvType
    BY <1>1, <1>7 DEF EvType
  <2>2. /\ ev'.pending = ev.pending /\ ev'.unsent = ev.unsent
        /\ ev'.projected = ev.projected /\ ev'.discarded = ev.discarded /\ ev'.proofs = ev.proofs
    BY <1>1, <1>7 DEF EvType
  <2> QED BY <1>1, <1>3, <2>1, <2>2 DEF EvKeeps
<1>8. CASE /\ ev' = [ev EXCEPT !.projected = ev.projected \cup {X}]
           /\ X \in attempts /\ ~Unbound(X)
  <2>1. ev' \in EvType
    BY <1>1, <1>4, <1>8 DEF EvType
  <2>2. /\ ev'.pending = ev.pending /\ ev'.unsent = ev.unsent
        /\ ev'.projected = ev.projected \cup {X} /\ ev'.discarded = ev.discarded
        /\ ev'.proofs = ev.proofs
    BY <1>1, <1>8 DEF EvType
  <2> QED BY <1>1, <1>3, <1>8, <2>1, <2>2 DEF EvKeeps
<1>9. CASE /\ ev' = [ev EXCEPT !.marks = X]
           /\ X \subseteq [attempt : Attempt, sig : Where \cup {None, "HELD"}]
  <2>1. ev' \in EvType
    BY <1>1, <1>9 DEF EvType
  <2>2. /\ ev'.pending = ev.pending /\ ev'.unsent = ev.unsent
        /\ ev'.projected = ev.projected /\ ev'.discarded = ev.discarded /\ ev'.proofs = ev.proofs
    BY <1>1, <1>9 DEF EvType
  <2> QED BY <1>1, <1>3, <2>1, <2>2 DEF EvKeeps
<1> QED BY <1>5, <1>6, <1>7, <1>8, <1>9

\* What a step that appends nothing leaves alone.
LEMMA FactsSame ==
    ASSUME UNCHANGED <<log, orders, receipts>>
    PROVE  /\ attempts' = attempts /\ tip' = tip
           /\ \A r : /\ (Unbound(r)' <=> Unbound(r)) /\ (IsClose(r)' <=> IsClose(r))
                    /\ (FullFill(r)' <=> FullFill(r))
           /\ \A r, e : Anchor(e, r)' <=> Anchor(e, r)
           /\ \A c, r : committed_command(c, r)' <=> committed_command(c, r)
<1>1. /\ attempts' = attempts /\ tip' = tip
      /\ \A r : /\ (Unbound(r)' <=> Unbound(r)) /\ (IsClose(r)' <=> IsClose(r))
               /\ (FullFill(r)' <=> FullFill(r))
      /\ \A c, r : committed_command(c, r)' <=> committed_command(c, r)
  BY LogSame DEF Unbound, IsClose, FullFill, Recorded, committed_command
<1> QED BY <1>1 DEF Anchor

\* The recovery row of a close.
LEMMA StepPersistPending ==
    ASSUME IInv, NEW p \in Procs, PersistPending(p)
    PROVE  IInv'
<1> PICK m \in MemType : mem[p] = m
  BY DEF IInv, TInv
<1> DEFINE j == [m.job EXCEPT !.pc = "link"]
           it == pending_binding(m.job.a, m.job.entry)
<1>1. m.job.pc = "pending" /\ Go(p, j)
  BY DEF PersistPending, At, Goto, job
<1>2. /\ m.job.a \in attempts /\ m.job.a \in Attempt /\ FullFill(m.job.a)
      /\ m.job.op \in {"fill", "resume"} /\ m.poll # None /\ MemInv(m)
  BY <1>1, FillingIs DEF Filling, Binding
<1>3. /\ j \in JobType /\ j.pc = "link" /\ j.a = m.job.a /\ j.entry = m.job.entry /\ j.op = m.job.op
  BY DEF MemType, JobType, Pc
<1>4. /\ m.job.entry # None /\ m.job.entry \in attempts /\ ~Unbound(m.job.entry)
      /\ IsClose(m.job.a) => Anchor(m.job.entry, m.job.a)
      /\ Unbound(m.job.a) => IsClose(m.job.a)
  BY <1>1, <1>2 DEF MemInv, BindInv, Binding
<1>5. StoresTyped /\ RowInv /\ EvInv
  BY DEF IInv, TInv, StoreInv
<1>6. /\ reservation_last_seq(m.job.a) \in RowsOf(m.job.a)
      /\ reservation_last_seq(m.job.a) \in Nat /\ reservation_last_seq(m.job.entry) \in Nat
      /\ m.job.entry \in Attempt
  <2>1. \A b \in attempts : reservation_last_seq(b) \in RowsOf(b) /\ RowsOf(b) \subseteq 1..tip
    BY <1>5, StatesAre
  <2> QED BY <1>2, <1>4, <1>5, <2>1, AttemptsAre
<1>7. it \in PendingType /\ PendingRow(it) /\ it.attempt = m.job.a
  BY <1>2, <1>4, <1>6 DEF PendingType, PendingRow, pending_binding
<1>8. ev' = [ev EXCEPT !.pending = ev.pending \cup {it}]
  BY DEF PersistPending, job
<1> HIDE DEF it, j
<1>9. EvKeeps /\ refusals' \in 0..MaxRefusals /\ it \in ev'.pending
  <2>1. EvKeeps /\ refusals' \in 0..MaxRefusals
    BY <1>7, <1>8, RowsWritten DEF PersistPending
  <2>2. it \in ev'.pending
    BY <1>5, <1>8 DEF StoresTyped, EvType
  <2> QED BY <2>1, <2>2
<1>10. PICK n \in MemType : /\ n.job = j /\ (n.poll # None <=> m.poll # None)
                            /\ PollInv(n)' /\ HeldInv(n)' /\ n.epoch \in 1..epoch'
                            /\ MemInv(n)' => IInv'
  BY <1>1, <1>3, <1>9, GoActs DEF PersistPending, Sending
<1>11. /\ attempts' = attempts
       /\ \A r : /\ (Unbound(r)' <=> Unbound(r)) /\ (IsClose(r)' <=> IsClose(r))
                /\ (FullFill(r)' <=> FullFill(r))
       /\ \A r, e : Anchor(e, r)' <=> Anchor(e, r)
  BY FactsSame DEF PersistPending
<1>12. JobInv(n)'
  BY <1>2, <1>3, <1>10, <1>11
  DEF JobInv, Sending, Unsent, Filling, After, Proving, Binding, Discharging
<1>13. CommitInv(n)'
  BY <1>3, <1>10 DEF CommitInv
<1>14. BindInv(n)'
  BY <1>3, <1>4, <1>7, <1>9, <1>10, <1>11 DEF BindInv, Proving, Binding, Discharging
<1> QED BY <1>10, <1>12, <1>13, <1>14 DEF MemInv

\* The link of a close to its entry.
LEMMA StepPersistLink ==
    ASSUME IInv, NEW p \in Procs, PersistLink(p)
    PROVE  IInv'
<1> PICK m \in MemType : mem[p] = m
  BY DEF IInv, TInv
<1> DEFINE j == [m.job EXCEPT !.pc = "intent"]
<1>1. m.job.pc = "link" /\ Go(p, j)
  BY DEF PersistLink, At, Goto, job
<1>2. /\ m.job.a \in attempts /\ m.job.a \in Attempt /\ FullFill(m.job.a)
      /\ m.job.op \in {"fill", "resume"} /\ m.poll # None /\ MemInv(m)
  BY <1>1, FillingIs DEF Filling, Binding
<1>3. /\ j \in JobType /\ j.pc = "intent" /\ j.a = m.job.a /\ j.entry = m.job.entry /\ j.op = m.job.op
  BY DEF MemType, JobType, Pc
<1>4. /\ m.job.entry # None /\ m.job.entry \in attempts /\ ~Unbound(m.job.entry)
      /\ IsClose(m.job.a) => Anchor(m.job.entry, m.job.a)
      /\ Unbound(m.job.a) => IsClose(m.job.a)
      /\ \E it \in ev.pending : it.attempt = m.job.a
  BY <1>1, <1>2 DEF MemInv, BindInv, Binding
<1>5. StoresTyped /\ EvInv
  BY DEF IInv, TInv, StoreInv
<1>6. m.job.entry \in Attempt
  BY <1>4, <1>5, AttemptsAre
<1>7. EvKeeps /\ refusals' \in 0..MaxRefusals /\ ev'.pending = ev.pending
  <2> DEFINE x == <<m.job.a, m.job.entry>>
  <2>0. x \in Attempt \X Attempt
    BY <1>2, <1>6
  <2>1. ev' = [ev EXCEPT !.links = ev.links \cup {x}]
    BY DEF PersistLink, job
  <2> HIDE DEF x
  <2>2. EvKeeps /\ refusals' \in 0..MaxRefusals
    BY <2>0, <2>1, RowsWritten DEF PersistLink
  <2> QED BY <1>5, <2>1, <2>2 DEF StoresTyped, EvType
<1> HIDE DEF j
<1>10. PICK n \in MemType : /\ n.job = j /\ (n.poll # None <=> m.poll # None)
                            /\ PollInv(n)' /\ HeldInv(n)' /\ n.epoch \in 1..epoch'
                            /\ MemInv(n)' => IInv'
  BY <1>1, <1>3, <1>7, GoActs DEF PersistLink, Sending
<1>11. /\ attempts' = attempts
       /\ \A r : /\ (Unbound(r)' <=> Unbound(r)) /\ (IsClose(r)' <=> IsClose(r))
                /\ (FullFill(r)' <=> FullFill(r))
       /\ \A r, e : Anchor(e, r)' <=> Anchor(e, r)
  BY FactsSame DEF PersistLink
<1>12. JobInv(n)'
  BY <1>2, <1>3, <1>10, <1>11
  DEF JobInv, Sending, Unsent, Filling, After, Proving, Binding, Discharging
<1>13. CommitInv(n)'
  BY <1>3, <1>10 DEF CommitInv
<1>14. BindInv(n)'
  BY <1>3, <1>4, <1>7, <1>10, <1>11 DEF BindInv, Proving, Binding, Discharging
<1> QED BY <1>10, <1>12, <1>13, <1>14 DEF MemInv

\* The log position is one.
LEMMA LogAtIs ==
    ASSUME StoresTyped
    PROVE  LogAt \in Where /\ LogAt.tip = tip /\ LogAt.epoch = epoch
BY AttemptsAre, BoundsAssumption DEF LogAt, Where, StoresTyped

\* The intent of a release is durable before the log is touched.
LEMMA StepReleaseIntent ==
    ASSUME IInv, NEW p \in Procs, ReleaseIntent(p)
    PROVE  IInv'
<1> PICK m \in MemType : mem[p] = m
  BY DEF IInv, TInv
<1>1. m.job.pc = "intent"
  BY DEF ReleaseIntent, At, job
<1>2. /\ m.job.a \in attempts /\ m.job.a \in Attempt /\ FullFill(m.job.a)
      /\ m.job.op \in {"fill", "resume"} /\ m.poll # None /\ MemInv(m)
  BY <1>1, FillingIs DEF Filling, Binding
<1>3. StoresTyped /\ EvInv
  BY DEF IInv, TInv, StoreInv
<1>4. CASE ~release_snapshot_current(job(p))
  <2>1. Go(p, NextItem) /\ ev' = ev
    BY <1>4 DEF ReleaseIntent
  <2>2. EvKeeps /\ refusals' \in 0..MaxRefusals
    BY <1>3, <2>1, EvUnchanged DEF ReleaseIntent, StoresTyped
  <2> QED BY <1>1, <1>2, <2>1, <2>2, GoRests, RestingJobs DEF ReleaseIntent
<1>5. CASE release_snapshot_current(job(p))
  <2> PICK w \in Where : w = LogAt /\ w.tip = tip
    BY <1>3, LogAtIs
  <2> DEFINE j == [m.job EXCEPT !.pc = "release", !.at = w]
  <2>1. Go(p, j)
    BY <1>5 DEF ReleaseIntent, job
  <2>2. /\ j \in JobType /\ j.pc = "release" /\ j.a = m.job.a /\ j.entry = m.job.entry
        /\ j.op = m.job.op /\ j.at = w
    BY DEF MemType, JobType, Pc
  <2>3. destination(m.job) \in States
    BY DEF destination, States
  <2>4. EvKeeps /\ refusals' \in 0..MaxRefusals /\ ev'.pending = ev.pending
    <3> DEFINE x == Intent(m.job.a, m.job.a, destination(m.job))
    <3>1. ev' = [ev EXCEPT !.intents = ev.intents \cup {x}]
      BY <1>5 DEF ReleaseIntent, job
    <3>2. x \in [attempt : Attempt, res : Attempt, dest : States]
      BY <1>2, <2>3 DEF Intent
    <3> HIDE DEF x
    <3>3. EvKeeps /\ refusals' \in 0..MaxRefusals
      BY <3>1, <3>2, RowsWritten DEF ReleaseIntent
    <3> QED BY <1>3, <3>1, <3>3 DEF StoresTyped, EvType
  <2> HIDE DEF j
  <2>5. PICK n \in MemType : /\ n.job = j /\ (n.poll # None <=> m.poll # None)
                             /\ PollInv(n)' /\ HeldInv(n)' /\ n.epoch \in 1..epoch'
                             /\ MemInv(n)' => IInv'
    BY <1>1, <2>1, <2>2, <2>4, GoActs DEF ReleaseIntent, Sending
  <2>6. /\ attempts' = attempts /\ tip' = tip
        /\ \A r : /\ (Unbound(r)' <=> Unbound(r)) /\ (IsClose(r)' <=> IsClose(r))
                 /\ (FullFill(r)' <=> FullFill(r))
        /\ \A r, e : Anchor(e, r)' <=> Anchor(e, r)
    BY FactsSame DEF ReleaseIntent
  <2>7. JobInv(n)'
    BY <1>2, <2>2, <2>5, <2>6
    DEF JobInv, Sending, Unsent, Filling, After, Proving, Binding, Discharging
  <2>8. CommitInv(n)'
    BY <2>2, <2>5 DEF CommitInv
  <2>9. w.tip <= tip
    BY <1>3, AttemptsAre
  <2>10. /\ m.job.entry # None =>
              /\ m.job.entry \in attempts /\ ~Unbound(m.job.entry)
              /\ IsClose(m.job.a) => Anchor(m.job.entry, m.job.a)
              /\ Unbound(m.job.a) => IsClose(m.job.a)
              /\ \E it \in ev.pending : it.attempt = m.job.a
         /\ m.job.entry = None /\ Unbound(m.job.a) => ~IsClose(m.job.a)
    BY <1>1, <1>2 DEF MemInv, BindInv, Binding
  <2>11. BindInv(n)'
    BY <2>2, <2>4, <2>5, <2>6, <2>9, <2>10 DEF BindInv, Proving, Binding, Discharging
  <2> QED BY <2>5, <2>7, <2>8, <2>11 DEF MemInv
<1> QED BY <1>4, <1>5

\* A release that the log refuses.
LEMMA StepReleaseRefused ==
    ASSUME IInv, NEW p \in Procs, ReleaseRefused(p)
    PROVE  IInv'
<1> PICK m \in MemType : mem[p] = m
  BY DEF IInv, TInv
<1>1. m.job.pc = "release" /\ Go(p, NextItem)
  BY DEF ReleaseRefused, At, job
<1>2. m.poll # None
  BY <1>1, FillingIs DEF Filling, Binding
<1>3. EvKeeps /\ refusals' \in 0..MaxRefusals
  BY EvUnchanged, BoundsAssumption DEF ReleaseRefused, IInv, TInv, StoresTyped
<1> QED BY <1>1, <1>2, <1>3, GoRests, RestingJobs DEF ReleaseRefused

\* The engine's ledger follows the log.
LEMMA StepProjectRelease ==
    ASSUME IInv, NEW p \in Procs, ProjectRelease(p)
    PROVE  IInv'
<1> PICK m \in MemType : mem[p] = m
  BY DEF IInv, TInv
<1>1. m.job.pc = "project"
  BY DEF ProjectRelease, At, job
<1>2. /\ m.job.a \in attempts /\ m.job.a \in Attempt /\ m.poll # None /\ MemInv(m)
  BY <1>1, FillingIs DEF Filling, After
<1>3. StoresTyped /\ EvInv /\ mem \in [Procs -> MemType]
  BY DEF IInv, TInv, StoreInv
<1>4. ~Unbound(m.job.a)
  <2>1. committed_command("release", m.job.a)
    BY <1>1, <1>2 DEF MemInv, JobInv, After
  <2> QED BY <1>2, <2>1 DEF IInv, StoreInv, UnboundInv
<1>5. CASE ~Holds(p, m.job.a)
  <2>1. Go(p, NextItem) /\ ev' = ev
    BY <1>5 DEF ProjectRelease, job
  <2>2. EvKeeps /\ refusals' \in 0..MaxRefusals
    BY <1>3, <2>1, EvUnchanged DEF ProjectRelease, StoresTyped
  <2> QED BY <1>1, <1>2, <2>1, <2>2, GoRests, RestingJobs DEF ProjectRelease
<1>6. CASE Holds(p, m.job.a)
  <2> DEFINE n == [m EXCEPT !.job = NextItem, !.held = None]
  <2>1. mem' = [mem EXCEPT ![p] = n]
    BY <1>3, <1>6 DEF ProjectRelease, job
  <2>2. EvKeeps /\ refusals' \in 0..MaxRefusals
    <3>1. ev' = [ev EXCEPT !.projected = ev.projected \cup {m.job.a}]
      BY <1>6 DEF ProjectRelease, job
    <3> QED BY <1>2, <1>4, <3>1, RowsWritten DEF ProjectRelease
  <2>3. n \in MemType /\ n.job = NextItem /\ n.held = None /\ n.epoch = m.epoch /\ n.poll = m.poll
    BY RestingJobs DEF MemType, HeldType
  <2> HIDE DEF n
  <2>4. MemInv(m)' /\ (MemInv(n)' => IInv')
    BY <1>1, <2>1, <2>2, <2>3, RestingJobs, EvidenceActs DEF ProjectRelease, Sending
  <2>5. m.held # None /\ m.held.attempt = m.job.a
    BY <1>6 DEF Holds
  <2>6. ~Unbound(m.job.a)'
    BY <1>4, FactsSame DEF ProjectRelease
  <2>7. PollInv(n)' /\ n.epoch \in 1..epoch'
    BY <1>1, <2>3, <2>4 DEF MemInv, PollInv, JobInv
  <2>8. HeldInv(n)'
    <3>1. ASSUME n.epoch = epoch', NEW b \in attempts', Unbound(b)' PROVE FALSE
      <4>1. m.held.attempt = b
        BY <1>1, <2>3, <2>4, <3>1 DEF MemInv, HeldInv
      <4> QED BY <2>5, <2>6, <3>1, <4>1
    <3> QED BY <2>3, <3>1 DEF HeldInv
  <2> QED BY <1>2, <2>3, <2>4, <2>7, <2>8, Rests, RestingJobs
<1> QED BY <1>5, <1>6

\* The newest hold marker of an attempt is a row.
LEMMA MarkIs ==
    ASSUME StoresTyped, NEW a \in Attempt, NEW sig \in Where \cup {None, "HELD"}
    PROVE  Mark(a, sig) \subseteq [attempt : Attempt, sig : Where \cup {None, "HELD"}]
BY DEF Mark, StoresTyped, EvType

\* A discharge that does not commit is left to a later poll, or the release goes
\* on without it.
LEMMA StepAfterRefusal ==
    ASSUME IInv, NEW p \in Procs, NEW m \in MemType, mem[p] = m, m.job.pc \in Discharging,
           AfterRefusal(p), UNCHANGED <<log, epoch, orders, flow, receipts, broker, boots>>,
           refusals' \in 0..MaxRefusals
    PROVE  IInv'
<1>1. /\ m.job.a \in attempts /\ m.job.a \in Attempt /\ FullFill(m.job.a)
      /\ m.job.op \in {"fill", "resume"} /\ m.poll # None /\ MemInv(m)
  BY FillingIs DEF Filling, After
<1>2. m.job.pc # "down"
  BY DEF Discharging
<1>3. CASE m.job.op = "resume"
  <2> DEFINE X == Mark(m.job.a, m.job.sig)
  <2>1. Go(p, NextItem) /\ ev' = [ev EXCEPT !.marks = X]
    BY <1>3 DEF AfterRefusal, job
  <2>2. StoresTyped
    BY DEF IInv, TInv
  <2>3. m.job.sig \in Where \cup {None, "HELD"}
    BY DEF MemType, JobType
  <2>4. X \subseteq [attempt : Attempt, sig : Where \cup {None, "HELD"}]
    BY <1>1, <2>2, <2>3, MarkIs
  <2> HIDE DEF X
  <2>5. EvKeeps
    <3>1. ev' \in EvType
      BY <2>1, <2>2, <2>4 DEF EvType, StoresTyped
    <3>2. /\ ev'.pending = ev.pending /\ ev'.unsent = ev.unsent
          /\ ev'.projected = ev.projected /\ ev'.discarded = ev.discarded
          /\ ev'.proofs = ev.proofs
      BY <2>1, <2>2 DEF EvType, StoresTyped
    <3>3. EvInv
      BY DEF IInv, StoreInv
    <3> QED BY <3>1, <3>2, <3>3 DEF EvKeeps, EvInv
  <2> QED BY <1>1, <1>2, <2>1, <2>5, GoRests, RestingJobs
<1>4. CASE m.job.op # "resume"
  <2> DEFINE j == [m.job EXCEPT !.pc = "project"]
  <2>1. Go(p, j) /\ ev' = ev
    BY <1>4 DEF AfterRefusal, Goto, job
  <2>2. j \in JobType /\ j.pc = "project" /\ j.a = m.job.a /\ j.op = m.job.op
    BY DEF MemType, JobType, Pc
  <2>3. EvKeeps
    BY <2>1, EvUnchanged
  <2> HIDE DEF j
  <2>4. PICK n \in MemType : /\ n.job = j /\ (n.poll # None <=> m.poll # None)
                             /\ PollInv(n)' /\ HeldInv(n)' /\ n.epoch \in 1..epoch'
                             /\ MemInv(n)' => IInv'
    BY <1>2, <2>1, <2>2, <2>3, GoActs DEF Sending
  <2>5. /\ attempts' = attempts
        /\ \A r : FullFill(r)' <=> FullFill(r)
        /\ \A c, r : committed_command(c, r)' <=> committed_command(c, r)
    BY FactsSame
  <2>6. committed_command("release", m.job.a)
    BY <1>1 DEF MemInv, JobInv, After
  <2>7. JobInv(n)'
    BY <1>1, <2>2, <2>4, <2>5, <2>6
    DEF JobInv, Sending, Unsent, Filling, After, Proving, Binding, Discharging
  <2>8. CommitInv(n)' /\ BindInv(n)'
    BY <2>2, <2>4 DEF CommitInv, BindInv, Proving, Binding, Discharging
  <2> QED BY <2>4, <2>7, <2>8 DEF MemInv
<1> QED BY <1>3, <1>4

\* A discharge the log refuses.
LEMMA StepDischargeRefused ==
    ASSUME IInv, NEW p \in Procs, DischargeRefused(p)
    PROVE  IInv'
<1> PICK m \in MemType : mem[p] = m
  BY DEF IInv, TInv
<1>1. m.job.pc \in Discharging /\ AfterRefusal(p)
  BY DEF DischargeRefused, At, job, Discharging
<1>2. refusals' \in 0..MaxRefusals
  BY BoundsAssumption DEF DischargeRefused, IInv, TInv, StoresTyped
<1> QED BY <1>1, <1>2, StepAfterRefusal DEF DischargeRefused

\* What a discharge is about.
LEMMA DischargeIs ==
    ASSUME IInv, NEW p \in Procs, NEW m \in MemType, mem[p] = m, m.job.pc \in Discharging
    PROVE  /\ m.job.entry # None /\ m.job.entry \in attempts /\ m.job.entry \in Attempt
           /\ ~Unbound(m.job.entry) /\ ~Unbound(m.job.a)
           /\ IsClose(m.job.a) /\ Anchor(m.job.entry, m.job.a)
           /\ \E it \in ev.pending : it.attempt = m.job.a
           /\ committed_command("release", m.job.a)
<1>1. MemInv(m) /\ StoresTyped /\ UnboundInv
  BY DEF IInv, ProcInv, TInv, StoreInv
<1>2. /\ m.job.entry # None /\ m.job.entry \in attempts
      /\ ~Unbound(m.job.entry)
      /\ IsClose(m.job.a) /\ Anchor(m.job.entry, m.job.a)
      /\ \E it \in ev.pending : it.attempt = m.job.a
  BY <1>1 DEF MemInv, BindInv, Discharging
<1>3. m.job.a \in attempts /\ committed_command("release", m.job.a)
  BY <1>1 DEF MemInv, JobInv, After, Filling
<1> QED BY <1>1, <1>2, <1>3, AttemptsAre DEF UnboundInv

\* The history of a discharge is read.
LEMMA StepDischargeHistory ==
    ASSUME IInv, NEW p \in Procs, DischargeHistory(p)
    PROVE  IInv'
<1> PICK m \in MemType : mem[p] = m
  BY DEF IInv, TInv
<1>1. m.job.pc = "history" /\ m.job.pc \in Discharging
  BY DEF DischargeHistory, At, job, Discharging
<1>2. refusals' \in 0..MaxRefusals
  BY DEF DischargeHistory, IInv, TInv, StoresTyped
<1>3. CASE AfterRefusal(p)
  BY <1>1, <1>2, <1>3, StepAfterRefusal DEF DischargeHistory
<1>4. CASE Go(p, [m.job EXCEPT !.pc = "discharge", !.at = LogAt]) /\ ev' = ev
  <2>0. StoresTyped
    BY DEF IInv, TInv
  <2> PICK w \in Where : w = LogAt /\ w.tip = tip
    BY <2>0, LogAtIs
  <2> DEFINE j == [m.job EXCEPT !.pc = "discharge", !.at = w]
  <2>1. Go(p, j)
    BY <1>4
  <2>2. /\ j \in JobType /\ j.pc = "discharge" /\ j.a = m.job.a /\ j.entry = m.job.entry
        /\ j.op = m.job.op /\ j.at = w
    BY DEF MemType, JobType, Pc
  <2>3. EvKeeps
    BY <1>4, EvUnchanged
  <2> HIDE DEF j
  <2>4. PICK n \in MemType : /\ n.job = j /\ (n.poll # None <=> m.poll # None)
                             /\ PollInv(n)' /\ HeldInv(n)' /\ n.epoch \in 1..epoch'
                             /\ MemInv(n)' => IInv'
    BY <1>1, <1>2, <2>1, <2>2, <2>3, GoActs DEF DischargeHistory, Sending
  <2>5. /\ attempts' = attempts /\ tip' = tip /\ ev' = ev
        /\ \A r : /\ (Unbound(r)' <=> Unbound(r)) /\ (IsClose(r)' <=> IsClose(r))
                 /\ (FullFill(r)' <=> FullFill(r))
        /\ \A r, e : Anchor(e, r)' <=> Anchor(e, r)
        /\ \A c, r : committed_command(c, r)' <=> committed_command(c, r)
    BY <1>4, FactsSame DEF DischargeHistory
  <2>6. /\ m.job.a \in attempts /\ FullFill(m.job.a)
        /\ m.job.op \in {"fill", "resume"} /\ m.poll # None
    BY <1>1, FillingIs DEF Filling, After
  <2>7. /\ m.job.entry # None /\ m.job.entry \in attempts
        /\ ~Unbound(m.job.entry) /\ ~Unbound(m.job.a)
        /\ IsClose(m.job.a) /\ Anchor(m.job.entry, m.job.a)
        /\ \E it \in ev.pending : it.attempt = m.job.a
        /\ committed_command("release", m.job.a)
    BY <1>1, DischargeIs
  <2>8. JobInv(n)'
    BY <2>2, <2>4, <2>5, <2>6, <2>7
    DEF JobInv, Sending, Unsent, Filling, After, Proving, Binding, Discharging
  <2>9. w.tip <= tip
    BY <2>0, AttemptsAre
  <2>10. CommitInv(n)'
    BY <2>2, <2>4 DEF CommitInv
  <2>11. BindInv(n)'
    BY <2>2, <2>4, <2>5, <2>7, <2>9 DEF BindInv, Proving, Binding, Discharging
  <2> QED BY <2>4, <2>8, <2>10, <2>11 DEF MemInv
<1> QED BY <1>3, <1>4 DEF DischargeHistory, job

\* The recovery row that a discharge finds for its close.
LEMMA PendingOfIs ==
    ASSUME IInv, NEW a, \E it \in ev.pending : it.attempt = a
    PROVE  PendingOf(a) \in ev.pending /\ PendingOf(a).attempt = a /\ PendingRow(PendingOf(a))
<1>1. PendingOf(a) \in ev.pending /\ PendingOf(a).attempt = a
  BY DEF PendingOf
<1> QED BY <1>1 DEF IInv, StoreInv, PendingInv

\* The intent of a discharge; with the fence passed nobody is unbound.
LEMMA StepDischargeIntent ==
    ASSUME IInv, NEW p \in Procs, DischargeIntent(p)
    PROVE  IInv'
<1> PICK m \in MemType : mem[p] = m
  BY DEF IInv, TInv
<1>1. m.job.pc = "discharge" /\ m.job.pc \in Discharging
  BY DEF DischargeIntent, At, job, Discharging
<1>2. refusals' \in 0..MaxRefusals
  BY DEF DischargeIntent, IInv, TInv, StoresTyped
<1>3. CASE ~discharge_fence(job(p))
  <2>1. AfterRefusal(p)
    BY <1>3 DEF DischargeIntent
  <2> QED BY <1>1, <1>2, <2>1, StepAfterRefusal DEF DischargeIntent
<1>4. CASE discharge_fence(m.job)
  <2> DEFINE j == [m.job EXCEPT !.pc = "discharge_commit"]
             x == Intent(m.job.a, m.job.entry, "RELEASED")
             it == PendingOf(m.job.a)
  <2>1. Go(p, j) /\ ev' = [ev EXCEPT !.intents = ev.intents \cup {x}]
    BY <1>4 DEF DischargeIntent, job, Goto
  <2>2. /\ j \in JobType /\ j.pc = "discharge_commit" /\ j.a = m.job.a /\ j.entry = m.job.entry
        /\ j.op = m.job.op /\ j.at = m.job.at
    BY DEF MemType, JobType, Pc
  <2>6. /\ m.job.a \in attempts /\ m.job.a \in Attempt /\ FullFill(m.job.a)
        /\ m.job.op \in {"fill", "resume"} /\ m.poll # None /\ MemInv(m)
    BY <1>1, FillingIs DEF Filling, After
  <2>7. /\ m.job.entry # None /\ m.job.entry \in attempts /\ m.job.entry \in Attempt
        /\ ~Unbound(m.job.entry) /\ ~Unbound(m.job.a)
        /\ IsClose(m.job.a) /\ Anchor(m.job.entry, m.job.a)
        /\ \E r \in ev.pending : r.attempt = m.job.a
        /\ committed_command("release", m.job.a)
    BY <1>1, DischargeIs
  <2>8. /\ StoresTyped /\ UnboundInv /\ RowInv
    BY DEF IInv, TInv, StoreInv
  <2>3. EvKeeps /\ ev'.pending = ev.pending
    <3>1. x \in [attempt : Attempt, res : Attempt, dest : States]
      BY <2>6, <2>7 DEF Intent, States
    <3> HIDE DEF x
    <3>2. EvKeeps
      BY <2>1, <3>1, RowsWritten DEF DischargeIntent
    <3> QED BY <2>1, <2>8, <3>2 DEF StoresTyped, EvType
  <2> HIDE DEF j, x
  <2>4. PICK n \in MemType : /\ n.job = j /\ (n.poll # None <=> m.poll # None)
                             /\ PollInv(n)' /\ HeldInv(n)' /\ n.epoch \in 1..epoch'
                             /\ MemInv(n)' => IInv'
    BY <1>1, <1>2, <2>1, <2>2, <2>3, GoActs DEF DischargeIntent, Sending
  <2>5. /\ attempts' = attempts /\ tip' = tip
        /\ \A r : /\ (Unbound(r)' <=> Unbound(r)) /\ (IsClose(r)' <=> IsClose(r))
                 /\ (FullFill(r)' <=> FullFill(r))
        /\ \A r, e : Anchor(e, r)' <=> Anchor(e, r)
        /\ \A c, r : committed_command(c, r)' <=> committed_command(c, r)
    BY FactsSame DEF DischargeIntent
  <2>9. ASSUME NEW b \in attempts, Unbound(b) PROVE FALSE
    <3>1. it \in ev.pending /\ it.attempt = m.job.a /\ PendingRow(it)
      BY <2>7, PendingOfIs
    <3>2. /\ it.closeSeq \in RowsOf(m.job.a) /\ ~Unbound(it.entry)
      BY <3>1 DEF PendingRow
    <3>3. b # it.entry /\ b # it.attempt
      BY <2>7, <2>9, <3>1, <3>2
    <3>4. first_seq(b) <= it.closeSeq
      BY <1>4, <2>9, <3>3 DEF discharge_fence, scope_has_no_new_attempt
    <3>5. first_seq(b) = tip /\ log[tip].res = b
      BY <2>8, <2>9 DEF UnboundInv
    <3>6. it.closeSeq \in 1..tip /\ log[it.closeSeq].res = m.job.a
      BY <2>8, <3>2, AttemptsAre DEF RowsOf
    <3>7. it.closeSeq = tip
      BY <2>8, <3>4, <3>5, <3>6, AttemptsAre
    <3> QED BY <2>7, <2>9, <3>5, <3>6, <3>7
  <2>10. JobInv(n)'
    BY <2>2, <2>4, <2>5, <2>6, <2>7
    DEF JobInv, Sending, Unsent, Filling, After, Proving, Binding, Discharging
  <2>11. m.job.at \in Where /\ m.job.at.tip <= tip
    BY <1>1, <2>6 DEF MemInv, BindInv
  <2>12. CommitInv(n)'
    BY <2>2, <2>4 DEF CommitInv
  <2>13. BindInv(n)'
    BY <2>2, <2>3, <2>4, <2>5, <2>7, <2>9, <2>11 DEF BindInv, Proving, Binding, Discharging
  <2> QED BY <2>4, <2>10, <2>12, <2>13 DEF MemInv
<1> QED BY <1>3, <1>4 DEF job

\* The recovery of a committed close.
LEMMA StepResume ==
    ASSUME IInv, NEW p \in Procs, Resume(p)
    PROVE  IInv'
<1> PICK m \in MemType : mem[p] = m
  BY DEF IInv, TInv
<1> DEFINE a == Head(m.poll.todo).a
<1>1. /\ m.job.pc = "next" /\ m.poll # None /\ m.poll.todo # <<>>
      /\ Head(m.poll.todo) \in ItemType /\ ItemInv(Head(m.poll.todo))
      /\ Head(m.poll.todo).op = "resume"
  BY ItemIs DEF Resume
<1>2. /\ a \in Attempt /\ a \in attempts /\ committed_command("release", a) /\ IsClose(a)
      /\ \E it \in ev.pending : it.attempt = a
  BY <1>1 DEF ItemType, ItemInv
<1>3. StoresTyped /\ ReleasedInv /\ UnboundInv
  BY DEF IInv, TInv, StoreInv
<1> DEFINE it == PendingOf(a)
<1>4. it \in ev.pending /\ it.attempt = a /\ PendingRow(it)
  BY <1>2, PendingOfIs
<1>5. refusals' \in 0..MaxRefusals
  BY <1>3 DEF Resume, StoresTyped
<1>6. CASE Take(p, NextItem) /\ ev' = ev
  <2>1. EvKeeps
    BY <1>6, EvUnchanged
  <2> QED BY <1>1, <1>5, <1>6, <2>1, GoRests, RestingJobs DEF Resume
<1>7. CASE Take(p, NextItem) /\ ev' = [ev EXCEPT !.marks = Mark(a, "HELD")]
  <2>1. Mark(a, "HELD") \subseteq [attempt : Attempt, sig : Where \cup {None, "HELD"}]
    BY <1>2, <1>3, MarkIs
  <2> DEFINE X == Mark(a, "HELD")
  <2>2. X \subseteq [attempt : Attempt, sig : Where \cup {None, "HELD"}]
        /\ ev' = [ev EXCEPT !.marks = X]
    BY <1>7, <2>1
  <2> HIDE DEF X
  <2>3. EvKeeps
    BY <2>2, RowsWritten DEF Resume
  <2> QED BY <1>1, <1>5, <1>7, <2>3, GoRests, RestingJobs DEF Resume
<1>8. CASE /\ Take(p, [pc |-> "history", a |-> a, entry |-> it.entry, op |-> "resume",
                       at |-> None, sig |-> LogAt])
           /\ ev' = ev
  <2> PICK w \in Where : w = LogAt
    BY <1>3, LogAtIs
  <2>0. it.entry \in attempts /\ ~Unbound(it.entry) /\ Anchor(it.entry, a)
    BY <1>2, <1>4 DEF PendingRow
  <2>1. it.entry \in Attempt /\ it.entry # None
    BY <1>3, <2>0, AttemptsAre, PollIsSome
  <2> PICK e \in Attempt : e = it.entry
    BY <2>1
  <2> DEFINE j == [pc |-> "history", a |-> a, entry |-> e, op |-> "resume",
                   at |-> None, sig |-> w]
  <2>2. Take(p, j)
    BY <1>8
  <2>3. /\ j \in JobType /\ j.pc = "history" /\ j.a = a /\ j.entry = e /\ j.op = "resume"
    BY <1>2 DEF JobType, Pc, AttemptOrNone
  <2>4. EvKeeps
    BY <1>8, EvUnchanged
  <2> HIDE DEF j
  <2>5. PICK n \in MemType : /\ n.job = j /\ (n.poll # None <=> m.poll # None)
                             /\ PollInv(n)' /\ HeldInv(n)' /\ n.epoch \in 1..epoch'
                             /\ MemInv(n)' => IInv'
    BY <1>1, <1>5, <2>2, <2>3, <2>4, GoActs DEF Resume, Sending
  <2>6. /\ attempts' = attempts /\ ev' = ev
        /\ \A r : /\ (Unbound(r)' <=> Unbound(r)) /\ (IsClose(r)' <=> IsClose(r))
                 /\ (FullFill(r)' <=> FullFill(r))
        /\ \A r, d : Anchor(d, r)' <=> Anchor(d, r)
        /\ \A c, r : committed_command(c, r)' <=> committed_command(c, r)
    BY <1>8, FactsSame DEF Resume
  <2>7. FullFill(a) /\ ~Unbound(a)
    BY <1>2, <1>3 DEF ReleasedInv, UnboundInv
  <2> HIDE DEF a, it
  <2>8. JobInv(n)'
    BY <1>1, <1>2, <2>3, <2>5, <2>6, <2>7
    DEF JobInv, Sending, Unsent, Filling, After, Proving, Binding, Discharging
  <2>9. CommitInv(n)'
    BY <2>3, <2>5 DEF CommitInv
  <2>10. BindInv(n)'
    BY <1>2, <2>0, <2>1, <2>3, <2>5, <2>6, <2>7 DEF BindInv, Proving, Binding, Discharging
  <2> QED BY <2>5, <2>8, <2>9, <2>10 DEF MemInv
<1> QED BY <1>6, <1>7, <1>8 DEF Resume

-----------------------------------------------------------------------------
(* Plan, start and end of a process *)

\* f is the recursion of Plan up to N.
IsPlan(f, op, S, N) ==
    f = [n \in 0..N |-> IF n = 0 THEN <<>>
                        ELSE IF n \in S THEN Append(f[n - 1], [op |-> op, a |-> n])
                        ELSE f[n - 1]]

\* The recursion has a solution.
LEMMA PlanExists ==
    ASSUME NEW op, NEW S
    PROVE  \A n \in Nat : \E f : IsPlan(f, op, S, n)
<1> DEFINE Bad == {n \in Nat : ~ \E f : IsPlan(f, op, S, n)}
           Add(s, n) == IF n \in S THEN Append(s, [op |-> op, a |-> n]) ELSE s
<1>1. SUFFICES ASSUME Bad # {} PROVE FALSE
  OBVIOUS
<1>2. PICK n \in Bad : \A k \in Bad : n <= k
  <2>1. Bad \subseteq Nat
    OBVIOUS
  <2> HIDE DEF Bad
  <2> QED BY <1>1, <2>1, LeastNat
<1>3. n # 0
  <2> DEFINE f == [i \in 0..0 |-> <<>>]
  <2>1. IsPlan(f, op, S, 0)
    BY DEF IsPlan
  <2> HIDE DEF f
  <2> QED BY <2>1
<1>4. PICK f : IsPlan(f, op, S, n - 1)
  BY <1>2, <1>3
<1> DEFINE g == [i \in 0..n |-> IF i < n THEN f[i] ELSE Add(f[n - 1], n)]
<1> HIDE DEF Add
<1>5. ASSUME NEW i \in 0..n PROVE g[i] = IF i = 0 THEN <<>> ELSE Add(g[i - 1], i)
  <2>1. CASE i = n
    BY <2>1, <1>2, <1>3
  <2>2. CASE i # n
    <3>1. i \in 0..(n - 1) /\ g[i] = f[i]
      BY <2>2, <1>2
    <3>2. i # 0 => i - 1 \in 0..n /\ i - 1 < n /\ g[i - 1] = f[i - 1]
      BY <3>1, <1>2
    <3>3. f[i] = IF i = 0 THEN <<>> ELSE Add(f[i - 1], i)
      BY <3>1, <1>4 DEF IsPlan, Add
    <3> HIDE DEF g
    <3> QED BY <3>1, <3>2, <3>3
  <2> QED BY <2>1, <2>2
<1>6. g = [i \in 0..n |-> g[i]]
  OBVIOUS
<1> HIDE DEF g
<1>7. g = [i \in 0..n |-> IF i = 0 THEN <<>> ELSE Add(g[i - 1], i)]
  BY <1>5, <1>6
<1>8. IsPlan(g, op, S, n)
  BY <1>7 DEF IsPlan, Add
<1> QED BY <1>2, <1>8

\* A plan is about the attempts of the set it is made of.
LEMMA PlanIs ==
    ASSUME StoresTyped, NEW op, NEW S
    PROVE  Plan(op, S) \in Seq([op : {op}, a : S \cap attempts])
<1> DEFINE N == Len(orders)
           T == [op : {op}, a : S \cap attempts]
           f == CHOOSE f : f = [n \in 0..N |-> IF n = 0 THEN <<>>
                                ELSE IF n \in S THEN Append(f[n - 1], [op |-> op, a |-> n])
                                ELSE f[n - 1]]
<1>1. N \in Nat /\ attempts = 1..N
  BY AttemptsAre
<1>2. Plan(op, S) = f[N]
  BY DEF Plan
<1>3. \E g : g = [n \in 0..N |-> IF n = 0 THEN <<>>
                                ELSE IF n \in S THEN Append(g[n - 1], [op |-> op, a |-> n])
                                ELSE g[n - 1]]
  BY <1>1, PlanExists DEF IsPlan
<1>4. f = [n \in 0..N |-> IF n = 0 THEN <<>>
                         ELSE IF n \in S THEN Append(f[n - 1], [op |-> op, a |-> n])
                         ELSE f[n - 1]]
  BY <1>3
<1> HIDE DEF f
<1> DEFINE G == {i \in 0..N : f[i] \in Seq(T)}
<1>5. 0 \in G
  BY <1>1, <1>4
<1>6. ASSUME NEW i \in 0..N, i \in G, i < N PROVE i + 1 \in G
  <2>1. i + 1 \in 0..N /\ i + 1 # 0 /\ (i + 1) - 1 = i /\ f[i] \in Seq(T) /\ i + 1 \in attempts
    BY <1>1, <1>6
  <2>2. f[i + 1] = IF i + 1 \in S THEN Append(f[i], [op |-> op, a |-> i + 1]) ELSE f[i]
    BY <1>4, <2>1
  <2>3. i + 1 \in S => [op |-> op, a |-> i + 1] \in T
    BY <2>1
  <2> HIDE DEF T
  <2>4. f[i + 1] \in Seq(T)
    BY <2>1, <2>2, <2>3
  <2> QED BY <2>1, <2>4
<1> HIDE DEF G
<1>7. \A i \in 0..N : i \in G
  BY <1>1, <1>5, <1>6, SetInduction
<1>8. N \in G
  BY <1>1, <1>7
<1> QED BY <1>2, <1>8 DEF G

\* A poll plans what there is to do.
LEMMA StepPoll ==
    ASSUME IInv, NEW p \in Procs, Poll(p)
    PROVE  IInv'
<1> PICK m \in MemType : mem[p] = m
  BY DEF IInv, TInv
<1> DEFINE P1 == Plan("resume", pending_recovery_attempt_ids)
           P2 == Plan("reproject", {a \in attempts : reprojectable(a)})
           P3 == Plan("emit", {a \in attempts : tracked(a)})
           Good == {item \in ItemType : ItemInv(item)}
<1>1. m.job.pc = "idle" /\ m.poll = None
  BY DEF Poll, At, job
<1>2. StoresTyped /\ RowInv /\ mem \in [Procs -> MemType] /\ MemInv(m)
  BY DEF IInv, TInv, StoreInv, ProcInv
<1>3. attempts \subseteq Attempt
  BY <1>2, AttemptsAre
<1>4. ASSUME NEW a \in pending_recovery_attempt_ids, a \in attempts
      PROVE  /\ committed_command("release", a) /\ IsClose(a)
             /\ \E it \in ev.pending : it.attempt = a
  <2>1. PICK it \in ev.pending : it.attempt = a /\ valid_close_commit(it)
    BY <1>4 DEF pending_recovery_attempt_ids
  <2>2. PICK i \in DOMAIN log : log[i] = Transition(a, "RELEASED", "release", a)
    BY <2>1 DEF valid_close_commit
  <2>3. log[i].cmd = "release" /\ log[i].by = a /\ log[i].res = a /\ log[i].to = "RELEASED"
    BY <2>2 DEF Transition
  <2>4. <<"release", a>> \in Commands
    BY <2>3 DEF Commands
  <2>5. IsClose(a)
    BY <1>2, <2>3 DEF RowInv
  <2> QED BY <2>1, <2>4, <2>5 DEF committed_command
<1>5. P1 \in Seq(Good)
  <2>1. P1 \in Seq([op : {"resume"}, a : pending_recovery_attempt_ids \cap attempts])
    BY <1>2, PlanIs
  <2>2. [op : {"resume"}, a : pending_recovery_attempt_ids \cap attempts] \subseteq Good
    BY <1>3, <1>4 DEF ItemType, ItemInv
  <2> HIDE DEF Good, P1
  <2> QED BY <2>1, <2>2, SeqWider
<1>6. P2 \in Seq(Good)
  <2>1. P2 \in Seq([op : {"reproject"}, a : {a \in attempts : reprojectable(a)} \cap attempts])
    BY <1>2, PlanIs
  <2>2. [op : {"reproject"}, a : {a \in attempts : reprojectable(a)} \cap attempts] \subseteq Good
    BY <1>3 DEF ItemType, ItemInv
  <2> HIDE DEF Good, P2
  <2> QED BY <2>1, <2>2, SeqWider
<1>7. P3 \in Seq(Good)
  <2>1. P3 \in Seq([op : {"emit"}, a : {a \in attempts : tracked(a)} \cap attempts])
    BY <1>2, PlanIs
  <2>2. [op : {"emit"}, a : {a \in attempts : tracked(a)} \cap attempts] \subseteq Good
    BY <1>3 DEF ItemType, ItemInv
  <2> HIDE DEF Good, P3
  <2> QED BY <2>1, <2>2, SeqWider
<1> DEFINE todo == P1 \o P2 \o P3
<1>8. todo \in Seq(Good)
  <2> HIDE DEF Good, P1, P2, P3
  <2> QED BY <1>5, <1>6, <1>7
<1>9. PICK k : k = [todo |-> todo, snap |-> broker]
  OBVIOUS
<1>10. k.todo \in Seq(Good) /\ k.todo \in Seq(ItemType) /\ k.snap = broker
       /\ k \in [todo : Seq(ItemType), snap : Snapshot]
  <2>1. k.todo = todo /\ k.snap = broker
    BY <1>9
  <2>2. Good \subseteq ItemType
    OBVIOUS
  <2> HIDE DEF Good, todo
  <2>3. todo \in Seq(ItemType)
    BY <1>8, <2>2, SeqWider
  <2> QED BY <1>2, <1>8, <1>9, <2>1, <2>3 DEF StoresTyped
<1> DEFINE n == [m EXCEPT !.poll = k]
<1>11. mem' = [mem EXCEPT ![p] = n]
  BY <1>2, <1>9 DEF Poll
<1>12. n \in MemType /\ n.job = m.job /\ n.held = m.held /\ n.epoch = m.epoch /\ n.poll = k
  <2> HIDE DEF Good, todo
  <2> QED BY <1>10 DEF MemType, PollType
<1> HIDE DEF n, Good, todo
<1>13. EvKeeps /\ refusals' \in 0..MaxRefusals
  BY <1>2, EvUnchanged DEF Poll, StoresTyped
<1>14. MemInv(m)' /\ (MemInv(n)' => IInv')
  BY <1>1, <1>11, <1>12, <1>13, EvidenceActs DEF Poll, Sending
<1>15. PollInv(n)'
  <2>1. \A item : ItemInv(item)' <=> ItemInv(item)
    <3>1. attempts' = attempts /\ ev' = ev /\ (\A r : IsClose(r)' <=> IsClose(r))
          /\ \A c, r : committed_command(c, r)' <=> committed_command(c, r)
      BY FactsSame DEF Poll
    <3> QED BY <3>1 DEF ItemInv
  <2>2. ASSUME NEW i \in DOMAIN k.todo PROVE ItemInv(k.todo[i])'
    <3>1. k.todo[i] \in Good
      BY <1>10
    <3>2. ItemInv(k.todo[i])
      BY <3>1 DEF Good
    <3> QED BY <2>1, <3>2
  <2>3. \A a \in Attempt : k.snap[a].filled <= broker'[a].filled
    <3>1. broker' = broker
      BY DEF Poll
    <3>2. \A a \in Attempt : broker[a].filled \in Nat
      BY <1>2, BoundsAssumption DEF StoresTyped, Snapshot
    <3> QED BY <1>10, <3>1, <3>2
  <2> QED BY <1>12, <2>2, <2>3 DEF PollInv
<1>16. HeldInv(n)' /\ n.epoch \in 1..epoch'
  BY <1>1, <1>12, <1>14 DEF MemInv, HeldInv, JobInv
<1> QED BY <1>1, <1>12, <1>14, <1>15, <1>16, Rests

\* Steps 6 and 8 of a tick.
LEMMA StepVerifyLedger ==
    ASSUME IInv, NEW p \in Procs, VerifyLedger(p)
    PROVE  IInv'
<1> PICK m \in MemType : mem[p] = m
  BY DEF IInv, TInv
<1>1. m.job.pc = "idle" /\ m.held = None /\ m.epoch = epoch
  BY DEF VerifyLedger, At, job
<1>2. StoresTyped
  BY DEF IInv, TInv
<1> PICK w \in Where : w = LogAt /\ w.tip = tip
  BY <1>2, LogAtIs
<1>3. PICK effect \in {"OPEN", "CLOSE"}, qty \in 1..MaxQty :
          /\ verdict_for_scope(effect)
          /\ Go(p, [Idle EXCEPT !.pc = "commit", !.at = LogAt,
                                !.op = [effect |-> effect, qty |-> qty]])
  BY DEF VerifyLedger
<1> DEFINE o == [effect |-> effect, qty |-> qty]
           j == [Idle EXCEPT !.pc = "commit", !.at = w, !.op = o]
<1>4. o \in Order /\ o.effect = effect
  BY DEF Order
<1>5. Go(p, j)
  BY <1>3
<1> HIDE DEF o
<1>6. j \in JobType /\ j.pc = "commit" /\ j.at = w /\ j.op = o
  BY <1>4 DEF Idle, JobType, Pc, AttemptOrNone
<1> HIDE DEF j
<1>7. EvKeeps /\ refusals' \in 0..MaxRefusals
  BY <1>2, EvUnchanged DEF VerifyLedger, StoresTyped
<1>8. PICK n \in MemType : /\ n.job = j /\ Keeps(m, n)
                           /\ PollInv(n)' /\ HeldInv(n)' /\ n.epoch \in 1..epoch'
                           /\ MemInv(n)' => IInv'
  BY <1>1, <1>5, <1>6, <1>7, GoActs DEF VerifyLedger, Sending
<1>9. JobInv(n)' /\ BindInv(n)'
  BY <1>6, <1>8
  DEF JobInv, BindInv, Sending, Unsent, Filling, After, Proving, Binding, Discharging
<1>10. /\ outstanding_reservations' = outstanding_reservations /\ attempts' = attempts
       /\ tip' = tip /\ \A r : Consumed(r)' <=> Consumed(r)
  BY LogSame DEF VerifyLedger, Consumed
<1>11. effect = "OPEN" => outstanding_reservations = {}
  BY <1>3 DEF verdict_for_scope
<1>12. effect = "CLOSE" => \E e \in attempts : outstanding_reservations = {e} /\ Consumed(e)
  <2> SUFFICES ASSUME effect = "CLOSE"
               PROVE  \E e \in attempts : outstanding_reservations = {e} /\ Consumed(e)
    OBVIOUS
  <2>1. /\ Cardinality(outstanding_reservations) = 1
        /\ \A r \in outstanding_reservations : reservation_state(r) = "POSITION_CONSUMED"
    BY <1>3 DEF verdict_for_scope
  <2>2. PICK e \in outstanding_reservations : outstanding_reservations = {e}
    BY <1>2, <2>1, OutstandingFinite, OneOutstanding
  <2>3. e \in attempts /\ Consumed(e)
    BY <1>2, <2>1, OutstandingFinite DEF Consumed
  <2> QED BY <2>2, <2>3
<1>13. CommitInv(n)'
  <2>1. n.held = None /\ w.tip <= tip
    BY <1>1, <1>2, <1>8, AttemptsAre DEF Keeps
  <2> QED BY <1>4, <1>6, <1>8, <1>10, <1>11, <1>12, <2>1 DEF CommitInv
<1> QED BY <1>8, <1>9, <1>13 DEF MemInv

\* What the replay makes of the ledger.
LEMMA ReplayIs ==
    ASSUME IInv
    PROVE  /\ ReplayedLedger \in HeldType
           /\ ReplayedLedger # None => ReplayedLedger.attempt = Len(orders)
           /\ \A a \in attempts : Unbound(a) => ReplayedLedger # None /\ ReplayedLedger.attempt = a
<1> DEFINE n == Len(orders)
<1>1. StoresTyped /\ UnboundInv
  BY DEF IInv, TInv, StoreInv
<1>2. n \in Nat /\ attempts = 1..n /\ attempts \subseteq Attempt
  BY <1>1, AttemptsAre
<1>3. CASE n = 0 \/ n \in ev.projected \cup ev.discarded
  <2>1. ReplayedLedger = None
    BY <1>3 DEF ReplayedLedger
  <2>2. \A a \in attempts : ~Unbound(a)
    BY <1>1, <1>2, <1>3 DEF UnboundInv
  <2> QED BY <2>1, <2>2 DEF HeldType
<1>4. CASE ~(n = 0 \/ n \in ev.projected \cup ev.discarded)
  <2>1. ReplayedLedger = [attempt |-> n, sent |-> flow[n] # "halted"]
    BY <1>4 DEF ReplayedLedger
  <2>2. n \in Attempt
    BY <1>2, <1>4
  <2>3. ReplayedLedger \in HeldType /\ ReplayedLedger # None
    BY <2>1, <2>2, HeldIsSome
  <2> QED BY <1>1, <2>1, <2>3 DEF UnboundInv
<1> QED BY <1>3, <1>4

\* The start of a process.
LEMMA StepBoot ==
    ASSUME IInv, NEW p \in Procs, Boot(p)
    PROVE  IInv'
<1> PICK m \in MemType : mem[p] = m
  BY DEF IInv, TInv
<1>1. StoresTyped /\ StoreInv /\ mem \in [Procs -> MemType]
  BY DEF IInv, TInv
<1>2. epoch \in Nat /\ epoch + 1 \in Nat /\ epoch' = epoch + 1 /\ epoch <= epoch'
  BY <1>1, BoundsAssumption DEF Boot, StoresTyped
<1> PICK h \in HeldType : h = ReplayedLedger
  BY ReplayIs
<1> PICK e \in Nat : e = epoch + 1
  BY <1>2
<1> DEFINE j == [Idle EXCEPT !.pc = "turn"]
           n == [job |-> j, epoch |-> e, held |-> h, poll |-> None]
<1>3. j \in JobType /\ j.pc = "turn"
  BY DEF Idle, JobType, Pc, AttemptOrNone
<1>4. mem' = [mem EXCEPT ![p] = n]
  BY DEF Boot
<1> HIDE DEF j
<1>5. n \in MemType /\ n.job = j /\ n.held = h /\ n.epoch = e /\ n.poll = None
  BY <1>3 DEF MemType, PollType
<1> HIDE DEF n
<1>6. EvKeeps /\ StoresTyped'
  BY <1>1, BoundsAssumption, EvUnchanged DEF Boot, StoresTyped
<1>7. StoreInv' /\ Grows /\ \A k \in MemType : Spares(k)
  BY <1>1, <1>2, <1>6, EvidenceStep DEF Boot, EvKeeps
<1>8. PollInv(n)' /\ n.epoch \in 1..epoch'
  BY <1>2, <1>5 DEF PollInv
<1>9. HeldInv(n)'
  <2>1. attempts' = attempts /\ orders' = orders /\ \A r : Unbound(r)' <=> Unbound(r)
    BY FactsSame DEF Boot
  <2>2. /\ h # None => h.attempt = Len(orders)
        /\ \A a \in attempts : Unbound(a) => h # None /\ h.attempt = a
    BY ReplayIs
  <2> QED BY <1>5, <2>1, <2>2 DEF HeldInv
<1>10. MemInv(n)'
  BY <1>3, <1>5, <1>8, <1>9, Rests
<1>11. n.job.pc \notin Sending
  BY <1>3, <1>5 DEF Sending
<1> QED BY <1>2, <1>4, <1>5, <1>6, <1>7, <1>10, <1>11, Assemble

-----------------------------------------------------------------------------
(* Steps of an order at the broker *)

\* A step that changes what the broker, or the record of a flow, says of orders.
LEMMA OrderStep ==
    ASSUME StoresTyped, StoresTyped', StoreInv,
           UNCHANGED <<log, epoch, orders, receipts, ev>>, BrokerInv',
           \A a \in attempts : flow'[a] = flow[a] \/ flow[a] = "open",
           \A a \in Attempt : broker[a].filled <= broker'[a].filled
    PROVE  StoreInv' /\ Grows
<1> USE DEF StoreInv
<1>1. /\ attempts' = attempts /\ tip' = tip
      /\ outstanding_reservations' = outstanding_reservations
      /\ Commands' = Commands
      /\ \A r : /\ reservation_state(r)' = reservation_state(r)
               /\ RowsOf(r)' = RowsOf(r)
               /\ first_seq(r)' = first_seq(r)
  BY LogSame
<1>2. \A a : /\ (Unbound(a)' <=> Unbound(a)) /\ (Consumed(a)' <=> Consumed(a))
            /\ (Released(a)' <=> Released(a)) /\ (IsClose(a)' <=> IsClose(a))
            /\ (FullFill(a)' <=> FullFill(a)) /\ (Recorded(a)' <=> Recorded(a))
  BY <1>1 DEF Unbound, Consumed, Released, IsClose, FullFill, Recorded
<1>3. \A c, a : committed_command(c, a)' <=> committed_command(c, a)
  BY <1>1 DEF committed_command
<1>4. \A e, c : Anchor(e, c)' <=> Anchor(e, c)
  BY <1>1, <1>2 DEF Anchor
<1>5. \A it : valid_close_commit(it)' <=> valid_close_commit(it)
  BY DEF valid_close_commit
<1>6. RowInv'
  BY <1>1, <1>2 DEF RowInv
<1>7. UnboundInv'
  BY <1>1, <1>2, <1>3 DEF UnboundInv
<1>8. ConsumedInv'
  BY <1>1, <1>2, <1>3 DEF ConsumedInv
<1>9. ReleasedInv'
  BY <1>1, <1>2, <1>3, <1>4, <1>5 DEF ReleasedInv
<1>10. PendingInv'
  <2>1. \A it : PendingRow(it)' <=> PendingRow(it)
    BY <1>1, <1>2, <1>4 DEF PendingRow
  <2> QED BY <2>1 DEF PendingInv
<1>11. EvInv'
  BY <1>1, <1>2 DEF EvInv
<1>13. ScopeShape'
  BY <1>1 DEF ScopeShape
<1>14. tip <= tip /\ epoch <= epoch
  BY AttemptsAre, BoundsAssumption DEF StoresTyped
<1>15. Grows
  BY <1>1, <1>2, <1>3, <1>14 DEF Grows
<1> QED BY <1>6, <1>7, <1>8, <1>9, <1>10, <1>11, <1>13, <1>15

\* What is known of an order at the broker.
BrokerOf(a) ==
    /\ broker[a].filled <= orders[a].qty
    /\ broker[a].live => broker[a].filled < orders[a].qty
    /\ flow[a] = "halted" => broker[a] = NoOrder
    /\ Recorded(a) => flow[a] = "sent"
    /\ \A i \in DOMAIN receipts[a] : receipts[a][i].filled \in {None} \cup 0..orders[a].qty
    /\ FullFill(a) => /\ Last(receipts[a]).filled = orders[a].qty
                      /\ broker[a].filled = orders[a].qty

\* A step that changes one order keeps what is known of the others.
LEMMA OneOrder ==
    ASSUME StoresTyped, BrokerInv, NEW a \in attempts, NEW b, NEW f,
           UNCHANGED <<orders, receipts>>,
           broker' = [broker EXCEPT ![a] = b], flow' = [flow EXCEPT ![a] = f], BrokerOf(a)'
    PROVE  BrokerInv'
<1>1. /\ attempts' = attempts /\ attempts \subseteq Attempt /\ DOMAIN flow = attempts
      /\ \A c : (FullFill(c)' <=> FullFill(c)) /\ (Recorded(c)' <=> Recorded(c))
  BY AttemptsAre DEF attempts, FullFill, Recorded
<1>2. DOMAIN broker = Attempt
  BY DEF StoresTyped, Snapshot
<1>3. \A c : c # a /\ c \in Attempt => broker'[c] = broker[c]
  BY <1>2
<1>4. \A c \in attempts : c # a => flow'[c] = flow[c]
  BY <1>1
<1>5. ASSUME NEW c \in attempts PROVE BrokerOf(c)'
  <2>1. CASE c = a
    BY <2>1
  <2>2. CASE c # a
    <3>1. BrokerOf(c)
      BY DEF BrokerInv, BrokerOf
    <3> QED BY <1>1, <1>3, <1>4, <2>2, <3>1 DEF BrokerOf
  <2> QED BY <2>1, <2>2
<1>6. \A c \in Attempt : c \notin attempts => broker'[c] = NoOrder
  BY <1>1, <1>3 DEF BrokerInv
<1> QED BY <1>1, <1>5, <1>6 DEF BrokerInv, BrokerOf

\* A step of the broker leaves the processes alone.
LEMMA BrokerActs ==
    ASSUME IInv, UNCHANGED <<log, epoch, orders, flow, receipts, ev, mem, boots, refusals>>,
           NEW a \in attempts, broker[a].live, NEW b \in [seen : BOOLEAN, live : BOOLEAN, filled : 0..MaxQty],
           broker' = [broker EXCEPT ![a] = b],
           broker[a].filled <= b.filled, b.filled <= orders[a].qty,
           b.live => b.filled < orders[a].qty
    PROVE  IInv'
<1>1. /\ StoresTyped /\ StoreInv /\ BrokerInv /\ mem \in [Procs -> MemType] /\ PairInv
  BY DEF IInv, TInv, StoreInv
<1>2. /\ attempts \subseteq Attempt /\ attempts = DOMAIN flow /\ Attempt = DOMAIN broker
      /\ \A c \in Attempt : broker[c].filled \in Nat
      /\ orders[a].qty \in Nat
  BY <1>1, AttemptsAre, BoundsAssumption DEF StoresTyped, Snapshot, Order
<1>3. StoresTyped'
  BY <1>1, <1>2 DEF StoresTyped, Snapshot
<1>4. broker'[a] = b /\ \A c \in Attempt : c # a => broker'[c] = broker[c]
  BY <1>2
<1>5. ~FullFill(a) /\ flow[a] # "halted"
  <2>1. broker[a] # NoOrder
    BY DEF NoOrder
  <2> QED BY <1>1, <1>2, <2>1 DEF BrokerInv
<1>6. BrokerOf(a)'
  <2>1. /\ Recorded(a)' <=> Recorded(a)
        /\ FullFill(a)' <=> FullFill(a)
    BY DEF Recorded, FullFill
  <2> QED BY <1>1, <1>4, <1>5, <2>1 DEF BrokerOf, BrokerInv
<1>7. flow' = [flow EXCEPT ![a] = flow[a]]
  <2>1. flow \in Seq(FlowEnd \cup {"open"})
    BY <1>1 DEF StoresTyped
  <2>2. flow = [flow EXCEPT ![a] = flow[a]]
    BY <2>1
  <2> QED BY <2>2
<1>8. BrokerInv'
  BY <1>1, <1>6, <1>7, OneOrder
<1>9. StoreInv' /\ Grows
  <2>1. \A c \in Attempt : broker[c].filled <= broker'[c].filled
    BY <1>2, <1>4
  <2> QED BY <1>1, <1>3, <1>8, <2>1, OrderStep
<1>10. TInv' /\ PairInv'
  BY <1>1, <1>3 DEF TInv, PairInv, At, job
<1>11. ASSUME NEW q \in Procs PROVE ProcInv(q)'
  <2>1. ASSUME NEW k \in MemType, mem[q] = k PROVE Spares(k)
    <3>1. JobInv(k)
      BY <2>1 DEF IInv, ProcInv, MemInv
    <3>2. k.job.pc = "flow" => k.job.a \in attempts /\ broker[k.job.a] = NoOrder
      BY <3>1 DEF JobInv, Sending
    <3>3. k.job.pc = "flow" => k.job.a # a
      BY <3>2 DEF NoOrder
    <3> QED BY <1>2, <1>4, <3>2, <3>3 DEF Spares
  <2> QED BY <1>3, <1>9, <2>1, OthersKeep
<1> QED BY <1>9, <1>10, <1>11 DEF IInv

\* A fill.
LEMMA StepBrokerFills ==
    ASSUME IInv, NEW a \in attempts, BrokerFills(a)
    PROVE  IInv'
<1>1. /\ StoresTyped /\ BrokerInv
  BY DEF IInv, TInv, StoreInv
<1>2. a \in Attempt /\ orders[a].qty \in 1..MaxQty
  BY <1>1, AttemptsAre DEF Order
<1>3. broker[a] \in [seen : BOOLEAN, live : BOOLEAN, filled : 0..MaxQty] /\ DOMAIN broker = Attempt
  BY <1>1, <1>2 DEF StoresTyped, Snapshot
<1>4. broker[a].live /\ broker[a].filled < orders[a].qty
  BY <1>1 DEF BrokerFills, BrokerInv
<1> PICK v \in 0..MaxQty : v = broker[a].filled + 1
  BY <1>2, <1>3, <1>4, BoundsAssumption
<1> DEFINE more == broker[a].filled + 1 < orders[a].qty
<1>0. more \in BOOLEAN
  OBVIOUS
<1>9. more => v < orders[a].qty
  BY <1>2, <1>3
<1>10. broker[a].filled <= v /\ v <= orders[a].qty
  BY <1>2, <1>3, <1>4, BoundsAssumption
<1>11. broker' = [broker EXCEPT ![a].filled = v, ![a].live = more]
  BY DEF BrokerFills
<1> HIDE DEF more
<1> PICK l \in BOOLEAN : l = more
  BY <1>0
<1> DEFINE b == [broker[a] EXCEPT !.filled = v, !.live = l]
<1>5. broker' = [broker EXCEPT ![a] = b]
  BY <1>2, <1>3, <1>11
<1>6. /\ b \in [seen : BOOLEAN, live : BOOLEAN, filled : 0..MaxQty]
      /\ b.filled = v /\ b.live = l
  BY <1>3
<1>7. /\ broker[a].filled <= b.filled /\ b.filled <= orders[a].qty
      /\ b.live => b.filled < orders[a].qty
  BY <1>6, <1>9, <1>10
<1> HIDE DEF b
<1> QED BY <1>4, <1>5, <1>6, <1>7, BrokerActs DEF BrokerFills

\* A cancel.
LEMMA StepBrokerCancels ==
    ASSUME IInv, NEW a \in attempts, BrokerCancels(a)
    PROVE  IInv'
<1>1. /\ StoresTyped /\ BrokerInv
  BY DEF IInv, TInv, StoreInv
<1>2. a \in Attempt
  BY <1>1, AttemptsAre
<1>3. broker[a] \in [seen : BOOLEAN, live : BOOLEAN, filled : 0..MaxQty] /\ DOMAIN broker = Attempt
  BY <1>1, <1>2 DEF StoresTyped, Snapshot
<1> DEFINE b == [broker[a] EXCEPT !.live = FALSE]
<1>5. broker' = [broker EXCEPT ![a] = b]
  BY <1>2, <1>3 DEF BrokerCancels
<1>6. /\ b \in [seen : BOOLEAN, live : BOOLEAN, filled : 0..MaxQty]
      /\ b.filled = broker[a].filled /\ b.live = FALSE
  BY <1>3
<1>7. broker[a].filled <= b.filled /\ b.filled <= orders[a].qty
  BY <1>1, <1>3, <1>6, BoundsAssumption DEF BrokerInv
<1> HIDE DEF b
<1> QED BY <1>5, <1>6, <1>7, BrokerActs DEF BrokerCancels

-----------------------------------------------------------------------------
(* Steps 10 to 18 of a flow, and the end of a process *)

\* A step of a process that is sending the order m.job.a: b is what the broker
\* then knows of the order, f how the flow is recorded.
FlowStep(p, m, n, b, f) ==
    /\ mem[p] = m /\ m.job.pc = "flow" /\ mem' = [mem EXCEPT ![p] = n]
    /\ UNCHANGED <<log, epoch, orders, receipts, ev, boots, refusals>>
    /\ b \in [seen : BOOLEAN, live : BOOLEAN, filled : 0..MaxQty]
    /\ f \in FlowEnd \cup {"open"}
    /\ broker' = [broker EXCEPT ![m.job.a] = b] /\ flow' = [flow EXCEPT ![m.job.a] = f]
    /\ b.filled = 0 /\ (f = "halted" => b = NoOrder)
    /\ n.job.pc \in {"answer", "turn", "down"}
    /\ n.job.pc = "answer" => n.job.a = m.job.a
    /\ n.job.pc # "down" => n.epoch = m.epoch

\* What such a step leaves to show.
LEMMA FlowActs ==
    ASSUME IInv, NEW p \in Procs, NEW m \in MemType, NEW n \in MemType, NEW b, NEW f,
           FlowStep(p, m, n, b, f)
    PROVE  /\ attempts' = attempts /\ m.job.a \in attempts /\ flow'[m.job.a] = f
           /\ MemInv(m) /\ PollInv(m)'
           /\ \A r : Unbound(r)' <=> Unbound(r)
           /\ MemInv(n)' => IInv'
<1> USE DEF FlowStep
<1> DEFINE a == m.job.a
<1>1. /\ StoresTyped /\ StoreInv /\ BrokerInv /\ PairInv /\ MemInv(m)
  BY DEF IInv, TInv, StoreInv, ProcInv
<1>2. /\ a \in attempts /\ flow[a] = "open" /\ receipts[a] = <<>> /\ broker[a] = NoOrder
  BY <1>1 DEF MemInv, JobInv, Sending
<1>3. /\ attempts \subseteq Attempt /\ attempts = DOMAIN flow /\ Attempt = DOMAIN broker
      /\ \A c \in Attempt : broker[c].filled \in Nat
      /\ orders[a].qty \in 1..MaxQty /\ flow \in Seq(FlowEnd \cup {"open"})
      /\ attempts' = attempts
  <2>1. /\ attempts \subseteq Attempt /\ attempts = DOMAIN flow /\ orders[a] \in Order
    BY <1>1, <1>2, AttemptsAre
  <2>2. /\ Attempt = DOMAIN broker /\ \A c \in Attempt : broker[c].filled \in Nat
    BY <1>1, BoundsAssumption DEF StoresTyped, Snapshot
  <2>3. flow \in Seq(FlowEnd \cup {"open"}) /\ attempts' = attempts
    BY <1>1 DEF StoresTyped, attempts
  <2> QED BY <2>1, <2>2, <2>3 DEF Order
<1>4. broker' \in Snapshot /\ flow' \in Seq(FlowEnd \cup {"open"}) /\ Len(flow') = Len(flow)
  <2>1. broker' \in Snapshot
    BY <1>1 DEF StoresTyped, Snapshot
  <2>2. flow' \in Seq(FlowEnd \cup {"open"}) /\ Len(flow') = Len(flow)
    BY <1>2, <1>3, SeqUpdated
  <2> QED BY <2>1, <2>2
<1>5. StoresTyped'
  BY <1>1, <1>4 DEF StoresTyped
<1>6. /\ broker'[a] = b /\ flow'[a] = f
      /\ \A c \in Attempt : c # a => broker'[c] = broker[c]
      /\ \A c \in attempts : c # a => flow'[c] = flow[c]
  BY <1>2, <1>3
<1>7. BrokerOf(a)'
  <2>1. ~Recorded(a)' /\ ~FullFill(a)' /\ receipts'[a] = <<>>
    BY <1>2 DEF Recorded, FullFill
  <2>2. \A i \in DOMAIN receipts'[a] : receipts'[a][i].filled \in {None} \cup 0..orders'[a].qty
    BY <2>1
  <2>3. b.filled <= orders[a].qty /\ b.filled < orders[a].qty
    BY <1>3
  <2> QED BY <1>6, <2>1, <2>2, <2>3 DEF BrokerOf
<1> HIDE DEF a
<1>8. BrokerInv'
  BY <1>1, <1>2, <1>7, OneOrder DEF a
<1>9. StoreInv' /\ Grows
  <2>1. \A c \in Attempt : broker[c].filled <= broker'[c].filled
    BY <1>2, <1>3, <1>6 DEF NoOrder
  <2>2. \A c \in attempts : flow'[c] = flow[c] \/ flow[c] = "open"
    BY <1>2, <1>6
  <2> QED BY <1>1, <1>5, <1>8, <2>1, <2>2, OrderStep
<1>10. \A q \in Procs \ {p} : \A k \in MemType : mem[q] = k => Spares(k)
  <2> SUFFICES ASSUME NEW q \in Procs, q # p, NEW k \in MemType, mem[q] = k PROVE Spares(k)
    OBVIOUS
  <2>1. k.job.pc \in Sending => k.job.a # a
    BY <1>1 DEF PairInv, job, Sending, a
  <2>2. JobInv(k)
    BY DEF IInv, ProcInv, MemInv
  <2>3. k.job.pc \in Sending => k.job.a \in attempts
    BY <2>2 DEF JobInv
  <2> QED BY <1>3, <1>6, <2>1, <2>3 DEF Spares, Sending
<1>11. n.job.pc \in Sending => m.job.pc \in Sending /\ n.job.a = m.job.a
  BY DEF Sending
<1>12. MemInv(n)' => IInv'
  BY <1>5, <1>9, <1>10, <1>11, Assemble
<1>13. PollInv(m)'
  BY <1>1, <1>5, <1>9, PollStays DEF MemInv
<1>14. \A r : Unbound(r)' <=> Unbound(r)
  BY LogSame DEF Unbound
<1> QED BY <1>1, <1>2, <1>3, <1>6, <1>12, <1>13, <1>14 DEF a

\* The record of an unchanged flow.
LEMMA FlowSame ==
    ASSUME IInv, NEW a \in attempts
    PROVE  flow = [flow EXCEPT ![a] = flow[a]] /\ flow[a] \in FlowEnd \cup {"open"}
<1>1. StoresTyped
  BY DEF IInv, TInv
<1>2. flow \in Seq(FlowEnd \cup {"open"}) /\ a \in DOMAIN flow
  BY <1>1, AttemptsAre DEF StoresTyped
<1> QED BY <1>2

\* A flow halts before the send.
LEMMA StepFlowHalts ==
    ASSUME IInv, NEW p \in Procs, FlowHalts(p)
    PROVE  IInv'
<1> PICK m \in MemType : mem[p] = m
  BY DEF IInv, TInv
<1> DEFINE j == [m.job EXCEPT !.pc = "turn"]
<1>1. m.job.pc = "flow" /\ Go(p, j)
  BY DEF FlowHalts, At, Goto, job
<1>2. j \in JobType /\ j.pc = "turn"
  BY DEF MemType, JobType, Pc
<1> HIDE DEF j
<1>3. PICK n \in MemType : /\ mem' = [mem EXCEPT ![p] = n] /\ n.job = j
                           /\ n.epoch = m.epoch /\ n.held = m.held /\ n.poll = m.poll
  BY <1>1, <1>2, GoIs DEF IInv, TInv
<1>4. /\ MemInv(m) /\ StoresTyped
  BY DEF IInv, TInv, ProcInv
<1>5. broker[m.job.a] = NoOrder /\ m.job.a \in attempts /\ m.job.a \in Attempt
  BY <1>1, <1>4, AttemptsAre DEF MemInv, JobInv, Sending
<1>6. broker' = [broker EXCEPT ![m.job.a] = NoOrder]
  BY <1>4, <1>5 DEF FlowHalts, StoresTyped, Snapshot
<1>7. NoOrder \in [seen : BOOLEAN, live : BOOLEAN, filled : 0..MaxQty] /\ NoOrder.filled = 0
  BY BoundsAssumption DEF NoOrder
<1>8. flow' = [flow EXCEPT ![m.job.a] = "halted"] /\ "halted" \in FlowEnd \cup {"open"}
  BY DEF FlowHalts, job, FlowEnd
<1>9. /\ attempts' = attempts /\ PollInv(m)'
      /\ \A r : Unbound(r)' <=> Unbound(r)
      /\ MemInv(n)' => IInv'
  <2>1. FlowStep(p, m, n, NoOrder, "halted")
    BY <1>1, <1>2, <1>3, <1>6, <1>7, <1>8 DEF FlowHalts, FlowStep
  <2> QED BY <2>1, FlowActs
<1>10. PollInv(n)' /\ HeldInv(n)' /\ n.epoch \in 1..epoch'
  BY <1>1, <1>2, <1>3, <1>4, <1>9 DEF MemInv, PollInv, HeldInv, JobInv, FlowHalts
<1> QED BY <1>2, <1>3, <1>9, <1>10, Rests

\* The order is sent.
LEMMA StepFlowSends ==
    ASSUME IInv, NEW p \in Procs, FlowSends(p)
    PROVE  IInv'
<1> PICK m \in MemType : mem[p] = m
  BY DEF IInv, TInv
<1> DEFINE a == m.job.a
           j == [m.job EXCEPT !.pc = "answer"]
           h == [m.held EXCEPT !.sent = TRUE]
           n == [m EXCEPT !.job = j, !.held = h]
<1>1. m.job.pc = "flow"
  BY DEF FlowSends, At, job
<1>2. /\ MemInv(m) /\ StoresTyped /\ mem \in [Procs -> MemType]
  BY DEF IInv, TInv, ProcInv
<1>3. /\ broker[a] = NoOrder /\ a \in attempts /\ a \in Attempt /\ receipts[a] = <<>>
      /\ m.held = [attempt |-> a, sent |-> FALSE]
  BY <1>1, <1>2, AttemptsAre DEF MemInv, JobInv, Sending
<1>4. j \in JobType /\ j.pc = "answer" /\ j.a = a
  BY DEF MemType, JobType, Pc
<1>5. h \in HeldType /\ h # None /\ h.attempt = a /\ m.held # None /\ m.held.attempt = a
  <2>1. m.held \in [attempt : Attempt, sent : BOOLEAN] /\ m.held.attempt = a
    BY <1>3
  <2>2. h \in [attempt : Attempt, sent : BOOLEAN] /\ h.attempt = a
    BY <2>1
  <2> QED BY <2>1, <2>2, PollIsSome DEF HeldType
<1>6. mem' = [mem EXCEPT ![p] = n]
  <2> DEFINE k == [mem EXCEPT ![p].job.pc = "answer"]
  <2>1. mem' = [k EXCEPT ![p].held.sent = TRUE]
    BY DEF FlowSends
  <2>2. k = [mem EXCEPT ![p] = [m EXCEPT !.job = j]]
    BY <1>2
  <2>3. k[p] = [m EXCEPT !.job = j] /\ k[p].held = m.held /\ DOMAIN k = Procs
    BY <1>2, <2>2 DEF MemType
  <2> HIDE DEF k, j
  <2>4. mem' = [k EXCEPT ![p] = [k[p] EXCEPT !.held = h]]
    BY <2>1, <2>3
  <2> HIDE DEF h
  <2>5. [k[p] EXCEPT !.held = h] = n
    BY <2>3
  <2> HIDE DEF n
  <2>6. [k EXCEPT ![p] = n] = [mem EXCEPT ![p] = n]
    BY <1>2, <2>2
  <2> QED BY <2>4, <2>5, <2>6
<1> HIDE DEF j, h
<1>7. n \in MemType /\ n.job = j /\ n.held = h /\ n.epoch = m.epoch /\ n.poll = m.poll
  BY <1>4, <1>5 DEF MemType
<1> HIDE DEF n
<1>8. PICK b \in [seen : BOOLEAN, live : BOOLEAN, filled : 0..MaxQty] :
          b.filled = 0 /\ broker' = [broker EXCEPT ![a] = b]
  <2>1. PICK accepted \in BOOLEAN :
            broker' = [broker EXCEPT ![a].seen = accepted, ![a].live = accepted]
    BY DEF FlowSends, job
  <2> DEFINE b == [broker[a] EXCEPT !.seen = accepted, !.live = accepted]
  <2>2. broker' = [broker EXCEPT ![a] = b]
    BY <1>2, <1>3, <2>1 DEF StoresTyped, Snapshot
  <2>3. b \in [seen : BOOLEAN, live : BOOLEAN, filled : 0..MaxQty] /\ b.filled = 0
    <3>1. broker[a] \in [seen : BOOLEAN, live : BOOLEAN, filled : 0..MaxQty]
      BY <1>2, <1>3 DEF StoresTyped, Snapshot
    <3>2. broker[a].filled = 0
      BY <1>3 DEF NoOrder
    <3> QED BY <3>1, <3>2
  <2> QED BY <2>2, <2>3
<1>9. flow' = [flow EXCEPT ![a] = "sent"] /\ "sent" \in FlowEnd \cup {"open"}
  BY DEF FlowSends, job, FlowEnd
<1>10. /\ attempts' = attempts /\ flow'[a] = "sent" /\ PollInv(m)'
       /\ \A r : Unbound(r)' <=> Unbound(r)
       /\ MemInv(n)' => IInv'
  <2>1. FlowStep(p, m, n, b, "sent")
    BY <1>1, <1>4, <1>6, <1>7, <1>8, <1>9 DEF FlowSends, FlowStep
  <2> QED BY <1>7, <2>1, FlowActs
<1>11. PollInv(n)'
  BY <1>7, <1>10 DEF PollInv
<1>12. HeldInv(n)'
  BY <1>1, <1>2, <1>4, <1>5, <1>7, <1>10 DEF MemInv, HeldInv, FlowSends
<1>13. JobInv(n)'
  <2>1. n.epoch \in 1..epoch'
    BY <1>1, <1>2, <1>7 DEF MemInv, JobInv, FlowSends
  <2>2. receipts'[a] = <<>> /\ a \in attempts'
    BY <1>3, <1>10 DEF FlowSends
  <2> QED BY <1>4, <1>7, <1>10, <2>1, <2>2
          DEF JobInv, Sending, Unsent, Filling, After, Proving, Binding, Discharging
<1>14. CommitInv(n)' /\ BindInv(n)'
  BY <1>4, <1>7 DEF CommitInv, BindInv, Proving, Binding, Discharging
<1> QED BY <1>10, <1>11, <1>12, <1>13, <1>14 DEF MemInv

\* The send raises.
LEMMA StepFlowRaises ==
    ASSUME IInv, NEW p \in Procs, FlowRaises(p)
    PROVE  IInv'
<1> PICK m \in MemType : mem[p] = m
  BY DEF IInv, TInv
<1> DEFINE a == m.job.a
           j == [m.job EXCEPT !.pc = "turn"]
           h == [m.held EXCEPT !.sent = TRUE]
           n == [m EXCEPT !.job = j, !.held = h]
<1>1. m.job.pc = "flow"
  BY DEF FlowRaises, At, job
<1>2. /\ MemInv(m) /\ StoresTyped /\ mem \in [Procs -> MemType]
  BY DEF IInv, TInv, ProcInv
<1>3. /\ broker[a] = NoOrder /\ a \in attempts /\ a \in Attempt
      /\ m.held = [attempt |-> a, sent |-> FALSE]
  BY <1>1, <1>2, AttemptsAre DEF MemInv, JobInv, Sending
<1>4. j \in JobType /\ j.pc = "turn"
  BY DEF MemType, JobType, Pc
<1>5. h \in HeldType /\ h # None /\ h.attempt = a /\ m.held # None /\ m.held.attempt = a
  <2>1. m.held \in [attempt : Attempt, sent : BOOLEAN] /\ m.held.attempt = a
    BY <1>3
  <2>2. h \in [attempt : Attempt, sent : BOOLEAN] /\ h.attempt = a
    BY <2>1
  <2> QED BY <2>1, <2>2, PollIsSome DEF HeldType
<1>6. mem' = [mem EXCEPT ![p] = n]
  <2> DEFINE k == [mem EXCEPT ![p].job.pc = "turn"]
  <2>1. mem' = [k EXCEPT ![p].held.sent = TRUE]
    BY DEF FlowRaises
  <2>2. k = [mem EXCEPT ![p] = [m EXCEPT !.job = j]]
    BY <1>2
  <2>3. k[p] = [m EXCEPT !.job = j] /\ k[p].held = m.held /\ DOMAIN k = Procs
    BY <1>2, <2>2 DEF MemType
  <2> HIDE DEF k, j
  <2>4. mem' = [k EXCEPT ![p] = [k[p] EXCEPT !.held = h]]
    BY <2>1, <2>3
  <2> HIDE DEF h
  <2>5. [k[p] EXCEPT !.held = h] = n
    BY <2>3
  <2> HIDE DEF n
  <2>6. [k EXCEPT ![p] = n] = [mem EXCEPT ![p] = n]
    BY <1>2, <2>2
  <2> QED BY <2>4, <2>5, <2>6
<1> HIDE DEF j, h
<1>7. n \in MemType /\ n.job = j /\ n.held = h /\ n.epoch = m.epoch /\ n.poll = m.poll
  BY <1>4, <1>5 DEF MemType
<1> HIDE DEF n
<1>8. PICK b \in [seen : BOOLEAN, live : BOOLEAN, filled : 0..MaxQty] :
          b.filled = 0 /\ broker' = [broker EXCEPT ![a] = b]
  <2>1. PICK accepted \in BOOLEAN :
            broker' = [broker EXCEPT ![a].seen = accepted, ![a].live = accepted]
    BY DEF FlowRaises, job
  <2> DEFINE b == [broker[a] EXCEPT !.seen = accepted, !.live = accepted]
  <2>2. broker' = [broker EXCEPT ![a] = b]
    BY <1>2, <1>3, <2>1 DEF StoresTyped, Snapshot
  <2>3. b \in [seen : BOOLEAN, live : BOOLEAN, filled : 0..MaxQty] /\ b.filled = 0
    <3>1. broker[a] \in [seen : BOOLEAN, live : BOOLEAN, filled : 0..MaxQty]
      BY <1>2, <1>3 DEF StoresTyped, Snapshot
    <3>2. broker[a].filled = 0
      BY <1>3 DEF NoOrder
    <3> QED BY <3>1, <3>2
  <2> QED BY <2>2, <2>3
<1>9. flow' = [flow EXCEPT ![a] = "raised"] /\ "raised" \in FlowEnd \cup {"open"}
  BY DEF FlowRaises, job, FlowEnd
<1>10. /\ attempts' = attempts /\ PollInv(m)'
       /\ \A r : Unbound(r)' <=> Unbound(r)
       /\ MemInv(n)' => IInv'
  <2>1. FlowStep(p, m, n, b, "raised")
    BY <1>1, <1>4, <1>6, <1>7, <1>8, <1>9 DEF FlowRaises, FlowStep
  <2> QED BY <1>7, <2>1, FlowActs
<1>11. PollInv(n)' /\ n.epoch \in 1..epoch'
  BY <1>1, <1>2, <1>7, <1>10 DEF PollInv, MemInv, JobInv, FlowRaises
<1>12. HeldInv(n)'
  BY <1>1, <1>2, <1>4, <1>5, <1>7, <1>10 DEF MemInv, HeldInv, FlowRaises
<1> QED BY <1>4, <1>7, <1>10, <1>11, <1>12, Rests

\* A process that is down.
LEMMA DownIs ==
    Down \in MemType /\ Down.job.pc = "down" /\ MemInv(Down)'
<1>1. Down \in MemType /\ Down.job.pc = "down" /\ Down.poll = None
  <2>1. [Idle EXCEPT !.pc = "down"] \in JobType /\ [Idle EXCEPT !.pc = "down"].pc = "down"
    BY DEF Idle, JobType, Pc, AttemptOrNone
  <2> QED BY <2>1 DEF Down, MemType, HeldType, PollType
<1>2. JobInv(Down)'
  BY <1>1 DEF JobInv, Sending, Unsent, Filling, After, Proving, Binding, Discharging
<1>3. PollInv(Down)' /\ CommitInv(Down)' /\ BindInv(Down)' /\ HeldInv(Down)'
  BY <1>1 DEF PollInv, CommitInv, BindInv, HeldInv, Proving, Binding, Discharging
<1> QED BY <1>1, <1>2, <1>3 DEF MemInv

\* A crash; one in the middle of a send may have sent.
LEMMA StepCrash ==
    ASSUME IInv, NEW p \in Procs, Crash(p)
    PROVE  IInv'
<1> PICK m \in MemType : mem[p] = m
  BY DEF IInv, TInv
<1>1. mem' = [mem EXCEPT ![p] = Down] /\ m.job.pc # "down"
  BY DEF Crash, At, job
<1>2. Down \in MemType /\ Down.job.pc = "down" /\ MemInv(Down)'
  BY DownIs
<1> HIDE DEF Down
<1>3. StoresTyped /\ StoreInv
  BY DEF IInv, TInv
<1>4. CASE broker' = broker
  <2>1. EvKeeps /\ StoresTyped'
    BY <1>3, <1>4, EvUnchanged DEF Crash, StoresTyped
  <2>2. epoch <= epoch'
    BY <1>3, BoundsAssumption DEF Crash, StoresTyped
  <2>3. StoreInv' /\ Grows /\ \A k \in MemType : Spares(k)
    BY <1>3, <1>4, <2>1, <2>2, EvidenceStep DEF Crash, EvKeeps
  <2>4. Down.job.pc \notin Sending
    BY <1>2 DEF Sending
  <2> QED BY <1>1, <1>2, <2>1, <2>3, <2>4, Assemble DEF Crash
<1>5. CASE /\ m.job.pc = "flow"
           /\ broker' = [broker EXCEPT ![m.job.a] = [seen |-> TRUE, live |-> TRUE, filled |-> 0]]
  <2>1. m.job.a \in attempts /\ flow[m.job.a] = "open"
    <3>1. JobInv(m)
      BY DEF IInv, ProcInv, MemInv
    <3> QED BY <1>5, <3>1 DEF JobInv, Sending
  <2>2. flow' = [flow EXCEPT ![m.job.a] = "open"]
    BY <2>1, FlowSame DEF Crash
  <2> DEFINE b == [seen |-> TRUE, live |-> TRUE, filled |-> 0]
  <2>3. b \in [seen : BOOLEAN, live : BOOLEAN, filled : 0..MaxQty] /\ b.filled = 0
    BY BoundsAssumption
  <2>4. broker' = [broker EXCEPT ![m.job.a] = b]
    BY <1>5
  <2> HIDE DEF b
  <2>5. FlowStep(p, m, Down, b, "open")
    BY <1>1, <1>2, <1>5, <2>2, <2>3, <2>4 DEF Crash, FlowStep
  <2> QED BY <1>2, <2>5, FlowActs
<1> QED BY <1>4, <1>5 DEF Crash, At, job

-----------------------------------------------------------------------------
(* Results recorded by the engine *)

\* The process p with memory m records the result r of attempt a and goes on
\* with memory n.
ReceiptStep(p, m, n, a, r) ==
    /\ mem[p] = m /\ m.job.pc # "down" /\ mem' = [mem EXCEPT ![p] = n]
    /\ UNCHANGED <<log, epoch, orders, flow, ev, broker, boots, refusals>>
    /\ a \in attempts /\ r \in Receipt
    /\ receipts' = [receipts EXCEPT ![a] = Append(receipts[a], r)]
    /\ flow[a] = "sent" /\ ~FullFill(a)
    /\ r.filled \in {None} \cup 0..orders[a].qty
    /\ r.kind = "FULL_FILL" => r.filled = orders[a].qty /\ broker[a].filled = orders[a].qty
    /\ n.epoch = m.epoch /\ n.job.pc \notin Sending \cup {"down"}
    /\ Recorded(a) \/ (m.job.pc = "answer" /\ m.job.a = a)

\* A sequence with one more element.
LEMMA AppendIs ==
    ASSUME NEW S, NEW s \in Seq(S), NEW e \in S
    PROVE  /\ Append(s, e) \in Seq(S) /\ Append(s, e) # <<>> /\ Last(Append(s, e)) = e
           /\ \A i \in DOMAIN Append(s, e) :
                 Append(s, e)[i] = e \/ (i \in DOMAIN s /\ Append(s, e)[i] = s[i])
<1>1. /\ Append(s, e) \in Seq(S) /\ Len(Append(s, e)) = Len(s) + 1 /\ Len(s) \in Nat
      /\ Append(s, e)[Len(s) + 1] = e /\ DOMAIN s = 1..Len(s)
      /\ DOMAIN Append(s, e) = 1..(Len(s) + 1)
      /\ \A i \in 1..Len(s) : Append(s, e)[i] = s[i]
  OBVIOUS
<1>2. Append(s, e) # <<>>
  BY AppendProperties
<1>3. Last(Append(s, e)) = e
  BY <1>1 DEF Last
<1>4. \A i \in 1..(Len(s) + 1) : i = Len(s) + 1 \/ i \in 1..Len(s)
  BY <1>1
<1> QED BY <1>1, <1>2, <1>3, <1>4

\* What the results say after such a step.
LEMMA ReceiptsAre ==
    ASSUME StoresTyped, NEW a \in attempts, NEW r \in Receipt,
           receipts' = [receipts EXCEPT ![a] = Append(receipts[a], r)]
    PROVE  /\ receipts' \in Seq(Seq(Receipt)) /\ Len(receipts') = Len(receipts)
           /\ \A c \in attempts : c # a => receipts'[c] = receipts[c]
           /\ receipts'[a] # <<>> /\ Last(receipts'[a]) = r
           /\ \A i \in DOMAIN receipts'[a] :
                 receipts'[a][i] = r \/ (i \in DOMAIN receipts[a] /\ receipts'[a][i] = receipts[a][i])
<1>1. /\ receipts \in Seq(Seq(Receipt)) /\ DOMAIN receipts = attempts /\ receipts[a] \in Seq(Receipt)
  BY AttemptsAre DEF StoresTyped
<1> DEFINE s == Append(receipts[a], r)
<1>2. /\ s \in Seq(Receipt) /\ s # <<>> /\ Last(s) = r
      /\ \A i \in DOMAIN s : s[i] = r \/ (i \in DOMAIN receipts[a] /\ s[i] = receipts[a][i])
  BY <1>1, AppendIs
<1>3. receipts' = [receipts EXCEPT ![a] = s]
  OBVIOUS
<1> HIDE DEF s
<1>4. receipts' \in Seq(Seq(Receipt)) /\ Len(receipts') = Len(receipts)
  BY <1>1, <1>2, <1>3, SeqUpdated
<1>5. receipts'[a] = s /\ \A c \in attempts : c # a => receipts'[c] = receipts[c]
  BY <1>1, <1>3
<1> QED BY <1>2, <1>4, <1>5

\* Such a step keeps the stores' invariant.
LEMMA ReceiptStores ==
    ASSUME StoresTyped, StoreInv, NEW p, NEW m, NEW n, NEW a, NEW r, ReceiptStep(p, m, n, a, r)
    PROVE  /\ StoresTyped' /\ StoreInv' /\ Grows
           /\ r.kind = "FULL_FILL" => FullFill(a)'
           /\ \A c \in attempts : c # a => receipts'[c] = receipts[c]
<1> USE DEF StoreInv
<1>0. /\ a \in attempts /\ r \in Receipt /\ flow[a] = "sent" /\ ~FullFill(a)
      /\ receipts' = [receipts EXCEPT ![a] = Append(receipts[a], r)]
      /\ UNCHANGED <<log, epoch, orders, flow, ev, broker, boots, refusals>>
      /\ r.filled \in {None} \cup 0..orders[a].qty
      /\ r.kind = "FULL_FILL" => r.filled = orders[a].qty /\ broker[a].filled = orders[a].qty
  BY DEF ReceiptStep
<1>1. /\ attempts' = attempts /\ tip' = tip
      /\ outstanding_reservations' = outstanding_reservations
      /\ Commands' = Commands
      /\ \A c : /\ reservation_state(c)' = reservation_state(c)
               /\ RowsOf(c)' = RowsOf(c)
               /\ first_seq(c)' = first_seq(c)
  BY <1>0, LogSame
<1>2. /\ receipts' \in Seq(Seq(Receipt)) /\ Len(receipts') = Len(receipts)
      /\ \A c \in attempts : c # a => receipts'[c] = receipts[c]
      /\ receipts'[a] # <<>> /\ Last(receipts'[a]) = r
      /\ \A i \in DOMAIN receipts'[a] :
            receipts'[a][i] = r \/ (i \in DOMAIN receipts[a] /\ receipts'[a][i] = receipts[a][i])
  BY <1>0, ReceiptsAre
<1>3. \A c : /\ (Unbound(c)' <=> Unbound(c)) /\ (Consumed(c)' <=> Consumed(c))
            /\ (Released(c)' <=> Released(c)) /\ (IsClose(c)' <=> IsClose(c))
  BY <1>0, <1>1 DEF Unbound, Consumed, Released, IsClose
<1>4. /\ \A c \in attempts : FullFill(c) => FullFill(c)'
      /\ FullFill(a)' <=> r.kind = "FULL_FILL"
      /\ \A c \in attempts : c # a => /\ (FullFill(c)' <=> FullFill(c))
                                      /\ (Recorded(c)' <=> Recorded(c))
  BY <1>0, <1>2 DEF FullFill, Recorded
<1>5. \A k, c : committed_command(k, c)' <=> committed_command(k, c)
  BY <1>1 DEF committed_command
<1>6. \A e, c : Anchor(e, c)' <=> Anchor(e, c)
  BY <1>1, <1>3 DEF Anchor
<1>7. \A it : valid_close_commit(it)' <=> valid_close_commit(it)
  BY <1>0 DEF valid_close_commit
<1>8. RowInv' /\ UnboundInv' /\ ConsumedInv'
  <2>1. RowInv'
    BY <1>0, <1>1, <1>3 DEF RowInv
  <2>2. UnboundInv'
    BY <1>0, <1>1, <1>3, <1>5 DEF UnboundInv
  <2>3. ConsumedInv'
    BY <1>1, <1>3, <1>5 DEF ConsumedInv
  <2> QED BY <2>1, <2>2, <2>3
<1>9. ReleasedInv'
  BY <1>0, <1>1, <1>3, <1>4, <1>5, <1>6, <1>7 DEF ReleasedInv
<1>10. PendingInv'
  <2>1. \A it : PendingRow(it)' <=> PendingRow(it)
    BY <1>1, <1>3, <1>6 DEF PendingRow
  <2> QED BY <1>0, <2>1 DEF PendingInv
<1>11. EvInv'
  BY <1>0, <1>1, <1>4 DEF EvInv
<1>12. BrokerInv'
  <2>1. ASSUME NEW c \in attempts PROVE BrokerOf(c)'
    <3>1. BrokerOf(c)
      BY DEF BrokerInv, BrokerOf
    <3>2. CASE c # a
      BY <1>0, <1>2, <1>4, <3>1, <3>2 DEF BrokerOf
    <3>3. CASE c = a
      <4>1. \A i \in DOMAIN receipts'[a] : receipts'[a][i].filled \in {None} \cup 0..orders[a].qty
        BY <1>0, <1>2, <3>1, <3>3 DEF BrokerOf
      <4> QED BY <1>0, <1>2, <1>4, <3>1, <3>3, <4>1 DEF BrokerOf
    <3> QED BY <3>2, <3>3
  <2>2. \A c \in Attempt : c \notin attempts => broker'[c] = NoOrder
    BY <1>0 DEF BrokerInv
  <2> QED BY <1>1, <2>1, <2>2 DEF BrokerInv, BrokerOf
<1>13. ScopeShape'
  BY <1>0, <1>1 DEF ScopeShape
<1>14. tip <= tip /\ epoch <= epoch /\ \A c \in Attempt : broker[c].filled <= broker[c].filled
  BY AttemptsAre, BoundsAssumption DEF StoresTyped, Snapshot
<1>15. Grows
  BY <1>0, <1>1, <1>3, <1>4, <1>5, <1>14 DEF Grows
<1>16. StoresTyped'
  BY <1>0, <1>2 DEF StoresTyped
<1> QED BY <1>2, <1>4, <1>8, <1>9, <1>10, <1>11, <1>12, <1>13, <1>15, <1>16

\* What such a step leaves to show.
LEMMA ReceiptActs ==
    ASSUME IInv, NEW p \in Procs, NEW m \in MemType, NEW n \in MemType, NEW a, NEW r,
           ReceiptStep(p, m, n, a, r)
    PROVE  /\ MemInv(m) /\ PollInv(m)' /\ HeldInv(m)'
           /\ m.job.pc \notin Sending => MemInv(m)'
           /\ a \in attempts' /\ (r.kind = "FULL_FILL" => FullFill(a)')
           /\ MemInv(n)' => IInv'
<1>1. StoresTyped /\ StoreInv /\ PairInv /\ MemInv(m) /\ mem[p] = m
  BY DEF IInv, TInv, ProcInv, ReceiptStep
<1>2. /\ StoresTyped' /\ StoreInv' /\ Grows
      /\ r.kind = "FULL_FILL" => FullFill(a)'
      /\ \A c \in attempts : c # a => receipts'[c] = receipts[c]
  BY <1>1, ReceiptStores
<1>3. \A q \in Procs \ {p} : \A k \in MemType : mem[q] = k => Spares(k)
  <2> SUFFICES ASSUME NEW q \in Procs, q # p, NEW k \in MemType, mem[q] = k PROVE Spares(k)
    OBVIOUS
  <2>1. JobInv(k)
    BY DEF IInv, ProcInv, MemInv
  <2>2. k.job.pc \in Sending => k.job.a \in attempts /\ receipts[k.job.a] = <<>>
    BY <2>1 DEF JobInv, Sending
  <2>3. m.job.pc = "answer" /\ k.job.pc \in Sending => k.job.a # m.job.a
    BY <1>1 DEF PairInv, job, Sending
  <2>4. k.job.pc \in Sending => k.job.a # a
    BY <2>2, <2>3 DEF ReceiptStep, Recorded
  <2> QED BY <1>2, <2>2, <2>4 DEF Spares, ReceiptStep
<1>4. MemInv(n)' => IInv'
  BY <1>1, <1>2, <1>3, Assemble DEF ReceiptStep
<1>5. PollInv(m)'
  BY <1>1, <1>2, PollStays DEF MemInv
<1>6. m.job.pc \notin Sending => MemInv(m)'
  <2>1. m.job.pc \notin Sending => Spares(m)
    BY DEF Spares, Sending
  <2> QED BY <1>1, <1>2, <2>1, Bystander DEF ReceiptStep
<1>7. HeldInv(m)'
  <2>1. attempts' = attempts /\ orders' = orders /\ \A c : Unbound(c)' <=> Unbound(c)
    BY LogSame DEF ReceiptStep, Unbound
  <2> QED BY <1>1, <2>1 DEF MemInv, HeldInv, ReceiptStep
<1>8. a \in attempts'
  BY DEF ReceiptStep, attempts
<1> QED BY <1>1, <1>2, <1>4, <1>5, <1>6, <1>7, <1>8

\* The answer of the gateway.
LEMMA StepRecordAnswer ==
    ASSUME IInv, NEW p \in Procs, RecordAnswer(p)
    PROVE  IInv'
<1> PICK m \in MemType : mem[p] = m
  BY DEF IInv, TInv
<1> DEFINE j == [m.job EXCEPT !.pc = "turn"]
<1>1. m.job.pc = "answer" /\ Go(p, j)
  BY DEF RecordAnswer, At, Goto, job
<1>2. j \in JobType /\ j.pc = "turn"
  BY DEF MemType, JobType, Pc
<1> HIDE DEF j
<1>3. PICK n \in MemType : /\ mem' = [mem EXCEPT ![p] = n] /\ n.job = j
                           /\ n.epoch = m.epoch /\ n.held = m.held /\ n.poll = m.poll
  BY <1>1, <1>2, GoIs DEF IInv, TInv
<1>4. MemInv(m) /\ StoresTyped
  BY DEF IInv, TInv, ProcInv
<1>5. m.job.a \in attempts /\ flow[m.job.a] = "sent" /\ receipts[m.job.a] = <<>>
  BY <1>1, <1>4 DEF MemInv, JobInv, Sending
<1>6. PICK kind \in {"ACK", "REJECT"} :
         receipts' = [receipts EXCEPT ![m.job.a] =
                        Append(receipts[m.job.a], [kind |-> kind, filled |-> None])]
  BY <1>4, <1>5, AttemptsAre DEF RecordAnswer, job
<1> DEFINE r == [kind |-> kind, filled |-> None]
<1>7. r \in Receipt /\ r.kind # "FULL_FILL" /\ r.filled = None
  BY <1>6 DEF Receipt
<1>8. receipts' = [receipts EXCEPT ![m.job.a] = Append(receipts[m.job.a], r)]
  BY <1>6
<1> HIDE DEF r
<1>9. ReceiptStep(p, m, n, m.job.a, r)
  BY <1>1, <1>2, <1>3, <1>5, <1>7, <1>8 DEF RecordAnswer, ReceiptStep, FullFill, Recorded, Sending
<1>10. PollInv(m)' /\ HeldInv(m)' /\ (MemInv(n)' => IInv')
  BY <1>9, ReceiptActs
<1>11. PollInv(n)' /\ HeldInv(n)' /\ n.epoch \in 1..epoch'
  BY <1>1, <1>2, <1>3, <1>4, <1>10 DEF MemInv, PollInv, HeldInv, JobInv, RecordAnswer
<1> QED BY <1>2, <1>3, <1>10, <1>11, Rests

\* What the snapshot of a poll says of a tracked order, if it is news.
LEMMA ClassifyIs ==
    ASSUME NEW a, NEW s, classify(a, s) # None
    PROVE  \E kind \in {"FULL_FILL", "PARTIAL_FILL"} :
              /\ classify(a, s) = [kind |-> kind, filled |-> s.filled]
              /\ kind = "FULL_FILL" => s.filled = orders[a].qty
BY DEF classify

\* A fill that the snapshot shows is recorded.
LEMMA StepEmit ==
    ASSUME IInv, NEW p \in Procs, Emit(p)
    PROVE  IInv'
<1> PICK m \in MemType : mem[p] = m
  BY DEF IInv, TInv
<1>1. /\ m.job.pc = "next" /\ m.poll # None /\ m.poll.todo # <<>>
      /\ Head(m.poll.todo) \in ItemType /\ ItemInv(Head(m.poll.todo)) /\ m.poll.snap \in Snapshot
  BY ItemIs DEF Emit
<1>2. PICK a : a = Head(m.poll.todo).a
  OBVIOUS
<1>3. a \in Attempt /\ a \in attempts
  BY <1>1, <1>2 DEF ItemType, ItemInv
<1>4. MemInv(m) /\ StoresTyped /\ BrokerInv /\ mem \in [Procs -> MemType]
  BY DEF IInv, TInv, ProcInv, StoreInv
<1>5. PICK s \in [seen : BOOLEAN, live : BOOLEAN, filled : 0..MaxQty] : s = m.poll.snap[a]
  BY <1>1, <1>3 DEF Snapshot
<1>6. PICK r : r = classify(a, s)
  OBVIOUS
<1>7. CASE ~(tracked(a) /\ r # None /\ Holds(p, a))
  <2>1. Take(p, NextItem) /\ receipts' = receipts
    BY <1>2, <1>5, <1>6, <1>7 DEF Emit, snapshot
  <2>2. EvKeeps /\ refusals' \in 0..MaxRefusals
    BY EvUnchanged DEF Emit, IInv, TInv, StoresTyped
  <2> QED BY <1>1, <2>1, <2>2, GoRests, RestingJobs DEF Emit
<1>8. CASE tracked(a) /\ r # None /\ Holds(p, a)
  <2>1. /\ receipts' = [receipts EXCEPT ![a] = Append(receipts[a], r)]
        /\ Take(p, IF r.kind = "FULL_FILL"
                     THEN [Idle EXCEPT !.pc = "obligation", !.a = a, !.op = "fill"] ELSE NextItem)
    BY <1>2, <1>3, <1>4, <1>5, <1>6, <1>8, AttemptsAre DEF Emit, snapshot
  <2>2. PICK kind \in {"FULL_FILL", "PARTIAL_FILL"} :
            /\ r = [kind |-> kind, filled |-> s.filled]
            /\ kind = "FULL_FILL" => s.filled = orders[a].qty
    BY <1>6, <1>8, ClassifyIs
  <2>3. /\ Recorded(a) /\ ~FullFill(a)
    BY <1>8 DEF tracked, Terminal, FullFill
  <2>4. flow[a] = "sent" /\ broker[a].filled <= orders[a].qty /\ s.filled <= broker[a].filled
    BY <1>1, <1>3, <1>4, <1>5, <2>3 DEF BrokerInv, MemInv, PollInv
  <2>5. broker[a].filled \in Nat /\ orders[a].qty \in Nat /\ s.filled \in Nat
    BY <1>3, <1>4, AttemptsAre, BoundsAssumption DEF StoresTyped, Snapshot, Order
  <2>6. /\ r \in Receipt /\ r.filled \in {None} \cup 0..orders[a].qty
        /\ r.kind = "FULL_FILL" => r.filled = orders[a].qty /\ broker[a].filled = orders[a].qty
    <3>1. r.filled = s.filled /\ r.kind = kind
      BY <2>2
    <3>2. r.filled \in 0..orders[a].qty
      BY <2>4, <2>5, <3>1
    <3>3. r.kind = "FULL_FILL" => r.filled = orders[a].qty /\ broker[a].filled = orders[a].qty
      BY <2>2, <2>4, <2>5, <3>1
    <3> QED BY <2>2, <3>2, <3>3 DEF Receipt
  <2> PICK full \in BOOLEAN : full <=> r.kind = "FULL_FILL"
    OBVIOUS
  <2> DEFINE j == IF full THEN [Idle EXCEPT !.pc = "obligation", !.a = a, !.op = "fill"]
                  ELSE NextItem
  <2>7. /\ full => j \in JobType /\ j.pc = "obligation" /\ j.a = a /\ j.op = "fill" /\ j.entry = None
        /\ ~full => j \in JobType /\ j.pc = "next"
    BY <1>3, RestingJobs DEF Idle, JobType, Pc, AttemptOrNone
  <2>8. Take(p, j)
    BY <2>1
  <2> HIDE DEF j
  <2>9. PICK n \in MemType : /\ mem' = [mem EXCEPT ![p] = n] /\ n.job = j
                             /\ n.epoch = m.epoch /\ n.held = m.held /\ Taken(m, n)
    BY <1>1, <1>4, <2>7, <2>8, TakeIs
  <2>10. ReceiptStep(p, m, n, a, r)
    BY <1>1, <1>3, <2>1, <2>3, <2>4, <2>6, <2>7, <2>9 DEF Emit, ReceiptStep, Sending
  <2>11. /\ MemInv(m)' /\ a \in attempts' /\ (full => FullFill(a)') /\ (MemInv(n)' => IInv')
    BY <1>1, <2>10, ReceiptActs DEF Sending
  <2>12. PollInv(n)' /\ HeldInv(n)' /\ n.epoch \in 1..epoch' /\ n.poll # None
    BY <1>1, <2>7, <2>9, <2>11, Carries DEF Keeps, Taken
  <2>13. CASE full
    BY <2>7, <2>9, <2>11, <2>12, <2>13, Proves DEF Proving
  <2>14. CASE ~full
    BY <2>7, <2>9, <2>11, <2>12, <2>14, Rests
  <2> QED BY <2>13, <2>14
<1> QED BY <1>7, <1>8

-----------------------------------------------------------------------------
(* Steps that append a release to the log *)

\* The row x moves the reservation x.res on; no other reservation is unbound.
LogStep(x) ==
    /\ x \in Row /\ log' = Append(log, x)
    /\ UNCHANGED <<epoch, orders, flow, receipts, ev, broker, boots, refusals>>
    /\ x.res \in attempts /\ x.by \in attempts /\ ~Released(x.res)
    /\ x.to # "COMMITTED_UNBOUND"
    /\ \A b \in attempts : Unbound(b) => b = x.res
    /\ x.to = "POSITION_CONSUMED" => /\ x.cmd = "release" /\ ~IsClose(x.res)
                                     /\ x.res = Len(orders)
    /\ x.to = "RELEASED" => /\ flow[x.res] = "halted" \/ FullFill(x.res)
                            /\ IsClose(x.res) /\ flow[x.res] # "halted" => x.cmd = "release"
    /\ x.cmd = "release" => /\ x.by = x.res /\ FullFill(x.res)
                            /\ x.to = "RELEASED" <=> IsClose(x.res)
                            /\ IsClose(x.res) => \E it \in ev.pending : it.attempt = x.res
    /\ x.cmd = "release-entry" =>
          x.to = "RELEASED" /\ \A e \in attempts : Anchor(e, x.by) => e = x.res

\* A finite set without two different elements.
LEMMA AtMostOne ==
    ASSUME NEW S, IsFiniteSet(S), \A a, b \in S : a = b
    PROVE  Cardinality(S) <= 1
<1>1. CASE S = {}
  <2>1. Cardinality(S) = 0
    BY <1>1, FS_EmptySet
  <2> QED BY <2>1
<1>2. CASE S # {}
  <2>1. PICK e \in S : TRUE
    BY <1>2
  <2>2. S = {e}
    BY <2>1
  <2>3. Cardinality(S) = 1
    BY <2>2, FS_Singleton
  <2> QED BY <2>3
<1> QED BY <1>1, <1>2

\* The projection after such a step.
LEMMA LogMoves ==
    ASSUME StoresTyped, StoreInv, NEW x, LogStep(x)
    PROVE  /\ attempts' = attempts /\ tip' = tip + 1
           /\ \A a \in attempts : /\ ~Unbound(a)'
                                  /\ Released(a) => Released(a)'
                                  /\ Released(a)' => Released(a) \/ (a = x.res /\ x.to = "RELEASED")
                                  /\ Consumed(a)' => Consumed(a) \/ a = x.res
                                  /\ Consumed(a)' /\ a = x.res => x.to = "POSITION_CONSUMED"
           /\ Released(x.res)' <=> x.to = "RELEASED"
           /\ \A c, a : committed_command(c, a)' <=>
                           committed_command(c, a) \/ (c = x.cmd /\ a = x.by)
           /\ \A i \in DOMAIN log : log'[i] = log[i]
           /\ DOMAIN log' = DOMAIN log \cup {tip + 1} /\ log'[tip + 1] = x
           /\ \A a : RowsOf(a) \subseteq RowsOf(a)'
<1>0. /\ x \in Row /\ log' = Append(log, x) /\ orders' = orders
      /\ x.res \in attempts /\ ~Released(x.res) /\ x.to # "COMMITTED_UNBOUND"
      /\ \A b \in attempts : Unbound(b) => b = x.res
  BY DEF LogStep
<1>1. /\ tip' = tip + 1 /\ DOMAIN log' = 1..(tip + 1)
      /\ \A i \in DOMAIN log : log'[i] = log[i]
      /\ log'[tip + 1] = x
      /\ reservation_state(x.res)' = x.to
      /\ \A r : r # x.res /\ RowsOf(r) # {} => reservation_state(r)' = reservation_state(r)
      /\ \A r : RowsOf(r) \subseteq RowsOf(r)'
      /\ Commands' = Commands \cup {<<x.cmd, x.by>>}
  BY <1>0, LogAppends
<1>2. attempts' = attempts
  BY <1>0 DEF attempts
<1>3. \A a \in attempts : RowsOf(a) # {}
  BY DEF StoreInv, RowInv
<1>4. ASSUME NEW a \in attempts
      PROVE  /\ ~Unbound(a)'
             /\ Released(a) => Released(a)'
             /\ Released(a)' => Released(a) \/ (a = x.res /\ x.to = "RELEASED")
             /\ Consumed(a)' => Consumed(a) \/ a = x.res
             /\ Consumed(a)' /\ a = x.res => x.to = "POSITION_CONSUMED"
  <2>1. CASE a = x.res
    BY <1>0, <1>1, <2>1 DEF Unbound, Released, Consumed
  <2>2. CASE a # x.res
    BY <1>0, <1>1, <1>3, <2>2 DEF Unbound, Released, Consumed
  <2> QED BY <2>1, <2>2
<1>5. Released(x.res)' <=> x.to = "RELEASED"
  BY <1>1 DEF Released
<1>6. \A c, a : committed_command(c, a)' <=>
                   committed_command(c, a) \/ (c = x.cmd /\ a = x.by)
  BY <1>1 DEF committed_command
<1>7. DOMAIN log' = DOMAIN log \cup {tip + 1}
  BY <1>1, AttemptsAre
<1> QED BY <1>1, <1>2, <1>4, <1>5, <1>6, <1>7

\* Such a step keeps the stores' invariant.
LEMMA LogStores ==
    ASSUME StoresTyped, StoreInv, NEW x, LogStep(x)
    PROVE  StoresTyped' /\ StoreInv' /\ Grows /\ \A k \in MemType : Spares(k)
<1> USE DEF StoreInv
<1>1. /\ attempts' = attempts /\ tip' = tip + 1
      /\ \A a \in attempts : /\ ~Unbound(a)'
                             /\ Released(a) => Released(a)'
                             /\ Released(a)' => Released(a) \/ (a = x.res /\ x.to = "RELEASED")
                             /\ Consumed(a)' => Consumed(a) \/ a = x.res
                             /\ Consumed(a)' /\ a = x.res => x.to = "POSITION_CONSUMED"
      /\ Released(x.res)' <=> x.to = "RELEASED"
      /\ \A c, a : committed_command(c, a)' <=>
                      committed_command(c, a) \/ (c = x.cmd /\ a = x.by)
      /\ \A i \in DOMAIN log : log'[i] = log[i]
      /\ DOMAIN log' = DOMAIN log \cup {tip + 1} /\ log'[tip + 1] = x
      /\ \A a : RowsOf(a) \subseteq RowsOf(a)'
  BY LogMoves
<1>2. /\ UNCHANGED <<epoch, orders, flow, receipts, ev, broker, boots, refusals>>
      /\ x \in Row /\ log' = Append(log, x) /\ x.res \in attempts /\ x.by \in attempts
  BY DEF LogStep
<1>3. \A a : /\ (IsClose(a)' <=> IsClose(a)) /\ (FullFill(a)' <=> FullFill(a))
            /\ (Recorded(a)' <=> Recorded(a))
  BY <1>2 DEF IsClose, FullFill, Recorded
<1>4. \A e, c : Anchor(e, c)' <=> Anchor(e, c)
  BY <1>1, <1>3 DEF Anchor
<1>5. StoresTyped'
  BY <1>2 DEF StoresTyped
<1>6. RowInv'
  <2>1. ASSUME NEW i \in DOMAIN log'
        PROVE  /\ log'[i].res \in attempts /\ log'[i].by \in attempts
               /\ log'[i].cmd = "release" /\ log'[i].to = "RELEASED" => IsClose(log'[i].res)
    <3>1. CASE i \in DOMAIN log
      BY <1>1, <3>1 DEF RowInv
    <3>2. CASE i = tip + 1
      BY <1>1, <1>2, <3>2 DEF LogStep
    <3> QED BY <1>1, <2>1, <3>1, <3>2
  <2>2. \A a \in attempts : RowsOf(a)' # {}
    BY <1>1 DEF RowInv
  <2>4. ASSUME NEW i \in DOMAIN log', log'[i].cmd = "release", log'[i].to = "RELEASED"
        PROVE  IsClose(log[i].res)'
    <3>1. PICK r : r = log'[i].res
      OBVIOUS
    <3>2. IsClose(r)'
      BY <1>3, <2>1, <2>4, <3>1
    <3> QED BY <3>1, <3>2 DEF IsClose
  <2> QED BY <1>1, <2>1, <2>2, <2>4 DEF RowInv
<1>7. UnboundInv'
  BY <1>1 DEF UnboundInv
<1>8. ConsumedInv'
  <2> SUFFICES ASSUME NEW a \in attempts, Consumed(a)'
               PROVE  /\ committed_command("release", a)' /\ ~IsClose(a)
                      /\ \A c \in attempts : a < c => IsClose(c)
    BY <1>1, <1>3 DEF ConsumedInv
  <2>1. CASE a # x.res
    BY <1>1, <2>1 DEF ConsumedInv
  <2>2. CASE a = x.res
    <3>1. x.to = "POSITION_CONSUMED"
      BY <1>1, <2>2
    <3>2. /\ x.cmd = "release" /\ ~IsClose(a) /\ a = Len(orders) /\ x.by = a
      BY <2>2, <3>1 DEF LogStep
    <3>3. \A c \in attempts : ~(a < c)
      BY <3>2, AttemptsAre
    <3> QED BY <1>1, <3>2, <3>3
  <2> QED BY <2>1, <2>2
<1>9. ReleasedInv'
  <2> SUFFICES ASSUME NEW a \in attempts
               PROVE  /\ committed_command("release", a)' => FullFill(a)
                      /\ Released(a)' /\ flow[a] # "halted" => FullFill(a)
                      /\ Released(a)' /\ IsClose(a) /\ flow[a] # "halted"
                            => committed_command("release", a)'
                      /\ committed_command("release-entry", a)' =>
                            \A e \in attempts : Anchor(e, a) => Released(e)'
                      /\ committed_command("release", a)' /\ IsClose(a) =>
                            \E it \in ev.pending : it.attempt = a /\ valid_close_commit(it)'
    BY <1>1, <1>2, <1>3, <1>4 DEF ReleasedInv
  <2>1. committed_command("release", a)' => FullFill(a)
    BY <1>1 DEF ReleasedInv, LogStep
  <2>2. Released(a)' /\ flow[a] # "halted" => FullFill(a)
    BY <1>1 DEF ReleasedInv, LogStep
  <2>3. Released(a)' /\ IsClose(a) /\ flow[a] # "halted" => committed_command("release", a)'
    BY <1>1 DEF ReleasedInv, LogStep
  <2>4. committed_command("release-entry", a)' =>
            \A e \in attempts : Anchor(e, a) => Released(e)'
    BY <1>1 DEF ReleasedInv, LogStep
  <2>5. ASSUME committed_command("release", a)', IsClose(a)
        PROVE  \E it \in ev.pending : it.attempt = a /\ valid_close_commit(it)'
    <3>1. CASE committed_command("release", a)
      <4>1. PICK it \in ev.pending : it.attempt = a /\ valid_close_commit(it)
        BY <2>5, <3>1 DEF ReleasedInv
      <4>2. PICK i \in DOMAIN log : /\ log[i] = Transition(it.attempt, "RELEASED", "release", it.attempt)
                                    /\ i > it.closeSeq
        BY <4>1 DEF valid_close_commit
      <4>3. valid_close_commit(it)'
        BY <1>1, <4>2 DEF valid_close_commit
      <4> QED BY <4>1, <4>3
    <3>2. CASE ~committed_command("release", a)
      <4>1. x.cmd = "release" /\ x.by = a /\ x.res = a /\ x.to = "RELEASED"
        BY <1>1, <2>5, <3>2 DEF LogStep
      <4>2. PICK it \in ev.pending : it.attempt = a
        BY <2>5, <4>1 DEF LogStep
      <4>3. it.closeSeq \in RowsOf(a)
        BY <4>2 DEF PendingInv, PendingRow
      <4>4. tip + 1 > it.closeSeq
        BY <4>3, AttemptsAre DEF RowsOf
      <4>5. x = Transition(a, "RELEASED", "release", a)
        BY <1>2, <4>1 DEF Transition, Row
      <4>6. valid_close_commit(it)'
        BY <1>1, <4>2, <4>4, <4>5 DEF valid_close_commit, Transition
      <4> QED BY <4>2, <4>6
    <3> QED BY <3>1, <3>2
  <2> QED BY <2>1, <2>2, <2>3, <2>4, <2>5
<1>10. PendingInv'
  <2>1. \A it : PendingRow(it) => PendingRow(it)'
    BY <1>1, <1>3, <1>4 DEF PendingRow
  <2> QED BY <1>2, <2>1 DEF PendingInv
<1>11. EvInv'
  BY <1>1, <1>2, <1>3 DEF EvInv
<1>12. BrokerInv'
  BY <1>1, <1>2, <1>3 DEF BrokerInv
<1>13. ScopeShape'
  <2>1. ASSUME NEW a \in outstanding_reservations', NEW b \in outstanding_reservations' PROVE a = b
    <3> SUFFICES ASSUME a # b PROVE FALSE
      OBVIOUS
    <3>1. /\ a \in attempts /\ b \in attempts /\ ~Released(a)' /\ ~Released(b)'
      BY <1>1 DEF outstanding_reservations, Released
    <3>2. a \in outstanding_reservations /\ b \in outstanding_reservations
      BY <1>1, <3>1 DEF outstanding_reservations, Released
    <3>3. PICK e, c \in outstanding_reservations :
              /\ outstanding_reservations = {e, c}
              /\ Unbound(c) /\ IsClose(c)
      BY <3>2, TwoOutstanding
    <3>4. c = x.res /\ (c = a \/ c = b)
      BY <3>2, <3>3, OutstandingFinite DEF LogStep
    <3>5. x.to # "RELEASED"
      BY <1>1, <3>1, <3>4
    <3>6. x.to = "POSITION_CONSUMED"
      BY <1>2, <3>5 DEF LogStep, Row, States
    <3> QED BY <3>3, <3>4, <3>6 DEF LogStep
  <2>2. IsFiniteSet(outstanding_reservations')
    <3>1. Len(orders) \in Nat /\ attempts = 1..Len(orders)
      BY AttemptsAre
    <3>2. IsFiniteSet(attempts)
      BY <3>1, FS_Interval
    <3>3. outstanding_reservations' \subseteq attempts
      BY <1>1 DEF outstanding_reservations
    <3> QED BY <3>2, <3>3, FS_Subset
  <2>3. Cardinality(outstanding_reservations') <= 1
    BY <2>1, <2>2, AtMostOne
  <2> QED BY <2>3 DEF ScopeShape
<1>14. tip \in Nat /\ epoch <= epoch /\ \A a \in Attempt : broker[a].filled <= broker[a].filled
  BY AttemptsAre, BoundsAssumption DEF StoresTyped, Snapshot
<1>15. Grows
  BY <1>1, <1>2, <1>3, <1>14 DEF Grows
<1>16. \A k \in MemType : Spares(k)
  BY <1>2 DEF Spares
<1> QED BY <1>5, <1>6, <1>7, <1>8, <1>9, <1>10, <1>11, <1>12, <1>13, <1>15, <1>16

\* What such a step of process p leaves to show.
LEMMA LogActs ==
    ASSUME IInv, NEW x, LogStep(x),
           NEW p \in Procs, NEW m \in MemType, mem[p] = m, m.job.pc # "down",
           NEW j \in JobType, j.pc \notin Sending \cup {"down"}, Go(p, j)
    PROVE  \E n \in MemType :
              /\ n.job = j /\ n.held = m.held /\ n.poll = m.poll
              /\ MemInv(m) /\ MemInv(m)'
              /\ PollInv(n)' /\ HeldInv(n)' /\ n.epoch \in 1..epoch'
              /\ MemInv(n)' => IInv'
<1>1. StoresTyped /\ StoreInv /\ MemInv(m) /\ mem \in [Procs -> MemType]
  BY DEF IInv, TInv, ProcInv
<1>2. StoresTyped' /\ StoreInv' /\ Grows /\ \A k \in MemType : Spares(k)
  BY <1>1, LogStores
<1>3. PICK n \in MemType : /\ mem' = [mem EXCEPT ![p] = n] /\ n.job = j
                           /\ n.epoch = m.epoch /\ n.held = m.held /\ n.poll = m.poll
  BY <1>1, GoIs
<1>4. epoch' = epoch /\ orders' = orders
  BY DEF LogStep
<1>5. MemInv(m)'
  BY <1>1, <1>2, <1>4, Bystander
<1>6. MemInv(n)' => IInv'
  BY <1>2, <1>3, <1>4, Assemble
<1>7. PollInv(n)' /\ HeldInv(n)' /\ n.epoch \in 1..epoch'
  BY <1>3, <1>5, Carries DEF Keeps
<1> QED BY <1>1, <1>3, <1>5, <1>6, <1>7

\* An attempt that is not released and whose release has not committed is the
\* one unbound attempt.
LEMMA UnboundIs ==
    ASSUME IInv, NEW a \in attempts, ~Released(a), ~committed_command("release", a)
    PROVE  Unbound(a) /\ a = Len(orders) /\ \A b \in attempts : Unbound(b) => b = a
<1>1. StoresTyped /\ RowInv /\ UnboundInv /\ ConsumedInv
  BY DEF IInv, TInv, StoreInv
<1>2. Unbound(a) \/ Consumed(a)
  BY <1>1, StatesAre
<1>3. ~Consumed(a)
  BY <1>1 DEF ConsumedInv
<1>4. \A b \in attempts : Unbound(b) => b = Len(orders)
  BY <1>1 DEF UnboundInv
<1> QED BY <1>2, <1>3, <1>4

\* The release of a reservation that was never sent.
LEMMA StepUnsentRelease ==
    ASSUME IInv, NEW p \in Procs, UnsentRelease(p)
    PROVE  IInv'
<1> PICK m \in MemType : mem[p] = m
  BY DEF IInv, TInv
<1> DEFINE j == [m.job EXCEPT !.pc = "discard"]
<1>1. m.job.pc = "unsent" /\ Go(p, j)
  BY DEF UnsentRelease, At, Goto, job
<1>2. j \in JobType /\ j.pc = "discard" /\ j.a = m.job.a
  BY DEF MemType, JobType, Pc
<1> HIDE DEF j
<1>3. MemInv(m) /\ StoresTyped /\ StoreInv
  BY DEF IInv, TInv, ProcInv
<1> PICK a : a = m.job.a
  OBVIOUS
<1>4. a \in attempts /\ a \in Attempt /\ flow[a] = "halted" /\ m.held # None /\ m.held.attempt = a
  BY <1>1, <1>3, AttemptsAre DEF MemInv, JobInv, Unsent
<1>5. \E n \in MemType : /\ n.job = j /\ n.held = m.held
                         /\ PollInv(n)' /\ HeldInv(n)' /\ n.epoch \in 1..epoch'
                         /\ MemInv(n)' => IInv'
                         /\ a \in attempts' /\ Released(a)' /\ flow' = flow
  <2>1. CASE Released(a)
    <3>1. log' = log /\ UNCHANGED <<epoch, orders, flow, receipts, ev, broker, boots, refusals>>
      BY <2>1 DEF UnsentRelease, Released, job
    <3>2. EvKeeps /\ refusals' \in 0..MaxRefusals
      BY <1>3, <3>1, EvUnchanged DEF StoresTyped
    <3>3. PICK n \in MemType : /\ n.job = j /\ Keeps(m, n)
                               /\ PollInv(n)' /\ HeldInv(n)' /\ n.epoch \in 1..epoch'
                               /\ MemInv(n)' => IInv'
      BY <1>1, <1>2, <3>1, <3>2, GoActs DEF Sending
    <3>4. a \in attempts' /\ Released(a)'
      BY <1>4, <2>1, <3>1, LogSame DEF Released
    <3> QED BY <3>1, <3>3, <3>4 DEF Keeps
  <2>2. CASE ~Released(a)
    <3> DEFINE x == Transition(a, "RELEASED", "release-unsent", a)
    <3>1. /\ log' = Append(log, x)
          /\ UNCHANGED <<epoch, orders, flow, receipts, ev, broker, boots, refusals>>
      BY <2>2 DEF UnsentRelease, Released, job
    <3>2. /\ x \in Row /\ x.res = a /\ x.by = a /\ x.to = "RELEASED" /\ x.cmd = "release-unsent"
      BY <1>4 DEF Transition, Row, States
    <3>3. ~committed_command("release", a)
      <4>1. ~FullFill(a)
        BY <1>3, <1>4 DEF StoreInv, BrokerInv, FullFill
      <4> QED BY <1>3, <1>4, <4>1 DEF StoreInv, ReleasedInv
    <3>4. \A b \in attempts : Unbound(b) => b = a
      BY <1>4, <2>2, <3>3, UnboundIs
    <3> HIDE DEF x
    <3>5. LogStep(x)
      BY <1>4, <2>2, <3>1, <3>2, <3>4 DEF LogStep
    <3>6. PICK n \in MemType : /\ n.job = j /\ n.held = m.held
                               /\ PollInv(n)' /\ HeldInv(n)' /\ n.epoch \in 1..epoch'
                               /\ MemInv(n)' => IInv'
      BY <1>1, <1>2, <3>5, LogActs DEF Sending
    <3>7. a \in attempts' /\ Released(a)'
      BY <1>3, <1>4, <3>2, <3>5, LogMoves
    <3> QED BY <3>1, <3>6, <3>7
  <2> QED BY <2>1, <2>2
<1>6. PICK n \in MemType : /\ n.job = j /\ n.held = m.held
                           /\ PollInv(n)' /\ HeldInv(n)' /\ n.epoch \in 1..epoch'
                           /\ MemInv(n)' => IInv'
                           /\ a \in attempts' /\ Released(a)' /\ flow' = flow
  BY <1>5
<1>7. JobInv(n)'
  BY <1>2, <1>4, <1>6 DEF JobInv, Sending, Unsent, Filling, After, Proving, Binding, Discharging
<1>8. CommitInv(n)' /\ BindInv(n)'
  BY <1>2, <1>6 DEF CommitInv, BindInv, Proving, Binding, Discharging
<1> QED BY <1>6, <1>7, <1>8 DEF MemInv

\* A process that is about to update the engine's ledger.
LEMMA Projects ==
    ASSUME NEW n \in MemType, PollInv(n)', HeldInv(n)', n.epoch \in 1..epoch',
           n.job.pc = "project", n.job.a \in attempts', FullFill(n.job.a)',
           n.job.op \in {"fill", "resume"}, n.poll # None, committed_command("release", n.job.a)'
    PROVE  MemInv(n)'
<1>1. JobInv(n)'
  BY DEF JobInv, Sending, Unsent, Filling, After, Proving, Binding, Discharging
<1>2. CommitInv(n)' /\ BindInv(n)'
  BY DEF CommitInv, BindInv, Proving, Binding, Discharging
<1> QED BY <1>1, <1>2 DEF MemInv

\* The release of a fill.
LEMMA StepCommitRelease ==
    ASSUME IInv, NEW p \in Procs, CommitRelease(p)
    PROVE  IInv'
<1> PICK m \in MemType : mem[p] = m
  BY DEF IInv, TInv
<1> PICK a, e : a = m.job.a /\ e = m.job.entry
  OBVIOUS
<1> PICK pc \in {"project", "history"} : pc = IF e = None THEN "project" ELSE "history"
  OBVIOUS
<1> DEFINE j == [m.job EXCEPT !.pc = pc, !.at = None]
           x == Transition(a, destination(m.job), "release", a)
<1>1. /\ m.job.pc = "release" /\ Go(p, j) /\ log_accepts(m.job, "release", a)
      /\ log' = Append(log, x)
      /\ UNCHANGED <<epoch, orders, flow, receipts, ev, broker, boots, refusals>>
  BY DEF CommitRelease, At, job
<1>2. /\ j \in JobType /\ j.pc = pc /\ j.a = a /\ j.entry = e /\ j.op = m.job.op
  BY DEF MemType, JobType, Pc
<1> HIDE DEF j
<1>3. /\ a \in attempts /\ a \in Attempt /\ FullFill(a)
      /\ m.job.op \in {"fill", "resume"} /\ m.poll # None /\ MemInv(m)
  BY <1>1, FillingIs DEF Filling, Binding
<1>4. StoresTyped /\ StoreInv
  BY DEF IInv, TInv
<1>5. ~committed_command("release", a) /\ ~Released(a)
  BY <1>1 DEF log_accepts, Released
<1>6. Unbound(a) /\ a = Len(orders) /\ \A b \in attempts : Unbound(b) => b = a
  BY <1>3, <1>5, UnboundIs
<1>7. /\ e = None => ~IsClose(a)
      /\ e # None => IsClose(a) /\ \E it \in ev.pending : it.attempt = a
  BY <1>1, <1>3, <1>6 DEF MemInv, BindInv, Binding
<1>8. /\ x \in Row /\ x.res = a /\ x.by = a /\ x.cmd = "release"
      /\ x.to = IF e = None THEN "POSITION_CONSUMED" ELSE "RELEASED"
  BY <1>3 DEF Transition, Row, States, destination
<1> HIDE DEF x
<1>9. LogStep(x)
  BY <1>1, <1>3, <1>5, <1>6, <1>7, <1>8 DEF LogStep
<1>10. PICK n \in MemType : /\ n.job = j /\ n.held = m.held /\ n.poll = m.poll
                            /\ MemInv(m)'
                            /\ PollInv(n)' /\ HeldInv(n)' /\ n.epoch \in 1..epoch'
                            /\ MemInv(n)' => IInv'
  BY <1>1, <1>2, <1>9, LogActs DEF Sending
<1>11. a \in attempts' /\ committed_command("release", a)'
  BY <1>3, <1>4, <1>8, <1>9, LogMoves
<1>12. FullFill(a)' /\ (IsClose(a)' <=> IsClose(a))
  BY <1>1, <1>3 DEF FullFill, Recorded, IsClose
<1>13. CASE e = None
  BY <1>2, <1>3, <1>10, <1>11, <1>12, <1>13, Projects
<1>14. CASE e # None
  <2>1. JobInv(n)'
    BY <1>2, <1>3, <1>10, <1>11, <1>12, <1>14
       DEF JobInv, Sending, Unsent, Filling, After, Proving, Binding, Discharging
  <2>2. CommitInv(n)'
    BY <1>2, <1>10, <1>14 DEF CommitInv
  <2>3. BindInv(n)'
    <3>1. /\ e \in attempts' /\ ~Unbound(e)'
          /\ IsClose(a)' => Anchor(e, a)'
          /\ Unbound(a)' => IsClose(a)'
          /\ \E it \in ev'.pending : it.attempt = a
      BY <1>1, <1>10, <1>14 DEF MemInv, BindInv, Binding
    <3> QED BY <1>2, <1>7, <1>10, <1>12, <1>14, <3>1 DEF BindInv, Proving, Binding, Discharging
  <2> QED BY <1>10, <2>1, <2>2, <2>3 DEF MemInv
<1> QED BY <1>13, <1>14

\* A close was committed over one entry.
LEMMA AnchorUnique ==
    ASSUME StoresTyped, NEW c \in attempts, NEW d, NEW e, Anchor(d, c), Anchor(e, c)
    PROVE  d = e
<1>1. attempts = 1..Len(orders) /\ Len(orders) \in Nat
  BY AttemptsAre
<1>2. /\ d \in attempts /\ e \in attempts /\ d < c /\ e < c /\ ~IsClose(d) /\ ~IsClose(e)
      /\ \A r \in attempts : d < r /\ r <= c => IsClose(r)
      /\ \A r \in attempts : e < r /\ r <= c => IsClose(r)
  BY DEF Anchor
<1>3. ~(d < e) /\ ~(e < d)
  BY <1>1, <1>2
<1> QED BY <1>1, <1>2, <1>3

\* The discharge of an entry.
LEMMA StepCommitDischarge ==
    ASSUME IInv, NEW p \in Procs, CommitDischarge(p)
    PROVE  IInv'
<1> PICK m \in MemType : mem[p] = m
  BY DEF IInv, TInv
<1> PICK a, e : a = m.job.a /\ e = m.job.entry
  OBVIOUS
<1> PICK resumed \in BOOLEAN : resumed <=> m.job.op = "resume"
  OBVIOUS
<1> DEFINE j == IF resumed THEN NextItem ELSE [m.job EXCEPT !.pc = "project"]
           x == Transition(e, "RELEASED", "release-entry", a)
<1>1. /\ m.job.pc = "discharge_commit" /\ Go(p, j) /\ log_accepts(m.job, "release-entry", e)
      /\ log' = Append(log, x)
      /\ UNCHANGED <<epoch, orders, flow, receipts, ev, broker, boots, refusals>>
  BY DEF CommitDischarge, At, job, Goto
<1>2. /\ resumed => j \in JobType /\ j.pc = "next"
      /\ ~resumed => /\ j \in JobType /\ j.pc = "project" /\ j.a = a /\ j.op = m.job.op
  BY RestingJobs DEF MemType, JobType, Pc
<1> HIDE DEF j
<1>3. /\ a \in attempts /\ a \in Attempt /\ FullFill(a)
      /\ m.job.op \in {"fill", "resume"} /\ m.poll # None /\ MemInv(m)
  BY <1>1, FillingIs DEF Filling, After, Discharging
<1>4. StoresTyped /\ StoreInv
  BY DEF IInv, TInv
<1>5. /\ e \in attempts /\ ~Unbound(e) /\ IsClose(a) /\ Anchor(e, a)
  BY <1>1, <1>3 DEF MemInv, BindInv, Discharging
<1>6. ~Released(e) /\ m.job.at = LogAt
  BY <1>1 DEF log_accepts, Released
<1>7. \A b \in attempts : ~Unbound(b)
  <2>1. m.job.at.tip = tip
    BY <1>6 DEF LogAt
  <2> QED BY <1>1, <1>3, <2>1 DEF MemInv, BindInv
<1>8. Consumed(e)
  BY <1>4, <1>5, <1>6, StatesAre DEF StoreInv
<1>9. FullFill(e) /\ ~IsClose(e) /\ e \in Attempt
  BY <1>4, <1>5, <1>8, AttemptsAre DEF StoreInv, ConsumedInv, ReleasedInv
<1>10. \A d \in attempts : Anchor(d, a) => d = e
  BY <1>3, <1>4, <1>5, AnchorUnique
<1>11. /\ x \in Row /\ x.res = e /\ x.by = a /\ x.cmd = "release-entry" /\ x.to = "RELEASED"
  BY <1>3, <1>9 DEF Transition, Row, States
<1> HIDE DEF x
<1>12. LogStep(x)
  BY <1>1, <1>3, <1>5, <1>6, <1>7, <1>9, <1>10, <1>11 DEF LogStep
<1>13. PICK n \in MemType : /\ n.job = j /\ n.poll = m.poll
                            /\ MemInv(m)'
                            /\ PollInv(n)' /\ HeldInv(n)' /\ n.epoch \in 1..epoch'
                            /\ MemInv(n)' => IInv'
  BY <1>1, <1>2, <1>12, LogActs DEF Sending
<1>14. CASE resumed
  BY <1>2, <1>3, <1>13, <1>14, Rests
<1>15. CASE ~resumed
  <2>1. /\ a \in attempts' /\ FullFill(a)' /\ committed_command("release", a)'
    BY <1>1, <1>13 DEF MemInv, JobInv, Filling, After, Discharging
  <2> QED BY <1>2, <1>3, <1>13, <1>15, <2>1, Projects
<1> QED BY <1>14, <1>15

-----------------------------------------------------------------------------
(* The commitment of an order *)

\* The order op is committed as attempt n over what step 8 verified.
CommitStep(n, op) ==
    /\ n = Len(orders) + 1 /\ n <= MaxAttempts /\ op \in Order
    /\ log' = Append(log, Transition(n, "COMMITTED_UNBOUND", "commit", n))
    /\ orders' = Append(orders, op) /\ flow' = Append(flow, "open")
    /\ receipts' = Append(receipts, <<>>)
    /\ UNCHANGED <<epoch, ev, broker, boots, refusals>>
    /\ op.effect = "OPEN" => outstanding_reservations = {}
    /\ op.effect = "CLOSE" => \E e \in attempts : outstanding_reservations = {e} /\ Consumed(e)

\* What the stores hold of the new attempt and of the others.
LEMMA CommitAdds ==
    ASSUME StoresTyped, StoreInv, NEW n, NEW op, CommitStep(n, op)
    PROVE  /\ StoresTyped' /\ n \in Attempt /\ n \notin attempts /\ n = Len(orders')
           /\ attempts' = attempts \cup {n} /\ tip' = tip + 1 /\ tip \in Nat
           /\ orders'[n] = op /\ flow'[n] = "open" /\ receipts'[n] = <<>> /\ broker'[n] = NoOrder
           /\ \A a \in attempts : /\ orders'[a] = orders[a] /\ flow'[a] = flow[a]
                                  /\ receipts'[a] = receipts[a] /\ a < n
<1>1. /\ Len(orders) \in Nat /\ attempts = 1..Len(orders) /\ tip \in Nat
      /\ DOMAIN flow = attempts /\ DOMAIN receipts = attempts
  BY AttemptsAre
<1>2. /\ orders \in Seq(Order) /\ flow \in Seq(FlowEnd \cup {"open"}) /\ receipts \in Seq(Seq(Receipt))
      /\ Len(flow) = Len(orders) /\ Len(receipts) = Len(orders) /\ log \in Seq(Row)
  BY DEF StoresTyped
<1>3. /\ n = Len(orders) + 1 /\ n <= MaxAttempts /\ op \in Order
      /\ orders' = Append(orders, op) /\ flow' = Append(flow, "open")
      /\ receipts' = Append(receipts, <<>>)
      /\ log' = Append(log, Transition(n, "COMMITTED_UNBOUND", "commit", n))
      /\ UNCHANGED <<epoch, ev, broker, boots, refusals>>
  BY DEF CommitStep
<1>4. n \in Attempt /\ n \notin attempts
  BY <1>1, <1>3, BoundsAssumption DEF Attempt
<1>5. Transition(n, "COMMITTED_UNBOUND", "commit", n) \in Row
  BY <1>4 DEF Transition, Row, States
<1>6. /\ log' \in Seq(Row) /\ orders' \in Seq(Order) /\ Len(orders') = n
      /\ orders'[n] = op /\ \A a \in 1..Len(orders) : orders'[a] = orders[a]
  BY <1>2, <1>3, <1>5
<1>7. /\ flow' \in Seq(FlowEnd \cup {"open"}) /\ Len(flow') = n
      /\ flow'[n] = "open" /\ \A a \in 1..Len(orders) : flow'[a] = flow[a]
  BY <1>2, <1>3
<1>8. /\ receipts' \in Seq(Seq(Receipt)) /\ Len(receipts') = n
      /\ receipts'[n] = <<>> /\ \A a \in 1..Len(orders) : receipts'[a] = receipts[a]
  <2>1. <<>> \in Seq(Receipt)
    OBVIOUS
  <2> QED BY <1>2, <1>3, <2>1
<1>9. StoresTyped'
  BY <1>3, <1>6, <1>7, <1>8 DEF StoresTyped
<1>10. attempts' = attempts \cup {n} /\ \A a \in attempts : a < n
  <2>1. attempts' = 1..n
    BY <1>6 DEF attempts
  <2> QED BY <1>1, <1>3, <2>1
<1>11. tip' = tip + 1
  BY <1>2, <1>3, <1>5 DEF tip
<1>12. broker'[n] = NoOrder
  BY <1>3, <1>4 DEF StoreInv, BrokerInv
<1> QED BY <1>1, <1>4, <1>6, <1>7, <1>8, <1>9, <1>10, <1>11, <1>12

\* The projection after the commit.
LEMMA CommitMoves ==
    ASSUME StoresTyped, StoreInv, NEW n, NEW op, CommitStep(n, op)
    PROVE  /\ Unbound(n)' /\ first_seq(n)' = tip' /\ log'[tip'].res = n
           /\ \A a \in attempts : /\ ~Unbound(a) /\ ~Unbound(a)'
                                  /\ Released(a)' <=> Released(a)
                                  /\ Consumed(a)' <=> Consumed(a)
           /\ \A a \in attempts, c \in {"release", "release-unsent", "release-entry"} :
                 committed_command(c, a)' <=> committed_command(c, a)
           /\ \A c \in {"release", "release-unsent", "release-entry"} : ~committed_command(c, n)'
           /\ \A i \in DOMAIN log : log'[i] = log[i]
           /\ DOMAIN log' = DOMAIN log \cup {tip + 1}
           /\ log'[tip + 1] = Transition(n, "COMMITTED_UNBOUND", "commit", n)
           /\ \A a : RowsOf(a) \subseteq RowsOf(a)'
           /\ RowsOf(n)' # {}
<1> DEFINE x == Transition(n, "COMMITTED_UNBOUND", "commit", n)
<1>1. n \in Attempt /\ n \notin attempts /\ tip \in Nat
  BY CommitAdds
<1>2. x \in Row /\ x.res = n /\ x.to = "COMMITTED_UNBOUND" /\ x.cmd = "commit" /\ x.by = n
  BY <1>1 DEF Transition, Row, States
<1>3. log' = Append(log, x)
  BY DEF CommitStep
<1>4. log'[tip + 1] = Transition(n, "COMMITTED_UNBOUND", "commit", n) <=> log'[tip + 1] = x
  OBVIOUS
<1> HIDE DEF x
<1>5. /\ tip' = tip + 1 /\ DOMAIN log' = 1..(tip + 1)
      /\ \A i \in DOMAIN log : log'[i] = log[i]
      /\ log'[tip + 1] = x
      /\ reservation_state(x.res)' = x.to
      /\ \A r : r # x.res /\ RowsOf(r) # {} => reservation_state(r)' = reservation_state(r)
      /\ RowsOf(x.res) = {} => first_seq(x.res)' = tip + 1
      /\ \A r : RowsOf(r) \subseteq RowsOf(r)'
      /\ RowsOf(x.res)' # {}
      /\ Commands' = Commands \cup {<<x.cmd, x.by>>}
  BY <1>2, <1>3, LogAppends
<1>6. RowsOf(n) = {} /\ \A a \in attempts : RowsOf(a) # {}
  BY <1>1 DEF StoreInv, RowInv, RowsOf
<1>7. ASSUME NEW a \in attempts PROVE ~Unbound(a)
  <2>1. Unbound(a) => a \in outstanding_reservations /\ ~Consumed(a)
    BY DEF Unbound, outstanding_reservations, Consumed
  <2>2. op.effect \in {"OPEN", "CLOSE"}
    BY DEF CommitStep, Order
  <2> QED BY <2>1, <2>2 DEF CommitStep
<1>8. \A a \in attempts : /\ ~Unbound(a) /\ ~Unbound(a)'
                          /\ Released(a)' <=> Released(a)
                          /\ Consumed(a)' <=> Consumed(a)
  BY <1>1, <1>2, <1>5, <1>6, <1>7 DEF Unbound, Released, Consumed
<1>9. \A c : ~committed_command(c, n)
  <2>1. \A i \in DOMAIN log : log[i].by \in attempts
    BY DEF StoreInv, RowInv
  <2> QED BY <1>1, <2>1 DEF committed_command, Commands
<1>10. \A c \in {"release", "release-unsent", "release-entry"} : \A a :
          committed_command(c, a)' <=> committed_command(c, a)
  BY <1>2, <1>5 DEF committed_command
<1>11. Unbound(n)' /\ first_seq(n)' = tip' /\ log'[tip'].res = n
  BY <1>2, <1>5, <1>6 DEF Unbound
<1>12. DOMAIN log' = DOMAIN log \cup {tip + 1}
  BY <1>5, AttemptsAre
<1> QED BY <1>2, <1>4, <1>5, <1>8, <1>9, <1>10, <1>11, <1>12

\* The commit keeps the stores' invariant.
LEMMA CommitStores ==
    ASSUME StoresTyped, StoreInv, NEW n, NEW op, CommitStep(n, op)
    PROVE  StoreInv' /\ Grows
<1> USE DEF StoreInv
<1>1. /\ StoresTyped' /\ n \in Attempt /\ n \notin attempts /\ n = Len(orders')
      /\ attempts' = attempts \cup {n} /\ tip' = tip + 1 /\ tip \in Nat
      /\ orders'[n] = op /\ flow'[n] = "open" /\ receipts'[n] = <<>> /\ broker'[n] = NoOrder
      /\ \A a \in attempts : /\ orders'[a] = orders[a] /\ flow'[a] = flow[a]
                             /\ receipts'[a] = receipts[a] /\ a < n
  BY CommitAdds
<1>2. /\ Unbound(n)' /\ first_seq(n)' = tip' /\ log'[tip'].res = n
      /\ \A a \in attempts : /\ ~Unbound(a) /\ ~Unbound(a)'
                             /\ Released(a)' <=> Released(a)
                             /\ Consumed(a)' <=> Consumed(a)
      /\ \A a \in attempts, c \in {"release", "release-unsent", "release-entry"} :
            committed_command(c, a)' <=> committed_command(c, a)
      /\ \A c \in {"release", "release-unsent", "release-entry"} : ~committed_command(c, n)'
      /\ \A i \in DOMAIN log : log'[i] = log[i]
      /\ DOMAIN log' = DOMAIN log \cup {tip + 1}
      /\ log'[tip + 1] = Transition(n, "COMMITTED_UNBOUND", "commit", n)
      /\ \A a : RowsOf(a) \subseteq RowsOf(a)'
      /\ RowsOf(n)' # {}
  BY CommitMoves
<1>3. /\ UNCHANGED <<epoch, ev, broker, boots, refusals>> /\ op \in Order
      /\ op.effect = "OPEN" => outstanding_reservations = {}
      /\ op.effect = "CLOSE" => \E e \in attempts : outstanding_reservations = {e} /\ Consumed(e)
      /\ op.effect \in {"OPEN", "CLOSE"}
  BY DEF CommitStep, Order
<1>4. /\ \A a \in attempts : /\ (IsClose(a)' <=> IsClose(a)) /\ (FullFill(a)' <=> FullFill(a))
                             /\ (Recorded(a)' <=> Recorded(a))
      /\ IsClose(n)' <=> op.effect = "CLOSE"
      /\ ~FullFill(n)' /\ ~Recorded(n)'
  BY <1>1 DEF IsClose, FullFill, Recorded
<1>5. \A c \in attempts : \A e : Anchor(e, c)' <=> Anchor(e, c)
  BY <1>1, AnchorsStay
<1>6. \A a \in attempts : Consumed(a) => a \in outstanding_reservations
  BY DEF Consumed, outstanding_reservations
<1>7. Unbound(n)' => ~Released(n)' /\ ~Consumed(n)'
  BY DEF Unbound, Released, Consumed
<1>8. RowInv'
  <2>1. ASSUME NEW i \in DOMAIN log'
        PROVE  /\ log'[i].res \in attempts' /\ log'[i].by \in attempts'
               /\ log'[i].cmd = "release" /\ log'[i].to = "RELEASED" => IsClose(log[i].res)'
    <3>1. CASE i \in DOMAIN log
      <4>1. log'[i] = log[i] /\ log[i].res \in attempts /\ log[i].by \in attempts
        BY <1>2, <3>1 DEF RowInv
      <4>2. PICK r \in attempts : r = log[i].res
        BY <4>1
      <4>3. log[i].cmd = "release" /\ log[i].to = "RELEASED" => IsClose(r)'
        BY <1>4, <3>1, <4>2 DEF RowInv
      <4> QED BY <1>1, <4>1, <4>2, <4>3 DEF IsClose
    <3>2. CASE i = tip + 1
      BY <1>1, <1>2, <3>2 DEF Transition
    <3> QED BY <1>2, <2>1, <3>1, <3>2
  <2>2. \A a \in attempts' : RowsOf(a)' # {}
    BY <1>1, <1>2 DEF RowInv
  <2> QED BY <2>1, <2>2 DEF RowInv
<1>9. UnboundInv'
  <2> SUFFICES ASSUME NEW a \in attempts', Unbound(a)'
               PROVE  /\ a = Len(orders') /\ log'[tip'].res = a /\ first_seq(a)' = tip'
                      /\ a \notin ev'.projected /\ a \notin ev'.discarded
                      /\ ~committed_command("release", a)'
                      /\ IsClose(a)' => \E e \in attempts' : e # a /\ Consumed(e)'
    BY DEF UnboundInv
  <2>1. a = n
    BY <1>1, <1>2
  <2>2. a \notin ev'.projected /\ a \notin ev'.discarded
    BY <1>1, <1>3, <2>1 DEF EvInv
  <2>3. IsClose(a)' => \E e \in attempts' : e # a /\ Consumed(e)'
    BY <1>1, <1>2, <1>3, <1>4, <2>1
  <2> QED BY <1>1, <1>2, <2>1, <2>2, <2>3
<1>10. ConsumedInv'
  <2> SUFFICES ASSUME NEW a \in attempts', Consumed(a)'
               PROVE  /\ committed_command("release", a)' /\ ~IsClose(a)'
                      /\ \A c \in attempts' : a < c => IsClose(c)'
    BY DEF ConsumedInv
  <2>1. a \in attempts /\ Consumed(a)
    BY <1>1, <1>2, <1>7
  <2>2. op.effect = "CLOSE"
    BY <1>3, <1>6, <2>1
  <2>3. /\ committed_command("release", a) /\ ~IsClose(a)
        /\ \A c \in attempts : a < c => IsClose(c)
    BY <2>1 DEF ConsumedInv
  <2> QED BY <1>1, <1>2, <1>4, <2>1, <2>2, <2>3
<1>11. ReleasedInv'
  <2>1. ASSUME NEW a \in attempts
        PROVE  /\ committed_command("release", a)' => FullFill(a)'
               /\ Released(a)' /\ flow'[a] # "halted" => FullFill(a)'
               /\ Released(a)' /\ IsClose(a)' /\ flow'[a] # "halted" => committed_command("release", a)'
               /\ committed_command("release-entry", a)' =>
                     \A e \in attempts' : Anchor(e, a)' => Released(e)'
               /\ committed_command("release", a)' /\ IsClose(a)' =>
                     \E it \in ev'.pending : it.attempt = a /\ valid_close_commit(it)'
    <3>1. /\ committed_command("release", a)' => FullFill(a)'
          /\ Released(a)' /\ flow'[a] # "halted" => FullFill(a)'
          /\ Released(a)' /\ IsClose(a)' /\ flow'[a] # "halted" => committed_command("release", a)'
      BY <1>1, <1>2, <1>4 DEF ReleasedInv
    <3>2. ASSUME committed_command("release-entry", a)', NEW e \in attempts', Anchor(e, a)'
          PROVE  Released(e)'
      <4>1. Anchor(e, a) /\ e \in attempts
        BY <1>5, <3>2 DEF Anchor
      <4> QED BY <1>2, <3>2, <4>1 DEF ReleasedInv
    <3>3. ASSUME committed_command("release", a)', IsClose(a)'
          PROVE  \E it \in ev'.pending : it.attempt = a /\ valid_close_commit(it)'
      <4>1. PICK it \in ev.pending : it.attempt = a /\ valid_close_commit(it)
        BY <1>2, <1>4, <3>3 DEF ReleasedInv
      <4>2. valid_close_commit(it)'
        BY <1>2, <4>1 DEF valid_close_commit
      <4> QED BY <1>3, <4>1, <4>2
    <3> QED BY <3>1, <3>2, <3>3
  <2>2. ~Released(n)' /\ ~committed_command("release", n)' /\ ~committed_command("release-entry", n)'
    BY <1>2, <1>7
  <2> QED BY <1>1, <2>1, <2>2 DEF ReleasedInv
<1>12. PendingInv'
  <2>1. ASSUME NEW it \in ev.pending PROVE PendingRow(it)'
    <3>1. PendingRow(it)
      BY DEF PendingInv
    <3> QED BY <1>1, <1>2, <1>4, <1>5, <3>1 DEF PendingRow
  <2> QED BY <1>3, <2>1 DEF PendingInv
<1>13. EvInv'
  BY <1>1, <1>3, <1>4 DEF EvInv
<1>14. BrokerInv'
  <2>1. ASSUME NEW a \in attempts PROVE BrokerOf(a)'
    <3>1. BrokerOf(a)
      BY DEF BrokerInv, BrokerOf
    <3> QED BY <1>1, <1>3, <1>4, <3>1 DEF BrokerOf
  <2>2. BrokerOf(n)'
    <3>1. op.qty \in 1..MaxQty
      BY <1>3 DEF Order
    <3>2. broker'[n].filled = 0 /\ broker'[n].live = FALSE
      BY <1>1 DEF NoOrder
    <3>3. 0 <= op.qty
      BY <3>1
    <3>4. \A i \in DOMAIN receipts'[n] : receipts'[n][i].filled \in {None} \cup 0..orders'[n].qty
      BY <1>1
    <3> QED BY <1>1, <1>4, <3>2, <3>3, <3>4 DEF BrokerOf
  <2>3. \A a \in Attempt : a \notin attempts' => broker'[a] = NoOrder
    BY <1>1, <1>3 DEF BrokerInv
  <2> QED BY <1>1, <2>1, <2>2, <2>3 DEF BrokerInv, BrokerOf
<1>15. outstanding_reservations' = outstanding_reservations \cup {n}
  BY <1>1, <1>2, <1>7 DEF outstanding_reservations, Released
<1>16. ScopeShape'
  <2>1. CASE op.effect = "OPEN"
    <3>1. outstanding_reservations' = {n}
      BY <1>3, <1>15, <2>1
    <3>2. Cardinality({n}) = 1
      BY FS_Singleton
    <3>3. Cardinality(outstanding_reservations') <= 1
      BY <3>1, <3>2
    <3> QED BY <3>3 DEF ScopeShape
  <2>2. CASE op.effect = "CLOSE"
    <3>1. PICK e \in attempts : outstanding_reservations = {e} /\ Consumed(e)
      BY <1>3, <2>2
    <3>2. outstanding_reservations' = {e, n} /\ e < n
      BY <1>1, <1>15, <3>1
    <3>3. reservation_state(e)' = "POSITION_CONSUMED" /\ reservation_state(n)' = "COMMITTED_UNBOUND"
      BY <1>2, <3>1 DEF Consumed, Unbound
    <3>4. orders'[e].effect = "OPEN" /\ orders'[n].effect = "CLOSE"
      <4>1. ~IsClose(e) /\ orders[e] \in Order
        BY <3>1, AttemptsAre DEF ConsumedInv
      <4> QED BY <1>1, <2>2, <3>1, <4>1 DEF IsClose, Order
    <3> QED BY <3>2, <3>3, <3>4 DEF ScopeShape
  <2> QED BY <1>3, <2>1, <2>2
<1>17. epoch <= epoch /\ \A a \in Attempt : broker[a].filled <= broker[a].filled
  BY BoundsAssumption DEF StoresTyped, Snapshot
<1>18. Grows
  BY <1>1, <1>2, <1>3, <1>4, <1>17 DEF Grows
<1> QED BY <1>8, <1>9, <1>10, <1>11, <1>12, <1>13, <1>14, <1>16, <1>18

\* The commit of step 9.
LEMMA StepAtomicCommit ==
    ASSUME IInv, NEW p \in Procs, AtomicCommit(p)
    PROVE  IInv'
<1> PICK m \in MemType : mem[p] = m
  BY DEF IInv, TInv
<1> PICK n, op : n = Len(orders) + 1 /\ op = m.job.op
  OBVIOUS
<1> DEFINE j == [Idle EXCEPT !.pc = "flow", !.a = n]
           h == [attempt |-> n, sent |-> FALSE]
           k == [m EXCEPT !.job = j, !.held = h]
<1>1. /\ m.job.pc = "commit" /\ m.epoch = epoch
      /\ m.job.op.effect = "CLOSE" => m.job.at.tip = tip
  BY DEF AtomicCommit, At, job, CommitFence
<1>2. StoresTyped /\ StoreInv /\ MemInv(m) /\ mem \in [Procs -> MemType]
  BY DEF IInv, TInv, ProcInv
<1>3. CommitStep(n, op)
  <2>1. op \in Order
    BY <1>1, <1>2 DEF MemInv, CommitInv
  <2>2. /\ op.effect = "OPEN" => outstanding_reservations = {}
        /\ op.effect = "CLOSE" => \E e \in attempts : outstanding_reservations = {e} /\ Consumed(e)
    BY <1>1, <1>2 DEF MemInv, CommitInv
  <2> QED BY <2>1, <2>2 DEF AtomicCommit, CommitStep, job
<1>4. /\ StoresTyped' /\ n \in Attempt /\ n \notin attempts /\ n = Len(orders')
      /\ attempts' = attempts \cup {n}
      /\ flow'[n] = "open" /\ receipts'[n] = <<>> /\ broker'[n] = NoOrder
      /\ \A a \in attempts : flow'[a] = flow[a] /\ receipts'[a] = receipts[a]
  BY <1>2, <1>3, CommitAdds
<1>5. StoreInv' /\ Grows
  BY <1>2, <1>3, CommitStores
<1>6. epoch' = epoch /\ broker' = broker
  BY <1>3 DEF CommitStep
<1>7. j \in JobType /\ j.pc = "flow" /\ j.a = n
  BY <1>4 DEF Idle, JobType, Pc, AttemptOrNone
<1>8. h \in HeldType /\ h # None /\ h.attempt = n
  BY <1>4, HeldIsSome
<1>9. mem' = [mem EXCEPT ![p] = k]
  BY <1>2 DEF AtomicCommit, MemType
<1>10. h = [attempt |-> n, sent |-> FALSE]
  OBVIOUS
<1> HIDE DEF j, h
<1>11. k \in MemType /\ k.job = j /\ k.held = h /\ k.epoch = m.epoch /\ k.poll = m.poll
  BY <1>7, <1>8 DEF MemType
<1> HIDE DEF k
<1>12. \A q \in Procs \ {p} : \A l \in MemType : mem[q] = l => Spares(l)
  <2> SUFFICES ASSUME NEW q \in Procs, NEW l \in MemType, mem[q] = l PROVE Spares(l)
    OBVIOUS
  <2>1. JobInv(l)
    BY DEF IInv, ProcInv, MemInv
  <2>2. l.job.pc \in Sending => l.job.a \in attempts
    BY <2>1 DEF JobInv
  <2> QED BY <1>4, <1>6, <2>2 DEF Spares
<1>13. PollInv(k)'
  <2>1. PollInv(m)'
    BY <1>2, <1>4, <1>5, PollStays DEF MemInv
  <2> QED BY <1>11, <2>1 DEF PollInv
<1>14. JobInv(k)'
  <2>1. k.epoch \in 1..epoch' /\ n \in attempts'
    BY <1>1, <1>2, <1>4, <1>6, <1>11 DEF MemInv, JobInv
  <2> QED BY <1>4, <1>7, <1>10, <1>11, <2>1
          DEF JobInv, Sending, Unsent, Filling, After, Proving, Binding, Discharging
<1>15. HeldInv(k)'
  <2>1. \A a \in attempts' : Unbound(a)' => a = n
    BY <1>4, <1>5 DEF StoreInv, UnboundInv
  <2> QED BY <1>4, <1>8, <1>11, <2>1 DEF HeldInv
<1>16. CommitInv(k)' /\ BindInv(k)'
  BY <1>7, <1>11 DEF CommitInv, BindInv, Proving, Binding, Discharging
<1>17. MemInv(k)'
  BY <1>13, <1>14, <1>15, <1>16 DEF MemInv
<1> QED BY <1>1, <1>4, <1>5, <1>6, <1>7, <1>9, <1>11, <1>12, <1>17, Assemble

-----------------------------------------------------------------------------
(* The invariant holds *)

\* The program starts in the invariant.
LEMMA InvInit ==
    Init => IInv
<1> SUFFICES ASSUME Init PROVE IInv
  OBVIOUS
<1> USE DEF Init
<1>1. attempts = {} /\ tip = 0 /\ Len(orders) = 0 /\ DOMAIN log = {}
  BY DEF attempts, tip
<1>2. StoresTyped
  <2>1. NoOrder \in [seen : BOOLEAN, live : BOOLEAN, filled : 0..MaxQty]
    BY BoundsAssumption DEF NoOrder
  <2>2. broker \in Snapshot
    BY <2>1 DEF Snapshot, NoOrder
  <2>3. ev \in EvType
    BY DEF EvType
  <2>4. 0 \in 0..MaxBoots /\ 0 \in 0..MaxRefusals /\ 0 <= MaxAttempts
    BY BoundsAssumption
  <2> QED BY <1>1, <2>2, <2>3, <2>4 DEF StoresTyped
<1>3. Down \in MemType /\ Down.job.pc = "down" /\ Down.poll = None
  <2>1. [Idle EXCEPT !.pc = "down"] \in JobType /\ [Idle EXCEPT !.pc = "down"].pc = "down"
    BY DEF Idle, JobType, Pc, AttemptOrNone
  <2> QED BY <2>1 DEF Down, MemType, HeldType, PollType
<1>4. TInv
  BY <1>2, <1>3 DEF TInv
<1>5. StoreInv
  <2>1. RowInv /\ UnboundInv /\ ConsumedInv /\ ReleasedInv
    BY <1>1 DEF RowInv, UnboundInv, ConsumedInv, ReleasedInv
  <2>2. PendingInv /\ EvInv
    BY <1>1 DEF PendingInv, EvInv
  <2>3. BrokerInv
    BY <1>1 DEF BrokerInv, NoOrder
  <2>4. ScopeShape
    <3>1. outstanding_reservations = {}
      BY <1>1 DEF outstanding_reservations
    <3>2. Cardinality(outstanding_reservations) <= 1
      BY <3>1, FS_EmptySet
    <3> QED BY <3>2 DEF ScopeShape
  <2> QED BY <2>1, <2>2, <2>3, <2>4 DEF StoreInv
<1> HIDE DEF Down
<1>6. ASSUME NEW p \in Procs PROVE ProcInv(p)
  <2>1. JobInv(Down)
    BY <1>3 DEF JobInv, Sending, Unsent, Filling, After, Proving, Binding, Discharging
  <2>2. PollInv(Down) /\ CommitInv(Down) /\ BindInv(Down) /\ HeldInv(Down)
    BY <1>3 DEF PollInv, CommitInv, BindInv, HeldInv, Proving, Binding, Discharging
  <2> QED BY <2>1, <2>2 DEF ProcInv, MemInv
<1>7. PairInv
  BY <1>3 DEF PairInv, At, job, Sending
<1> QED BY <1>4, <1>5, <1>6, <1>7 DEF IInv

\* A step that changes nothing keeps the invariant.
LEMMA InvStutters ==
    ASSUME IInv, UNCHANGED vars
    PROVE  IInv'
<1> USE DEF vars
<1>1. StoresTyped /\ StoreInv /\ mem \in [Procs -> MemType] /\ PairInv
  BY DEF IInv, TInv
<1>2. StoresTyped' /\ TInv'
  BY <1>1 DEF StoresTyped, TInv
<1>3. EvKeeps /\ epoch <= epoch'
  BY <1>1, EvUnchanged, BoundsAssumption DEF StoresTyped
<1>4. StoreInv' /\ Grows /\ \A k \in MemType : Spares(k)
  BY <1>1, <1>2, <1>3, EvidenceStep DEF EvKeeps
<1>5. ASSUME NEW q \in Procs PROVE ProcInv(q)'
  BY <1>2, <1>4, OthersKeep
<1>6. PairInv'
  BY <1>1 DEF PairInv, At, job
<1> QED BY <1>2, <1>4, <1>5, <1>6 DEF IInv

\* Every step keeps the invariant.
LEMMA InvNext ==
    ASSUME IInv, [Next]_vars
    PROVE  IInv'
<1>1. ASSUME NEW p \in Procs, Work(p) PROVE IInv'
  <2>1. CASE AtomicCommit(p) \/ CommitRefused(p)
    BY <2>1, StepAtomicCommit, StepCommitRefused
  <2>2. CASE Flow(p)
    BY <2>2, StepFlowHalts, StepFlowSends, StepFlowRaises, StepRecordAnswer DEF Flow
  <2>3. CASE UnsentPass(p)
    BY <2>3, StepEndTurn, StepUnsentRelease, StepUnsentRefused, StepUnsentDiscard, StepUnsentIntent
       DEF UnsentPass
  <2>4. CASE Observe(p)
    BY <2>4, StepStartApply, StepEmit, StepReproject, StepResume, StepEndApply DEF Observe
  <2>5. CASE Project(p)
    BY <2>5, StepRecordObligation, StepRecordProof, StepRecordWitness, StepProjectRelease DEF Project
  <2>6. CASE Release(p)
    BY <2>6, StepConsume, StepPersistPending, StepPersistLink, StepReleaseIntent,
       StepCommitRelease, StepReleaseRefused DEF Release
  <2>7. CASE Discharge(p)
    BY <2>7, StepDischargeHistory, StepDischargeIntent, StepCommitDischarge, StepDischargeRefused
       DEF Discharge
  <2> QED BY <1>1, <2>1, <2>2, <2>3, <2>4, <2>5, <2>6, <2>7 DEF Work
<1>2. ASSUME NEW p \in Procs, Boot(p) \/ Crash(p) \/ VerifyLedger(p) \/ Poll(p) PROVE IInv'
  BY <1>2, StepBoot, StepCrash, StepVerifyLedger, StepPoll
<1>3. ASSUME NEW a \in attempts, BrokerFills(a) \/ BrokerCancels(a) PROVE IInv'
  BY <1>3, StepBrokerFills, StepBrokerCancels
<1>4. CASE UNCHANGED vars
  BY <1>4, InvStutters
<1> QED BY <1>1, <1>2, <1>3, <1>4 DEF Next

\* The stores and the memories of all processes fit together in every state:
\* releases, closes, discharges, boots and crashes in any order.
THEOREM Invariant ==
    Spec => []IInv
BY InvInit, InvNext, PTL DEF Spec

-----------------------------------------------------------------------------
(* What the invariant says *)

\* Every store and memory keeps its shape, and no receipt reports more than was
\* ordered, whatever fills and polls interleave (fill_observer.py).
THEOREM TypeCorrect ==
    Spec => []TypeOK
<1>1. ASSUME IInv PROVE TypeOK
  <2>1. StoresTyped /\ StoreInv /\ mem \in [Procs -> MemType]
    BY <1>1 DEF IInv, TInv
  <2>2. /\ DOMAIN flow = attempts /\ flow \in Seq(FlowEnd \cup {"open"})
    BY <2>1, AttemptsAre DEF StoresTyped
  <2>3. \A a \in attempts : flow[a] \in FlowEnd \cup {"open"}
    BY <2>2
  <2>4. \A i \in DOMAIN log : log[i].res \in attempts
    BY <2>1 DEF StoreInv, RowInv
  <2>5. \A a \in attempts : \A i \in DOMAIN receipts[a] :
           receipts[a][i].filled \in {None} \cup 0..orders[a].qty
    BY <2>1 DEF StoreInv, BrokerInv
  <2>6. \A p \in Procs : mem[p].job.a \in AttemptOrNone /\ mem[p].job.entry \in AttemptOrNone
    BY <2>1 DEF MemType, JobType
  <2>7. ev.unsent \cup ev.projected \cup ev.discarded \subseteq attempts
    BY <2>1 DEF StoreInv, EvInv
  <2> QED BY <2>1, <2>3, <2>4, <2>5, <2>6, <2>7 DEF TypeOK, StoresTyped
<1> QED BY <1>1, Invariant, PTL

\* Nothing is ever committed as a third reservation, and two are an entry and a
\* close over it: the shape the release consumer reads the scope by.
THEOREM ScopeIsShaped ==
    Spec => []ScopeShape
<1>1. IInv => ScopeShape
  BY DEF IInv, StoreInv
<1> QED BY <1>1, Invariant, PTL

\* The reservation that the process in charge holds is the newest commit of the
\* scope, as the verdict cache of the unsent pass needs.
THEOREM NewestIsHeld ==
    Spec => []AnchorStands
<1>1. ASSUME IInv PROVE AnchorStands
  <2> SUFFICES ASSUME NEW p \in Procs, mem[p].held # None, mem[p].epoch = epoch
               PROVE  mem[p].held.attempt = Len(orders)
    BY DEF AnchorStands
  <2> PICK m \in MemType : mem[p] = m
    BY <1>1 DEF IInv, TInv
  <2>1. JobInv(m) /\ HeldInv(m)
    BY <1>1 DEF IInv, ProcInv, MemInv
  <2>2. m.job.pc # "down"
    BY <2>1 DEF JobInv, Down
  <2> QED BY <2>1, <2>2 DEF HeldInv
<1> QED BY <1>1, Invariant, PTL

\* The process in charge holds whatever the log still has in flight, also after a
\* takeover or a crash in the middle of a release.
THEOREM LedgerCovers ==
    Spec => []LedgerCoversLog
<1>1. ASSUME IInv PROVE LedgerCoversLog
  <2> SUFFICES ASSUME NEW p \in Procs, NEW a \in attempts, ~At(p, "down"),
                      mem[p].epoch = epoch, reservation_state(a) = "COMMITTED_UNBOUND"
               PROVE  Holds(p, a)
    BY DEF LedgerCoversLog
  <2> PICK m \in MemType : mem[p] = m
    BY <1>1 DEF IInv, TInv
  <2>1. HeldInv(m)
    BY <1>1 DEF IInv, ProcInv, MemInv
  <2> QED BY <2>1 DEF HeldInv, At, job, Holds, Unbound
<1> QED BY <1>1, Invariant, PTL

\* A close released while its entry is still consumed is in the recovery scan,
\* wherever a process died: its recovery row was written before its release, names
\* the entry, and no discharge of that entry has committed.
THEOREM CloseIsFound ==
    Spec => []CloseNotForgotten
<1>1. ASSUME IInv PROVE CloseNotForgotten
  <2> SUFFICES ASSUME NEW e \in attempts, NEW c \in attempts, Consumed(e), e < c,
                      Released(c), committed_command("release", c)
               PROVE  c \in pending_recovery_attempt_ids
    <3>1. StoresTyped
      BY <1>1 DEF IInv, TInv
    <3>2. \A e, c \in attempts : c > e => e < c
      BY <3>1, AttemptsAre
    <3> QED BY <3>2 DEF CloseNotForgotten, Consumed
  <2>1. StoresTyped /\ StoreInv
    BY <1>1 DEF IInv, TInv
  <2>2. ~IsClose(e) /\ \A r \in attempts : e < r => IsClose(r)
    BY <2>1 DEF StoreInv, ConsumedInv
  <2>3. IsClose(c) /\ Anchor(e, c)
    BY <2>2 DEF Anchor
  <2>4. PICK it \in ev.pending : it.attempt = c /\ valid_close_commit(it)
    BY <2>1, <2>3 DEF StoreInv, ReleasedInv
  <2>5. ~Released(e)
    BY DEF Consumed, Released
  <2>6. ~valid_entry_commit(it)
    BY <2>1, <2>3, <2>4, <2>5 DEF StoreInv, ReleasedInv, valid_entry_commit
  <2>7. it.entry = e
    <3>1. Anchor(it.entry, c)
      BY <2>1, <2>3, <2>4 DEF StoreInv, PendingInv, PendingRow
    <3> QED BY <2>1, <2>3, <3>1, AnchorUnique
  <2>8. ~entry_already_released(it)
    BY <2>5, <2>7 DEF entry_already_released, Released
  <2> QED BY <2>4, <2>6, <2>8 DEF pending_recovery_attempt_ids
<1> QED BY <1>1, Invariant, PTL
=============================================================================
