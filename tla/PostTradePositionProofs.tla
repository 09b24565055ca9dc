---------------------- MODULE PostTradePositionProofs ----------------------
(***************************************************************************)
(* Proofs about the position that the orders of a scope leave at the       *)
(* broker: it is never short, and flat when nothing is outstanding.        *)
(***************************************************************************)
EXTENDS PostTradeReleaseProofs

-----------------------------------------------------------------------------
(* Sums *)

\* s holds the partial sums of f up to n.
IsSum(s, f, n) == s = [i \in 0..n |-> IF i = 0 THEN 0 ELSE s[i - 1] + f[i]]

\* There are partial sums up to every number.
LEMMA SumExists ==
    ASSUME NEW f
    PROVE  \A n \in Nat : \E s : IsSum(s, f, n)
<1> DEFINE Bad == {n \in Nat : ~ \E s : IsSum(s, f, n)}
<1>1. SUFFICES ASSUME Bad # {} PROVE FALSE
  OBVIOUS
<1>2. PICK n \in Bad : \A k \in Bad : n <= k
  <2>1. Bad \subseteq Nat
    OBVIOUS
  <2> HIDE DEF Bad
  <2> QED BY <1>1, <2>1, LeastNat
<1>3. n # 0
  <2> DEFINE s == [i \in 0..0 |-> 0]
  <2>1. IsSum(s, f, 0)
    BY DEF IsSum
  <2> HIDE DEF s
  <2> QED BY <2>1
<1>4. PICK s : IsSum(s, f, n - 1)
  BY <1>2, <1>3
<1> DEFINE g == [i \in 0..n |-> IF i < n THEN s[i] ELSE s[n - 1] + f[n]]
<1>5. ASSUME NEW i \in 0..n PROVE g[i] = IF i = 0 THEN 0 ELSE g[i - 1] + f[i]
  <2>1. CASE i = n
    BY <2>1, <1>2, <1>3
  <2>2. CASE i # n
    <3>1. i \in 0..(n - 1) /\ g[i] = s[i]
      BY <2>2, <1>2
    <3>2. i # 0 => i - 1 \in 0..n /\ i - 1 < n /\ g[i - 1] = s[i - 1]
      BY <3>1, <1>2
    <3>3. s[i] = IF i = 0 THEN 0 ELSE s[i - 1] + f[i]
      BY <3>1, <1>4 DEF IsSum
    <3> HIDE DEF g
    <3> QED BY <3>1, <3>2, <3>3
  <2> QED BY <2>1, <2>2
<1>6. g = [i \in 0..n |-> g[i]]
  OBVIOUS
<1> HIDE DEF g
<1>7. IsSum(g, f, n)
  BY <1>5, <1>6 DEF IsSum
<1> QED BY <1>2, <1>7

\* Partial sums agree as far as both go.
LEMMA SumsAgree ==
    ASSUME NEW f, NEW n \in Nat, NEW k \in 0..n, NEW s, NEW t, IsSum(s, f, n), IsSum(t, f, k)
    PROVE  \A i \in 0..k : s[i] = t[i]
<1> DEFINE G == {i \in 0..k : s[i] = t[i]}
<1>1. /\ \A i \in 0..n : s[i] = IF i = 0 THEN 0 ELSE s[i - 1] + f[i]
      /\ \A i \in 0..k : t[i] = IF i = 0 THEN 0 ELSE t[i - 1] + f[i]
  BY DEF IsSum
<1>2. 0 \in G
  BY <1>1
<1>3. ASSUME NEW i \in 0..k, i \in G, i < k PROVE i + 1 \in G
  <2>1. i + 1 \in 0..k /\ i + 1 \in 0..n /\ i + 1 # 0 /\ (i + 1) - 1 = i /\ s[i] = t[i]
    BY <1>3
  <2>2. s[i + 1] = s[i] + f[i + 1] /\ t[i + 1] = t[i] + f[i + 1]
    BY <1>1, <2>1
  <2> QED BY <2>1, <2>2
<1> HIDE DEF G
<1>4. k \in Nat
  OBVIOUS
<1>5. \A i \in 0..k : i \in G
  BY <1>2, <1>3, <1>4, SetInduction
<1> QED BY <1>5 DEF G

\* What SumTo is.
LEMMA SumToIs ==
    ASSUME NEW f, NEW n \in Nat
    PROVE  \E s : IsSum(s, f, n) /\ SumTo(f, n) = s[n]
<1> DEFINE s == CHOOSE s : s = [i \in 0..n |-> IF i = 0 THEN 0 ELSE s[i - 1] + f[i]]
<1>1. SumTo(f, n) = s[n]
  BY DEF SumTo
<1>2. \E t : t = [i \in 0..n |-> IF i = 0 THEN 0 ELSE t[i - 1] + f[i]]
  BY SumExists DEF IsSum
<1>3. s = [i \in 0..n |-> IF i = 0 THEN 0 ELSE s[i - 1] + f[i]]
  BY <1>2
<1> HIDE DEF s
<1> QED BY <1>1, <1>3 DEF IsSum

\* The sum of nothing, and of one more.
LEMMA SumStep ==
    ASSUME NEW f, NEW n \in Nat
    PROVE  SumTo(f, 0) = 0 /\ SumTo(f, n + 1) = SumTo(f, n) + f[n + 1]
<1>1. PICK z : IsSum(z, f, 0) /\ SumTo(f, 0) = z[0]
  BY SumToIs
<1>2. PICK s : IsSum(s, f, n + 1) /\ SumTo(f, n + 1) = s[n + 1]
  BY SumToIs
<1>3. PICK t : IsSum(t, f, n) /\ SumTo(f, n) = t[n]
  BY SumToIs
<1>4. s[n] = t[n]
  <2>1. n + 1 \in Nat /\ n \in 0..(n + 1) /\ n \in 0..n
    OBVIOUS
  <2> QED BY <1>2, <1>3, <2>1, SumsAgree
<1>5. s[n + 1] = s[n] + f[n + 1]
  <2>1. n + 1 \in 0..(n + 1) /\ n + 1 # 0 /\ (n + 1) - 1 = n
    OBVIOUS
  <2> QED BY <1>2, <2>1 DEF IsSum
<1>6. z[0] = 0
  BY <1>1 DEF IsSum
<1> QED BY <1>1, <1>2, <1>3, <1>4, <1>5, <1>6

\* A sum of integers is one.
LEMMA SumInt ==
    ASSUME NEW f, NEW n \in Nat, \A i \in 1..n : f[i] \in Int
    PROVE  \A i \in 0..n : SumTo(f, i) \in Int
<1> DEFINE G == {i \in 0..n : SumTo(f, i) \in Int}
<1>1. 0 \in G
  BY SumStep
<1>2. ASSUME NEW i \in 0..n, i \in G, i < n PROVE i + 1 \in G
  <2>1. i \in Nat /\ i + 1 \in 0..n /\ i + 1 \in 1..n
    BY <1>2
  <2>2. SumTo(f, i + 1) = SumTo(f, i) + f[i + 1]
    BY <2>1, SumStep
  <2> QED BY <1>2, <2>1, <2>2
<1> HIDE DEF G
<1>3. \A i \in 0..n : i \in G
  BY <1>1, <1>2, SetInduction
<1> QED BY <1>3 DEF G

\* A sum depends on its terms only.
LEMMA SumSame ==
    ASSUME NEW f, NEW g, NEW n \in Nat, \A i \in 1..n : f[i] = g[i]
    PROVE  SumTo(f, n) = SumTo(g, n)
<1> DEFINE G == {i \in 0..n : SumTo(f, i) = SumTo(g, i)}
<1>1. 0 \in G
  BY SumStep
<1>2. ASSUME NEW i \in 0..n, i \in G, i < n PROVE i + 1 \in G
  <2>1. i \in Nat /\ i + 1 \in 0..n /\ i + 1 \in 1..n
    BY <1>2
  <2>2. SumTo(f, i + 1) = SumTo(f, i) + f[i + 1] /\ SumTo(g, i + 1) = SumTo(g, i) + g[i + 1]
    BY <2>1, SumStep
  <2> QED BY <1>2, <2>1, <2>2
<1> HIDE DEF G
<1>3. \A i \in 0..n : i \in G
  BY <1>1, <1>2, SetInduction
<1>4. n \in G
  BY <1>3
<1> QED BY <1>4 DEF G

\* Terms that are zero add nothing.
LEMMA SumOfZeros ==
    ASSUME NEW f, NEW n \in Nat, NEW k \in 0..n, \A i \in 1..n : f[i] \in Int,
           \A i \in 1..n : k < i => f[i] = 0
    PROVE  SumTo(f, n) = SumTo(f, k)
<1> DEFINE G == {i \in 0..n : i <= k \/ SumTo(f, i) = SumTo(f, k)}
<1>1. 0 \in G
  OBVIOUS
<1>2. ASSUME NEW i \in 0..n, i \in G, i < n PROVE i + 1 \in G
  <2>1. i \in Nat /\ i + 1 \in 0..n /\ i + 1 \in 1..n
    BY <1>2
  <2>2. SumTo(f, i + 1) = SumTo(f, i) + f[i + 1] /\ SumTo(f, i) \in Int
    BY <2>1, SumStep, SumInt
  <2>3. CASE i + 1 <= k
    BY <2>1, <2>3
  <2>4. CASE ~(i + 1 <= k)
    <3>1. f[i + 1] = 0
      BY <2>1, <2>4
    <3>2. SumTo(f, i) = SumTo(f, k)
      <4>1. i <= k => i = k
        BY <2>1, <2>4
      <4> QED BY <1>2, <4>1
    <3> QED BY <2>1, <2>2, <3>1, <3>2
  <2> QED BY <2>3, <2>4
<1> HIDE DEF G
<1>3. \A i \in 0..n : i \in G
  BY <1>1, <1>2, SetInduction
<1>4. n \in G
  BY <1>3
<1> QED BY <1>4 DEF G

\* Two sums whose terms cancel from e on keep their total.
LEMMA SumsCancel ==
    ASSUME NEW f, NEW g, NEW n \in Nat, NEW e \in 0..n,
           \A i \in 1..n : f[i] \in Int /\ g[i] \in Int,
           \A i \in 1..n : e < i => f[i] + g[i] = 0
    PROVE  SumTo(f, n) + SumTo(g, n) = SumTo(f, e) + SumTo(g, e)
<1> DEFINE G == {i \in 0..n : i <= e \/ SumTo(f, i) + SumTo(g, i) = SumTo(f, e) + SumTo(g, e)}
<1>1. 0 \in G
  OBVIOUS
<1>2. ASSUME NEW i \in 0..n, i \in G, i < n PROVE i + 1 \in G
  <2>1. i \in Nat /\ i + 1 \in 0..n /\ i + 1 \in 1..n
    BY <1>2
  <2>2. /\ SumTo(f, i + 1) = SumTo(f, i) + f[i + 1] /\ SumTo(f, i) \in Int
        /\ SumTo(g, i + 1) = SumTo(g, i) + g[i + 1] /\ SumTo(g, i) \in Int
    BY <2>1, SumStep, SumInt
  <2>3. CASE i + 1 <= e
    BY <2>1, <2>3
  <2>4. CASE ~(i + 1 <= e)
    <3>1. f[i + 1] + g[i + 1] = 0 /\ f[i + 1] \in Int /\ g[i + 1] \in Int
      BY <2>1, <2>4
    <3>2. SumTo(f, i) + SumTo(g, i) = SumTo(f, e) + SumTo(g, e)
      <4>1. i <= e => i = e
        BY <2>1, <2>4
      <4> QED BY <1>2, <4>1
    <3>3. SumTo(f, i + 1) + SumTo(g, i + 1) = SumTo(f, i) + SumTo(g, i)
      BY <2>2, <3>1
    <3> QED BY <2>1, <3>2, <3>3
  <2> QED BY <2>3, <2>4
<1> HIDE DEF G
<1>3. \A i \in 0..n : i \in G
  BY <1>1, <1>2, SetInduction
<1>4. n \in G
  BY <1>3
<1> QED BY <1>4 DEF G

-----------------------------------------------------------------------------
(* The position *)

\* What the first k of the orders o leave at a broker b.
Terms(o, b) == [a \in DOMAIN o |-> IF o[a].effect = "OPEN" THEN b[a].filled ELSE 0 - b[a].filled]
Net(o, b, k) == SumTo(Terms(o, b), k)
PosAt(k) == Net(orders, broker, k)

\* The terms of a position.
LEMMA TermsAre ==
    ASSUME NEW o \in Seq(Order), Len(o) <= MaxAttempts, NEW b \in Snapshot
    PROVE  /\ Len(o) \in Nat
           /\ \A a \in 1..Len(o) :
                 /\ a \in Attempt /\ b[a].filled \in 0..MaxQty /\ b[a].filled \in Nat
                 /\ o[a].qty \in 1..MaxQty /\ o[a].effect \in {"OPEN", "CLOSE"}
                 /\ Terms(o, b)[a] = IF o[a].effect = "OPEN" THEN b[a].filled ELSE 0 - b[a].filled
                 /\ Terms(o, b)[a] \in Int
<1>1. Len(o) \in Nat /\ DOMAIN o = 1..Len(o)
  OBVIOUS
<1>2. ASSUME NEW a \in 1..Len(o)
      PROVE  /\ a \in Attempt /\ b[a].filled \in 0..MaxQty /\ b[a].filled \in Nat
             /\ o[a].qty \in 1..MaxQty /\ o[a].effect \in {"OPEN", "CLOSE"}
             /\ Terms(o, b)[a] = IF o[a].effect = "OPEN" THEN b[a].filled ELSE 0 - b[a].filled
             /\ Terms(o, b)[a] \in Int
  <2>1. a \in Attempt
    BY <1>1, BoundsAssumption DEF Attempt
  <2>2. b[a].filled \in 0..MaxQty /\ b[a].filled \in Nat
    BY <2>1, BoundsAssumption DEF Snapshot
  <2>3. o[a] \in Order
    OBVIOUS
  <2>4. Terms(o, b)[a] = IF o[a].effect = "OPEN" THEN b[a].filled ELSE 0 - b[a].filled
    BY <1>1 DEF Terms
  <2>5. Terms(o, b)[a] \in Int
    BY <2>2, <2>4
  <2> QED BY <2>1, <2>2, <2>3, <2>4, <2>5 DEF Order
<1> QED BY <1>1, <1>2

\* The position after each order follows from the one before.
LEMMA NetStep ==
    ASSUME NEW o \in Seq(Order), Len(o) <= MaxAttempts, NEW b \in Snapshot
    PROVE  /\ Net(o, b, 0) = 0
           /\ \A k \in 0..Len(o) : Net(o, b, k) \in Int
           /\ \A k \in 1..Len(o) :
                 Net(o, b, k) = Net(o, b, k - 1)
                                + (IF o[k].effect = "OPEN" THEN b[k].filled ELSE 0 - b[k].filled)
<1> DEFINE f == Terms(o, b)
<1>1. /\ Len(o) \in Nat
      /\ \A a \in 1..Len(o) :
            /\ f[a] = IF o[a].effect = "OPEN" THEN b[a].filled ELSE 0 - b[a].filled
            /\ f[a] \in Int
  BY TermsAre
<1>2. \A k : Net(o, b, k) = SumTo(f, k)
  BY DEF Net
<1> HIDE DEF f
<1>3. SumTo(f, 0) = 0
  BY <1>1, SumStep
<1>4. \A k \in 0..Len(o) : SumTo(f, k) \in Int
  BY <1>1, SumInt
<1>5. ASSUME NEW k \in 1..Len(o) PROVE SumTo(f, k) = SumTo(f, k - 1) + f[k]
  <2> PICK i \in Nat : i = k - 1
    BY <1>1
  <2>1. k = i + 1
    BY <1>1
  <2>2. SumTo(f, i + 1) = SumTo(f, i) + f[i + 1]
    BY SumStep
  <2> QED BY <2>1, <2>2
<1> QED BY <1>1, <1>2, <1>3, <1>4, <1>5

\* The position after k orders depends on those orders only.
LEMMA NetSame ==
    ASSUME NEW o \in Seq(Order), Len(o) <= MaxAttempts, NEW b \in Snapshot,
           NEW u \in Seq(Order), Len(u) <= MaxAttempts, NEW c \in Snapshot,
           NEW k \in 0..Len(o), k <= Len(u),
           \A a \in 1..k : u[a] = o[a] /\ c[a].filled = b[a].filled
    PROVE  Net(u, c, k) = Net(o, b, k)
<1>1. ASSUME NEW a \in 1..k PROVE Terms(u, c)[a] = Terms(o, b)[a]
  <2>1. a \in 1..Len(o) /\ a \in 1..Len(u) /\ Len(o) \in Nat /\ Len(u) \in Nat
    OBVIOUS
  <2>2. /\ Terms(o, b)[a] = IF o[a].effect = "OPEN" THEN b[a].filled ELSE 0 - b[a].filled
        /\ Terms(u, c)[a] = IF u[a].effect = "OPEN" THEN c[a].filled ELSE 0 - c[a].filled
    BY <2>1, TermsAre
  <2> QED BY <2>2
<1>2. k \in Nat
  OBVIOUS
<1>3. SumTo(Terms(u, c), k) = SumTo(Terms(o, b), k)
  BY <1>1, <1>2, SumSame
<1> QED BY <1>3 DEF Net

-----------------------------------------------------------------------------
(* The invariant *)

\* An OPEN starts from a flat position and a CLOSE closes no more than there is;
\* a scope without a reservation is flat, and what the unsent pass recorded was
\* never sent.
SettledInv ==
    /\ \A a \in attempts : ~IsClose(a) => PosAt(a - 1) = 0
    /\ \A a \in attempts : IsClose(a) => orders[a].qty <= PosAt(a - 1) /\ PosAt(a - 1) <= MaxQty
    /\ outstanding_reservations = {} => PosAt(Len(orders)) = 0
    /\ \A a \in ev.unsent : flow[a] = "halted"

\* Attempts follow each other in the log, and a close is over before the next
\* attempt is committed.
SeqInv ==
    \A a, r \in attempts : a < r =>
        /\ first_seq(a) < first_seq(r)
        /\ IsClose(a) => \A i \in RowsOf(a) : i < first_seq(r)

\* What a process read of the position still holds: a verified close fits, and the
\* close of a discharge left the scope flat.
Heavy == {"commit", "discharge", "discharge_commit"}
MemPos(m) ==
    LET j == m.job IN
    /\ j.pc = "commit" /\ m.epoch = epoch /\ j.op.effect = "CLOSE" /\ j.at.tip = tip
         => j.op.qty <= PosAt(Len(orders))
    /\ j.pc \in {"discharge", "discharge_commit"} => PosAt(j.a) = 0
    /\ j.pc = "discharge_commit" /\ j.at.tip = tip => j.a = Len(orders)
ProcPos(p) == \A m \in MemType : mem[p] = m => MemPos(m)

PosInv == SettledInv /\ SeqInv /\ \A p \in Procs : ProcPos(p)

\* The position follows from order to order.
LEMMA PosSteps ==
    ASSUME StoresTyped
    PROVE  /\ PosAt(0) = 0 /\ \A k \in 0..Len(orders) : PosAt(k) \in Int
           /\ \A a \in attempts :
                 /\ ~IsClose(a) => PosAt(a) = PosAt(a - 1) + broker[a].filled
                 /\ IsClose(a) => PosAt(a) = PosAt(a - 1) - broker[a].filled
                 /\ broker[a].filled \in Nat /\ orders[a].qty \in 1..MaxQty
                 /\ PosAt(a - 1) \in Int
<1>1. /\ orders \in Seq(Order) /\ Len(orders) <= MaxAttempts /\ broker \in Snapshot
      /\ attempts = 1..Len(orders) /\ Len(orders) \in Nat
  BY AttemptsAre DEF StoresTyped
<1>2. /\ PosAt(0) = 0 /\ \A k \in 0..Len(orders) : PosAt(k) \in Int
      /\ \A k \in 1..Len(orders) :
            PosAt(k) = PosAt(k - 1) + (IF orders[k].effect = "OPEN" THEN broker[k].filled
                                       ELSE 0 - broker[k].filled)
  BY <1>1, NetStep DEF PosAt
<1>3. ASSUME NEW a \in attempts
      PROVE  /\ ~IsClose(a) => PosAt(a) = PosAt(a - 1) + broker[a].filled
             /\ IsClose(a) => PosAt(a) = PosAt(a - 1) - broker[a].filled
             /\ broker[a].filled \in Nat /\ orders[a].qty \in 1..MaxQty
             /\ PosAt(a - 1) \in Int
  <2>1. /\ orders[a].effect \in {"OPEN", "CLOSE"} /\ broker[a].filled \in Nat
        /\ orders[a].qty \in 1..MaxQty
    BY <1>1, TermsAre
  <2>2. a - 1 \in 0..Len(orders)
    BY <1>1
  <2>3. PosAt(a - 1) \in Int
    BY <1>2, <2>2
  <2>4. PosAt(a) = PosAt(a - 1) + (IF orders[a].effect = "OPEN" THEN broker[a].filled
                                   ELSE 0 - broker[a].filled)
    BY <1>1, <1>2
  <2>5. ~IsClose(a) => PosAt(a) = PosAt(a - 1) + broker[a].filled
    BY <2>1, <2>4 DEF IsClose
  <2>6. IsClose(a) => PosAt(a) = PosAt(a - 1) - broker[a].filled
    BY <2>1, <2>3, <2>4 DEF IsClose
  <2> QED BY <2>1, <2>3, <2>5, <2>6
<1> QED BY <1>2, <1>3

\* The position is never short, and never more than one entry.
LEMMA PosBounds ==
    ASSUME IInv, PosInv
    PROVE  PosAt(Len(orders)) \in 0..MaxQty
<1>1. StoresTyped /\ BrokerInv /\ SettledInv
  BY DEF IInv, TInv, StoreInv, PosInv
<1>2. Len(orders) \in Nat /\ attempts = 1..Len(orders) /\ MaxQty \in Nat
  BY <1>1, AttemptsAre, BoundsAssumption
<1> PICK n \in Nat : n = Len(orders)
  BY <1>2
<1>3. CASE n = 0
  <2>1. PosAt(0) = 0
    BY <1>1, PosSteps
  <2> QED BY <1>2, <1>3, <2>1
<1>4. CASE n # 0
  <2>1. n \in attempts
    BY <1>2, <1>4
  <2>2. /\ ~IsClose(n) => PosAt(n) = PosAt(n - 1) + broker[n].filled
        /\ IsClose(n) => PosAt(n) = PosAt(n - 1) - broker[n].filled
        /\ broker[n].filled \in Nat /\ orders[n].qty \in 1..MaxQty /\ PosAt(n - 1) \in Int
    BY <1>1, <2>1, PosSteps
  <2>3. broker[n].filled <= orders[n].qty
    BY <1>1, <2>1 DEF BrokerInv
  <2>4. /\ ~IsClose(n) => PosAt(n - 1) = 0
        /\ IsClose(n) => orders[n].qty <= PosAt(n - 1) /\ PosAt(n - 1) <= MaxQty
    BY <1>1, <2>1 DEF SettledInv
  <2>5. CASE IsClose(n)
    BY <1>2, <2>2, <2>3, <2>4, <2>5
  <2>6. CASE ~IsClose(n)
    BY <1>2, <2>2, <2>3, <2>4, <2>6
  <2> QED BY <2>5, <2>6
<1> QED BY <1>3, <1>4

\* An attempt that may still fill is the unbound one, the newest.
LEMMA MovingIsLast ==
    ASSUME IInv, NEW a \in attempts, ~FullFill(a), flow[a] # "halted"
    PROVE  /\ Unbound(a) /\ a = Len(orders)
           /\ \A e \in attempts : outstanding_reservations = {e} => ~Consumed(e)
           /\ outstanding_reservations # {}
<1>1. StoresTyped /\ RowInv /\ ReleasedInv /\ UnboundInv
  BY DEF IInv, TInv, StoreInv
<1>2. ~Released(a) /\ ~committed_command("release", a)
  BY <1>1 DEF ReleasedInv
<1>3. Unbound(a) /\ a = Len(orders)
  BY <1>2, UnboundIs
<1>4. a \in outstanding_reservations /\ ~Consumed(a)
  BY <1>3 DEF outstanding_reservations, Unbound, Consumed
<1> QED BY <1>3, <1>4

-----------------------------------------------------------------------------
(* Steps that append nothing to the log *)

\* The position after k orders stays if what they filled stays.
LEMMA PosKeeps ==
    ASSUME StoresTyped, StoresTyped', NEW k \in 0..Len(orders), Len(orders) <= Len(orders'),
           \A a \in 1..k : orders'[a] = orders[a] /\ broker'[a].filled = broker[a].filled
    PROVE  PosAt(k)' = PosAt(k)
<1>1. /\ orders \in Seq(Order) /\ Len(orders) <= MaxAttempts /\ broker \in Snapshot
      /\ orders' \in Seq(Order) /\ Len(orders') <= MaxAttempts /\ broker' \in Snapshot
      /\ Len(orders) \in Nat /\ Len(orders') \in Nat
  BY AttemptsAre, AttemptsAreThen DEF StoresTyped
<1>2. k <= Len(orders')
  BY <1>1
<1>3. Net(orders', broker', k) = Net(orders, broker, k)
  BY <1>1, <1>2, NetSame
<1> QED BY <1>3 DEF PosAt

\* A step in which only an attempt that may still fill fills.
LEMMA PosFrame ==
    ASSUME IInv, IInv', PosInv, UNCHANGED <<log, orders>>, epoch <= epoch',
           \A a \in Attempt : broker'[a].filled # broker[a].filled =>
              a \in attempts /\ ~FullFill(a) /\ flow[a] # "halted",
           \A a \in ev'.unsent : flow'[a] = "halted",
           \A q \in Procs : \A m \in MemType : mem'[q] = m => mem[q] = m \/ MemPos(m)'
    PROVE  PosInv'
<1>1. StoresTyped /\ StoresTyped' /\ SettledInv /\ SeqInv /\ epoch \in Nat /\ epoch' \in Nat
  BY BoundsAssumption DEF IInv, TInv, PosInv, StoresTyped
<1>2. /\ attempts' = attempts /\ tip' = tip
      /\ outstanding_reservations' = outstanding_reservations
      /\ \A r : RowsOf(r)' = RowsOf(r) /\ first_seq(r)' = first_seq(r) /\ (IsClose(r)' <=> IsClose(r))
  BY LogSame DEF IsClose
<1>3. Len(orders) \in Nat /\ attempts = 1..Len(orders) /\ attempts \subseteq Attempt
  BY <1>1, AttemptsAre
<1>4. ASSUME NEW k \in 0..Len(orders),
             \A a \in 1..k : a = Len(orders) => broker'[a].filled = broker[a].filled
      PROVE  PosAt(k)' = PosAt(k)
  <2>1. ASSUME NEW a \in 1..k PROVE orders'[a] = orders[a] /\ broker'[a].filled = broker[a].filled
    <3>1. a \in attempts /\ a \in Attempt
      BY <1>3
    <3> QED BY <1>4, <3>1, MovingIsLast
  <2>2. Len(orders) <= Len(orders')
    BY <1>3
  <2> QED BY <1>1, <2>1, <2>2, PosKeeps
<1>5. ASSUME NEW a \in attempts PROVE PosAt(a - 1)' = PosAt(a - 1)
  <2> PICK k \in 0..Len(orders) : k = a - 1
    BY <1>3
  <2>1. \A b \in 1..k : b # Len(orders)
    BY <1>3
  <2>2. PosAt(k)' = PosAt(k)
    BY <1>4, <2>1
  <2> QED BY <2>2
<1>6. ASSUME \A a \in attempts : a = Len(orders) => FullFill(a) \/ flow[a] = "halted" \/ ~Unbound(a)
      PROVE  PosAt(Len(orders))' = PosAt(Len(orders))
  <2> PICK k \in 0..Len(orders) : k = Len(orders)
    BY <1>3
  <2>1. \A a \in 1..k : a = Len(orders) => broker'[a].filled = broker[a].filled
    BY <1>3, <1>6, MovingIsLast
  <2>2. PosAt(k)' = PosAt(k)
    BY <1>4, <2>1
  <2> QED BY <2>2 DEF PosAt
<1>7. SettledInv'
  <2>1. outstanding_reservations = {} => PosAt(Len(orders))' = PosAt(Len(orders))
    BY <1>6, MovingIsLast
  <2>2. ASSUME NEW a \in attempts', ~IsClose(a)' PROVE PosAt(a - 1)' = 0
    BY <1>1, <1>2, <1>5, <2>2 DEF SettledInv
  <2>3. ASSUME NEW a \in attempts', IsClose(a)'
        PROVE  orders'[a].qty <= PosAt(a - 1)' /\ PosAt(a - 1)' <= MaxQty
    BY <1>1, <1>2, <1>5, <2>3 DEF SettledInv
  <2>4. outstanding_reservations' = {} => PosAt(Len(orders))' = 0
    BY <1>1, <1>2, <2>1 DEF SettledInv
  <2> QED BY <2>2, <2>3, <2>4 DEF SettledInv
<1>8. SeqInv'
  BY <1>1, <1>2 DEF SeqInv
<1>9. ASSUME NEW q \in Procs, NEW m \in MemType, mem'[q] = m, mem[q] = m PROVE MemPos(m)'
  <2>1. MemInv(m) /\ MemPos(m)
    BY <1>9 DEF IInv, ProcInv, PosInv, ProcPos
  <2>2. ASSUME m.job.pc = "commit", m.epoch = epoch', m.job.op.effect = "CLOSE", m.job.at.tip = tip'
        PROVE  m.job.op.qty <= PosAt(Len(orders))'
    <3>1. m.epoch = epoch
      <4>1. m.epoch \in 1..epoch
        BY <2>1, <2>2 DEF MemInv, JobInv
      <4> QED BY <1>1, <2>2, <4>1
    <3>2. \E e \in attempts : outstanding_reservations = {e} /\ Consumed(e)
      BY <1>2, <2>1, <2>2, <3>1 DEF MemInv, CommitInv
    <3>3. PosAt(Len(orders))' = PosAt(Len(orders))
      BY <1>6, <3>2, MovingIsLast
    <3> QED BY <1>2, <2>1, <2>2, <3>1, <3>3 DEF MemPos
  <2>3. ASSUME m.job.pc \in {"discharge", "discharge_commit"} PROVE PosAt(m.job.a)' = 0
    <3>1. m.job.a \in attempts /\ FullFill(m.job.a)
      BY <2>1, <2>3 DEF MemInv, JobInv, Filling, After, Discharging
    <3> PICK k \in 0..Len(orders) : k = m.job.a
      BY <1>3, <3>1
    <3>2. \A a \in 1..k : a = Len(orders) => a = k
      BY <1>3
    <3>3. PosAt(k)' = PosAt(k)
      BY <1>3, <1>4, <3>1, <3>2
    <3>4. PosAt(k) = 0
      BY <2>1, <2>3 DEF MemPos
    <3> QED BY <3>3, <3>4
  <2>4. m.job.pc = "discharge_commit" /\ m.job.at.tip = tip' => m.job.a = Len(orders')
    BY <1>2, <2>1 DEF MemPos
  <2> QED BY <2>2, <2>3, <2>4 DEF MemPos
<1>10. ASSUME NEW q \in Procs PROVE ProcPos(q)'
  BY <1>9 DEF ProcPos
<1> QED BY <1>7, <1>8, <1>10 DEF PosInv

\* Only p changes its memory, and goes on with nothing that rests on the position.
Lightly(p) ==
    /\ \A q \in Procs : q # p => mem'[q] = mem[q]
    /\ mem'[p].job.pc \notin Heavy

\* Such a step that changes no order either.
LEMMA LightKeeps ==
    ASSUME IInv, IInv', PosInv, UNCHANGED <<log, orders>>, epoch <= epoch',
           \A a \in Attempt : broker'[a].filled = broker[a].filled,
           \A a \in ev'.unsent : flow'[a] = "halted", NEW p, Lightly(p)
    PROVE  PosInv'
<1>1. ASSUME NEW q \in Procs, NEW m \in MemType, mem'[q] = m PROVE mem[q] = m \/ MemPos(m)'
  BY <1>1 DEF Lightly, MemPos, Heavy
<1> QED BY <1>1, PosFrame

\* What Go, Goto and Take make of the memory.
LEMMA Goes ==
    ASSUME IInv, NEW p \in Procs
    PROVE  /\ \A j : Go(p, j) \/ Take(p, j) =>
                 mem'[p].job = j /\ \A q \in Procs : q # p => mem'[q] = mem[q]
           /\ \A pc : Goto(p, pc) =>
                 mem'[p].job.pc = pc /\ \A q \in Procs : q # p => mem'[q] = mem[q]
           /\ mem[p] \in MemType /\ mem \in [Procs -> MemType]
<1>1. mem \in [Procs -> MemType] /\ mem[p] \in MemType
  BY DEF IInv, TInv
<1>2. ASSUME NEW j, Go(p, j) \/ Take(p, j)
      PROVE  mem'[p].job = j /\ \A q \in Procs : q # p => mem'[q] = mem[q]
  <2>1. CASE Go(p, j)
    BY <1>1, <2>1 DEF Go, MemType
  <2>2. CASE Take(p, j)
    <3> DEFINE k == [mem EXCEPT ![p].job = j]
    <3>1. k[p].job = j /\ DOMAIN k = Procs /\ \A q \in Procs : q # p => k[q] = mem[q]
      BY <1>1 DEF MemType
    <3>2. mem' = [k EXCEPT ![p].poll.todo = Tail(mem[p].poll.todo)]
      BY <2>2 DEF Take
    <3> HIDE DEF k
    <3>3. mem'[p].job = k[p].job /\ \A q \in Procs : q # p => mem'[q] = k[q]
      BY <3>1, <3>2
    <3> QED BY <3>1, <3>3
  <2> QED BY <1>2, <2>1, <2>2
<1>3. ASSUME NEW pc, Goto(p, pc)
      PROVE  mem'[p].job.pc = pc /\ \A q \in Procs : q # p => mem'[q] = mem[q]
  <2>1. Go(p, [job(p) EXCEPT !.pc = pc])
    BY <1>3 DEF Goto
  <2>2. [job(p) EXCEPT !.pc = pc].pc = pc
    BY <1>1 DEF job, MemType, JobType
  <2> QED BY <1>2, <2>1, <2>2
<1> QED BY <1>1, <1>2, <1>3

\* Such a step that leaves the orders and what was recorded as unsent alone.
LEMMA QuietKeeps ==
    ASSUME IInv, IInv', PosInv, UNCHANGED <<log, orders, flow, broker, epoch>>,
           ev'.unsent = ev.unsent, NEW p, Lightly(p)
    PROVE  PosInv'
<1>1. epoch <= epoch'
  BY BoundsAssumption DEF IInv, TInv, StoresTyped
<1>2. \A a \in ev'.unsent : flow'[a] = "halted"
  BY DEF PosInv, SettledInv
<1>3. \A a \in Attempt : broker'[a].filled = broker[a].filled
  OBVIOUS
<1> QED BY <1>1, <1>2, <1>3, LightKeeps

\* A row of another kind leaves those of the unsent pass alone.
LEMMA UnsentKept ==
    ASSUME IInv
    PROVE  /\ \A X : ev' = [ev EXCEPT !.discarded = X] => ev'.unsent = ev.unsent
           /\ \A X : ev' = [ev EXCEPT !.projected = X] => ev'.unsent = ev.unsent
           /\ \A X : ev' = [ev EXCEPT !.obligations = X] => ev'.unsent = ev.unsent
           /\ \A X : ev' = [ev EXCEPT !.proofs = X] => ev'.unsent = ev.unsent
           /\ \A X : ev' = [ev EXCEPT !.witness = X] => ev'.unsent = ev.unsent
           /\ \A X : ev' = [ev EXCEPT !.pending = X] => ev'.unsent = ev.unsent
           /\ \A X : ev' = [ev EXCEPT !.links = X] => ev'.unsent = ev.unsent
           /\ \A X : ev' = [ev EXCEPT !.intents = X] => ev'.unsent = ev.unsent
           /\ \A X : ev' = [ev EXCEPT !.marks = X] => ev'.unsent = ev.unsent
<1>1. ev \in EvType
  BY DEF IInv, TInv, StoresTyped
<1> QED BY <1>1 DEF EvType

\* Where the jobs that rest go on.
LEMMA LightJobs ==
    /\ Idle.pc \notin Heavy /\ NextItem.pc \notin Heavy
    /\ \A a : [Idle EXCEPT !.pc = "unsent", !.a = a].pc \notin Heavy
    /\ \A a : [Idle EXCEPT !.pc = "obligation", !.a = a, !.op = "fill"].pc \notin Heavy
    /\ \A a : [Idle EXCEPT !.pc = "witness", !.a = a, !.op = "fill"].pc \notin Heavy
    /\ [Idle EXCEPT !.pc = "turn"].pc \notin Heavy /\ [Idle EXCEPT !.pc = "down"].pc \notin Heavy
BY DEF Idle, NextItem, Heavy

\* The steps that only move on.
LEMMA LightMoves ==
    ASSUME IInv, IInv', PosInv, NEW p \in Procs,
           \/ CommitRefused(p) \/ RecordAnswer(p) \/ EndTurn(p) \/ UnsentRefused(p)
           \/ StartApply(p) \/ ReleaseRefused(p)
    PROVE  PosInv'
<1>1. UNCHANGED <<log, orders, flow, broker, epoch, ev>>
  BY DEF CommitRefused, RecordAnswer, EndTurn, UnsentRefused, StartApply, ReleaseRefused
<1>2. Lightly(p)
  <2>1. CASE CommitRefused(p) \/ RecordAnswer(p)
    BY <2>1, Goes DEF CommitRefused, RecordAnswer, Lightly, Heavy
  <2>2. CASE StartApply(p)
    BY <2>2, Goes DEF StartApply, Lightly, Heavy
  <2>3. CASE EndTurn(p)
    <3>1. \E j : j.pc \notin Heavy /\ Go(p, j)
      BY <2>3, LightJobs DEF EndTurn
    <3> QED BY <3>1, Goes DEF Lightly
  <2>4. CASE UnsentRefused(p)
    BY <2>4, Goes, LightJobs DEF UnsentRefused, Lightly
  <2>5. CASE ReleaseRefused(p)
    BY <2>5, Goes, LightJobs DEF ReleaseRefused, Lightly
  <2> QED BY <2>1, <2>2, <2>3, <2>4, <2>5
<1> QED BY <1>1, <1>2, QuietKeeps

\* The steps that record a row.
LEMMA LightRows ==
    ASSUME IInv, IInv', PosInv, NEW p \in Procs,
           \/ RecordObligation(p) \/ RecordProof(p) \/ RecordWitness(p)
           \/ PersistPending(p) \/ PersistLink(p)
    PROVE  PosInv'
<1>1. /\ UNCHANGED <<log, orders, flow, broker, epoch>>
      /\ \E pc : pc \notin Heavy /\ Goto(p, pc)
  BY DEF RecordObligation, RecordProof, RecordWitness, PersistPending, PersistLink, Heavy
<1>2. ev'.unsent = ev.unsent
  <2>1. CASE RecordObligation(p)
    BY <2>1, UnsentKept DEF RecordObligation
  <2>2. CASE RecordProof(p)
    BY <2>2, UnsentKept DEF RecordProof
  <2>3. CASE RecordWitness(p)
    BY <2>3, UnsentKept DEF RecordWitness
  <2>4. CASE PersistPending(p)
    BY <2>4, UnsentKept DEF PersistPending
  <2>5. CASE PersistLink(p)
    BY <2>5, UnsentKept DEF PersistLink
  <2> QED BY <2>1, <2>2, <2>3, <2>4, <2>5
<1>3. Lightly(p)
  BY <1>1, Goes DEF Lightly
<1> QED BY <1>1, <1>2, <1>3, QuietKeeps

\* The items of a plan that are taken.
LEMMA LightItems ==
    ASSUME IInv, IInv', PosInv, NEW p \in Procs, Emit(p) \/ Reproject(p) \/ Resume(p)
    PROVE  PosInv'
<1>1. UNCHANGED <<log, orders, flow, broker, epoch>>
  BY DEF Emit, Reproject, Resume
<1>2. ev'.unsent = ev.unsent
  <2>1. CASE Emit(p) \/ Reproject(p)
    BY <2>1 DEF Emit, Reproject
  <2>2. CASE Resume(p)
    <3>1. ev' = ev \/ \E X : ev' = [ev EXCEPT !.marks = X]
      BY <2>2 DEF Resume
    <3> QED BY <3>1, UnsentKept
  <2> QED BY <2>1, <2>2
<1>3. \E j : j.pc \notin Heavy /\ Take(p, j)
  <2>1. CASE Emit(p)
    BY <2>1, LightJobs DEF Emit
  <2>2. CASE Reproject(p)
    BY <2>2, LightJobs DEF Reproject
  <2>3. CASE Resume(p)
    <3>1. \A a, e, s : [pc |-> "history", a |-> a, entry |-> e, op |-> "resume",
                        at |-> None, sig |-> s].pc \notin Heavy
      BY DEF Heavy
    <3> QED BY <2>3, <3>1, LightJobs DEF Resume
  <2> QED BY <2>1, <2>2, <2>3
<1>4. Lightly(p)
  BY <1>3, Goes DEF Lightly
<1> QED BY <1>1, <1>2, <1>4, QuietKeeps

\* The consumer's steps before it touches the log.
LEMMA LightConsumes ==
    ASSUME IInv, IInv', PosInv, NEW p \in Procs, Consume(p) \/ ReleaseIntent(p) \/ ProjectRelease(p)
    PROVE  PosInv'
<1> PICK m \in MemType : mem[p] = m
  BY DEF IInv, TInv
<1>1. UNCHANGED <<log, orders, flow, broker, epoch>>
  BY DEF Consume, ReleaseIntent, ProjectRelease
<1>2. ev'.unsent = ev.unsent
  <2>1. CASE Consume(p)
    BY <2>1 DEF Consume
  <2>2. CASE ReleaseIntent(p)
    <3>1. ev' = ev \/ \E X : ev' = [ev EXCEPT !.intents = X]
      BY <2>2 DEF ReleaseIntent
    <3> QED BY <3>1, UnsentKept
  <2>3. CASE ProjectRelease(p)
    <3>1. ev' = ev \/ \E X : ev' = [ev EXCEPT !.projected = X]
      BY <2>3 DEF ProjectRelease
    <3> QED BY <3>1, UnsentKept
  <2> QED BY <2>1, <2>2, <2>3
<1>3. /\ \A e : [m.job EXCEPT !.pc = "intent"].pc \notin Heavy
                /\ [m.job EXCEPT !.pc = "pending", !.entry = e].pc \notin Heavy
      /\ \A w : [m.job EXCEPT !.pc = "release", !.at = w].pc \notin Heavy
  BY DEF MemType, JobType, Heavy
<1>4. Lightly(p)
  <2>1. CASE Consume(p)
    <3>1. \E j : j.pc \notin Heavy /\ Go(p, j)
      BY <1>3, <2>1, LightJobs DEF Consume, job
    <3> QED BY <3>1, Goes DEF Lightly
  <2>2. CASE ReleaseIntent(p)
    <3>1. \E j : j.pc \notin Heavy /\ Go(p, j)
      BY <1>3, <2>2, LightJobs DEF ReleaseIntent, job
    <3> QED BY <3>1, Goes DEF Lightly
  <2>3. CASE ProjectRelease(p)
    <3>1. CASE Go(p, NextItem)
      BY <3>1, Goes, LightJobs DEF Lightly
    <3>2. CASE mem' = [mem EXCEPT ![p].held = None, ![p].job = NextItem]
      <4> DEFINE k == [mem EXCEPT ![p].held = None]
      <4>1. /\ DOMAIN k = Procs /\ \A q \in Procs : q # p => k[q] = mem[q]
            /\ mem' = [k EXCEPT ![p] = [k[p] EXCEPT !.job = NextItem]] /\ "job" \in DOMAIN k[p]
        BY <3>2, Goes DEF MemType
      <4> HIDE DEF k
      <4>2. mem'[p].job = NextItem /\ \A q \in Procs : q # p => mem'[q] = mem[q]
        BY <4>1
      <4> QED BY <4>2, LightJobs DEF Lightly
    <3> QED BY <2>3, <3>1, <3>2 DEF ProjectRelease
  <2> QED BY <2>1, <2>2, <2>3
<1> QED BY <1>1, <1>2, <1>4, QuietKeeps

\* A discharge that did not commit.
LEMMA LightRefusal ==
    ASSUME IInv, IInv', PosInv, NEW p \in Procs, AfterRefusal(p),
           UNCHANGED <<log, orders, flow, broker, epoch>>
    PROVE  PosInv'
<1>1. ev'.unsent = ev.unsent
  <2>1. ev' = ev \/ \E X : ev' = [ev EXCEPT !.marks = X]
    BY DEF AfterRefusal
  <2> QED BY <2>1, UnsentKept
<1>2. Lightly(p)
  <2>1. CASE Go(p, NextItem)
    BY <2>1, Goes, LightJobs DEF Lightly
  <2>2. CASE Goto(p, "project")
    BY <2>2, Goes DEF Lightly, Heavy
  <2> QED BY <2>1, <2>2 DEF AfterRefusal
<1> QED BY <1>1, <1>2, QuietKeeps

\* The plan is read, and left.
LEMMA LightPolls ==
    ASSUME IInv, IInv', PosInv, NEW p \in Procs, Poll(p) \/ EndApply(p)
    PROVE  PosInv'
<1>1. UNCHANGED <<log, orders, flow, broker, epoch, ev>>
  BY DEF Poll, EndApply
<1>2. Lightly(p)
  <2>1. CASE Poll(p)
    <3>1. \E x : mem' = [mem EXCEPT ![p].poll = x]
      BY <2>1 DEF Poll
    <3>2. mem'[p].job = mem[p].job /\ \A q \in Procs : q # p => mem'[q] = mem[q]
      BY <3>1, Goes DEF MemType
    <3>3. mem[p].job.pc = "idle"
      BY <2>1 DEF Poll, At, job
    <3> QED BY <3>2, <3>3 DEF Lightly, Heavy
  <2>2. CASE EndApply(p)
    <3> DEFINE k == [mem EXCEPT ![p].poll = None]
               j == [Idle EXCEPT !.pc = "turn"]
    <3>1. /\ DOMAIN k = Procs /\ \A q \in Procs : q # p => k[q] = mem[q]
          /\ mem' = [k EXCEPT ![p] = [k[p] EXCEPT !.job = j]] /\ "job" \in DOMAIN k[p]
      BY <2>2, Goes DEF MemType, EndApply
    <3>2. j.pc \notin Heavy
      BY LightJobs
    <3> HIDE DEF k, j
    <3>3. mem'[p].job = j /\ \A q \in Procs : q # p => mem'[q] = mem[q]
      BY <3>1
    <3> QED BY <3>2, <3>3 DEF Lightly
  <2> QED BY <2>1, <2>2
<1> QED BY <1>1, <1>2, QuietKeeps

\* The unsent pass records what it did.
LEMMA LightUnsent ==
    ASSUME IInv, IInv', PosInv, NEW p \in Procs, UnsentDiscard(p) \/ UnsentIntent(p)
    PROVE  PosInv'
<1>1. CASE UnsentDiscard(p)
  <2>1. UNCHANGED <<log, orders, flow, broker, epoch>>
    BY <1>1 DEF UnsentDiscard
  <2>2. ev'.unsent = ev.unsent
    BY <1>1, UnsentKept DEF UnsentDiscard
  <2>3. Lightly(p)
    <3> DEFINE k == [mem EXCEPT ![p].held = None]
    <3>1. /\ DOMAIN k = Procs /\ \A q \in Procs : q # p => k[q] = mem[q]
          /\ mem' = [k EXCEPT ![p] = [k[p] EXCEPT !.job = [k[p].job EXCEPT !.pc = "unsent_intent"]]]
          /\ "job" \in DOMAIN k[p] /\ "pc" \in DOMAIN k[p].job
      BY <1>1, Goes DEF MemType, JobType, UnsentDiscard
    <3> HIDE DEF k
    <3>2. mem'[p].job.pc = "unsent_intent" /\ \A q \in Procs : q # p => mem'[q] = mem[q]
      BY <3>1
    <3> QED BY <3>2 DEF Lightly, Heavy
  <2> QED BY <2>1, <2>2, <2>3, QuietKeeps
<1>2. CASE UnsentIntent(p)
  <2> PICK m \in MemType : mem[p] = m
    BY DEF IInv, TInv
  <2>1. UNCHANGED <<log, orders, flow, broker, epoch>> /\ Go(p, Idle) /\ m.job.pc = "unsent_intent"
    BY <1>2 DEF UnsentIntent, At, job
  <2>2. ev'.unsent = ev.unsent \cup {m.job.a}
    BY <1>2 DEF UnsentIntent, job, IInv, TInv, StoresTyped, EvType
  <2>3. flow[m.job.a] = "halted"
    BY <2>1 DEF IInv, ProcInv, MemInv, JobInv, Unsent
  <2>4. \A a \in ev'.unsent : flow'[a] = "halted"
    BY <2>1, <2>2, <2>3 DEF PosInv, SettledInv
  <2>5. epoch <= epoch' /\ \A a \in Attempt : broker'[a].filled = broker[a].filled
    BY <2>1, BoundsAssumption DEF IInv, TInv, StoresTyped
  <2>6. Lightly(p)
    BY <2>1, Goes, LightJobs DEF Lightly
  <2> QED BY <2>1, <2>4, <2>5, <2>6, LightKeeps
<1> QED BY <1>1, <1>2

\* A process starts.
LEMMA LightBoot ==
    ASSUME IInv, IInv', PosInv, NEW p \in Procs, Boot(p)
    PROVE  PosInv'
<1>1. UNCHANGED <<log, orders, flow, broker, ev>> /\ epoch' = epoch + 1
  BY DEF Boot
<1>2. epoch <= epoch' /\ \A a \in Attempt : broker'[a].filled = broker[a].filled
  BY <1>1, BoundsAssumption DEF IInv, TInv, StoresTyped
<1>3. \A a \in ev'.unsent : flow'[a] = "halted"
  BY <1>1 DEF PosInv, SettledInv
<1>4. Lightly(p)
  <2>1. mem'[p].job = [Idle EXCEPT !.pc = "turn"] /\ \A q \in Procs : q # p => mem'[q] = mem[q]
    BY Goes DEF Boot
  <2> QED BY <2>1, LightJobs DEF Lightly
<1> QED BY <1>1, <1>2, <1>3, <1>4, LightKeeps

\* An order that nothing was sent of has filled nothing, whatever its flow ends with.
LEMMA FlowKeeps ==
    ASSUME IInv, IInv', PosInv, NEW p \in Procs, NEW m \in MemType, mem[p] = m, m.job.pc = "flow",
           UNCHANGED <<log, orders, epoch, ev>>, Lightly(p),
           \A a \in attempts : a # m.job.a => flow'[a] = flow[a],
           \A a \in Attempt : a # m.job.a => broker'[a] = broker[a],
           broker'[m.job.a].filled = 0
    PROVE  PosInv'
<1>1. /\ m.job.a \in attempts /\ flow[m.job.a] = "open" /\ broker[m.job.a] = NoOrder
  BY DEF IInv, ProcInv, MemInv, JobInv, Sending
<1>2. \A a \in Attempt : broker'[a].filled = broker[a].filled
  BY <1>1 DEF NoOrder
<1>3. epoch <= epoch' /\ ev.unsent \subseteq attempts
  BY BoundsAssumption DEF IInv, TInv, StoresTyped, StoreInv, EvInv
<1>4. \A a \in ev'.unsent : flow'[a] = "halted"
  BY <1>1, <1>3 DEF PosInv, SettledInv
<1> QED BY <1>2, <1>3, <1>4, LightKeeps

\* A process dies, while it was sending or not.
LEMMA LightCrash ==
    ASSUME IInv, IInv', PosInv, NEW p \in Procs, Crash(p)
    PROVE  PosInv'
<1> PICK m \in MemType : mem[p] = m
  BY DEF IInv, TInv
<1>1. UNCHANGED <<log, orders, flow, epoch, ev>>
  BY DEF Crash
<1>2. Lightly(p)
  <2>1. mem'[p] = Down /\ \A q \in Procs : q # p => mem'[q] = mem[q]
    BY Goes DEF Crash
  <2>2. Down.job = [Idle EXCEPT !.pc = "down"]
    BY DEF Down
  <2> QED BY <2>1, <2>2, LightJobs DEF Lightly
<1>3. CASE broker' = broker
  BY <1>1, <1>2, <1>3, QuietKeeps
<1>4. CASE broker' # broker
  <2>1. /\ m.job.pc = "flow"
        /\ broker' = [broker EXCEPT ![m.job.a] = [seen |-> TRUE, live |-> TRUE, filled |-> 0]]
    BY <1>4 DEF Crash, At, job
  <2>2. m.job.a \in attempts /\ attempts \subseteq Attempt /\ broker \in Snapshot
    BY <2>1, AttemptsAre DEF IInv, TInv, StoresTyped, ProcInv, MemInv, JobInv, Sending
  <2>3. broker'[m.job.a].filled = 0 /\ \A a \in Attempt : a # m.job.a => broker'[a] = broker[a]
    BY <2>1, <2>2 DEF Snapshot
  <2> QED BY <1>1, <1>2, <2>1, <2>3, FlowKeeps
<1> QED BY <1>3, <1>4

\* A flow ends.
LEMMA LightFlow ==
    ASSUME IInv, IInv', PosInv, NEW p \in Procs, FlowHalts(p) \/ FlowSends(p) \/ FlowRaises(p)
    PROVE  PosInv'
<1> PICK m \in MemType : mem[p] = m
  BY DEF IInv, TInv
<1> PICK a : a = m.job.a
  OBVIOUS
<1>1. m.job.pc = "flow" /\ UNCHANGED <<log, orders, epoch, ev>>
  BY DEF FlowHalts, FlowSends, FlowRaises, At, job
<1>2. /\ a \in attempts /\ a \in Attempt /\ broker[a] = NoOrder
      /\ broker \in Snapshot /\ DOMAIN flow = attempts
  BY <1>1, AttemptsAre DEF IInv, TInv, StoresTyped, ProcInv, MemInv, JobInv, Sending
<1>3. \A b \in attempts : b # a => flow'[b] = flow[b]
  <2>1. \E s : flow' = [flow EXCEPT ![a] = s]
    BY DEF FlowHalts, FlowSends, FlowRaises, job
  <2> QED BY <1>2, <2>1
<1>4. broker'[a].filled = 0 /\ \A b \in Attempt : b # a => broker'[b] = broker[b]
  <2>1. CASE FlowHalts(p)
    BY <1>2, <2>1 DEF FlowHalts, NoOrder
  <2>2. CASE FlowSends(p) \/ FlowRaises(p)
    <3>1. PICK x \in BOOLEAN : broker' = [broker EXCEPT ![a].seen = x, ![a].live = x]
      BY <2>2 DEF FlowSends, FlowRaises, job
    <3> DEFINE k == [broker EXCEPT ![a].seen = x]
    <3>2. /\ DOMAIN k = Attempt /\ k[a].filled = 0 /\ DOMAIN k[a] = {"seen", "live", "filled"}
          /\ \A b \in Attempt : b # a => k[b] = broker[b]
      <4>1. k[a] = [broker[a] EXCEPT !.seen = x] /\ DOMAIN k = Attempt
            /\ \A b \in Attempt : b # a => k[b] = broker[b]
        BY <1>2 DEF Snapshot
      <4>2. DOMAIN broker[a] = {"seen", "live", "filled"} /\ broker[a].filled = 0
        BY <1>2 DEF NoOrder
      <4> HIDE DEF k
      <4> QED BY <4>1, <4>2
    <3>3. broker' = [k EXCEPT ![a] = [k[a] EXCEPT !.live = x]]
      BY <1>2, <3>1 DEF Snapshot
    <3> HIDE DEF k
    <3> QED BY <1>2, <3>2, <3>3
  <2> QED BY <2>1, <2>2
<1>5. Lightly(p)
  <2>1. CASE FlowHalts(p)
    BY <2>1, Goes DEF FlowHalts, Lightly, Heavy
  <2>2. CASE FlowSends(p) \/ FlowRaises(p)
    <3>1. PICK pc \in {"answer", "turn"} : mem' = [mem EXCEPT ![p].job.pc = pc, ![p].held.sent = TRUE]
      BY <2>2 DEF FlowSends, FlowRaises
    <3> DEFINE k == [mem EXCEPT ![p].job.pc = pc]
    <3>2. /\ DOMAIN k = Procs /\ k[p].job.pc = pc /\ \A q \in Procs : q # p => k[q] = mem[q]
      BY Goes DEF MemType, JobType
    <3>3. mem' = [k EXCEPT ![p].held.sent = TRUE]
      BY <3>1
    <3> HIDE DEF k
    <3>4. mem'[p].job = k[p].job /\ \A q \in Procs : q # p => mem'[q] = k[q]
      BY <3>2, <3>3
    <3> QED BY <3>2, <3>4 DEF Lightly, Heavy
  <2> QED BY <2>1, <2>2
<1> QED BY <1>1, <1>3, <1>4, <1>5, FlowKeeps

\* The broker fills or cancels an order: one that may still fill.
LEMMA BrokerKeeps ==
    ASSUME IInv, IInv', PosInv, NEW a \in attempts, BrokerFills(a) \/ BrokerCancels(a)
    PROVE  PosInv'
<1>1. UNCHANGED <<log, epoch, orders, flow, ev, mem>> /\ broker[a].live
  BY DEF BrokerFills, BrokerCancels
<1>2. StoresTyped /\ BrokerInv
  BY DEF IInv, TInv, StoreInv
<1>3. a \in Attempt /\ broker \in Snapshot /\ orders[a].qty \in 1..MaxQty
  BY <1>2, AttemptsAre DEF StoresTyped, Order
<1>4. ~FullFill(a) /\ flow[a] # "halted"
  <2>1. broker[a].filled < orders[a].qty /\ broker[a].filled \in Nat
    BY <1>1, <1>2, <1>3, BoundsAssumption DEF BrokerInv, Snapshot
  <2>2. FullFill(a) => broker[a].filled = orders[a].qty
    BY <1>2 DEF BrokerInv
  <2>3. flow[a] # "halted"
    BY <1>1, <1>2 DEF BrokerInv, NoOrder
  <2> QED BY <1>3, <2>1, <2>2, <2>3
<1>5. \A b \in Attempt : b # a => broker'[b] = broker[b]
  <2>1. CASE BrokerFills(a)
    <3> DEFINE v == broker[a].filled + 1
               l == broker[a].filled + 1 < orders[a].qty
    <3>1. broker' = [broker EXCEPT ![a].filled = v, ![a].live = l]
      BY <2>1 DEF BrokerFills
    <3> HIDE DEF v, l
    <3> QED BY <1>3, <3>1 DEF Snapshot
  <2>2. CASE BrokerCancels(a)
    BY <1>3, <2>2 DEF BrokerCancels, Snapshot
  <2> QED BY <2>1, <2>2
<1>6. \A b \in Attempt : broker'[b].filled # broker[b].filled =>
         b \in attempts /\ ~FullFill(b) /\ flow[b] # "halted"
  BY <1>4, <1>5
<1>7. epoch <= epoch' /\ \A b \in ev'.unsent : flow'[b] = "halted"
  BY <1>1, <1>2, BoundsAssumption DEF StoresTyped, PosInv, SettledInv
<1>8. \A q \in Procs : \A m \in MemType : mem'[q] = m => mem[q] = m \/ MemPos(m)'
  BY <1>1
<1> QED BY <1>1, <1>6, <1>7, <1>8, PosFrame

-----------------------------------------------------------------------------
(* Steps that read the position *)

\* With the fence of a discharge passed its close is the newest attempt.
LEMMA FencedIsLast ==
    ASSUME IInv, PosInv, NEW p \in Procs, NEW m \in MemType, mem[p] = m, m.job.pc \in Discharging,
           discharge_fence(m.job)
    PROVE  m.job.a = Len(orders)
<1> PICK a, it : a = m.job.a /\ it = PendingOf(a)
  OBVIOUS
<1>1. StoresTyped /\ RowInv /\ SeqInv
  BY DEF IInv, TInv, StoreInv, PosInv
<1>2. Len(orders) \in Nat /\ attempts = 1..Len(orders)
  BY <1>1, AttemptsAre
<1> PICK n \in Nat : n = Len(orders)
  BY <1>2
<1>3. IsClose(a) /\ \E r \in ev.pending : r.attempt = a
  BY DischargeIs
<1>4. it \in ev.pending /\ it.attempt = a /\ PendingRow(it)
  BY <1>3, PendingOfIs
<1>5. a \in attempts /\ it.closeSeq \in RowsOf(a) /\ Anchor(it.entry, a)
  BY <1>3, <1>4 DEF PendingRow
<1> SUFFICES ASSUME a # n PROVE FALSE
  OBVIOUS
<1>6. n \in attempts /\ a < n /\ it.entry < a /\ it.entry \in attempts
  BY <1>2, <1>5 DEF Anchor
<1>7. n # it.entry /\ n # it.attempt
  <2> PICK e \in attempts : e = it.entry
    BY <1>6
  <2>1. a \in Nat /\ e \in Nat /\ a < n /\ e < a
    BY <1>2, <1>5, <1>6
  <2>2. n # e /\ n # a
    BY <2>1
  <2> QED BY <1>4, <2>2
<1>8. first_seq(n) <= it.closeSeq
  <2>1. scope_has_no_new_attempt(it)
    BY DEF discharge_fence
  <2> QED BY <1>6, <1>7, <2>1 DEF scope_has_no_new_attempt
<1>9. it.closeSeq < first_seq(n)
  BY <1>1, <1>3, <1>5, <1>6 DEF SeqInv
<1>10. it.closeSeq \in Nat /\ first_seq(n) \in Nat
  <2>1. \A r \in attempts : RowsOf(r) # {} /\ RowsOf(r) \subseteq 1..tip /\ tip \in Nat
    BY <1>1, AttemptsAre DEF RowInv, RowsOf
  <2>2. first_seq(n) \in RowsOf(n)
    BY <1>6, <2>1, Extremes DEF first_seq
  <2> QED BY <1>5, <1>6, <2>1, <2>2
<1> QED BY <1>8, <1>9, <1>10

\* The intent of a discharge.
LEMMA PosDischargeIntent ==
    ASSUME IInv, IInv', PosInv, NEW p \in Procs, DischargeIntent(p)
    PROVE  PosInv'
<1> PICK m \in MemType : mem[p] = m
  BY DEF IInv, TInv
<1>1. m.job.pc = "discharge" /\ UNCHANGED <<log, epoch, orders, flow, broker>>
  BY DEF DischargeIntent, At, job
<1>2. CASE AfterRefusal(p)
  BY <1>1, <1>2, LightRefusal
<1>3. CASE ~AfterRefusal(p)
  <2>1. discharge_fence(m.job) /\ Goto(p, "discharge_commit")
        /\ \E X : ev' = [ev EXCEPT !.intents = X]
    BY <1>3 DEF DischargeIntent, job
  <2>2. m.job.a = Len(orders)
    BY <1>1, <2>1, FencedIsLast DEF Discharging
  <2>3. /\ mem'[p].job = [m.job EXCEPT !.pc = "discharge_commit"]
        /\ \A q \in Procs : q # p => mem'[q] = mem[q]
    BY <2>1, Goes DEF Goto, job
  <2> PICK a : a = m.job.a
    OBVIOUS
  <2>4. PosAt(a) = 0
    BY <1>1 DEF PosInv, ProcPos, MemPos
  <2>5. PosAt(a)' = PosAt(a)
    BY <1>1 DEF PosAt
  <2>6. ASSUME NEW n \in MemType, mem'[p] = n PROVE MemPos(n)'
    <3>1. n.job.pc = "discharge_commit" /\ n.job.a = a
      BY <2>3, <2>6 DEF MemType, JobType
    <3> QED BY <1>1, <2>2, <2>4, <2>5, <3>1 DEF MemPos
  <2>7. \A q \in Procs : \A n \in MemType : mem'[q] = n => mem[q] = n \/ MemPos(n)'
    BY <2>3, <2>6
  <2>8. epoch <= epoch' /\ \A b \in ev'.unsent : flow'[b] = "halted"
    BY <1>1, <2>1, UnsentKept, BoundsAssumption DEF IInv, TInv, StoresTyped, PosInv, SettledInv
  <2>9. \A b \in Attempt : broker'[b].filled # broker[b].filled =>
           b \in attempts /\ ~FullFill(b) /\ flow[b] # "halted"
    BY <1>1
  <2> QED BY <1>1, <2>7, <2>8, <2>9, PosFrame
<1> QED BY <1>2, <1>3

\* The attempts that the history of entry e counts, and what it adds up.
Candidates(e, c) ==
    {r \in attempts : /\ first_seq(e) < first_seq(r)
                      /\ first_seq(r) <= IF c = None THEN tip ELSE first_seq(c)}
Counted(e, c) == {r \in Candidates(e, c) : r = c \/ ~never_sent_release_proven(r)}
Quantities(S) == [r \in attempts |-> IF r \in S THEN final_full_fill_quantity(r) ELSE 0]

\* What a history that is not refused says.
LEMMA HistoryIs ==
    ASSUME NEW e, NEW c, NEW h, h = durable_close_history(e, c), ~h.refused
    PROVE  /\ final_full_fill_quantity(e) # None /\ h.entry = final_full_fill_quantity(e)
           /\ \A r \in Counted(e, c) : final_full_fill_quantity(r) # None
           /\ h.prior = SumTo(Quantities(Counted(e, c) \ {c}), Len(orders))
<1> DEFINE proven ==
        /\ entry_was_only_position(e, Candidates(e, c), IF c = None THEN tip ELSE first_seq(c))
        /\ final_full_fill_quantity(e) # None
        /\ \A r \in Counted(e, c) :
              /\ final_full_fill_quantity(r) # None
              /\ release_proven(r)
              /\ ~entry_binding_ambiguous(r, e)
              /\ r # c => entry_binding_proven(r, e)
        /\ SumTo(Quantities(Counted(e, c)), Len(orders)) <= final_full_fill_quantity(e)
<1>1. h = IF ~proven THEN Refused
          ELSE [refused |-> FALSE, entry |-> final_full_fill_quantity(e),
                prior |-> SumTo(Quantities(Counted(e, c) \ {c}), Len(orders)), tip |-> tip]
  BY DEF durable_close_history, Counted, Candidates, Quantities
<1>2. proven
  <2>1. ~proven => h = Refused
    BY <1>1
  <2>2. Refused.refused
    BY DEF Refused
  <2> HIDE DEF proven
  <2> QED BY <2>1, <2>2
<1>3. /\ final_full_fill_quantity(e) # None
      /\ \A r \in Counted(e, c) : final_full_fill_quantity(r) # None
  BY <1>2
<1> HIDE DEF proven
<1>4. h.entry = final_full_fill_quantity(e)
      /\ h.prior = SumTo(Quantities(Counted(e, c) \ {c}), Len(orders))
  BY <1>1, <1>2
<1> QED BY <1>3, <1>4

\* A proven quantity is what was ordered and filled, and an attempt that was proven
\* never sent filled nothing.
LEMMA ProvenFills ==
    ASSUME IInv, PosInv, NEW a \in attempts
    PROVE  /\ final_full_fill_quantity(a) # None =>
                /\ FullFill(a) /\ final_full_fill_quantity(a) = orders[a].qty
                /\ broker[a].filled = orders[a].qty
           /\ never_sent_release_proven(a) => broker[a].filled = 0
<1>1. BrokerInv /\ SettledInv
  BY DEF IInv, StoreInv, PosInv
<1>2. ASSUME final_full_fill_quantity(a) # None
      PROVE  FullFill(a) /\ final_full_fill_quantity(a) = Last(receipts[a]).filled
  BY <1>2 DEF final_full_fill_quantity, FullFill
<1>3. FullFill(a) => Last(receipts[a]).filled = orders[a].qty /\ broker[a].filled = orders[a].qty
  BY <1>1 DEF BrokerInv
<1>4. ASSUME never_sent_release_proven(a) PROVE broker[a].filled = 0
  <2>1. flow[a] = "halted"
    BY <1>1, <1>4 DEF SettledInv, never_sent_release_proven
  <2> QED BY <1>1, <2>1 DEF BrokerInv, NoOrder
<1> QED BY <1>2, <1>3, <1>4

\* The first row of an attempt is one of the log.
LEMMA FirstIs ==
    ASSUME StoresTyped, RowInv, NEW a \in attempts
    PROVE  first_seq(a) \in 1..tip /\ first_seq(a) \in RowsOf(a) /\ tip \in Nat
<1>1. RowsOf(a) # {} /\ RowsOf(a) \subseteq 1..tip /\ tip \in Nat
  BY AttemptsAre DEF RowInv, RowsOf
<1>2. first_seq(a) \in RowsOf(a)
  BY <1>1, Extremes DEF first_seq
<1> QED BY <1>1, <1>2

\* The candidates are the attempts after the entry, up to the current close.
LEMMA CandidatesAre ==
    ASSUME IInv, PosInv, NEW e \in attempts, NEW c, c = None \/ c \in attempts
    PROVE  \A r \in attempts : r \in Candidates(e, c) <=> e < r /\ (c = None \/ r <= c)
<1>1. StoresTyped /\ RowInv /\ SeqInv
  BY DEF IInv, TInv, StoreInv, PosInv
<1>2. Len(orders) \in Nat /\ attempts = 1..Len(orders)
  BY <1>1, AttemptsAre
<1>3. None \notin attempts
  BY <1>2, NoneIsNew
<1>4. \A r \in attempts : first_seq(r) \in 1..tip /\ tip \in Nat
  BY <1>1, FirstIs
<1>5. \A a, r \in attempts : a < r => first_seq(a) < first_seq(r)
  BY <1>1 DEF SeqInv
<1>6. \A a, r \in attempts : /\ first_seq(a) < first_seq(r) <=> a < r
                             /\ first_seq(a) <= first_seq(r) <=> a <= r
  <2> SUFFICES ASSUME NEW a \in attempts, NEW r \in attempts
               PROVE  /\ first_seq(a) < first_seq(r) <=> a < r
                      /\ first_seq(a) <= first_seq(r) <=> a <= r
    OBVIOUS
  <2>1. first_seq(a) \in Nat /\ first_seq(r) \in Nat /\ a \in Nat /\ r \in Nat
    BY <1>2, <1>4
  <2>2. CASE a < r
    BY <1>5, <2>1, <2>2
  <2>3. CASE r < a
    BY <1>5, <2>1, <2>3
  <2>4. CASE a = r
    BY <2>1, <2>4
  <2> QED BY <2>1, <2>2, <2>3, <2>4
<1> SUFFICES ASSUME NEW r \in attempts
             PROVE  r \in Candidates(e, c) <=> e < r /\ (c = None \/ r <= c)
  OBVIOUS
<1>7. CASE c = None
  BY <1>4, <1>6, <1>7 DEF Candidates
<1>8. CASE c \in attempts
  BY <1>3, <1>6, <1>8 DEF Candidates
<1> QED BY <1>7, <1>8

\* What the closes up to k filled, with the position they leave, is what the entry
\* filled.
LEMMA FillsAddUp ==
    ASSUME IInv, PosInv, NEW e \in attempts, ~IsClose(e), FullFill(e),
           NEW k \in e..Len(orders), \A r \in attempts : e < r /\ r <= k => IsClose(r),
           NEW g, \A r \in attempts : g[r] = IF e < r /\ r <= k THEN broker[r].filled ELSE 0
    PROVE  PosAt(k) + SumTo(g, Len(orders)) = orders[e].qty /\ SumTo(g, Len(orders)) \in Int
<1>1. StoresTyped /\ SettledInv /\ BrokerInv
  BY DEF IInv, TInv, StoreInv, PosInv
<1>2. /\ Len(orders) \in Nat /\ attempts = 1..Len(orders)
      /\ orders \in Seq(Order) /\ Len(orders) <= MaxAttempts /\ broker \in Snapshot
  BY <1>1, AttemptsAre DEF StoresTyped
<1> PICK n \in Nat : n = Len(orders)
  BY <1>2
<1>3. e \in 1..n /\ k \in e..n /\ k \in Nat /\ k \in 0..n /\ e \in 0..n /\ e \in 0..k /\ e \in Nat
  BY <1>2
<1> PICK f : f = Terms(orders, broker)
  OBVIOUS
<1>4. \A r \in 1..n : /\ f[r] \in Int /\ broker[r].filled \in Nat
                      /\ IsClose(r) => f[r] = 0 - broker[r].filled
  <2>1. \A r \in 1..n : /\ broker[r].filled \in Nat /\ orders[r].effect \in {"OPEN", "CLOSE"}
                        /\ f[r] = IF orders[r].effect = "OPEN" THEN broker[r].filled
                                  ELSE 0 - broker[r].filled
                        /\ f[r] \in Int
    BY <1>2, TermsAre
  <2> QED BY <2>1 DEF IsClose
<1>5. \A r \in 1..n : /\ g[r] \in Int
                      /\ k < r => g[r] = 0
                      /\ r <= e => g[r] = 0
                      /\ e < r /\ r <= k => f[r] + g[r] = 0
  <2> SUFFICES ASSUME NEW r \in 1..n
               PROVE  /\ g[r] \in Int
                      /\ k < r => g[r] = 0
                      /\ r <= e => g[r] = 0
                      /\ e < r /\ r <= k => f[r] + g[r] = 0
    OBVIOUS
  <2>1. CASE e < r /\ r <= k
    <3>1. g[r] = broker[r].filled /\ f[r] = 0 - broker[r].filled /\ broker[r].filled \in Nat
      BY <1>2, <1>4, <2>1
    <3> QED BY <1>3, <2>1, <3>1
  <2>2. CASE ~(e < r /\ r <= k)
    <3>1. g[r] = 0
      BY <1>2, <2>2
    <3> QED BY <2>2, <3>1
  <2> QED BY <2>1, <2>2
<1>6. SumTo(g, n) = SumTo(g, k) /\ SumTo(g, n) \in Int
  <2>1. n \in 0..n
    OBVIOUS
  <2> QED BY <1>3, <1>5, <2>1, SumOfZeros, SumInt
<1>7. SumTo(g, e) = 0
  <2>1. 0 \in 0..e /\ \A r \in 1..e : g[r] \in Int /\ (0 < r => g[r] = 0)
    BY <1>3, <1>5
  <2>2. SumTo(g, e) = SumTo(g, 0)
    BY <1>3, <2>1, SumOfZeros
  <2> QED BY <2>2, SumStep
<1>8. SumTo(f, k) + SumTo(g, k) = SumTo(f, e) + SumTo(g, e)
  <2>1. \A r \in 1..k : f[r] \in Int /\ g[r] \in Int /\ (e < r => f[r] + g[r] = 0)
    BY <1>3, <1>4, <1>5
  <2> QED BY <1>3, <2>1, SumsCancel
<1>9. \A i : SumTo(f, i) = PosAt(i)
  BY DEF PosAt, Net
<1>10. PosAt(e) = orders[e].qty
  <2>1. PosAt(e - 1) = 0 /\ broker[e].filled = orders[e].qty
    BY <1>1 DEF SettledInv, BrokerInv
  <2>2. PosAt(e) = PosAt(e - 1) + broker[e].filled /\ broker[e].filled \in Nat
    BY <1>1, PosSteps
  <2> QED BY <2>1, <2>2
<1>11. PosAt(k) \in Int /\ orders[e].qty \in Int
  <2>1. k \in 0..Len(orders)
    BY <1>3
  <2>2. PosAt(k) \in Int /\ orders[e].qty \in 1..MaxQty
    BY <1>1, <2>1, PosSteps
  <2> QED BY <2>2, BoundsAssumption
<1> QED BY <1>6, <1>7, <1>8, <1>9, <1>10, <1>11

\* The prior of a history is what the closes before the current one filled.
LEMMA PriorIs ==
    ASSUME IInv, PosInv, NEW e \in attempts, NEW c, c = None \/ c \in attempts,
           NEW h, h = durable_close_history(e, c), ~h.refused,
           NEW r \in attempts
    PROVE  Quantities(Counted(e, c) \ {c})[r] =
             IF e < r /\ (c = None \/ r < c) THEN broker[r].filled ELSE 0
<1>1. StoresTyped /\ Len(orders) \in Nat /\ attempts = 1..Len(orders)
  BY AttemptsAre DEF IInv, TInv
<1>2. r \in Candidates(e, c) <=> e < r /\ (c = None \/ r <= c)
  BY CandidatesAre
<1>3. r # None
  BY <1>1, NoneIsNew
<1>4. r \in Counted(e, c) \ {c} <=>
        /\ e < r /\ (c = None \/ r < c)
        /\ ~never_sent_release_proven(r)
  <2>1. (c = None \/ r <= c) /\ r # c <=> (c = None \/ r < c)
    <3>1. CASE c = None
      BY <1>3, <3>1
    <3>2. CASE c \in attempts
      <4>1. r \in Nat /\ c \in Nat /\ c # None
        BY <1>1, <3>2, NoneIsNew
      <4>2. r <= c /\ r # c <=> r < c
        BY <4>1
      <4> QED BY <4>1, <4>2
    <3> QED BY <3>1, <3>2
  <2> QED BY <1>2, <2>1 DEF Counted
<1>5. \A s \in Counted(e, c) : final_full_fill_quantity(s) # None
  BY HistoryIs
<1>6. Quantities(Counted(e, c) \ {c})[r] =
        IF r \in Counted(e, c) \ {c} THEN final_full_fill_quantity(r) ELSE 0
  BY DEF Quantities
<1>7. CASE r \in Counted(e, c) \ {c}
  <2>1. final_full_fill_quantity(r) = broker[r].filled
    BY <1>5, <1>7, ProvenFills
  <2> QED BY <1>4, <1>6, <1>7, <2>1
<1>8. CASE r \notin Counted(e, c) \ {c}
  <2>1. e < r /\ (c = None \/ r < c) => broker[r].filled = 0
    BY <1>4, <1>8, ProvenFills
  <2> QED BY <1>6, <1>8, <2>1
<1> QED BY <1>7, <1>8

\* A close that the bound admits fits the position.
LEMMA BoundFits ==
    ASSUME IInv, PosInv, NEW qty \in 1..MaxQty, read_close_bound(qty)
    PROVE  qty <= PosAt(Len(orders))
<1>1. PICK e \in outstanding_reservations :
         /\ reservation_state(e) = "POSITION_CONSUMED"
         /\ LET h == durable_close_history(e, None)
            IN  ~h.refused /\ close_within_entry(h.entry, h.prior, qty)
  BY DEF read_close_bound
<1> PICK h : h = durable_close_history(e, None)
  OBVIOUS
<1>2. ~h.refused /\ h.prior + qty <= h.entry
  BY <1>1 DEF close_within_entry
<1>3. StoresTyped /\ ConsumedInv /\ Len(orders) \in Nat /\ attempts = 1..Len(orders)
  BY AttemptsAre DEF IInv, TInv, StoreInv
<1>4. e \in attempts /\ ~IsClose(e) /\ \A r \in attempts : e < r => IsClose(r)
  BY <1>1, <1>3 DEF outstanding_reservations, ConsumedInv, Consumed
<1> DEFINE g == Quantities(Counted(e, None) \ {None})
<1>5. /\ final_full_fill_quantity(e) # None /\ h.entry = final_full_fill_quantity(e)
      /\ h.prior = SumTo(g, Len(orders))
  BY <1>2, HistoryIs
<1>6. FullFill(e) /\ h.entry = orders[e].qty
  BY <1>4, <1>5, ProvenFills
<1>7. \A r \in attempts : g[r] = IF e < r THEN broker[r].filled ELSE 0
  BY <1>2, <1>4, PriorIs
<1> HIDE DEF g
<1> PICK k \in e..Len(orders) : k = Len(orders)
  BY <1>3, <1>4
<1>8. \A r \in attempts : g[r] = IF e < r /\ r <= k THEN broker[r].filled ELSE 0
  BY <1>3, <1>7
<1>9. PosAt(k) + SumTo(g, Len(orders)) = orders[e].qty /\ SumTo(g, Len(orders)) \in Int
  BY <1>4, <1>6, <1>8, FillsAddUp
<1>10. PosAt(k) \in Int /\ orders[e].qty \in 1..MaxQty
  <2>1. k \in 0..Len(orders)
    BY <1>3
  <2> QED BY <1>3, <1>4, <2>1, PosSteps
<1> QED BY <1>2, <1>5, <1>6, <1>9, <1>10, BoundsAssumption

\* The close of an admitted discharge leaves the scope flat.
LEMMA DischargeFlat ==
    ASSUME IInv, PosInv, NEW e \in attempts, NEW a \in attempts, Anchor(e, a), NEW snap,
           entry_discharge_admits(a, durable_close_history(e, a), snap)
    PROVE  PosAt(a) = 0
<1> PICK h : h = durable_close_history(e, a)
  OBVIOUS
<1>1. ~h.refused /\ h.prior + final_full_fill_quantity(a) = h.entry
  BY DEF entry_discharge_admits
<1>2. StoresTyped /\ Len(orders) \in Nat /\ attempts = 1..Len(orders)
  BY AttemptsAre DEF IInv, TInv
<1>3. /\ ~IsClose(e) /\ e < a /\ \A r \in attempts : e < r /\ r <= a => IsClose(r)
      /\ a # None
  BY <1>2, NoneIsNew DEF Anchor
<1> DEFINE g == Quantities(Counted(e, a) \ {a})
<1>4. /\ final_full_fill_quantity(e) # None /\ h.entry = final_full_fill_quantity(e)
      /\ h.prior = SumTo(g, Len(orders))
      /\ \A r \in Counted(e, a) : final_full_fill_quantity(r) # None
  BY <1>1, HistoryIs
<1>5. a \in Counted(e, a)
  <2>1. a \in Candidates(e, a)
    BY <1>2, <1>3, CandidatesAre
  <2> QED BY <2>1 DEF Counted
<1>6. /\ FullFill(e) /\ h.entry = orders[e].qty
      /\ final_full_fill_quantity(a) = broker[a].filled
  BY <1>4, <1>5, ProvenFills
<1>7. \A r \in attempts : g[r] = IF e < r /\ r < a THEN broker[r].filled ELSE 0
  BY <1>1, <1>3, PriorIs
<1> HIDE DEF g
<1> PICK k \in e..Len(orders) : k = a - 1
  BY <1>2, <1>3
<1>8. \A r \in attempts : g[r] = IF e < r /\ r <= k THEN broker[r].filled ELSE 0
  <2> SUFFICES ASSUME NEW r \in attempts PROVE g[r] = IF e < r /\ r <= k THEN broker[r].filled ELSE 0
    OBVIOUS
  <2>1. r < a <=> r <= k
    BY <1>2
  <2> QED BY <1>7, <2>1
<1>9. \A r \in attempts : e < r /\ r <= k => IsClose(r)
  BY <1>2, <1>3
<1>10. PosAt(k) + SumTo(g, Len(orders)) = orders[e].qty /\ SumTo(g, Len(orders)) \in Int
  BY <1>3, <1>6, <1>8, <1>9, FillsAddUp
<1>11. IsClose(a)
  BY <1>2, <1>3
<1>12. /\ PosAt(a) = PosAt(k) - broker[a].filled
       /\ broker[a].filled \in Nat /\ PosAt(k) \in Int /\ orders[e].qty \in 1..MaxQty
  BY <1>2, <1>11, PosSteps
<1> QED BY <1>1, <1>4, <1>6, <1>10, <1>12, BoundsAssumption

\* Step 8 verifies an order.
LEMMA PosVerifyLedger ==
    ASSUME IInv, IInv', PosInv, NEW p \in Procs, VerifyLedger(p)
    PROVE  PosInv'
<1>1. UNCHANGED <<log, epoch, orders, flow, ev, broker>>
  BY DEF VerifyLedger
<1>2. PICK effect \in {"OPEN", "CLOSE"}, qty \in 1..MaxQty :
         /\ effect = "CLOSE" => read_close_bound(qty)
         /\ Go(p, [Idle EXCEPT !.pc = "commit", !.at = LogAt,
                               !.op = [effect |-> effect, qty |-> qty]])
  BY DEF VerifyLedger
<1> DEFINE j == [Idle EXCEPT !.pc = "commit", !.at = LogAt,
                             !.op = [effect |-> effect, qty |-> qty]]
<1>3. j.pc = "commit" /\ j.op.effect = effect /\ j.op.qty = qty
  BY DEF Idle
<1>4. mem'[p].job = j /\ \A q \in Procs : q # p => mem'[q] = mem[q]
  BY <1>2, Goes
<1> HIDE DEF j
<1>5. effect = "CLOSE" => qty <= PosAt(Len(orders))
  BY <1>2, BoundFits
<1>6. PosAt(Len(orders))' = PosAt(Len(orders))
  BY <1>1 DEF PosAt
<1>7. ASSUME NEW n \in MemType, mem'[p] = n PROVE MemPos(n)'
  <2>1. n.job.pc = "commit" /\ n.job.op.effect = effect /\ n.job.op.qty = qty
    BY <1>3, <1>4, <1>7
  <2> QED BY <1>5, <1>6, <2>1 DEF MemPos
<1>8. \A q \in Procs : \A n \in MemType : mem'[q] = n => mem[q] = n \/ MemPos(n)'
  BY <1>4, <1>7
<1>9. epoch <= epoch' /\ \A b \in ev'.unsent : flow'[b] = "halted"
  BY <1>1, BoundsAssumption DEF IInv, TInv, StoresTyped, PosInv, SettledInv
<1>10. \A b \in Attempt : broker'[b].filled # broker[b].filled =>
          b \in attempts /\ ~FullFill(b) /\ flow[b] # "halted"
  BY <1>1
<1> QED BY <1>1, <1>8, <1>9, <1>10, PosFrame

\* The history of a discharge is read.
LEMMA PosDischargeHistory ==
    ASSUME IInv, IInv', PosInv, NEW p \in Procs, DischargeHistory(p)
    PROVE  PosInv'
<1> PICK m \in MemType : mem[p] = m
  BY DEF IInv, TInv
<1>1. m.job.pc = "history" /\ UNCHANGED <<log, epoch, orders, flow, broker>>
  BY DEF DischargeHistory, At, job
<1>2. CASE AfterRefusal(p)
  BY <1>1, <1>2, LightRefusal
<1>3. CASE ~AfterRefusal(p)
  <2> PICK a, e : a = m.job.a /\ e = m.job.entry
    OBVIOUS
  <2>1. /\ entry_discharge_admits(a, durable_close_history(e, a), snapshot(p))
        /\ Go(p, [m.job EXCEPT !.pc = "discharge", !.at = LogAt]) /\ ev' = ev
    BY <1>3 DEF DischargeHistory, job
  <2>2. Anchor(e, a) /\ e \in attempts /\ a \in attempts
    <3>1. m.job.pc \in Discharging
      BY <1>1 DEF Discharging
    <3>2. Anchor(e, a) /\ e \in attempts
      BY <3>1, DischargeIs
    <3>3. a \in attempts
      BY <1>1 DEF IInv, ProcInv, MemInv, JobInv, Filling, After, Discharging
    <3> QED BY <3>2, <3>3
  <2>3. PosAt(a) = 0
    BY <2>1, <2>2, DischargeFlat
  <2>4. PosAt(a)' = PosAt(a)
    BY <1>1 DEF PosAt
  <2>5. /\ mem'[p].job = [m.job EXCEPT !.pc = "discharge", !.at = LogAt]
        /\ \A q \in Procs : q # p => mem'[q] = mem[q]
    BY <2>1, Goes
  <2>6. ASSUME NEW n \in MemType, mem'[p] = n PROVE MemPos(n)'
    <3>1. n.job.pc = "discharge" /\ n.job.a = a
      BY <2>5, <2>6 DEF MemType, JobType
    <3> QED BY <2>3, <2>4, <3>1 DEF MemPos
  <2>7. \A q \in Procs : \A n \in MemType : mem'[q] = n => mem[q] = n \/ MemPos(n)'
    BY <2>5, <2>6
  <2>8. epoch <= epoch' /\ \A b \in ev'.unsent : flow'[b] = "halted"
    BY <1>1, <2>1, BoundsAssumption DEF IInv, TInv, StoresTyped, PosInv, SettledInv
  <2>9. \A b \in Attempt : broker'[b].filled # broker[b].filled =>
           b \in attempts /\ ~FullFill(b) /\ flow[b] # "halted"
    BY <1>1
  <2> QED BY <1>1, <2>7, <2>8, <2>9, PosFrame
<1> QED BY <1>2, <1>3

-----------------------------------------------------------------------------
(* Steps that append to the log *)

\* A row of the newest attempt, or of an OPEN, that moves a reservation on.
PosRow(x) ==
    /\ x \in Row /\ log' = Append(log, x) /\ UNCHANGED <<epoch, orders, flow, ev, broker>>
    /\ x.res \in attempts /\ (x.res = Len(orders) \/ ~IsClose(x.res))

\* Such a row keeps what was read of the position, if it leaves a flat scope
\* when it leaves none outstanding.
LEMMA RowKeeps ==
    ASSUME IInv, IInv', PosInv, NEW x, PosRow(x), NEW p, Lightly(p),
           outstanding_reservations' = {} => PosAt(Len(orders)) = 0
    PROVE  PosInv'
<1>1. /\ StoresTyped /\ RowInv /\ SettledInv /\ SeqInv /\ attempts' = attempts
      /\ UNCHANGED <<epoch, orders, flow, ev, broker>>
  BY DEF IInv, TInv, StoreInv, PosInv, PosRow, attempts
<1>2. /\ tip' = tip + 1 /\ tip \in Nat /\ Len(orders) \in Nat /\ attempts = 1..Len(orders)
      /\ \A r \in attempts : first_seq(r)' = first_seq(r)
  BY <1>1, LogAppends, AttemptsAre DEF PosRow, RowInv
<1>3. \A k : PosAt(k)' = PosAt(k)
  BY <1>1 DEF PosAt
<1>4. \A a : IsClose(a)' <=> IsClose(a)
  BY <1>1 DEF IsClose
<1>5. SettledInv'
  <2>1. PosAt(Len(orders))' = PosAt(Len(orders))
    BY <1>1 DEF PosAt
  <2> QED BY <1>1, <1>3, <1>4, <2>1 DEF SettledInv
<1>6. SeqInv'
  <2> SUFFICES ASSUME NEW a \in attempts, NEW r \in attempts, a < r
               PROVE  /\ first_seq(a) < first_seq(r)
                      /\ IsClose(a) => \A i \in RowsOf(a)' : i < first_seq(r)
    BY <1>1, <1>2, <1>4 DEF SeqInv
  <2>1. first_seq(a) < first_seq(r)
    BY <1>1 DEF SeqInv
  <2>2. ASSUME IsClose(a) PROVE \A i \in RowsOf(a)' : i < first_seq(r)
    <3>1. a # x.res
      <4>1. a # Len(orders)
        BY <1>2
      <4> QED BY <2>2, <4>1 DEF PosRow
    <3>2. RowsIn(log', a) = RowsIn(log, a)
      BY <1>1, <3>1, RowsAppended DEF PosRow, StoresTyped
    <3>3. RowsOf(a)' = RowsOf(a)
      BY <3>2 DEF RowsOf, RowsIn
    <3> QED BY <1>1, <2>2, <3>3 DEF SeqInv
  <2> QED BY <2>1, <2>2
<1>7. ASSUME NEW q \in Procs, NEW m \in MemType, mem'[q] = m PROVE MemPos(m)'
  <2>1. CASE q = p
    BY <1>7, <2>1 DEF Lightly, MemPos, Heavy
  <2>2. CASE q # p
    <3>1. mem[q] = m
      BY <1>7, <2>2 DEF Lightly
    <3>2. MemInv(m) /\ MemPos(m)
      BY <3>1 DEF IInv, ProcInv, PosInv, ProcPos
    <3>3. m.job.pc \in {"commit", "discharge_commit"} => m.job.at.tip # tip'
      <4>1. m.job.pc \in {"commit", "discharge_commit"} => m.job.at \in Where /\ m.job.at.tip <= tip
        BY <3>2 DEF MemInv, CommitInv, BindInv
      <4>2. m.job.at \in Where => m.job.at.tip \in Nat
        BY DEF Where
      <4> QED BY <1>2, <4>1, <4>2
    <3> PICK a : a = m.job.a
      OBVIOUS
    <3>4. PosAt(a)' = PosAt(a)
      BY <1>3
    <3> QED BY <3>2, <3>3, <3>4 DEF MemPos
  <2> QED BY <2>1, <2>2
<1>8. ASSUME NEW q \in Procs PROVE ProcPos(q)'
  BY <1>7 DEF ProcPos
<1> QED BY <1>5, <1>6, <1>8 DEF PosInv

\* While a close is unbound its entry is outstanding, and stays so.
LEMMA EntryStays ==
    ASSUME IInv, NEW x, PosRow(x), Unbound(x.res), IsClose(x.res)
    PROVE  outstanding_reservations' # {}
<1>1. StoresTyped /\ RowInv /\ UnboundInv /\ attempts' = attempts
  BY DEF IInv, TInv, StoreInv, PosRow, attempts
<1>2. PICK e \in attempts : e # x.res /\ Consumed(e)
  BY <1>1 DEF UnboundInv, PosRow
<1>3. RowsOf(e) # {}
  BY <1>1 DEF RowInv
<1>4. reservation_state(e)' = reservation_state(e)
  BY <1>1, <1>2, <1>3, LogAppends DEF PosRow
<1>5. reservation_state(e)' # "RELEASED"
  BY <1>2, <1>4 DEF Consumed
<1> QED BY <1>1, <1>5 DEF outstanding_reservations

\* The release of a reservation that was never sent.
LEMMA PosUnsentRelease ==
    ASSUME IInv, IInv', PosInv, NEW p \in Procs, UnsentRelease(p)
    PROVE  PosInv'
<1> PICK m \in MemType : mem[p] = m
  BY DEF IInv, TInv
<1> PICK a : a = m.job.a
  OBVIOUS
<1>1. /\ m.job.pc = "unsent" /\ Goto(p, "discard")
      /\ UNCHANGED <<epoch, orders, flow, ev, broker>>
      /\ IF Released(a) THEN log' = log
         ELSE log' = Append(log, Transition(a, "RELEASED", "release-unsent", a))
  BY DEF UnsentRelease, At, job, Released
<1>2. Lightly(p)
  BY <1>1, Goes DEF Lightly, Heavy
<1>3. CASE Released(a)
  BY <1>1, <1>2, <1>3, QuietKeeps
<1>4. CASE ~Released(a)
  <2> DEFINE x == Transition(a, "RELEASED", "release-unsent", a)
  <2>1. /\ StoresTyped /\ BrokerInv /\ ReleasedInv /\ SettledInv
    BY DEF IInv, TInv, StoreInv, PosInv
  <2>2. a \in attempts /\ a \in Attempt /\ flow[a] = "halted"
    BY <1>1, <2>1, AttemptsAre DEF IInv, ProcInv, MemInv, JobInv, Unsent
  <2>3. broker[a].filled = 0 /\ ~FullFill(a)
    BY <2>1, <2>2 DEF BrokerInv, NoOrder, FullFill
  <2>4. ~committed_command("release", a)
    BY <2>1, <2>2, <2>3 DEF ReleasedInv
  <2>5. Unbound(a) /\ a = Len(orders)
    BY <1>4, <2>2, <2>4, UnboundIs
  <2>6. x \in Row /\ x.res = a /\ log' = Append(log, x)
    BY <1>1, <1>4, <2>2 DEF Transition, Row, States
  <2> HIDE DEF x
  <2>7. PosRow(x)
    BY <1>1, <2>2, <2>5, <2>6 DEF PosRow
  <2>8. outstanding_reservations' = {} => PosAt(Len(orders)) = 0
    <3>1. CASE IsClose(a)
      BY <2>5, <2>6, <2>7, <3>1, EntryStays
    <3>2. CASE ~IsClose(a)
      <4>1. PosAt(a - 1) = 0 /\ PosAt(a) = PosAt(a - 1) + broker[a].filled
        BY <2>1, <2>2, <3>2, PosSteps DEF SettledInv
      <4> QED BY <2>3, <2>5, <4>1
    <3> QED BY <3>1, <3>2
  <2> QED BY <1>2, <2>7, <2>8, RowKeeps
<1> QED BY <1>3, <1>4

\* The release of a fill.
LEMMA PosCommitRelease ==
    ASSUME IInv, IInv', PosInv, NEW p \in Procs, CommitRelease(p)
    PROVE  PosInv'
<1> PICK m \in MemType : mem[p] = m
  BY DEF IInv, TInv
<1> PICK a, e : a = m.job.a /\ e = m.job.entry
  OBVIOUS
<1> PICK pc \in {"project", "history"} : pc = IF e = None THEN "project" ELSE "history"
  OBVIOUS
<1> DEFINE x == Transition(a, destination(m.job), "release", a)
<1>1. /\ m.job.pc = "release" /\ Go(p, [m.job EXCEPT !.pc = pc, !.at = None])
      /\ log_accepts(m.job, "release", a) /\ log' = Append(log, x)
      /\ UNCHANGED <<epoch, orders, flow, ev, broker>>
  BY DEF CommitRelease, At, job
<1>2. Lightly(p)
  <2>1. [m.job EXCEPT !.pc = pc, !.at = None].pc \notin Heavy
    BY DEF MemType, JobType, Heavy
  <2> QED BY <1>1, <2>1, Goes DEF Lightly
<1>3. StoresTyped /\ a \in attempts /\ a \in Attempt /\ MemInv(m)
  BY <1>1, FillingIs DEF Filling, Binding, IInv, TInv
<1>4. Unbound(a) /\ a = Len(orders)
  BY <1>1, <1>3, UnboundIs DEF log_accepts, Released
<1>5. e # None => IsClose(a)
  BY <1>1, <1>3, <1>4 DEF MemInv, BindInv, Binding
<1>6. x \in Row /\ x.res = a /\ x.to = IF e = None THEN "POSITION_CONSUMED" ELSE "RELEASED"
  BY <1>3 DEF Transition, Row, States, destination
<1> HIDE DEF x
<1>7. PosRow(x)
  BY <1>1, <1>3, <1>4, <1>6 DEF PosRow
<1>8. outstanding_reservations' # {}
  <2>1. CASE e = None
    <3>1. reservation_state(a)' = x.to
      BY <1>1, <1>3, <1>6, LogAppends
    <3>2. a \in attempts'
      BY <1>1, <1>3 DEF attempts
    <3> QED BY <1>6, <2>1, <3>1, <3>2 DEF outstanding_reservations
  <2>2. CASE e # None
    BY <1>4, <1>5, <1>6, <1>7, <2>2, EntryStays
  <2> QED BY <2>1, <2>2
<1> QED BY <1>2, <1>7, <1>8, RowKeeps

\* The discharge of an entry.
LEMMA PosCommitDischarge ==
    ASSUME IInv, IInv', PosInv, NEW p \in Procs, CommitDischarge(p)
    PROVE  PosInv'
<1> PICK m \in MemType : mem[p] = m
  BY DEF IInv, TInv
<1> PICK a, e : a = m.job.a /\ e = m.job.entry
  OBVIOUS
<1> DEFINE x == Transition(e, "RELEASED", "release-entry", a)
<1>1. /\ m.job.pc = "discharge_commit" /\ m.job.at = LogAt /\ log' = Append(log, x)
      /\ UNCHANGED <<epoch, orders, flow, ev, broker>>
      /\ Go(p, NextItem) \/ Goto(p, "project")
  BY DEF CommitDischarge, At, job, log_accepts
<1>2. Lightly(p)
  <2>1. CASE Go(p, NextItem)
    BY <2>1, Goes, LightJobs DEF Lightly
  <2>2. CASE Goto(p, "project")
    BY <2>2, Goes DEF Lightly, Heavy
  <2> QED BY <1>1, <2>1, <2>2
<1>3. a \in attempts /\ a \in Attempt
  BY <1>1, FillingIs DEF Filling, After, Discharging
<1>4. e \in attempts /\ e \in Attempt /\ ~IsClose(e)
  BY <1>1, DischargeIs DEF Discharging, Anchor
<1>5. m.job.at.tip = tip
  BY <1>1 DEF LogAt
<1>6. PosAt(a) = 0 /\ a = Len(orders)
  BY <1>1, <1>5 DEF PosInv, ProcPos, MemPos
<1>7. x \in Row /\ x.res = e
  BY <1>3, <1>4 DEF Transition, Row, States
<1> HIDE DEF x
<1>8. PosRow(x)
  BY <1>1, <1>4, <1>7 DEF PosRow
<1> QED BY <1>2, <1>6, <1>8, RowKeeps

\* The commit of step 9.
LEMMA PosAtomicCommit ==
    ASSUME IInv, IInv', PosInv, NEW p \in Procs, AtomicCommit(p)
    PROVE  PosInv'
<1> PICK m \in MemType : mem[p] = m
  BY DEF IInv, TInv
<1> PICK n, op : n = Len(orders) + 1 /\ op = m.job.op
  OBVIOUS
<1>1. /\ m.job.pc = "commit" /\ m.epoch = epoch
      /\ op.effect = "CLOSE" => m.job.at.tip = tip
  BY DEF AtomicCommit, At, job, CommitFence
<1>2. /\ StoresTyped /\ StoresTyped' /\ StoreInv /\ RowInv /\ MemInv(m)
      /\ SettledInv /\ SeqInv /\ MemPos(m) /\ mem \in [Procs -> MemType]
  BY DEF IInv, TInv, ProcInv, StoreInv, PosInv, ProcPos
<1>3. CommitStep(n, op)
  <2>1. op \in Order
    BY <1>1, <1>2 DEF MemInv, CommitInv
  <2>2. /\ op.effect = "OPEN" => outstanding_reservations = {}
        /\ op.effect = "CLOSE" => \E e \in attempts : outstanding_reservations = {e} /\ Consumed(e)
    BY <1>1, <1>2 DEF MemInv, CommitInv
  <2> QED BY <2>1, <2>2 DEF AtomicCommit, CommitStep, job
<1>4. /\ n \in Attempt /\ n \notin attempts /\ n = Len(orders')
      /\ attempts' = attempts \cup {n} /\ tip' = tip + 1 /\ tip \in Nat
      /\ orders'[n] = op
      /\ \A a \in attempts : orders'[a] = orders[a] /\ flow'[a] = flow[a] /\ a < n
  BY <1>2, <1>3, CommitAdds
<1>5. /\ Unbound(n)' /\ first_seq(n)' = tip'
  BY <1>2, <1>3, CommitMoves
<1>6. Len(orders) \in Nat /\ attempts = 1..Len(orders)
  BY <1>2, AttemptsAre
<1>7. UNCHANGED <<epoch, ev, broker>> /\ op \in Order /\ op.effect \in {"OPEN", "CLOSE"}
  BY <1>3 DEF CommitStep, Order
<1>8. ASSUME NEW k \in 0..Len(orders) PROVE PosAt(k)' = PosAt(k)
  <2>1. \A a \in 1..k : orders'[a] = orders[a] /\ broker'[a].filled = broker[a].filled
    BY <1>4, <1>6, <1>7
  <2>2. Len(orders) <= Len(orders')
    BY <1>4, <1>6
  <2> QED BY <1>2, <2>1, <2>2, PosKeeps
<1>9. SettledInv'
  <2>1. ASSUME NEW a \in attempts
        PROVE  /\ ~IsClose(a)' => PosAt(a - 1)' = 0
               /\ IsClose(a)' => orders'[a].qty <= PosAt(a - 1)' /\ PosAt(a - 1)' <= MaxQty
    <3> PICK k \in 0..Len(orders) : k = a - 1
      BY <1>6
    <3>1. PosAt(k)' = PosAt(k)
      BY <1>8
    <3>2. PosAt(a - 1)' = PosAt(a - 1)
      BY <3>1
    <3>3. orders'[a] = orders[a] /\ (IsClose(a)' <=> IsClose(a))
      BY <1>4 DEF IsClose
    <3> QED BY <1>2, <3>2, <3>3 DEF SettledInv
  <2>2. /\ ~IsClose(n)' => PosAt(n - 1)' = 0
        /\ IsClose(n)' => orders'[n].qty <= PosAt(n - 1)' /\ PosAt(n - 1)' <= MaxQty
    <3> PICK k \in 0..Len(orders) : k = Len(orders)
      BY <1>6
    <3>1. PosAt(k)' = PosAt(k) /\ n - 1 = k
      BY <1>6, <1>8
    <3>2. PosAt(n - 1)' = PosAt(k)
      BY <3>1
    <3>3. PosAt(k) \in 0..MaxQty
      BY PosBounds
    <3>4. CASE op.effect = "OPEN"
      <4>1. PosAt(k) = 0
        BY <1>2, <1>3, <3>4 DEF CommitStep, SettledInv
      <4> QED BY <1>4, <3>2, <3>4, <4>1 DEF IsClose
    <3>5. CASE op.effect = "CLOSE"
      <4>1. op.qty <= PosAt(k)
        BY <1>1, <1>2, <3>5 DEF MemPos
      <4>2. PosAt(k) <= MaxQty
        BY <3>3, BoundsAssumption
      <4> QED BY <1>4, <3>2, <3>5, <4>1, <4>2 DEF IsClose
    <3> QED BY <1>7, <3>4, <3>5
  <2>3. outstanding_reservations' # {}
    BY <1>4, <1>5 DEF Unbound, outstanding_reservations
  <2>4. \A a \in ev'.unsent : flow'[a] = "halted"
    <3>1. ev.unsent \subseteq attempts
      BY <1>2 DEF StoreInv, EvInv
    <3> QED BY <1>2, <1>4, <1>7, <3>1 DEF SettledInv
  <2> QED BY <1>4, <2>1, <2>2, <2>3, <2>4 DEF SettledInv
<1>10. SeqInv'
  <2> DEFINE x == Transition(n, "COMMITTED_UNBOUND", "commit", n)
  <2>1. x \in Row /\ x.res = n /\ log' = Append(log, x)
    BY <1>3, <1>4 DEF CommitStep, Transition, Row, States
  <2> HIDE DEF x
  <2>2. ASSUME NEW a \in attempts
        PROVE  /\ first_seq(a)' = first_seq(a) /\ RowsOf(a)' = RowsOf(a)
               /\ RowsOf(a) \subseteq 1..tip /\ first_seq(a) \in 1..tip
               /\ IsClose(a)' <=> IsClose(a)
    <3>1. RowsOf(a) # {}
      BY <1>2 DEF RowInv
    <3>2. first_seq(a)' = first_seq(a)
      BY <1>2, <2>1, <3>1, LogAppends
    <3>3. RowsIn(log', a) = RowsIn(log, a)
      BY <1>2, <1>4, <2>1, RowsAppended DEF StoresTyped
    <3>4. RowsOf(a)' = RowsOf(a)
      BY <3>3 DEF RowsOf, RowsIn
    <3>5. RowsOf(a) \subseteq 1..tip /\ first_seq(a) \in 1..tip
      BY <1>2, FirstIs, AttemptsAre DEF RowsOf
    <3> QED BY <1>4, <3>2, <3>4, <3>5 DEF IsClose
  <2> SUFFICES ASSUME NEW a \in attempts', NEW r \in attempts', a < r
               PROVE  /\ first_seq(a)' < first_seq(r)'
                      /\ IsClose(a)' => \A i \in RowsOf(a)' : i < first_seq(r)'
    BY DEF SeqInv
  <2>3. a \in attempts
    BY <1>4, <1>6
  <2>4. CASE r \in attempts
    BY <1>2, <2>2, <2>3, <2>4 DEF SeqInv
  <2>5. CASE r = n
    <3>1. first_seq(r)' = tip + 1
      BY <1>4, <1>5, <2>5
    <3>2. first_seq(a)' \in 1..tip /\ RowsOf(a)' \subseteq 1..tip
      BY <2>2, <2>3
    <3> QED BY <1>4, <3>1, <3>2
  <2> QED BY <1>4, <2>4, <2>5
<1>11. /\ mem'[p].job.pc = "flow" /\ \A q \in Procs : q # p => mem'[q] = mem[q]
  <2> DEFINE j == [Idle EXCEPT !.pc = "flow", !.a = n]
             k == [mem EXCEPT ![p].job = j]
             h == [attempt |-> n, sent |-> FALSE]
  <2>1. j.pc = "flow"
    BY DEF Idle
  <2>2. mem' = [k EXCEPT ![p].held = h]
    BY DEF AtomicCommit
  <2> HIDE DEF j, h
  <2>3. k[p].job = j /\ DOMAIN k = Procs /\ \A q \in Procs : q # p => k[q] = mem[q]
    BY <1>2 DEF MemType
  <2> HIDE DEF k
  <2>4. mem'[p].job = k[p].job /\ \A q \in Procs : q # p => mem'[q] = k[q]
    BY <2>2, <2>3
  <2> QED BY <2>1, <2>3, <2>4
<1>12. ASSUME NEW q \in Procs, NEW l \in MemType, mem'[q] = l PROVE MemPos(l)'
  <2>1. CASE q = p
    BY <1>11, <1>12, <2>1 DEF MemPos
  <2>2. CASE q # p
    <3>1. mem[q] = l
      BY <1>11, <1>12, <2>2
    <3>2. MemInv(l) /\ MemPos(l)
      BY <3>1 DEF IInv, ProcInv, PosInv, ProcPos
    <3>3. l.job.pc \in {"commit", "discharge_commit"} => l.job.at.tip # tip'
      <4>1. l.job.pc \in {"commit", "discharge_commit"} => l.job.at \in Where /\ l.job.at.tip <= tip
        BY <3>2 DEF MemInv, CommitInv, BindInv
      <4>2. l.job.at \in Where => l.job.at.tip \in Nat
        BY DEF Where
      <4> QED BY <1>4, <4>1, <4>2
    <3>4. ASSUME l.job.pc \in {"discharge", "discharge_commit"} PROVE PosAt(l.job.a)' = 0
      <4>1. l.job.a \in attempts
        BY <3>2, <3>4 DEF MemInv, JobInv, Filling, After, Discharging
      <4> PICK k \in 0..Len(orders) : k = l.job.a
        BY <1>6, <4>1
      <4>2. PosAt(k)' = PosAt(k) /\ PosAt(k) = 0
        BY <1>8, <3>2, <3>4 DEF MemPos
      <4> QED BY <4>2
    <3> QED BY <3>3, <3>4 DEF MemPos
  <2> QED BY <2>1, <2>2
<1>13. ASSUME NEW q \in Procs PROVE ProcPos(q)'
  BY <1>12 DEF ProcPos
<1> QED BY <1>9, <1>10, <1>13 DEF PosInv

-----------------------------------------------------------------------------
(* The invariant holds *)

\* With no order the scope is flat and nothing was read.
LEMMA PosInit ==
    Init => PosInv
<1> SUFFICES ASSUME Init PROVE PosInv
  OBVIOUS
<1>1. attempts = {} /\ Len(orders) = 0 /\ ev.unsent = {}
  BY DEF Init, attempts
<1>2. IInv
  BY InvInit
<1>3. PosAt(0) = 0
  BY <1>2, PosSteps DEF IInv, TInv
<1>4. SettledInv /\ SeqInv
  BY <1>1, <1>3 DEF SettledInv, SeqInv
<1>5. ASSUME NEW p \in Procs PROVE ProcPos(p)
  <2>1. mem[p] = Down
    BY DEF Init
  <2>2. Down.job.pc \notin Heavy
    BY LightJobs DEF Down
  <2> QED BY <2>1, <2>2 DEF ProcPos, MemPos, Heavy
<1> QED BY <1>4, <1>5 DEF PosInv

\* A step that changes nothing keeps what was read of the position.
LEMMA PosStutters ==
    ASSUME IInv, IInv', PosInv, UNCHANGED vars
    PROVE  PosInv'
<1>1. UNCHANGED <<log, orders, flow, broker, epoch, ev, mem>>
  BY DEF vars
<1>2. epoch <= epoch' /\ \A a \in ev'.unsent : flow'[a] = "halted"
  BY <1>1, BoundsAssumption DEF IInv, TInv, StoresTyped, PosInv, SettledInv
<1>3. /\ \A a \in Attempt : broker'[a].filled # broker[a].filled =>
            a \in attempts /\ ~FullFill(a) /\ flow[a] # "halted"
      /\ \A q \in Procs : \A m \in MemType : mem'[q] = m => mem[q] = m \/ MemPos(m)'
  BY <1>1
<1> QED BY <1>1, <1>2, <1>3, PosFrame

\* Every step keeps it.
LEMMA PosNext ==
    ASSUME IInv, IInv', PosInv, [Next]_vars
    PROVE  PosInv'
<1>1. ASSUME NEW p \in Procs, Work(p) PROVE PosInv'
  <2>1. CASE AtomicCommit(p) \/ CommitRefused(p)
    BY <2>1, PosAtomicCommit, LightMoves
  <2>2. CASE Flow(p)
    BY <2>2, LightFlow, LightMoves DEF Flow
  <2>3. CASE UnsentPass(p)
    BY <2>3, LightMoves, PosUnsentRelease, LightUnsent DEF UnsentPass
  <2>4. CASE Observe(p)
    BY <2>4, LightMoves, LightItems, LightPolls DEF Observe
  <2>5. CASE Project(p)
    BY <2>5, LightRows, LightConsumes DEF Project
  <2>6. CASE Release(p)
    BY <2>6, LightConsumes, LightRows, PosCommitRelease, LightMoves DEF Release
  <2>7. CASE DischargeRefused(p)
    <3>1. AfterRefusal(p) /\ UNCHANGED <<log, orders, flow, broker, epoch>>
      BY <2>7 DEF DischargeRefused
    <3> QED BY <3>1, LightRefusal
  <2>8. CASE DischargeHistory(p) \/ DischargeIntent(p) \/ CommitDischarge(p)
    BY <2>8, PosDischargeHistory, PosDischargeIntent, PosCommitDischarge
  <2> QED BY <1>1, <2>1, <2>2, <2>3, <2>4, <2>5, <2>6, <2>7, <2>8 DEF Work, Discharge
<1>2. ASSUME NEW p \in Procs, Boot(p) \/ Crash(p) \/ VerifyLedger(p) \/ Poll(p) PROVE PosInv'
  BY <1>2, LightBoot, LightCrash, PosVerifyLedger, LightPolls
<1>3. ASSUME NEW a \in attempts, BrokerFills(a) \/ BrokerCancels(a) PROVE PosInv'
  BY <1>3, BrokerKeeps
<1>4. CASE UNCHANGED vars
  BY <1>4, PosStutters
<1> QED BY <1>1, <1>2, <1>3, <1>4 DEF Next

\* What the processes read of the position stays true while they act on it: every
\* OPEN starts from a flat scope, every CLOSE fits, and an entry is discharged only
\* over a flat scope (close_bound.py, close_history.py, entry_recovery.py).
THEOREM PositionInvariant ==
    Spec => [](IInv /\ PosInv)
<1>1. Init => IInv /\ PosInv
  BY InvInit, PosInit
<1>2. ASSUME IInv, PosInv, [Next]_vars PROVE IInv' /\ PosInv'
  BY <1>2, InvNext, PosNext
<1> QED BY <1>1, <1>2, PTL DEF Spec

-----------------------------------------------------------------------------
(* What the invariant says *)

\* The position at the broker is that of all orders.
LEMMA PositionIs ==
    Position(broker) = PosAt(Len(orders))
BY DEF Position, Signed, PosAt, Net, Terms, attempts

\* Whatever the broker still owes has capacity in the log: no released order can
\* fill, and with nothing outstanding the position is flat, although the release
\* consumer, the discharge and the unsent pass act on snapshots and histories
\* that are old when they append.
THEOREM ExposureHolds ==
    Spec => []ExposureIsReserved
<1>1. ASSUME IInv, PosInv PROVE ExposureIsReserved
  <2>1. StoresTyped /\ BrokerInv /\ ReleasedInv /\ SettledInv
    BY <1>1 DEF IInv, TInv, StoreInv, PosInv
  <2>2. ASSUME NEW a \in attempts, Released(a) PROVE ~broker[a].live
    <3>1. CASE flow[a] = "halted"
      BY <2>1, <3>1 DEF BrokerInv, NoOrder
    <3>2. CASE flow[a] # "halted"
      <4>1. FullFill(a)
        BY <2>1, <2>2, <3>2 DEF ReleasedInv
      <4>2. broker[a].filled = orders[a].qty /\ orders[a].qty \in 1..MaxQty
        BY <2>1, <4>1, PosSteps DEF BrokerInv
      <4>3. broker[a].live => broker[a].filled < orders[a].qty
        BY <2>1 DEF BrokerInv
      <4>4. ~(broker[a].filled < orders[a].qty)
        BY <4>2, BoundsAssumption
      <4> QED BY <4>3, <4>4
    <3> QED BY <3>1, <3>2
  <2>3. outstanding_reservations = {} => Position(broker) = 0
    BY <2>1, PositionIs DEF SettledInv
  <2> QED BY <2>2, <2>3 DEF ExposureIsReserved
<1> QED BY <1>1, PositionInvariant, PTL

\* The closes of an entry never exceed what it filled and no second entry is
\* stacked on it, although each close is admitted from a history that is read
\* before the commit (riskstate/close_bound.py).
THEOREM NeverShortHolds ==
    Spec => []NeverShort
<1>1. ASSUME IInv, PosInv PROVE NeverShort
  BY <1>1, PosBounds, PositionIs DEF NeverShort
<1> QED BY <1>1, PositionInvariant, PTL
=============================================================================
