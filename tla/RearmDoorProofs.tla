-------------------------- MODULE RearmDoorProofs --------------------------
(***************************************************************************)
(* Proofs about the evidence store, its key rotation and the operator's    *)
(* door, for every number of processes, rows, generations and principals.  *)
(***************************************************************************)
EXTENDS RearmDoorProps, NatSetInduction, FiniteSetTheorems

-----------------------------------------------------------------------------
(* The quorum: collapsed principals are the components of the control graph *)

\* A set that no link of control leaves or enters.
LinkClosed(C) ==
    C \subseteq Principals /\ \A x, y \in Principals : Linked(x, y) => (x \in C <=> y \in C)

\* f has the principals within n links of each, up to the n-th.
Reaches(f, n) ==
    f = [ i \in 0..n |->
            IF i = 0 THEN [ x \in Principals |-> {x} ]
            ELSE [ x \in Principals |->
                     f[i - 1][x] \cup
                     { y \in Principals : \E z \in f[i - 1][x] : Linked(z, y) } ] ]

\* The principals within one link of those in g.
Further(g) ==
    [ x \in Principals |-> g[x] \cup { y \in Principals : \E z \in g[x] : Linked(z, y) } ]

\* The recursion of the collapse has a solution for every number of links.
LEMMA ReachExists == \A n \in Nat : \E f : Reaches(f, n)
<1> DEFINE Bad == {n \in Nat : ~ \E f : Reaches(f, n)}
<1>1. SUFFICES ASSUME Bad # {} PROVE FALSE
  OBVIOUS
<1>2. PICK n \in Bad : \A m \in Bad : n <= m
  <2>1. Bad \subseteq Nat
    OBVIOUS
  <2> HIDE DEF Bad
  <2> QED BY <1>1, <2>1, LeastNat
<1>3. n # 0
  <2> DEFINE f == [i \in 0..0 |-> [ x \in Principals |-> {x} ]]
  <2>1. Reaches(f, 0)
    BY DEF Reaches
  <2> HIDE DEF f
  <2> QED BY <2>1
<1>4. PICK f : Reaches(f, n - 1)
  BY <1>2, <1>3
<1> DEFINE g == [i \in 0..n |-> IF i < n THEN f[i] ELSE Further(f[n - 1])]
<1>5. ASSUME NEW i \in 0..n
      PROVE  g[i] = IF i = 0 THEN [ x \in Principals |-> {x} ] ELSE Further(g[i - 1])
  <2>1. CASE i = n
    BY <2>1, <1>2, <1>3
  <2>2. CASE i # n
    <3>1. i \in 0..(n - 1) /\ g[i] = f[i]
      BY <2>2, <1>2
    <3>2. i # 0 => i - 1 \in 0..n /\ i - 1 < n /\ g[i - 1] = f[i - 1]
      BY <3>1, <1>2
    <3>3. f[i] = IF i = 0 THEN [ x \in Principals |-> {x} ] ELSE Further(f[i - 1])
      BY <3>1, <1>4 DEF Reaches, Further
    <3> HIDE DEF g
    <3> QED BY <3>1, <3>2, <3>3
  <2> QED BY <2>1, <2>2
<1>6. g = [i \in 0..n |-> g[i]]
  OBVIOUS
<1> HIDE DEF g
<1>7. g = [i \in 0..n |-> IF i = 0 THEN [ x \in Principals |-> {x} ] ELSE Further(g[i - 1])]
  BY <1>5, <1>6
<1>8. Reaches(g, n)
  BY <1>7 DEF Reaches, Further
<1> QED BY <1>2, <1>8

\* What the collapse computes is the last state of the recursion.
LEMMA CollapseIsReach ==
    \E f : /\ Reaches(f, Cardinality(Principals))
           /\ effective_principal_collapse = f[Cardinality(Principals)]
<1> DEFINE N == Cardinality(Principals)
           r == CHOOSE f : f =
                  [ i \in 0..N |->
                     IF i = 0 THEN [ x \in Principals |-> {x} ]
                     ELSE [ x \in Principals |->
                              f[i - 1][x] \cup
                              { y \in Principals : \E z \in f[i - 1][x] : Linked(z, y) } ] ]
<1>1. N \in Nat
  BY FilesAreTyped, FS_CardinalityType
<1>2. r = [ i \in 0..N |->
             IF i = 0 THEN [ x \in Principals |-> {x} ]
             ELSE [ x \in Principals |->
                      r[i - 1][x] \cup
                      { y \in Principals : \E z \in r[i - 1][x] : Linked(z, y) } ] ]
  BY <1>1, ReachExists DEF Reaches
<1>3. effective_principal_collapse = r[N]
  BY DEF effective_principal_collapse
<1> HIDE DEF r
<1> QED BY <1>2, <1>3 DEF Reaches

\* The collapse of a principal is its component: the least closed set with it.
\* (Until nobody new is reached, each further link adds one principal.)
LEMMA CollapseIsComponent ==
    ASSUME NEW a \in Principals
    PROVE  /\ a \in effective_principal_collapse[a]
           /\ LinkClosed(effective_principal_collapse[a])
           /\ \A C : LinkClosed(C) /\ a \in C => effective_principal_collapse[a] \subseteq C
<1> DEFINE N == Cardinality(Principals)
<1>1. N \in Nat /\ IsFiniteSet(Principals)
  BY FilesAreTyped, FS_CardinalityType
<1>2. PICK f : Reaches(f, N) /\ effective_principal_collapse = f[N]
  BY CollapseIsReach
<1>3. f[0][a] = {a}
  BY <1>1, <1>2 DEF Reaches
<1>4. ASSUME NEW i \in 0..N, i < N
      PROVE  /\ i + 1 \in 0..N
             /\ f[i + 1][a] = f[i][a] \cup { y \in Principals : \E z \in f[i][a] : Linked(z, y) }
  <2>1. i + 1 \in 0..N /\ i + 1 # 0 /\ (i + 1) - 1 = i
    BY <1>1, <1>4
  <2>2. f[i + 1] = [ x \in Principals |->
                       f[i][x] \cup { y \in Principals : \E z \in f[i][x] : Linked(z, y) } ]
    BY <1>2, <2>1 DEF Reaches
  <2> QED BY <2>1, <2>2
<1> DEFINE S == { i \in 0..N : /\ f[i][a] \subseteq Principals /\ a \in f[i][a]
                               /\ LinkClosed(f[i][a]) \/ Cardinality(f[i][a]) >= i + 1 }
<1>5. 0 \in S
  BY <1>1, <1>3, FS_Singleton
<1>6. ASSUME NEW i \in 0..N, i \in S, i < N
      PROVE  i + 1 \in S
  <2> DEFINE A == f[i][a]
             B == f[i + 1][a]
  <2>1. /\ A \subseteq Principals /\ a \in A
        /\ LinkClosed(A) \/ Cardinality(A) >= i + 1
    BY <1>6
  <2>2. B = A \cup { y \in Principals : \E z \in A : Linked(z, y) } /\ i + 1 \in 0..N
    BY <1>4, <1>6
  <2> HIDE DEF A, B
  <2>3. A \subseteq B /\ B \subseteq Principals
    BY <2>1, <2>2
  <2>4. LinkClosed(B) \/ Cardinality(B) >= (i + 1) + 1
    <3>1. CASE LinkClosed(A)
      <4>1. B = A
        BY <2>1, <2>2, <3>1 DEF LinkClosed
      <4> QED BY <3>1, <4>1
    <3>2. CASE ~LinkClosed(A)
      <4>1. PICK x, y \in Principals : Linked(x, y) /\ ~(x \in A <=> y \in A)
        BY <2>1, <3>2 DEF LinkClosed
      <4>2. \E y1 \in B : y1 \notin A
        BY <2>2, <4>1 DEF Linked
      <4>3. IsFiniteSet(A) /\ IsFiniteSet(B) /\ A # B
        BY <1>1, <2>1, <2>3, <4>2, FS_Subset
      <4>4. Cardinality(A) \in Nat /\ Cardinality(B) \in Nat /\ Cardinality(A) < Cardinality(B)
        BY <2>3, <4>3, FS_Subset, FS_CardinalityType
      <4>5. Cardinality(A) >= i + 1
        BY <2>1, <3>2
      <4> QED BY <1>1, <4>4, <4>5
    <3> QED BY <3>1, <3>2
  <2> QED BY <2>1, <2>2, <2>3, <2>4 DEF A, B
<1>7. N \in S
  <2> HIDE DEF S, N
  <2>1. \A i \in 0..N : i \in S /\ i < N => i + 1 \in S
    BY <1>6
  <2>2. \A i \in 0..N : i \in S
    BY <1>1, <1>5, <2>1, SetInduction
  <2> QED BY <1>1, <2>2
<1>8. a \in f[N][a] /\ LinkClosed(f[N][a])
  <2>1. /\ f[N][a] \subseteq Principals /\ a \in f[N][a]
        /\ LinkClosed(f[N][a]) \/ Cardinality(f[N][a]) >= N + 1
    BY <1>7
  <2>2. Cardinality(f[N][a]) <= N /\ Cardinality(f[N][a]) \in Nat
    BY <1>1, <2>1, FS_Subset, FS_CardinalityType
  <2> QED BY <1>1, <2>1, <2>2
<1>9. ASSUME NEW C, LinkClosed(C), a \in C
      PROVE  f[N][a] \subseteq C
  <2> DEFINE T == { i \in 0..N : f[i][a] \subseteq C }
  <2>1. 0 \in T
    BY <1>1, <1>3, <1>9
  <2>2. ASSUME NEW i \in 0..N, i \in T, i < N
        PROVE  i + 1 \in T
    <3>1. f[i][a] \subseteq C
      BY <2>2
    <3>2. i + 1 \in 0..N
          /\ f[i + 1][a] = f[i][a] \cup { y \in Principals : \E z \in f[i][a] : Linked(z, y) }
      BY <1>4, <2>2
    <3>3. f[i + 1][a] \subseteq C
      BY <1>9, <3>1, <3>2 DEF LinkClosed
    <3> QED BY <3>2, <3>3
  <2>3. N \in T
    <3> HIDE DEF T, N
    <3>1. \A i \in 0..N : i \in T /\ i < N => i + 1 \in T
      BY <2>2
    <3>2. \A i \in 0..N : i \in T
      BY <1>1, <2>1, <3>1, SetInduction
    <3> QED BY <1>1, <3>2
  <2> QED BY <2>3
<1> QED BY <1>2, <1>8, <1>9

\* Two attesters of a quorum answer to different persons: nothing joins them.
LEMMA QuorumIsIndependent ==
    ASSUME NEW f \in Files, quorum_independence_satisfied(f)
    PROVE  \E a, b \in Who(f) : Independent(a, b)
<1>1. /\ f \in Seq([ who : Principals, decision : { "APPROVE", "DENY", "ABSTAIN" } ])
      /\ Len(f) >= 2
  BY FilesAreTyped DEF quorum_independence_satisfied
<1>2. 1 \in DOMAIN f /\ 2 \in DOMAIN f
  BY <1>1
<1> DEFINE a == f[1].who
           b == f[2].who
           c == effective_principal_collapse
<1>3. a \in Who(f) /\ b \in Who(f) /\ a \in Principals /\ b \in Principals
  <2> DEFINE A == [ who : Principals, decision : { "APPROVE", "DENY", "ABSTAIN" } ]
  <2>1. f \in Seq(A) /\ \A x \in A : x.who \in Principals
    BY <1>1
  <2> HIDE DEF A
  <2>2. f[1] \in A /\ f[2] \in A
    BY <1>2, <2>1
  <2>3. f[1].who \in Principals /\ f[2].who \in Principals
    BY <2>1, <2>2
  <2> QED BY <1>2, <2>3 DEF Who
<1>4. c[a] # c[b]
  BY <1>2 DEF quorum_independence_satisfied
<1> HIDE DEF a, b, c
<1>5. /\ a \in c[a] /\ LinkClosed(c[a]) /\ \A C : LinkClosed(C) /\ a \in C => c[a] \subseteq C
      /\ b \in c[b] /\ LinkClosed(c[b]) /\ \A C : LinkClosed(C) /\ b \in C => c[b] \subseteq C
  BY <1>3, CollapseIsComponent DEF c
<1>6. b \notin c[a]
  <2> SUFFICES ASSUME b \in c[a] PROVE FALSE
    OBVIOUS
  <2>1. c[b] \subseteq c[a]
    BY <1>5
  <2>2. CASE a \in c[b]
    BY <1>4, <1>5, <2>1, <2>2
  <2>3. CASE a \notin c[b]
    <3>1. LinkClosed(Principals \ c[b]) /\ a \in Principals \ c[b]
      BY <1>3, <1>5, <2>3 DEF LinkClosed
    <3>2. c[a] \subseteq Principals \ c[b]
      BY <1>5, <3>1
    <3> QED BY <1>5, <3>2
  <2> QED BY <2>2, <2>3
<1>7. \A e \in ControlEdges : e[1] \in c[a] <=> e[2] \in c[a]
  <2> SUFFICES ASSUME NEW e \in ControlEdges PROVE e[1] \in c[a] <=> e[2] \in c[a]
    OBVIOUS
  <2>1. e[1] \in Principals /\ e[2] \in Principals /\ e = << e[1], e[2] >>
    BY FilesAreTyped
  <2> QED BY <1>5, <2>1 DEF LinkClosed, Linked
<1>8. Independent(a, b)
  BY <1>3, <1>5, <1>6, <1>7 DEF Independent, LinkClosed
<1> QED BY <1>3, <1>8

-----------------------------------------------------------------------------
(* The inductive invariants *)

Kinds ==
    { "RECORD", "HALT", "EVENT_CONSUMED", "INCIDENT_CANDIDATE", "CONTROLLED_SHUTDOWN_STARTED",
      "KEY_ROTATION", "KEY_ROTATION_RCL_UNRECORDED", "REARM_APPROVED", "REARM_REFUSED",
      "NEW_RISK_HALT_CLEARED_BY_OPERATOR", "NEW_RISK_HALT_CLEAR_REFUSED" }

Entry == [ kind : Kinds, gen : Nat, ref : Nat, by : Files \cup {None} ]

Places ==
    { "down", "checked", "open", "halting", "judged", "halted", "denying", "stopping",
      "rotated", "recording", "unrecorded", "asked", "quorum", "approved", "clearing",
      "declined" }

Process ==
    [ pc : Places, cmd : { "run", "rearm", "rotate", None }, gen : Nat, ref : Nat,
      note : Files \cup { "CONTINUOUS", "ROTATION_PENDING", None } ]

\* The kinds of the variables: the key files have no gaps, a boot's check leaves
\* its verdict, a quorum leaves its file.
TInv ==
    /\ \E k \in Nat \ {0} : keys = 1..k
    /\ entries \in Seq(Entry)
    /\ proc \in [ Procs -> Process ]
    /\ \A p \in Procs :
          /\ At(p, "checked") => \/ proc[p].note = "CONTINUOUS"
                                 \/ proc[p].note = "ROTATION_PENDING" /\ entries # << >>
          /\ At(p, "quorum") => proc[p].note \in Files

\* The row named by s says why new risk stops, with what must go with it.
Traced(s) ==
    /\ s \in DOMAIN entries
    /\ \/ entries[s].kind = "HALT" /\ \E l \in emergency : l.seq = s
       \/ entries[s].kind = "EVENT_CONSUMED" /\ Rows("INCIDENT_CANDIDATE", s) # {}
       \/ entries[s].kind = "CONTROLLED_SHUTDOWN_STARTED"

\* A process on its way to the latch has written what the latch will name.
TraceInv ==
    /\ latch # None => Traced(latch)
    /\ \A l \in emergency :
          l.seq \in DOMAIN entries /\ entries[l.seq].kind = "HALT" /\ entries[l.seq].gen = l.gen
    /\ \A p \in Procs :
          /\ At(p, "halting") =>
                /\ proc[p].ref \in DOMAIN entries
                /\ entries[proc[p].ref].kind = "HALT" /\ entries[proc[p].ref].gen = proc[p].gen
          /\ At(p, "judged") =>
                proc[p].ref \in DOMAIN entries /\ entries[proc[p].ref].kind = "EVENT_CONSUMED"
          /\ proc[p].pc \in { "halted", "denying" } => Traced(proc[p].ref)

\* Row i approves the clear of s by a quorum.
Approves(i, s) ==
    /\ i \in Rows("REARM_APPROVED", s)
    /\ entries[i].by \in Files /\ quorum_independence_satisfied(entries[i].by)

ClearOnRecord(s) ==
    \E i, j \in DOMAIN entries :
        i < j /\ Approves(i, s) /\ j \in Rows("NEW_RISK_HALT_CLEARED_BY_OPERATOR", s)

\* A process in the door has the quorum, then its record, then the clear's.
DoorInv ==
    /\ \A s \in cleared : ClearOnRecord(s)
    /\ \A p \in Procs :
          /\ At(p, "quorum") => quorum_independence_satisfied(proc[p].note)
          /\ At(p, "approved") => \E i \in DOMAIN entries : Approves(i, proc[p].ref)
          /\ At(p, "clearing") => ClearOnRecord(proc[p].ref)

\* Every row, and every process that can sign one, has a key that is there; a
\* rotation is signed with the key it is to, and is on record before the RCL
\* hears of it.
KeyInv ==
    /\ \A j \in DOMAIN entries : entries[j].gen \in keys
    /\ \A i \in Rotations : entries[i].ref = entries[i].gen
    /\ \A g \in rcl : tip_has_rotation_commit_for(g)
    /\ \A p \in Procs :
          /\ ~At(p, "down") /\ ~At(p, "checked") => proc[p].gen \in keys
          /\ At(p, "rotated") \/ At(p, "recording") => tip_has_rotation_commit_for(proc[p].ref)

-----------------------------------------------------------------------------
(* What a step writes *)

Step(p) == (StoreStep(p) /\ UNCHANGED doorVars) \/ DoorStep(p)

\* The newest of key files without gaps.
LEMMA MaxKeys == \A k \in Nat \ {0} : Max(1..k) = k /\ Cardinality(1..k) = k
<1> SUFFICES ASSUME NEW k \in Nat \ {0} PROVE Max(1..k) = k /\ Cardinality(1..k) = k
  OBVIOUS
<1>1. k \in 1..k /\ \A y \in 1..k : k >= y
  OBVIOUS
<1>2. \A x \in 1..k : (\A y \in 1..k : x >= y) => x = k
  BY <1>1
<1>3. Max(1..k) = k
  BY <1>1, <1>2 DEF Max
<1>4. Cardinality(1..k) = k
  BY FS_Interval
<1> QED BY <1>3, <1>4

\* The boot's verdict, and the generation it leads to, are of their kinds.
LEMMA VerdictTyped ==
    ASSUME TInv
    PROVE  /\ Max(keys) \in Nat \ {0} /\ keys = 1..Max(keys)
           /\ entries # << >> => tip_key_generation \in Nat
           /\ tip_key_generation # None <=> entries # << >>
           /\ \A cmd, g :
                verify_key_generation_continuity = "CONTINUOUS" \/ rotation_permitted(cmd, g) =>
                  \/ verify_key_generation_continuity = "CONTINUOUS"
                  \/ /\ verify_key_generation_continuity = "ROTATION_PENDING"
                     /\ entries # << >>
<1>1. PICK k \in Nat \ {0} : keys = 1..k
  BY DEF TInv
<1>2. Max(keys) = k
  BY <1>1, MaxKeys
<1>3. entries # << >> => entries[Len(entries)].gen \in Nat
  <2> SUFFICES ASSUME entries # << >> PROVE entries[Len(entries)].gen \in Nat
    OBVIOUS
  <2>1. entries \in Seq(Entry)
    BY DEF TInv
  <2>2. entries[Len(entries)] \in Entry
    BY <2>1
  <2> QED BY <2>2 DEF Entry
<1>4. /\ entries # << >> => tip_key_generation \in Nat
      /\ tip_key_generation # None <=> entries # << >>
  BY <1>3, StoreConstants DEF tip_key_generation
<1> QED BY <1>1, <1>2, <1>4 DEF rotation_permitted

\* A row that a step appends.
LEMMA AppendTyped ==
    ASSUME TInv, NEW k \in Kinds, NEW g \in Nat, NEW r \in Nat, NEW b \in Files \cup {None},
           append(k, g, r, b)
    PROVE  \E e \in Entry : /\ entries' = Append(entries, e) /\ e.kind = k /\ e.gen = g
                            /\ e.ref = r /\ e.by = b
<1>1. Row(k, g, r, b) \in Entry
  BY DEF Row, Entry
<1> QED BY <1>1 DEF append, Row

\* What an appended row leaves and adds.
LEMMA AppendEffect ==
    ASSUME TInv, NEW e \in Entry, entries' = Append(entries, e)
    PROVE  /\ entries' \in Seq(Entry) /\ entries' # << >> /\ Len(entries) \in Nat
           /\ DOMAIN entries = 1..Len(entries) /\ DOMAIN entries' = 1..(Len(entries) + 1)
           /\ Len(entries') = Len(entries) + 1
           /\ \A i \in DOMAIN entries : entries'[i] = entries[i]
           /\ entries'[Len(entries) + 1] = e
<1>1. entries \in Seq(Entry) /\ Len(entries) \in Nat
  BY DEF TInv
<1> HIDE DEF Entry
<1> QED BY <1>1

\* A step of a process leaves the others alone, and the store's rows.
LEMMA StepFrame ==
    ASSUME TInv, NEW p \in Procs, Step(p)
    PROVE  /\ \E r \in Process : proc' = [ proc EXCEPT ![p] = r ]
           /\ entries' = entries \/ \E e \in Entry : entries' = Append(entries, e)
           /\ keys' = keys /\ emergency \subseteq emergency' /\ rcl \subseteq rcl'
<1>1. /\ proc \in [ Procs -> Process ] /\ entries \in Seq(Entry) /\ Len(entries) \in Nat
      /\ proc[p] \in Process
  BY DEF TInv
<1>2. /\ proc[p].pc \in Places /\ proc[p].cmd \in { "run", "rearm", "rotate", None }
      /\ proc[p].gen \in Nat /\ proc[p].ref \in Nat
      /\ proc[p].note \in Files \cup { "CONTINUOUS", "ROTATION_PENDING", None }
  BY <1>1 DEF Process
<1>2a. Len(entries) + 1 \in Nat /\ DOMAIN entries \subseteq Nat /\ 2..MaxGen \subseteq Nat
  BY <1>1
<1> DEFINE Moves == \E r \in Process : proc' = [ proc EXCEPT ![p] = r ]
           Writes == entries' = entries \/ \E e \in Entry : entries' = Append(entries, e)
<1> SUFFICES Moves /\ Writes /\ keys' = keys /\ emergency \subseteq emergency' /\ rcl \subseteq rcl'
  OBVIOUS
<1>3. ASSUME NEW pc \in Places, Goto(p, pc)
      PROVE  Moves
  <2>1. [ proc[p] EXCEPT !.pc = pc ] \in Process
    BY <1>1, <1>3 DEF Process
  <2> QED BY <1>3, <2>1 DEF Goto
<1>4. Down \in Process
  BY DEF Down, Process, Places
<1>5. proc' = proc => Moves
  BY <1>1
<1>6. ASSUME NEW k \in Kinds, NEW g \in Nat, NEW r \in Nat, NEW b \in Files \cup {None},
             append(k, g, r, b)
      PROVE  Writes
  BY <1>6, AppendTyped
<1>7. ASSUME NEW cmd \in { "run", "rearm", "rotate" }, NEW g \in Nat, Open(p, cmd, g)
      PROVE  Moves
  <2>1. verify_key_generation_continuity \in { "CONTINUOUS", "ROTATION_PENDING" }
    BY <1>7, VerdictTyped DEF Open
  <2>2. [ pc |-> "checked", cmd |-> cmd, gen |-> 0, ref |-> g,
          note |-> verify_key_generation_continuity ] \in Process
    BY <1>7, <2>1 DEF Process, Places
  <2> QED BY <1>7, <2>2 DEF Open
<1>8. ASSUME ResolveSigningKey(p)
      PROVE  Moves
  <2>1. resolve_signing_key(p) \in Nat
    BY <1>8, VerdictTyped DEF ResolveSigningKey, resolve_signing_key, TInv
  <2>2. [ proc[p] EXCEPT !.pc = "open", !.gen = resolve_signing_key(p), !.note = None ]
           \in Process
    BY <1>1, <2>1 DEF Process, Places
  <2> QED BY <1>8, <2>2 DEF ResolveSigningKey
<1>9. ASSUME EndDoor(p)
      PROVE  Moves
  <2>1. [ proc[p] EXCEPT !.pc = "open", !.ref = 0, !.note = None ] \in Process
    BY <1>1 DEF Process, Places
  <2> QED BY <1>4, <1>9, <2>1 DEF EndDoor
<1>10. ASSUME NEW pc \in Places, NEW r \in Nat,
              proc' = [ proc EXCEPT ![p].pc = pc, ![p].ref = r ]
       PROVE  Moves
  <2>1. [ proc[p] EXCEPT !.pc = pc, !.ref = r ] \in Process
    BY <1>1, <1>10 DEF Process
  <2> QED BY <1>10, <2>1
<1> HIDE DEF Moves, Writes
<1> USE DEF Kinds, Places
<1>11. CASE StoreStep(p)
  <2>1. CASE \E g \in 2..MaxGen : Open(p, "rotate", g)
    BY <1>2a, <1>7, <2>1 DEF Open, Writes
  <2>2. CASE \E cmd \in { "run", "rearm" } : Open(p, cmd, 0)
    BY <1>7, <2>2 DEF Open, Writes
  <2>3. CASE ResolveSigningKey(p)
    BY <1>8, <2>3 DEF ResolveSigningKey, Writes
  <2>4. CASE Stop(p) \/ RotateRefused(p)
    BY <1>4, <2>4 DEF Stop, RotateRefused, Moves, Writes
  <2>5. CASE Record(p)
    BY <1>2, <1>5, <1>6, <2>5 DEF Record
  <2>6. CASE record_halt(p)
    BY <1>2, <1>2a, <1>6, <1>10, <2>6 DEF record_halt
  <2>7. CASE EmergencyAppend(p)
    BY <1>3, <2>7 DEF EmergencyAppend, Writes
  <2>8. CASE Rotate(p)
    <3>1. [ proc[p] EXCEPT !.pc = "rotated", !.gen = proc[p].ref ] \in Process
      BY <1>1, <1>2 DEF Process
    <3> QED BY <1>2, <1>6, <2>8, <3>1 DEF Rotate, Moves
  <2>9. CASE RotationEvidence(p)
    BY <1>2, <1>3, <1>6, <2>9 DEF RotationEvidence
  <2>10. CASE RotationCommit(p)
    BY <1>4, <2>10 DEF RotationCommit, Moves, Writes
  <2>11. CASE RotationCommitFails(p)
    BY <1>3, <2>11 DEF RotationCommitFails, Writes
  <2>12. CASE RecordUnrecorded(p)
    BY <1>2, <1>4, <1>6, <2>12 DEF RecordUnrecorded, Moves
  <2> QED BY <1>11, <2>1, <2>2, <2>3, <2>4, <2>5, <2>6, <2>7, <2>8, <2>9, <2>10, <2>11, <2>12
          DEF StoreStep
<1>12. CASE DoorStep(p)
  <2>1. CASE JudgeRestrictive(p) \/ deny_before_stop(p)
    BY <1>2, <1>2a, <1>6, <1>10, <2>1 DEF JudgeRestrictive, deny_before_stop
  <2>2. CASE latch_restrictive(p)
    BY <1>2, <1>3, <1>6, <2>2 DEF latch_restrictive
  <2>3. CASE LatchHalt(p)
    BY <1>10, <2>3 DEF LatchHalt, AfterLatch, Writes
  <2>4. CASE \E seq \in DOMAIN entries : Ask(p, seq)
    BY <1>2a, <1>10, <2>4 DEF Ask, Writes
  <2>5. CASE \E seq \in DOMAIN entries : AskRefused(p, seq)
    BY <1>2, <1>6, <1>9, <2>5 DEF AskRefused
  <2>6. CASE \E f \in Files \cup {None} : Evaluate(p, f)
    <3>1. PICK f \in Files \cup {None} : Evaluate(p, f)
      BY <2>6
    <3>2. [ proc[p] EXCEPT !.pc = "quorum", !.note = f ] \in Process
      BY <1>1 DEF Process
    <3> QED BY <3>1, <3>2 DEF Evaluate, Moves, Writes
  <2>7. CASE \E f \in Files \cup {None} : EvaluateRefused(p, f)
    BY <1>2, <1>3, <1>6, <2>7 DEF EvaluateRefused
  <2>8. CASE RecordDeclined(p)
    BY <1>2, <1>6, <1>9, <2>8 DEF RecordDeclined
  <2>9. CASE ConsumeApproval(p)
    <3>1. proc[p].note \in Files
      BY <2>9 DEF ConsumeApproval, TInv
    <3> QED BY <1>2, <1>3, <1>6, <2>9, <3>1 DEF ConsumeApproval
  <2>10. CASE RecordCleared(p)
    BY <1>2, <1>3, <1>6, <2>10 DEF RecordCleared
  <2>11. CASE clear_new_risk_halt(p)
    BY <1>9, <2>11 DEF clear_new_risk_halt, Writes
  <2>12. CASE StorageRefused(p)
    BY <1>3, <2>12 DEF StorageRefused, Writes
  <2> QED BY <1>12, <2>1, <2>2, <2>3, <2>4, <2>5, <2>6, <2>7, <2>8, <2>9, <2>10, <2>11, <2>12
          DEF DoorStep
<1> QED BY <1>11, <1>12 DEF Step

\* The step that brings a process to each place.
LEMMA Arrivals ==
    ASSUME TInv, NEW p \in Procs, Step(p)
    PROVE  /\ At(p, "checked")' => \E cmd, g : Open(p, cmd, g)
           /\ At(p, "halting")' => record_halt(p)
           /\ At(p, "judged")' => JudgeRestrictive(p)
           /\ At(p, "halted")' => EmergencyAppend(p) \/ latch_restrictive(p)
           /\ At(p, "denying")' => deny_before_stop(p)
           /\ At(p, "quorum")' => \E f \in Files \cup {None} : Evaluate(p, f)
           /\ At(p, "approved")' => ConsumeApproval(p)
           /\ At(p, "clearing")' => RecordCleared(p)
           /\ At(p, "rotated")' => Rotate(p)
           /\ At(p, "recording")' => RotationEvidence(p)
           /\ At(p, "unrecorded")' => RotationCommitFails(p)
<1>1. proc \in [ Procs -> Process ] /\ proc[p] \in Process
  BY DEF TInv
<1>2. ASSUME NEW pc, Goto(p, pc)
      PROVE  proc'[p].pc = pc
  BY <1>1, <1>2 DEF Goto, Process
<1>3. ASSUME proc' = [ proc EXCEPT ![p] = Down ]
      PROVE  proc'[p].pc = "down"
  BY <1>1, <1>3 DEF Down
<1>4. ASSUME EndDoor(p)
      PROVE  proc'[p].pc \in { "open", "down" }
  BY <1>1, <1>4 DEF EndDoor, Down, Process
<1>5. ASSUME NEW pc, NEW r, proc' = [ proc EXCEPT ![p].pc = pc, ![p].ref = r ]
      PROVE  proc'[p].pc = pc
  BY <1>1, <1>5 DEF Process
<1>5a. ASSUME NEW cmd, NEW g, Open(p, cmd, g)
       PROVE  proc'[p].pc = "checked"
  BY <1>1, <1>5a DEF Open
<1>5b. ASSUME NEW f, Evaluate(p, f)
       PROVE  proc'[p].pc = "quorum"
  BY <1>1, <1>5b DEF Evaluate, Process
<1> USE DEF At
<1>6. CASE StoreStep(p)
  <2>1. CASE \E g \in 2..MaxGen : Open(p, "rotate", g)
    BY <1>5a, <2>1
  <2>2. CASE \E cmd \in { "run", "rearm" } : Open(p, cmd, 0)
    BY <1>5a, <2>2
  <2>3. CASE ResolveSigningKey(p)
    BY <1>1, <2>3 DEF ResolveSigningKey, Process
  <2>4. CASE Stop(p) \/ RotateRefused(p) \/ RotationCommit(p) \/ RecordUnrecorded(p)
    BY <1>3, <2>4 DEF Stop, RotateRefused, RotationCommit, RecordUnrecorded
  <2>5. CASE Record(p)
    BY <2>5 DEF Record
  <2>6. CASE record_halt(p)
    BY <1>5, <2>6 DEF record_halt
  <2>7. CASE EmergencyAppend(p) \/ RotationEvidence(p) \/ RotationCommitFails(p)
    BY <1>2, <2>7 DEF EmergencyAppend, RotationEvidence, RotationCommitFails
  <2>8. CASE Rotate(p)
    BY <1>1, <2>8 DEF Rotate, Process
  <2> QED BY <1>6, <2>1, <2>2, <2>3, <2>4, <2>5, <2>6, <2>7, <2>8 DEF StoreStep
<1>7. CASE DoorStep(p)
  <2>1. CASE JudgeRestrictive(p) \/ deny_before_stop(p)
    <3>1. \/ JudgeRestrictive(p) /\ proc'[p].pc = "judged"
          \/ deny_before_stop(p) /\ proc'[p].pc = "denying"
      BY <1>5, <2>1 DEF JudgeRestrictive, deny_before_stop
    <3> QED BY <3>1
  <2>2. CASE latch_restrictive(p) \/ ConsumeApproval(p) \/ RecordCleared(p) \/ StorageRefused(p)
    BY <1>2, <2>2 DEF latch_restrictive, ConsumeApproval, RecordCleared, StorageRefused
  <2>3. CASE LatchHalt(p)
    <3>1. proc'[p].pc \in { "open", "stopping" }
      BY <1>5, <2>3 DEF LatchHalt, AfterLatch
    <3> QED BY <3>1
  <2>4. CASE \E seq \in DOMAIN entries : Ask(p, seq) \/ AskRefused(p, seq)
    BY <1>4, <1>5, <2>4 DEF Ask, AskRefused
  <2>5. CASE \E f \in Files \cup {None} : Evaluate(p, f)
    BY <1>5b, <2>5
  <2>6. CASE \E f \in Files \cup {None} : EvaluateRefused(p, f)
    BY <1>2, <2>6 DEF EvaluateRefused
  <2>7. CASE RecordDeclined(p) \/ clear_new_risk_halt(p)
    BY <1>4, <2>7 DEF RecordDeclined, clear_new_risk_halt
  <2> QED BY <1>7, <2>1, <2>2, <2>3, <2>4, <2>5, <2>6, <2>7 DEF DoorStep
<1> QED BY <1>6, <1>7 DEF Step

\* The steps are the operator's staging of a key and those of the processes.
LEMMA Steps ==
    Next <=> (StageKey /\ UNCHANGED doorVars) \/ \E p \in Procs : Step(p)
  BY DEF Next, StoreNext, Step

\* The other processes stand still, and rows and lines stay.
LEMMA StoreGrows ==
    ASSUME TInv, NEW p \in Procs, Step(p)
    PROVE  /\ \A q \in Procs : q # p => proc'[q] = proc[q]
           /\ entries' \in Seq(Entry) /\ DOMAIN entries \subseteq DOMAIN entries'
           /\ \A i \in DOMAIN entries : entries'[i] = entries[i]
           /\ \A k, r : Rows(k, r) \subseteq Rows(k, r)'
           /\ emergency \subseteq emergency' /\ keys' = keys
<1>1. entries \in Seq(Entry) /\ proc \in [ Procs -> Process ]
  BY DEF TInv
<1>2. \A q \in Procs : q # p => proc'[q] = proc[q]
  BY <1>1, StepFrame
<1>3. /\ entries' \in Seq(Entry) /\ DOMAIN entries \subseteq DOMAIN entries'
      /\ \A i \in DOMAIN entries : entries'[i] = entries[i]
  <2>1. CASE entries' = entries
    BY <1>1, <2>1
  <2>2. CASE entries' # entries
    <3>1. PICK e \in Entry : entries' = Append(entries, e)
      BY <2>2, StepFrame
    <3> QED BY <3>1, AppendEffect
  <2> QED BY <2>1, <2>2
<1>4. \A k, r : Rows(k, r) \subseteq Rows(k, r)'
  BY <1>3 DEF Rows
<1> QED BY <1>2, <1>3, <1>4, StepFrame

\* Every variable stays of its kind.
LEMMA TypePreserved == ASSUME TInv, Next PROVE TInv'
<1>1. CASE StageKey /\ UNCHANGED doorVars
  <2>1. PICK k \in Nat \ {0} : keys = 1..k
    BY DEF TInv
  <2>2. Max(keys) = k
    BY <2>1, MaxKeys
  <2>3. keys' = 1..(k + 1) /\ k + 1 \in Nat \ {0}
    BY <1>1, <2>1, <2>2 DEF StageKey
  <2>4. entries' = entries /\ proc' = proc
    BY <1>1 DEF StageKey
  <2> QED BY <2>3, <2>4 DEF TInv, At
<1>2. ASSUME NEW p \in Procs, Step(p)
      PROVE  TInv'
  <2>1. /\ \A q \in Procs : q # p => proc'[q] = proc[q]
        /\ entries' \in Seq(Entry) /\ keys' = keys
    BY <1>2, StoreGrows
  <2>2. proc' \in [ Procs -> Process ]
    <3>1. PICK r \in Process : proc' = [ proc EXCEPT ![p] = r ]
      BY <1>2, StepFrame
    <3> QED BY <3>1 DEF TInv
  <2>3. entries # << >> => entries' # << >>
    <3>1. CASE entries' # entries
      BY <1>2, <3>1, StepFrame, AppendEffect
    <3> QED BY <3>1
  <2>4. At(p, "checked")' => \/ proc'[p].note = "CONTINUOUS"
                             \/ proc'[p].note = "ROTATION_PENDING" /\ entries' # << >>
    <3> SUFFICES ASSUME At(p, "checked")'
                 PROVE  \/ proc'[p].note = "CONTINUOUS"
                        \/ proc'[p].note = "ROTATION_PENDING" /\ entries' # << >>
      OBVIOUS
    <3>1. PICK cmd, g : Open(p, cmd, g)
      BY <1>2, Arrivals
    <3>2. proc'[p].note = verify_key_generation_continuity
      BY <3>1 DEF Open, TInv
    <3>3. \/ verify_key_generation_continuity = "CONTINUOUS"
          \/ verify_key_generation_continuity = "ROTATION_PENDING" /\ entries # << >>
      BY <3>1, VerdictTyped DEF Open
    <3> QED BY <2>3, <3>2, <3>3
  <2>5. At(p, "quorum")' => proc'[p].note \in Files
    <3> SUFFICES ASSUME At(p, "quorum")' PROVE proc'[p].note \in Files
      OBVIOUS
    <3>1. PICK f \in Files \cup {None} : Evaluate(p, f)
      BY <1>2, Arrivals
    <3>2. proc'[p].note = f /\ f # None
      BY <3>1 DEF Evaluate, approved, TInv, Process
    <3> QED BY <3>2
  <2>6. ASSUME NEW q \in Procs, q # p
        PROVE  /\ At(q, "checked")' => \/ proc'[q].note = "CONTINUOUS"
                                       \/ proc'[q].note = "ROTATION_PENDING" /\ entries' # << >>
               /\ At(q, "quorum")' => proc'[q].note \in Files
    BY <2>1, <2>3, <2>6 DEF TInv, At
  <2> QED BY <2>1, <2>2, <2>4, <2>5, <2>6 DEF TInv
<1> QED BY <1>1, <1>2, Steps

\* Who writes the latch, its history, the emergency log and the RCL.
LEMMA Writers ==
    ASSUME NEW p, Step(p)
    PROVE  /\ latch' = latch \/ LatchHalt(p) \/ clear_new_risk_halt(p)
           /\ cleared' = cleared \/ clear_new_risk_halt(p)
           /\ emergency' = emergency \/ EmergencyAppend(p)
           /\ rcl' = rcl \/ RotationCommit(p)
<1>1. CASE StoreStep(p) /\ UNCHANGED doorVars
  BY <1>1 DEF doorVars, StoreStep, Open, ResolveSigningKey, Stop, Record, record_halt,
     EmergencyAppend, Rotate, RotateRefused, RotationEvidence, RotationCommit,
     RotationCommitFails, RecordUnrecorded
<1>2. CASE DoorStep(p)
  BY <1>2 DEF doorVars, DoorStep, JudgeRestrictive, latch_restrictive, deny_before_stop,
     LatchHalt, Ask, AskRefused, Evaluate, EvaluateRefused, RecordDeclined, ConsumeApproval,
     RecordCleared, clear_new_risk_halt, StorageRefused
<1> QED BY <1>1, <1>2 DEF Step

\* Moving on leaves the rest of a process's memory alone.
LEMMA Moved ==
    ASSUME TInv, NEW p \in Procs, NEW pc, Goto(p, pc)
    PROVE  /\ proc'[p].ref = proc[p].ref /\ proc'[p].gen = proc[p].gen
           /\ proc'[p].note = proc[p].note /\ proc'[p].cmd = proc[p].cmd
<1>1. proc \in [ Procs -> Process ] /\ proc[p] \in Process
  BY DEF TInv
<1> QED BY <1>1 DEF Goto, Process

\* So does naming a row.
LEMMA MovedTo ==
    ASSUME TInv, NEW p \in Procs, NEW pc, NEW r,
           proc' = [ proc EXCEPT ![p].pc = pc, ![p].ref = r ]
    PROVE  proc'[p].ref = r /\ proc'[p].gen = proc[p].gen /\ proc'[p].cmd = proc[p].cmd
<1>1. proc \in [ Procs -> Process ] /\ proc[p] \in Process
  BY DEF TInv
<1> QED BY <1>1 DEF Process

\* The appended row is the last.
LEMMA LastRow ==
    ASSUME TInv, NEW k \in Kinds, NEW g \in Nat, NEW r \in Nat, NEW b \in Files \cup {None},
           append(k, g, r, b)
    PROVE  /\ Len(entries) + 1 \in DOMAIN entries' /\ Len(entries) + 1 \notin DOMAIN entries
           /\ Len(entries') = Len(entries) + 1 /\ entries' # << >>
           /\ DOMAIN entries' = DOMAIN entries \cup { Len(entries) + 1 }
           /\ entries'[Len(entries) + 1].kind = k /\ entries'[Len(entries) + 1].gen = g
           /\ entries'[Len(entries) + 1].ref = r /\ entries'[Len(entries) + 1].by = b
           /\ Len(entries) + 1 \in Rows(k, r)'
           /\ \A i \in DOMAIN entries : i < Len(entries) + 1
<1>1. PICK e \in Entry : /\ entries' = Append(entries, e) /\ e.kind = k /\ e.gen = g
                         /\ e.ref = r /\ e.by = b
  BY AppendTyped
<1>2. /\ Len(entries) \in Nat /\ DOMAIN entries = 1..Len(entries)
      /\ DOMAIN entries' = 1..(Len(entries) + 1) /\ entries' # << >>
      /\ Len(entries') = Len(entries) + 1
      /\ entries'[Len(entries) + 1] = e
  BY <1>1, AppendEffect
<1> QED BY <1>1, <1>2 DEF Rows

\* A halt on record stays traced.
LEMMA TracedStays ==
    ASSUME TInv, NEW p \in Procs, Step(p), NEW s, Traced(s)
    PROVE  Traced(s)'
<1>1. /\ DOMAIN entries \subseteq DOMAIN entries'
      /\ \A i \in DOMAIN entries : entries'[i] = entries[i]
      /\ \A k, r : Rows(k, r) \subseteq Rows(k, r)'
      /\ emergency \subseteq emergency'
  BY StoreGrows
<1>2. Rows("INCIDENT_CANDIDATE", s) # {} => Rows("INCIDENT_CANDIDATE", s)' # {}
  BY <1>1
<1> QED BY <1>1, <1>2 DEF Traced

\* What the latch names, and will name, stays traced.
LEMMA TracePreserved ==
    ASSUME TInv, TraceInv, NEW p \in Procs, Step(p)
    PROVE  TraceInv'
<1>1. /\ proc[p] \in Process /\ proc[p].gen \in Nat /\ proc[p].ref \in Nat
      /\ Len(entries) \in Nat
  BY DEF TInv, Process
<1>2. /\ \A q \in Procs : q # p => proc'[q] = proc[q]
      /\ DOMAIN entries \subseteq DOMAIN entries'
      /\ \A i \in DOMAIN entries : entries'[i] = entries[i]
  BY StoreGrows
<1>3. latch' # None => Traced(latch)'
  <2>1. CASE latch' = latch
    <3>1. PICK s : s = latch
      OBVIOUS
    <3>2. latch # None => Traced(s) /\ Traced(s)'
      BY <3>1, TracedStays DEF TraceInv
    <3> QED BY <2>1, <3>1, <3>2 DEF Traced
  <2>2. CASE LatchHalt(p) /\ latch' # latch
    <3>1. PICK s : s = proc[p].ref
      OBVIOUS
    <3>2. latch' = s /\ Traced(s)
      BY <2>2, <3>1 DEF LatchHalt, record_new_risk_halt, TraceInv
    <3>3. Traced(s)'
      BY <3>2, TracedStays
    <3> QED BY <3>2, <3>3 DEF Traced
  <2>3. CASE clear_new_risk_halt(p)
    BY <2>3 DEF clear_new_risk_halt
  <2> QED BY <2>1, <2>2, <2>3, Writers
<1>4. ASSUME NEW l \in emergency'
      PROVE  /\ l.seq \in DOMAIN entries' /\ entries'[l.seq].kind = "HALT"
             /\ entries'[l.seq].gen = l.gen
  <2>1. CASE l \in emergency
    BY <1>2, <2>1 DEF TraceInv
  <2>2. CASE l \notin emergency
    <3>1. EmergencyAppend(p)
      BY <1>4, <2>2, Writers
    <3>2. l.seq = proc[p].ref /\ l.gen = proc[p].gen
      BY <1>4, <2>2, <3>1 DEF EmergencyAppend
    <3> QED BY <1>2, <3>1, <3>2 DEF EmergencyAppend, TraceInv
  <2> QED BY <2>1, <2>2
<1>5. At(p, "halting")' =>
        /\ proc'[p].ref \in DOMAIN entries'
        /\ entries'[proc'[p].ref].kind = "HALT" /\ entries'[proc'[p].ref].gen = proc'[p].gen
  <2> SUFFICES ASSUME record_halt(p)
               PROVE  /\ proc'[p].ref \in DOMAIN entries'
                      /\ entries'[proc'[p].ref].kind = "HALT"
                      /\ entries'[proc'[p].ref].gen = proc'[p].gen
    BY Arrivals
  <2>1. proc'[p].ref = Len(entries) + 1 /\ proc'[p].gen = proc[p].gen
    <3>1. PICK n : n = Len(entries) + 1
      OBVIOUS
    <3>2. proc' = [ proc EXCEPT ![p].pc = "halting", ![p].ref = n ]
      BY <3>1 DEF record_halt
    <3>3. proc'[p].ref = n /\ proc'[p].gen = proc[p].gen /\ proc'[p].cmd = proc[p].cmd
      BY <3>2, MovedTo
    <3> QED BY <3>1, <3>3
  <2>2. append("HALT", proc[p].gen, 0, None) /\ "HALT" \in Kinds
    BY DEF record_halt, Kinds
  <2> QED BY <1>1, <2>1, <2>2, LastRow
<1>6. At(p, "judged")' =>
        proc'[p].ref \in DOMAIN entries' /\ entries'[proc'[p].ref].kind = "EVENT_CONSUMED"
  <2> SUFFICES ASSUME JudgeRestrictive(p)
               PROVE  /\ proc'[p].ref \in DOMAIN entries'
                      /\ entries'[proc'[p].ref].kind = "EVENT_CONSUMED"
    BY Arrivals
  <2>1. proc'[p].ref = Len(entries) + 1
    <3>1. PICK n : n = Len(entries) + 1
      OBVIOUS
    <3>2. proc' = [ proc EXCEPT ![p].pc = "judged", ![p].ref = n ]
      BY <3>1 DEF JudgeRestrictive
    <3>3. proc'[p].ref = n /\ proc'[p].gen = proc[p].gen /\ proc'[p].cmd = proc[p].cmd
      BY <3>2, MovedTo
    <3> QED BY <3>1, <3>3
  <2>2. append("EVENT_CONSUMED", proc[p].gen, 0, None) /\ "EVENT_CONSUMED" \in Kinds
    BY DEF JudgeRestrictive, Kinds
  <2> QED BY <1>1, <2>1, <2>2, LastRow
<1>7. ASSUME proc'[p].pc \in { "halted", "denying" }
      PROVE  Traced(proc[p].ref)'
  <2>1. EmergencyAppend(p) \/ latch_restrictive(p) \/ deny_before_stop(p)
    BY <1>7, Arrivals DEF At
  <2>2. PICK s : s = proc'[p].ref
    OBVIOUS
  <2>3. CASE EmergencyAppend(p)
    <3>1. s = proc[p].ref
      BY <2>2, <2>3, Moved DEF EmergencyAppend
    <3>2. s \in DOMAIN entries /\ entries[s].kind = "HALT"
      BY <2>3, <3>1 DEF EmergencyAppend, TraceInv
    <3>3. \E l \in emergency' : l.seq = s
      <4> DEFINE l == [ seq |-> s, gen |-> proc[p].gen ]
      <4>1. l \in emergency' /\ l.seq = s
        BY <2>3, <3>1 DEF EmergencyAppend
      <4> QED BY <4>1
    <3> QED BY <1>2, <2>2, <3>2, <3>3 DEF Traced
  <2>4. CASE latch_restrictive(p)
    <3>1. s = proc[p].ref
      BY <2>2, <2>4, Moved DEF latch_restrictive
    <3>2. s \in DOMAIN entries /\ entries[s].kind = "EVENT_CONSUMED"
      BY <2>4, <3>1 DEF latch_restrictive, TraceInv
    <3>3. Rows("INCIDENT_CANDIDATE", s)' # {}
      <4>1. append("INCIDENT_CANDIDATE", proc[p].gen, s, None) /\ "INCIDENT_CANDIDATE" \in Kinds
        BY <2>4, <3>1 DEF latch_restrictive, Kinds
      <4>2. s \in Nat
        BY <1>1, <3>1
      <4> QED BY <1>1, <4>1, <4>2, LastRow
    <3>4. Traced(s)'
      BY <1>2, <3>2, <3>3 DEF Traced
    <3> QED BY <2>2, <3>4 DEF Traced
  <2>5. CASE deny_before_stop(p)
    <3>1. s = Len(entries) + 1
      <4>1. PICK n : n = Len(entries) + 1
        OBVIOUS
      <4>2. proc' = [ proc EXCEPT ![p].pc = "denying", ![p].ref = n ]
        BY <2>5, <4>1 DEF deny_before_stop
      <4>3. proc'[p].ref = n /\ proc'[p].gen = proc[p].gen /\ proc'[p].cmd = proc[p].cmd
        BY <4>2, MovedTo
      <4> QED BY <2>2, <4>1, <4>3
    <3>2. s \in DOMAIN entries' /\ entries'[s].kind = "CONTROLLED_SHUTDOWN_STARTED"
      <4>1. /\ append("CONTROLLED_SHUTDOWN_STARTED", proc[p].gen, 0, None)
            /\ "CONTROLLED_SHUTDOWN_STARTED" \in Kinds
        BY <2>5 DEF deny_before_stop, Kinds
      <4> QED BY <1>1, <3>1, <4>1, LastRow
    <3> QED BY <2>2, <3>2 DEF Traced
  <2> QED BY <2>1, <2>3, <2>4, <2>5
<1>8. ASSUME NEW q \in Procs, q # p
      PROVE  /\ At(q, "halting")' =>
                  /\ proc'[q].ref \in DOMAIN entries' /\ entries'[proc'[q].ref].kind = "HALT"
                  /\ entries'[proc'[q].ref].gen = proc'[q].gen
             /\ At(q, "judged")' =>
                  /\ proc'[q].ref \in DOMAIN entries'
                  /\ entries'[proc'[q].ref].kind = "EVENT_CONSUMED"
             /\ proc'[q].pc \in { "halted", "denying" } => Traced(proc[q].ref)'
  <2>1. proc'[q] = proc[q]
    BY <1>2, <1>8
  <2>2. PICK s : s = proc[q].ref
    OBVIOUS
  <2>3. proc'[q].pc \in { "halted", "denying" } => Traced(s)'
    BY <2>1, <2>2, TracedStays DEF TraceInv
  <2>4. Traced(s)' => Traced(proc[q].ref)'
    BY <2>1, <2>2 DEF Traced
  <2> QED BY <1>2, <2>1, <2>3, <2>4 DEF TraceInv, At
<1> QED BY <1>3, <1>4, <1>5, <1>6, <1>7, <1>8 DEF TraceInv

\* An approval on record, and a clear on record, stay so.
LEMMA OnRecordStays ==
    ASSUME TInv, NEW p \in Procs, Step(p), NEW s
    PROVE  /\ \A i \in DOMAIN entries : Approves(i, s) => i \in DOMAIN entries' /\ Approves(i, s)'
           /\ ClearOnRecord(s) => ClearOnRecord(s)'
<1>1. /\ DOMAIN entries \subseteq DOMAIN entries'
      /\ \A i \in DOMAIN entries : entries'[i] = entries[i]
      /\ \A k, r : Rows(k, r) \subseteq Rows(k, r)'
  BY StoreGrows
<1>2. ASSUME NEW i \in DOMAIN entries, Approves(i, s)
      PROVE  i \in DOMAIN entries' /\ Approves(i, s)'
  <2>1. i \in Rows("REARM_APPROVED", s)' /\ entries'[i] = entries[i] /\ i \in DOMAIN entries'
    BY <1>1, <1>2 DEF Approves
  <2> QED BY <1>2, <2>1 DEF Approves, quorum_independence_satisfied
<1>3. ASSUME ClearOnRecord(s)
      PROVE  ClearOnRecord(s)'
  <2>1. PICK i, j \in DOMAIN entries :
          i < j /\ Approves(i, s) /\ j \in Rows("NEW_RISK_HALT_CLEARED_BY_OPERATOR", s)
    BY <1>3 DEF ClearOnRecord
  <2>2. /\ i \in DOMAIN entries' /\ j \in DOMAIN entries' /\ Approves(i, s)'
        /\ j \in Rows("NEW_RISK_HALT_CLEARED_BY_OPERATOR", s)'
    BY <1>1, <1>2, <2>1
  <2> QED BY <2>1, <2>2 DEF ClearOnRecord
<1> QED BY <1>2, <1>3

\* What was cleared, and what a process in the door will clear, stays on record.
LEMMA DoorPreserved ==
    ASSUME TInv, DoorInv, NEW p \in Procs, Step(p)
    PROVE  DoorInv'
<1>1. /\ proc[p] \in Process /\ proc[p].gen \in Nat /\ proc[p].ref \in Nat
      /\ Len(entries) \in Nat /\ None \in Files \cup {None}
  BY DEF TInv, Process
<1>2. /\ \A q \in Procs : q # p => proc'[q] = proc[q]
      /\ DOMAIN entries \subseteq DOMAIN entries'
  BY StoreGrows
<1>3. \A s \in cleared' : ClearOnRecord(s)'
  <2> SUFFICES ASSUME NEW s \in cleared' PROVE ClearOnRecord(s)'
    OBVIOUS
  <2>1. ClearOnRecord(s)
    BY Writers DEF clear_new_risk_halt, DoorInv
  <2> QED BY <2>1, OnRecordStays
<1>4. At(p, "quorum")' => quorum_independence_satisfied(proc'[p].note)
  <2> SUFFICES ASSUME At(p, "quorum")' PROVE quorum_independence_satisfied(proc'[p].note)
    OBVIOUS
  <2>1. PICK f \in Files \cup {None} : Evaluate(p, f)
    BY Arrivals
  <2>2. proc'[p].note = f
    BY <1>1, <2>1 DEF Evaluate, TInv, Process
  <2>3. quorum_independence_satisfied(f)
    BY <2>1 DEF Evaluate, approved
  <2> QED BY <2>2, <2>3
<1>5. ASSUME At(p, "approved")'
      PROVE  \E i \in DOMAIN entries' : Approves(i, proc[p].ref)'
  <2>1. ConsumeApproval(p)
    BY <1>5, Arrivals
  <2>2. PICK s, f : s = proc[p].ref /\ f = proc[p].note
    OBVIOUS
  <2>3. f \in Files /\ quorum_independence_satisfied(f) /\ s \in Nat
    BY <1>1, <2>1, <2>2 DEF ConsumeApproval, TInv, DoorInv
  <2>4. append("REARM_APPROVED", proc[p].gen, s, f) /\ "REARM_APPROVED" \in Kinds
    BY <2>1, <2>2 DEF ConsumeApproval, Kinds
  <2>5. PICK n : n = Len(entries) + 1
    OBVIOUS
  <2>6. n \in DOMAIN entries' /\ n \in Rows("REARM_APPROVED", s)' /\ entries'[n].by = f
    BY <1>1, <2>3, <2>4, <2>5, LastRow
  <2>7. proc'[p].ref = s
    BY <2>1, <2>2, Moved DEF ConsumeApproval
  <2>8. Approves(n, s)'
    BY <2>3, <2>6 DEF Approves, quorum_independence_satisfied
  <2>9. Approves(n, proc[p].ref)'
    BY <2>7, <2>8 DEF Approves, Rows
  <2> QED BY <2>6, <2>9
<1>6. ASSUME At(p, "clearing")'
      PROVE  ClearOnRecord(proc[p].ref)'
  <2>1. RecordCleared(p)
    BY <1>6, Arrivals
  <2>2. PICK s : s = proc[p].ref
    OBVIOUS
  <2>3. PICK i \in DOMAIN entries : Approves(i, s)
    BY <2>1, <2>2 DEF RecordCleared, DoorInv
  <2>4. /\ append("NEW_RISK_HALT_CLEARED_BY_OPERATOR", proc[p].gen, s, None)
        /\ "NEW_RISK_HALT_CLEARED_BY_OPERATOR" \in Kinds /\ s \in Nat
    BY <1>1, <2>1, <2>2 DEF RecordCleared, Kinds
  <2>5. PICK n : n = Len(entries) + 1
    OBVIOUS
  <2>6. /\ n \in DOMAIN entries' /\ n \in Rows("NEW_RISK_HALT_CLEARED_BY_OPERATOR", s)'
        /\ i < n
    BY <1>1, <2>4, <2>5, LastRow
  <2>7. i \in DOMAIN entries' /\ Approves(i, s)'
    BY <2>3, OnRecordStays
  <2>8. ClearOnRecord(s)'
    BY <2>6, <2>7 DEF ClearOnRecord
  <2>9. proc'[p].ref = s
    BY <2>1, <2>2, Moved DEF RecordCleared
  <2> QED BY <2>8, <2>9 DEF ClearOnRecord, Approves, Rows
<1>7. ASSUME NEW q \in Procs, q # p
      PROVE  /\ At(q, "quorum")' => quorum_independence_satisfied(proc'[q].note)
             /\ At(q, "approved")' => \E i \in DOMAIN entries' : Approves(i, proc[q].ref)'
             /\ At(q, "clearing")' => ClearOnRecord(proc[q].ref)'
  <2>1. proc'[q] = proc[q]
    BY <1>2, <1>7
  <2>2. PICK s : s = proc[q].ref
    OBVIOUS
  <2>3. At(q, "quorum")' => quorum_independence_satisfied(proc'[q].note)
    BY <2>1 DEF DoorInv, At
  <2>4. ASSUME At(q, "approved")'
        PROVE  \E i \in DOMAIN entries' : Approves(i, proc[q].ref)'
    <3>1. PICK i \in DOMAIN entries : Approves(i, s)
      BY <2>1, <2>2, <2>4 DEF DoorInv, At
    <3>2. i \in DOMAIN entries' /\ Approves(i, s)'
      BY <3>1, OnRecordStays
    <3>3. Approves(i, proc[q].ref)'
      BY <2>1, <2>2, <3>2 DEF Approves, Rows
    <3> QED BY <3>2, <3>3
  <2>5. ASSUME At(q, "clearing")'
        PROVE  ClearOnRecord(proc[q].ref)'
    <3>1. ClearOnRecord(s)
      BY <2>1, <2>2, <2>5 DEF DoorInv, At
    <3>2. ClearOnRecord(s)'
      BY <3>1, OnRecordStays
    <3> QED BY <2>1, <2>2, <3>2 DEF ClearOnRecord, Approves, Rows
  <2> QED BY <2>3, <2>4, <2>5
<1>8. \A q \in Procs : /\ At(q, "quorum")' => quorum_independence_satisfied(proc'[q].note)
                       /\ At(q, "approved")' => \E i \in DOMAIN entries' : Approves(i, proc[q].ref)'
                       /\ At(q, "clearing")' => ClearOnRecord(proc[q].ref)'
  BY <1>4, <1>5, <1>6, <1>7
<1> QED BY <1>3, <1>8 DEF DoorInv, quorum_independence_satisfied

-----------------------------------------------------------------------------
(* Key rotation *)

\* A process is opened, or goes on with the command and, but for the resolution
\* of its key and a rotation, the signing generation it has.
LEMMA Standing ==
    ASSUME TInv, NEW p \in Procs, Step(p)
    PROVE  \/ \E cmd, g : Open(p, cmd, g)
           \/ /\ Up(p)
              /\ \/ ResolveSigningKey(p) \/ Rotate(p) \/ At(p, "down")'
                 \/ proc'[p].gen = proc[p].gen /\ ~At(p, "checked")
              /\ At(p, "down")' \/ proc'[p].cmd = proc[p].cmd
<1>1. proc \in [ Procs -> Process ] /\ proc[p] \in Process
  BY DEF TInv
<1> DEFINE Kept == /\ proc'[p].gen = proc[p].gen /\ proc'[p].cmd = proc[p].cmd
                   /\ ~At(p, "down") /\ ~At(p, "checked")
           Ends == At(p, "down")' /\ ~At(p, "down")
<1>2. ASSUME NEW pc, Goto(p, pc), ~At(p, "down"), ~At(p, "checked")
      PROVE  Kept
  BY <1>2, Moved
<1>3. ASSUME proc' = [ proc EXCEPT ![p] = Down ], ~At(p, "down")
      PROVE  Ends
  BY <1>1, <1>3 DEF Down, At
<1>4. ASSUME EndDoor(p), ~At(p, "down"), ~At(p, "checked")
      PROVE  Kept \/ Ends
  BY <1>1, <1>4 DEF EndDoor, Down, Process, At
<1>5. ASSUME NEW pc, NEW r, proc' = [ proc EXCEPT ![p].pc = pc, ![p].ref = r ],
             ~At(p, "down"), ~At(p, "checked")
      PROVE  Kept
  BY <1>5, MovedTo
<1>6. Kept \/ Ends => Up(p) /\ (At(p, "down")' \/ (proc'[p].gen = proc[p].gen /\ ~At(p, "checked")))
                   /\ (At(p, "down")' \/ proc'[p].cmd = proc[p].cmd)
  BY DEF Up, At
<1>7. ASSUME NEW pc, At(p, pc), pc \notin { "down", "checked" }
      PROVE  ~At(p, "down") /\ ~At(p, "checked")
  BY <1>7 DEF At
<1> HIDE DEF Kept, Ends
<1>8. CASE StoreStep(p)
  <2>1. CASE \E g \in 2..MaxGen : Open(p, "rotate", g)
    BY <2>1
  <2>2. CASE \E cmd \in { "run", "rearm" } : Open(p, cmd, 0)
    BY <2>2
  <2>3. CASE ResolveSigningKey(p)
    <3>1. proc'[p].cmd = proc[p].cmd /\ ~At(p, "down")
      BY <1>1, <2>3 DEF ResolveSigningKey, Process, At
    <3> QED BY <2>3, <3>1 DEF Up
  <2>4. CASE Rotate(p)
    <3>1. proc'[p].cmd = proc[p].cmd /\ ~At(p, "down")
      BY <1>1, <2>4 DEF Rotate, Process, At
    <3> QED BY <2>4, <3>1 DEF Up
  <2>5. CASE Stop(p)
    BY <1>3, <1>6, <2>5 DEF Stop, Up
  <2>6. CASE RotateRefused(p) \/ RotationCommit(p) \/ RecordUnrecorded(p)
    BY <1>3, <1>6, <1>7, <2>6 DEF RotateRefused, RotationCommit, RecordUnrecorded
  <2>7. CASE Record(p)
    <3>1. ~At(p, "down") /\ ~At(p, "checked") /\ proc' = proc
      BY <1>7, <2>7 DEF Record
    <3> QED BY <1>6, <3>1 DEF Kept
  <2>8. CASE record_halt(p)
    BY <1>5, <1>6, <1>7, <2>8 DEF record_halt
  <2>9. CASE EmergencyAppend(p) \/ RotationEvidence(p)
    BY <1>2, <1>6, <1>7, <2>9 DEF EmergencyAppend, RotationEvidence
  <2>10. CASE RotationCommitFails(p)
    BY <1>2, <1>6, <1>7, <2>10 DEF RotationCommitFails
  <2> QED BY <1>8, <2>1, <2>2, <2>3, <2>4, <2>5, <2>6, <2>7, <2>8, <2>9, <2>10 DEF StoreStep
<1>9. CASE DoorStep(p)
  <2>1. CASE JudgeRestrictive(p)
    BY <1>5, <1>6, <1>7, <2>1 DEF JudgeRestrictive
  <2>2. CASE deny_before_stop(p)
    BY <1>5, <1>6, <1>7, <2>2 DEF deny_before_stop
  <2>3. CASE latch_restrictive(p) \/ ConsumeApproval(p) \/ RecordCleared(p) \/ StorageRefused(p)
    BY <1>2, <1>6, <1>7, <2>3 DEF latch_restrictive, ConsumeApproval, RecordCleared, StorageRefused
  <2>4. CASE LatchHalt(p)
    <3>1. ~At(p, "down") /\ ~At(p, "checked")
      BY <2>4 DEF LatchHalt, At
    <3>2. PICK pc : pc = IF proc[p].pc = "denying" THEN "stopping" ELSE "open"
      OBVIOUS
    <3>3. proc' = [ proc EXCEPT ![p].pc = pc, ![p].ref = 0 ]
      BY <2>4, <3>2 DEF LatchHalt, AfterLatch
    <3>4. Kept
      BY <1>5, <3>1, <3>3
    <3> QED BY <1>6, <3>4
  <2>5. CASE \E seq \in DOMAIN entries : Ask(p, seq)
    BY <1>5, <1>6, <1>7, <2>5 DEF Ask
  <2>6. CASE \E seq \in DOMAIN entries : AskRefused(p, seq)
    BY <1>4, <1>6, <1>7, <2>6 DEF AskRefused
  <2>7. CASE \E f \in Files \cup {None} : Evaluate(p, f)
    <3>1. PICK f : Evaluate(p, f)
      BY <2>7
    <3>2. Kept
      BY <1>1, <3>1 DEF Evaluate, Process, Kept, At
    <3> QED BY <1>6, <3>2
  <2>8. CASE \E f \in Files \cup {None} : EvaluateRefused(p, f)
    BY <1>2, <1>6, <1>7, <2>8 DEF EvaluateRefused
  <2>9. CASE RecordDeclined(p) \/ clear_new_risk_halt(p)
    BY <1>4, <1>6, <1>7, <2>9 DEF RecordDeclined, clear_new_risk_halt
  <2> QED BY <1>9, <2>1, <2>2, <2>3, <2>4, <2>5, <2>6, <2>7, <2>8, <2>9 DEF DoorStep
<1> QED BY <1>8, <1>9 DEF Step

\* But for a rotation, a row is signed with the generation of its process.
LEMMA SignedRows ==
    ASSUME TInv, KeyInv, NEW p \in Procs, Step(p), ~Rotate(p)
    PROVE  \/ entries' = entries
           \/ \E e \in Entry : /\ entries' = Append(entries, e)
                               /\ e.gen \in keys /\ e.kind # "KEY_ROTATION"
<1>1. /\ proc[p] \in Process /\ proc[p].gen \in Nat /\ proc[p].ref \in Nat
      /\ None \in Files \cup {None} /\ 0 \in Nat
  BY DEF TInv, Process
<1> DEFINE G == \/ entries' = entries
                \/ \E e \in Entry : /\ entries' = Append(entries, e)
                                    /\ e.gen \in keys /\ e.kind # "KEY_ROTATION"
<1> SUFFICES G
  OBVIOUS
<1>2. ASSUME NEW pc, At(p, pc), pc \notin { "down", "checked" },
             NEW k \in Kinds \ { "KEY_ROTATION" }, NEW r \in Nat, NEW b \in Files \cup {None},
             append(k, proc[p].gen, r, b)
      PROVE  G
  <2>1. proc[p].gen \in keys
    BY <1>2 DEF KeyInv, At
  <2>2. k \in Kinds /\ append(k, proc[p].gen, r, b)
    BY <1>2
  <2>3. \E e \in Entry : entries' = Append(entries, e) /\ e.gen = proc[p].gen /\ e.kind = k
    BY <1>1, <2>2, AppendTyped
  <2> QED BY <1>2, <2>1, <2>3
<1>3. entries' = entries => G
  OBVIOUS
<1>4. { "RECORD", "HALT", "EVENT_CONSUMED", "INCIDENT_CANDIDATE", "CONTROLLED_SHUTDOWN_STARTED",
        "KEY_ROTATION_RCL_UNRECORDED", "REARM_APPROVED", "REARM_REFUSED",
        "NEW_RISK_HALT_CLEARED_BY_OPERATOR", "NEW_RISK_HALT_CLEAR_REFUSED" }
        \subseteq Kinds \ { "KEY_ROTATION" }
  BY DEF Kinds
<1> HIDE DEF G
<1>5. CASE StoreStep(p)
  <2>1. CASE \/ \E g \in 2..MaxGen : Open(p, "rotate", g)
             \/ \E cmd \in { "run", "rearm" } : Open(p, cmd, 0)
    BY <1>3, <2>1 DEF Open
  <2>2. CASE \/ ResolveSigningKey(p) \/ Stop(p) \/ EmergencyAppend(p) \/ RotateRefused(p)
             \/ RotationCommit(p) \/ RotationCommitFails(p)
    BY <1>3, <2>2 DEF ResolveSigningKey, Stop, EmergencyAppend, RotateRefused, RotationCommit,
       RotationCommitFails
  <2>3. CASE Record(p)
    BY <1>1, <1>2, <1>4, <2>3 DEF Record
  <2>4. CASE record_halt(p)
    BY <1>1, <1>2, <1>4, <2>4 DEF record_halt
  <2>5. CASE RotationEvidence(p)
    BY <1>1, <1>2, <1>4, <2>5 DEF RotationEvidence
  <2>6. CASE RecordUnrecorded(p)
    BY <1>1, <1>2, <1>4, <2>6 DEF RecordUnrecorded
  <2> QED BY <1>5, <2>1, <2>2, <2>3, <2>4, <2>5, <2>6 DEF StoreStep
<1>6. CASE DoorStep(p)
  <2>1. CASE JudgeRestrictive(p)
    BY <1>1, <1>2, <1>4, <2>1 DEF JudgeRestrictive
  <2>2. CASE latch_restrictive(p)
    BY <1>1, <1>2, <1>4, <2>2 DEF latch_restrictive
  <2>3. CASE deny_before_stop(p)
    BY <1>1, <1>2, <1>4, <2>3 DEF deny_before_stop
  <2>4. CASE LatchHalt(p) \/ clear_new_risk_halt(p) \/ StorageRefused(p)
    BY <1>3, <2>4 DEF LatchHalt, clear_new_risk_halt, StorageRefused
  <2>5. CASE \E seq \in DOMAIN entries : Ask(p, seq)
    BY <1>3, <2>5 DEF Ask
  <2>6. CASE \E seq \in DOMAIN entries : AskRefused(p, seq)
    BY <1>1, <1>2, <1>4, <2>6 DEF AskRefused
  <2>7. CASE \E f \in Files \cup {None} : Evaluate(p, f)
    BY <1>3, <2>7 DEF Evaluate
  <2>8. CASE \E f \in Files \cup {None} : EvaluateRefused(p, f)
    BY <1>1, <1>2, <1>4, <2>8 DEF EvaluateRefused
  <2>9. CASE RecordDeclined(p)
    BY <1>1, <1>2, <1>4, <2>9 DEF RecordDeclined
  <2>10. CASE ConsumeApproval(p)
    <3>1. proc[p].note \in Files \cup {None}
      BY <2>10 DEF ConsumeApproval, TInv
    <3> QED BY <1>1, <1>2, <1>4, <2>10, <3>1 DEF ConsumeApproval
  <2>11. CASE RecordCleared(p)
    BY <1>1, <1>2, <1>4, <2>11 DEF RecordCleared
  <2> QED BY <1>6, <2>1, <2>2, <2>3, <2>4, <2>5, <2>6, <2>7, <2>8, <2>9, <2>10, <2>11 DEF DoorStep
<1> QED BY <1>5, <1>6 DEF Step

\* A rotation writes its row under the new key, and only that.
LEMMA RotationRow ==
    ASSUME TInv, NEW p \in Procs, Rotate(p)
    PROVE  /\ \E e \in Entry : /\ entries' = Append(entries, e) /\ e.kind = "KEY_ROTATION"
                               /\ e.gen = proc[p].ref /\ e.ref = proc[p].ref
           /\ proc[p].ref \in keys /\ rcl' = rcl
           /\ proc'[p].gen = proc[p].ref /\ proc'[p].ref = proc[p].ref
           /\ tip_has_rotation_commit_for(proc[p].ref)'
<1>1. /\ proc \in [ Procs -> Process ] /\ proc[p] \in Process /\ proc[p].ref \in Nat
      /\ "KEY_ROTATION" \in Kinds
  BY DEF TInv, Process, Kinds
<1>2. /\ append("KEY_ROTATION", proc[p].ref, proc[p].ref, None)
      /\ proc[p].ref \in keys /\ rcl' = rcl
      /\ proc' = [ proc EXCEPT ![p].pc = "rotated", ![p].gen = proc[p].ref ]
  BY DEF Rotate, rotation_admitted
<1>3. proc'[p].gen = proc[p].ref /\ proc'[p].ref = proc[p].ref
  BY <1>1, <1>2 DEF Process
<1>4. Rows("KEY_ROTATION", proc[p].ref)' # {}
  <2>1. Len(entries) + 1 \in Rows("KEY_ROTATION", proc[p].ref)'
    <3>1. PICK r \in Nat : r = proc[p].ref
      BY <1>1
    <3>2. PICK e \in Entry : /\ entries' = Append(entries, e) /\ e.kind = "KEY_ROTATION"
                             /\ e.ref = r
      BY <1>1, <1>2, <3>1, AppendTyped
    <3>3. Len(entries) + 1 \in DOMAIN entries' /\ entries'[Len(entries) + 1] = e
      BY <3>2, AppendEffect
    <3> QED BY <1>3, <3>1, <3>2, <3>3 DEF Rows
  <2> QED BY <2>1
<1>5. tip_has_rotation_commit_for(proc[p].ref)'
  BY <1>4 DEF tip_has_rotation_commit_for
<1>6. \E e \in Entry : /\ entries' = Append(entries, e) /\ e.kind = "KEY_ROTATION"
                       /\ e.gen = proc[p].ref /\ e.ref = proc[p].ref
  BY <1>1, <1>2, AppendTyped
<1> QED BY <1>2, <1>3, <1>5, <1>6

\* Every step keeps keys, rows and rotations together.
LEMMA KeyPreserved ==
    ASSUME TInv, KeyInv, NEW p \in Procs, Step(p)
    PROVE  KeyInv'
<1>1. /\ \A q \in Procs : q # p => proc'[q] = proc[q]
      /\ \A k, r : Rows(k, r) \subseteq Rows(k, r)'
      /\ keys' = keys
  BY StoreGrows
<1>2. \A g : tip_has_rotation_commit_for(g) => tip_has_rotation_commit_for(g)'
  BY <1>1 DEF tip_has_rotation_commit_for
<1>3. \/ entries' = entries
      \/ \E e \in Entry : /\ entries' = Append(entries, e) /\ e.gen \in keys
                          /\ e.kind = "KEY_ROTATION" => e.ref = e.gen
  <2>1. CASE Rotate(p)
    BY <2>1, RotationRow
  <2>2. CASE ~Rotate(p)
    BY <2>2, SignedRows
  <2> QED BY <2>1, <2>2
<1>4. /\ \A j \in DOMAIN entries' : entries'[j].gen \in keys
      /\ \A i \in Rotations' : entries'[i].ref = entries'[i].gen
  <2>1. CASE entries' = entries
    BY <2>1 DEF KeyInv, Rotations
  <2>2. CASE entries' # entries
    <3>1. PICK e \in Entry : /\ entries' = Append(entries, e) /\ e.gen \in keys
                             /\ e.kind = "KEY_ROTATION" => e.ref = e.gen
      BY <1>3, <2>2
    <3>2. /\ Len(entries) \in Nat /\ DOMAIN entries = 1..Len(entries)
          /\ DOMAIN entries' = 1..(Len(entries) + 1)
          /\ \A i \in DOMAIN entries : entries'[i] = entries[i]
          /\ entries'[Len(entries) + 1] = e
      BY <3>1, AppendEffect
    <3>3. \A i \in DOMAIN entries' : i \in DOMAIN entries \/ i = Len(entries) + 1
      BY <3>2
    <3> QED BY <3>1, <3>2, <3>3 DEF KeyInv, Rotations
  <2> QED BY <2>1, <2>2
<1>5. \A g \in rcl' : tip_has_rotation_commit_for(g)'
  <2>1. CASE rcl' = rcl
    BY <1>2, <2>1 DEF KeyInv
  <2>2. CASE RotationCommit(p)
    BY <1>2, <2>2 DEF RotationCommit, KeyInv
  <2> QED BY <2>1, <2>2, Writers
<1>6. ~At(p, "down")' /\ ~At(p, "checked")' => proc'[p].gen \in keys
  <2> SUFFICES ASSUME ~At(p, "down")', ~At(p, "checked")' PROVE proc'[p].gen \in keys
    OBVIOUS
  <2>1. ASSUME NEW cmd, NEW g, Open(p, cmd, g) PROVE FALSE
    BY <2>1 DEF Open, At, TInv
  <2>2. CASE ResolveSigningKey(p)
    <3>1. proc'[p].gen = resolve_signing_key(p)
      BY <2>2 DEF ResolveSigningKey, TInv, Process
    <3>2. Max(keys) \in Nat \ {0} /\ keys = 1..Max(keys)
      BY VerdictTyped
    <3>3. Max(keys) \in keys
      <4>1. \A m \in Nat \ {0} : m \in 1..m
        OBVIOUS
      <4> QED BY <3>2, <4>1
    <3>4. CASE proc[p].note = "CONTINUOUS"
      BY <3>1, <3>3, <3>4 DEF resolve_signing_key
    <3>5. CASE proc[p].note # "CONTINUOUS"
      <4>1. entries # << >>
        BY <2>2, <3>5 DEF ResolveSigningKey, TInv
      <4>2. Len(entries) \in DOMAIN entries
        <5>1. entries \in Seq(Entry)
          BY DEF TInv
        <5> QED BY <4>1, <5>1
      <4> QED BY <3>1, <3>5, <4>1, <4>2 DEF resolve_signing_key, tip_key_generation, KeyInv
    <3> QED BY <3>4, <3>5
  <2>3. CASE Rotate(p)
    BY <2>3, RotationRow
  <2>4. CASE proc'[p].gen = proc[p].gen /\ ~At(p, "checked") /\ Up(p)
    BY <2>4 DEF Up, KeyInv
  <2> QED BY <2>1, <2>2, <2>3, <2>4, Standing
<1>7. At(p, "rotated")' \/ At(p, "recording")' => tip_has_rotation_commit_for(proc[p].ref)'
  <2>1. CASE At(p, "rotated")'
    <3>1. Rotate(p)
      BY <2>1, Arrivals
    <3> QED BY <3>1, RotationRow
  <2>2. CASE At(p, "recording")'
    <3>1. RotationEvidence(p)
      BY <2>2, Arrivals
    <3>2. Goto(p, "recording") /\ At(p, "rotated")
      BY <3>1 DEF RotationEvidence
    <3>3. proc'[p].ref = proc[p].ref
      BY <3>2, Moved
    <3>4. PICK g : g = proc[p].ref /\ tip_has_rotation_commit_for(g)
      BY <3>2 DEF KeyInv
    <3>5. tip_has_rotation_commit_for(g)' /\ proc'[p].ref = g
      BY <1>2, <3>3, <3>4
    <3> QED BY <3>5 DEF tip_has_rotation_commit_for, Rows
  <2> QED BY <2>1, <2>2
<1>8. ASSUME NEW q \in Procs, q # p
      PROVE  /\ ~At(q, "down")' /\ ~At(q, "checked")' => proc'[q].gen \in keys
             /\ At(q, "rotated")' \/ At(q, "recording")' => tip_has_rotation_commit_for(proc[q].ref)'
  <2>1. proc'[q] = proc[q]
    BY <1>1, <1>8
  <2>2. ~At(q, "down")' /\ ~At(q, "checked")' => proc'[q].gen \in keys
    BY <2>1 DEF KeyInv, At
  <2>3. ASSUME At(q, "rotated")' \/ At(q, "recording")'
        PROVE  tip_has_rotation_commit_for(proc[q].ref)'
    <3>1. PICK g : g = proc[q].ref /\ tip_has_rotation_commit_for(g)
      BY <2>1, <2>3 DEF KeyInv, At
    <3>2. tip_has_rotation_commit_for(g)' /\ proc'[q].ref = g
      BY <1>2, <2>1, <3>1
    <3> QED BY <3>2 DEF tip_has_rotation_commit_for, Rows
  <2> QED BY <2>2, <2>3
<1> QED BY <1>1, <1>4, <1>5, <1>6, <1>7, <1>8 DEF KeyInv

-----------------------------------------------------------------------------
(* The theorems *)

\* The invariants of every execution.
THEOREM Invariant == Spec => [](TInv /\ TraceInv /\ DoorInv)
<1>1. Init => TInv /\ TraceInv /\ DoorInv
  <2> SUFFICES ASSUME Init PROVE TInv /\ TraceInv /\ DoorInv
    OBVIOUS
  <2>1. /\ keys = 1..1 /\ entries = << >> /\ emergency = {} /\ latch = None /\ cleared = {}
        /\ proc = [ p \in Procs |-> Down ] /\ \A p \in Procs : proc[p] = Down
    BY DEF Init, InitStore
  <2>2. Down \in Process /\ Down.pc = "down"
    BY DEF Down, Process, Places
  <2>3. proc \in [ Procs -> Process ] /\ \A p \in Procs : proc[p].pc = "down"
    BY <2>1, <2>2
  <2>4. entries \in Seq(Entry)
    BY <2>1
  <2>5. TInv
    BY <2>1, <2>3, <2>4 DEF TInv, At
  <2>6. TraceInv
    BY <2>1, <2>3 DEF TraceInv, At
  <2>7. DoorInv
    BY <2>1, <2>3 DEF DoorInv, At
  <2> QED BY <2>5, <2>6, <2>7
<1>2. TInv /\ TraceInv /\ DoorInv /\ [Next]_vars => (TInv /\ TraceInv /\ DoorInv)'
  <2> SUFFICES ASSUME TInv, TraceInv, DoorInv, [Next]_vars
               PROVE  TInv' /\ TraceInv' /\ DoorInv'
    OBVIOUS
  <2>1. CASE StageKey /\ UNCHANGED doorVars
    <3>1. TInv'
      BY <2>1, TypePreserved, Steps
    <3>2. entries' = entries /\ emergency' = emergency /\ proc' = proc /\ latch' = latch
          /\ cleared' = cleared
      BY <2>1 DEF StageKey, doorVars
    <3> QED BY <3>1, <3>2 DEF TraceInv, DoorInv, Traced, Rows, At, ClearOnRecord, Approves
  <2>2. CASE \E p \in Procs : Step(p)
    BY <2>2, TypePreserved, TracePreserved, DoorPreserved, Steps
  <2>3. CASE UNCHANGED vars
    <3>1. /\ keys' = keys /\ entries' = entries /\ emergency' = emergency /\ proc' = proc
          /\ latch' = latch /\ cleared' = cleared
      BY <2>3 DEF vars, storeVars, doorVars
    <3> QED BY <3>1 DEF TInv, TraceInv, DoorInv, Traced, Rows, At, ClearOnRecord, Approves
  <2> QED BY <2>1, <2>2, <2>3, Steps
<1> QED BY <1>1, <1>2, PTL DEF Spec

\* evidence/store.py and emergency.py write the row and the line before the latch
\* (safety/halt.py): a latch names the row of its cause with what goes with it.
THEOREM HaltsAreTraced == Spec => []HaltIsTraced
<1>1. TraceInv => HaltIsTraced
  BY DEF TraceInv, Traced, HaltIsTraced
<1> QED BY <1>1, Invariant, PTL

\* safety/rearm.py: what was cleared was approved, on record, by two persons whom
\* no chain of control joins, and then recorded as cleared.
THEOREM ClearsHaveQuorum == Spec => []ClearedByQuorum
<1>1. TInv /\ DoorInv => ClearedByQuorum
  <2> SUFFICES ASSUME TInv, DoorInv, NEW s \in cleared
               PROVE  \E i \in Rows("REARM_APPROVED", s),
                         j \in Rows("NEW_RISK_HALT_CLEARED_BY_OPERATOR", s) :
                         i < j /\ \E a, b \in Who(entries[i].by) : Independent(a, b)
    BY DEF ClearedByQuorum
  <2>1. PICK i, j \in DOMAIN entries :
          i < j /\ Approves(i, s) /\ j \in Rows("NEW_RISK_HALT_CLEARED_BY_OPERATOR", s)
    BY DEF DoorInv, ClearOnRecord
  <2>2. /\ i \in Rows("REARM_APPROVED", s) /\ entries[i].by \in Files
        /\ quorum_independence_satisfied(entries[i].by)
    BY <2>1 DEF Approves
  <2>3. \E a, b \in Who(entries[i].by) : Independent(a, b)
    BY <2>2, QuorumIsIndependent
  <2> QED BY <2>1, <2>2, <2>3
<1> QED BY <1>1, Invariant, PTL

\* Whatever the operator stages while whatever is up, every row has a key that
\* is there, a rotation is signed with the key it is to (key_rotation.py), and
\* the RCL hears of a rotation after the store.
THEOREM KeysOnRecord == Spec => []KeyInv
<1>1. Init => KeyInv
  <2> SUFFICES ASSUME Init PROVE KeyInv
    OBVIOUS
  <2>1. /\ entries = << >> /\ rcl = {} /\ \A p \in Procs : proc[p] = Down
    BY DEF Init, InitStore
  <2>2. \A p \in Procs : proc[p].pc = "down"
    BY <2>1 DEF Down
  <2>3. DOMAIN entries = {} /\ Rotations = {}
    BY <2>1 DEF Rotations
  <2> QED BY <2>1, <2>2, <2>3 DEF KeyInv, At
<1>2. TInv /\ KeyInv /\ [Next]_vars => KeyInv'
  <2> SUFFICES ASSUME TInv, KeyInv, [Next]_vars PROVE KeyInv'
    OBVIOUS
  <2>1. CASE StageKey /\ UNCHANGED doorVars
    <3>1. entries' = entries /\ rcl' = rcl /\ proc' = proc /\ keys \subseteq keys'
      BY <2>1 DEF StageKey
    <3> QED BY <3>1 DEF KeyInv, Rotations, tip_has_rotation_commit_for, Rows, At
  <2>2. CASE \E p \in Procs : Step(p)
    BY <2>2, KeyPreserved
  <2>3. CASE UNCHANGED vars
    <3>1. keys' = keys /\ entries' = entries /\ rcl' = rcl /\ proc' = proc
      BY <2>3 DEF vars, storeVars
    <3> QED BY <3>1 DEF KeyInv, Rotations, tip_has_rotation_commit_for, Rows, At
  <2> QED BY <2>1, <2>2, <2>3, Steps
<1> QED BY <1>1, <1>2, Invariant, PTL DEF Spec

\* evidence/store.py (verify_key_generation_continuity) finds the history
\* unverifiable only when the last row was signed with a key that an earlier
\* row rotates away from, wherever rotate-key stopped and whatever was up.
THEOREM LockedOnlyByOverlap == Spec => []OnlyOverlapLocksStore
<1>1. TInv /\ KeyInv => OnlyOverlapLocksStore
  <2> SUFFICES ASSUME TInv, KeyInv,
                      verify_key_generation_continuity = "HISTORY_UNVERIFIABLE"
               PROVE  \E i \in Rotations : i < Len(entries) /\ tip_key_generation < entries[i].ref
    BY DEF OnlyOverlapLocksStore, KeyInv
  <2>1. /\ Max(keys) \in Nat \ {0} /\ keys = 1..Max(keys)
        /\ tip_key_generation # None <=> entries # << >>
    BY VerdictTyped
  <2>2. entries # << >> /\ tip_key_generation # Max(keys)
    BY <2>1 DEF verify_key_generation_continuity
  <2>3. entries \in Seq(Entry) /\ Len(entries) \in Nat /\ DOMAIN entries = 1..Len(entries)
    BY DEF TInv
  <2>4. Len(entries) \in DOMAIN entries /\ tip_key_generation = entries[Len(entries)].gen
    BY <2>2, <2>3 DEF tip_key_generation
  <2>5. tip_key_generation \in keys
    BY <2>4 DEF KeyInv
  <2>6. tip_key_generation \in Nat /\ tip_key_generation < Max(keys)
    BY <2>1, <2>2, <2>5
  <2>7. tip_has_rotation_commit_for(Max(keys))
    BY <2>1, <2>2, <2>5, <2>6 DEF verify_key_generation_continuity
  <2>8. PICK i \in DOMAIN entries : entries[i].kind = "KEY_ROTATION" /\ entries[i].ref = Max(keys)
    BY <2>7 DEF tip_has_rotation_commit_for, Rows
  <2>9. i \in Rotations /\ entries[i].gen = Max(keys)
    BY <2>8 DEF KeyInv, Rotations
  <2>10. i # Len(entries)
    BY <2>4, <2>6, <2>9
  <2> QED BY <2>3, <2>6, <2>8, <2>9, <2>10
<1> QED BY <1>1, KeysOnRecord, Invariant, PTL
=============================================================================
