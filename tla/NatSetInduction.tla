-------------------------- MODULE NatSetInduction --------------------------
(***************************************************************************)
(* Induction over the natural numbers for sets: what the proofs about      *)
(* replays, folds and closures rest on.                                    *)
(***************************************************************************)
EXTENDS Naturals, WellFoundedInduction, TLAPS

\* Every non-empty set of natural numbers has a least element.
LEMMA LeastNat ==
    ASSUME NEW T, T \subseteq Nat, T # {}
    PROVE  \E x \in T : \A y \in T : x <= y
<1>1. PICK x \in T : \A y \in T : ~ (<< y, x >> \in OpToRel(<, Nat))
  BY NatLessThanWellFounded, WFMin
<1>2. \A y \in T : ~ (y < x)
  BY <1>1 DEF OpToRel
<1> QED BY <1>2

\* A set that holds 0 and goes on from each number below N holds all up to N.
LEMMA SetInduction ==
    ASSUME NEW N \in Nat, NEW S, 0 \in S,
           \A i \in 0..N : i \in S /\ i < N => i + 1 \in S
    PROVE  \A i \in 0..N : i \in S
<1> DEFINE Out == { i \in 0..N : i \notin S }
<1>1. SUFFICES ASSUME Out # {} PROVE FALSE
  OBVIOUS
<1>2. PICK n \in Out : \A m \in Out : n <= m
  <2>1. Out \subseteq Nat
    OBVIOUS
  <2> HIDE DEF Out
  <2> QED BY <1>1, <2>1, LeastNat
<1>3. n # 0 /\ n - 1 \in 0..N /\ n - 1 < N /\ n - 1 \notin Out
  BY <1>2
<1>4. n - 1 \in S
  BY <1>3
<1>5. (n - 1) + 1 \in S
  BY <1>3, <1>4
<1> QED BY <1>2, <1>5
=============================================================================
