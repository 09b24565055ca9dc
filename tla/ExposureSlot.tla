---------------------------- MODULE ExposureSlot ----------------------------
(***************************************************************************)
(* What the engine promises about orders that may be alive at the broker:  *)
(* a scope has one slot; an attempt takes a free slot at most once ever,   *)
(* keeps it whatever is heard or not heard of it, and gives it back only   *)
(* after a terminal answer of the broker was seen.                         *)
(***************************************************************************)
CONSTANTS Scopes, Attempts, Nobody

VARIABLES live,      \* the attempt in each scope's slot, or Nobody
          spent,     \* attempts that ever left the engine
          settled    \* attempts a terminal result was seen for

slotVars == <<live, spent, settled>>

Init ==
    /\ live = [s \in Scopes |-> Nobody]
    /\ spent = {}
    /\ settled = {}

Open(s, a) ==
    /\ live[s] = Nobody
    /\ a \notin spent
    /\ live' = [live EXCEPT ![s] = a]
    /\ spent' = spent \cup {a}
    /\ UNCHANGED settled

Settle(s) ==
    /\ live[s] # Nobody
    /\ settled' = settled \cup {live[s]}
    /\ UNCHANGED <<live, spent>>

Close(s) ==
    /\ live[s] \in settled
    /\ live' = [live EXCEPT ![s] = Nobody]
    /\ UNCHANGED <<spent, settled>>

Next ==
    \/ \E s \in Scopes, a \in Attempts : Open(s, a)
    \/ \E s \in Scopes : Settle(s) \/ Close(s)

Spec == Init /\ [][Next]_slotVars
=============================================================================
