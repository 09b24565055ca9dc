--------------------------- MODULE RearmDoorProps ---------------------------
(***************************************************************************)
(* What the evidence store, its key rotation and the operator's door       *)
(* promise.                                                                *)
(***************************************************************************)
EXTENDS RearmDoor

Rotations == { i \in DOMAIN entries : entries[i].kind = "KEY_ROTATION" }

\* custody/key_provider.py 4-7: a generation is valid from the rotation commit
\* on and the previous key is invalid for signing at the same moment, "overlap
\* 0".  No row is signed with a generation that was not rotated to, nor with
\* one that was rotated away from.
NoOverlap ==
    \A j \in DOMAIN entries :
        /\ entries[j].gen # 1 => \E i \in Rotations : i <= j /\ entries[i].ref = entries[j].gen
        /\ \A i \in Rotations : i < j => entries[j].gen >= entries[i].ref

\* Wherever rotate-key ends or dies, and however many keys are staged ahead, the
\* next boot never finds the history unverifiable, except through a process
\* that was left up and has signed the last row with a key already rotated away
\* from.  The RCL knows of no rotation that the store does not hold.
OnlyOverlapLocksStore ==
    /\ verify_key_generation_continuity = "HISTORY_UNVERIFIABLE" =>
         \E i \in Rotations : i < Len(entries) /\ tip_key_generation < entries[i].ref
    /\ \A g \in rcl : tip_has_rotation_commit_for(g)

\* Two principals answer to different persons: no chain of control joins them.
Independent(a, b) ==
    \E S \in SUBSET Principals :
        /\ a \in S /\ b \in Principals \ S
        /\ \A e \in ControlEdges : e[1] \in S <=> e[2] \in S

\* A latch that was cleared was cleared by an approval of two independent
\* persons for this very halt, recorded, and followed by the record of the
\* clear, whichever processes stood in the door at the time.
ClearedByQuorum ==
    \A s \in cleared :
        \E i \in Rows("REARM_APPROVED", s), j \in Rows("NEW_RISK_HALT_CLEARED_BY_OPERATOR", s) :
            /\ i < j
            /\ \E a, b \in Who(entries[i].by) : Independent(a, b)

\* A halt that stops new risk can be traced: the latch names the row of its
\* cause, with the emergency log's line for it if it was a violation and the
\* incident candidate if it was a restrictive event, wherever the process died.
HaltIsTraced ==
    /\ latch # None =>
         \/ entries[latch].kind = "HALT" /\ \E l \in emergency : l.seq = latch
         \/ entries[latch].kind = "EVENT_CONSUMED" /\ Rows("INCIDENT_CANDIDATE", latch) # {}
         \/ entries[latch].kind = "CONTROLLED_SHUTDOWN_STARTED"
    /\ \A l \in emergency : entries[l.seq].kind = "HALT" /\ entries[l.seq].gen = l.gen

\* engine/inbox.py 151-155: "a runtime-wide, singleton, durable, and UNCLEARABLE
\* latch is too strong"; the operator always has a way to clear it.  With
\* nobody in the door, a quorum for the standing latch would be accepted.
RearmPossible ==
    /\ latch # None
    /\ \A p \in Procs : proc[p].pc \notin { "asked", "quorum", "approved", "clearing", "declined" }
    => approval_set_single_use(latch)
=============================================================================
