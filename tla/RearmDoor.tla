----------------------------- MODULE RearmDoor -----------------------------
(***************************************************************************)
(* The operator's way out of a new-risk halt: the two-person quorum of     *)
(* safety/rearm.py and the clear of the latch behind it, as walked by the  *)
(* rearm command (compose/_cli_ops.py) and by the running runtime          *)
(* (compose/_types.py), over the stores of EvidenceStore and the latch row *)
(* of the inbox.                                                           *)
(*                                                                         *)
(* A decision file is a sequence of attestations, or None: missing,        *)
(* malformed, of another environment or for another sequence number, or    *)
(* beside a roster that is missing or leaves control unresolved.           *)
(***************************************************************************)
EXTENDS EvidenceStore

CONSTANTS
    Principals,       \* identities that appear in decision files
    Roster,           \* principals of roster.yaml
    ControlEdges,     \* pairs under common control, per the roster
    Files             \* decision files operators may write

ASSUME FilesAreTyped ==
    /\ Files \subseteq Seq([ who : Principals, decision : { "APPROVE", "DENY", "ABSTAIN" } ])
    /\ Roster \subseteq Principals /\ ControlEdges \subseteq Principals \X Principals
    /\ IsFiniteSet(Principals)

VARIABLES
    latch,    \* new_risk_halt: the sequence number it names, or None
    cleared   \* history: sequence numbers whose latch was cleared

doorVars == << latch, cleared >>
vars == << storeVars, doorVars >>

Init == InitStore /\ latch = None /\ cleared = {}

-----------------------------------------------------------------------------
(* The halts that reach the latch: a row that says why, then the latch *)

\* An event judged restrictive: its EVENT_CONSUMED row, which the latch names,
\* then the incident candidate.
JudgeRestrictive(p) ==
    /\ At(p, "open") /\ proc[p].cmd = "run"
    /\ append("EVENT_CONSUMED", proc[p].gen, 0, None)
    /\ proc' = [ proc EXCEPT ![p].pc = "judged", ![p].ref = Len(entries) + 1 ]
    /\ UNCHANGED << keys, emergency, rcl, doorVars >>

latch_restrictive(p) ==
    /\ At(p, "judged") /\ Goto(p, "halted")
    /\ append("INCIDENT_CANDIDATE", proc[p].gen, proc[p].ref, None)
    /\ UNCHANGED << keys, emergency, rcl, doorVars >>

\* A controlled shutdown denies new risk before it stops anything.
deny_before_stop(p) ==
    /\ At(p, "open") /\ proc[p].cmd = "run"
    /\ append("CONTROLLED_SHUTDOWN_STARTED", proc[p].gen, 0, None)
    /\ proc' = [ proc EXCEPT ![p].pc = "denying", ![p].ref = Len(entries) + 1 ]
    /\ UNCHANGED << keys, emergency, rcl, doorVars >>

\* INSERT OR IGNORE: the first cause stays.
record_new_risk_halt(seq) == latch' = IF latch = None THEN seq ELSE latch

\* After the latch the runtime goes on, or shuts down.
AfterLatch(p) ==
    proc' = [ proc EXCEPT ![p].pc = IF proc[p].pc = "denying" THEN "stopping" ELSE "open",
                          ![p].ref = 0 ]

\* Mutant: the latch is set as soon as the first row is there.
LatchBeforeEmergency(p) ==
    /\ proc[p].pc \in { "halting", "judged", "halted", "denying" } /\ AfterLatch(p)
    /\ record_new_risk_halt(proc[p].ref)
    /\ UNCHANGED << keys, entries, emergency, rcl, cleared >>

LatchHalt(p) ==
    /\ proc[p].pc \in { "halted", "denying" } /\ AfterLatch(p)
    /\ record_new_risk_halt(proc[p].ref)
    /\ UNCHANGED << keys, entries, emergency, rcl, cleared >>

-----------------------------------------------------------------------------
(* The quorum *)

\* Undirected components of the roster's control graph, whether or not an edge's
\* other end is itself on the roster.
Linked(x, y) == << x, y >> \in ControlEdges \/ << y, x >> \in ControlEdges

effective_principal_collapse ==
    LET reach[n \in 0..Cardinality(Principals)] ==
          IF n = 0 THEN [ x \in Principals |-> {x} ]
          ELSE [ x \in Principals |->
                   reach[n - 1][x] \cup
                   { y \in Principals : \E z \in reach[n - 1][x] : Linked(z, y) } ]
    IN  reach[Cardinality(Principals)]

Who(f) == { f[i].who : i \in DOMAIN f }

\* Mutant: two names are two persons.
quorum_of_names(f) ==
    /\ \A i \in DOMAIN f : f[i].decision = "APPROVE" /\ f[i].who \in Roster
    /\ Cardinality(Who(f)) = Len(f) /\ Len(f) >= 2

\* Everybody in the file approves, is on the roster, and no two of them share
\* a controlling person; two at least.
quorum_independence_satisfied(f) ==
    /\ \A i \in DOMAIN f : f[i].decision = "APPROVE" /\ f[i].who \in Roster
    /\ \A i, j \in DOMAIN f :
          effective_principal_collapse[f[i].who] = effective_principal_collapse[f[j].who]
          => i = j
    /\ Len(f) >= 2

\* The consumption id is a function of the sequence number alone, and so is
\* what the set's digest binds: one approval per latch, ever.
approval_set_single_use(seq) == Rows("REARM_APPROVED", seq) = {}

\* The command exits, the runtime goes on.
EndDoor(p) ==
    proc' = [ proc EXCEPT ![p] =
                IF proc[p].cmd = "run"
                THEN [ proc[p] EXCEPT !.pc = "open", !.ref = 0, !.note = None ]
                ELSE Down ]

\* prepare_new_risk_halt_clear: refused when there is no latch, or another one
\* than the operator names.
Ask(p, seq) ==
    /\ At(p, "open") /\ proc[p].cmd \in { "run", "rearm" } /\ latch = seq
    /\ proc' = [ proc EXCEPT ![p].pc = "asked", ![p].ref = seq ]
    /\ UNCHANGED << keys, entries, emergency, rcl, doorVars >>

AskRefused(p, seq) ==
    /\ At(p, "open") /\ proc[p].cmd \in { "run", "rearm" } /\ latch # seq
    /\ append("NEW_RISK_HALT_CLEAR_REFUSED", proc[p].gen, 0, None) /\ EndDoor(p)
    /\ UNCHANGED << keys, emergency, rcl, doorVars >>

\* approve_and_clear reads file, latch, roster and earlier approvals.
approved(seq, f) ==
    /\ f # None /\ latch = seq
    /\ quorum_independence_satisfied(f) /\ approval_set_single_use(seq)

Evaluate(p, f) ==
    /\ At(p, "asked") /\ approved(proc[p].ref, f)
    /\ proc' = [ proc EXCEPT ![p].pc = "quorum", ![p].note = f ]
    /\ UNCHANGED << keys, entries, emergency, rcl, doorVars >>

EvaluateRefused(p, f) ==
    /\ At(p, "asked") /\ ~approved(proc[p].ref, f) /\ Goto(p, "declined")
    /\ append("REARM_REFUSED", proc[p].gen, 0, None)
    /\ UNCHANGED << keys, emergency, rcl, doorVars >>

\* The last row of a door that does not open.
RecordDeclined(p) ==
    /\ At(p, "declined")
    /\ append("NEW_RISK_HALT_CLEAR_REFUSED", proc[p].gen, 0, None) /\ EndDoor(p)
    /\ UNCHANGED << keys, emergency, rcl, doorVars >>

-----------------------------------------------------------------------------
(* Approval, clear: evidence before the change, in three transactions *)

ConsumeApproval(p) ==
    /\ At(p, "quorum") /\ Goto(p, "approved")
    /\ append("REARM_APPROVED", proc[p].gen, proc[p].ref, proc[p].note)
    /\ UNCHANGED << keys, emergency, rcl, doorVars >>

RecordCleared(p) ==
    /\ At(p, "approved") /\ Goto(p, "clearing")
    /\ append("NEW_RISK_HALT_CLEARED_BY_OPERATOR", proc[p].gen, proc[p].ref, None)
    /\ UNCHANGED << keys, emergency, rcl, doorVars >>

\* inbox.clear_new_risk_halt: deletes the row only if it names this number.
clear_new_risk_halt(p) ==
    /\ At(p, "clearing") /\ latch = proc[p].ref
    /\ latch' = None /\ cleared' = cleared \cup { proc[p].ref } /\ EndDoor(p)
    /\ UNCHANGED << keys, entries, emergency, rcl >>

StorageRefused(p) ==
    /\ At(p, "clearing") /\ latch # proc[p].ref /\ Goto(p, "declined")
    /\ UNCHANGED << keys, entries, emergency, rcl, doorVars >>

DoorStep(p) ==
    \/ JudgeRestrictive(p) \/ latch_restrictive(p) \/ deny_before_stop(p) \/ LatchHalt(p)
    \/ \E seq \in DOMAIN entries : Ask(p, seq) \/ AskRefused(p, seq)
    \/ \E f \in Files \cup {None} : Evaluate(p, f) \/ EvaluateRefused(p, f)
    \/ RecordDeclined(p) \/ ConsumeApproval(p) \/ RecordCleared(p)
    \/ clear_new_risk_halt(p) \/ StorageRefused(p)

Next ==
    \/ StoreNext /\ UNCHANGED doorVars
    \/ \E p \in Procs : DoorStep(p)

Spec == Init /\ [][Next]_vars
=============================================================================
