--------------------------- MODULE EvidenceStore ---------------------------
(***************************************************************************)
(* The evidence store of the runtime (evidence/store.py, emergency.py) with *)
(* its signing keys (custody/key_provider.py) and the rotate-key command   *)
(* (operations/key_rotation.py).  Every process that opens the file, the   *)
(* running runtime and the operator's commands alike, keeps the signing    *)
(* generation it resolved at opening in memory.                            *)
(*                                                                         *)
(* An append is one transaction under BEGIN IMMEDIATE: it chains to the    *)
(* tail it reads inside and is durable or absent.  A row is its kind, the  *)
(* generation that signed it, and the number or generation its payload     *)
(* names where a later reader looks for it (0 where nobody does).          *)
(***************************************************************************)
EXTENDS Naturals, Sequences, FiniteSetsExt

CONSTANTS
    Procs,          \* process slots over one data directory
    MaxGen,         \* bound: key generations an operator ever stages
    MaxRoom,        \* bound: rows of the store, a key file counting for two
    None

ASSUME StoreConstants ==
    /\ MaxGen \in Nat /\ MaxRoom \in Nat
    /\ None \notin Nat

VARIABLES
    keys,       \* generations with a key file under the custody root
    entries,    \* the entries table
    emergency,  \* lines of the emergency log: sequence number and generation
    rcl,        \* generations whose rotation the commit log of the RCL records
    proc        \* memory of each process

storeVars == << keys, entries, emergency, rcl, proc >>

\* cmd and ref: the command and its argument; gen: the signing generation;
\* note: what an earlier read said; pc: where the process stands.
Down == [ pc |-> "down", cmd |-> None, gen |-> 0, ref |-> 0, note |-> None ]

At(p, pc) == proc[p].pc = pc
Up(p) == ~At(p, "down")
Goto(p, pc) == proc' = [ proc EXCEPT ![p].pc = pc ]

InitStore ==
    /\ keys = {1} /\ entries = << >> /\ emergency = {} /\ rcl = {}
    /\ proc = [ p \in Procs |-> Down ]

-----------------------------------------------------------------------------
(* Appending *)

Row(kind, gen, ref, by) == [ kind |-> kind, gen |-> gen, ref |-> ref, by |-> by ]

\* The generation stored with a row is that of the scheme which signs it.
append(kind, gen, ref, by) ==
    /\ Len(entries) + 2 * Cardinality(keys) < MaxRoom
    /\ entries' = Append(entries, Row(kind, gen, ref, by))

Rows(kind, ref) == { i \in DOMAIN entries : entries[i].kind = kind /\ entries[i].ref = ref }

-----------------------------------------------------------------------------
(* Opening the store *)

tip_key_generation == IF entries = << >> THEN None ELSE entries[Len(entries)].gen

tip_has_rotation_commit_for(g) == Rows("KEY_ROTATION", g) # {}

verify_key_generation_continuity ==
    IF tip_key_generation = None
    THEN IF Cardinality(keys) = 1 THEN "CONTINUOUS" ELSE "ROTATION_PENDING"
    ELSE IF Max(keys) = tip_key_generation THEN "CONTINUOUS"
    ELSE IF \/ tip_key_generation \notin keys
            \/ Max(keys) < tip_key_generation
            \/ tip_has_rotation_commit_for(Max(keys))
    THEN "HISTORY_UNVERIFIABLE"
    ELSE "ROTATION_PENDING"

\* Only rotate-key names a pending generation, and it must be the newest file.
rotation_permitted(cmd, g) ==
    /\ verify_key_generation_continuity = "ROTATION_PENDING"
    /\ cmd = "rotate" /\ g = Max(keys)
    /\ tip_key_generation # None

\* SqliteEvidenceStore.__init__: a refused process has written nothing.  Nothing
\* keeps rotate-key apart from a process that is up.
Open(p, cmd, g) ==
    /\ ~Up(p)
    /\ \/ verify_key_generation_continuity = "CONTINUOUS"
       \/ rotation_permitted(cmd, g)
    /\ proc' = [ proc EXCEPT ![p] =
                   [ pc |-> "checked", cmd |-> cmd, gen |-> 0, ref |-> g,
                     note |-> verify_key_generation_continuity ] ]
    /\ UNCHANGED << keys, entries, emergency, rcl >>

\* The key is looked up after the check: current() lists the files again, a
\* pending rotation reads the tip again.
resolve_signing_key(p) ==
    IF proc[p].note = "CONTINUOUS" THEN Max(keys) ELSE tip_key_generation

ResolveSigningKey(p) ==
    /\ At(p, "checked")
    /\ proc' = [ proc EXCEPT ![p].pc = "open", ![p].gen = resolve_signing_key(p),
                             ![p].note = None ]
    /\ UNCHANGED << keys, entries, emergency, rcl >>

\* A process ends or dies wherever it stands; an exception that leaves a
\* command, or the run loop, is the same end.
Stop(p) ==
    /\ Up(p) /\ proc' = [ proc EXCEPT ![p] = Down ]
    /\ UNCHANGED << keys, entries, emergency, rcl >>

-----------------------------------------------------------------------------
(* The runtime's rows and its halts *)

Record(p) ==
    /\ \/ At(p, "open") /\ proc[p].cmd \in { "run", "rearm" }
       \/ At(p, "stopping")
    /\ append("RECORD", proc[p].gen, 0, None)
    /\ UNCHANGED << keys, emergency, rcl, proc >>

\* record_halt: the store first, then the emergency log, and only then the
\* caller gets its receipt (and goes on to the latch).
record_halt(p) ==
    /\ At(p, "open") /\ proc[p].cmd = "run"
    /\ append("HALT", proc[p].gen, 0, None)
    /\ proc' = [ proc EXCEPT ![p].pc = "halting", ![p].ref = Len(entries) + 1 ]
    /\ UNCHANGED << keys, emergency, rcl >>

EmergencyAppend(p) ==
    /\ At(p, "halting") /\ Goto(p, "halted")
    /\ emergency' = emergency \cup { [ seq |-> proc[p].ref, gen |-> proc[p].gen ] }
    /\ UNCHANGED << keys, entries, rcl >>

-----------------------------------------------------------------------------
(* Key rotation *)

\* The operator puts the next generation's file under the custody root, whatever
\* processes are up.
StageKey ==
    /\ Max(keys) < MaxGen /\ Len(entries) + 2 * Cardinality(keys) < MaxRoom
    /\ keys' = keys \cup { Max(keys) + 1 }
    /\ UNCHANGED << entries, emergency, rcl, proc >>

rotation_admitted(p) == proc[p].ref = proc[p].gen + 1 /\ proc[p].ref \in keys

\* Mutant: the rotation row is signed with the key that is being retired.
RotateUnderOldKey(p) ==
    /\ At(p, "open") /\ proc[p].cmd = "rotate" /\ rotation_admitted(p)
    /\ append("KEY_ROTATION", proc[p].gen, proc[p].ref, None)
    /\ proc' = [ proc EXCEPT ![p].pc = "rotated", ![p].gen = proc[p].ref ]
    /\ UNCHANGED << keys, emergency, rcl >>

\* rotate: the row is signed with the new key, the process signs with it from
\* here on; a process that had opened the store before keeps its own.
Rotate(p) ==
    /\ At(p, "open") /\ proc[p].cmd = "rotate" /\ rotation_admitted(p)
    /\ append("KEY_ROTATION", proc[p].ref, proc[p].ref, None)
    /\ proc' = [ proc EXCEPT ![p].pc = "rotated", ![p].gen = proc[p].ref ]
    /\ UNCHANGED << keys, emergency, rcl >>

RotateRefused(p) ==
    /\ At(p, "open") /\ proc[p].cmd = "rotate" /\ ~rotation_admitted(p)
    /\ proc' = [ proc EXCEPT ![p] = Down ]
    /\ UNCHANGED << keys, entries, emergency, rcl >>

\* The commit to the RCL appends its own evidence before its COMMIT.
RotationEvidence(p) ==
    /\ At(p, "rotated") /\ Goto(p, "recording")
    /\ append("RECORD", proc[p].gen, 0, None)
    /\ UNCHANGED << keys, emergency, rcl >>

RotationCommit(p) ==
    /\ At(p, "recording") /\ proc' = [ proc EXCEPT ![p] = Down ]
    /\ rcl' = rcl \cup { proc[p].ref }
    /\ UNCHANGED << keys, entries, emergency >>

\* Any exception or refusal of the RCL.
RotationCommitFails(p) ==
    /\ At(p, "rotated") \/ At(p, "recording")
    /\ Goto(p, "unrecorded")
    /\ UNCHANGED << keys, entries, emergency, rcl >>

RecordUnrecorded(p) ==
    /\ At(p, "unrecorded") /\ proc' = [ proc EXCEPT ![p] = Down ]
    /\ append("KEY_ROTATION_RCL_UNRECORDED", proc[p].gen, proc[p].ref, None)
    /\ UNCHANGED << keys, emergency, rcl >>

StoreStep(p) ==
    \/ \E g \in 2..MaxGen : Open(p, "rotate", g)
    \/ \E cmd \in { "run", "rearm" } : Open(p, cmd, 0)
    \/ ResolveSigningKey(p) \/ Stop(p) \/ Record(p)
    \/ record_halt(p) \/ EmergencyAppend(p)
    \/ Rotate(p) \/ RotateRefused(p)
    \/ RotationEvidence(p) \/ RotationCommit(p) \/ RotationCommitFails(p)
    \/ RecordUnrecorded(p)

StoreNext == StageKey \/ \E p \in Procs : StoreStep(p)
=============================================================================
