--------------------------- MODULE MCRclCommitLog ---------------------------
(***************************************************************************)
(* A small instance of the Safety Commit Log: two process slots, one       *)
(* reservation and its whole lifecycle, one approval consumption, and the  *)
(* calls a gate must refuse.                                               *)
(***************************************************************************)
EXTENDS RclCommitLogProps

CONSTANTS c1, c2, c3, c4, d1, d2, r1, s1, v1

MCCommands == { c1, c2, c3, c4 }
MCDigests == { d1, d2 }
MCReservations == { r1 }
MCScopes == { s1 }
MCVectors == { v1 }

Transition(cmd, digest, from, to, cause, witness, vector) ==
    [ cmd |-> cmd, digest |-> digest,
      kind |-> IF cmd = c3 THEN "RELEASE_RESERVATION" ELSE "RESERVATION", resv |-> r1,
      from |-> from, to |-> to, cause |-> cause, witness |-> witness,
      scope |-> s1, vector |-> vector ]

MCRequests ==
    { \* commit the reservation, and the same command with other bytes
      Transition(c1, d1, "COMMITTED_UNBOUND", "POTENTIALLY_LIVE",
                 "STRONGLY_AUTHORIZED_COMMAND", FALSE, v1),
      Transition(c1, d2, "COMMITTED_UNBOUND", "QUARANTINED_UNKNOWN",
                 "TIMEOUT", FALSE, None),
      \* a timeout may quarantine and never relax
      Transition(c2, d1, "QUARANTINED_UNKNOWN", "POTENTIALLY_LIVE",
                 "TIMEOUT", FALSE, None),
      \* the release, with and without the proof it needs, and a revival
      Transition(c3, d1, "POTENTIALLY_LIVE", "RELEASED",
                 "FINAL_QUANTITY_PROOF", TRUE, None),
      Transition(c3, d1, "POTENTIALLY_LIVE", "RELEASED",
                 "FINAL_QUANTITY_PROOF", FALSE, None),
      Transition(c2, d2, "RELEASED", "COMMITTED_UNBOUND",
                 "STRONGLY_AUTHORIZED_COMMAND", TRUE, v1),
      \* an approval consumption, without a digest
      [ cmd |-> c4, digest |-> None, kind |-> "CONSUME_APPROVAL_DECISION",
        resv |-> None, from |-> "COMMITTED_UNBOUND", to |-> "COMMITTED_UNBOUND",
        cause |-> "STRONGLY_AUTHORIZED_COMMAND", witness |-> FALSE,
        scope |-> s1, vector |-> None ] }
=============================================================================
