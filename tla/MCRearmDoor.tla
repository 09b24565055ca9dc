---------------------------- MODULE MCRearmDoor ----------------------------
(***************************************************************************)
(* Three identities on the roster, two of them under one control through a *)
(* fourth that is not on it.                                               *)
(***************************************************************************)
EXTENDS RearmDoorProps, TLC

CONSTANTS ann, bob, cat, eve

MCPrincipals == { ann, bob, cat, eve }
MCRoster == { ann, bob, cat }
MCControlEdges == { << eve, bob >>, << eve, cat >> }

Yes(x) == [ who |-> x, decision |-> "APPROVE" ]
No(x) == [ who |-> x, decision |-> "DENY" ]

MCFiles ==
    { << Yes(ann), Yes(bob) >>,             \* a quorum
      << Yes(bob), Yes(cat) >>,             \* one person twice
      << Yes(ann), No(bob) >>, << Yes(ann), Yes(eve) >> }

ProcsSymmetry == Permutations(Procs)
=============================================================================
