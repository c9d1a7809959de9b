---------------------------- MODULE MCAttemptPath ----------------------------
(* An instance of AttemptPath: two preparations that share a revision (two  *)
(* preparations of one replay moment do), each with its owner and its       *)
(* process, and a third account, which has no Steam identity.               *)
EXTENDS AttemptPath, TLC

CONSTANTS p1, p2, alice, bob, carol

MCPreps == {p1, p2}
MCAccounts == {alice, bob, carol}
MCOwner == p1 :> alice @@ p2 :> bob
MCGenerationOf == [p \in MCPreps |-> p]
MCRevisionOf == [p \in MCPreps |-> "rev"]
MCSteamOf == [a \in MCAccounts |-> IF a = carol THEN "none" ELSE a]

\* The calls are interchangeable, and the preparations are together with their
\* owners.
Symmetry ==
  Permutations(Calls)
    \cup {p1 :> p2 @@ p2 :> p1 @@ alice :> bob @@ bob :> alice}
==============================================================================
