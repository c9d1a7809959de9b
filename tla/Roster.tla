------------------------------- MODULE Roster -------------------------------
(***************************************************************************)
(* What claims, invitations and join intents promise, without tokens,      *)
(* slots, intents or concurrent calls: each preparation has a roster that  *)
(* only its owner and those its owner invited may be on, never more at a   *)
(* time than the lobby holds; and only an account that was on it may be    *)
(* admitted on the server process of that preparation.                     *)
(***************************************************************************)
EXTENDS Naturals, FiniteSets

CONSTANTS Preps, Accounts, Owner, Capacity

VARIABLES
  invited,   \* the <<preparation, account>> pairs the owner ever invited
  members,   \* those holding a slot now
  seated,    \* those that ever held one
  admitted   \* the accounts admitted on the process of a preparation

rosterVars == <<invited, members, seated, admitted>>

MembersOf(p) == {m \in members : m[1] = p}

RosterInit == invited = {} /\ members = {} /\ seated = {} /\ admitted = {}

InviteOnto(p, a) == invited' = invited \cup {<<p, a>>} /\ UNCHANGED <<members, seated, admitted>>

Seat(p, a) ==
  /\ a = Owner[p] \/ <<p, a>> \in invited
  /\ <<p, a>> \notin members /\ Cardinality(MembersOf(p)) < Capacity
  /\ members' = members \cup {<<p, a>>} /\ seated' = seated \cup {<<p, a>>}
  /\ UNCHANGED <<invited, admitted>>

Leave(p, a) == members' = members \ {<<p, a>>} /\ UNCHANGED <<invited, seated, admitted>>

AdmitTo(p, a) ==
  /\ <<p, a>> \in seated
  /\ admitted' = admitted \cup {<<p, a>>}
  /\ UNCHANGED <<invited, members, seated>>

RosterNext ==
  \E p \in Preps, a \in Accounts : InviteOnto(p, a) \/ Seat(p, a) \/ Leave(p, a) \/ AdmitTo(p, a)

RosterSpec == RosterInit /\ [][RosterNext]_rosterVars
=============================================================================
