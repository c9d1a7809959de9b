--------------------------- MODULE JoinPathProofs ---------------------------
(* Proofs about JoinPath, for any number of calls, preparations and        *)
(* accounts, any capacity, and any number of invitations and intents; and  *)
(* about AttemptPath, which takes its admissions on to private results.    *)
EXTENDS AttemptPath, WellFoundedInduction, FiniteSetTheorems, TLAPS

-----------------------------------------------------------------------------
(* The lowest free slot.                                                   *)

LEMMA LowestExists ==
  ASSUME NEW S, S \subseteq Nat, S # {}
  PROVE  \E s \in S : \A t \in S : s <= t
  <1> DEFINE Less == {ss \in Nat \X Nat : ss[1] < ss[2]}
  <1>1. IsWellFoundedOn(Less, Nat)  BY NatLessThanWellFounded DEF OpToRel
  <1>2. \A s, t \in Nat : ~(<<t, s>> \in Less) => s <= t  OBVIOUS
  <1> HIDE DEF Less
  <1>3. PICK s \in S : \A t \in S : ~(<<t, s>> \in Less)
    BY <1>1, WFMin
  <1> QED  BY <1>2, <1>3

LEMMA LowestIsFree ==
  ASSUME NEW p, Occupied(p) # Slots
  PROVE  LowestFree(p) \in Slots /\ LowestFree(p) \notin Occupied(p)
  <1>1. Slots \ Occupied(p) # {} /\ Slots \ Occupied(p) \subseteq Nat
    BY JoinAssumption DEF Occupied, Slots
  <1>2. \E s \in Slots \ Occupied(p) : \A t \in Slots \ Occupied(p) : s <= t
    BY <1>1, LowestExists
  <1> QED  BY <1>2 DEF LowestFree

LEMMA SlotsFinite == IsFiniteSet(Slots) /\ Cardinality(Slots) = Capacity
  BY FS_Interval, JoinAssumption DEF Slots

-----------------------------------------------------------------------------
(* The inductive invariant.                                                *)

Invited == {<<invites[i].prep, invites[i].account>> : i \in 1 .. inviteSeq}
MayHold(p, a) == Owner[p] = a \/ <<p, a>> \in Invited

\* Whoever holds a slot was seated, and whoever was seated was allowed to be.
Seating ==
  /\ \A p \in Preps, a \in Accounts : Holds(p, a) => <<p, a>> \in seated
  /\ \A p \in Preps, a \in Accounts : <<p, a>> \in seated => MayHold(p, a)

\* What a call in progress has established.
Checked(c) ==
  /\ c.pc = "claim" => MayHold(c.prep, c.account)
  /\ c.pc = "intent" => <<c.prep, c.account>> \in seated /\ SteamOf[c.account] # NoSteam
  /\ c.pc = "admit" => intents[c.intent].used

CallsChecked == \A k \in Calls : Checked(call[k])

\* An intent was issued to someone who was seated.
ForSeated(intent) ==
  \E p \in Preps : /\ intent.generation = GenerationOf[p] /\ intent.revision = RevisionOf[p]
                   /\ <<p, intent.account>> \in seated

IntentsForSeated == \A i \in 1 .. intentSeq : ForSeated(intents[i])

IInv ==
  TypeOK /\ LobbyConsistent /\ Seating /\ CallsChecked /\ IntentsForSeated /\ AdmissionsIssued

-----------------------------------------------------------------------------
LEMMA InitHolds == Init => IInv
  <1> SUFFICES ASSUME Init PROVE IInv  OBVIOUS
  <1>1. TypeOK
    <2>1. 1 .. 0 = {}  OBVIOUS
    <2>2. /\ slots \in [Preps -> [Slots -> Accounts \cup {Free}]]
          /\ byAccount \in [Preps -> [Accounts -> Slots \cup {Free}]]
          /\ server \in [Preps -> {"none", "failure", "starting", "ready"}]
      BY DEF Init
    <2>3. /\ inviteSeq \in 0 .. MaxInvites /\ invites \in [1 .. inviteSeq -> Invitation]
          /\ intentSeq \in 0 .. MaxIntents /\ intents \in [1 .. intentSeq -> JoinIntent]
      BY <2>1, JoinAssumption DEF Init
    <2>4. /\ call \in [Calls -> {Idle} \cup Pending]
          /\ \A k \in Calls : call[k].pc = "admit" => call[k].intent \in DOMAIN intents
      BY DEF Init, Idle
    <2> QED  BY <2>2, <2>3, <2>4 DEF TypeOK, Init
  <1>2. LobbyConsistent
    BY JoinAssumption DEF Init, LobbyConsistent
  <1>3. Seating /\ CallsChecked
    BY DEF Init, Seating, CallsChecked, Checked, Holds, Idle
  <1>4. IntentsForSeated /\ AdmissionsIssued
    BY DEF Init, IntentsForSeated, AdmissionsIssued, Idle
  <1> QED  BY <1>1, <1>2, <1>3, <1>4 DEF IInv

\* Facts of the invariant in the form the steps use.
LEMMA CallTypes ==
  ASSUME IInv, NEW k \in Calls
  PROVE  /\ call[k] \in {Idle} \cup Pending
         /\ call[k].pc \in {"claim", "release", "intent"} =>
              call[k].account \in Accounts /\ call[k].prep \in Preps
         /\ call[k].pc = "admit" => call[k].intent \in 1 .. intentSeq
         /\ Checked(call[k])
  BY DEF IInv, TypeOK, Pending, Idle, CallsChecked

LEMMA CallChanges ==
  ASSUME IInv, NEW k \in Calls, NEW c \in {Idle} \cup Pending,
         call' = [call EXCEPT ![k] = c]
  PROVE  /\ call' \in [Calls -> {Idle} \cup Pending]
         /\ \A j \in Calls : call'[j] = IF j = k THEN c ELSE call[j]
  BY DEF IInv, TypeOK

\* A step that only moves one call on, neither to an admission nor from one;
\* or one that uses up an invitation as it begins.
LEMMA CallOnly ==
  ASSUME IInv, NEW k \in Calls, NEW c \in {Idle} \cup Pending,
         UNCHANGED <<lobbyVars, inviteSeq, server, intentVars>>,
         invites' \in [1 .. inviteSeq -> Invitation],
         \A i \in 1 .. inviteSeq : /\ invites'[i].prep = invites[i].prep
                                   /\ invites'[i].account = invites[i].account,
         call' = [call EXCEPT ![k] = c],
         call[k].pc # "admit", c.pc # "admit", Checked(c)
  PROVE  IInv'
  <1>1. /\ call' \in [Calls -> {Idle} \cup Pending]
        /\ \A j \in Calls : call'[j] = IF j = k THEN c ELSE call[j]
    BY CallChanges
  <1>2. Invited' = Invited  BY DEF Invited
  <1>3. TypeOK'  BY <1>1 DEF IInv, TypeOK, lobbyVars, intentVars
  <1>4. LobbyConsistent'  BY DEF IInv, LobbyConsistent, lobbyVars
  <1>5. Seating'  BY <1>2 DEF IInv, Seating, Holds, MayHold, lobbyVars
  <1>6. CallsChecked'
    <2>1. \A j \in Calls : Checked(call'[j])  BY <1>1 DEF IInv, CallsChecked
    <2> QED  BY <1>2, <2>1 DEF CallsChecked, Checked, MayHold, lobbyVars, intentVars
  <1>7. IntentsForSeated'
    BY DEF IInv, IntentsForSeated, ForSeated, lobbyVars, intentVars
  <1>8. AdmissionsIssued'
    <2>1. \A i : c # [pc |-> "admit", intent |-> i] /\ call[k] # [pc |-> "admit", intent |-> i]
      OBVIOUS
    <2>2. \A j \in Calls : \A i : call'[j] = [pc |-> "admit", intent |-> i]
                               <=> call[j] = [pc |-> "admit", intent |-> i]
      BY <1>1, <2>1
    <2>3. \A j \in Calls : call'[j].pc = "admit" => call[j].pc = "admit" /\ call'[j] = call[j]
      BY <1>1
    <2> QED  BY <2>2, <2>3 DEF IInv, AdmissionsIssued, AdmissionOf, intentVars
  <1> QED  BY <1>3, <1>4, <1>5, <1>6, <1>7, <1>8 DEF IInv

LEMMA BeginKeeps ==
  ASSUME IInv, NEW k \in Calls, NEW a \in Accounts, NEW p \in Preps,
         Claim(k, a, p) \/ Release(k, a, p) \/ ClaimAuthorized(k, a, p)
           \/ IssueJoinIntent(k, a, p)
  PROVE  IInv'
  <1>1. call[k].pc # "admit"
    BY DEF Claim, Release, ClaimAuthorized, IssueJoinIntent, Begins, Idle
  <1>2. invites \in [1 .. inviteSeq -> Invitation]  BY DEF IInv, TypeOK
  <1>3. ASSUME NEW pc \in {"claim", "release", "intent"}, Begins(k, pc, a, p),
               pc = "claim" => MayHold(p, a),
               pc = "intent" => <<p, a>> \in seated /\ SteamOf[a] # NoSteam,
               UNCHANGED <<lobbyVars, inviteSeq, server, intentVars>>,
               invites' \in [1 .. inviteSeq -> Invitation],
               \A i \in 1 .. inviteSeq : /\ invites'[i].prep = invites[i].prep
                                         /\ invites'[i].account = invites[i].account
        PROVE  IInv'
    <2> DEFINE c == [pc |-> pc, account |-> a, prep |-> p]
    <2>1. c \in {Idle} \cup Pending  BY DEF Pending
    <2>2. Checked(c) /\ c.pc # "admit"  BY <1>3 DEF Checked
    <2>3. call' = [call EXCEPT ![k] = c]  BY <1>3 DEF Begins
    <2> HIDE DEF c
    <2> QED  BY <1>1, <1>3, <2>1, <2>2, <2>3, CallOnly
  <1>4. CanView(p, a) => MayHold(p, a)
    BY DEF CanView, MayHold, IInv, Seating
  <1>5. CASE Claim(k, a, p) \/ Release(k, a, p)
    BY <1>2, <1>3, <1>4, <1>5 DEF Claim, Release, inviteVars
  <1>6. CASE ClaimAuthorized(k, a, p)
    <2>1. CASE Owner[p] = a /\ UNCHANGED invites
      BY <1>2, <1>3, <1>6, <2>1 DEF ClaimAuthorized, MayHold
    <2>2. ASSUME NEW i \in 1 .. inviteSeq, Redeems(i, a, p),
                 invites' = [invites EXCEPT ![i].state = "used"]
          PROVE  IInv'
      <3>1. <<p, a>> \in Invited  BY <2>2 DEF Redeems, Invited
      <3>2. /\ invites' \in [1 .. inviteSeq -> Invitation]
            /\ \A j \in 1 .. inviteSeq : /\ invites'[j].prep = invites[j].prep
                                          /\ invites'[j].account = invites[j].account
        BY <1>2, <2>2 DEF Invitation
      <3> QED  BY <1>3, <1>6, <3>1, <3>2 DEF ClaimAuthorized, MayHold
    <2> QED  BY <1>6, <2>1, <2>2 DEF ClaimAuthorized
  <1>7. CASE IssueJoinIntent(k, a, p)
    <2>1. <<p, a>> \in seated /\ SteamOf[a] # NoSteam
      BY <1>7 DEF IssueJoinIntent, Joinable, IInv, Seating
    <2> QED  BY <1>2, <1>3, <1>7, <2>1 DEF IssueJoinIntent, inviteVars
  <1> QED  BY <1>5, <1>6, <1>7

\* The invitations grow, or one of them expires.
LEMMA InvitesKeep ==
  ASSUME IInv,
         \/ \E a \in Accounts, p \in Preps, b \in Accounts : Invite(a, p, b)
         \/ \E i \in 1 .. inviteSeq : InviteExpires(i)
  PROVE  IInv' /\ (\/ Invited' = Invited
                  \/ \E p \in Preps, b \in Accounts : Invited' = Invited \cup {<<p, b>>})
  <1>0. invites \in [1 .. inviteSeq -> Invitation] /\ inviteSeq \in 0 .. MaxInvites
    BY DEF IInv, TypeOK
  <1>1. UNCHANGED <<lobbyVars, server, intentVars, call>>
    BY DEF Invite, InviteExpires
  <1>2. /\ inviteSeq' \in 0 .. MaxInvites /\ invites' \in [1 .. inviteSeq' -> Invitation]
        /\ \/ Invited' = Invited
           \/ \E p \in Preps, b \in Accounts : Invited' = Invited \cup {<<p, b>>}
    <2>1. ASSUME NEW a \in Accounts, NEW p \in Preps, NEW b \in Accounts, Invite(a, p, b)
          PROVE  <1>2!1 /\ <1>2!2 /\ Invited' = Invited \cup {<<p, b>>}
      <3> DEFINE new == [prep |-> p, account |-> b, state |-> "open"]
      <3>1. new \in Invitation  BY DEF Invitation
      <3>2. new.prep = p /\ new.account = b  OBVIOUS
      <3>3. /\ inviteSeq < MaxInvites /\ inviteSeq' = inviteSeq + 1
            /\ invites' = [i \in 1 .. inviteSeq' |-> IF i = inviteSeq' THEN new ELSE invites[i]]
        BY <2>1 DEF Invite
      <3> HIDE DEF new
      <3>4. /\ inviteSeq' \in 0 .. MaxInvites
            /\ 1 .. inviteSeq' = (1 .. inviteSeq) \cup {inviteSeq'} /\ inviteSeq' \notin 1 .. inviteSeq
        BY <1>0, <3>3, JoinAssumption
      <3>5. /\ invites'[inviteSeq'] = new
            /\ \A i \in 1 .. inviteSeq : invites'[i] = invites[i]
        BY <3>3, <3>4
      <3>6. invites' \in [1 .. inviteSeq' -> Invitation]
        BY <1>0, <3>1, <3>3, <3>4
      <3>7. Invited' = {<<invites'[i].prep, invites'[i].account>> :
                          i \in (1 .. inviteSeq) \cup {inviteSeq'}}
        BY <3>4 DEF Invited
      <3>8. Invited' = Invited \cup {<<p, b>>}
        BY <3>2, <3>5, <3>7 DEF Invited
      <3> QED  BY <3>4, <3>6, <3>8
    <2>2. ASSUME NEW i \in 1 .. inviteSeq, InviteExpires(i)
          PROVE  <1>2!1 /\ <1>2!2 /\ Invited' = Invited
      <3>1. invites' = [invites EXCEPT ![i].state = "expired"] /\ inviteSeq' = inviteSeq
        BY <2>2 DEF InviteExpires
      <3>2. /\ invites' \in [1 .. inviteSeq -> Invitation]
            /\ \A j \in 1 .. inviteSeq : /\ invites'[j].prep = invites[j].prep
                                          /\ invites'[j].account = invites[j].account
        BY <1>0, <3>1 DEF Invitation
      <3> QED  BY <1>0, <3>1, <3>2 DEF Invited
    <2> QED  BY <2>1, <2>2
  <1>3. Invited \subseteq Invited'  BY <1>2
  <1>4. TypeOK'  BY <1>1, <1>2 DEF IInv, TypeOK, lobbyVars, intentVars
  <1>5. LobbyConsistent'  BY <1>1 DEF IInv, LobbyConsistent, lobbyVars
  <1>6. Seating'  BY <1>1, <1>3 DEF IInv, Seating, Holds, MayHold, lobbyVars
  <1>7. CallsChecked'
    BY <1>1, <1>3 DEF IInv, CallsChecked, Checked, MayHold, lobbyVars, intentVars
  <1>8. IntentsForSeated'
    BY <1>1 DEF IInv, IntentsForSeated, ForSeated, lobbyVars, intentVars
  <1>9. AdmissionsIssued'
    BY <1>1 DEF IInv, AdmissionsIssued, AdmissionOf, intentVars
  <1> QED  BY <1>2, <1>4, <1>5, <1>6, <1>7, <1>8, <1>9 DEF IInv

LEMMA ServerKeeps ==
  ASSUME IInv, NEW p \in Preps, Allocated(p) \/ MarkReady(p)
  PROVE  IInv' /\ UNCHANGED <<lobbyVars, inviteVars, intentVars, call>>
  <1>1. UNCHANGED <<lobbyVars, inviteVars, intentVars, call>>
        /\ server' \in [Preps -> {"none", "failure", "starting", "ready"}]
    BY DEF Allocated, MarkReady, IInv, TypeOK
  <1>2. TypeOK'  BY <1>1 DEF IInv, TypeOK, lobbyVars, inviteVars, intentVars
  <1>3. LobbyConsistent' /\ Seating' /\ CallsChecked'
    BY <1>1 DEF IInv, LobbyConsistent, Seating, Holds, MayHold, Invited, CallsChecked, Checked,
              lobbyVars, inviteVars, intentVars
  <1>4. IntentsForSeated' /\ AdmissionsIssued'
    BY <1>1 DEF IInv, IntentsForSeated, ForSeated, AdmissionsIssued, AdmissionOf, lobbyVars, intentVars
  <1> QED  BY <1>1, <1>2, <1>3, <1>4 DEF IInv

-----------------------------------------------------------------------------
(* Claiming and releasing a slot.                                          *)

\* An action on the lobby that ends its call, as far as the lobby is not asked.
LEMMA LobbyEnds ==
  ASSUME IInv, NEW k \in Calls, call[k].pc # "admit", Ends(k),
         UNCHANGED <<inviteVars, server, intentVars>>,
         slots' \in [Preps -> [Slots -> Accounts \cup {Free}]],
         byAccount' \in [Preps -> [Accounts -> Slots \cup {Free}]],
         seated' \subseteq Preps \X Accounts, seated \subseteq seated',
         LobbyConsistent', Seating'
  PROVE  IInv'
  <1>0. call' = [call EXCEPT ![k] = Idle] /\ Idle \in {Idle} \cup Pending  BY DEF Ends
  <1>1. /\ call' \in [Calls -> {Idle} \cup Pending]
        /\ \A j \in Calls : call'[j] = IF j = k THEN Idle ELSE call[j]
    BY <1>0 DEF IInv, TypeOK
  <1>2. TypeOK'
    <2>1. \A j \in Calls : call'[j].pc = "admit" => call'[j].intent \in DOMAIN intents'
      <3>1. \A j \in Calls : call[j].pc = "admit" => call[j].intent \in DOMAIN intents
        BY DEF IInv, TypeOK
      <3> QED  BY <1>1, <3>1 DEF intentVars, Idle
    <2>2. /\ inviteSeq' \in 0 .. MaxInvites /\ invites' \in [1 .. inviteSeq' -> Invitation]
          /\ server' \in [Preps -> {"none", "failure", "starting", "ready"}]
          /\ intentSeq' \in 0 .. MaxIntents /\ intents' \in [1 .. intentSeq' -> JoinIntent]
          /\ admissions' \subseteq Admission
      BY DEF IInv, TypeOK, inviteVars, intentVars
    <2> QED  BY <1>1, <2>1, <2>2 DEF TypeOK
  <1>3. CallsChecked'
    <2>1. \A j \in Calls : Checked(call'[j])
      BY <1>1 DEF IInv, CallsChecked, Checked, Idle
    <2>2. Invited' = Invited  BY DEF Invited, inviteVars
    <2> QED  BY <2>1, <2>2 DEF CallsChecked, Checked, MayHold, intentVars
  <1>4. IntentsForSeated'
    <2>1. \A i \in 1 .. intentSeq : ForSeated(intents[i])'
      BY DEF IInv, IntentsForSeated, ForSeated, intentVars
    <2> QED  BY <2>1 DEF IntentsForSeated, intentVars
  <1>5. AdmissionsIssued'
    <2>1. \A i : Idle # [pc |-> "admit", intent |-> i] /\ call[k] # [pc |-> "admit", intent |-> i]
      BY DEF Idle
    <2>2. \A j \in Calls : \A i : call'[j] = [pc |-> "admit", intent |-> i]
                               <=> call[j] = [pc |-> "admit", intent |-> i]
      BY <1>1, <2>1
    <2>3. \A j \in Calls : call'[j].pc = "admit" => call[j].pc = "admit" /\ call'[j] = call[j]
      BY <1>1 DEF Idle
    <2> QED  BY <2>2, <2>3 DEF IInv, AdmissionsIssued, AdmissionOf, intentVars
  <1> QED  BY <1>2, <1>3, <1>4, <1>5 DEF IInv

LEMMA LobbySame ==
  ASSUME IInv, NEW k \in Calls, call[k].pc # "admit", Ends(k),
         UNCHANGED <<lobbyVars, inviteVars, server, intentVars>>
  PROVE  IInv'
  <1>1. LobbyConsistent'  BY DEF IInv, LobbyConsistent, lobbyVars
  <1>2. Seating'  BY DEF IInv, Seating, Holds, MayHold, Invited, lobbyVars, inviteVars
  <1> QED  BY <1>1, <1>2, LobbyEnds DEF IInv, TypeOK, lobbyVars

\* A slot taken by someone who held none.
LEMMA TakesSlot ==
  ASSUME IInv, NEW p \in Preps, NEW a \in Accounts, ~Holds(p, a),
         NEW slot \in Slots, slots[p][slot] = Free,
         slots' = [slots EXCEPT ![p][slot] = a],
         byAccount' = [byAccount EXCEPT ![p][a] = slot],
         seated' = seated \cup {<<p, a>>}, MayHold(p, a), UNCHANGED inviteVars
  PROVE  /\ slots' \in [Preps -> [Slots -> Accounts \cup {Free}]]
         /\ byAccount' \in [Preps -> [Accounts -> Slots \cup {Free}]]
         /\ seated' \subseteq Preps \X Accounts
         /\ LobbyConsistent' /\ Seating'
         /\ \A q \in Preps, b \in Accounts :
              byAccount'[q][b] = IF q = p /\ b = a THEN slot ELSE byAccount[q][b]
  <1>0. /\ slots \in [Preps -> [Slots -> Accounts \cup {Free}]]
        /\ byAccount \in [Preps -> [Accounts -> Slots \cup {Free}]]
        /\ seated \subseteq Preps \X Accounts
    BY DEF IInv, TypeOK
  <1>1. \A q \in Preps, s \in Slots :
          slots'[q][s] = IF q = p /\ s = slot THEN a ELSE slots[q][s]
    BY <1>0
  <1>2. \A q \in Preps, b \in Accounts :
          byAccount'[q][b] = IF q = p /\ b = a THEN slot ELSE byAccount[q][b]
    BY <1>0
  <1>3. slots' \in [Preps -> [Slots -> Accounts \cup {Free}]]  BY <1>0
  <1>4. byAccount' \in [Preps -> [Accounts -> Slots \cup {Free}]]  BY <1>0
  <1>5. LobbyConsistent'
    <2> SUFFICES ASSUME NEW q \in Preps, NEW s \in Slots, NEW b \in Accounts
                 PROVE  slots'[q][s] = b <=> byAccount'[q][b] = s
      BY DEF LobbyConsistent
    <2>1. slots[q][s] = b <=> byAccount[q][b] = s  BY DEF IInv, LobbyConsistent
    <2>2. CASE q # p  BY <1>1, <1>2, <2>1, <2>2
    <2>3. CASE q = p /\ s = slot
      BY <1>1, <1>2, <2>1, <2>3, JoinAssumption
    <2>4. CASE q = p /\ s # slot
      BY <1>1, <1>2, <2>1, <2>4, JoinAssumption DEF Holds
    <2> QED  BY <2>2, <2>3, <2>4
  <1>6. Seating'
    <2>1. \A q \in Preps, b \in Accounts : byAccount'[q][b] # Free => <<q, b>> \in seated'
      BY <1>2 DEF IInv, Seating, Holds
    <2>2. Invited' = Invited  BY DEF Invited, inviteVars
    <2>3. \A q \in Preps, b \in Accounts : <<q, b>> \in seated' => MayHold(q, b)
      BY DEF IInv, Seating
    <2> QED  BY <2>1, <2>2, <2>3 DEF Seating, Holds, MayHold
  <1> QED  BY <1>0, <1>2, <1>3, <1>4, <1>5, <1>6

LEMMA GivesSlotUp ==
  ASSUME IInv, NEW p \in Preps, NEW a \in Accounts, Holds(p, a),
         slots' = [slots EXCEPT ![p][byAccount[p][a]] = Free],
         byAccount' = [byAccount EXCEPT ![p][a] = Free],
         UNCHANGED <<seated, inviteVars>>
  PROVE  /\ slots' \in [Preps -> [Slots -> Accounts \cup {Free}]]
         /\ byAccount' \in [Preps -> [Accounts -> Slots \cup {Free}]]
         /\ LobbyConsistent' /\ Seating'
         /\ \A q \in Preps, b \in Accounts :
              byAccount'[q][b] = IF q = p /\ b = a THEN Free ELSE byAccount[q][b]
  <1> DEFINE slot == byAccount[p][a]
  <1>0. /\ slots \in [Preps -> [Slots -> Accounts \cup {Free}]]
        /\ byAccount \in [Preps -> [Accounts -> Slots \cup {Free}]]
        /\ slot \in Slots
    BY DEF IInv, TypeOK, Holds
  <1>1. \A q \in Preps, s \in Slots :
          slots'[q][s] = IF q = p /\ s = slot THEN Free ELSE slots[q][s]
    BY <1>0
  <1>2. \A q \in Preps, b \in Accounts :
          byAccount'[q][b] = IF q = p /\ b = a THEN Free ELSE byAccount[q][b]
    BY <1>0
  <1>3. slots' \in [Preps -> [Slots -> Accounts \cup {Free}]]  BY <1>0
  <1>4. byAccount' \in [Preps -> [Accounts -> Slots \cup {Free}]]  BY <1>0
  <1>5. LobbyConsistent'
    <2> SUFFICES ASSUME NEW q \in Preps, NEW s \in Slots, NEW b \in Accounts
                 PROVE  slots'[q][s] = b <=> byAccount'[q][b] = s
      BY DEF LobbyConsistent
    <2>1. /\ slots[q][s] = b <=> byAccount[q][b] = s
          /\ slots[p][slot] = a
      BY <1>0 DEF IInv, LobbyConsistent
    <2>2. CASE q # p  BY <1>1, <1>2, <2>1, <2>2
    <2>3. CASE q = p /\ s = slot
      BY <1>1, <1>2, <2>1, <2>3, JoinAssumption
    <2>4. CASE q = p /\ s # slot
      BY <1>1, <1>2, <2>1, <2>4, JoinAssumption
    <2> QED  BY <2>2, <2>3, <2>4
  <1>6. Seating'
    <2>1. \A q \in Preps, b \in Accounts : byAccount'[q][b] # Free => <<q, b>> \in seated'
      BY <1>2 DEF IInv, Seating, Holds
    <2>2. Invited' = Invited  BY DEF Invited, inviteVars
    <2> QED  BY <2>1, <2>2 DEF IInv, Seating, Holds, MayHold
  <1> QED  BY <1>2, <1>3, <1>4, <1>5, <1>6

LEMMA ReturnFromLobbyKeeps ==
  ASSUME IInv, NEW k \in Calls, ClaimReturns(k) \/ ReleaseReturns(k)
  PROVE  IInv'
  <1> DEFINE p == call[k].prep
             a == call[k].account
  <1>1. /\ p \in Preps /\ a \in Accounts /\ call[k].pc # "admit"
        /\ call[k].pc = "claim" => MayHold(p, a)
        /\ Ends(k) /\ UNCHANGED <<inviteVars, server, intentVars>>
    BY CallTypes DEF ClaimReturns, ReleaseReturns, Checked
  <1>2. CASE UNCHANGED lobbyVars  BY <1>1, <1>2, LobbySame
  <1>3. CASE ClaimReturns(k) /\ ~UNCHANGED lobbyVars
    <2>1. /\ ~Holds(p, a) /\ Occupied(p) # Slots
          /\ slots' = [slots EXCEPT ![p][LowestFree(p)] = a]
          /\ byAccount' = [byAccount EXCEPT ![p][a] = LowestFree(p)]
          /\ seated' = seated \cup {<<p, a>>}
      BY <1>3 DEF ClaimReturns, LobbyClaim
    <2>2. LowestFree(p) \in Slots /\ slots[p][LowestFree(p)] = Free
      BY <2>1, LowestIsFree DEF Occupied
    <2>3. MayHold(p, a)  BY <1>1, <1>3 DEF ClaimReturns
    <2> HIDE DEF p, a
    <2>4. /\ slots' \in [Preps -> [Slots -> Accounts \cup {Free}]]
          /\ byAccount' \in [Preps -> [Accounts -> Slots \cup {Free}]]
          /\ seated' \subseteq Preps \X Accounts
          /\ LobbyConsistent' /\ Seating'
      BY <1>1, <2>1, <2>2, <2>3, TakesSlot
    <2> QED  BY <1>1, <2>1, <2>4, LobbyEnds
  <1>4. CASE ReleaseReturns(k) /\ ~UNCHANGED lobbyVars
    <2>1. /\ Holds(p, a)
          /\ slots' = [slots EXCEPT ![p][byAccount[p][a]] = Free]
          /\ byAccount' = [byAccount EXCEPT ![p][a] = Free]
          /\ UNCHANGED seated
      BY <1>4 DEF ReleaseReturns, LobbyRelease
    <2> HIDE DEF p, a
    <2>2. /\ slots' \in [Preps -> [Slots -> Accounts \cup {Free}]]
          /\ byAccount' \in [Preps -> [Accounts -> Slots \cup {Free}]]
          /\ LobbyConsistent' /\ Seating'
      BY <1>1, <2>1, GivesSlotUp
    <2>3. seated' \subseteq Preps \X Accounts /\ seated \subseteq seated'
      BY <2>1 DEF IInv, TypeOK
    <2> QED  BY <1>1, <2>2, <2>3, LobbyEnds
  <1> QED  BY <1>2, <1>3, <1>4

-----------------------------------------------------------------------------
(* Issuing and consuming intents.                                          *)

LEMMA StoreIntentKeeps ==
  ASSUME IInv, NEW k \in Calls, StoreIntent(k)
  PROVE  IInv'
  <1> DEFINE p == call[k].prep
             a == call[k].account
             new == NewIntent(a, p)
  <1>0. intents \in [1 .. intentSeq -> JoinIntent] /\ intentSeq \in 0 .. MaxIntents
    BY DEF IInv, TypeOK
  <1>1. /\ p \in Preps /\ a \in Accounts /\ call[k].pc # "admit"
        /\ <<p, a>> \in seated /\ SteamOf[a] # NoSteam
    BY CallTypes DEF StoreIntent, Checked
  <1>2. new \in JoinIntent /\ ~new.used /\ ForSeated(new)
    BY <1>1 DEF NewIntent, JoinIntent, Revisions, Generations, SteamIDs, ForSeated
  <1>3. /\ intentSeq < MaxIntents /\ intentSeq' = intentSeq + 1
        /\ intents' = [i \in 1 .. intentSeq' |-> IF i = intentSeq' THEN new ELSE intents[i]]
        /\ Ends(k) /\ UNCHANGED <<lobbyVars, inviteVars, server, admissions>>
    BY DEF StoreIntent
  <1> HIDE DEF new, p, a
  <1>4. /\ intentSeq' \in 0 .. MaxIntents
        /\ 1 .. intentSeq' = (1 .. intentSeq) \cup {intentSeq'} /\ intentSeq' \notin 1 .. intentSeq
    BY <1>0, <1>3, JoinAssumption
  <1>5. /\ intents'[intentSeq'] = new /\ \A i \in 1 .. intentSeq : intents'[i] = intents[i]
        /\ intents' \in [1 .. intentSeq' -> JoinIntent]
    BY <1>0, <1>2, <1>3, <1>4
  <1>6. /\ call' \in [Calls -> {Idle} \cup Pending]
        /\ \A j \in Calls : call'[j] = IF j = k THEN Idle ELSE call[j]
    BY <1>3, CallChanges DEF Ends
  <1>7. \A j \in Calls : call'[j].pc = "admit" =>
          /\ call[j].pc = "admit" /\ call'[j] = call[j]
          /\ call'[j].intent \in 1 .. intentSeq
    BY <1>6, CallTypes DEF Idle
  <1>8. TypeOK'
    <2>1. \A j \in Calls : call'[j].pc = "admit" => call'[j].intent \in DOMAIN intents'
      BY <1>3, <1>4, <1>7
    <2> QED  BY <1>3, <1>4, <1>5, <1>6, <2>1 DEF IInv, TypeOK, lobbyVars, inviteVars
  <1>9. LobbyConsistent' /\ Seating'
    BY <1>3 DEF IInv, LobbyConsistent, Seating, Holds, MayHold, Invited, lobbyVars, inviteVars
  <1>10. CallsChecked'
    <2> SUFFICES ASSUME NEW j \in Calls PROVE Checked(call[j])'  BY DEF CallsChecked
    <2>1. Checked(call[j])  BY DEF IInv, CallsChecked
    <2>2. Invited' = Invited /\ seated' = seated  BY <1>3 DEF Invited, inviteVars, lobbyVars
    <2>3. CASE j = k  BY <1>6, <2>3 DEF Checked, Idle
    <2>4. CASE j # k
      BY <1>5, <1>6, <1>7, <2>1, <2>2, <2>4 DEF Checked, MayHold
    <2> QED  BY <2>3, <2>4
  <1>11. IntentsForSeated'
    <2> SUFFICES ASSUME NEW i \in 1 .. intentSeq' PROVE ForSeated(intents[i])'
      BY DEF IntentsForSeated
    <2>1. CASE i = intentSeq'  BY <1>2, <1>3, <1>5, <2>1 DEF ForSeated, lobbyVars
    <2>2. CASE i \in 1 .. intentSeq
      BY <1>3, <1>5, <2>2 DEF IInv, IntentsForSeated, ForSeated, lobbyVars
    <2> QED  BY <1>4, <2>1, <2>2
  <1>12. AdmissionsIssued'
    <2>1. \A i \in 1 .. intentSeq' : intents'[i].used =>
            i \in 1 .. intentSeq /\ intents'[i] = intents[i]
      BY <1>2, <1>4, <1>5
    <2>2. \A j \in Calls : \A i : call[j] = [pc |-> "admit", intent |-> i] => call'[j] = call[j]
      BY <1>1, <1>6
    <2>3. \A i \in 1 .. intentSeq' : intents'[i].used =>
             \/ AdmissionOf(intents'[i]) \in admissions'
             \/ \E j \in Calls : call'[j] = [pc |-> "admit", intent |-> i]
      <3> SUFFICES ASSUME NEW i \in 1 .. intentSeq', intents'[i].used,
                          AdmissionOf(intents'[i]) \notin admissions'
                   PROVE  \E j \in Calls : call'[j] = [pc |-> "admit", intent |-> i]
        OBVIOUS
      <3>1. i \in 1 .. intentSeq /\ intents'[i] = intents[i]  BY <2>1
      <3>2. PICK j \in Calls : call[j] = [pc |-> "admit", intent |-> i]
        BY <1>3, <3>1 DEF IInv, AdmissionsIssued
      <3> QED  BY <2>2, <3>2
    <2>4. \A m \in admissions' :
             \E i \in 1 .. intentSeq' : intents'[i].used /\ m = AdmissionOf(intents'[i])
      BY <1>3, <1>4, <1>5 DEF IInv, AdmissionsIssued
    <2> QED  BY <1>7, <2>3, <2>4 DEF IInv, AdmissionsIssued, AdmissionOf
  <1> QED  BY <1>8, <1>9, <1>10, <1>11, <1>12 DEF IInv

LEMMA ConsumeKeeps ==
  ASSUME IInv, NEW k \in Calls, NEW i \in 1 .. intentSeq, NEW g, NEW r, NEW steam,
         ConsumeJoinIntent(k, i, g, r, steam)
  PROVE  IInv'
  <1> DEFINE c == [pc |-> "admit", intent |-> i]
  <1>0. intents \in [1 .. intentSeq -> JoinIntent] /\ intentSeq \in 0 .. MaxIntents
    BY DEF IInv, TypeOK
  <1>1. /\ call[k] = Idle /\ ~intents[i].used
        /\ intents' = [intents EXCEPT ![i].used = TRUE]
        /\ call' = [call EXCEPT ![k] = c]
        /\ UNCHANGED <<lobbyVars, inviteVars, server, intentSeq, admissions>>
    BY DEF ConsumeJoinIntent, Consumes
  <1>2. c \in {Idle} \cup Pending /\ c.pc = "admit" /\ c.intent = i
    BY <1>0, JoinAssumption DEF Pending, Intents
  <1> HIDE DEF c
  <1>3. /\ call' \in [Calls -> {Idle} \cup Pending]
        /\ \A j \in Calls : call'[j] = IF j = k THEN c ELSE call[j]
    BY <1>1, <1>2, CallChanges
  <1>4. /\ intents' \in [1 .. intentSeq -> JoinIntent]
        /\ \A j \in 1 .. intentSeq :
             /\ intents'[j].used = (j = i \/ intents[j].used)
             /\ intents'[j].account = intents[j].account
             /\ intents'[j].revision = intents[j].revision
             /\ intents'[j].generation = intents[j].generation
    BY <1>0, <1>1 DEF JoinIntent
  <1>5. TypeOK'
    <2>1. \A j \in Calls : call'[j].pc = "admit" => call'[j].intent \in DOMAIN intents'
      BY <1>2, <1>3, <1>4, CallTypes
    <2> QED  BY <1>1, <1>3, <1>4, <2>1 DEF IInv, TypeOK, lobbyVars, inviteVars
  <1>6. LobbyConsistent' /\ Seating'
    BY <1>1 DEF IInv, LobbyConsistent, Seating, Holds, MayHold, Invited, lobbyVars, inviteVars
  <1>7. CallsChecked'
    <2> SUFFICES ASSUME NEW j \in Calls PROVE Checked(call[j])'  BY DEF CallsChecked
    <2>1. Checked(call[j])  BY DEF IInv, CallsChecked
    <2>2. Invited' = Invited /\ seated' = seated  BY <1>1 DEF Invited, inviteVars, lobbyVars
    <2>3. CASE j = k  BY <1>2, <1>3, <1>4, <2>3 DEF Checked
    <2>4. CASE j # k
      BY <1>3, <1>4, <2>1, <2>2, <2>4, CallTypes DEF Checked, MayHold
    <2> QED  BY <2>3, <2>4
  <1>8. IntentsForSeated'
    BY <1>1, <1>4 DEF IInv, IntentsForSeated, ForSeated, lobbyVars
  <1>9. AdmissionsIssued'
    <2>1. \A j \in 1 .. intentSeq : AdmissionOf(intents'[j]) = AdmissionOf(intents[j])
      BY <1>4 DEF AdmissionOf
    <2>2. call'[k] = [pc |-> "admit", intent |-> i]  BY <1>3 DEF c
    <2>3. \A j \in Calls : \A n : call[j] = [pc |-> "admit", intent |-> n] => call'[j] = call[j]
      BY <1>1, <1>3 DEF Idle
    <2>4. \A n \in 1 .. intentSeq : intents'[n].used =>
             \/ AdmissionOf(intents'[n]) \in admissions
             \/ \E j \in Calls : call'[j] = [pc |-> "admit", intent |-> n]
      <3> SUFFICES ASSUME NEW n \in 1 .. intentSeq, intents'[n].used,
                          AdmissionOf(intents'[n]) \notin admissions
                   PROVE  \E j \in Calls : call'[j] = [pc |-> "admit", intent |-> n]
        OBVIOUS
      <3>1. CASE n = i  BY <2>2, <3>1
      <3>2. CASE n # i
        <4>1. intents[n].used /\ AdmissionOf(intents[n]) \notin admissions
          BY <1>4, <2>1, <3>2
        <4>2. PICK j \in Calls : call[j] = [pc |-> "admit", intent |-> n]
          BY <4>1 DEF IInv, AdmissionsIssued
        <4> QED  BY <2>3, <4>2
      <3> QED  BY <3>1, <3>2
    <2>5. \A j \in Calls : call[j].pc = "admit" => intents[call[j].intent].used
      BY CallTypes DEF Checked
    <2>6. \A j, l \in Calls :
             call'[j].pc = "admit" /\ call'[l].pc = "admit" /\ call'[j].intent = call'[l].intent
               => j = l
      <3> SUFFICES ASSUME NEW j \in Calls, NEW l \in Calls, call'[j].pc = "admit",
                          call'[l].pc = "admit", call'[j].intent = call'[l].intent
                   PROVE  j = l
        OBVIOUS
      <3>1. CASE j # k /\ l # k  BY <1>3, <3>1 DEF IInv, AdmissionsIssued
      <3>2. CASE j = k /\ l # k  BY <1>1, <1>2, <1>3, <2>5, <3>2
      <3>3. CASE j # k /\ l = k  BY <1>1, <1>2, <1>3, <2>5, <3>3
      <3> QED  BY <3>1, <3>2, <3>3
    <2>7. \A m \in admissions :
             \E n \in 1 .. intentSeq : intents'[n].used /\ m = AdmissionOf(intents'[n])
      <3> SUFFICES ASSUME NEW m \in admissions
                   PROVE  \E n \in 1 .. intentSeq : intents'[n].used /\ m = AdmissionOf(intents'[n])
        OBVIOUS
      <3>1. PICK n \in 1 .. intentSeq : intents[n].used /\ m = AdmissionOf(intents[n])
        BY DEF IInv, AdmissionsIssued
      <3> QED  BY <1>4, <2>1, <3>1
    <2> QED  BY <1>1, <2>4, <2>6, <2>7 DEF AdmissionsIssued, AdmissionOf
  <1> QED  BY <1>5, <1>6, <1>7, <1>8, <1>9 DEF IInv

LEMMA RecordKeeps ==
  ASSUME IInv, NEW k \in Calls, RecordAdmission(k)
  PROVE  IInv'
  <1> DEFINE i == call[k].intent
  <1>0. intents \in [1 .. intentSeq -> JoinIntent]  BY DEF IInv, TypeOK
  <1>1. /\ call[k].pc = "admit" /\ i \in 1 .. intentSeq /\ intents[i].used
        /\ admissions' = admissions \cup {AdmissionOf(intents[i])} /\ Ends(k)
        /\ UNCHANGED <<lobbyVars, inviteVars, server, intentSeq, intents>>
    BY CallTypes DEF RecordAdmission, Checked
  <1>2. /\ call' \in [Calls -> {Idle} \cup Pending]
        /\ \A j \in Calls : call'[j] = IF j = k THEN Idle ELSE call[j]
    BY <1>1, CallChanges DEF Ends
  <1>3. AdmissionOf(intents[i]) \in Admission
    BY <1>0, <1>1 DEF AdmissionOf, Admission, JoinIntent
  <1>4. TypeOK'
    BY <1>1, <1>2, <1>3 DEF IInv, TypeOK, lobbyVars, inviteVars, Idle
  <1>5. LobbyConsistent' /\ Seating'
    BY <1>1 DEF IInv, LobbyConsistent, Seating, Holds, MayHold, Invited, lobbyVars, inviteVars
  <1>6. CallsChecked'
    <2>1. \A j \in Calls : Checked(call'[j])
      BY <1>2 DEF IInv, CallsChecked, Checked, Idle
    <2> QED  BY <1>1, <2>1 DEF CallsChecked, Checked, MayHold, Invited, inviteVars, lobbyVars
  <1>7. IntentsForSeated'
    BY <1>1 DEF IInv, IntentsForSeated, ForSeated, lobbyVars
  <1>8. AdmissionsIssued'
    <2>1. \A n \in 1 .. intentSeq : intents[n].used =>
             \/ AdmissionOf(intents[n]) \in admissions'
             \/ \E j \in Calls : call'[j] = [pc |-> "admit", intent |-> n]
      <3> SUFFICES ASSUME NEW n \in 1 .. intentSeq, intents[n].used,
                          AdmissionOf(intents[n]) \notin admissions'
                   PROVE  \E j \in Calls : call'[j] = [pc |-> "admit", intent |-> n]
        OBVIOUS
      <3>1. n # i  BY <1>1
      <3>2. PICK j \in Calls : call[j] = [pc |-> "admit", intent |-> n]
        BY <1>1 DEF IInv, AdmissionsIssued
      <3> QED  BY <1>2, <3>1, <3>2
    <2>2. \A j \in Calls : call'[j].pc = "admit" => call[j].pc = "admit" /\ call'[j] = call[j]
      BY <1>2 DEF Idle
    <2>3. \A m \in admissions' :
             \E n \in 1 .. intentSeq : intents[n].used /\ m = AdmissionOf(intents[n])
      BY <1>1 DEF IInv, AdmissionsIssued
    <2> QED  BY <1>1, <2>1, <2>2, <2>3 DEF IInv, AdmissionsIssued, AdmissionOf
  <1> QED  BY <1>4, <1>5, <1>6, <1>7, <1>8 DEF IInv

LEMMA StepKeeps == IInv /\ [Next]_vars => IInv'
  <1> SUFFICES ASSUME IInv, [Next]_vars PROVE IInv'  OBVIOUS
  <1>1. CASE UNCHANGED vars
    <2>1. TypeOK' /\ LobbyConsistent' /\ Seating' /\ CallsChecked'
      BY <1>1 DEF vars, lobbyVars, inviteVars, intentVars, IInv, TypeOK, LobbyConsistent,
                Seating, Holds, MayHold, Invited, CallsChecked, Checked
    <2>2. IntentsForSeated' /\ AdmissionsIssued'
      BY <1>1 DEF vars, lobbyVars, intentVars, IInv, IntentsForSeated, ForSeated,
                AdmissionsIssued, AdmissionOf
    <2> QED  BY <2>1, <2>2 DEF IInv
  <1>2. CASE Begin  BY <1>2, BeginKeeps, InvitesKeep DEF Begin
  <1>3. CASE Present  BY <1>3, ConsumeKeeps DEF Present
  <1>4. CASE Return
    BY <1>4, ReturnFromLobbyKeeps, StoreIntentKeeps, RecordKeeps DEF Return
  <1>5. CASE \E i \in 1 .. inviteSeq : InviteExpires(i)  BY <1>5, InvitesKeep
  <1>6. CASE \E p \in Preps : Allocated(p) \/ MarkReady(p)  BY <1>6, ServerKeeps
  <1> QED  BY <1>1, <1>2, <1>3, <1>4, <1>5, <1>6 DEF Next

THEOREM JoinInvariant == Spec => []IInv
  BY InitHolds, StepKeeps, PTL DEF Spec

\* The state of the join path is well typed; in particular no intent is issued
\* to an account without a Steam identity (orchestrator/join.go).
THEOREM JoinTypeCorrect == Spec => []TypeOK
  <1>1. IInv => TypeOK  BY DEF IInv
  <1> QED  BY <1>1, JoinInvariant, PTL

\* The two maps of a lobby agree (core/lobby.go).
THEOREM LobbiesConsistent == Spec => []LobbyConsistent
  <1>1. IInv => LobbyConsistent  BY DEF IInv
  <1> QED  BY <1>1, JoinInvariant, PTL

\* A consumed intent is one admission, and an admission is a consumed intent
\* (orchestrator/join.go, ConsumeJoinIntent).
THEOREM AdmissionsAreIssued == Spec => []AdmissionsIssued
  <1>1. IInv => AdmissionsIssued  BY DEF IInv
  <1> QED  BY <1>1, JoinInvariant, PTL

-----------------------------------------------------------------------------
(* The join path implements the roster.                                    *)

Members == {m \in Preps \X Accounts : byAccount[m[1]][m[2]] # Free}
Admitted == {m \in Preps \X Accounts :
               [account |-> m[2], revision |-> RevisionOf[m[1]],
                generation |-> GenerationOf[m[1]]] \in admissions}

\* While a slot is free, the lobby has fewer members than slots: the holders
\* map one to one into the occupied slots.
LEMMA FewerMembersThanSlots ==
  ASSUME IInv, NEW p \in Preps, NEW slot \in Slots, slots[p][slot] = Free
  PROVE  Cardinality({m \in Members : m[1] = p}) < Capacity
  <1> DEFINE M == {m \in Members : m[1] = p}
             Rest == Slots \ {slot}
             f == [m \in M |-> byAccount[p][m[2]]]
  <1>1. byAccount \in [Preps -> [Accounts -> Slots \cup {Free}]]  BY DEF IInv, TypeOK
  <1>2. \A m \in M : m = <<p, m[2]>> /\ m[2] \in Accounts /\ byAccount[p][m[2]] # Free
    BY DEF Members
  <1>3. \A m \in M : slots[p][f[m]] = m[2] /\ f[m] \in Slots
    BY <1>1, <1>2 DEF IInv, LobbyConsistent
  <1>4. \A m \in M : f[m] # slot
    <2> HIDE DEF M, f
    <2> SUFFICES ASSUME NEW m \in M, f[m] = slot PROVE FALSE  OBVIOUS
    <2>1. slots[p][slot] = m[2] /\ m[2] \in Accounts  BY <1>2, <1>3
    <2> QED  BY <2>1, JoinAssumption
  <1>5. \A m, n \in M : f[m] = f[n] => m = n
    <2> HIDE DEF M, f
    <2> SUFFICES ASSUME NEW m \in M, NEW n \in M, f[m] = f[n] PROVE m = n  OBVIOUS
    <2>1. m[2] = n[2]  BY <1>3
    <2> QED  BY <1>2, <2>1
  <1>6. f \in [M -> Rest]  BY <1>3, <1>4
  <1>7. IsFiniteSet(Rest) /\ Cardinality(Rest) < Capacity /\ Cardinality(Rest) \in Nat
    <2>1. Rest \in SUBSET Slots /\ Rest # Slots  OBVIOUS
    <2> HIDE DEF Rest
    <2>2. IsFiniteSet(Rest) /\ Cardinality(Rest) <= Cardinality(Slots)
          /\ Cardinality(Rest) # Cardinality(Slots)
      BY <2>1, SlotsFinite, FS_Subset
    <2>3. Cardinality(Rest) \in Nat  BY <2>2, FS_CardinalityType
    <2> QED  BY <2>2, <2>3, SlotsFinite, JoinAssumption
  <1> HIDE DEF M, Rest, f
  <1>8. f \in Injection(M, Rest)  BY <1>5, <1>6 DEF Injection, IsInjective, f
  <1>9. IsFiniteSet(M) /\ Cardinality(M) <= Cardinality(Rest)  BY <1>7, <1>8, FS_Injection
  <1>10. Cardinality(M) \in Nat  BY <1>9, FS_CardinalityType
  <1>11. Cardinality(M) < Capacity  BY <1>7, <1>9, <1>10, JoinAssumption
  <1> QED  BY <1>11 DEF M

\* The roster's own copy of Cardinality.
LEMMA SameCardinality ==
  ASSUME NEW S
  PROVE  RosterView!Cardinality(S) = Cardinality(S)
  BY DEF RosterView!Cardinality, Cardinality

LEMMA InitMaps == Init => RosterView!RosterInit
  <1> SUFFICES ASSUME Init PROVE RosterView!RosterInit  OBVIOUS
  <1>1. inviteSeq = 0 /\ 1 .. 0 = {}  BY DEF Init
  <1>2. {<<invites[i].prep, invites[i].account>> : i \in 1 .. inviteSeq} = {}  BY <1>1
  <1>3. \A m \in Preps \X Accounts : byAccount[m[1]][m[2]] = Free  BY DEF Init
  <1> QED  BY <1>2, <1>3 DEF Init, RosterView!RosterInit

\* A step that changes neither the lobbies, nor who is invited or admitted.
LEMMA RosterSame ==
  ASSUME Invited' = Invited, UNCHANGED <<lobbyVars, admissions>>
  PROVE  UNCHANGED RosterView!rosterVars
  BY DEF Invited, lobbyVars, RosterView!rosterVars

LEMMA BeginMaps ==
  ASSUME IInv, NEW k \in Calls, NEW a \in Accounts, NEW p \in Preps,
         Claim(k, a, p) \/ Release(k, a, p) \/ ClaimAuthorized(k, a, p)
           \/ IssueJoinIntent(k, a, p)
  PROVE  UNCHANGED RosterView!rosterVars
  <1>1. UNCHANGED <<lobbyVars, admissions, inviteSeq>>
    BY DEF Claim, Release, ClaimAuthorized, IssueJoinIntent, inviteVars, intentVars
  <1>2. invites \in [1 .. inviteSeq -> Invitation]  BY DEF IInv, TypeOK
  <1>3. \A i \in 1 .. inviteSeq : /\ invites'[i].prep = invites[i].prep
                                 /\ invites'[i].account = invites[i].account
    <2>1. CASE UNCHANGED invites  BY <2>1
    <2>2. ASSUME NEW i \in 1 .. inviteSeq, invites' = [invites EXCEPT ![i].state = "used"]
          PROVE  \A j \in 1 .. inviteSeq : /\ invites'[j].prep = invites[j].prep
                                        /\ invites'[j].account = invites[j].account
      BY <1>2, <2>2 DEF Invitation
    <2> QED  BY <2>1, <2>2 DEF Claim, Release, ClaimAuthorized, IssueJoinIntent, inviteVars
  <1>4. Invited' = Invited  BY <1>1, <1>3 DEF Invited
  <1> QED  BY <1>1, <1>4, RosterSame

LEMMA InvitesMap ==
  ASSUME IInv,
         \/ \E a \in Accounts, p \in Preps, b \in Accounts : Invite(a, p, b)
         \/ \E i \in 1 .. inviteSeq : InviteExpires(i)
  PROVE  RosterView!RosterNext \/ UNCHANGED RosterView!rosterVars
  <1>1. UNCHANGED <<lobbyVars, admissions>>  BY DEF Invite, InviteExpires, intentVars
  <1>2. CASE Invited' = Invited  BY <1>1, <1>2, RosterSame
  <1>3. ASSUME NEW p \in Preps, NEW b \in Accounts, Invited' = Invited \cup {<<p, b>>}
        PROVE  RosterView!RosterNext
    <2>1. RosterView!InviteOnto(p, b)
      BY <1>1, <1>3 DEF Invited, lobbyVars, RosterView!InviteOnto
    <2> QED  BY <2>1 DEF RosterView!RosterNext
  <1> QED  BY <1>2, <1>3, InvitesKeep

LEMMA ReturnFromLobbyMaps ==
  ASSUME IInv, NEW k \in Calls, ClaimReturns(k) \/ ReleaseReturns(k)
  PROVE  RosterView!RosterNext \/ UNCHANGED RosterView!rosterVars
  <1>0. call[k].prep \in Preps /\ call[k].account \in Accounts
    BY CallTypes DEF ClaimReturns, ReleaseReturns
  <1> PICK p \in Preps, a \in Accounts : p = call[k].prep /\ a = call[k].account
    BY <1>0
  <1>1. /\ call[k].pc = "claim" => MayHold(p, a)
        /\ inviteVars' = inviteVars /\ UNCHANGED intentVars
    BY CallTypes DEF ClaimReturns, ReleaseReturns, Checked
  <1>2. Invited' = Invited /\ admissions' = admissions
    BY <1>1 DEF Invited, inviteVars, intentVars
  <1>3. CASE UNCHANGED lobbyVars  BY <1>2, <1>3, RosterSame
  <1>4. CASE ClaimReturns(k) /\ ~UNCHANGED lobbyVars
    <2>1. /\ ~Holds(p, a) /\ Occupied(p) # Slots
          /\ slots' = [slots EXCEPT ![p][LowestFree(p)] = a]
          /\ byAccount' = [byAccount EXCEPT ![p][a] = LowestFree(p)]
          /\ seated' = seated \cup {<<p, a>>}
      BY <1>4 DEF ClaimReturns, LobbyClaim
    <2>2. PICK slot \in Slots : slot = LowestFree(p) /\ slots[p][slot] = Free
      BY <2>1, LowestIsFree DEF Occupied
    <2>3. MayHold(p, a)  BY <1>1, <1>4 DEF ClaimReturns
    <2>4. slots' = [slots EXCEPT ![p][slot] = a] /\ byAccount' = [byAccount EXCEPT ![p][a] = slot]
      BY <2>1, <2>2
    <2>5. \A q \in Preps, b \in Accounts :
            byAccount'[q][b] = IF q = p /\ b = a THEN slot ELSE byAccount[q][b]
      <3>1. byAccount \in [Preps -> [Accounts -> Slots \cup {Free}]]  BY DEF IInv, TypeOK
      <3> QED  BY <2>4, <3>1
    <2>6. slot # Free  BY <2>2, JoinAssumption
    <2>7. Members' = Members \cup {<<p, a>>}  BY <1>1, <2>5, <2>6 DEF Members
    <2>8. <<p, a>> \notin Members  BY <2>1 DEF Members, Holds
    <2>9. Cardinality({m \in Members : m[1] = p}) < Capacity
      BY <1>1, <2>2, FewerMembersThanSlots
    <2>10. a = Owner[p] \/ <<p, a>> \in Invited  BY <2>3 DEF MayHold
    <2>11. RosterView!Seat(p, a)
      <3>1. RosterView!MembersOf(p) = {m \in Members : m[1] = p}
        BY DEF RosterView!MembersOf, Members
      <3>2. RosterView!Cardinality(RosterView!MembersOf(p)) < Capacity
        BY <2>9, <3>1, SameCardinality
      <3>3. a = Owner[p] \/ <<p, a>> \in {<<invites[i].prep, invites[i].account>> : i \in 1 .. inviteSeq}
        BY <2>10 DEF Invited
      <3>4. UNCHANGED <<{<<invites[i].prep, invites[i].account>> : i \in 1 .. inviteSeq}, Admitted>>
        BY <1>2 DEF Invited, Admitted
      <3> QED
        BY <2>1, <2>7, <2>8, <3>2, <3>3, <3>4, Zenon DEF RosterView!Seat, Members, Admitted
    <2> QED  BY <1>1, <2>11 DEF RosterView!RosterNext
  <1>5. CASE ReleaseReturns(k) /\ ~UNCHANGED lobbyVars
    <2>1. /\ Holds(p, a)
          /\ slots' = [slots EXCEPT ![p][byAccount[p][a]] = Free]
          /\ byAccount' = [byAccount EXCEPT ![p][a] = Free]
          /\ UNCHANGED seated
      BY <1>5 DEF ReleaseReturns, LobbyRelease
    <2>2. \A q \in Preps, b \in Accounts :
            byAccount'[q][b] = IF q = p /\ b = a THEN Free ELSE byAccount[q][b]
      <3>1. byAccount \in [Preps -> [Accounts -> Slots \cup {Free}]]  BY DEF IInv, TypeOK
      <3> QED  BY <2>1, <3>1
    <2>3. Members' = Members \ {<<p, a>>}  BY <1>1, <2>2 DEF Members
    <2>4. RosterView!Leave(p, a)
      BY <1>2, <2>1, <2>3 DEF RosterView!Leave, Members, Invited
    <2> QED  BY <1>1, <2>4 DEF RosterView!RosterNext
  <1> QED  BY <1>3, <1>4, <1>5

LEMMA RecordMaps ==
  ASSUME IInv, NEW k \in Calls, RecordAdmission(k)
  PROVE  RosterView!RosterNext
  <1> DEFINE i == call[k].intent
  <1>1. /\ i \in 1 .. intentSeq /\ intents \in [1 .. intentSeq -> JoinIntent]
        /\ admissions' = admissions \cup {AdmissionOf(intents[i])}
        /\ UNCHANGED <<lobbyVars, inviteVars>>
    BY CallTypes DEF RecordAdmission, IInv, TypeOK
  <1>2. PICK p \in Preps : /\ intents[i].generation = GenerationOf[p]
                          /\ intents[i].revision = RevisionOf[p]
                          /\ <<p, intents[i].account>> \in seated
    BY <1>1 DEF IInv, IntentsForSeated, ForSeated
  <1>3. PICK a \in Accounts : a = intents[i].account  BY <1>1 DEF JoinIntent
  <1> DEFINE record(m) == [account |-> m[2], revision |-> RevisionOf[m[1]],
                           generation |-> GenerationOf[m[1]]]
  <1>4. AdmissionOf(intents[i]) = record(<<p, a>>)  BY <1>2, <1>3 DEF AdmissionOf
  <1>5. \A m \in Preps \X Accounts : record(m) = record(<<p, a>>) <=> m = <<p, a>>
    <2> SUFFICES ASSUME NEW m \in Preps \X Accounts, record(m) = record(<<p, a>>)
                 PROVE  m = <<p, a>>
      OBVIOUS
    <2>1. m[2] = a /\ GenerationOf[m[1]] = GenerationOf[p]  OBVIOUS
    <2>2. m[1] = p  BY <2>1, JoinAssumption
    <2> QED  BY <2>1, <2>2
  <1>6. Admitted = {m \in Preps \X Accounts : record(m) \in admissions}
        /\ Admitted' = {m \in Preps \X Accounts : record(m) \in admissions'}
    BY DEF Admitted
  <1> HIDE DEF record
  <1>7. Admitted' = Admitted \cup {<<p, a>>}  BY <1>1, <1>4, <1>5, <1>6
  <1>8. <<p, a>> \in seated  BY <1>2, <1>3
  <1>9. Invited' = Invited /\ Members' = Members /\ UNCHANGED seated
    BY <1>1 DEF Invited, Members, inviteVars, lobbyVars
  <1>10. RosterView!AdmitTo(p, a)
    BY <1>7, <1>8, <1>9 DEF RosterView!AdmitTo, Admitted, Members, Invited
  <1> QED  BY <1>10 DEF RosterView!RosterNext

LEMMA StepMaps ==
  IInv /\ [Next]_vars => [RosterView!RosterNext]_(RosterView!rosterVars)
  <1> SUFFICES ASSUME IInv, [Next]_vars
               PROVE  RosterView!RosterNext \/ UNCHANGED RosterView!rosterVars
    OBVIOUS
  <1>1. ASSUME UNCHANGED <<lobbyVars, inviteVars, admissions>>
        PROVE  UNCHANGED RosterView!rosterVars
    BY <1>1, RosterSame DEF Invited, inviteVars
  <1>2. CASE UNCHANGED vars  BY <1>1, <1>2 DEF vars, intentVars
  <1>3. CASE Begin  BY <1>3, BeginMaps, InvitesMap DEF Begin
  <1>4. CASE Present  BY <1>1, <1>4 DEF Present, ConsumeJoinIntent
  <1>5. CASE Return
    <2>1. ASSUME NEW k \in Calls, StoreIntent(k) PROVE UNCHANGED RosterView!rosterVars
      BY <1>1, <2>1 DEF StoreIntent
    <2> QED  BY <1>5, <2>1, ReturnFromLobbyMaps, RecordMaps DEF Return
  <1>6. CASE \E i \in 1 .. inviteSeq : InviteExpires(i)  BY <1>6, InvitesMap
  <1>7. CASE \E p \in Preps : Allocated(p) \/ MarkReady(p)
    <2>1. UNCHANGED <<lobbyVars, inviteVars, intentVars>>  BY <1>7, ServerKeeps
    <2> QED  BY <1>1, <2>1 DEF intentVars
  <1> QED  BY <1>2, <1>3, <1>4, <1>5, <1>6, <1>7 DEF Next

\* Only the owner and those invited are ever seated, never more than the lobby
\* holds, and only someone who was seated is admitted (orchestrator/claim.go,
\* core/lobby.go, orchestrator/join.go).
THEOREM RosterKept == Spec => MeetsRoster
  BY InitMaps, StepMaps, JoinInvariant, PTL DEF Spec, MeetsRoster, RosterView!RosterSpec

-----------------------------------------------------------------------------
(* From the admissions to the results (module AttemptPath).                *)

\* Who holds a slot, or is about to claim one, is entitled to it; and an intent
\* carries its account's own Steam identity.
EntitledInv ==
  /\ \A p \in Preps, a \in Accounts : <<p, a>> \in seated => Entitled(p, a)
  /\ \A k \in Calls, p \in Preps, a \in Accounts :
       call[k].pc = "claim" /\ call[k].prep = p /\ call[k].account = a => Entitled(p, a)

OwnSteam == \A i \in 1 .. intentSeq : intents[i].steam = SteamOf[intents[i].account]

AttemptInv == IInv /\ AttemptTypeOK /\ EntitledInv /\ OwnSteam /\ ResultsEarned

\* An entitlement is never lost: a used invitation stays as it is.
LEMMA EntitlementStays ==
  ASSUME IInv, [Next]_vars, NEW p \in Preps, NEW a \in Accounts, Entitled(p, a)
  PROVE  Entitled(p, a)'
  <1>0. invites \in [1 .. inviteSeq -> Invitation] /\ inviteSeq \in 0 .. MaxInvites
    BY DEF IInv, TypeOK
  <1>1. ASSUME UNCHANGED inviteVars PROVE Entitled(p, a)'
    BY <1>1 DEF inviteVars, Entitled
  <1>2. ASSUME NEW b \in Accounts, NEW q \in Preps, NEW c \in Accounts, Invite(b, q, c)
        PROVE  Entitled(p, a)'
    <2>1. /\ inviteSeq' = inviteSeq + 1
          /\ invites' = [i \in 1 .. inviteSeq' |->
               IF i = inviteSeq' THEN [prep |-> q, account |-> c, state |-> "open"] ELSE invites[i]]
      BY <1>2 DEF Invite
    <2>2. \A i \in 1 .. inviteSeq : i \in 1 .. inviteSeq' /\ invites'[i] = invites[i]
      BY <1>0, <2>1, JoinAssumption
    <2> QED  BY <2>2 DEF Entitled
  <1>3. ASSUME NEW j \in 1 .. inviteSeq, NEW s, invites[j].state = "open",
               invites' = [invites EXCEPT ![j].state = s], inviteSeq' = inviteSeq
        PROVE  Entitled(p, a)'
    <2>1. \A i \in 1 .. inviteSeq : invites[i].state = "used" => invites'[i] = invites[i]
      BY <1>0, <1>3
    <2> QED  BY <1>3, <2>1 DEF Entitled
  <1>4. CASE UNCHANGED vars  BY <1>1, <1>4 DEF vars
  <1>5. CASE Begin
    <2>1. ASSUME NEW k \in Calls, NEW b \in Accounts, NEW q \in Preps, ClaimAuthorized(k, b, q)
          PROVE  Entitled(p, a)'
      BY <1>1, <1>3, <2>1 DEF ClaimAuthorized, Redeems, inviteVars
    <2> QED  BY <1>1, <1>2, <1>5, <2>1 DEF Begin, Claim, Release, IssueJoinIntent
  <1>6. CASE Present \/ Return
    BY <1>1, <1>6 DEF Present, ConsumeJoinIntent, Return, ClaimReturns, ReleaseReturns,
                      StoreIntent, RecordAdmission
  <1>7. CASE \E i \in 1 .. inviteSeq : InviteExpires(i)
    BY <1>3, <1>7 DEF InviteExpires
  <1>8. CASE \E q \in Preps : Allocated(q) \/ MarkReady(q)
    BY <1>1, <1>8 DEF Allocated, MarkReady
  <1> QED  BY <1>4, <1>5, <1>6, <1>7, <1>8 DEF Next

\* Nobody reaches the lobby without an entitlement.
LEMMA EntitledKept ==
  ASSUME IInv, EntitledInv, [Next]_vars
  PROVE  EntitledInv'
  <1>0. /\ seated \subseteq Preps \X Accounts /\ call \in [Calls -> {Idle} \cup Pending]
        /\ \A k \in Calls : call[k].pc = "claim" => call[k].prep \in Preps /\ call[k].account \in Accounts
    BY CallTypes DEF IInv, TypeOK
  <1>1. ASSUME UNCHANGED seated, \A k \in Calls : call'[k].pc = "claim" => call'[k] = call[k]
        PROVE  EntitledInv'
    BY <1>0, <1>1, EntitlementStays DEF EntitledInv
  <1>2. ASSUME NEW k \in Calls, NEW pc, NEW a \in Accounts, NEW p \in Preps, Begins(k, pc, a, p),
               UNCHANGED seated, pc = "claim" => Entitled(p, a)'
        PROVE  EntitledInv'
    <2>1. \A j \in Calls : call'[j] = IF j = k THEN [pc |-> pc, account |-> a, prep |-> p] ELSE call[j]
      BY <1>0, <1>2 DEF Begins
    <2>2. \A j \in Calls, q \in Preps, b \in Accounts :
            call'[j].pc = "claim" /\ call'[j].prep = q /\ call'[j].account = b => Entitled(q, b)'
      BY <1>2, <2>1, EntitlementStays DEF EntitledInv
    <2>3. \A q \in Preps, b \in Accounts : <<q, b>> \in seated' => Entitled(q, b)'
      BY <1>2, EntitlementStays DEF EntitledInv
    <2> QED  BY <2>2, <2>3 DEF EntitledInv
  <1>3. ASSUME NEW k \in Calls, NEW c, c.pc # "claim", call' = [call EXCEPT ![k] = c]
        PROVE  \A j \in Calls : call'[j].pc = "claim" => call'[j] = call[j]
    BY <1>0, <1>3
  <1>4. CASE UNCHANGED vars  BY <1>1, <1>4 DEF vars, lobbyVars
  <1>5. CASE Begin
    <2>1. ASSUME NEW b \in Accounts, NEW q \in Preps, NEW c \in Accounts, Invite(b, q, c)
          PROVE  EntitledInv'
      BY <1>1, <2>1 DEF Invite, lobbyVars
    <2>2. ASSUME NEW k \in Calls, NEW a \in Accounts, NEW p \in Preps, Claim(k, a, p)
          PROVE  EntitledInv'
      <3>1. Entitled(p, a)
        BY <2>2 DEF Claim, CanView, IInv, Seating, EntitledInv, Entitled
      <3> QED  BY <1>2, <2>2, <3>1, EntitlementStays DEF Claim, lobbyVars
    <2>3. ASSUME NEW k \in Calls, NEW a \in Accounts, NEW p \in Preps, ClaimAuthorized(k, a, p)
          PROVE  EntitledInv'
      <3>1. ASSUME NEW i \in 1 .. inviteSeq, Redeems(i, a, p),
                   invites' = [invites EXCEPT ![i].state = "used"], inviteSeq' = inviteSeq
            PROVE  Entitled(p, a)'
        <4>1. invites[i] \in Invitation /\ invites'[i] = [invites[i] EXCEPT !.state = "used"]
          BY <3>1 DEF IInv, TypeOK
        <4>2. invites'[i] = [prep |-> p, account |-> a, state |-> "used"]
          BY <3>1, <4>1 DEF Redeems, Invitation
        <4> QED  BY <3>1, <4>2 DEF Entitled
      <3>2. Entitled(p, a)'
        BY <2>3, <3>1 DEF ClaimAuthorized, Entitled
      <3> QED  BY <1>2, <2>3, <3>2 DEF ClaimAuthorized, lobbyVars
    <2>4. ASSUME NEW k \in Calls, NEW a \in Accounts, NEW p \in Preps,
                 Release(k, a, p) \/ IssueJoinIntent(k, a, p)
          PROVE  EntitledInv'
      BY <1>2, <2>4 DEF Release, IssueJoinIntent, lobbyVars
    <2> QED  BY <1>5, <2>1, <2>2, <2>3, <2>4 DEF Begin
  <1>6. CASE Present
    BY <1>1, <1>3, <1>6 DEF Present, ConsumeJoinIntent, lobbyVars
  <1>7. CASE Return
    <2>1. ASSUME NEW k \in Calls, ClaimReturns(k) PROVE EntitledInv'
      <3>0. PICK p \in Preps, a \in Accounts : call[k].prep = p /\ call[k].account = a
        BY <1>0, <2>1 DEF ClaimReturns
      <3>1. seated' \subseteq seated \cup {<<p, a>>} /\ call[k].pc = "claim" /\ Ends(k)
        BY <2>1, <3>0 DEF ClaimReturns, LobbyClaim, lobbyVars
      <3>2. Entitled(p, a)'
        BY <3>0, <3>1, EntitlementStays DEF EntitledInv
      <3>3. \A q \in Preps, b \in Accounts : <<q, b>> \in seated' => Entitled(q, b)'
        BY <3>1, <3>2, EntitlementStays DEF EntitledInv
      <3>4. \A j \in Calls : call'[j].pc = "claim" => call'[j] = call[j]
        BY <1>3, <3>1 DEF Ends, Idle
      <3> QED  BY <1>0, <3>3, <3>4, EntitlementStays DEF EntitledInv
    <2>2. ASSUME NEW k \in Calls, ReleaseReturns(k) \/ StoreIntent(k) \/ RecordAdmission(k)
          PROVE  EntitledInv'
      <3>1. UNCHANGED seated /\ Ends(k)
        BY <2>2 DEF ReleaseReturns, LobbyRelease, StoreIntent, RecordAdmission, lobbyVars
      <3> QED  BY <1>1, <1>3, <3>1 DEF Ends, Idle
    <2> QED  BY <1>7, <2>1, <2>2 DEF Return
  <1>8. CASE (\E i \in 1 .. inviteSeq : InviteExpires(i)) \/ \E q \in Preps : Allocated(q) \/ MarkReady(q)
    BY <1>1, <1>8 DEF InviteExpires, Allocated, MarkReady, lobbyVars
  <1> QED  BY <1>4, <1>5, <1>6, <1>7, <1>8 DEF Next

\* What a step does to the intents: one is stored, with its account's own Steam
\* identity; or one is marked used; or none changes.
IntentsGrow ==
  /\ intentSeq' \in Nat /\ intentSeq <= intentSeq'
  /\ \A i \in 1 .. intentSeq :
       /\ intents'[i].account = intents[i].account
       /\ intents'[i].steam = intents[i].steam
       /\ intents'[i].generation = intents[i].generation
       /\ intents'[i].revision = intents[i].revision
       /\ intents[i].used => intents'[i].used
  /\ \A i \in 1 .. intentSeq' : i \notin 1 .. intentSeq =>
       intents'[i].steam = SteamOf[intents'[i].account]

LEMMA IntentEffect == ASSUME IInv, [Next]_vars PROVE IntentsGrow
  <1>0. intents \in [1 .. intentSeq -> JoinIntent] /\ intentSeq \in 0 .. MaxIntents
    BY DEF IInv, TypeOK
  <1>1. ASSUME UNCHANGED <<intentSeq, intents>> PROVE IntentsGrow
    BY <1>0, <1>1, JoinAssumption DEF IntentsGrow
  <1>2. ASSUME NEW k \in Calls, NEW i \in 1 .. intentSeq, NEW g, NEW r, NEW steam,
               ConsumeJoinIntent(k, i, g, r, steam)
        PROVE  IntentsGrow
    <2>1. intents' = [intents EXCEPT ![i].used = TRUE] /\ intentSeq' = intentSeq
      BY <1>2 DEF ConsumeJoinIntent
    <2> QED  BY <1>0, <2>1, JoinAssumption DEF JoinIntent, IntentsGrow
  <1>3. ASSUME NEW k \in Calls, StoreIntent(k) PROVE IntentsGrow
    <2> DEFINE new == NewIntent(call[k].account, call[k].prep)
    <2>1. /\ intentSeq' = intentSeq + 1
          /\ intents' = [i \in 1 .. intentSeq' |-> IF i = intentSeq' THEN new ELSE intents[i]]
      BY <1>3 DEF StoreIntent
    <2>2. new.steam = SteamOf[new.account]  BY DEF NewIntent
    <2> HIDE DEF new
    <2>3. \A i \in 1 .. intentSeq : intents'[i] = intents[i]
      BY <1>0, <2>1, JoinAssumption
    <2>4. \A i \in 1 .. intentSeq' : i \notin 1 .. intentSeq => intents'[i] = new
      BY <1>0, <2>1, JoinAssumption
    <2> QED  BY <1>0, <2>1, <2>2, <2>3, <2>4, JoinAssumption DEF IntentsGrow
  <1>4. CASE UNCHANGED vars  BY <1>1, <1>4 DEF vars, intentVars
  <1>5. CASE Begin
    BY <1>1, <1>5 DEF Begin, Invite, Claim, Release, ClaimAuthorized, IssueJoinIntent, intentVars
  <1>6. CASE Present  BY <1>2, <1>6 DEF Present
  <1>7. CASE Return
    BY <1>1, <1>3, <1>7 DEF Return, ClaimReturns, ReleaseReturns, RecordAdmission, intentVars
  <1>8. CASE (\E i \in 1 .. inviteSeq : InviteExpires(i)) \/ \E q \in Preps : Allocated(q) \/ MarkReady(q)
    BY <1>1, <1>8 DEF InviteExpires, Allocated, MarkReady, intentVars
  <1> QED  BY <1>4, <1>5, <1>6, <1>7, <1>8 DEF Next

\* Who was seated stays in the history.
LEMMA SeatedStays == ASSUME [Next]_vars PROVE seated \subseteq seated'
  <1>1. CASE UNCHANGED vars  BY <1>1 DEF vars, lobbyVars
  <1>2. CASE Begin
    BY <1>2 DEF Begin, Invite, Claim, Release, ClaimAuthorized, IssueJoinIntent, lobbyVars
  <1>3. CASE Present  BY <1>3 DEF Present, ConsumeJoinIntent, lobbyVars
  <1>4. CASE Return
    BY <1>4 DEF Return, ClaimReturns, ReleaseReturns, LobbyClaim, LobbyRelease, StoreIntent,
                RecordAdmission, lobbyVars
  <1>5. CASE (\E i \in 1 .. inviteSeq : InviteExpires(i)) \/ \E q \in Preps : Allocated(q) \/ MarkReady(q)
    BY <1>5 DEF InviteExpires, Allocated, MarkReady, lobbyVars
  <1> QED  BY <1>1, <1>2, <1>3, <1>4, <1>5 DEF Next

\* A result that stands stays earned, whatever the join path does.
LEMMA EarnedStays ==
  ASSUME AttemptInv, [Next]_vars, UNCHANGED results
  PROVE  ResultsEarned'
  <1> SUFFICES ASSUME NEW r \in results
               PROVE  \E p \in Preps, i \in 1 .. intentSeq' :
                        /\ r.processGeneration = GenerationOf[p] /\ r.revisionID = RevisionOf[p]
                        /\ Entitled(p, r.accountID)' /\ <<p, r.accountID>> \in seated'
                        /\ intents'[i].used /\ intents'[i].account = r.accountID
                        /\ intents'[i].generation = GenerationOf[p]
                        /\ intents'[i].steam = SteamOf[r.accountID]
    BY DEF ResultsEarned, Entitled
  <1>1. PICK p \in Preps, i \in 1 .. intentSeq :
          /\ r.processGeneration = GenerationOf[p] /\ r.revisionID = RevisionOf[p]
          /\ Entitled(p, r.accountID) /\ <<p, r.accountID>> \in seated
          /\ intents[i].used /\ intents[i].account = r.accountID
          /\ intents[i].generation = GenerationOf[p] /\ intents[i].steam = SteamOf[r.accountID]
    BY DEF AttemptInv, ResultsEarned
  <1>2. PICK a \in Accounts : a = r.accountID
    BY DEF AttemptInv, AttemptTypeOK, AttemptResult
  <1>3. Entitled(p, a)'  BY <1>1, <1>2, EntitlementStays DEF AttemptInv
  <1>4. <<p, a>> \in seated'  BY <1>1, <1>2, SeatedStays
  <1>5. i \in 1 .. intentSeq' /\ intentSeq \in 0 .. MaxIntents
    BY IntentEffect, JoinAssumption DEF IntentsGrow, AttemptInv, IInv, TypeOK
  <1>6. /\ intents'[i].used /\ intents'[i].account = a
        /\ intents'[i].generation = GenerationOf[p] /\ intents'[i].steam = SteamOf[a]
    BY <1>1, <1>2, IntentEffect DEF IntentsGrow, AttemptInv
  <1> QED  BY <1>1, <1>2, <1>3, <1>4, <1>5, <1>6

\* A result is accepted for an admission, and that was earned.
LEMMA AcceptEarned ==
  ASSUME AttemptInv, NEW r \in AttemptResult, AcceptResult(r)
  PROVE  ResultsEarned'
  <1>1. /\ UNCHANGED <<seated, inviteSeq, invites, intentSeq, intents>> /\ results' = results \cup {r}
        /\ [account |-> r.accountID, revision |-> r.revisionID,
            generation |-> r.processGeneration] \in admissions
    BY DEF AcceptResult, AdmittedFor, vars, lobbyVars, inviteVars, intentVars
  <1>2. PICK i \in 1 .. intentSeq :
          /\ intents[i].used
          /\ [account |-> r.accountID, revision |-> r.revisionID,
              generation |-> r.processGeneration] = AdmissionOf(intents[i])
    BY <1>1 DEF AttemptInv, IInv, AdmissionsIssued
  <1>3. /\ intents[i].account = r.accountID /\ intents[i].revision = r.revisionID
        /\ intents[i].generation = r.processGeneration
    BY <1>2 DEF AdmissionOf
  <1>4. PICK p \in Preps : /\ r.processGeneration = GenerationOf[p] /\ r.revisionID = RevisionOf[p]
                          /\ <<p, r.accountID>> \in seated
    BY <1>3 DEF AttemptInv, IInv, IntentsForSeated, ForSeated
  <1>5. r.accountID \in Accounts  BY DEF AttemptResult
  <1>6. Entitled(p, r.accountID) /\ intents[i].steam = SteamOf[r.accountID]
    BY <1>3, <1>4, <1>5 DEF AttemptInv, EntitledInv, OwnSteam
  <1> DEFINE Earned(s) ==
        \E q \in Preps, j \in 1 .. intentSeq :
          /\ s.processGeneration = GenerationOf[q] /\ s.revisionID = RevisionOf[q]
          /\ Entitled(q, s.accountID) /\ <<q, s.accountID>> \in seated
          /\ intents[j].used /\ intents[j].account = s.accountID
          /\ intents[j].generation = GenerationOf[q] /\ intents[j].steam = SteamOf[s.accountID]
  <1>7. Earned(r)  BY <1>2, <1>3, <1>4, <1>6
  <1>8. \A s \in results : Earned(s)  BY DEF AttemptInv, ResultsEarned
  <1> HIDE DEF Earned
  <1>9. \A s \in results' : Earned(s)  BY <1>1, <1>7, <1>8
  <1> QED  BY <1>1, <1>9 DEF ResultsEarned, Entitled, Earned

LEMMA AttemptStepKeeps == AttemptInv /\ [AttemptNext]_attemptVars => AttemptInv'
  <1> SUFFICES ASSUME AttemptInv, [AttemptNext]_attemptVars PROVE AttemptInv'
    OBVIOUS
  <1>1. [Next]_vars
    BY DEF AttemptNext, attemptVars, LeaseOpens, LeaseCloses, AcceptResult
  <1>2. IInv' /\ TypeOK'
    BY <1>1, StepKeeps DEF AttemptInv, IInv
  <1>3. EntitledInv'
    BY <1>1, EntitledKept DEF AttemptInv
  <1>4. OwnSteam'
    BY <1>1, IntentEffect DEF IntentsGrow, AttemptInv, OwnSteam
  <1>5. results' \subseteq AttemptResult /\ live' \subseteq Generations
    BY DEF AttemptInv, AttemptTypeOK, AttemptNext, attemptVars, resultVars, LeaseOpens,
           LeaseCloses, AcceptResult
  <1>6. AttemptTypeOK'
    BY <1>2, <1>5 DEF AttemptTypeOK
  <1>7. UNCHANGED results \/ \E r \in AttemptResult : AcceptResult(r)
    BY DEF AttemptNext, attemptVars, resultVars, LeaseOpens, LeaseCloses
  <1>8. ResultsEarned'
    BY <1>1, <1>7, EarnedStays, AcceptEarned
  <1> QED  BY <1>2, <1>3, <1>4, <1>6, <1>8 DEF AttemptInv

\* The inductive invariant of the path from invitations to results.
THEOREM AttemptInvariant == AttemptSpec => []AttemptInv
  <1>1. AttemptInit => AttemptInv
    <2> SUFFICES ASSUME AttemptInit PROVE AttemptInv
      OBVIOUS
    <2>1. IInv  BY InitHolds DEF AttemptInit
    <2>2. EntitledInv
      BY DEF AttemptInit, Init, EntitledInv, Idle
    <2>3. OwnSteam /\ AttemptTypeOK /\ ResultsEarned
      BY <2>1 DEF AttemptInit, Init, OwnSteam, AttemptTypeOK, ResultsEarned, IInv
    <2> QED  BY <2>1, <2>2, <2>3 DEF AttemptInv
  <1> QED  BY <1>1, AttemptStepKeeps, PTL DEF AttemptSpec

\* Type correctness of the composition.
THEOREM AttemptTypeCorrect == AttemptSpec => []AttemptTypeOK
  <1>1. AttemptInv => AttemptTypeOK  BY DEF AttemptInv
  <1> QED  BY <1>1, AttemptInvariant, PTL

\* Every private result was earned: by the owner or an invitee of the one
\* preparation whose process reported it, who held a slot and was admitted with
\* an intent of their own (orchestrator/claim.go, join.go, scenario.go).
THEOREM EveryResultEarned == AttemptSpec => []ResultsEarned
  <1>1. AttemptInv => ResultsEarned  BY DEF AttemptInv
  <1> QED  BY <1>1, AttemptInvariant, PTL

-----------------------------------------------------------------------------
(* The join path is the environment that the result path assumes.          *)

\* One step of that environment.
AdmitStep ==
  \/ AdmittedOn' = AdmittedOn /\ Consumed' = Consumed
  \/ AdmittedOn' = AdmittedOn /\ \E a \in Accounts, g \in Generations :
       <<a, g>> \notin Consumed /\ Consumed' = Consumed \cup {<<a, g>>}
  \/ Consumed' = Consumed /\ \E m \in admissions' :
       /\ <<m.account, m.generation>> \in Consumed \ AdmittedOn
       /\ admissions' = admissions \cup {m}
       /\ \E p \in Preps : m.generation = GenerationOf[p] /\ m.revision = RevisionOf[p]

LEMMA StoreAdmits ==
  ASSUME IInv, NEW k \in Calls, StoreIntent(k)
  PROVE  AdmitStep
  <1> DEFINE new == NewIntent(call[k].account, call[k].prep)
  <1>0. intents \in [1 .. intentSeq -> JoinIntent] /\ intentSeq \in 0 .. MaxIntents
    BY DEF IInv, TypeOK
  <1>1. /\ intentSeq' = intentSeq + 1 /\ UNCHANGED admissions
        /\ intents' = [i \in 1 .. intentSeq' |-> IF i = intentSeq' THEN new ELSE intents[i]]
    BY DEF StoreIntent
  <1>2. ~new.used  BY DEF NewIntent
  <1> HIDE DEF new
  <1>3. /\ 1 .. intentSeq \subseteq 1 .. intentSeq'
        /\ \A i \in 1 .. intentSeq' :
             IF i \in 1 .. intentSeq THEN intents'[i] = intents[i] ELSE intents'[i] = new
    BY <1>0, <1>1, JoinAssumption
  <1>4. {j \in 1 .. intentSeq' : intents'[j].used} = {j \in 1 .. intentSeq : intents[j].used}
    BY <1>2, <1>3
  <1>5. Consumed' = Consumed  BY <1>3, <1>4 DEF Consumed
  <1> QED  BY <1>1, <1>5 DEF AdmitStep, AdmittedOn

LEMMA ConsumeAdmits ==
  ASSUME IInv, NEW k \in Calls, NEW i \in 1 .. intentSeq, NEW g, NEW r, NEW steam,
         ConsumeJoinIntent(k, i, g, r, steam)
  PROVE  AdmitStep
  <1> DEFINE pair(j) == <<intents[j].account, intents[j].generation>>
  <1>0. intents \in [1 .. intentSeq -> JoinIntent]
    BY DEF IInv, TypeOK
  <1>1. UNCHANGED <<intentSeq, admissions>> /\ intents' = [intents EXCEPT ![i].used = TRUE]
    BY DEF ConsumeJoinIntent
  <1>2. \A j \in 1 .. intentSeq :
          /\ <<intents'[j].account, intents'[j].generation>> = pair(j)
          /\ intents'[j].used = (j = i \/ intents[j].used)
    BY <1>0, <1>1 DEF JoinIntent
  <1>3. {j \in 1 .. intentSeq : intents'[j].used} = {j \in 1 .. intentSeq : intents[j].used} \cup {i}
    BY <1>2
  <1>4. /\ Consumed = {pair(j) : j \in {n \in 1 .. intentSeq : intents[n].used}}
        /\ Consumed' = {<<intents'[j].account, intents'[j].generation>> :
                          j \in {n \in 1 .. intentSeq : intents'[n].used}}
    BY <1>1 DEF Consumed
  <1>5. intents[i].account \in Accounts /\ intents[i].generation \in Generations
    BY <1>0 DEF JoinIntent
  <1>6. pair(i) = <<intents[i].account, intents[i].generation>>  OBVIOUS
  <1> HIDE DEF pair
  <1>7. Consumed' = Consumed \cup {pair(i)}
    BY <1>2, <1>3, <1>4
  <1>8. AdmittedOn' = AdmittedOn  BY <1>1 DEF AdmittedOn
  <1> QED  BY <1>5, <1>6, <1>7, <1>8 DEF AdmitStep

LEMMA RecordAdmits ==
  ASSUME IInv, NEW k \in Calls, RecordAdmission(k)
  PROVE  AdmitStep
  <1> DEFINE i == call[k].intent
             m == AdmissionOf(intents[i])
  <1>1. /\ i \in 1 .. intentSeq /\ intents[i].used /\ UNCHANGED <<intentSeq, intents>>
        /\ admissions' = admissions \cup {m}
    BY CallTypes DEF RecordAdmission, Checked
  <1>2. /\ m.account = intents[i].account /\ m.generation = intents[i].generation
        /\ m.revision = intents[i].revision
    BY DEF AdmissionOf
  <1>3. \E p \in Preps : m.generation = GenerationOf[p] /\ m.revision = RevisionOf[p]
    <2>1. ForSeated(intents[i])  BY <1>1 DEF IInv, IntentsForSeated
    <2> HIDE DEF i, m
    <2> QED  BY <1>2, <2>1 DEF ForSeated
  <1>4. Consumed' = Consumed /\ <<m.account, m.generation>> \in Consumed
    BY <1>1, <1>2 DEF Consumed
  <1> HIDE DEF i, m
  <1>5. CASE <<m.account, m.generation>> \in AdmittedOn
    BY <1>1, <1>4, <1>5 DEF AdmitStep, AdmittedOn
  <1>6. CASE <<m.account, m.generation>> \notin AdmittedOn
    BY <1>1, <1>3, <1>4, <1>6 DEF AdmitStep
  <1> QED  BY <1>5, <1>6

LEMMA EveryStepAdmits == ASSUME IInv, [Next]_vars PROVE AdmitStep
  <1>1. ASSUME UNCHANGED intentVars PROVE AdmitStep
    BY <1>1 DEF intentVars, AdmitStep, AdmittedOn, Consumed
  <1>2. CASE UNCHANGED vars  BY <1>1, <1>2 DEF vars
  <1>3. CASE Begin
    BY <1>1, <1>3 DEF Begin, Invite, Claim, Release, ClaimAuthorized, IssueJoinIntent
  <1>4. CASE Present  BY <1>4, ConsumeAdmits DEF Present
  <1>5. CASE Return
    BY <1>1, <1>5, StoreAdmits, RecordAdmits DEF Return, ClaimReturns, ReleaseReturns
  <1>6. CASE (\E i \in 1 .. inviteSeq : InviteExpires(i)) \/ \E q \in Preps : Allocated(q) \/ MarkReady(q)
    BY <1>1, <1>6 DEF InviteExpires, Allocated, MarkReady
  <1> QED  BY <1>2, <1>3, <1>4, <1>5, <1>6 DEF Next

LEMMA JoinStepOfAttempt == [AttemptNext]_attemptVars => [Next]_vars
  BY DEF AttemptNext, attemptVars, LeaseOpens, LeaseCloses, AcceptResult

\* The join path admits as module ResultPath assumes its environment does
\* (orchestrator/join.go, ConsumeJoinIntent, against orchestrator/admission.go).
THEOREM AdmissionsAsAssumed == AttemptSpec => AdmitsAsAssumed
  <1>1. AttemptInv /\ [AttemptNext]_attemptVars => [AdmitStep]_attemptVars
    BY EveryStepAdmits, JoinStepOfAttempt DEF AttemptInv
  <1> QED  BY <1>1, AttemptInvariant, PTL DEF AttemptSpec, AdmitsAsAssumed, AdmitStep

-----------------------------------------------------------------------------
(* The results over the join path implement the ledger.                    *)

\* What is accepted names the revision its process was allocated for.
LEMMA AcceptIntoLedger ==
  ASSUME AttemptInv, NEW r \in AttemptResult, AcceptResult(r)
  PROVE  Ledger!Accept(r)
  <1>1. /\ [account |-> r.accountID, revision |-> r.revisionID,
            generation |-> r.processGeneration] \in admissions
        /\ r.processGeneration \in live /\ ~Exists(r)
        /\ results' = results \cup {r} /\ UNCHANGED <<live, admissions>>
    BY DEF AcceptResult, AdmittedFor, vars, intentVars
  <1>2. <<r.accountID, r.processGeneration>> \in AdmittedOn /\ AdmittedOn' = AdmittedOn
    BY <1>1 DEF AdmittedOn
  <1>3. PICK i \in 1 .. intentSeq :
          [account |-> r.accountID, revision |-> r.revisionID,
           generation |-> r.processGeneration] = AdmissionOf(intents[i])
    BY <1>1 DEF AttemptInv, IInv, AdmissionsIssued
  <1>4. intents[i].revision = r.revisionID /\ intents[i].generation = r.processGeneration
    BY <1>3 DEF AdmissionOf
  <1>5. PICK p \in Preps : r.processGeneration = GenerationOf[p] /\ r.revisionID = RevisionOf[p]
    BY <1>4 DEF AttemptInv, IInv, IntentsForSeated, ForSeated
  <1>6. PrepOf(r.processGeneration) = p
    BY <1>5, JoinAssumption DEF PrepOf
  <1>7. r.processGeneration \in Generations
    BY DEF AttemptResult
  <1>8. r.revisionID = [g \in Generations |-> RevisionOf[PrepOf(g)]][r.processGeneration]
    BY <1>5, <1>6, <1>7
  <1>9. \A s \in results : ~Ledger!SameAttempt(r, s)
    BY <1>1 DEF Exists, Ledger!SameAttempt
  <1> QED  BY <1>1, <1>2, <1>8, <1>9 DEF Ledger!Accept

LEMMA AttemptMapsToLedger ==
  ASSUME AttemptInv, [AttemptNext]_attemptVars
  PROVE  [Ledger!LedgerNext]_(Ledger!ledgerVars)
  <1>1. CASE UNCHANGED attemptVars
    BY <1>1 DEF attemptVars, resultVars, vars, intentVars, Ledger!ledgerVars, AdmittedOn
  <1>2. CASE Next /\ UNCHANGED resultVars
    <2>1. AdmitStep  BY <1>2, EveryStepAdmits DEF AttemptInv
    <2>2. CASE AdmittedOn' = AdmittedOn
      BY <1>2, <2>2 DEF resultVars, Ledger!ledgerVars
    <2>3. ASSUME NEW m \in admissions', admissions' = admissions \cup {m}
          PROVE  Ledger!LedgerNext
      <3>1. AdmittedOn' = AdmittedOn \cup {<<m.account, m.generation>>}
        BY <2>3 DEF AdmittedOn
      <3>2. m \in Admission
        BY <1>2, <2>3, StepKeeps DEF AttemptInv, IInv, TypeOK
      <3>3. Ledger!AdmitAccount(m.account, m.generation)
        BY <1>2, <3>1 DEF Ledger!AdmitAccount, resultVars
      <3> QED  BY <3>2, <3>3 DEF Ledger!LedgerNext, Admission
    <2> QED  BY <2>1, <2>2, <2>3 DEF AdmitStep
  <1>3. ASSUME NEW g \in Generations, LeaseOpens(g) \/ LeaseCloses(g)
        PROVE  Ledger!LedgerNext
    BY <1>3 DEF LeaseOpens, LeaseCloses, vars, intentVars, AdmittedOn, Ledger!Open, Ledger!Close,
                Ledger!LedgerNext
  <1>4. ASSUME NEW r \in AttemptResult, AcceptResult(r) PROVE Ledger!LedgerNext
    BY <1>4, AcceptIntoLedger DEF Ledger!LedgerNext
  <1> QED  BY <1>1, <1>2, <1>3, <1>4 DEF AttemptNext

\* Over the admissions the join path records, the accepted results are the
\* ledger of ResultLedger: one per attempt, for an admitted account, against
\* the revision of its process (orchestrator/scenario.go, acceptResult).
THEOREM LedgerKept == AttemptSpec => KeepsLedger
  <1>1. AttemptInit => Ledger!LedgerInit
    BY DEF AttemptInit, Init, AdmittedOn, Ledger!LedgerInit
  <1>2. AttemptInv /\ [AttemptNext]_attemptVars => [Ledger!LedgerNext]_(Ledger!ledgerVars)
    BY AttemptMapsToLedger
  <1> QED  BY <1>1, <1>2, AttemptInvariant, PTL DEF AttemptSpec, KeepsLedger, Ledger!LedgerSpec
=============================================================================
