------------------------------ MODULE JoinPath ------------------------------
(***************************************************************************)
(* From a ready preparation to an admitted player: the lobby of            *)
(* core/lobby.go, claims and invitations (orchestrator/claim.go), and join *)
(* intents, issued and consumed (orchestrator/join.go, core/join-intent.go)*)
(*                                                                         *)
(* Calls of the API run concurrently: each section under a lock is a step, *)
(* and a call that goes on to a further section remembers in between what  *)
(* it has checked.  A call that is refused changes nothing and is left     *)
(* out.  Sections that only read what never changes again (the owner of a  *)
(* preparation, its ready state, its ready process) are part of the step   *)
(* that follows them.                                                      *)
(***************************************************************************)
EXTENDS Naturals, FiniteSets

CONSTANTS
  Calls,                    \* API calls in progress at a time
  Preps, Accounts,
  Owner,                    \* the owner of each preparation
  GenerationOf, RevisionOf, \* the process and revision of each preparation
  SteamOf, NoSteam,         \* Steam identities; an account may have none
  Capacity,                 \* slots of a lobby
  MaxInvites, MaxIntents,   \* bounds on what is ever issued
  Free                      \* no account, or no slot

Slots == 0 .. Capacity - 1
Intents == 1 .. MaxIntents

ASSUME JoinAssumption ==
  /\ Capacity \in Nat \ {0} /\ MaxInvites \in Nat /\ MaxIntents \in Nat
  /\ Owner \in [Preps -> Accounts]
  /\ \A p, q \in Preps : GenerationOf[p] = GenerationOf[q] => p = q
  /\ Free \notin Accounts /\ Free \notin Slots
  /\ IsFiniteSet(Accounts)

VARIABLES
  slots, byAccount,      \* the two maps of each lobby
  inviteSeq, invites,    \* the invitations, by token
  server,                \* the process recorded for a preparation
  intentSeq, intents,    \* the join intents, by identifier
  admissions,            \* the admission records
  call,                  \* what each call in progress is about to do
  seated                 \* history: who ever held a slot, for Roster

lobbyVars == <<slots, byAccount, seated>>
inviteVars == <<inviteSeq, invites>>
intentVars == <<intentSeq, intents, admissions>>
vars == <<lobbyVars, inviteVars, server, intentVars, call>>

Idle == [pc |-> "idle"]
Pending == [pc : {"claim", "release", "intent"}, account : Accounts, prep : Preps]
             \cup [pc : {"admit"}, intent : Intents]

Invitation == [prep : Preps, account : Accounts, state : {"open", "expired", "used"}]
Generations == {GenerationOf[p] : p \in Preps}
Revisions == {RevisionOf[p] : p \in Preps}
SteamIDs == {SteamOf[a] : a \in Accounts} \ {NoSteam}
JoinIntent == [account : Accounts, steam : SteamIDs, revision : Revisions,
               generation : Generations, used : BOOLEAN]
Admission == [account : Accounts, revision : Revisions, generation : Generations]

TypeOK ==
  /\ slots \in [Preps -> [Slots -> Accounts \cup {Free}]]
  /\ byAccount \in [Preps -> [Accounts -> Slots \cup {Free}]]
  /\ inviteSeq \in 0 .. MaxInvites /\ invites \in [1 .. inviteSeq -> Invitation]
  /\ server \in [Preps -> {"none", "failure", "starting", "ready"}]
  /\ intentSeq \in 0 .. MaxIntents /\ intents \in [1 .. intentSeq -> JoinIntent]
  /\ admissions \subseteq Admission
  /\ call \in [Calls -> {Idle} \cup Pending]
  /\ \A k \in Calls : call[k].pc = "admit" => call[k].intent \in DOMAIN intents
  /\ seated \subseteq Preps \X Accounts

Init ==
  /\ slots = [p \in Preps |-> [s \in Slots |-> Free]]
  /\ byAccount = [p \in Preps |-> [a \in Accounts |-> Free]]
  /\ inviteSeq = 0 /\ invites = [i \in 1 .. 0 |-> Free]
  /\ server = [p \in Preps |-> "none"]
  /\ intentSeq = 0 /\ intents = [i \in 1 .. 0 |-> Free] /\ admissions = {}
  /\ call = [k \in Calls |-> Idle]
  /\ seated = {}

Occupied(p) == {s \in Slots : slots[p][s] # Free}
Holds(p, a) == byAccount[p][a] # Free
CanView(p, a) == Owner[p] = a \/ Holds(p, a)

Begins(k, pc, a, p) ==
  /\ call[k] = Idle
  /\ call' = [call EXCEPT ![k] = [pc |-> pc, account |-> a, prep |-> p]]

Ends(k) == call' = [call EXCEPT ![k] = Idle]

-----------------------------------------------------------------------------
(* The lobby.                                                              *)

LowestFree(p) == CHOOSE s \in Slots \ Occupied(p) : \A t \in Slots \ Occupied(p) : s <= t

\* Without the check for a full lobby, whose next slot is beyond its last.
ClaimsPastCapacity(p, a) ==
  IF Holds(p, a) THEN UNCHANGED lobbyVars
  ELSE LET slot == IF Occupied(p) = Slots THEN Capacity ELSE LowestFree(p) IN
       /\ slots' = [slots EXCEPT ![p] =
                       [s \in Slots \cup {slot} |-> IF s = slot THEN a ELSE slots[p][s]]]
       /\ byAccount' = [byAccount EXCEPT ![p][a] = slot]
       /\ seated' = seated \cup {<<p, a>>}

\* The lowest free slot; nothing for an account that holds one, or when full.
LobbyClaim(p, a) ==
  IF Holds(p, a) \/ Occupied(p) = Slots THEN UNCHANGED lobbyVars
  ELSE LET slot == LowestFree(p) IN
       /\ slots' = [slots EXCEPT ![p][slot] = a]
       /\ byAccount' = [byAccount EXCEPT ![p][a] = slot]
       /\ seated' = seated \cup {<<p, a>>}

\* Frees the slot and forgets the account's own entry.
ReleaseKeepsAccount(p, a) ==
  IF ~Holds(p, a) THEN UNCHANGED lobbyVars
  ELSE slots' = [slots EXCEPT ![p][byAccount[p][a]] = Free] /\ UNCHANGED <<byAccount, seated>>

LobbyRelease(p, a) ==
  IF ~Holds(p, a) THEN UNCHANGED lobbyVars
  ELSE /\ slots' = [slots EXCEPT ![p][byAccount[p][a]] = Free]
       /\ byAccount' = [byAccount EXCEPT ![p][a] = Free]
       /\ UNCHANGED seated

-----------------------------------------------------------------------------
(* Claims and invitations.                                                 *)

\* Claim: authorized as the owner or by a slot that is held now, then claimed.
Claim(k, a, p) ==
  /\ CanView(p, a)
  /\ Begins(k, "claim", a, p)
  /\ UNCHANGED <<lobbyVars, inviteVars, server, intentVars>>

Release(k, a, p) ==
  /\ CanView(p, a)
  /\ Begins(k, "release", a, p)
  /\ UNCHANGED <<lobbyVars, inviteVars, server, intentVars>>

\* Only the owner invites; any account, as often as it likes.
Invite(a, p, b) ==
  /\ Owner[p] = a
  /\ inviteSeq < MaxInvites
  /\ inviteSeq' = inviteSeq + 1
  /\ invites' = [i \in 1 .. inviteSeq' |->
       IF i = inviteSeq' THEN [prep |-> p, account |-> b, state |-> "open"] ELSE invites[i]]
  /\ UNCHANGED <<lobbyVars, server, intentVars, call>>

InviteExpires(i) ==
  /\ invites[i].state = "open"
  /\ invites' = [invites EXCEPT ![i].state = "expired"]
  /\ UNCHANGED <<lobbyVars, inviteSeq, server, intentVars, call>>

\* An invitation that admits a to p.
RedeemsAnyOpen(i, a, p) == invites[i].state = "open" /\ invites[i].prep = p

Redeems(i, a, p) ==
  invites[i].state = "open" /\ invites[i].prep = p /\ invites[i].account = a

\* ClaimAuthorized: the owner needs no token; anyone else consumes one, and
\* then claims.
ClaimAuthorized(k, a, p) ==
  /\ \/ Owner[p] = a /\ UNCHANGED invites
     \/ /\ Owner[p] # a
        /\ \E i \in 1 .. inviteSeq :
             Redeems(i, a, p) /\ invites' = [invites EXCEPT ![i].state = "used"]
  /\ Begins(k, "claim", a, p)
  /\ UNCHANGED <<lobbyVars, inviteSeq, server, intentVars>>

ClaimReturns(k) ==
  /\ call[k].pc = "claim"
  /\ LobbyClaim(call[k].prep, call[k].account)
  /\ Ends(k)
  /\ UNCHANGED <<inviteVars, server, intentVars>>

ReleaseReturns(k) ==
  /\ call[k].pc = "release"
  /\ LobbyRelease(call[k].prep, call[k].account)
  /\ Ends(k)
  /\ UNCHANGED <<inviteVars, server, intentVars>>

-----------------------------------------------------------------------------
(* The server of a preparation, as Preparation leaves it.                  *)

Allocated(p) ==
  /\ server[p] = "none"
  /\ \E s \in {"failure", "starting", "ready"} : server' = [server EXCEPT ![p] = s]
  /\ UNCHANGED <<lobbyVars, inviteVars, intentVars, call>>

MarkReady(p) ==
  /\ server[p] = "starting"
  /\ server' = [server EXCEPT ![p] = "ready"]
  /\ UNCHANGED <<lobbyVars, inviteVars, intentVars, call>>

-----------------------------------------------------------------------------
(* Join intents.                                                           *)

Joinable(p, a) == SteamOf[a] # NoSteam /\ server[p] = "ready" /\ Holds(p, a)

\* The checks of IssueJoinIntent, the slot the last of them.
IssueJoinIntent(k, a, p) ==
  /\ Joinable(p, a)
  /\ Begins(k, "intent", a, p)
  /\ UNCHANGED <<lobbyVars, inviteVars, server, intentVars>>

NewIntent(a, p) ==
  [account |-> a, steam |-> SteamOf[a], revision |-> RevisionOf[p],
   generation |-> GenerationOf[p], used |-> FALSE]

\* The identifier is numbered and the intent stored; nothing else knows the
\* identifier in between.
StoreIntent(k) ==
  /\ call[k].pc = "intent"
  /\ intentSeq < MaxIntents
  /\ intentSeq' = intentSeq + 1
  /\ intents' = [i \in 1 .. intentSeq' |->
       IF i = intentSeq' THEN NewIntent(call[k].account, call[k].prep) ELSE intents[i]]
  /\ Ends(k)
  /\ UNCHANGED <<lobbyVars, inviteVars, server, admissions>>

ConsumesAgain(i, generation, revision, steam) ==
  /\ intents[i].revision = revision
  /\ intents[i].generation = generation
  /\ intents[i].steam = steam

Consumes(i, generation, revision, steam) ==
  /\ ~intents[i].used
  /\ intents[i].revision = revision
  /\ intents[i].generation = generation
  /\ intents[i].steam = steam

\* Checks the intent without marking it used.
ConsumeUnmarked(k, i, generation, revision, steam) ==
  /\ call[k] = Idle
  /\ Consumes(i, generation, revision, steam)
  /\ call' = [call EXCEPT ![k] = [pc |-> "admit", intent |-> i]]
  /\ UNCHANGED <<lobbyVars, inviteVars, server, intentVars>>

\* Consumed once; the participant presents its own generation.
ConsumeJoinIntent(k, i, generation, revision, steam) ==
  /\ call[k] = Idle
  /\ Consumes(i, generation, revision, steam)
  /\ intents' = [intents EXCEPT ![i].used = TRUE]
  /\ call' = [call EXCEPT ![k] = [pc |-> "admit", intent |-> i]]
  /\ UNCHANGED <<lobbyVars, inviteVars, server, intentSeq, admissions>>

\* Kept by account and generation; a generation has one revision, so a second
\* admission of an account writes the same record.
AdmissionOf(intent) ==
  [account |-> intent.account, revision |-> intent.revision, generation |-> intent.generation]

RecordAdmission(k) ==
  /\ call[k].pc = "admit"
  /\ admissions' = admissions \cup {AdmissionOf(intents[call[k].intent])}
  /\ Ends(k)
  /\ UNCHANGED <<lobbyVars, inviteVars, server, intentSeq, intents>>

-----------------------------------------------------------------------------

Begin ==
  \E a \in Accounts, p \in Preps :
    \/ \E b \in Accounts : Invite(a, p, b)
    \/ \E k \in Calls : Claim(k, a, p) \/ Release(k, a, p) \/ ClaimAuthorized(k, a, p)
                          \/ IssueJoinIntent(k, a, p)

Present ==
  \E k \in Calls, i \in 1 .. intentSeq, g \in Generations, r \in Revisions, s \in SteamIDs :
    ConsumeJoinIntent(k, i, g, r, s)

Return ==
  \E k \in Calls : ClaimReturns(k) \/ ReleaseReturns(k) \/ StoreIntent(k) \/ RecordAdmission(k)

Next ==
  \/ Begin \/ Present \/ Return
  \/ \E i \in 1 .. inviteSeq : InviteExpires(i)
  \/ \E p \in Preps : Allocated(p) \/ MarkReady(p)

Spec == Init /\ [][Next]_vars

-----------------------------------------------------------------------------
\* The two maps of a lobby agree: an account holds exactly the slot that is
\* reserved for it, so no slot is shared, lost or held twice, whatever claims
\* and releases overlap.
LobbyConsistent ==
  \A p \in Preps, s \in Slots, a \in Accounts : slots[p][s] = a <=> byAccount[p][a] = s

\* An intent that was consumed is one admission, recorded or about to be by
\* exactly one call; and nobody is admitted but by one.
AdmissionsIssued ==
  /\ \A i \in 1 .. intentSeq : intents[i].used =>
       \/ AdmissionOf(intents[i]) \in admissions
       \/ \E k \in Calls : call[k] = [pc |-> "admit", intent |-> i]
  /\ \A k, l \in Calls :
       call[k].pc = "admit" /\ call[l].pc = "admit" /\ call[k].intent = call[l].intent => k = l
  /\ \A m \in admissions :
       \E i \in 1 .. intentSeq : intents[i].used /\ m = AdmissionOf(intents[i])

\* Only the owner and those the owner invited ever hold a slot, never more at
\* a time than the lobby has, and only who held one is admitted.
RosterView == INSTANCE Roster
  WITH invited <- {<<invites[i].prep, invites[i].account>> : i \in 1 .. inviteSeq},
       members <- {m \in Preps \X Accounts : byAccount[m[1]][m[2]] # Free},
       admitted <- {m \in Preps \X Accounts :
                      [account |-> m[2], revision |-> RevisionOf[m[1]],
                       generation |-> GenerationOf[m[1]]] \in admissions}

MeetsRoster == RosterView!RosterSpec
=============================================================================
