---------------------------- MODULE ServerLease ----------------------------
(***************************************************************************)
(* The generation-scoped server credential lease of core/server-lease.go.  *)
(*                                                                         *)
(* The two Go maps are partial functions.  A lease record is written once  *)
(* under a fresh credential and never removed, so a pointer to a record is *)
(* represented by that credential: active[g] is the credential whose       *)
(* record is the active one of generation g.  Every operation of the       *)
(* authority holds a.mtx from its first read to its return and is one      *)
(* action here; the commit closure of CommitLease and CommitCredential     *)
(* runs under the same lock.                                               *)
(***************************************************************************)
EXTENDS Naturals, FiniteSets

CONSTANTS
  ParticipantIDs,   \* server participant identities, "" (refused) included
  Generations,      \* server process generations, 0 (refused) included
  Credentials       \* the tokens the random source may produce

ASSUME GenerationsAssumption == Generations \subseteq Nat

VARIABLES
  credentials,      \* credential -> lease record
  active,           \* generation -> credential of its active record
  commits           \* history: the lease each successful commit ran under

leaseVars == <<credentials, active, commits>>

-----------------------------------------------------------------------------
serverLeaseRecord ==
  [participantID : ParticipantIDs \ {""}, generation : Generations \ {0},
   version : Nat \ {0}, revoked : BOOLEAN]

LeaseCommit == [credential : Credentials, generation : Generations, version : Nat]

LeaseTypeOK ==
  /\ DOMAIN credentials \subseteq Credentials
  /\ credentials \in [DOMAIN credentials -> serverLeaseRecord]
  /\ DOMAIN active \subseteq Generations
  /\ active \in [DOMAIN active -> Credentials]
  /\ commits \subseteq LeaseCommit

-----------------------------------------------------------------------------
NewServerLeaseAuthority ==
  /\ credentials = [c \in {} |-> {}]
  /\ active = [g \in {} |-> {}]

AnyCredential(taken) == Credentials

\* newLeaseCredential draws until the token is not a key of the map.
newLeaseCredential(taken) == Credentials \ taken

NextVersionRestarting(g) ==
  IF g \in DOMAIN active /\ ~credentials[active[g]].revoked
  THEN credentials[active[g]].version + 1 ELSE 1

\* The version IssueLease gives: one more than the active record's.
NextVersion(g) ==
  IF g \in DOMAIN active THEN credentials[active[g]].version + 1 ELSE 1

IssueLease(participantID, g, c) ==
  /\ participantID # "" /\ g # 0
  /\ c \in newLeaseCredential(DOMAIN credentials)
  /\ credentials' =
       [d \in DOMAIN credentials \cup {c} |->
          IF d = c
          THEN [participantID |-> participantID, generation |-> g,
                version |-> NextVersion(g), revoked |-> FALSE]
          ELSE credentials[d]]
  /\ active' = [h \in DOMAIN active \cup {g} |-> IF h = g THEN c ELSE active[h]]

\* AuthenticateServer returns the participant of c; it is refused otherwise.
Authenticates(c) ==
  /\ c \in DOMAIN credentials
  /\ ~credentials[c].revoked
  /\ active[credentials[c].generation] = c

\* Idempotent, and without effect on a generation that has no active lease.
Revoke(g) ==
  /\ credentials' =
       IF g \in DOMAIN active
       THEN [credentials EXCEPT ![active[g]].revoked = TRUE]
       ELSE credentials
  /\ UNCHANGED active

\* The generation-only check of CommitLease.
LeaseValid(g) == g \in DOMAIN active /\ ~credentials[active[g]].revoked

\* The exact-credential check of CommitCredential.
CredentialValid(c, g) ==
  /\ c \in DOMAIN credentials /\ credentials[c].generation = g
  /\ ~credentials[c].revoked
  /\ active[g] = c

\* A commit closure that succeeds under the lease of credential c.
Commits(c) ==
  commits' = commits \cup {[credential |-> c,
                            generation |-> credentials[c].generation,
                            version |-> credentials[c].version]}

CommitLease(g) ==
  /\ LeaseValid(g)
  /\ Commits(active[g])
  /\ UNCHANGED <<credentials, active>>

CommitCredential(c, g) ==
  /\ CredentialValid(c, g)
  /\ Commits(c)
  /\ UNCHANGED <<credentials, active>>

-----------------------------------------------------------------------------
LeaseInit == NewServerLeaseAuthority /\ commits = {}

LeaseNext ==
  \/ \E p \in ParticipantIDs, g \in Generations, c \in Credentials :
        IssueLease(p, g, c) /\ UNCHANGED commits
  \/ \E g \in Generations : Revoke(g) /\ UNCHANGED commits
  \/ \E g \in Generations : CommitLease(g)
  \/ \E c \in Credentials, g \in Generations : CommitCredential(c, g)

LeaseSpec == LeaseInit /\ [][LeaseNext]_leaseVars

-----------------------------------------------------------------------------
\* Every issued lease of a generation is older than the active one, and the
\* active lease of a generation was issued for it: re-issuing, also after a
\* revocation, can never hand out a version that was used before.
ActiveIsNewest ==
  \A c \in DOMAIN credentials :
    LET g == credentials[c].generation IN
      /\ g \in DOMAIN active
      /\ active[g] \in DOMAIN credentials
      /\ credentials[active[g]].generation = g
      /\ c # active[g] => credentials[c].version < credentials[active[g]].version

\* A credential that was superseded or revoked never authenticates again,
\* whatever is issued or revoked later.
NeverAuthenticatesAgain ==
  [][\A c \in DOMAIN credentials : Authenticates(c)' => Authenticates(c)]_leaseVars

\* Results commit in lease order: once a commit ran under some lease of a
\* generation, no commit runs under an older one.  This is what re-checking
\* the credential inside the critical section is for.
NoStaleCommit ==
  [][\A new \in commits' \ commits, old \in commits :
       new.generation = old.generation => old.version <= new.version]_leaseVars
=============================================================================
