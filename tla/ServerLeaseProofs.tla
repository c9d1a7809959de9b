------------------------- MODULE ServerLeaseProofs -------------------------
(***************************************************************************)
(* Proofs about the lease authority, for any generations, participants and *)
(* credentials.  LeaseInv adds to the type invariant and ActiveIsNewest    *)
(* what relates the three maps: every active pointer leads to an issued    *)
(* record of its own generation, and every commit names an issued lease.   *)
(***************************************************************************)
EXTENDS ServerLease, TLAPS

\* Every active pointer leads to an issued record of its own generation.
ActivePointsToIssued ==
  \A g \in DOMAIN active : /\ active[g] \in DOMAIN credentials
                           /\ credentials[active[g]].generation = g

\* Every commit ran under an issued lease whose identity it carries.
CommitsNameIssued ==
  \A m \in commits : /\ m.credential \in DOMAIN credentials
                     /\ m.generation = credentials[m.credential].generation
                     /\ m.version = credentials[m.credential].version

LeaseInv ==
  /\ LeaseTypeOK
  /\ ActivePointsToIssued
  /\ ActiveIsNewest
  /\ CommitsNameIssued

-----------------------------------------------------------------------------
\* IssueLease preserves the invariant: the new record is strictly newer than
\* the record it supersedes, which was the newest of its generation.
LEMMA IssuePreservesInv ==
  ASSUME LeaseInv, NEW p \in ParticipantIDs, NEW g \in Generations, NEW c \in Credentials,
         IssueLease(p, g, c), UNCHANGED commits
  PROVE  LeaseInv'
<1> DEFINE rec == [participantID |-> p, generation |-> g,
                   version |-> NextVersion(g), revoked |-> FALSE]
<1>1. NextVersion(g) \in Nat \ {0}
  <2>1. CASE g \in DOMAIN active
    <3>1. credentials[active[g]].version \in Nat
      BY <2>1 DEF LeaseInv, LeaseTypeOK, ActivePointsToIssued, serverLeaseRecord
    <3> QED  BY <2>1, <3>1 DEF NextVersion
  <2>2. CASE g \notin DOMAIN active
    BY <2>2 DEF NextVersion
  <2> QED  BY <2>1, <2>2
<1>2. /\ DOMAIN credentials' = DOMAIN credentials \cup {c}
      /\ credentials'[c] = rec
      /\ \A d \in DOMAIN credentials : credentials'[d] = credentials[d]
      /\ c \notin DOMAIN credentials
  BY DEF IssueLease, newLeaseCredential
<1>3. /\ DOMAIN active' = DOMAIN active \cup {g}
      /\ active'[g] = c
      /\ \A h \in DOMAIN active : h # g => active'[h] = active[h]
  BY DEF IssueLease
<1>4. LeaseTypeOK'
  <2>1. rec \in serverLeaseRecord
    BY <1>1 DEF serverLeaseRecord, IssueLease
  <2>2. credentials' \in [DOMAIN credentials' -> serverLeaseRecord]
    BY <2>1 DEF IssueLease, LeaseInv, LeaseTypeOK
  <2>3. active' \in [DOMAIN active' -> Credentials]
    BY DEF IssueLease, LeaseInv, LeaseTypeOK
  <2> QED  BY <2>2, <2>3, <1>2, <1>3 DEF LeaseInv, LeaseTypeOK
<1>5. ActivePointsToIssued'
  BY <1>2, <1>3 DEF LeaseInv, LeaseTypeOK, ActivePointsToIssued
<1>6. ActiveIsNewest'
  <2> SUFFICES ASSUME NEW d \in DOMAIN credentials'
               PROVE  LET h == credentials'[d].generation IN
                        /\ h \in DOMAIN active'
                        /\ active'[h] \in DOMAIN credentials'
                        /\ credentials'[active'[h]].generation = h
                        /\ d # active'[h] =>
                             credentials'[d].version < credentials'[active'[h]].version
    BY DEF ActiveIsNewest
  <2>1. CASE d = c
    BY <2>1, <1>2, <1>3
  <2>2. CASE d # c /\ credentials[d].generation = g
    <3>1. /\ d \in DOMAIN credentials /\ credentials'[d] = credentials[d]
          /\ g \in DOMAIN active
          /\ active[g] \in DOMAIN credentials
          /\ d # active[g] => credentials[d].version < credentials[active[g]].version
      BY <2>2, <1>2 DEF LeaseInv, ActiveIsNewest
    <3>2. /\ credentials[d].version \in Nat
          /\ credentials[active[g]].version \in Nat
      BY <3>1 DEF LeaseInv, LeaseTypeOK, serverLeaseRecord
    <3>3. credentials[d].version < NextVersion(g)
      BY <3>1, <3>2 DEF NextVersion
    <3> QED  BY <3>1, <3>3, <2>2, <1>2, <1>3
  <2>3. CASE d # c /\ credentials[d].generation # g
    BY <2>3, <1>2, <1>3 DEF LeaseInv, ActiveIsNewest
  <2> QED  BY <2>1, <2>2, <2>3
<1>7. CommitsNameIssued'
  BY <1>2 DEF LeaseInv, CommitsNameIssued
<1> QED  BY <1>4, <1>5, <1>6, <1>7 DEF LeaseInv

\* Revoke changes one revoked flag and nothing else.
LEMMA RevokeChangesFlag ==
  ASSUME LeaseInv, NEW g \in Generations, Revoke(g)
  PROVE  /\ DOMAIN credentials' = DOMAIN credentials
         /\ active' = active
         /\ credentials' \in [DOMAIN credentials -> serverLeaseRecord]
         /\ \A d \in DOMAIN credentials :
              /\ credentials'[d].generation = credentials[d].generation
              /\ credentials'[d].version = credentials[d].version
              /\ credentials[d].revoked => credentials'[d].revoked
<1>1. CASE g \in DOMAIN active
  <2>1. active[g] \in DOMAIN credentials
    BY <1>1 DEF LeaseInv, ActivePointsToIssued
  <2>2. credentials' = [credentials EXCEPT ![active[g]].revoked = TRUE]
    BY <1>1 DEF Revoke
  <2> DEFINE b == active[g]
  <2>3. /\ DOMAIN credentials' = DOMAIN credentials
        /\ active' = active
        /\ \A d \in DOMAIN credentials : d # b => credentials'[d] = credentials[d]
        /\ credentials'[b] = [credentials[b] EXCEPT !.revoked = TRUE]
    BY <2>1, <2>2 DEF Revoke
  <2>4. /\ credentials'[b] \in serverLeaseRecord
        /\ credentials'[b].generation = credentials[b].generation
        /\ credentials'[b].version = credentials[b].version
        /\ credentials'[b].revoked
    BY <2>1, <2>3 DEF LeaseInv, LeaseTypeOK, serverLeaseRecord
  <2>5. credentials' \in [DOMAIN credentials -> serverLeaseRecord]
    BY <2>2, <2>3, <2>4 DEF LeaseInv, LeaseTypeOK
  <2> QED  BY <2>3, <2>4, <2>5
<1>2. CASE g \notin DOMAIN active
  BY <1>2 DEF Revoke, LeaseInv, LeaseTypeOK, serverLeaseRecord
<1> QED  BY <1>1, <1>2

LEMMA RevokePreservesInv ==
  ASSUME LeaseInv, NEW g \in Generations, Revoke(g), UNCHANGED commits
  PROVE  LeaseInv'
<1>1. LeaseTypeOK'
  BY RevokeChangesFlag DEF LeaseInv, LeaseTypeOK
<1>2. ActivePointsToIssued'
  BY RevokeChangesFlag DEF LeaseInv, ActivePointsToIssued
<1>3. ActiveIsNewest'
  BY RevokeChangesFlag DEF LeaseInv, ActiveIsNewest
<1>4. CommitsNameIssued'
  BY RevokeChangesFlag DEF LeaseInv, CommitsNameIssued
<1> QED  BY <1>1, <1>2, <1>3, <1>4 DEF LeaseInv

\* A commit under an issued lease preserves the invariant.
LEMMA CommitPreservesInv ==
  ASSUME LeaseInv, NEW c \in DOMAIN credentials, Commits(c),
         UNCHANGED <<credentials, active>>
  PROVE  LeaseInv'
<1>1. [credential |-> c, generation |-> credentials[c].generation,
       version |-> credentials[c].version] \in LeaseCommit
  BY DEF LeaseInv, LeaseTypeOK, LeaseCommit, serverLeaseRecord
<1>2. LeaseTypeOK'
  BY <1>1 DEF LeaseInv, LeaseTypeOK, Commits
<1>3. ActivePointsToIssued' /\ ActiveIsNewest'
  BY DEF LeaseInv, ActivePointsToIssued, ActiveIsNewest
<1>4. CommitsNameIssued'
  BY DEF LeaseInv, CommitsNameIssued, Commits
<1> QED  BY <1>2, <1>3, <1>4 DEF LeaseInv

\* The commit operations run only under an issued lease.
LEMMA NextPreservesInv ==
  LeaseInv /\ [LeaseNext]_leaseVars => LeaseInv'
<1> SUFFICES ASSUME LeaseInv, [LeaseNext]_leaseVars PROVE LeaseInv'
  OBVIOUS
<1>1. ASSUME NEW p \in ParticipantIDs, NEW g \in Generations, NEW c \in Credentials,
             IssueLease(p, g, c), UNCHANGED commits
      PROVE  LeaseInv'
  BY <1>1, IssuePreservesInv
<1>2. ASSUME NEW g \in Generations, Revoke(g), UNCHANGED commits
      PROVE  LeaseInv'
  BY <1>2, RevokePreservesInv
<1>3. ASSUME NEW g \in Generations, CommitLease(g)
      PROVE  LeaseInv'
  <2>1. active[g] \in DOMAIN credentials
    BY <1>3 DEF CommitLease, LeaseValid, LeaseInv, ActivePointsToIssued
  <2> QED  BY <2>1, <1>3, CommitPreservesInv DEF CommitLease
<1>4. ASSUME NEW c \in Credentials, NEW g \in Generations, CommitCredential(c, g)
      PROVE  LeaseInv'
  BY <1>4, CommitPreservesInv DEF CommitCredential, CredentialValid
<1>5. CASE UNCHANGED leaseVars
  BY <1>5 DEF leaseVars, LeaseInv, LeaseTypeOK, ActivePointsToIssued, ActiveIsNewest,
              CommitsNameIssued
<1> QED  BY <1>1, <1>2, <1>3, <1>4, <1>5 DEF LeaseNext

LEMMA InitEstablishesInv == LeaseInit => LeaseInv
BY DEF LeaseInit, NewServerLeaseAuthority, LeaseInv, LeaseTypeOK, ActivePointsToIssued,
       ActiveIsNewest, CommitsNameIssued

\* Every reachable state of the authority satisfies the invariant.
THEOREM LeaseInvariant == LeaseSpec => []LeaseInv
BY InitEstablishesInv, NextPreservesInv, PTL DEF LeaseSpec

\* The maps of the authority keep their types in every behaviour.
THEOREM LeaseTypeCorrect == LeaseSpec => []LeaseTypeOK
<1>1. LeaseInv => LeaseTypeOK
  BY DEF LeaseInv
<1> QED  BY <1>1, LeaseInvariant, PTL

\* IssueLease never reuses a version: the active lease of a generation is
\* strictly newer than every other lease ever issued for it.
THEOREM VersionsMonotone == LeaseSpec => []ActiveIsNewest
<1>1. LeaseInv => ActiveIsNewest
  BY DEF LeaseInv
<1> QED  BY <1>1, LeaseInvariant, PTL

-----------------------------------------------------------------------------
\* One step never revives a superseded or revoked credential.
LEMMA StepNeverRevives ==
  LeaseInv /\ [LeaseNext]_leaseVars =>
    \A c \in DOMAIN credentials : Authenticates(c)' => Authenticates(c)
<1> SUFFICES ASSUME LeaseInv, [LeaseNext]_leaseVars,
                    NEW c \in DOMAIN credentials, Authenticates(c)'
             PROVE  Authenticates(c)
  OBVIOUS
<1> USE DEF Authenticates
<1>1. ASSUME NEW p \in ParticipantIDs, NEW g \in Generations, NEW d \in Credentials,
             IssueLease(p, g, d)
      PROVE  Authenticates(c)
  <2>1. credentials'[c] = credentials[c] /\ c # d
    BY <1>1 DEF IssueLease, newLeaseCredential
  <2>2. credentials[c].generation \in DOMAIN active
    BY DEF LeaseInv, ActiveIsNewest
  <2>3. credentials[c].generation # g
    BY <1>1, <2>1 DEF IssueLease
  <2> QED  BY <1>1, <2>1, <2>2, <2>3 DEF IssueLease
<1>2. ASSUME NEW g \in Generations, Revoke(g)
      PROVE  Authenticates(c)
  BY <1>2, RevokeChangesFlag
<1>3. CASE UNCHANGED <<credentials, active>>
  BY <1>3
<1> QED
  BY <1>1, <1>2, <1>3 DEF LeaseNext, CommitLease, CommitCredential, leaseVars

\* A superseded or revoked server credential never authenticates again.
THEOREM CredentialsNeverRevive == LeaseSpec => NeverAuthenticatesAgain
BY LeaseInvariant, StepNeverRevives, PTL DEF LeaseSpec, NeverAuthenticatesAgain

-----------------------------------------------------------------------------
\* A commit under the active lease is at least as new as every earlier one.
LEMMA StepCommitsInOrder ==
  LeaseInv /\ [LeaseNext]_leaseVars =>
    \A new \in commits' \ commits, old \in commits :
       new.generation = old.generation => old.version <= new.version
<1> SUFFICES ASSUME LeaseInv, [LeaseNext]_leaseVars,
                    NEW new \in commits' \ commits, NEW old \in commits,
                    new.generation = old.generation
             PROVE  old.version <= new.version
  OBVIOUS
<1>1. PICK g \in DOMAIN active : Commits(active[g])
  <2>1. ASSUME NEW c \in Credentials, NEW g \in Generations, CommitCredential(c, g)
        PROVE  g \in DOMAIN active /\ active[g] = c
    BY <2>1 DEF CommitCredential, CredentialValid, LeaseInv, ActiveIsNewest
  <2> QED  BY <2>1 DEF LeaseNext, leaseVars, CommitLease, CommitCredential, LeaseValid
<1>2. /\ active[g] \in DOMAIN credentials
      /\ new.generation = g
      /\ new.version = credentials[active[g]].version
  BY <1>1 DEF Commits, LeaseInv, ActivePointsToIssued
<1>3. /\ old.credential \in DOMAIN credentials
      /\ credentials[old.credential].generation = g
      /\ old.version = credentials[old.credential].version
  BY <1>2 DEF LeaseInv, CommitsNameIssued
<1>4. \/ old.credential = active[g]
      \/ credentials[old.credential].version < credentials[active[g]].version
  BY <1>3 DEF LeaseInv, ActiveIsNewest
<1>5. credentials[old.credential].version \in Nat /\ credentials[active[g]].version \in Nat
  BY <1>2, <1>3 DEF LeaseInv, LeaseTypeOK, serverLeaseRecord
<1> QED  BY <1>2, <1>3, <1>4, <1>5

\* No result commit ever runs under a lease older than one that committed.
THEOREM CommitsInLeaseOrder == LeaseSpec => NoStaleCommit
BY LeaseInvariant, StepCommitsInOrder, PTL DEF LeaseSpec, NoStaleCommit
=============================================================================
