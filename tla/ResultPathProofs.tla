-------------------------- MODULE ResultPathProofs --------------------------
(***************************************************************************)
(* Proofs about the result path, for any accounts, credentials, artifacts, *)
(* watchers and submitters.                                                *)
(*                                                                         *)
(* The inductive invariant says, beside the types and the invariant of the *)
(* lease authority: who is inside a commit closure holds the lease lock    *)
(* and a credential that is still the live lease (LockInv); what a watcher *)
(* carries from one step to the next still holds when it is used           *)
(* (WatcherInv, SubmitterInv); a stored result is of an admitted account   *)
(* (ResultsAdmitted); and an attribution under way agrees with every       *)
(* attribution already stored (AttributionInv).                            *)
(***************************************************************************)
EXTENDS ResultPath, ServerLeaseProofs

LockInv ==
  /\ \A w \in Watchers : pc[w] \in Committing <=> leaseLock = w
  /\ \A w \in Watchers : pc[w] \in Committing =>
       CredentialValid(credential[w], credentials[credential[w]].generation)

WatcherOK(w) ==
  /\ pc[w] # "new" => credential[w] \in DOMAIN credentials
  /\ pc[w] \in {"resolve", "check", "reserve"} \cup Reserving =>
       data[w] \in Artifacts /\ name[w] \in Names
  /\ pc[w] = "refuse" => name[w] \in Names
  /\ pc[w] \in {"reserve"} \cup Reserving => Bound(w)
  /\ pc[w] \in {"admit", "store"} =>
       /\ account[w] \in Accounts
       /\ Admitted(account[w], data[w].serverProcessGeneration, data[w].revision)

WatcherInv == \A w \in Watchers : WatcherOK(w)

SubmitterInv ==
  \A s \in Submitters : spc[s] = "fence" =>
    /\ sresult[s] \in AttemptResult
    /\ sresult[s].processGeneration = sgen[s]
    /\ Admitted(sresult[s].accountID, sgen[s], sresult[s].revisionID)

ResultsAdmitted ==
  \A r \in results : Admitted(r.accountID, r.processGeneration, r.revisionID)

AttributionInv ==
  /\ OneAttribution
  /\ \A w \in Watchers : pc[w] \in {"admit", "store"} =>
       \A r \in gateResults :
         r.processGeneration = data[w].serverProcessGeneration => r.accountID = account[w]

ResultInv ==
  /\ TypeOK
  /\ LeaseInv
  /\ LockInv
  /\ WatcherInv
  /\ SubmitterInv
  /\ ResultsAdmitted
  /\ AttributionInv
  /\ ReservationsOwned

-----------------------------------------------------------------------------
LEMMA TypeNext == ResultInv /\ [Next]_vars /\ LeaseTypeOK' => TypeOK'
<1> SUFFICES ASSUME ResultInv, [Next]_vars, LeaseTypeOK' PROVE TypeOK'
  OBVIOUS
<1> USE ResultPathAssumption DEF TypeOK, ResultInv, leaseVars, gateVars, admissionVars, resultVars,
        watcherVars, submitterVars, environmentFrame, pollFrame, ingestFrame, submitterFrame,
        WatcherPC, Reserving, Committing
<1>1. ASSUME NEW p \in ParticipantIDs, NEW g \in Generations, NEW c \in Credentials,
             DeploymentIssues(p, g, c)  PROVE TypeOK'
  BY <1>1 DEF DeploymentIssues
<1>2. ASSUME NEW g \in Generations, DeploymentRevokes(g)  PROVE TypeOK'
  BY <1>2 DEF DeploymentRevokes
<1>3. ASSUME NEW a \in Accounts, NEW g \in Generations, ConsumeJoinIntent(a, g)  PROVE TypeOK'
  BY <1>3 DEF ConsumeJoinIntent
<1>4. ASSUME NEW a \in Accounts, NEW g \in Generations, RecordAdmission(a, g)  PROVE TypeOK'
  BY <1>4 DEF RecordAdmission
<1>5. ASSUME NEW g \in Generations, NEW n \in Names, NEW a \in Artifacts, Publish(g, n, a)  PROVE TypeOK'
  BY <1>5 DEF Publish
<1>6. ASSUME NEW w \in Watchers, NEW c \in Credentials, NewSummarySpoolWatcher(w, c)  PROVE TypeOK'
  BY <1>6 DEF NewSummarySpoolWatcher
<1>7. ASSUME NEW w \in Watchers, Stop(w)  PROVE TypeOK'
  BY <1>7 DEF Stop
<1>8. ASSUME NEW w \in Watchers, PollOnce(w)  PROVE TypeOK'
  <2>1. pc' \in [Watchers -> WatcherPC] /\ entries' \in [Watchers -> SUBSET Names]
    BY <1>8 DEF PollOnce, Unprocessed
  <2> QED  BY <2>1, <1>8 DEF PollOnce
<1>9. ASSUME NEW w \in Watchers, PollCancelled(w)  PROVE TypeOK'
  <2>1. /\ pc' \in [Watchers -> WatcherPC] /\ stopped' \in [Watchers -> BOOLEAN]
        /\ entries' \in [Watchers -> SUBSET Names]
        /\ name' \in [Watchers -> Names \cup {NoName}]
        /\ data' \in [Watchers -> Artifacts \cup {NoFile}]
    BY <1>9 DEF PollCancelled
  <2> QED  BY <2>1, <1>9 DEF PollCancelled
<1>10. ASSUME NEW w \in Watchers, PollReturns(w)  PROVE TypeOK'
  BY <1>10 DEF PollReturns
<1>11. ASSUME NEW w \in Watchers, NEW n \in Names, ReadEntry(w, n)  PROVE TypeOK'
  <2>0. /\ entries' = [entries EXCEPT ![w] = @ \ {n}]
        /\ pc' = pc \/ pc' = [pc EXCEPT ![w] = "resolve"] \/ pc' = [pc EXCEPT ![w] = "refuse"]
        /\ name' = name \/ name' = [name EXCEPT ![w] = n]
    BY <1>11 DEF ReadEntry
  <2>1. pc' \in [Watchers -> WatcherPC]
    BY <2>0
  <2>4. entries' \in [Watchers -> SUBSET Names]
    BY <2>0
  <2>5. name' \in [Watchers -> Names \cup {NoName}]
    <3>1. name \in [Watchers -> Names \cup {NoName}]
      OBVIOUS
    <3>2. CASE name' = name
      BY ONLY <3>1, <3>2
    <3>3. CASE name' = [name EXCEPT ![w] = n]
      BY ONLY <3>1, <3>3, <1>11
    <3> QED  BY <2>0, <3>2, <3>3
  <2>2. spool[WatcherGeneration[w]][n] \in Artifacts \cup {NoFile}
    OBVIOUS
  <2>3. data' \in [Watchers -> Artifacts \cup {NoFile}]
    BY <1>11, <2>2 DEF ReadEntry
  <2> QED  BY <2>1, <2>3, <2>4, <2>5, <1>11 DEF ReadEntry
<1>12. ASSUME NEW w \in Watchers, refuse(w)  PROVE TypeOK'
  <2>1. name[w] \in Names
    BY <1>12 DEF refuse, WatcherInv, WatcherOK
  <2>2. spool' \in [Generations -> [Names -> Artifacts \cup {NoFile}]]
    <3> DEFINE h == [spool[WatcherGeneration[w]] EXCEPT ![name[w]] = NoFile]
    <3>1. h \in [Names -> Artifacts \cup {NoFile}]
      BY <2>1
    <3>2. QuarantineSpool(w) = [spool EXCEPT ![WatcherGeneration[w]] = h]
      BY DEF QuarantineSpool
    <3>3. spool' = spool \/ spool' = QuarantineSpool(w)
      BY <1>12 DEF refuse
    <3> DEFINE Files == [Names -> Artifacts \cup {NoFile}]
    <3>4. WatcherGeneration[w] \in Generations /\ spool \in [Generations -> Files] /\ h \in Files
      BY <3>1
    <3>5. spool' = spool \/ spool' = [spool EXCEPT ![WatcherGeneration[w]] = h]
      BY <3>2, <3>3
    <3> HIDE DEF h, Files
    <3>6. spool' \in [Generations -> Files]
      BY ONLY <3>4, <3>5
    <3> QED  BY <3>6 DEF Files
  <2>3. /\ pc' \in [Watchers -> WatcherPC] /\ terminal' \in [Watchers -> BOOLEAN]
        /\ entries' \in [Watchers -> SUBSET Names]
        /\ name' \in [Watchers -> Names \cup {NoName}]
        /\ data' \in [Watchers -> Artifacts \cup {NoFile}]
    BY <1>12 DEF refuse
  <2> QED  BY <2>2, <2>3, <1>12 DEF refuse
<1>13. ASSUME NEW w \in Watchers, Resolve(w)  PROVE TypeOK'
  BY <1>13 DEF Resolve
<1>14. ASSUME NEW w \in Watchers, EntryProcessed(w), name[w] \in Names
       PROVE  /\ pc' \in [Watchers -> WatcherPC]
              /\ processed' \in [Watchers -> SUBSET Names]
              /\ name' \in [Watchers -> Names \cup {NoName}]
              /\ data' \in [Watchers -> Artifacts \cup {NoFile}]
  BY <1>14 DEF EntryProcessed
<1>15. ASSUME NEW w \in Watchers, CheckArtifact(w)  PROVE TypeOK'
  <2>1. name[w] \in Names
    BY <1>15 DEF CheckArtifact, WatcherInv, WatcherOK
  <2>2. /\ pc' \in [Watchers -> WatcherPC]
        /\ processed' \in [Watchers -> SUBSET Names]
        /\ name' \in [Watchers -> Names \cup {NoName}]
        /\ data' \in [Watchers -> Artifacts \cup {NoFile}]
    BY <1>15, <1>14, <2>1 DEF CheckArtifact
  <2> QED  BY <2>2, <1>15 DEF CheckArtifact
<1>16. ASSUME NEW w \in Watchers, Reserve(w)  PROVE TypeOK'
  <2>1. name[w] \in Names /\ data[w] \in Artifacts
    BY <1>16 DEF Reserve, WatcherInv, WatcherOK
  <2>2. /\ pc' \in [Watchers -> WatcherPC]
        /\ processed' \in [Watchers -> SUBSET Names]
        /\ name' \in [Watchers -> Names \cup {NoName}]
        /\ data' \in [Watchers -> Artifacts \cup {NoFile}]
        /\ seenArtifacts' \subseteq Artifacts
    BY <1>16, <1>14, <2>1 DEF Reserve
  <2> QED  BY <2>2, <1>16 DEF Reserve
<1>17. ASSUME NEW w \in Watchers, BeginCommit(w)  PROVE TypeOK'
  BY <1>17 DEF BeginCommit
<1>18. ASSUME NEW w \in Watchers, CommitFails(w)
       PROVE  /\ pc' \in [Watchers -> WatcherPC]
              /\ leaseLock' \in Watchers \cup {Free}
              /\ account' \in [Watchers -> Accounts \cup {NoAccount}]
  BY <1>18 DEF CommitFails
<1>19. ASSUME NEW w \in Watchers, Attribute(w)  PROVE TypeOK'
  <2>1. /\ pc' \in [Watchers -> WatcherPC]
        /\ leaseLock' \in Watchers \cup {Free}
        /\ account' \in [Watchers -> Accounts \cup {NoAccount}]
    <3>1. CASE CommitFails(w)
      BY <3>1, <1>18
    <3>2. CASE ~CommitFails(w)
      <4>1. PICK a \in Accounts : account' = [account EXCEPT ![w] = a]
        BY <3>2, <1>19 DEF Attribute
      <4>2. pc' = [pc EXCEPT ![w] = "admit"] /\ leaseLock' = leaseLock
        BY <3>2, <1>19 DEF Attribute
      <4> QED  BY <4>1, <4>2
    <3> QED  BY <3>1, <3>2
  <2> QED  BY <2>1, <1>19 DEF Attribute
<1>20. ASSUME NEW w \in Watchers, Admit(w)  PROVE TypeOK'
  <2>1. /\ pc' \in [Watchers -> WatcherPC]
        /\ leaseLock' \in Watchers \cup {Free}
        /\ account' \in [Watchers -> Accounts \cup {NoAccount}]
    BY <1>20, <1>18 DEF Admit
  <2> QED  BY <2>1, <1>20 DEF Admit
<1>21. ASSUME NEW w \in Watchers, Store(w)  PROVE TypeOK'
  <2>1. name[w] \in Names /\ data[w] \in Artifact /\ account[w] \in Accounts
    BY <1>21 DEF Store, WatcherInv, WatcherOK
  <2>2. GateResult(w) \in AttemptResult
    BY <2>1 DEF GateResult, AttemptResult, Artifact
  <2>3. results' \subseteq AttemptResult /\ gateResults' \subseteq results'
    BY <2>2, <1>21 DEF Store
  <2>4. /\ pc' \in [Watchers -> WatcherPC]
        /\ processed' \in [Watchers -> SUBSET Names]
        /\ name' \in [Watchers -> Names \cup {NoName}]
        /\ data' \in [Watchers -> Artifacts \cup {NoFile}]
        /\ leaseLock' \in Watchers \cup {Free}
        /\ account' \in [Watchers -> Accounts \cup {NoAccount}]
    BY <1>21, <1>14, <1>18, <2>1 DEF Store
  <2> QED  BY <2>3, <2>4, <1>21 DEF Store
<1>22. ASSUME NEW w \in Watchers, Rollback(w)  PROVE TypeOK'
  BY <1>22 DEF Rollback
<1>23. ASSUME NEW s \in Submitters, NEW c \in Credentials, AuthenticateSubmitter(s, c)   PROVE TypeOK'
  BY <1>23 DEF AuthenticateSubmitter, Authenticates, LeaseInv, LeaseTypeOK, serverLeaseRecord
<1>24. ASSUME NEW s \in Submitters, NEW r \in AttemptResult, AcceptResult(s, r)   PROVE TypeOK'
  BY <1>24 DEF AcceptResult
<1>25. ASSUME NEW s \in Submitters, AcceptFenced(s)   PROVE TypeOK'
  BY <1>25 DEF AcceptFenced, SubmitterDone, SubmitterInv
<1>26. CASE UNCHANGED vars
  BY <1>26 DEF vars
<1> QED
  BY <1>1, <1>2, <1>3, <1>4, <1>5, <1>6, <1>7, <1>8, <1>9, <1>10, <1>11, <1>12, <1>13,
     <1>15, <1>16, <1>17, <1>19, <1>20, <1>21, <1>22, <1>23, <1>24, <1>25, <1>26
     DEF Next, Environment, WatcherStep, SubmitterStep

-----------------------------------------------------------------------------
(* What a step leaves alone.                                               *)

\* The state a watcher carries through a poll.
Locals(v) == <<pc[v], credential[v], name[v], data[v], account[v], entries[v]>>

ActionOf(w) ==
  \/ \E c \in Credentials : NewSummarySpoolWatcher(w, c)
  \/ Stop(w) \/ PollOnce(w) \/ PollCancelled(w)
  \/ WatcherStep(w)

\* Nobody but the watcher itself touches what it carries.
LEMMA Locality ==
  ASSUME ResultInv, [Next]_vars, NEW v \in Watchers, ~ActionOf(v)
  PROVE  Locals(v)' = Locals(v)
<1> USE DEF Locals, leaseVars, gateVars, admissionVars, resultVars, watcherVars, submitterVars,
        environmentFrame, pollFrame, ingestFrame, submitterFrame
<1>1. CASE Environment
  BY <1>1 DEF Environment, DeploymentIssues, DeploymentRevokes, ConsumeJoinIntent,
              RecordAdmission, Publish
<1>2. ASSUME NEW s \in Submitters, SubmitterStep(s)  PROVE Locals(v)' = Locals(v)
  BY <1>2 DEF SubmitterStep, AuthenticateSubmitter, AcceptResult, AcceptFenced, SubmitterDone
<1>3. ASSUME NEW w \in Watchers, w # v, ActionOf(w)  PROVE Locals(v)' = Locals(v)
  <2> USE DEF ResultInv, TypeOK
  <2>1. ASSUME NEW c \in Credentials, NewSummarySpoolWatcher(w, c)  PROVE Locals(v)' = Locals(v)
    BY <2>1, <1>3 DEF NewSummarySpoolWatcher
  <2>2. CASE Stop(w) \/ PollOnce(w) \/ PollReturns(w) \/ Resolve(w) \/ BeginCommit(w) \/ Rollback(w)
    BY <2>2, <1>3 DEF Stop, PollOnce, PollReturns, Resolve, BeginCommit, Rollback
  <2>3. CASE PollCancelled(w) \/ refuse(w)
    BY <2>3, <1>3 DEF PollCancelled, refuse
  <2>4. ASSUME NEW n \in Names, ReadEntry(w, n)  PROVE Locals(v)' = Locals(v)
    BY <2>4, <1>3 DEF ReadEntry
  <2>5. CASE CheckArtifact(w)
    BY <2>5, <1>3 DEF CheckArtifact, EntryProcessed
  <2>6. CASE Reserve(w)
    BY <2>6, <1>3 DEF Reserve, EntryProcessed
  <2>7. CASE Attribute(w)
    BY <2>7, <1>3 DEF Attribute, CommitFails
  <2>8. CASE Admit(w)
    BY <2>8, <1>3 DEF Admit, CommitFails
  <2>9. CASE Store(w)
    BY <2>9, <1>3 DEF Store, CommitFails, EntryProcessed
  <2> QED
    BY <1>3, <2>1, <2>2, <2>3, <2>4, <2>5, <2>6, <2>7, <2>8, <2>9 DEF ActionOf, WatcherStep
<1>4. CASE UNCHANGED vars
  BY <1>4 DEF vars
<1> QED  BY <1>1, <1>2, <1>3, <1>4 DEF Next, ActionOf

\* The lease changes only through the operations of the lease authority: the
\* two-part commit of the gate is CommitCredential, the direct one CommitLease.
LEMMA StepIsLeaseStep ==
  ASSUME ResultInv, [Next]_vars
  PROVE  [LeaseNext]_leaseVars
<1> USE DEF leaseVars, ingestFrame, pollFrame, environmentFrame, submitterFrame
<1>1. CASE Environment
  BY <1>1 DEF Environment, LeaseNext, DeploymentIssues, DeploymentRevokes, ConsumeJoinIntent,
              RecordAdmission, Publish
<1>2. ASSUME NEW s \in Submitters, SubmitterStep(s)  PROVE [LeaseNext]_leaseVars
  <2>1. CASE AcceptFenced(s) /\ LeaseValid(sgen[s]) /\ ~Exists(sresult[s])
    <3>1. CommitLease(sgen[s])
      BY <2>1 DEF AcceptFenced, SubmitterDone, CommitLease
    <3>2. sgen[s] \in Generations
      BY <2>1 DEF LeaseValid, ResultInv, TypeOK, LeaseTypeOK
    <3> QED  BY <3>1, <3>2 DEF LeaseNext
  <2>2. CASE AcceptFenced(s) /\ ~(LeaseValid(sgen[s]) /\ ~Exists(sresult[s]))
    BY <2>2 DEF AcceptFenced, SubmitterDone
  <2> QED
    BY <1>2, <2>1, <2>2 DEF SubmitterStep, AuthenticateSubmitter, AcceptResult
<1>3. ASSUME NEW w \in Watchers, ActionOf(w)  PROVE [LeaseNext]_leaseVars
  <2>1. CASE Store(w) /\ ~Exists(GateResult(w))
    <3>1. CredentialValid(credential[w], credentials[credential[w]].generation)
      BY <2>1 DEF Store, ResultInv, LockInv, Committing
    <3>2. CommitCredential(credential[w], credentials[credential[w]].generation)
      BY <3>1, <2>1 DEF Store, CommitCredential
    <3>3. credential[w] \in Credentials /\ credentials[credential[w]].generation \in Generations
      BY <3>1 DEF CredentialValid, ResultInv, TypeOK, LeaseTypeOK, serverLeaseRecord
    <3> QED  BY <3>2, <3>3 DEF LeaseNext
  <2>2. CASE Store(w) /\ Exists(GateResult(w))
    BY <2>2 DEF Store
  <2> QED
    BY <1>3, <2>1, <2>2 DEF ActionOf, WatcherStep, NewSummarySpoolWatcher, Stop, PollOnce,
       PollCancelled, PollReturns, refuse, Resolve, CheckArtifact, Reserve, BeginCommit,
       Attribute, Admit, Rollback, ReadEntry
<1>4. CASE UNCHANGED vars
  BY <1>4 DEF vars
<1> QED  BY <1>1, <1>2, <1>3, <1>4 DEF Next, ActionOf

\* A lease record keeps its generation and is never removed.
LEMMA RecordsPersist ==
  ASSUME LeaseInv, [LeaseNext]_leaseVars, NEW c \in DOMAIN credentials
  PROVE  c \in DOMAIN credentials' /\ credentials'[c].generation = credentials[c].generation
<1>1. ASSUME NEW p \in ParticipantIDs, NEW g \in Generations, NEW d \in Credentials,
             IssueLease(p, g, d)
      PROVE  c \in DOMAIN credentials' /\ credentials'[c].generation = credentials[c].generation
  BY <1>1 DEF IssueLease, newLeaseCredential
<1>2. ASSUME NEW g \in Generations, Revoke(g)
      PROVE  c \in DOMAIN credentials' /\ credentials'[c].generation = credentials[c].generation
  BY <1>2, RevokeChangesFlag
<1> QED
  BY <1>1, <1>2 DEF LeaseNext, CommitLease, CommitCredential, leaseVars

\* Admissions are never withdrawn.
LEMMA AdmissionsGrow ==
  ASSUME [Next]_vars
  PROVE  admissions \subseteq admissions'
<1> USE DEF leaseVars, admissionVars, ingestFrame, pollFrame, environmentFrame, submitterFrame
<1>1. CASE Environment
  BY <1>1 DEF Environment, DeploymentIssues, DeploymentRevokes, ConsumeJoinIntent,
              RecordAdmission, Publish
<1>2. ASSUME NEW s \in Submitters, SubmitterStep(s)  PROVE admissions' = admissions
  BY <1>2 DEF SubmitterStep, AuthenticateSubmitter, AcceptResult, AcceptFenced, SubmitterDone
<1>3. ASSUME NEW w \in Watchers, ActionOf(w)  PROVE admissions' = admissions
  BY <1>3 DEF ActionOf, WatcherStep, NewSummarySpoolWatcher, Stop, PollOnce,
     PollCancelled, PollReturns, refuse, Resolve, CheckArtifact, Reserve, BeginCommit,
     Attribute, Admit, Store, Rollback, ReadEntry
<1>4. CASE UNCHANGED vars
  BY <1>4 DEF vars
<1> QED  BY <1>1, <1>2, <1>3, <1>4 DEF Next, ActionOf

\* While the lease transaction is open no lease is issued or revoked.
LEMMA LeaseFrozen ==
  ASSUME [Next]_vars, leaseLock # Free
  PROVE  UNCHANGED <<credentials, active>>
<1> USE DEF leaseVars, admissionVars, ingestFrame, pollFrame, environmentFrame, submitterFrame
<1>1. CASE Environment
  BY <1>1 DEF Environment, DeploymentIssues, DeploymentRevokes, ConsumeJoinIntent,
              RecordAdmission, Publish
<1>2. ASSUME NEW s \in Submitters, SubmitterStep(s)  PROVE UNCHANGED <<credentials, active>>
  BY <1>2 DEF SubmitterStep, AuthenticateSubmitter, AcceptResult, AcceptFenced, SubmitterDone
<1>3. ASSUME NEW w \in Watchers, ActionOf(w)  PROVE UNCHANGED <<credentials, active>>
  BY <1>3 DEF ActionOf, WatcherStep, NewSummarySpoolWatcher, Stop, PollOnce,
     PollCancelled, PollReturns, refuse, Resolve, CheckArtifact, Reserve, BeginCommit,
     Attribute, Admit, Store, Rollback, ReadEntry
<1>4. CASE UNCHANGED vars
  BY <1>4 DEF vars
<1> QED  BY <1>1, <1>2, <1>3, <1>4 DEF Next, ActionOf

-----------------------------------------------------------------------------
(* What a watcher carries still holds when it is used.                     *)

LEMMA WatcherFrame ==
  ASSUME ResultInv, [Next]_vars, NEW v \in Watchers, ~ActionOf(v)
  PROVE  WatcherOK(v)'
<1>1. UNCHANGED <<pc[v], credential[v], name[v], data[v], account[v]>>
  BY Locality DEF Locals
<1>2. \A c \in DOMAIN credentials :
        c \in DOMAIN credentials' /\ credentials'[c].generation = credentials[c].generation
  BY StepIsLeaseStep, RecordsPersist DEF ResultInv
<1>3. admissions \subseteq admissions'
  BY AdmissionsGrow
<1>4. WatcherOK(v)
  BY DEF ResultInv, WatcherInv
<1> QED
  BY <1>1, <1>2, <1>3, <1>4 DEF WatcherOK, Bound, Admitted, Reserving, Committing

LEMMA WatcherOwnStep ==
  ASSUME ResultInv, [Next]_vars, NEW v \in Watchers, ActionOf(v)
  PROVE  WatcherOK(v)'
<1> USE ResultPathAssumption
    DEF leaseVars, gateVars, admissionVars, resultVars, watcherVars, submitterVars,
        pollFrame, ingestFrame, Reserving, Committing, WatcherOK, Bound, Admitted, TypeOK
<1>0. /\ TypeOK /\ WatcherOK(v)
      /\ leaseLock = v <=> pc[v] \in Committing
  BY DEF ResultInv, WatcherInv, LockInv
<1>1. ASSUME NEW c \in Credentials, NewSummarySpoolWatcher(v, c)  PROVE WatcherOK(v)'
  BY <1>0, <1>1 DEF NewSummarySpoolWatcher
<1>2. CASE Stop(v)
  BY <1>0, <1>2 DEF Stop
<1>3. CASE PollOnce(v)
  BY <1>0, <1>3 DEF PollOnce
<1>4. CASE PollCancelled(v)
  BY <1>0, <1>4 DEF PollCancelled
<1>5. CASE PollReturns(v)
  BY <1>0, <1>5 DEF PollReturns
<1>6. ASSUME NEW n \in Names, ReadEntry(v, n)  PROVE WatcherOK(v)'
  <2>1. /\ UNCHANGED <<credential, credentials>> /\ pc[v] = "scan"
        /\ \/ pc' = pc
           \/ /\ pc' = [pc EXCEPT ![v] = "resolve"]
              /\ name' = [name EXCEPT ![v] = n]
              /\ data' = [data EXCEPT ![v] = spool[WatcherGeneration[v]][n]]
              /\ spool[WatcherGeneration[v]][n] # NoFile
           \/ /\ pc' = [pc EXCEPT ![v] = "refuse"]
              /\ name' = [name EXCEPT ![v] = n]
    BY <1>6 DEF ReadEntry
  <2>2. spool[WatcherGeneration[v]][n] \in Artifacts \cup {NoFile}
    BY <1>0
  <2> QED  BY <1>0, <2>1, <2>2
<1>7. CASE refuse(v)
  BY <1>0, <1>7 DEF refuse
<1>8. CASE Resolve(v)
  BY <1>0, <1>8 DEF Resolve
<1>9. CASE CheckArtifact(v)
  <2>1. CASE EntryProcessed(v)
    BY <1>0, <1>9, <2>1 DEF CheckArtifact, EntryProcessed
  <2>2. CASE ~EntryProcessed(v)
    BY <1>0, <1>9, <2>2 DEF CheckArtifact
  <2> QED  BY <2>1, <2>2
<1>10. CASE Reserve(v)
  <2>1. CASE EntryProcessed(v)
    BY <1>0, <1>10, <2>1 DEF Reserve, EntryProcessed
  <2>2. CASE ~EntryProcessed(v)
    BY <1>0, <1>10, <2>2 DEF Reserve
  <2> QED  BY <2>1, <2>2
<1>11. CASE BeginCommit(v)
  BY <1>0, <1>11 DEF BeginCommit
<1>12. CASE Attribute(v)
  <2>1. CASE CommitFails(v)
    BY <1>0, <1>12, <2>1 DEF Attribute, CommitFails
  <2>2. CASE ~CommitFails(v)
    <3>1. PICK a \in Accounts :
            /\ AdmittedAccounts(data[v].serverProcessGeneration, data[v].revision) = {a}
            /\ account' = [account EXCEPT ![v] = a]
            /\ pc' = [pc EXCEPT ![v] = "admit"]
      BY <1>12, <2>2 DEF Attribute
    <3>2. Admitted(a, data[v].serverProcessGeneration, data[v].revision)
      BY <3>1 DEF AdmittedAccounts
    <3> QED  BY <1>0, <1>12, <3>1, <3>2 DEF Attribute
  <2> QED  BY <2>1, <2>2
<1>13. CASE Admit(v)
  <2>1. CASE CommitFails(v)
    BY <1>0, <1>13, <2>1 DEF Admit, CommitFails
  <2>2. CASE ~CommitFails(v)
    BY <1>0, <1>13, <2>2 DEF Admit
  <2> QED  BY <2>1, <2>2
<1>14. CASE Store(v)
  <2>1. CASE CommitFails(v)
    <3>1. pc' = [pc EXCEPT ![v] = "rollback"] /\ pc[v] = "store"
      BY <1>14, <2>1 DEF Store, CommitFails
    <3>2. UNCHANGED <<name, data, credential, credentials>>
      BY <1>0, <3>1, <1>14 DEF Store, EntryProcessed
    <3> QED  BY <1>0, <3>1, <3>2
  <2>2. CASE ~CommitFails(v)
    BY <1>0, <1>14, <2>2 DEF Store, EntryProcessed
  <2> QED  BY <2>1, <2>2
<1>15. CASE Rollback(v)
  BY <1>0, <1>15 DEF Rollback
<1> QED
  BY <1>1, <1>2, <1>3, <1>4, <1>5, <1>6, <1>7, <1>8, <1>9, <1>10, <1>11, <1>12, <1>13, <1>14,
     <1>15 DEF ActionOf, WatcherStep

LEMMA WatcherNext ==
  ASSUME ResultInv, [Next]_vars
  PROVE  WatcherInv'
BY WatcherFrame, WatcherOwnStep DEF WatcherInv

-----------------------------------------------------------------------------
(* The lease lock and the credential under it.                             *)

\* A watcher takes the lock only when it is free, to open a valid lease
\* transaction, and gives back only its own.
LEMMA LockStep ==
  ASSUME ResultInv, [Next]_vars
  PROVE  \/ /\ UNCHANGED leaseLock
            /\ \A v \in Watchers : pc'[v] \in Committing <=> pc[v] \in Committing
         \/ \E w \in Watchers :
              /\ leaseLock = Free /\ leaseLock' = w
              /\ pc'[w] \in Committing
              /\ \A v \in Watchers \ {w} : pc'[v] = pc[v]
              /\ UNCHANGED <<credentials, active, credential>>
              /\ CredentialValid(credential[w], credentials[credential[w]].generation)
         \/ \E w \in Watchers :
              /\ leaseLock = w /\ leaseLock' = Free
              /\ pc'[w] \notin Committing
              /\ \A v \in Watchers \ {w} : pc'[v] = pc[v]
<1> DEFINE Goal ==
         \/ /\ UNCHANGED leaseLock
            /\ \A v \in Watchers : pc'[v] \in Committing <=> pc[v] \in Committing
         \/ \E w \in Watchers :
              /\ leaseLock = Free /\ leaseLock' = w
              /\ pc'[w] \in Committing
              /\ \A v \in Watchers \ {w} : pc'[v] = pc[v]
              /\ UNCHANGED <<credentials, active, credential>>
              /\ CredentialValid(credential[w], credentials[credential[w]].generation)
         \/ \E w \in Watchers :
              /\ leaseLock = w /\ leaseLock' = Free
              /\ pc'[w] \notin Committing
              /\ \A v \in Watchers \ {w} : pc'[v] = pc[v]
<1> SUFFICES Goal
  OBVIOUS
<1> USE DEF leaseVars, gateVars, admissionVars, resultVars, watcherVars, submitterVars,
        environmentFrame, pollFrame, ingestFrame, submitterFrame, Committing
<1>0. /\ pc \in [Watchers -> WatcherPC]
      /\ \A w \in Watchers : pc[w] \in Committing <=> leaseLock = w
  BY DEF ResultInv, LockInv, TypeOK
<1>1. CASE Environment
  BY <1>1 DEF Environment, DeploymentIssues, DeploymentRevokes, ConsumeJoinIntent,
              RecordAdmission, Publish
<1>2. ASSUME NEW s \in Submitters, SubmitterStep(s)  PROVE Goal
  BY <1>2 DEF SubmitterStep, AuthenticateSubmitter, AcceptResult, AcceptFenced, SubmitterDone
<1>3. ASSUME NEW w \in Watchers, ActionOf(w)  PROVE Goal
  <2> DEFINE Quiet == /\ UNCHANGED leaseLock
                      /\ \A v \in Watchers : pc'[v] \in Committing <=> pc[v] \in Committing
  <2> DEFINE Released == /\ leaseLock = w /\ leaseLock' = Free
                         /\ pc'[w] \notin Committing
                         /\ \A v \in Watchers \ {w} : pc'[v] = pc[v]
  <2>1. ASSUME NEW c \in Credentials, NewSummarySpoolWatcher(w, c)  PROVE Quiet
    BY <2>1, <1>0 DEF NewSummarySpoolWatcher
  <2>2. CASE Stop(w) \/ PollOnce(w) \/ PollReturns(w) \/ Resolve(w)
    BY <2>2, <1>0 DEF Stop, PollOnce, PollReturns, Resolve
  <2>3. CASE PollCancelled(w) \/ refuse(w) \/ Rollback(w)
    BY <2>3, <1>0 DEF PollCancelled, refuse, Rollback
  <2>4. ASSUME NEW n \in Names, ReadEntry(w, n)  PROVE Quiet
    BY <2>4, <1>0 DEF ReadEntry
  <2>5. CASE CheckArtifact(w)
    BY <2>5, <1>0 DEF CheckArtifact, EntryProcessed
  <2>6. CASE Reserve(w)
    BY <2>6, <1>0 DEF Reserve, EntryProcessed
  <2>7. CASE BeginCommit(w)
    <3>1. CASE CredentialValid(credential[w], credentials[credential[w]].generation)
      BY <2>7, <3>1, <1>0 DEF BeginCommit
    <3>2. CASE ~CredentialValid(credential[w], credentials[credential[w]].generation)
      BY <2>7, <3>2, <1>0 DEF BeginCommit
    <3> QED  BY <3>1, <3>2
  <2>8. ASSUME CommitFails(w), pc[w] \in Committing  PROVE Released
    BY <2>8, <1>0 DEF CommitFails
  <2>9. CASE Attribute(w)
    <3>1. CASE CommitFails(w)
      BY <2>8, <2>9, <3>1 DEF Attribute
    <3>2. CASE ~CommitFails(w)
      BY <2>9, <3>2, <1>0 DEF Attribute
    <3> QED  BY <3>1, <3>2
  <2>10. CASE Admit(w)
    <3>1. CASE CommitFails(w)
      BY <2>8, <2>10, <3>1 DEF Admit
    <3>2. CASE ~CommitFails(w)
      BY <2>10, <3>2, <1>0 DEF Admit
    <3> QED  BY <3>1, <3>2
  <2>11. CASE Store(w)
    <3>1. CASE CommitFails(w)
      BY <2>8, <2>11, <3>1 DEF Store
    <3>2. CASE ~CommitFails(w)
      BY <2>11, <3>2, <1>0 DEF Store, EntryProcessed
    <3> QED  BY <3>1, <3>2
  <2> QED
    BY <1>3, <2>1, <2>2, <2>3, <2>4, <2>5, <2>6, <2>7, <2>9, <2>10, <2>11 DEF ActionOf, WatcherStep
<1>4. CASE UNCHANGED vars
  BY <1>4 DEF vars
<1> QED  BY <1>1, <1>2, <1>3, <1>4 DEF Next, ActionOf

LEMMA LockNext ==
  ASSUME ResultInv, [Next]_vars, TypeOK'
  PROVE  LockInv'
<1>1. \A v \in Watchers : pc[v] \in Committing <=> leaseLock = v
  BY DEF ResultInv, LockInv
<1>2. \A v \in Watchers : pc'[v] \in Committing <=> leaseLock' = v
  BY LockStep, <1>1, ResultPathAssumption
<1>3. ASSUME NEW v \in Watchers, pc'[v] \in Committing
      PROVE  CredentialValid(credential[v], credentials[credential[v]].generation)'
  <2>1. CASE pc[v] \in Committing
    <3>1. leaseLock # Free
      BY <2>1, <1>1, ResultPathAssumption
    <3>2. UNCHANGED <<credentials, active>>
      BY <3>1, LeaseFrozen
    <3>3. credential'[v] = credential[v]
      <4>1. CASE ActionOf(v)
        BY <4>1, <2>1 DEF ActionOf, NewSummarySpoolWatcher, Stop, PollOnce, PollCancelled,
           WatcherStep, ReadEntry, PollReturns, refuse, Resolve, CheckArtifact, Reserve,
           BeginCommit, Attribute, Admit, Store, Rollback, ingestFrame, pollFrame, Committing
      <4>2. CASE ~ActionOf(v)
        BY <4>2, Locality DEF Locals
      <4> QED  BY <4>1, <4>2
    <3>4. CredentialValid(credential[v], credentials[credential[v]].generation)
      BY <2>1 DEF ResultInv, LockInv
    <3> QED  BY <3>2, <3>3, <3>4 DEF CredentialValid
  <2>2. CASE pc[v] \notin Committing
    BY <2>2, <1>3, LockStep DEF CredentialValid
  <2> QED  BY <2>1, <2>2
<1> QED  BY <1>2, <1>3 DEF LockInv

-----------------------------------------------------------------------------
(* Submitters and the stored results.                                      *)

LEMMA SubmitterNext ==
  ASSUME ResultInv, [Next]_vars
  PROVE  SubmitterInv'
<1> SUFFICES ASSUME NEW t \in Submitters, spc'[t] = "fence"
             PROVE  /\ sresult'[t] \in AttemptResult
                    /\ sresult'[t].processGeneration = sgen'[t]
                    /\ Admitted(sresult[t].accountID, sgen[t], sresult[t].revisionID)'
  BY DEF SubmitterInv
<1> USE DEF ResultInv, TypeOK, SubmitterInv, Admitted
<1>1. admissions \subseteq admissions'
  BY AdmissionsGrow
<1>2. CASE UNCHANGED submitterVars
  BY <1>1, <1>2 DEF submitterVars
<1>3. ASSUME NEW s \in Submitters, NEW c \in Credentials, AuthenticateSubmitter(s, c)
      PROVE  /\ sresult'[t] \in AttemptResult
             /\ sresult'[t].processGeneration = sgen'[t]
             /\ Admitted(sresult[t].accountID, sgen[t], sresult[t].revisionID)'
  BY <1>1, <1>3 DEF AuthenticateSubmitter
<1>4. ASSUME NEW s \in Submitters, NEW r \in AttemptResult, AcceptResult(s, r)
      PROVE  /\ sresult'[t] \in AttemptResult
             /\ sresult'[t].processGeneration = sgen'[t]
             /\ Admitted(sresult[t].accountID, sgen[t], sresult[t].revisionID)'
  BY <1>1, <1>4 DEF AcceptResult
<1>5. ASSUME NEW s \in Submitters, AcceptFenced(s)
      PROVE  /\ sresult'[t] \in AttemptResult
             /\ sresult'[t].processGeneration = sgen'[t]
             /\ Admitted(sresult[t].accountID, sgen[t], sresult[t].revisionID)'
  BY <1>1, <1>5 DEF AcceptFenced, SubmitterDone
<1>6. UNCHANGED submitterVars \/ \E s \in Submitters : SubmitterStep(s)
  <2> USE DEF environmentFrame, pollFrame, ingestFrame
  <2>1. CASE Environment
    BY <2>1 DEF Environment, DeploymentIssues, DeploymentRevokes, ConsumeJoinIntent,
                RecordAdmission, Publish
  <2>2. ASSUME NEW w \in Watchers, ActionOf(w)  PROVE UNCHANGED submitterVars
    BY <2>2 DEF ActionOf, WatcherStep, NewSummarySpoolWatcher, Stop, PollOnce,
       PollCancelled, PollReturns, refuse, Resolve, CheckArtifact, Reserve, BeginCommit,
       Attribute, Admit, Store, Rollback, ReadEntry
  <2>3. CASE UNCHANGED vars
    BY <2>3 DEF vars
  <2> QED  BY <2>1, <2>2, <2>3 DEF Next, ActionOf
<1> QED  BY <1>2, <1>3, <1>4, <1>5, <1>6 DEF SubmitterStep

\* A result enters the store through one of the two commit paths, and none
\* ever leaves it.
LEMMA ResultsStep ==
  ASSUME ResultInv, [Next]_vars
  PROVE  \/ UNCHANGED resultVars
         \/ \E w \in Watchers :
              /\ Store(w) /\ ~Exists(GateResult(w))
              /\ results' = results \cup {GateResult(w)}
              /\ gateResults' = gateResults \cup {GateResult(w)}
         \/ \E s \in Submitters :
              /\ AcceptFenced(s) /\ LeaseValid(sgen[s]) /\ ~Exists(sresult[s])
              /\ results' = results \cup {sresult[s]}
              /\ UNCHANGED gateResults
<1> USE DEF resultVars, environmentFrame, pollFrame, ingestFrame, submitterFrame
<1>1. CASE Environment
  BY <1>1 DEF Environment, DeploymentIssues, DeploymentRevokes, ConsumeJoinIntent,
              RecordAdmission, Publish
<1>2. ASSUME NEW s \in Submitters, SubmitterStep(s)
      PROVE  \/ UNCHANGED resultVars
             \/ /\ AcceptFenced(s) /\ LeaseValid(sgen[s]) /\ ~Exists(sresult[s])
                /\ results' = results \cup {sresult[s]}
                /\ UNCHANGED gateResults
  BY <1>2 DEF SubmitterStep, AuthenticateSubmitter, AcceptResult, AcceptFenced, SubmitterDone
<1>3. ASSUME NEW w \in Watchers, ActionOf(w)
      PROVE  \/ UNCHANGED resultVars
             \/ /\ Store(w) /\ ~Exists(GateResult(w))
                /\ results' = results \cup {GateResult(w)}
                /\ gateResults' = gateResults \cup {GateResult(w)}
  <2>1. CASE Store(w)
    BY <2>1 DEF Store
  <2>2. CASE ~Store(w)
    BY <2>2, <1>3 DEF ActionOf, WatcherStep, NewSummarySpoolWatcher, Stop, PollOnce,
       PollCancelled, PollReturns, refuse, Resolve, CheckArtifact, Reserve, BeginCommit,
       Attribute, Admit, Rollback, ReadEntry
  <2> QED  BY <2>1, <2>2
<1>4. CASE UNCHANGED vars
  BY <1>4 DEF vars
<1> QED  BY <1>1, <1>2, <1>3, <1>4 DEF Next, ActionOf

LEMMA ResultsNext ==
  ASSUME ResultInv, [Next]_vars
  PROVE  ResultsAdmitted'
<1>1. admissions \subseteq admissions'
  BY AdmissionsGrow
<1>2. CASE UNCHANGED resultVars
  BY <1>1, <1>2 DEF resultVars, ResultInv, ResultsAdmitted, Admitted
<1>3. ASSUME NEW w \in Watchers, Store(w), results' = results \cup {GateResult(w)}
      PROVE  ResultsAdmitted'
  <2>1. Admitted(GateResult(w).accountID, GateResult(w).processGeneration, GateResult(w).revisionID)
    BY <1>3 DEF Store, ResultInv, WatcherInv, WatcherOK, GateResult
  <2> QED  BY <1>1, <1>3, <2>1 DEF ResultInv, ResultsAdmitted, Admitted
<1>4. ASSUME NEW s \in Submitters, AcceptFenced(s), results' = results \cup {sresult[s]}
      PROVE  ResultsAdmitted'
  <2>1. Admitted(sresult[s].accountID, sresult[s].processGeneration, sresult[s].revisionID)
    BY <1>4 DEF AcceptFenced, ResultInv, SubmitterInv
  <2> QED  BY <1>1, <1>4, <2>1 DEF ResultInv, ResultsAdmitted, Admitted
<1> QED  BY <1>2, <1>3, <1>4, ResultsStep

-----------------------------------------------------------------------------
(* Attribution.                                                            *)

\* A watcher enters "admit" only through Attribute: at that moment its account
\* is the only one admitted on the generation against the revision.
LEMMA AttributionAgrees ==
  ASSUME ResultInv, [Next]_vars, NEW v \in Watchers, Attribute(v), pc'[v] = "admit",
         NEW r \in gateResults, r.processGeneration = data[v].serverProcessGeneration
  PROVE  r.accountID = account'[v] /\ data'[v] = data[v]
<1>1. pc[v] = "attribute" /\ data' = data /\ ~CommitFails(v)
  BY DEF Attribute, CommitFails, ResultInv, TypeOK
<1>2. PICK a \in Accounts :
        /\ AdmittedAccounts(data[v].serverProcessGeneration, data[v].revision) = {a}
        /\ account' = [account EXCEPT ![v] = a]
  BY <1>1 DEF Attribute
<1>3. account'[v] = a
  BY <1>2 DEF ResultInv, TypeOK
<1>4. r \in AttemptResult /\ Admitted(r.accountID, r.processGeneration, r.revisionID)
  BY DEF ResultInv, TypeOK, ResultsAdmitted
<1>5. RevisionOf[data[v].serverProcessGeneration] = data[v].revision
  BY <1>2 DEF AdmittedAccounts
<1>6. r.accountID \in AdmittedAccounts(data[v].serverProcessGeneration, data[v].revision)
  BY <1>4, <1>5 DEF AdmittedAccounts, Admitted, AttemptResult
<1> QED  BY <1>1, <1>2, <1>3, <1>6

LEMMA EntersAdmission ==
  ASSUME ResultInv, [Next]_vars, NEW v \in Watchers, pc'[v] \in {"admit", "store"}
  PROVE  \/ Attribute(v) /\ pc'[v] = "admit"
         \/ /\ pc[v] \in {"admit", "store"}
            /\ UNCHANGED <<account[v], data[v]>>
<1> USE DEF ResultInv, TypeOK
<1>1. CASE ~ActionOf(v)
  BY <1>1, Locality DEF Locals
<1>2. CASE Attribute(v)
  BY <1>2 DEF Attribute, CommitFails
<1>3. CASE Admit(v)
  BY <1>3 DEF Admit, CommitFails, ingestFrame
<1>4. CASE ActionOf(v) /\ ~Attribute(v) /\ ~Admit(v)
  <2>1. ASSUME NEW c \in Credentials, NewSummarySpoolWatcher(v, c)  PROVE FALSE
    BY <2>1 DEF NewSummarySpoolWatcher
  <2>2. CASE Stop(v)
    BY <2>2 DEF Stop, pollFrame
  <2>3. CASE PollOnce(v) \/ PollReturns(v) \/ Resolve(v) \/ BeginCommit(v) \/ Rollback(v)
    BY <2>3 DEF PollOnce, PollReturns, Resolve, BeginCommit, Rollback
  <2>4. CASE PollCancelled(v) \/ refuse(v)
    BY <2>4 DEF PollCancelled, refuse
  <2>5. ASSUME NEW n \in Names, ReadEntry(v, n)  PROVE FALSE
    BY <2>5 DEF ReadEntry
  <2>6. CASE CheckArtifact(v) \/ Reserve(v)
    BY <2>6 DEF CheckArtifact, Reserve, EntryProcessed
  <2>7. CASE Store(v)
    BY <2>7 DEF Store, CommitFails, EntryProcessed
  <2> QED  BY <1>4, <2>1, <2>2, <2>3, <2>4, <2>5, <2>6, <2>7 DEF ActionOf, WatcherStep
<1> QED  BY <1>1, <1>2, <1>3, <1>4

LEMMA AttributionNext ==
  ASSUME ResultInv, [Next]_vars
  PROVE  AttributionInv'
<1>1. OneAttribution'
  <2>1. CASE gateResults' = gateResults
    BY <2>1 DEF ResultInv, AttributionInv, OneAttribution
  <2>2. ASSUME NEW w \in Watchers, Store(w), gateResults' = gateResults \cup {GateResult(w)}
        PROVE  OneAttribution'
    <3>1. \A r \in gateResults : r.processGeneration = GateResult(w).processGeneration =>
            r.accountID = GateResult(w).accountID
      BY <2>2 DEF Store, ResultInv, AttributionInv, GateResult
    <3> QED  BY <3>1, <2>2 DEF ResultInv, AttributionInv, OneAttribution
  <2> QED  BY <2>1, <2>2, ResultsStep DEF resultVars
<1>2. ASSUME NEW v \in Watchers, pc'[v] \in {"admit", "store"}, NEW r \in gateResults',
             r.processGeneration = data'[v].serverProcessGeneration
      PROVE  r.accountID = account'[v]
  <2>1. r \in gateResults
    <3>1. CASE gateResults' = gateResults
      BY <3>1
    <3>2. ASSUME NEW w \in Watchers, Store(w), gateResults' = gateResults \cup {GateResult(w)},
                 ~Exists(GateResult(w))
          PROVE  FALSE
      <4>1. pc' = [pc EXCEPT ![w] = "scan"]
        BY <3>2 DEF Store, EntryProcessed
      <4>2. pc[w] \in Committing
        BY <3>2 DEF Store, Committing
      <4>3. v # w /\ pc[v] \in Committing
        BY <4>1, <1>2 DEF ResultInv, TypeOK, Committing
      <4> QED  BY <4>2, <4>3 DEF ResultInv, LockInv
    <3> QED  BY <3>1, <3>2, ResultsStep DEF resultVars
  <2>2. CASE Attribute(v) /\ pc'[v] = "admit"
    <3>1. data'[v] = data[v]
      BY <2>2 DEF Attribute
    <3> QED  BY <2>1, <2>2, <3>1, <1>2, AttributionAgrees
  <2>3. CASE pc[v] \in {"admit", "store"} /\ UNCHANGED <<account[v], data[v]>>
    BY <2>1, <2>3, <1>2 DEF ResultInv, AttributionInv
  <2> QED  BY <1>2, <2>2, <2>3, EntersAdmission
<1> QED  BY <1>1, <1>2 DEF AttributionInv

-----------------------------------------------------------------------------
(* Reservations.                                                           *)

\* A digest is added by one reservation and removed by one rollback.
LEMMA SeenStep ==
  ASSUME [Next]_vars
  PROVE  \/ UNCHANGED seenArtifacts
         \/ \E w \in Watchers : /\ Reserve(w)
                                /\ seenArtifacts' = seenArtifacts \cup {data[w]}
                                /\ pc' = [pc EXCEPT ![w] = "commit"]
                                /\ UNCHANGED data
         \/ \E w \in Watchers : Rollback(w)
<1> USE DEF gateVars, environmentFrame, pollFrame, ingestFrame, submitterFrame
<1>1. CASE Environment
  BY <1>1 DEF Environment, DeploymentIssues, DeploymentRevokes, ConsumeJoinIntent,
              RecordAdmission, Publish
<1>2. ASSUME NEW s \in Submitters, SubmitterStep(s)  PROVE UNCHANGED seenArtifacts
  BY <1>2 DEF SubmitterStep, AuthenticateSubmitter, AcceptResult, AcceptFenced, SubmitterDone
<1>3. ASSUME NEW w \in Watchers, ActionOf(w), ~Rollback(w)
      PROVE  \/ UNCHANGED seenArtifacts
             \/ /\ Reserve(w)
                /\ seenArtifacts' = seenArtifacts \cup {data[w]}
                /\ pc' = [pc EXCEPT ![w] = "commit"]
                /\ UNCHANGED data
  <2>1. CASE Reserve(w)
    BY <2>1 DEF Reserve
  <2>2. CASE ~Reserve(w)
    BY <2>2, <1>3 DEF ActionOf, WatcherStep, NewSummarySpoolWatcher, Stop, PollOnce,
       PollCancelled, PollReturns, refuse, Resolve, CheckArtifact, BeginCommit,
       Attribute, Admit, Store, ReadEntry
  <2> QED  BY <2>1, <2>2
<1>4. CASE UNCHANGED vars
  BY <1>4 DEF vars
<1> QED  BY <1>1, <1>2, <1>3, <1>4 DEF Next, ActionOf

\* An ingest that holds a reservation keeps it until it stores its result or
\* rolls back.
LEMMA HolderStep ==
  ASSUME ResultInv, [Next]_vars, NEW v \in Watchers, pc[v] \in Reserving
  PROVE  \/ pc'[v] \in Reserving /\ data'[v] = data[v]
         \/ /\ Store(v) /\ gateResults' = gateResults \cup {GateResult(v)}
            /\ pc'[v] \notin Reserving
         \/ Rollback(v) /\ pc'[v] \notin Reserving
<1> USE DEF ResultInv, TypeOK, Reserving, Committing
<1>1. CASE ~ActionOf(v)
  BY <1>1, Locality DEF Locals
<1>2. CASE Rollback(v)
  BY <1>2 DEF Rollback
<1>3. CASE Store(v)
  <2>1. CASE Exists(GateResult(v))
    BY <2>1, <1>3 DEF Store, CommitFails
  <2>2. CASE ~Exists(GateResult(v))
    BY <2>2, <1>3 DEF Store, EntryProcessed
  <2> QED  BY <2>1, <2>2
<1>4. CASE Attribute(v) \/ Admit(v) \/ BeginCommit(v)
  BY <1>4 DEF Attribute, Admit, BeginCommit, CommitFails
<1>5. CASE ActionOf(v) /\ ~(Rollback(v) \/ Store(v) \/ Attribute(v) \/ Admit(v) \/ BeginCommit(v))
  <2>1. CASE Stop(v)
    BY <2>1 DEF Stop
  <2> QED
    BY <2>1, <1>5 DEF ActionOf, WatcherStep, NewSummarySpoolWatcher, PollOnce,
       PollCancelled, PollReturns, refuse, Resolve, CheckArtifact, Reserve, ReadEntry
<1> QED  BY <1>1, <1>2, <1>3, <1>4, <1>5

LEMMA EntersReserving ==
  ASSUME ResultInv, [Next]_vars, NEW v \in Watchers, pc[v] \notin Reserving, pc'[v] \in Reserving
  PROVE  /\ data[v] \notin seenArtifacts
         /\ seenArtifacts' = seenArtifacts \cup {data[v]}
         /\ pc' = [pc EXCEPT ![v] = "commit"]
         /\ UNCHANGED data
<1> USE DEF ResultInv, TypeOK, Reserving, Committing
<1>1. CASE ~ActionOf(v)
  BY <1>1, Locality DEF Locals
<1>2. CASE Reserve(v)
  BY <1>2 DEF Reserve, EntryProcessed
<1>3. CASE ActionOf(v) /\ ~Reserve(v)
  <2>1. ASSUME NEW c \in Credentials, NewSummarySpoolWatcher(v, c)  PROVE FALSE
    BY <2>1 DEF NewSummarySpoolWatcher
  <2>2. CASE Stop(v) \/ PollOnce(v) \/ PollReturns(v) \/ Resolve(v)
    BY <2>2 DEF Stop, PollOnce, PollReturns, Resolve, pollFrame
  <2>3. CASE PollCancelled(v) \/ refuse(v)
    BY <2>3 DEF PollCancelled, refuse
  <2>4. ASSUME NEW n \in Names, ReadEntry(v, n)  PROVE FALSE
    BY <2>4 DEF ReadEntry
  <2>5. CASE CheckArtifact(v)
    BY <2>5 DEF CheckArtifact, EntryProcessed
  <2>6. CASE BeginCommit(v) \/ Attribute(v) \/ Admit(v) \/ Store(v) \/ Rollback(v)
    BY <2>6 DEF BeginCommit, Attribute, Admit, Store, Rollback
  <2> QED  BY <1>3, <2>1, <2>2, <2>3, <2>4, <2>5, <2>6 DEF ActionOf, WatcherStep
<1> QED  BY <1>1, <1>2, <1>3

LEMMA ReservationsNext ==
  ASSUME ResultInv, [Next]_vars
  PROVE  ReservationsOwned'
<1>0. /\ ReservationsOwned
      /\ pc \in [Watchers -> WatcherPC] /\ data \in [Watchers -> Artifacts \cup {NoFile}]
  BY DEF ResultInv, TypeOK
<1>1. gateResults \subseteq gateResults'
  BY ResultsStep DEF resultVars
<1>2. ASSUME NEW w \in Watchers, Rollback(w)
      PROVE  seenArtifacts' = seenArtifacts \ {data[w]} /\ pc'[w] \notin Reserving /\ pc[w] \in Reserving
  BY <1>0, <1>2 DEF Rollback, Reserving, Committing
<1>3. ASSUME NEW d \in seenArtifacts'
      PROVE  \/ \E w \in Watchers : pc'[w] \in Reserving /\ data'[w] = d
             \/ \E r \in gateResults' : ResultOf(d, r)
  <2>1. CASE d \notin seenArtifacts
    <3>1. PICK w \in Watchers : pc' = [pc EXCEPT ![w] = "commit"] /\ data' = data /\ d = data[w]
      BY <2>1, <1>2, SeenStep
    <3> QED  BY <3>1, <1>0 DEF Reserving
  <2>2. ASSUME NEW r \in gateResults, ResultOf(d, r)
        PROVE  \E q \in gateResults' : ResultOf(d, q)
    BY <2>2, <1>1
  <2>3. ASSUME NEW w \in Watchers, pc[w] \in Reserving, data[w] = d
        PROVE  \/ pc'[w] \in Reserving /\ data'[w] = d
               \/ \E r \in gateResults' : ResultOf(d, r)
    <3>1. CASE Store(w) /\ gateResults' = gateResults \cup {GateResult(w)}
      <4>1. ResultOf(data[w], GateResult(w))
        BY DEF GateResult, ResultOf
      <4> QED  BY <2>3, <3>1, <4>1
    <3>2. ~Rollback(w)
      BY <2>3, <1>2
    <3> QED  BY <2>3, <3>1, <3>2, HolderStep
  <2> QED  BY <1>0, <2>1, <2>2, <2>3 DEF ReservationsOwned
<1>4. ASSUME NEW w \in Watchers, pc'[w] \in Reserving
      PROVE  data'[w] \in seenArtifacts'
  <2>1. CASE pc[w] \notin Reserving
    BY <2>1, <1>4, EntersReserving
  <2>2. CASE pc[w] \in Reserving
    <3>1. data'[w] = data[w] /\ data[w] \in seenArtifacts
      BY <2>2, <1>0, <1>4, HolderStep DEF ReservationsOwned
    <3>2. ASSUME NEW v \in Watchers, Rollback(v)  PROVE data[v] # data[w]
      BY <3>2, <2>2, <1>0, <1>2, <1>4 DEF ReservationsOwned
    <3> QED  BY <3>1, <3>2, <1>2, SeenStep
  <2> QED  BY <2>1, <2>2
<1>5. ASSUME NEW w \in Watchers, NEW v \in Watchers, pc'[w] \in Reserving, pc'[v] \in Reserving,
             data'[v] = data'[w]
      PROVE  v = w
  <2>1. CASE pc[w] \in Reserving /\ pc[v] \in Reserving
    BY <2>1, <1>0, <1>5, HolderStep DEF ReservationsOwned
  <2>2. CASE pc[w] \notin Reserving
    BY <2>2, <1>0, <1>5, EntersReserving DEF ReservationsOwned
  <2>3. CASE pc[v] \notin Reserving
    BY <2>3, <1>0, <1>5, EntersReserving DEF ReservationsOwned
  <2> QED  BY <2>1, <2>2, <2>3
<1> QED  BY <1>3, <1>4, <1>5 DEF ReservationsOwned

-----------------------------------------------------------------------------
LEMMA ResultInit == Init => ResultInv
<1> SUFFICES ASSUME Init PROVE ResultInv
  OBVIOUS
<1> USE ResultPathAssumption DEF Init, Reserving, Committing
<1>1. LeaseInv /\ LeaseTypeOK
  BY InitEstablishesInv DEF LeaseInv
<1>2. TypeOK
  BY <1>1 DEF TypeOK, WatcherPC
<1>3. LockInv /\ WatcherInv /\ SubmitterInv
  BY DEF LockInv, WatcherInv, WatcherOK, SubmitterInv
<1>4. ResultsAdmitted /\ AttributionInv /\ ReservationsOwned
  BY DEF ResultsAdmitted, AttributionInv, OneAttribution, ReservationsOwned
<1> QED  BY <1>1, <1>2, <1>3, <1>4 DEF ResultInv

LEMMA ResultStep == ResultInv /\ [Next]_vars => ResultInv'
<1> SUFFICES ASSUME ResultInv, [Next]_vars PROVE ResultInv'
  OBVIOUS
<1>1. LeaseInv'
  BY StepIsLeaseStep, NextPreservesInv DEF ResultInv
<1>2. TypeOK'
  BY <1>1, TypeNext DEF LeaseInv
<1> QED
  BY <1>1, <1>2, LockNext, WatcherNext, SubmitterNext, ResultsNext, AttributionNext,
     ReservationsNext DEF ResultInv

\* The inductive invariant holds in every behaviour of the result path.
THEOREM ResultInvariant == Spec => []ResultInv
BY ResultInit, ResultStep, PTL DEF Spec

\* Every variable of the result path keeps its type.
THEOREM ResultTypeCorrect == Spec => []TypeOK
<1>1. ResultInv => TypeOK
  BY DEF ResultInv
<1> QED  BY <1>1, ResultInvariant, PTL

\* A digest is recorded exactly while one ingest owns it or its result is
\* stored: duplicates are refused and a refused artifact leaves no trace.
THEOREM ReservationsAreOwned == Spec => []ReservationsOwned
<1>1. ResultInv => ReservationsOwned
  BY DEF ResultInv
<1> QED  BY <1>1, ResultInvariant, PTL

\* The summaries of one server process are all attributed to one account.
THEOREM AttributionUnique == Spec => []OneAttribution
<1>1. ResultInv => OneAttribution
  BY DEF ResultInv, AttributionInv
<1> QED  BY <1>1, ResultInvariant, PTL

\* The result path implements the lease authority: its commits are commits
\* under a lease that is live at that moment.
THEOREM LeaseImplemented == Spec => ImplementsLease
<1>1. Init => LeaseInit
  BY DEF Init
<1>2. ResultInv /\ [Next]_vars => [LeaseNext]_leaseVars
  BY StepIsLeaseStep
<1> QED  BY <1>1, <1>2, ResultInvariant, PTL DEF Spec, ImplementsLease, LeaseSpec

-----------------------------------------------------------------------------
(* The advance of a poll.                                                  *)

Advances(w) ==
  \/ Call(w)' = Call(w)
  \/ pc'[w] = "idle"
  \/ entries'[w] \subseteq entries[w] /\ entries'[w] # entries[w]
  \/ entries'[w] = entries[w] /\ Left[pc'[w]] < Left[pc[w]]

LEMMA OwnStepAdvances ==
  ASSUME TypeOK, NEW w \in Watchers, ActionOf(w), pc[w] \in DOMAIN Left
  PROVE  Advances(w)
<1> USE DEF Advances, Left, TypeOK
<1>1. ASSUME NEW c \in Credentials, NewSummarySpoolWatcher(w, c)  PROVE Advances(w)
  BY <1>1 DEF NewSummarySpoolWatcher
<1>2. CASE Stop(w) \/ PollOnce(w)
  BY <1>2 DEF Stop, PollOnce
<1>3. CASE PollCancelled(w) \/ PollReturns(w) \/ refuse(w)
  BY <1>3 DEF PollCancelled, PollReturns, refuse
<1>4. ASSUME NEW n \in Names, ReadEntry(w, n)  PROVE Advances(w)
  <2>1. n \in entries[w] /\ entries'[w] = entries[w] \ {n}
    BY <1>4 DEF ReadEntry
  <2> QED  BY <2>1
<1>5. CASE Resolve(w)
  BY <1>5 DEF Resolve
<1>6. CASE CheckArtifact(w)
  BY <1>6 DEF CheckArtifact, EntryProcessed
<1>7. CASE Reserve(w)
  BY <1>7 DEF Reserve, EntryProcessed, ingestFrame
<1>8. CASE BeginCommit(w)
  BY <1>8 DEF BeginCommit, ingestFrame
<1>9. CASE Attribute(w)
  BY <1>9 DEF Attribute, CommitFails, ingestFrame
<1>10. CASE Admit(w)
  BY <1>10 DEF Admit, CommitFails, ingestFrame
<1>11. CASE Store(w)
  BY <1>11 DEF Store, CommitFails, EntryProcessed, ingestFrame
<1>12. CASE Rollback(w)
  BY <1>12 DEF Rollback, ingestFrame
<1> QED
  BY <1>1, <1>2, <1>3, <1>4, <1>5, <1>6, <1>7, <1>8, <1>9, <1>10, <1>11, <1>12
     DEF ActionOf, WatcherStep

\* A poll never makes a step twice for one entry: every step of it returns, is
\* done with an entry, or takes the ingest of its entry nearer to its end.
THEOREM PollsAdvance == Spec => PollAdvances
<1>1. ASSUME ResultInv, [Next]_vars, NEW w \in Watchers, pc[w] \in DOMAIN Left
      PROVE  Advances(w)
  <2>1. CASE ActionOf(w)
    BY <1>1, <2>1, OwnStepAdvances DEF ResultInv
  <2>2. CASE ~ActionOf(w)
    BY <1>1, <2>2, Locality DEF Advances, Call, Locals
  <2> QED  BY <2>1, <2>2
<1>2. ResultInv /\ [Next]_vars =>
        \A w \in Watchers : pc[w] \in DOMAIN Left => Advances(w)
  BY <1>1
<1> QED  BY <1>2, ResultInvariant, PTL DEF Spec, PollAdvances, Advances

-----------------------------------------------------------------------------
(* Refinement of the ledger.                                               *)

LEMMA LedgerInitial == Init => Ledger!LedgerInit
BY DEF Init, LeaseInit, NewServerLeaseAuthority, Ledger!LedgerInit, LiveGenerations

\* What a lease step does to the set of live generations.
LEMMA LiveStep ==
  ASSUME LeaseInv, [LeaseNext]_leaseVars
  PROVE  \/ LiveGenerations' = LiveGenerations
         \/ \E g \in Generations : /\ \/ LiveGenerations' = LiveGenerations \cup {g}
                                      \/ LiveGenerations' = LiveGenerations \ {g}
                                   /\ UNCHANGED commits
<1> USE DEF LiveGenerations
<1>1. ASSUME NEW p \in ParticipantIDs, NEW g \in Generations, NEW c \in Credentials,
             IssueLease(p, g, c)
      PROVE  LiveGenerations' = LiveGenerations \cup {g}
  <2>1. /\ DOMAIN active' = DOMAIN active \cup {g}
        /\ active'[g] = c /\ ~credentials'[c].revoked
        /\ \A h \in DOMAIN active : h # g => active'[h] = active[h]
        /\ \A d \in DOMAIN credentials : credentials'[d] = credentials[d]
    BY <1>1 DEF IssueLease, newLeaseCredential
  <2>2. \A h \in DOMAIN active : active[h] \in DOMAIN credentials
    BY DEF LeaseInv, ActivePointsToIssued
  <2> QED  BY <2>1, <2>2
<1>2. ASSUME NEW g \in Generations, Revoke(g)
      PROVE  LiveGenerations' = LiveGenerations \ {g}
  <2>1. CASE g \notin DOMAIN active
    BY <1>2, <2>1 DEF Revoke
  <2>2. CASE g \in DOMAIN active
    <3>1. credentials' = [credentials EXCEPT ![active[g]].revoked = TRUE] /\ active' = active
      BY <1>2, <2>2 DEF Revoke
    <3>2. \A h \in DOMAIN active : /\ active[h] \in DOMAIN credentials
                                   /\ h # g => active[h] # active[g]
      BY <2>2 DEF LeaseInv, ActivePointsToIssued
    <3>3. credentials[active[g]] \in serverLeaseRecord
      BY <2>2, <3>2 DEF LeaseInv, LeaseTypeOK
    <3>4. credentials'[active[g]].revoked
      BY <2>2, <3>1, <3>2, <3>3 DEF serverLeaseRecord
    <3>5. \A h \in DOMAIN active : h # g => credentials'[active[h]] = credentials[active[h]]
      BY <3>1, <3>2
    <3> QED  BY <3>1, <3>4, <3>5, <2>2
  <2> QED  BY <2>1, <2>2
<1>3. CASE UNCHANGED <<credentials, active>>
  BY <1>3
<1> QED
  BY <1>1, <1>2, <1>3 DEF LeaseNext, CommitLease, CommitCredential, leaseVars

\* Each step changes at most one of the three things the ledger keeps.
LEMMA OneChange ==
  ASSUME ResultInv, [Next]_vars
  PROVE  \/ UNCHANGED <<results, admissions>>
         \/ /\ UNCHANGED <<results, credentials, active>>
            /\ \E a \in Accounts, g \in Generations : admissions' = admissions \cup {<<a, g>>}
         \/ UNCHANGED <<admissions, credentials, active>>
<1> USE DEF resultVars, admissionVars, leaseVars, environmentFrame, pollFrame, ingestFrame,
        submitterFrame
<1>1. CASE Environment
  <2>1. ASSUME NEW a \in Accounts, NEW g \in Generations, RecordAdmission(a, g)
        PROVE  /\ UNCHANGED <<results, credentials, active>>
               /\ admissions' = admissions \cup {<<a, g>>}
    BY <2>1 DEF RecordAdmission
  <2> QED
    BY <1>1, <2>1 DEF Environment, DeploymentIssues, DeploymentRevokes, ConsumeJoinIntent, Publish
<1>2. ASSUME NEW s \in Submitters, SubmitterStep(s)
      PROVE  UNCHANGED <<admissions, credentials, active>>
  BY <1>2 DEF SubmitterStep, AuthenticateSubmitter, AcceptResult, AcceptFenced, SubmitterDone
<1>3. ASSUME NEW w \in Watchers, ActionOf(w)
      PROVE  UNCHANGED <<admissions, credentials, active>>
  BY <1>3 DEF ActionOf, WatcherStep, NewSummarySpoolWatcher, Stop, PollOnce,
     PollCancelled, PollReturns, refuse, Resolve, CheckArtifact, Reserve, BeginCommit,
     Attribute, Admit, Store, Rollback, ReadEntry
<1>4. CASE UNCHANGED vars
  BY <1>4 DEF vars
<1> QED  BY <1>1, <1>2, <1>3, <1>4 DEF Next, ActionOf

\* A result that enters the store is one the ledger may accept.
LEMMA StoreAccepts ==
  ASSUME ResultInv, [Next]_vars, UNCHANGED <<admissions, credentials, active>>,
         results' # results
  PROVE  \E r \in AttemptResult : Ledger!Accept(r)
<1> USE DEF Ledger!Accept, Ledger!SameAttempt, Exists, LiveGenerations, Admitted, LeaseValid
<1>1. ASSUME NEW w \in Watchers, Store(w), ~Exists(GateResult(w)),
             results' = results \cup {GateResult(w)}
      PROVE  \E r \in AttemptResult : Ledger!Accept(r)
  <2>1. /\ pc[w] = "store"
        /\ CredentialValid(credential[w], credentials[credential[w]].generation)
        /\ WatcherOK(w)
    BY <1>1 DEF Store, ResultInv, LockInv, WatcherInv, Committing
  <2>2. /\ data[w] \in Artifact /\ account[w] \in Accounts
        /\ data[w].serverProcessGeneration = credentials[credential[w]].generation
        /\ Admitted(account[w], data[w].serverProcessGeneration, data[w].revision)
    BY <2>1, ResultPathAssumption DEF WatcherOK, Bound, Reserving, Committing
  <2>3. GateResult(w) \in AttemptResult
    BY <2>2 DEF GateResult, AttemptResult, Artifact
  <2>4. data[w].serverProcessGeneration \in LiveGenerations
    BY <2>1, <2>2 DEF CredentialValid, ResultInv, LeaseInv, ActiveIsNewest
  <2>5. Ledger!Accept(GateResult(w))
    BY <1>1, <2>2, <2>4 DEF GateResult
  <2> QED  BY <2>3, <2>5
<1>2. ASSUME NEW s \in Submitters, AcceptFenced(s), LeaseValid(sgen[s]), ~Exists(sresult[s]),
             results' = results \cup {sresult[s]}
      PROVE  \E r \in AttemptResult : Ledger!Accept(r)
  <2>1. /\ sresult[s] \in AttemptResult
        /\ sresult[s].processGeneration = sgen[s]
        /\ Admitted(sresult[s].accountID, sgen[s], sresult[s].revisionID)
    BY <1>2 DEF AcceptFenced, ResultInv, SubmitterInv
  <2> QED  BY <1>2, <2>1
<1> QED  BY <1>1, <1>2, ResultsStep DEF resultVars

LEMMA LedgerStep == ResultInv /\ [Next]_vars => [Ledger!LedgerNext]_(Ledger!ledgerVars)
<1> SUFFICES ASSUME ResultInv, [Next]_vars
             PROVE  [Ledger!LedgerNext]_(Ledger!ledgerVars)
  OBVIOUS
<1> USE DEF Ledger!LedgerNext, Ledger!ledgerVars
<1>1. CASE UNCHANGED <<results, admissions>>
  <2>1. \/ LiveGenerations' = LiveGenerations
        \/ \E g \in Generations : \/ LiveGenerations' = LiveGenerations \cup {g}
                                  \/ LiveGenerations' = LiveGenerations \ {g}
    BY StepIsLeaseStep, LiveStep DEF ResultInv
  <2> QED  BY <1>1, <2>1 DEF Ledger!Open, Ledger!Close
<1>2. CASE UNCHANGED <<credentials, active>>
  <2>1. LiveGenerations' = LiveGenerations
    BY <1>2 DEF LiveGenerations
  <2>2. CASE /\ UNCHANGED results
             /\ \E a \in Accounts, g \in Generations : admissions' = admissions \cup {<<a, g>>}
    BY <2>1, <2>2 DEF Ledger!AdmitAccount
  <2>3. CASE UNCHANGED admissions /\ results' # results
    BY <1>2, <2>3, StoreAccepts
  <2> QED  BY <1>1, <2>2, <2>3, OneChange
<1> QED  BY <1>1, <1>2, OneChange

\* The result path implements the ledger: a result enters once per attempt,
\* under a live lease and an admission, and stands for ever.
THEOREM LedgerImplemented == Spec => ImplementsLedger
BY LedgerInitial, LedgerStep, ResultInvariant, PTL DEF Spec, ImplementsLedger, Ledger!LedgerSpec
=============================================================================
