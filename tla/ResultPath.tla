----------------------------- MODULE ResultPath -----------------------------
(***************************************************************************)
(* How a terminal summary in a spool directory becomes a private result:   *)
(* the spool watchers (server/summary-spool-watcher.go), the ingestion     *)
(* gate (server/summary-ingestion.go), its composition with the            *)
(* orchestrator (app/composition.go), admission and acceptance             *)
(* (orchestrator/admission.go, join.go, scenario.go) and the result store  *)
(* (core/result.go), over the lease authority of module ServerLease.       *)
(*                                                                         *)
(* A step of a watcher runs from one lock acquisition to the next, so every*)
(* interleaving of watchers, direct submitters, lease changes and          *)
(* admissions is a behaviour.  The commit closure of the gate holds the    *)
(* lease lock over three steps (attribution, admission, store), between    *)
(* which only operations that do not need that lock can run.               *)
(***************************************************************************)
EXTENDS ServerLease

CONSTANTS
  Accounts,            \* accounts that hold a join intent
  Names,               \* canonical artifact names: the generation they spell
  TakeoverTicks,       \* stands for the payload a summary carries
  Artifacts,           \* spool payloads; an artifact is its own digest
  Publications,        \* the (name, artifact) pairs the game server may write
  NoFile,              \* no file under a name
  Watchers,            \* spool watchers
  WatcherGeneration,   \* the ProcessSpec generation each watcher owns
  NoCredential,        \* of a watcher that was not constructed yet
  Submitters,          \* callers of AcceptResult
  Revisions,
  RevisionOf,          \* the one revision each process was allocated for
  NoAccount, NoResult,
  Free                 \* the lease lock when nobody holds it

Artifact ==
  [kind : {"valid", "malformed", "oversize"},
   revision : Revisions, serverProcessGeneration : Generations,
   attemptGeneration : Names, takeoverTick : TakeoverTicks]

AttemptResult ==
  [accountID : Accounts, revisionID : Revisions,
   processGeneration : Generations, attemptGeneration : Names,
   takeoverTick : TakeoverTicks]

ASSUME ResultPathAssumption ==
  /\ Names \subseteq Nat
  /\ Artifacts \subseteq Artifact
  /\ Publications \subseteq Names \X Artifacts
  /\ NoFile \notin Artifacts
  /\ WatcherGeneration \in [Watchers -> Generations]
  /\ RevisionOf \in [Generations -> Revisions]
  /\ NoAccount \notin Accounts
  /\ NoResult \notin AttemptResult
  /\ NoCredential \notin Credentials
  /\ Free \notin Watchers

VARIABLES
  leaseLock,           \* ServerLeaseAuthority.mtx over a gate commit
  seenArtifacts,       \* SummaryIngestionGate.seenArtifacts
  consumed,            \* <<account, generation>>: join intents marked used
  admissions,          \* <<account, generation>>: Orchestrator.admissions
  results,             \* ResultStore.results
  gateResults,         \* history: those of results the gate stored
  spool,               \* generation -> name -> artifact
  pc, credential, stopped, terminal, processed, entries, name, data, account,
  spc, sgen, sresult   \* direct submitters

gateVars == <<leaseLock, seenArtifacts>>
admissionVars == <<consumed, admissions>>
resultVars == <<results, gateResults>>
watcherVars == <<pc, credential, stopped, terminal, processed, entries, name, data, account>>
submitterVars == <<spc, sgen, sresult>>
\* What no step of the environment, of a poll, of an ingest or of a direct
\* submitter touches.
environmentFrame == <<commits, gateVars, resultVars, watcherVars, submitterVars>>
pollFrame == <<leaseVars, gateVars, admissionVars, resultVars, submitterVars, credential, account>>
ingestFrame == <<credentials, active, admissionVars, spool, submitterVars,
                 credential, stopped, terminal, entries>>
submitterFrame == <<credentials, active, gateVars, admissionVars, gateResults, spool, watcherVars>>

vars == <<leaseVars, gateVars, admissionVars, resultVars, spool, watcherVars, submitterVars>>

\* Where a watcher holds the lease lock, and where its digest is reserved.
Committing == {"attribute", "admit", "store"}
Reserving == Committing \cup {"commit", "rollback"}
WatcherPC == {"new", "idle", "scan", "resolve", "check", "reserve", "refuse"} \cup Reserving

NoName == 0

TypeOK ==
  /\ LeaseTypeOK
  /\ leaseLock \in Watchers \cup {Free}
  /\ seenArtifacts \subseteq Artifacts
  /\ consumed \subseteq Accounts \X Generations
  /\ admissions \subseteq consumed
  /\ results \subseteq AttemptResult
  /\ gateResults \subseteq results
  /\ spool \in [Generations -> [Names -> Artifacts \cup {NoFile}]]
  /\ pc \in [Watchers -> WatcherPC]
  /\ credential \in [Watchers -> Credentials \cup {NoCredential}]
  /\ stopped \in [Watchers -> BOOLEAN]
  /\ terminal \in [Watchers -> BOOLEAN]
  /\ processed \in [Watchers -> SUBSET Names]
  /\ entries \in [Watchers -> SUBSET Names]
  /\ name \in [Watchers -> Names \cup {NoName}]
  /\ data \in [Watchers -> Artifacts \cup {NoFile}]
  /\ account \in [Watchers -> Accounts \cup {NoAccount}]
  /\ spc \in [Submitters -> {"idle", "authenticated", "fence"}]
  /\ sgen \in [Submitters -> Generations \cup {0}]
  /\ sresult \in [Submitters -> AttemptResult \cup {NoResult}]

Init ==
  /\ LeaseInit
  /\ leaseLock = Free
  /\ seenArtifacts = {}
  /\ consumed = {} /\ admissions = {}
  /\ results = {} /\ gateResults = {}
  /\ spool = [g \in Generations |-> [n \in Names |-> NoFile]]
  /\ pc = [w \in Watchers |-> "new"]
  /\ credential = [w \in Watchers |-> NoCredential]
  /\ stopped = [w \in Watchers |-> FALSE]
  /\ terminal = [w \in Watchers |-> FALSE]
  /\ processed = [w \in Watchers |-> {}]
  /\ entries = [w \in Watchers |-> {}]
  /\ name = [w \in Watchers |-> NoName]
  /\ data = [w \in Watchers |-> NoFile]
  /\ account = [w \in Watchers |-> NoAccount]
  /\ spc = [s \in Submitters |-> "idle"]
  /\ sgen = [s \in Submitters |-> 0]
  /\ sresult = [s \in Submitters |-> NoResult]

-----------------------------------------------------------------------------
(* The deployment: it issues leases, revokes them at the terminal state of *)
(* a process, and admits accounts.  The game server publishes files.       *)

DeploymentIssues(p, g, c) ==
  /\ leaseLock = Free
  /\ IssueLease(p, g, c)
  /\ UNCHANGED <<environmentFrame, admissionVars, spool>>

RevokeIgnoringLock(g) ==
  /\ Revoke(g)
  /\ UNCHANGED <<environmentFrame, admissionVars, spool>>

DeploymentRevokes(g) ==
  /\ leaseLock = Free
  /\ Revoke(g)
  /\ UNCHANGED <<environmentFrame, admissionVars, spool>>

\* ConsumeJoinIntent marks the intent used under the intent's own lock ...
ConsumeJoinIntent(a, g) ==
  /\ g # 0
  /\ <<a, g>> \notin consumed
  /\ consumed' = consumed \cup {<<a, g>>}
  /\ UNCHANGED <<environmentFrame, credentials, active, admissions, spool>>

\* ... and records the admission later, under the orchestrator's.
RecordAdmission(a, g) ==
  /\ <<a, g>> \in consumed \ admissions
  /\ admissions' = admissions \cup {<<a, g>>}
  /\ UNCHANGED <<environmentFrame, credentials, active, consumed, spool>>

\* Publication is an atomic rename: it replaces whatever the name held.
Publish(g, n, a) ==
  /\ g # 0
  /\ <<n, a>> \in Publications
  /\ spool' = [spool EXCEPT ![g][n] = a]
  /\ UNCHANGED <<environmentFrame, credentials, active, admissionVars>>

-----------------------------------------------------------------------------
(* The spool watcher.  w.mu is held from PollOnce to the return to "idle". *)

NewSummarySpoolWatcher(w, c) ==
  /\ pc[w] = "new"
  /\ WatcherGeneration[w] # 0
  /\ c \in DOMAIN credentials
  /\ pc' = [pc EXCEPT ![w] = "idle"]
  /\ credential' = [credential EXCEPT ![w] = c]
  /\ UNCHANGED <<leaseVars, gateVars, admissionVars, resultVars, spool, submitterVars,
                 stopped, terminal, processed, entries, name, data, account>>

Stop(w) ==
  /\ pc[w] = "idle"
  /\ stopped' = [stopped EXCEPT ![w] = TRUE]
  /\ UNCHANGED <<pollFrame, spool, pc, terminal, processed, entries, name, data>>

Unprocessed(w) ==
  {n \in Names : spool[WatcherGeneration[w]][n] # NoFile} \ processed[w]

\* A poll that finds nothing new changes nothing.
PollOnce(w) ==
  /\ pc[w] = "idle" /\ ~stopped[w] /\ ~terminal[w]
  /\ Unprocessed(w) # {}
  /\ entries' = [entries EXCEPT ![w] = Unprocessed(w)]
  /\ pc' = [pc EXCEPT ![w] = "scan"]
  /\ UNCHANGED <<pollFrame, spool, stopped, terminal, processed, name, data>>

\* A cancelled context, found at a check between two entries or after the
\* read of one, stops the watcher.
PollCancelled(w) ==
  /\ pc[w] \in {"scan", "resolve"}
  /\ pc[w] = "scan" => entries[w] # {}
  /\ stopped' = [stopped EXCEPT ![w] = TRUE]
  /\ pc' = [pc EXCEPT ![w] = "idle"]
  /\ entries' = [entries EXCEPT ![w] = {}]
  /\ name' = [name EXCEPT ![w] = NoName]
  /\ data' = [data EXCEPT ![w] = NoFile]
  /\ UNCHANGED <<pollFrame, spool, terminal, processed>>

PollReturns(w) ==
  /\ pc[w] = "scan" /\ entries[w] = {}
  /\ pc' = [pc EXCEPT ![w] = "idle"]
  /\ UNCHANGED <<pollFrame, spool, stopped, terminal, processed, entries, name, data>>

\* ReadDir sorts the entries, so they are read in the order of their names.
\* The path may have been emptied since; any other failed read, an oversize
\* file included, is refused.
ReadEntry(w, n) ==
  LET file == spool[WatcherGeneration[w]][n] IN
  /\ pc[w] = "scan" /\ n \in entries[w] /\ \A m \in entries[w] : n <= m
  /\ entries' = [entries EXCEPT ![w] = @ \ {n}]
  /\ \/ /\ file = NoFile
        /\ UNCHANGED <<pc, name, data>>
     \/ /\ file # NoFile
        /\ file.kind # "oversize"
        /\ pc' = [pc EXCEPT ![w] = "resolve"]
        /\ name' = [name EXCEPT ![w] = n]
        /\ data' = [data EXCEPT ![w] = file]
     \/ /\ file # NoFile
        /\ pc' = [pc EXCEPT ![w] = "refuse"]
        /\ name' = [name EXCEPT ![w] = n]
        /\ UNCHANGED data
  /\ UNCHANGED <<pollFrame, spool, stopped, terminal, processed>>

\* An entry that was accepted, or is a duplicate, is never looked at again.
EntryProcessed(w) ==
  /\ processed' = [processed EXCEPT ![w] = @ \cup {name[w]}]
  /\ pc' = [pc EXCEPT ![w] = "scan"]
  /\ name' = [name EXCEPT ![w] = NoName]
  /\ data' = [data EXCEPT ![w] = NoFile]

QuarantineSpool(w) == [spool EXCEPT ![WatcherGeneration[w]][name[w]] = NoFile]

\* A refusal ends the watcher and moves whatever the name holds by now to the
\* quarantine; the rename may fail and leave it.
refuse(w) ==
  /\ pc[w] = "refuse"
  /\ terminal' = [terminal EXCEPT ![w] = TRUE]
  /\ spool' \in {spool, QuarantineSpool(w)}
  /\ pc' = [pc EXCEPT ![w] = "idle"]
  /\ entries' = [entries EXCEPT ![w] = {}]
  /\ name' = [name EXCEPT ![w] = NoName]
  /\ data' = [data EXCEPT ![w] = NoFile]
  /\ UNCHANGED <<pollFrame, stopped, processed>>

-----------------------------------------------------------------------------
(* SummaryIngestionGate.Ingest, run by a watcher inside its poll.          *)

\* 1. authenticate the credential.
Resolve(w) ==
  /\ pc[w] = "resolve"
  /\ leaseLock = Free
  /\ pc' = [pc EXCEPT ![w] = IF Authenticates(credential[w]) THEN "check" ELSE "refuse"]
  /\ UNCHANGED <<pollFrame, spool, stopped, terminal, processed, entries, name, data>>

\* 4-6. the summary decodes, the name spells its attempt generation, and its
\* process generation is the watcher's and the authenticated participant's.
Bound(w) ==
  /\ data[w].kind = "valid"
  /\ name[w] = data[w].attemptGeneration
  /\ data[w].serverProcessGeneration = WatcherGeneration[w]
  /\ data[w].serverProcessGeneration = credentials[credential[w]].generation

\* 3-6. a digest already seen is a duplicate whatever its name.
CheckArtifact(w) ==
  /\ pc[w] = "check"
  /\ \/ /\ data[w] \in seenArtifacts
        /\ EntryProcessed(w)
     \/ /\ data[w] \notin seenArtifacts
        /\ pc' = [pc EXCEPT ![w] = IF Bound(w) THEN "reserve" ELSE "refuse"]
        /\ UNCHANGED <<processed, name, data>>
  /\ UNCHANGED <<pollFrame, spool, stopped, terminal, entries>>

ReserveBlindly(w) ==
  /\ pc[w] = "reserve"
  /\ seenArtifacts' = seenArtifacts \cup {data[w]}
  /\ pc' = [pc EXCEPT ![w] = "commit"]
  /\ UNCHANGED <<ingestFrame, resultVars, commits, leaseLock, processed, name, data, account>>

\* 7. reserve the digest, unless another ingest did since step 3.
Reserve(w) ==
  /\ pc[w] = "reserve"
  /\ \/ /\ data[w] \in seenArtifacts
        /\ EntryProcessed(w)
        /\ UNCHANGED seenArtifacts
     \/ /\ data[w] \notin seenArtifacts
        /\ seenArtifacts' = seenArtifacts \cup {data[w]}
        /\ pc' = [pc EXCEPT ![w] = "commit"]
        /\ UNCHANGED <<processed, name, data>>
  /\ UNCHANGED <<ingestFrame, resultVars, commits, leaseLock, account>>

\* 8. enter the lease transaction if the exact credential is still the lease.
BeginCommit(w) ==
  /\ pc[w] = "commit"
  /\ leaseLock = Free
  /\ LET valid == CredentialValid(credential[w], credentials[credential[w]].generation) IN
     /\ leaseLock' = IF valid THEN w ELSE Free
     /\ pc' = [pc EXCEPT ![w] = IF valid THEN "attribute" ELSE "rollback"]
  /\ UNCHANGED <<ingestFrame, resultVars, commits, seenArtifacts, processed, name, data, account>>

CommitFailsHoldingLock(w) ==
  /\ pc' = [pc EXCEPT ![w] = "rollback"]
  /\ account' = [account EXCEPT ![w] = NoAccount]
  /\ UNCHANGED leaseLock

\* A commit closure that fails releases the lease lock.
CommitFails(w) ==
  /\ leaseLock' = Free
  /\ pc' = [pc EXCEPT ![w] = "rollback"]
  /\ account' = [account EXCEPT ![w] = NoAccount]

\* The accounts AdmittedAccountFor counts as matches.
AdmittedAccounts(g, revision) ==
  {a \in Accounts : <<a, g>> \in admissions /\ RevisionOf[g] = revision}

AttributeToAny(w) ==
  LET matches == AdmittedAccounts(data[w].serverProcessGeneration, data[w].revision) IN
  /\ pc[w] = "attribute"
  /\ \/ /\ matches # {}
        /\ \E a \in matches : account' = [account EXCEPT ![w] = a]
        /\ pc' = [pc EXCEPT ![w] = "admit"]
        /\ UNCHANGED leaseLock
     \/ /\ matches = {}
        /\ CommitFails(w)
  /\ UNCHANGED <<ingestFrame, resultVars, commits, seenArtifacts, processed, name, data>>

\* AdmittedAccountFor: the summary names no account, so exactly one account
\* must have been admitted on its generation against its revision.
Attribute(w) ==
  LET matches == AdmittedAccounts(data[w].serverProcessGeneration, data[w].revision) IN
  /\ pc[w] = "attribute"
  /\ \/ /\ \E a \in Accounts : matches = {a} /\ account' = [account EXCEPT ![w] = a]
        /\ pc' = [pc EXCEPT ![w] = "admit"]
        /\ UNCHANGED leaseLock
     \/ /\ \A a \in Accounts : matches # {a}
        /\ CommitFails(w)
  /\ UNCHANGED <<ingestFrame, resultVars, commits, seenArtifacts, processed, name, data>>

\* acceptResult: the account must be admitted on the participant's generation
\* against the result's revision.
Admitted(a, g, revision) == <<a, g>> \in admissions /\ RevisionOf[g] = revision

\* AcceptResultAfterLease, up to the store operation.
Admit(w) ==
  /\ pc[w] = "admit"
  /\ \/ /\ Admitted(account[w], data[w].serverProcessGeneration, data[w].revision)
        /\ pc' = [pc EXCEPT ![w] = "store"]
        /\ UNCHANGED <<leaseLock, account>>
     \/ /\ ~Admitted(account[w], data[w].serverProcessGeneration, data[w].revision)
        /\ CommitFails(w)
  /\ UNCHANGED <<ingestFrame, resultVars, commits, seenArtifacts, processed, name, data>>

GateResult(w) ==
  [accountID |-> account[w], revisionID |-> data[w].revision,
   processGeneration |-> data[w].serverProcessGeneration,
   attemptGeneration |-> data[w].attemptGeneration,
   takeoverTick |-> data[w].takeoverTick]

ExistsIdentical(r) == r \in results

\* ResultStore.Accept refuses a second result under the same key.
Exists(r) ==
  \E s \in results : /\ s.accountID = r.accountID
                     /\ s.processGeneration = r.processGeneration
                     /\ s.attemptGeneration = r.attemptGeneration

Store(w) ==
  /\ pc[w] = "store"
  /\ \/ /\ ~Exists(GateResult(w))
        /\ results' = results \cup {GateResult(w)}
        /\ gateResults' = gateResults \cup {GateResult(w)}
        /\ Commits(credential[w])
        /\ leaseLock' = Free
        /\ account' = [account EXCEPT ![w] = NoAccount]
        /\ EntryProcessed(w)
     \/ /\ Exists(GateResult(w))
        /\ CommitFails(w)
        /\ UNCHANGED <<commits, resultVars, processed, name, data>>
  /\ UNCHANGED <<ingestFrame, seenArtifacts>>

\* An acceptance that failed is tried again.
RollbackRetrying(w) ==
  /\ pc[w] = "rollback"
  /\ seenArtifacts' = seenArtifacts \ {data[w]}
  /\ pc' = [pc EXCEPT ![w] = "reserve"]
  /\ UNCHANGED <<ingestFrame, resultVars, commits, leaseLock, processed, name, data, account>>

\* A failed acceptance gives the digest back.
Rollback(w) ==
  /\ pc[w] = "rollback"
  /\ seenArtifacts' = seenArtifacts \ {data[w]}
  /\ pc' = [pc EXCEPT ![w] = "refuse"]
  /\ UNCHANGED <<ingestFrame, resultVars, commits, leaseLock, processed, name, data, account>>

-----------------------------------------------------------------------------
(* Orchestrator.AcceptResult, called with a participant that was           *)
(* authenticated earlier and a result that names its account.              *)

AuthenticateSubmitter(s, c) ==
  /\ spc[s] # "fence"
  /\ leaseLock = Free
  /\ Authenticates(c)
  /\ spc' = [spc EXCEPT ![s] = "authenticated"]
  /\ sgen' = [sgen EXCEPT ![s] = credentials[c].generation]
  /\ UNCHANGED <<submitterFrame, commits, results, sresult>>

\* A result of another generation, account or revision is refused untouched.
AcceptResult(s, r) ==
  /\ spc[s] = "authenticated"
  /\ r.processGeneration = sgen[s]
  /\ Admitted(r.accountID, sgen[s], r.revisionID)
  /\ spc' = [spc EXCEPT ![s] = "fence"]
  /\ sresult' = [sresult EXCEPT ![s] = r]
  /\ UNCHANGED <<submitterFrame, commits, results, sgen>>

SubmitterDone(s) ==
  /\ spc' = [spc EXCEPT ![s] = "authenticated"]
  /\ sresult' = [sresult EXCEPT ![s] = NoResult]
  /\ UNCHANGED <<submitterFrame, sgen>>

\* Checks no lease when it stores, as if the credential's check were enough.
AcceptUnfenced(s) ==
  /\ spc[s] = "fence"
  /\ leaseLock = Free
  /\ IF Exists(sresult[s])
     THEN UNCHANGED <<results, commits>>
     ELSE results' = results \cup {sresult[s]} /\ Commits(active[sgen[s]])
  /\ SubmitterDone(s)

\* CommitLease runs the store operation under the generation's live lease.
AcceptFenced(s) ==
  /\ spc[s] = "fence"
  /\ leaseLock = Free
  /\ \/ /\ LeaseValid(sgen[s]) /\ ~Exists(sresult[s])
        /\ results' = results \cup {sresult[s]}
        /\ Commits(active[sgen[s]])
     \/ /\ ~LeaseValid(sgen[s]) \/ Exists(sresult[s])
        /\ UNCHANGED <<results, commits>>
  /\ SubmitterDone(s)

-----------------------------------------------------------------------------
WatcherStep(w) ==
  \/ \E n \in Names : ReadEntry(w, n)
  \/ PollReturns(w) \/ refuse(w)
  \/ Resolve(w) \/ CheckArtifact(w) \/ Reserve(w) \/ BeginCommit(w)
  \/ Attribute(w) \/ Admit(w) \/ Store(w) \/ Rollback(w)

SubmitterStep(s) ==
  \/ \E c \in Credentials : AuthenticateSubmitter(s, c)
  \/ \E r \in AttemptResult : AcceptResult(s, r)
  \/ AcceptFenced(s)

Environment ==
  \/ \E p \in ParticipantIDs, g \in Generations, c \in Credentials : DeploymentIssues(p, g, c)
  \/ \E g \in Generations : DeploymentRevokes(g)
  \/ \E a \in Accounts, g \in Generations : ConsumeJoinIntent(a, g) \/ RecordAdmission(a, g)
  \/ \E g \in Generations, n \in Names, a \in Artifacts : Publish(g, n, a)

Next ==
  \/ Environment
  \/ \E w \in Watchers :
       \/ \E c \in Credentials : NewSummarySpoolWatcher(w, c)
       \/ Stop(w) \/ PollOnce(w) \/ PollCancelled(w)
       \/ WatcherStep(w)
  \/ \E s \in Submitters : SubmitterStep(s)

Spec == Init /\ [][Next]_vars

\* A poll that started runs to its return: it is an ordinary call whose locks
\* are all released by their holders.
Fairness == \A w \in Watchers : WF_vars(WatcherStep(w))

FairSpec == Spec /\ Fairness

-----------------------------------------------------------------------------
ResultOf(d, r) ==
  /\ r.processGeneration = d.serverProcessGeneration
  /\ r.attemptGeneration = d.attemptGeneration
  /\ r.revisionID = d.revision
  /\ r.takeoverTick = d.takeoverTick

\* The digest set and the ingests in flight agree: a digest is in
\* seenArtifacts exactly because its result is stored or because one ingest,
\* and only one, is between its reservation and its commit or rollback.  A
\* rollback can therefore never give back a digest that another ingest holds
\* or whose result is stored, and a refused artifact is never left recorded.
ReservationsOwned ==
  /\ \A d \in seenArtifacts :
       \/ \E w \in Watchers : pc[w] \in Reserving /\ data[w] = d
       \/ \E r \in gateResults : ResultOf(d, r)
  /\ \A w \in Watchers : pc[w] \in Reserving =>
       /\ data[w] \in seenArtifacts
       /\ \A v \in Watchers : pc[v] \in Reserving /\ data[v] = data[w] => v = w

\* The summaries of one server process generation are never attributed to two
\* accounts, however admissions, commits and lease changes interleave: the
\* attribution, the admission check and the store are three separate lock
\* acquisitions of the orchestrator and the store.
OneAttribution ==
  \A r, s \in gateResults :
    r.processGeneration = s.processGeneration => r.accountID = s.accountID

\* The split commit implements the atomic CommitLease and CommitCredential of
\* the lease authority: at the moment a result is stored, the credential that
\* was checked when the transaction began is still the live lease.
ImplementsLease == LeaseSpec

\* The result path implements the ledger: every result enters under a live
\* lease, for an admitted account, once per attempt, and stands.
LiveGenerations == {g \in DOMAIN active : ~credentials[active[g]].revoked}

Ledger == INSTANCE ResultLedger WITH
            AttemptResults <- AttemptResult, ledger <- results,
            live <- LiveGenerations, admitted <- admissions

ImplementsLedger == Ledger!LedgerSpec

\* No step of a poll can be made twice for one entry, whatever others do: it
\* returns, it is done with an entry, or its ingest of an entry is nearer to its
\* end.  What a poll may take is bounded by the entries it found, and only
\* waiting for a lock can keep it longer (PollTerminates).
Left == [scan |-> 0, refuse |-> 1, rollback |-> 2, store |-> 3, admit |-> 4, attribute |-> 5,
         commit |-> 6, reserve |-> 7, check |-> 8, resolve |-> 9]

Call(w) == <<pc[w], entries[w], name[w], data[w], account[w]>>

PollAdvances ==
  [][\A w \in Watchers : pc[w] \in DOMAIN Left =>
       \/ Call(w)' = Call(w)
       \/ pc'[w] = "idle"
       \/ entries'[w] \subseteq entries[w] /\ entries'[w] # entries[w]
       \/ entries'[w] = entries[w] /\ Left[pc'[w]] < Left[pc[w]]
    ]_vars

\* A poll always returns: watchers, the gate, the lease transaction and the
\* orchestrator never wait for one another in a cycle, and no file makes a
\* poll loop.
PollTerminates == \A w \in Watchers : pc[w] # "idle" /\ pc[w] # "new" ~> pc[w] = "idle"

\* terminal-summary.go:39 "ErrSummaryDuplicate is returned when the same
\* artifact identity was already ingested": a watcher with a live credential
\* that is done with an entry has its result stored, or about to be.
DuplicateWasIngested ==
  \A w \in Watchers : \A n \in processed[w] : Authenticates(credential[w]) =>
    \/ \E r \in results : /\ r.processGeneration = WatcherGeneration[w]
                          /\ r.attemptGeneration = n
    \/ \E v \in Watchers : pc[v] \in Reserving /\ name[v] = n
=============================================================================
