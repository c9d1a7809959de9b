----------------------------- MODULE AttemptPath -----------------------------
(***************************************************************************)
(* From an invitation to a private result: the join path in the detail of  *)
(* module JoinPath, and the acceptance of results (orchestrator/scenario.go*)
(* and core/result.go), of which module ResultPath showed that a lease     *)
(* transaction, an admission check and a store operation act as one step   *)
(* of ResultLedger.  The admissions the join path records are the ones     *)
(* acceptance looks up.                                                    *)
(***************************************************************************)
EXTENDS JoinPath

CONSTANT Attempts   \* the attempt generations a server reports

VARIABLES
  results,   \* ResultStore.results
  live       \* the generations whose lease is live

resultVars == <<results, live>>
attemptVars == <<vars, resultVars>>

AttemptResult ==
  [accountID : Accounts, revisionID : Revisions,
   processGeneration : Generations, attemptGeneration : Attempts]

AttemptTypeOK == TypeOK /\ results \subseteq AttemptResult /\ live \subseteq Generations

AttemptInit == Init /\ results = {} /\ live = {}

LeaseOpens(g) == live' = live \cup {g} /\ UNCHANGED <<vars, results>>
LeaseCloses(g) == live' = live \ {g} /\ UNCHANGED <<vars, results>>

Exists(r) ==
  \E s \in results : /\ s.accountID = r.accountID
                     /\ s.processGeneration = r.processGeneration
                     /\ s.attemptGeneration = r.attemptGeneration

\* Whoever was admitted on a process of the revision.
AdmittedForRevision(r) ==
  \E m \in admissions : m.account = r.accountID /\ m.revision = r.revisionID

\* The admission is looked up by account and generation, and its revision is
\* compared with the result's.
AdmittedFor(r) ==
  [account |-> r.accountID, revision |-> r.revisionID,
   generation |-> r.processGeneration] \in admissions

AcceptResult(r) ==
  /\ r.processGeneration \in live
  /\ AdmittedFor(r)
  /\ ~Exists(r)
  /\ results' = results \cup {r}
  /\ UNCHANGED <<vars, live>>

AttemptNext ==
  \/ Next /\ UNCHANGED resultVars
  \/ \E g \in Generations : LeaseOpens(g) \/ LeaseCloses(g)
  \/ \E r \in AttemptResult : AcceptResult(r)

AttemptSpec == AttemptInit /\ [][AttemptNext]_attemptVars

-----------------------------------------------------------------------------
\* The owner of a preparation, or someone who used up an invitation that the
\* owner made for that account and that preparation.
Entitled(p, a) ==
  Owner[p] = a
    \/ \E i \in 1 .. inviteSeq : invites[i] = [prep |-> p, account |-> a, state |-> "used"]

\* Every private result was earned: its account was entitled to one
\* preparation and held a slot there, an intent of it was used up on the
\* process of that preparation under the Steam identity of the account itself,
\* and the result names that preparation's revision.
ResultsEarned ==
  \A r \in results : \E p \in Preps, i \in 1 .. intentSeq :
    /\ r.processGeneration = GenerationOf[p] /\ r.revisionID = RevisionOf[p]
    /\ Entitled(p, r.accountID) /\ <<p, r.accountID>> \in seated
    /\ intents[i].used /\ intents[i].account = r.accountID
    /\ intents[i].generation = GenerationOf[p] /\ intents[i].steam = SteamOf[r.accountID]

\* What module ResultPath takes for granted of admissions is what the join path
\* does: an intent is used up first, at most one account at a time is recorded,
\* only after its intent was used up, with the revision of its process, and no
\* admission is ever taken back.
Consumed ==
  {<<intents[i].account, intents[i].generation>> : i \in {j \in 1 .. intentSeq : intents[j].used}}

AdmittedOn == {<<m.account, m.generation>> : m \in admissions}

AdmitsAsAssumed ==
  [][\/ AdmittedOn' = AdmittedOn /\ Consumed' = Consumed
     \/ AdmittedOn' = AdmittedOn /\ \E a \in Accounts, g \in Generations :
          <<a, g>> \notin Consumed /\ Consumed' = Consumed \cup {<<a, g>>}
     \/ Consumed' = Consumed /\ \E m \in admissions' :
          /\ <<m.account, m.generation>> \in Consumed \ AdmittedOn
          /\ admissions' = admissions \cup {m}
          /\ \E p \in Preps : m.generation = GenerationOf[p] /\ m.revision = RevisionOf[p]
    ]_attemptVars

\* Over the admissions of the join path, the results are the ledger.
PrepOf(g) == CHOOSE p \in Preps : GenerationOf[p] = g

Ledger == INSTANCE ResultLedger
  WITH AttemptResults <- AttemptResult, ledger <- results, admitted <- AdmittedOn,
       RevisionOf <- [g \in Generations |-> RevisionOf[PrepOf(g)]]

KeepsLedger == Ledger!LedgerSpec
=============================================================================
