---------------------------- MODULE ResultLedger ----------------------------
(***************************************************************************)
(* What the result path promises, without watchers, digests, credentials   *)
(* or locks: a ledger of private attempt results.  A result enters while   *)
(* the lease of its server process generation is live, for an account that *)
(* was admitted on that generation, against the revision the process was   *)
(* allocated for, once per attempt; and what entered stands for ever.      *)
(***************************************************************************)
CONSTANTS Accounts, Generations, AttemptResults, RevisionOf

VARIABLES
  ledger,     \* the accepted results
  live,       \* the generations whose lease is live
  admitted    \* the admitted <<account, generation>> pairs

ledgerVars == <<ledger, live, admitted>>

SameAttempt(r, s) ==
  /\ r.accountID = s.accountID
  /\ r.processGeneration = s.processGeneration
  /\ r.attemptGeneration = s.attemptGeneration

LedgerInit == ledger = {} /\ live = {} /\ admitted = {}

Open(g) == live' = live \cup {g} /\ UNCHANGED <<ledger, admitted>>

Close(g) == live' = live \ {g} /\ UNCHANGED <<ledger, admitted>>

AdmitAccount(a, g) == admitted' = admitted \cup {<<a, g>>} /\ UNCHANGED <<ledger, live>>

Accept(r) ==
  /\ r.processGeneration \in live
  /\ <<r.accountID, r.processGeneration>> \in admitted
  /\ r.revisionID = RevisionOf[r.processGeneration]
  /\ \A s \in ledger : ~SameAttempt(r, s)
  /\ ledger' = ledger \cup {r}
  /\ UNCHANGED <<live, admitted>>

LedgerNext ==
  \/ \E g \in Generations : Open(g) \/ Close(g)
  \/ \E a \in Accounts, g \in Generations : AdmitAccount(a, g)
  \/ \E r \in AttemptResults : Accept(r)

LedgerSpec == LedgerInit /\ [][LedgerNext]_ledgerVars
=============================================================================
