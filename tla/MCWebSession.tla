---------------------------- MODULE MCWebSession ----------------------------
(* An instance of WebSession.  Identifiers, tokens and accounts are only   *)
(* compared with each other, so each set is symmetric, as are requests.    *)
EXTENDS WebSession, TLC

MCSymmetry == Permutations(Requests) \cup Permutations(Ids)
                \cup Permutations(Tokens) \cup Permutations(Accounts)
=============================================================================
