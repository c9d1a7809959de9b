CONSTANTS
  p1 = p1
  p2 = p2
  alice = alice
  bob = bob
  carol = carol
  Calls = {k1, k2}
  Preps <- MCPreps
  Accounts <- MCAccounts
  Owner <- MCOwner
  GenerationOf <- MCGenerationOf
  RevisionOf <- MCRevisionOf
  SteamOf <- MCSteamOf
  NoSteam = "none"
  Capacity = 1
  MaxInvites = 1
  MaxIntents = 1
  Free = Free
  Attempts = {1}
SPECIFICATION AttemptSpec
SYMMETRY Symmetry
INVARIANTS LobbyConsistent AdmissionsIssued ResultsEarned
PROPERTIES MeetsRoster AdmitsAsAssumed KeepsLedger
CHECK_DEADLOCK FALSE
