CONSTANTS
  ParticipantIDs <- MCParticipantIDs
  Generations <- MCGenerations
  Credentials = {c1, c2}
  Accounts = {alice, bob}
  Names <- MCNames
  TakeoverTicks <- MCTicks
  Artifacts <- MCArtifacts
  Publications <- MCPublications
  NoFile = NoFile
  Watchers = {w1, w2}
  WatcherGeneration <- MCWatcherGeneration
  NoCredential = NoCredential
  Submitters = {}
  Revisions <- MCRevisions
  RevisionOf <- MCRevisionOf
  NoAccount = NoAccount
  NoResult = NoResult
  Free = Free
SPECIFICATION Spec
SYMMETRY Symmetry
INVARIANTS ReservationsOwned OneAttribution ActiveIsNewest
PROPERTIES ImplementsLease ImplementsLedger NeverAuthenticatesAgain
