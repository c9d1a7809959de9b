CONSTANTS
  ParticipantIDs <- MCParticipantIDs
  Generations <- MCGenerations
  Credentials = {c1, c2}
  Accounts = {alice}
  Names <- WellNamedNames
  TakeoverTicks <- WellNamedTicks
  Artifacts <- LiveArtifacts
  Publications <- LivePublications
  NoFile = NoFile
  Watchers = {w1, w2}
  WatcherGeneration <- MCWatcherGeneration
  NoCredential = NoCredential
  Submitters = {s1}
  Revisions <- MCRevisions
  RevisionOf <- MCRevisionOf
  NoAccount = NoAccount
  NoResult = NoResult
  Free = Free
SPECIFICATION FairSpec
PROPERTIES ImplementsLedger PollTerminates PollAdvances
