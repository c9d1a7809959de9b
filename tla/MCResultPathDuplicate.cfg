CONSTANTS
  ParticipantIDs <- MCParticipantIDs
  Generations <- MCGenerations
  Credentials = {c1, c2}
  Accounts = {alice, bob}
  Names <- WellNamedNames
  TakeoverTicks <- WellNamedTicks
  Artifacts <- WellNamedArtifacts
  Publications <- WellNamedPublications
  NoFile = NoFile
  Watchers = {w1, w2}
  WatcherGeneration <- MCWatcherGeneration
  NoCredential = NoCredential
  Submitters = {}
  Revisions <- MCRevisions
  RevisionOf <- MCRevisionOf
  NoAccount = NoAccount
  NoResult = NoResult
  Free = Free
SPECIFICATION Spec
INVARIANT DuplicateWasIngested
