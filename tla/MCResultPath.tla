---------------------------- MODULE MCResultPath ----------------------------
(* Instances of ResultPath: one server process generation whose spool two  *)
(* watchers poll, for example an old watcher and its replacement after the *)
(* lease was re-issued.                                                    *)
EXTENDS ResultPath, TLC

MCGenerations == {1}
MCParticipantIDs == {"server"}
MCNames == {1, 2}
MCRevisions == {"rev"}
MCTicks == {1, 2}
MCWatcherGeneration == [w \in Watchers |-> 1]
MCRevisionOf == [g \in Generations |-> "rev"]

Summary(attempt, tick) ==
  [kind |-> "valid", revision |-> "rev", serverProcessGeneration |-> 1,
   attemptGeneration |-> attempt, takeoverTick |-> tick]

\* Two conflicting summaries of attempt 1, and the first one under the name of
\* attempt 2 too.
MCArtifacts == {Summary(1, 1), Summary(1, 2)}
MCPublications == {<<1, Summary(1, 1)>>, <<1, Summary(1, 2)>>, <<2, Summary(1, 1)>>}

\* The writer truncates a summary or writes one beyond the size limit.
Oversize == [Summary(1, 1) EXCEPT !.kind = "oversize"]
LiveArtifacts == {Summary(1, 1), Oversize}
LivePublications == {<<1, a>> : a \in LiveArtifacts}

\* What a well-behaved writer publishes.
WellNamedNames == {1}
WellNamedArtifacts == {Summary(1, 1)}
WellNamedPublications == {<<1, Summary(1, 1)>>}
WellNamedTicks == {1}

\* Tokens, accounts and watchers are interchangeable.
Symmetry ==
  Permutations(Credentials) \cup Permutations(Accounts) \cup Permutations(Watchers)
=============================================================================
