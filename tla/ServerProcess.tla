--------------------------- MODULE ServerProcess ---------------------------
(***************************************************************************)
(* What the supervision contract promises of one launched server process   *)
(* (server/process.go, process-state.go, process-stop.go and               *)
(* process-readiness.go), and what the worker's allocator relies on.       *)
(* "starting" stands for the Launching and Running states.                 *)
(***************************************************************************)
VARIABLES
  state,    \* "starting", "ready", "crashed" or "stopped"
  fact,     \* the readiness fact is recorded
  asked     \* a caller asked for a stop

processVars == <<state, fact, asked>>

Ended == state \in {"crashed", "stopped"}

ProcessInit == state = "starting" /\ fact = FALSE /\ asked = FALSE

ProveReady ==
  /\ state = "starting"
  /\ state' = "ready" /\ fact' = TRUE
  /\ UNCHANGED asked

Ask ==
  /\ ~Ended
  /\ asked' = TRUE
  /\ UNCHANGED <<state, fact>>

\* A process may crash at any time, a requested teardown included; it is
\* reported as stopped only when a stop was asked for.
End ==
  /\ ~Ended
  /\ state' \in IF asked THEN {"crashed", "stopped"} ELSE {"crashed"}
  /\ UNCHANGED <<fact, asked>>

ProcessNext == ProveReady \/ Ask \/ End

ProcessSpec == ProcessInit /\ [][ProcessNext]_processVars

\* Readiness is decided one way or the other, and a process that was asked to
\* stop does end.
ProcessFairness ==
  /\ WF_processVars(ProveReady \/ (~fact /\ End))
  /\ WF_processVars(asked /\ End)

FairProcessSpec == ProcessSpec /\ ProcessFairness
=============================================================================
