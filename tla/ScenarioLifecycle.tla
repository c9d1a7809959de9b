------------------------- MODULE ScenarioLifecycle -------------------------
(***************************************************************************)
(* What one scenario preparation promises its owner, without grants,       *)
(* stores, compilers or goroutines: it is accepted, it may start running,  *)
(* it ends once and for ever in one of three ways, with a revision exactly *)
(* when it is ready and a reason exactly when it failed, and a server is   *)
(* decided (a process or a typed failure) only after it is ready.  Every   *)
(* accepted preparation ends, and every ready one has its server decided.  *)
(***************************************************************************)
VARIABLES
  phase,    \* "none" before acceptance, then the lifecycle state
  outcome,  \* what the end carries: "none", "revision" or "reason"
  server    \* "none", "process" or "failure"

lifecycleVars == <<phase, outcome, server>>

TerminalPhases == {"ready", "failed", "cancelled"}
Ended == phase \in TerminalPhases

LifecycleInit == phase = "none" /\ outcome = "none" /\ server = "none"

Queue == phase = "none" /\ phase' = "queued" /\ UNCHANGED <<outcome, server>>

Run == phase = "queued" /\ phase' = "running" /\ UNCHANGED <<outcome, server>>

\* Only a running preparation becomes ready; a queued one may still fail or
\* be cancelled.
EndAs(p, o) ==
  /\ phase \in {"queued", "running"}
  /\ p = "ready" => phase = "running"
  /\ phase' = p /\ outcome' = o
  /\ UNCHANGED server

Finish == EndAs("ready", "revision") \/ EndAs("failed", "reason") \/ EndAs("cancelled", "none")

Serve ==
  /\ phase = "ready" /\ server = "none"
  /\ server' \in {"process", "failure"}
  /\ UNCHANGED <<phase, outcome>>

LifecycleNext == Queue \/ Run \/ Finish \/ Serve

\* What its owner may wait for.
Promised ==
  /\ phase # "none" ~> Ended
  /\ phase = "ready" ~> server # "none"

LifecycleSpec == LifecycleInit /\ [][LifecycleNext]_lifecycleVars /\ Promised
=============================================================================
