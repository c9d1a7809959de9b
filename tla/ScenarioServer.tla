--------------------------- MODULE ScenarioServer ---------------------------
(***************************************************************************)
(* How a preparation gets its server: runPreparer of                       *)
(* orchestrator/scenario.go between a preparation, of which it needs what  *)
(* ScenarioLifecycle promises, and the worker's allocator, in the detail   *)
(* of WorkerAllocator.  Every preparation has one goroutine, and that is   *)
(* the caller of Allocate: Callers are the preparations.                   *)
(*                                                                         *)
(* The provider and a canceller move the preparation, the deployment shuts *)
(* processes down and recovers retained ones, all while the goroutines of  *)
(* other preparations allocate.                                            *)
(***************************************************************************)
EXTENDS WorkerAllocator

VARIABLES
  phase, outcome,   \* of each preparation: what its lifecycle record says
  server,           \* Orchestrator.processes and allocFailures
  handle            \* the generation of the recorded AllocatedProcess, or 0

prepVars == <<phase, outcome, server, handle>>
scenarioVars == <<vars, prepVars>>

Phases == {"none", "queued", "running", "ready", "failed", "cancelled"}
Outcomes == {"none", "revision", "reason"}

L(p) == INSTANCE ScenarioLifecycle
          WITH phase <- phase[p], outcome <- outcome[p], server <- server[p]

ScenarioTypeOK ==
  /\ TypeOK
  /\ phase \in [Callers -> Phases] /\ outcome \in [Callers -> Outcomes]
  /\ server \in [Callers -> {"none", "process", "failure"}]
  /\ handle \in [Callers -> Generations \cup {0}]

ScenarioInit ==
  /\ Init
  /\ phase = [p \in Callers |-> "none"] /\ outcome = [p \in Callers |-> "none"]
  /\ server = [p \in Callers |-> "none"] /\ handle = [p \in Callers |-> 0]

\* The preparation is accepted, runs or ends, as module Preparation does it.
PreparationMoves(p) ==
  /\ \E f \in Phases, o \in Outcomes :
       phase' = [phase EXCEPT ![p] = f] /\ outcome' = [outcome EXCEPT ![p] = o]
  /\ UNCHANGED <<vars, server, handle>>
  /\ L(p)!Queue \/ L(p)!Run \/ L(p)!Finish

-----------------------------------------------------------------------------
(* The goroutine of a preparation, after it was driven to its end.         *)

\* Looks only whether the preparation ended.
AllocateAfterAnyEnd(p) ==
  /\ L(p)!Ended /\ server[p] = "none" /\ pc[p] = "idle"
  /\ Reserve(p)
  /\ UNCHANGED prepVars

\* Failed and cancelled preparations get no server.
AllocateForReady(p) ==
  /\ phase[p] = "ready" /\ server[p] = "none" /\ pc[p] = "idle"
  /\ Reserve(p)
  /\ UNCHANGED prepVars

\* The orchestrator's context has ended: Allocate refuses before it starts
\* anything.
AllocateRefused(p) ==
  /\ phase[p] = "ready" /\ server[p] = "none" /\ pc[p] = "idle"
  /\ server' = [server EXCEPT ![p] = "failure"]
  /\ UNCHANGED <<vars, phase, outcome, handle>>

\* Takes a cleanup error, which names a generation, for a process.
RecordWhateverIsNamed(p) ==
  /\ server[p] = "none" /\ pc[p] \in {"ready", "error", "cleanupError"}
  /\ IF pc[p] = "error"
     THEN server' = [server EXCEPT ![p] = "failure"] /\ UNCHANGED handle
     ELSE server' = [server EXCEPT ![p] = "process"] /\ handle' = [handle EXCEPT ![p] = gen[p]]
  /\ UNCHANGED <<vars, phase, outcome>>

\* Records a success only.
RecordSuccess(p) ==
  /\ server[p] = "none" /\ pc[p] = "ready"
  /\ server' = [server EXCEPT ![p] = "process"] /\ handle' = [handle EXCEPT ![p] = gen[p]]
  /\ UNCHANGED <<vars, phase, outcome>>

\* The lock section that records what Allocate returned.
RecordAllocation(p) ==
  /\ server[p] = "none" /\ pc[p] \in {"ready", "error", "cleanupError"}
  /\ IF pc[p] = "ready"
     THEN server' = [server EXCEPT ![p] = "process"] /\ handle' = [handle EXCEPT ![p] = gen[p]]
     ELSE server' = [server EXCEPT ![p] = "failure"] /\ UNCHANGED handle
  /\ UNCHANGED <<vars, phase, outcome>>

Serving(p) ==
  AllocateForReady(p) \/ AllocateRefused(p) \/ RecordAllocation(p)
    \/ (AllocateStep(p) /\ UNCHANGED prepVars)

\* The processes, their shutdown and their recovery.
Deployment ==
  \/ \E g \in Generations :
       ProcessProvesReady(g) \/ ProcessEnds(g) \/ ShutdownStops(g) \/ ShutdownReaps(g)
  \/ \E r \in Recoverers :
       RecoverLock(r) \/ RecoverStep(r) \/ \E g \in Generations : RecoverBegin(r, g)

ScenarioNext ==
  \/ \E p \in Callers : PreparationMoves(p) \/ Serving(p)
  \/ Deployment /\ UNCHANGED prepVars

ScenarioSpec == ScenarioInit /\ [][ScenarioNext]_scenarioVars

\* A goroutine that can run does, both the readiness wait and the stop are
\* bounded by a timer, a Go mutex starves no waiter, and a process that was
\* asked to stop ends.  Nothing makes a recovery begin, since no code does.
ScenarioFairness ==
  /\ \A p \in Callers : WF_scenarioVars(Serving(p))
  /\ \A r \in Recoverers :
       /\ WF_scenarioVars(RecoverStep(r) /\ UNCHANGED prepVars)
       /\ SF_scenarioVars(RecoverLock(r) /\ UNCHANGED prepVars)
  /\ \A g \in Generations : WF_scenarioVars(process[g].asked /\ ProcessEnds(g) /\ UNCHANGED prepVars)

FairScenarioSpec == ScenarioSpec /\ ScenarioFairness

-----------------------------------------------------------------------------
\* No two preparations ever have the same server process, also when processes
\* were reaped and their ports freed in between: results, intents and
\* admissions are told apart by the generation alone (admission.go:28-32).
ServersDistinct ==
  \A p, q \in Callers : handle[p] # 0 /\ handle[p] = handle[q] => p = q

\* Every process that runs, and every reservation, belongs to a preparation
\* that is ready: its allocation is still going on or about to be recorded,
\* its status names it, or its allocation failed and Recover finds it.  A
\* preparation that failed or was cancelled holds nothing.
ProcessesAccounted ==
  \A g \in Generations : g \in Registered \/ Live(g) =>
    \E p \in Callers :
      /\ phase[p] = "ready" /\ gen[p] = g
      /\ \/ server[p] = "none" /\ pc[p] # "idle"
         \/ server[p] = "process" /\ handle[p] = g /\ g \in allocated
         \/ server[p] = "failure" /\ g \in retained

\* What a preparation's status says of its server is true: a process was
\* proven ready for it, and a failure left no process but one that is retained
\* for recovery.
StatusTruth ==
  \A p \in Callers :
    /\ server[p] = "process" <=> handle[p] # 0
    /\ handle[p] # 0 => handle[p] = gen[p] /\ process[gen[p]].fact
    /\ server[p] = "failure" /\ gen[p] # 0 =>
         gen[p] \in retained \/ (gen[p] \notin Registered /\ ~Live(gen[p]))

\* Every preparation still is a behaviour of its lifecycle: with the allocator
\* in place of its outcome, one server is decided once, after it is ready.
ServesLifecycle ==
  [][\A p \in Callers : L(p)!LifecycleNext \/ UNCHANGED L(p)!lifecycleVars]_scenarioVars

\* The allocator does return: every ready preparation has its server decided.
ServerDecided == \A p \in Callers : phase[p] = "ready" ~> server[p] # "none"
=============================================================================
