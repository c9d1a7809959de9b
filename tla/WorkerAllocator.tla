-------------------------- MODULE WorkerAllocator --------------------------
(***************************************************************************)
(* The worker's process allocation: Allocator of worker/allocator.go over  *)
(* Supervisor of server/supervisor.go.  Concurrent callers of Allocate     *)
(* reserve an isolated generation, launch it, wait for its readiness and   *)
(* tear it down when it is not proven; a teardown that fails retains the   *)
(* handle, and callers of Recover retry it.  The processes behave as       *)
(* ServerProcess promises, which HostProcess is shown to implement.        *)
(*                                                                         *)
(* A generation names its spool directory and its process handle.  Every   *)
(* section under Supervisor.mtx or Allocator.mtx is one step.  Callers and *)
(* recoverers call again after a return.  A call that returns at once and  *)
(* changes nothing is no step: Allocate under a context that has ended,    *)
(* and Recover of a generation that is not retained.                       *)
(***************************************************************************)
EXTENDS Naturals

CONSTANTS
  Callers,       \* callers of Allocate
  Recoverers,    \* callers of Recover, RecoverAll and Close
  BasePort,      \* the first port of the range
  MaxPort,       \* 65535 in the code
  Free           \* recoverMtx is not held

ASSUME ActorsAssumption == Callers \cap Recoverers = {} /\ Free \notin Recoverers

ASSUME PortsAssumption ==
  BasePort \in Nat \ {0} /\ MaxPort \in Nat /\ BasePort <= MaxPort

VARIABLES
  nextGeneration, processes, usedPorts, usedSpools,   \* Supervisor
  retained, recoverMtx,                               \* Allocator
  process,      \* the launched processes, as ServerProcess describes them
  allocated,    \* generations returned by Allocate, not yet shut down
  pc, gen       \* of the callers and recoverers

supervisorVars == <<nextGeneration, processes, usedPorts, usedSpools>>
vars == <<supervisorVars, retained, recoverMtx, process, allocated, pc, gen>>

Actors == Callers \cup Recoverers

Port(g) == BasePort + g - 1

Generations == 1 .. (MaxPort - BasePort + 1)

TerminalStates == {"crashed", "stopped"}
Terminal(g) == process[g].state \in TerminalStates
Live(g) == process[g].state \in {"starting", "ready"}

Process == [state : {"none", "starting", "ready"} \cup TerminalStates,
            fact : BOOLEAN, asked : BOOLEAN]

Registered == {g \in Generations : processes[g] # "absent"}

TearingDown == {"check", "stop", "reap", "reclaimed", "failed"}
Allocating == {"launch", "register", "wait"} \cup TearingDown
Returned == {"idle", "ready", "error", "cleanupError"}

TypeOK ==
  /\ nextGeneration \in 1 .. (MaxPort - BasePort + 2)
  /\ processes \in [Generations -> {"absent", "nil", "handle"}]
  /\ usedPorts \subseteq BasePort .. MaxPort
  /\ usedSpools \subseteq Generations
  /\ retained \subseteq Generations /\ allocated \subseteq Generations
  /\ recoverMtx \in Recoverers \cup {Free}
  /\ process \in [Generations -> Process]
  /\ pc \in [Actors -> Allocating \cup {"lock"} \cup Returned]
  /\ gen \in [Actors -> Generations \cup {0}]

Init ==
  /\ nextGeneration = 1
  /\ processes = [g \in Generations |-> "absent"]
  /\ usedPorts = {} /\ usedSpools = {}
  /\ retained = {} /\ allocated = {} /\ recoverMtx = Free
  /\ process = [g \in Generations |-> [state |-> "none", fact |-> FALSE, asked |-> FALSE]]
  /\ pc = [a \in Actors |-> "idle"]
  /\ gen = [a \in Actors |-> 0]

To(a, next) == pc' = [pc EXCEPT ![a] = next]

-----------------------------------------------------------------------------
(* The processes.                                                          *)

ProcessProvesReady(g) ==
  /\ process[g].state = "starting"
  /\ process' = [process EXCEPT ![g].state = "ready", ![g].fact = TRUE]
  /\ UNCHANGED <<supervisorVars, retained, recoverMtx, allocated, pc, gen>>

ProcessEnds(g) ==
  /\ Live(g)
  /\ \/ process' = [process EXCEPT ![g].state = "crashed"]
     \/ process[g].asked /\ process' = [process EXCEPT ![g].state = "stopped"]
  /\ UNCHANGED <<supervisorVars, retained, recoverMtx, allocated, pc, gen>>

-----------------------------------------------------------------------------
(* Supervisor.                                                             *)

PortExhausted(g) == Port(g) > MaxPort

InUse(g) == Port(g) \in usedPorts \/ g \in usedSpools

\* A generation is handed out again once its port and spool are free.
ReserveAgain(c) ==
  LET g == nextGeneration IN
  /\ pc[c] \in Returned
  /\ ~PortExhausted(g) /\ ~InUse(g)
  /\ processes' = [processes EXCEPT ![g] = "nil"]
  /\ usedPorts' = usedPorts \cup {Port(g)}
  /\ usedSpools' = usedSpools \cup {g}
  /\ To(c, "launch") /\ gen' = [gen EXCEPT ![c] = g]
  /\ UNCHANGED <<nextGeneration, retained, recoverMtx, process, allocated>>

\* allocateSpecLocked.  An exhausted range consumes no generation; a port or
\* a spool in use does.
Reserve(c) ==
  LET g == nextGeneration IN
  /\ pc[c] \in Returned
  /\ IF PortExhausted(g)
     THEN /\ To(c, "error") /\ gen' = [gen EXCEPT ![c] = 0]
          /\ UNCHANGED supervisorVars
     ELSE /\ nextGeneration' = g + 1
          /\ IF InUse(g)
             THEN /\ To(c, "error") /\ gen' = [gen EXCEPT ![c] = 0]
                  /\ UNCHANGED <<processes, usedPorts, usedSpools>>
             ELSE /\ processes' = [processes EXCEPT ![g] = "nil"]
                  /\ usedPorts' = usedPorts \cup {Port(g)}
                  /\ usedSpools' = usedSpools \cup {g}
                  /\ To(c, "launch") /\ gen' = [gen EXCEPT ![c] = g]
  /\ UNCHANGED <<retained, recoverMtx, process, allocated>>

RollbackKeepingPort(c) ==
  /\ pc[c] = "launch"
  /\ processes' = [processes EXCEPT ![gen[c]] = "absent"]
  /\ usedSpools' = usedSpools \ {gen[c]}
  /\ To(c, "error")
  /\ UNCHANGED <<nextGeneration, usedPorts, retained, recoverMtx, process, allocated, gen>>

\* The launch failed: the three reservations are deleted under one lock.
Rollback(c) ==
  /\ pc[c] = "launch"
  /\ processes' = [processes EXCEPT ![gen[c]] = "absent"]
  /\ usedPorts' = usedPorts \ {Port(gen[c])}
  /\ usedSpools' = usedSpools \ {gen[c]}
  /\ To(c, "error")
  /\ UNCHANGED <<nextGeneration, retained, recoverMtx, process, allocated, gen>>

\* The child runs from here on, before the supervisor knows its handle.
Launch(c) ==
  /\ pc[c] = "launch"
  /\ process' = [process EXCEPT ![gen[c]].state = "starting"]
  /\ To(c, "register")
  /\ UNCHANGED <<supervisorVars, retained, recoverMtx, allocated, gen>>

Register(c) ==
  /\ pc[c] = "register"
  /\ processes' = [processes EXCEPT ![gen[c]] = "handle"]
  /\ To(c, "wait")
  /\ UNCHANGED <<nextGeneration, usedPorts, usedSpools, retained, recoverMtx, process,
                 allocated, gen>>

\* Supervisor.Reap succeeds only for a registered and terminal process.
Reapable(g) == processes[g] = "handle" /\ Terminal(g)

Unregister(g) ==
  /\ processes' = [processes EXCEPT ![g] = "absent"]
  /\ usedPorts' = usedPorts \ {Port(g)}
  /\ usedSpools' = usedSpools \ {g}
  /\ UNCHANGED nextGeneration

-----------------------------------------------------------------------------
(* Allocate and its teardown.                                              *)

\* WaitReadiness returned the fact.
AllocateReady(c) ==
  /\ pc[c] = "wait" /\ process[gen[c]].fact
  /\ To(c, "ready") /\ allocated' = allocated \cup {gen[c]}
  /\ UNCHANGED <<supervisorVars, retained, recoverMtx, process, gen>>

\* It returned an error: the process ended without a fact, or the context or
\* the readiness timeout ended first, as either may at any time.
WaitFails(c) ==
  /\ pc[c] = "wait"
  /\ To(c, "check")
  /\ UNCHANGED <<supervisorVars, retained, recoverMtx, process, allocated, gen>>

\* cleanup: a terminal process is not stopped again.
CheckTerminal(a) ==
  /\ pc[a] = "check"
  /\ IF Terminal(gen[a])
     THEN To(a, "reap") /\ UNCHANGED process
     ELSE To(a, "stop") /\ process' = [process EXCEPT ![gen[a]].asked = TRUE]
  /\ UNCHANGED <<supervisorVars, retained, recoverMtx, allocated, gen>>

\* Stop returned, possibly because its context ended; an error is accepted
\* when the process is terminal after all.
StopReturns(a) ==
  /\ pc[a] = "stop"
  /\ To(a, IF Terminal(gen[a]) THEN "reap" ELSE "failed")
  /\ UNCHANGED <<supervisorVars, retained, recoverMtx, process, allocated, gen>>

ReapProcess(a) ==
  /\ pc[a] = "reap"
  /\ IF Reapable(gen[a])
     THEN To(a, "reclaimed") /\ Unregister(gen[a])
     ELSE To(a, "failed") /\ UNCHANGED supervisorVars
  /\ UNCHANGED <<retained, recoverMtx, process, allocated, gen>>

ForgetFailure(c) ==
  /\ pc[c] \in {"reclaimed", "failed"}
  /\ To(c, IF pc[c] = "reclaimed" THEN "error" ELSE "cleanupError")
  /\ UNCHANGED <<supervisorVars, retained, recoverMtx, process, allocated, gen>>

\* The end of failWithCleanup.
AllocateFails(c) ==
  /\ pc[c] \in {"reclaimed", "failed"}
  /\ IF pc[c] = "reclaimed"
     THEN To(c, "error") /\ UNCHANGED retained
     ELSE To(c, "cleanupError") /\ retained' = retained \cup {gen[c]}
  /\ UNCHANGED <<supervisorVars, recoverMtx, process, allocated, gen>>

-----------------------------------------------------------------------------
(* Recover.  RecoverAll and Close call it for a snapshot of the retained   *)
(* generations, one after the other, some of them recovered meanwhile.     *)

RecoverBegin(r, g) ==
  /\ pc[r] = "idle" /\ g \in retained
  /\ To(r, "lock") /\ gen' = [gen EXCEPT ![r] = g]
  /\ UNCHANGED <<supervisorVars, retained, recoverMtx, process, allocated>>

LockWithoutRecheck(r) ==
  /\ pc[r] = "lock" /\ recoverMtx = Free
  /\ To(r, "check") /\ recoverMtx' = r
  /\ UNCHANGED <<supervisorVars, retained, process, allocated, gen>>

\* The owner looks the generation up again; the deferred unlock releases the
\* mutex at once when it is gone.
RecoverLock(r) ==
  /\ pc[r] = "lock" /\ recoverMtx = Free
  /\ IF gen[r] \in retained
     THEN To(r, "check") /\ recoverMtx' = r /\ UNCHANGED gen
     ELSE To(r, "idle") /\ gen' = [gen EXCEPT ![r] = 0] /\ UNCHANGED recoverMtx
  /\ UNCHANGED <<supervisorVars, retained, process, allocated>>

RecoverEndKeepingHandle(r) ==
  /\ pc[r] \in {"reclaimed", "failed"}
  /\ To(r, "idle") /\ gen' = [gen EXCEPT ![r] = 0] /\ recoverMtx' = Free
  /\ UNCHANGED <<supervisorVars, retained, process, allocated>>

\* The handle is deleted only after the reap; a failure keeps it.
RecoverEnd(r) ==
  /\ pc[r] \in {"reclaimed", "failed"}
  /\ retained' = IF pc[r] = "reclaimed" THEN retained \ {gen[r]} ELSE retained
  /\ To(r, "idle") /\ gen' = [gen EXCEPT ![r] = 0] /\ recoverMtx' = Free
  /\ UNCHANGED <<supervisorVars, process, allocated>>

-----------------------------------------------------------------------------
(* The deployment's shutdown of a process it was given: it stops it, and   *)
(* reaps it when it has ended.                                             *)

ShutdownStops(g) ==
  /\ g \in allocated /\ Live(g)
  /\ process' = [process EXCEPT ![g].asked = TRUE]
  /\ UNCHANGED <<supervisorVars, retained, recoverMtx, allocated, pc, gen>>

ShutdownReaps(g) ==
  /\ g \in allocated /\ Reapable(g)
  /\ Unregister(g)
  /\ allocated' = allocated \ {g}
  /\ UNCHANGED <<retained, recoverMtx, process, pc, gen>>

-----------------------------------------------------------------------------
Teardown(a) == CheckTerminal(a) \/ StopReturns(a) \/ ReapProcess(a)

AllocateStep(c) ==
  \/ Launch(c) \/ Rollback(c) \/ Register(c) \/ AllocateReady(c) \/ WaitFails(c)
  \/ Teardown(c) \/ AllocateFails(c)

RecoverStep(r) == Teardown(r) \/ RecoverEnd(r)

Next ==
  \/ \E g \in Generations :
       ProcessProvesReady(g) \/ ProcessEnds(g) \/ ShutdownStops(g) \/ ShutdownReaps(g)
  \/ \E c \in Callers : Reserve(c) \/ AllocateStep(c)
  \/ \E r \in Recoverers :
       RecoverLock(r) \/ RecoverStep(r) \/ \E g \in Generations : RecoverBegin(r, g)

Spec == Init /\ [][Next]_vars

-----------------------------------------------------------------------------
InFlight(c, g) == pc[c] \in Allocating /\ gen[c] = g

\* Isolation: the reserved ports and spools are those of the registered
\* generations, no more and no fewer, so a rollback, a reap and a failed
\* teardown leak nothing; and a process that runs is registered, or its
\* launching caller is about to register it.
Isolation ==
  /\ usedPorts = {Port(g) : g \in Registered}
  /\ usedSpools = Registered
  /\ \A g \in Generations : Live(g) =>
       processes[g] = "handle" \/ \E c \in Callers : pc[c] = "register" /\ gen[c] = g

\* Every generation the supervisor holds can still be reached by someone who
\* will reap it, and by one only: the call that allocates it, the retained
\* handles, or the deployment that was given it.
OneOwner ==
  /\ \A g \in Registered :
       g \in retained \/ g \in allocated \/ \E c \in Callers : InFlight(c, g)
  /\ retained \cap allocated = {}
  /\ \A c \in Callers : pc[c] \in Allocating =>
       /\ gen[c] \notin retained \cup allocated
       /\ \A d \in Callers : InFlight(d, gen[c]) => d = c

\* Reap is exactly-once: a teardown that comes to reap finds its process
\* registered and terminal, also when several Recover calls met.
ReapNeverRefused == \A a \in Actors : pc[a] = "reap" => Reapable(gen[a])

\* What Allocate says is true: a success carries evidence, a plain failure
\* left no process and no reservation behind, and a cleanup error names a
\* generation that Recover still finds or that was reclaimed since.
OutcomeTruth ==
  \A c \in Callers :
    LET g == gen[c] IN
    /\ pc[c] = "ready" => process[g].fact
    /\ pc[c] = "error" /\ g # 0 => g \notin Registered /\ ~Live(g)
    /\ pc[c] = "cleanupError" => g \in retained \/ (g \notin Registered /\ Terminal(g))

Contract(g) == INSTANCE ServerProcess WITH
                 state <- IF process[g].state = "none" THEN "starting" ELSE process[g].state,
                 fact <- process[g].fact, asked <- process[g].asked

\* The processes the allocator works with, under its stops and teardowns, stay
\* within the contract that the host launcher implements.
ProcessesKeepContract ==
  [][\A g \in Generations : Contract(g)!ProcessNext \/ UNCHANGED Contract(g)!processVars]_vars

\* A retained generation is reclaimed if Recover keeps being called for it.
RecoveryReclaims ==
  \A g \in Generations :
    []<>(\E r \in Recoverers : pc[r] = "lock" /\ gen[r] = g) => []<>(g \notin retained)

\* process-allocator.go:18-20 "it must not return a process that has already
\* become terminal".
NeverReturnsTerminal ==
  [][\A c \in Callers : pc[c] = "wait" /\ pc'[c] = "ready" => ~Terminal(gen[c])]_vars

\* supervisor.go:59-60 "A failed launch rolls back the reservation so no port,
\* spool, or generation leaks", and :131 a reap "frees its port and spool for
\* reuse": Start finds no port only while some port is reserved.
ExhaustedOnlyInUse == PortExhausted(nextGeneration) => usedPorts # {}
=============================================================================
