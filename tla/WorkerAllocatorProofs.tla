----------------------- MODULE WorkerAllocatorProofs -----------------------
EXTENDS ScenarioServer, TLAPS

(***************************************************************************)
(* The inductive invariant of the worker's allocation, for any number of   *)
(* callers and recoverers and any port range, and the safety properties    *)
(* that follow from it.                                                    *)
(*                                                                         *)
(* OneOwner and ReapNeverRefused are not inductive: that a teardown finds  *)
(* its process registered depends on where every actor is with its         *)
(* generation (StageInv), on the mutex among recoverers (RecovererInv),    *)
(* and on generations never being handed out twice (FreshInv).             *)
(***************************************************************************)

\* A generation that was not handed out yet has left no trace.
FreshInv ==
  /\ \A g \in Generations : g >= nextGeneration =>
       /\ processes[g] = "absent" /\ process[g].state = "none"
       /\ g \notin retained \cup allocated
  /\ \A a \in Actors : gen[a] < nextGeneration

\* What an actor knows of its generation at each of its steps.
Stage(a) ==
  LET g == gen[a] IN
  /\ pc[a] = "launch" => processes[g] = "nil" /\ process[g].state = "none"
  /\ pc[a] = "register" => processes[g] = "nil" /\ process[g].state # "none"
  /\ pc[a] \in {"wait", "check", "stop", "failed"} =>
       processes[g] = "handle" /\ process[g].state # "none"
  /\ pc[a] = "reap" => Reapable(g)
  /\ pc[a] = "reclaimed" => processes[g] = "absent" /\ Terminal(g)

StageInv == \A a \in Actors : Stage(a)

\* Callers have a generation whenever they work on one or report one.
CallerInv ==
  \A c \in Callers :
    /\ pc[c] # "lock"
    /\ pc[c] \in Allocating \cup {"ready", "cleanupError"} => gen[c] \in Generations

\* Whoever tears down in Recover holds recoverMtx, and its generation is
\* retained until it ends.
RecovererInv ==
  \A r \in Recoverers :
    /\ pc[r] \in {"idle", "lock"} \cup TearingDown
    /\ pc[r] \in TearingDown => recoverMtx = r /\ gen[r] \in retained
    /\ pc[r] = "lock" => gen[r] \in Generations

\* A retained handle is registered, or its recoverer has just reaped it; an
\* allocated process is registered and has proven its readiness.
HandleInv ==
  /\ \A g \in retained :
       /\ process[g].state # "none"
       /\ \/ processes[g] = "handle"
          \/ /\ processes[g] = "absent" /\ Terminal(g)
             /\ \E r \in Recoverers : pc[r] = "reclaimed" /\ gen[r] = g
  /\ \A g \in allocated :
       processes[g] = "handle" /\ process[g].fact /\ process[g].state # "none"

Inv == /\ TypeOK /\ FreshInv /\ StageInv /\ CallerInv /\ RecovererInv /\ HandleInv
       /\ Isolation /\ OneOwner /\ OutcomeTruth

USE DEF Actors, Terminal, TerminalStates, Live, Registered, TearingDown, Allocating, Returned,
        To, supervisorVars, Reapable

\* Two generations never share a port.
LEMMA PortInjective == \A g, h \in Generations : Port(g) = Port(h) => g = h
BY PortsAssumption DEF Port, Generations

\* Every generation has its port within the range.
LEMMA PortRange == \A g \in Generations : Port(g) \in BasePort .. MaxPort
BY PortsAssumption DEF Port, Generations

\* A process proves its readiness.
LEMMA ProcessProvesReadyPreserves ==
  ASSUME Inv, NEW g \in Generations, ProcessProvesReady(g)
  PROVE  Inv'
<1> DEFINE p == [process[g] EXCEPT !.state = "ready", !.fact = TRUE]
<1>1. process' = [process EXCEPT ![g] = p]
  BY DEF ProcessProvesReady
<1>2. /\ p \in Process
      /\ p.state = "ready" /\ p.fact /\ p.asked = process[g].asked
  <2>1. process[g] \in Process
    BY DEF Inv, TypeOK
  <2> QED  BY <2>1 DEF Process
<1> HIDE DEF p
<1>3. process' \in [Generations -> Process] /\ process'[g] = p
  BY <1>1, <1>2 DEF Inv, TypeOK
<1>4. TypeOK'
  BY <1>1, <1>2, <1>3 DEF Inv, TypeOK, ProcessProvesReady
<1>5. FreshInv'
  BY <1>1, <1>2, <1>3 DEF Inv, FreshInv, ProcessProvesReady
<1>6. StageInv'
  BY <1>1, <1>2, <1>3, ActorsAssumption DEF Inv, TypeOK, StageInv, Stage, CallerInv,
         RecovererInv, ProcessProvesReady
<1>7. CallerInv'
  BY <1>1, <1>2, <1>3 DEF Inv, CallerInv, ProcessProvesReady
<1>8. RecovererInv'
  BY <1>1, <1>2, <1>3 DEF Inv, RecovererInv, ProcessProvesReady
<1>9. HandleInv'
  BY <1>1, <1>2, <1>3 DEF Inv, TypeOK, HandleInv, ProcessProvesReady
<1>10. Isolation'
  BY <1>1, <1>2, <1>3 DEF Inv, Isolation, ProcessProvesReady
<1>11. OneOwner'
  BY <1>1, <1>2, <1>3 DEF Inv, OneOwner, InFlight, ProcessProvesReady
<1>12. OutcomeTruth'
  BY <1>1, <1>2, <1>3 DEF Inv, TypeOK, StageInv, Stage, CallerInv, OutcomeTruth,
         ProcessProvesReady
<1> QED  BY <1>4, <1>5, <1>6, <1>7, <1>8, <1>9, <1>10, <1>11, <1>12 DEF Inv

\* A process ends; only a live one can.
LEMMA ProcessEndsPreserves ==
  ASSUME Inv, NEW g \in Generations, ProcessEnds(g)
  PROVE  Inv'
<1>1. PICK s \in TerminalStates : process' = [process EXCEPT ![g].state = s]
  BY DEF ProcessEnds
<1> DEFINE p == [process[g] EXCEPT !.state = s]
<1>2. process' = [process EXCEPT ![g] = p]
  BY <1>1
<1>3. /\ p \in Process
      /\ p.state = s /\ p.fact = process[g].fact /\ p.asked = process[g].asked
  BY DEF Inv, TypeOK, Process
<1> HIDE DEF p
<1>4. process' \in [Generations -> Process] /\ process'[g] = p
  BY <1>2, <1>3 DEF Inv, TypeOK
<1>5. TypeOK'
  BY <1>2, <1>3, <1>4 DEF Inv, TypeOK, ProcessEnds
<1>6. FreshInv'
  BY <1>2, <1>3, <1>4 DEF Inv, FreshInv, ProcessEnds
<1>7. StageInv'
  BY <1>2, <1>3, <1>4 DEF Inv, StageInv, Stage, ProcessEnds
<1>8. CallerInv'
  BY <1>2, <1>3, <1>4 DEF Inv, CallerInv, ProcessEnds
<1>9. RecovererInv'
  BY <1>2, <1>3, <1>4 DEF Inv, RecovererInv, ProcessEnds
<1>10. HandleInv'
  BY <1>2, <1>3, <1>4 DEF Inv, HandleInv, ProcessEnds
<1>11. Isolation'
  BY <1>2, <1>3, <1>4 DEF Inv, Isolation, ProcessEnds
<1>12. OneOwner'
  BY <1>2, <1>3, <1>4 DEF Inv, OneOwner, InFlight, ProcessEnds
<1>13. OutcomeTruth'
  BY <1>2, <1>3, <1>4 DEF Inv, OutcomeTruth, ProcessEnds
<1> QED  BY <1>5, <1>6, <1>7, <1>8, <1>9, <1>10, <1>11, <1>12, <1>13 DEF Inv

\* The deployment asks an allocated process to stop.
LEMMA ShutdownStopsPreserves ==
  ASSUME Inv, NEW g \in Generations, ShutdownStops(g)
  PROVE  Inv'
<1> DEFINE p == [process[g] EXCEPT !.asked = TRUE]
<1>1. process' = [process EXCEPT ![g] = p]
  BY DEF ShutdownStops
<1>2. /\ p \in Process
      /\ p.state = process[g].state /\ p.fact = process[g].fact /\ p.asked
  BY DEF Inv, TypeOK, Process
<1> HIDE DEF p
<1>3. process' \in [Generations -> Process] /\ process'[g] = p
  BY <1>1, <1>2 DEF Inv, TypeOK
<1>4. TypeOK'
  BY <1>1, <1>2, <1>3 DEF Inv, TypeOK, ShutdownStops
<1>5. FreshInv'
  BY <1>1, <1>2, <1>3 DEF Inv, FreshInv, ShutdownStops
<1>6. StageInv'
  BY <1>1, <1>2, <1>3 DEF Inv, StageInv, Stage, ShutdownStops
<1>7. CallerInv'
  BY <1>1, <1>2, <1>3 DEF Inv, CallerInv, ShutdownStops
<1>8. RecovererInv'
  BY <1>1, <1>2, <1>3 DEF Inv, RecovererInv, ShutdownStops
<1>9. HandleInv'
  BY <1>1, <1>2, <1>3 DEF Inv, HandleInv, ShutdownStops
<1>10. Isolation'
  BY <1>1, <1>2, <1>3 DEF Inv, Isolation, ShutdownStops
<1>11. OneOwner'
  BY <1>1, <1>2, <1>3 DEF Inv, OneOwner, InFlight, ShutdownStops
<1>12. OutcomeTruth'
  BY <1>1, <1>2, <1>3 DEF Inv, TypeOK, StageInv, Stage, CallerInv, OutcomeTruth,
         ShutdownStops
<1> QED  BY <1>4, <1>5, <1>6, <1>7, <1>8, <1>9, <1>10, <1>11, <1>12 DEF Inv

\* The deployment reaps a process that only it owns.
LEMMA ShutdownReapsPreserves ==
  ASSUME Inv, NEW g \in Generations, ShutdownReaps(g)
  PROVE  Inv'
<1>1. TypeOK'
  BY DEF Inv, TypeOK, ShutdownReaps, Unregister
<1>2. FreshInv'
  BY DEF Inv, FreshInv, ShutdownReaps, Unregister
<1>3. StageInv'
  BY ActorsAssumption DEF Inv, TypeOK, StageInv, Stage, CallerInv, RecovererInv,
         HandleInv, OneOwner, InFlight, ShutdownReaps, Unregister
<1>4. CallerInv'
  BY DEF Inv, CallerInv, ShutdownReaps, Unregister
<1>5. RecovererInv'
  BY DEF Inv, RecovererInv, ShutdownReaps, Unregister
<1>6. HandleInv'
  BY DEF Inv, TypeOK, FreshInv, StageInv, Stage, CallerInv, HandleInv, OneOwner,
         InFlight, ShutdownReaps, Unregister
<1>7. Isolation'
  BY PortInjective DEF Inv, TypeOK, StageInv, Stage, CallerInv, Isolation,
         ShutdownReaps, Unregister
<1>8. OneOwner'
  BY DEF Inv, TypeOK, OneOwner, InFlight, ShutdownReaps, Unregister
<1>9. OutcomeTruth'
  BY DEF Inv, OutcomeTruth, ShutdownReaps, Unregister
<1> QED  BY <1>1, <1>2, <1>3, <1>4, <1>5, <1>6, <1>7, <1>8, <1>9 DEF Inv

\* A reservation: the next generation is always fresh, so its port and its
\* spool are never in use.
LEMMA ReservePreserves ==
  ASSUME Inv, NEW c \in Callers, Reserve(c)
  PROVE  Inv'
<1> DEFINE n == nextGeneration
<1>1. CASE PortExhausted(n)
  <2>1. TypeOK'
    BY <1>1 DEF Inv, TypeOK, Reserve
  <2>2. FreshInv'
    BY <1>1 DEF Inv, TypeOK, FreshInv, Reserve
  <2>3. StageInv'
    BY <1>1 DEF Inv, TypeOK, StageInv, Stage, Reserve
  <2>4. CallerInv'
    BY <1>1 DEF Inv, TypeOK, CallerInv, Reserve
  <2>5. RecovererInv'
    BY <1>1, ActorsAssumption DEF Inv, TypeOK, StageInv, Stage, CallerInv,
           RecovererInv, Reserve
  <2>6. HandleInv'
    BY <1>1 DEF Inv, TypeOK, HandleInv, Reserve
  <2>7. Isolation'
    BY <1>1 DEF Inv, TypeOK, Isolation, Reserve
  <2>8. OneOwner'
    BY <1>1 DEF Inv, TypeOK, OneOwner, InFlight, Reserve
  <2>9. OutcomeTruth'
    BY <1>1 DEF Inv, TypeOK, OutcomeTruth, Reserve
  <2> QED  BY <2>1, <2>2, <2>3, <2>4, <2>5, <2>6, <2>7, <2>8, <2>9 DEF Inv
<1>2. CASE ~PortExhausted(n)
  <2>1. n \in Generations
    BY <1>2, PortsAssumption DEF Inv, TypeOK, PortExhausted, Port, Generations
  <2>2. n + 1 \in 1 .. (MaxPort - BasePort + 2)
    BY <2>1, PortsAssumption DEF Generations
  <2>3. processes[n] = "absent" /\ process[n].state = "none" /\ n \notin retained \cup allocated
    BY <2>1 DEF Inv, TypeOK, FreshInv, Generations
  <2>4. ~InUse(n)
    BY <2>1, <2>3, PortInjective DEF Inv, Isolation, InUse
  <2>5. /\ nextGeneration' = n + 1
        /\ processes' = [processes EXCEPT ![n] = "nil"]
        /\ usedPorts' = usedPorts \cup {Port(n)}
        /\ usedSpools' = usedSpools \cup {n}
        /\ pc' = [pc EXCEPT ![c] = "launch"] /\ gen' = [gen EXCEPT ![c] = n]
        /\ UNCHANGED <<retained, recoverMtx, process, allocated>>
        /\ pc[c] \in Returned
    BY <1>2, <2>4 DEF Reserve
  <2>6. \A g \in Generations : g >= n + 1 => g >= n /\ g # n
    BY <2>1 DEF Generations
  <2>7. /\ n = nextGeneration /\ n < n + 1
        /\ \A b \in Actors : gen[b] < n /\ gen[b] < n + 1 /\ gen[b] # n
    BY <2>1 DEF Inv, TypeOK, FreshInv, Generations
  <2> HIDE DEF n
  <2>8. TypeOK'
    BY <2>1, <2>2, <2>3, <2>5, <2>6, <2>7, PortInjective, PortRange DEF Inv, TypeOK,
           FreshInv, StageInv, Stage, CallerInv, Isolation
  <2>9. FreshInv'
    BY <2>1, <2>2, <2>3, <2>5, <2>6, <2>7 DEF Inv, TypeOK, FreshInv
  <2>10. StageInv'
    BY <2>1, <2>2, <2>3, <2>5, <2>6, <2>7 DEF Inv, TypeOK, StageInv, Stage
  <2>11. CallerInv'
    BY <2>1, <2>2, <2>3, <2>5, <2>6, <2>7 DEF Inv, TypeOK, CallerInv
  <2>12. RecovererInv'
    BY <2>1, <2>2, <2>3, <2>5, <2>6, <2>7, ActorsAssumption DEF Inv, TypeOK,
           StageInv, Stage, CallerInv, RecovererInv
  <2>13. HandleInv'
    BY <2>1, <2>2, <2>3, <2>5, <2>6, <2>7 DEF Inv, HandleInv
  <2>14. Isolation'
    BY <2>1, <2>2, <2>3, <2>5, <2>6, <2>7 DEF Inv, TypeOK, Isolation
  <2>15. OneOwner'
    BY <2>1, <2>2, <2>3, <2>5, <2>6, <2>7 DEF Inv, TypeOK, StageInv, Stage,
           OneOwner, InFlight
  <2>16. OutcomeTruth'
    BY <2>1, <2>2, <2>3, <2>5, <2>6, <2>7 DEF Inv, TypeOK, OutcomeTruth
  <2> QED  BY <2>8, <2>9, <2>10, <2>11, <2>12, <2>13, <2>14, <2>15, <2>16 DEF Inv
<1> QED  BY <1>1, <1>2

\* The launch of a reserved generation.
LEMMA LaunchPreserves ==
  ASSUME Inv, NEW c \in Callers, Launch(c)
  PROVE  Inv'
<1> DEFINE g == gen[c]
           p == [process[g] EXCEPT !.state = "starting"]
<1>1. g \in Generations
  BY DEF Inv, CallerInv, Launch
<1>2. process' = [process EXCEPT ![g] = p]
  BY DEF Launch
<1>3. /\ p \in Process
      /\ p.state = "starting" /\ p.fact = process[g].fact
  BY <1>1 DEF Inv, TypeOK, Process
<1> HIDE DEF p
<1>4. process' \in [Generations -> Process] /\ process'[g] = p
  BY <1>1, <1>2, <1>3 DEF Inv, TypeOK
<1>5. TypeOK'
  BY <1>1, <1>2, <1>3, <1>4 DEF Inv, TypeOK, Launch
<1>6. FreshInv'
  BY <1>1, <1>2, <1>3, <1>4 DEF Inv, TypeOK, FreshInv, StageInv, Stage, Launch
<1>7. StageInv'
  BY <1>1, <1>2, <1>3, <1>4, ActorsAssumption DEF Inv, TypeOK, StageInv, Stage,
         CallerInv, RecovererInv, HandleInv, OneOwner, InFlight, Launch
<1>8. CallerInv'
  BY <1>1, <1>2, <1>3, <1>4 DEF Inv, CallerInv, Launch
<1>9. RecovererInv'
  BY <1>1, <1>2, <1>3, <1>4 DEF Inv, RecovererInv, Launch
<1>10. HandleInv'
  BY <1>1, <1>2, <1>3, <1>4 DEF Inv, TypeOK, StageInv, Stage, HandleInv, Launch
<1>11. Isolation'
  BY <1>1, <1>2, <1>3, <1>4 DEF Inv, TypeOK, Isolation, Launch
<1>12. OneOwner'
  BY <1>1, <1>2, <1>3, <1>4 DEF Inv, OneOwner, InFlight, Launch
<1>13. OutcomeTruth'
  BY <1>1, <1>2, <1>3, <1>4 DEF Inv, TypeOK, StageInv, Stage, OutcomeTruth, Launch
<1> QED  BY <1>5, <1>6, <1>7, <1>8, <1>9, <1>10, <1>11, <1>12, <1>13 DEF Inv

\* A failed launch returns what its reservation took.
LEMMA RollbackPreserves ==
  ASSUME Inv, NEW c \in Callers, Rollback(c)
  PROVE  Inv'
<1>1. TypeOK'
  BY DEF Inv, TypeOK, Rollback
<1>2. FreshInv'
  BY DEF Inv, FreshInv, Rollback
<1>3. StageInv'
  BY ActorsAssumption DEF Inv, TypeOK, StageInv, Stage, CallerInv, RecovererInv,
         HandleInv, OneOwner, InFlight, Rollback
<1>4. CallerInv'
  BY DEF Inv, CallerInv, Rollback
<1>5. RecovererInv'
  BY DEF Inv, RecovererInv, Rollback
<1>6. HandleInv'
  BY DEF Inv, TypeOK, StageInv, Stage, HandleInv, Rollback
<1>7. Isolation'
  BY PortInjective DEF Inv, TypeOK, StageInv, Stage, CallerInv, Isolation, Rollback
<1>8. OneOwner'
  BY DEF Inv, TypeOK, OneOwner, InFlight, Rollback
<1>9. OutcomeTruth'
  BY DEF Inv, TypeOK, StageInv, Stage, OutcomeTruth, Rollback
<1> QED  BY <1>1, <1>2, <1>3, <1>4, <1>5, <1>6, <1>7, <1>8, <1>9 DEF Inv

\* The launched process is registered.
LEMMA RegisterPreserves ==
  ASSUME Inv, NEW c \in Callers, Register(c)
  PROVE  Inv'
<1>1. TypeOK'
  BY DEF Inv, TypeOK, Register
<1>2. FreshInv'
  BY DEF Inv, TypeOK, FreshInv, StageInv, Stage, Register
<1>3. StageInv'
  BY ActorsAssumption DEF Inv, TypeOK, StageInv, Stage, CallerInv, RecovererInv,
         HandleInv, OneOwner, InFlight, Register
<1>4. CallerInv'
  BY DEF Inv, CallerInv, Register
<1>5. RecovererInv'
  BY DEF Inv, RecovererInv, Register
<1>6. HandleInv'
  BY DEF Inv, HandleInv, Register
<1>7. Isolation'
  BY DEF Inv, TypeOK, StageInv, Stage, Isolation, Register
<1>8. OneOwner'
  BY DEF Inv, OneOwner, InFlight, Register
<1>9. OutcomeTruth'
  BY DEF Inv, TypeOK, StageInv, Stage, OutcomeTruth, Register
<1> QED  BY <1>1, <1>2, <1>3, <1>4, <1>5, <1>6, <1>7, <1>8, <1>9 DEF Inv

\* Ownership passes to the deployment.
LEMMA AllocateReadyPreserves ==
  ASSUME Inv, NEW c \in Callers, AllocateReady(c)
  PROVE  Inv'
<1>1. TypeOK'
  BY DEF Inv, TypeOK, StageInv, Stage, CallerInv, AllocateReady
<1>2. FreshInv'
  BY DEF Inv, TypeOK, FreshInv, StageInv, Stage, AllocateReady
<1>3. StageInv'
  BY DEF Inv, StageInv, Stage, AllocateReady
<1>4. CallerInv'
  BY DEF Inv, CallerInv, AllocateReady
<1>5. RecovererInv'
  BY DEF Inv, RecovererInv, AllocateReady
<1>6. HandleInv'
  BY DEF Inv, TypeOK, StageInv, Stage, HandleInv, AllocateReady
<1>7. Isolation'
  BY DEF Inv, Isolation, AllocateReady
<1>8. OneOwner'
  BY DEF Inv, TypeOK, OneOwner, InFlight, AllocateReady
<1>9. OutcomeTruth'
  BY DEF Inv, OutcomeTruth, AllocateReady
<1> QED  BY <1>1, <1>2, <1>3, <1>4, <1>5, <1>6, <1>7, <1>8, <1>9 DEF Inv

\* The teardown begins.
LEMMA WaitFailsPreserves ==
  ASSUME Inv, NEW c \in Callers, WaitFails(c)
  PROVE  Inv'
<1>1. TypeOK'
  BY DEF Inv, TypeOK, WaitFails
<1>2. FreshInv'
  BY DEF Inv, FreshInv, WaitFails
<1>3. StageInv'
  BY DEF Inv, StageInv, Stage, WaitFails
<1>4. CallerInv'
  BY DEF Inv, CallerInv, WaitFails
<1>5. RecovererInv'
  BY DEF Inv, RecovererInv, WaitFails
<1>6. HandleInv'
  BY DEF Inv, HandleInv, WaitFails
<1>7. Isolation'
  BY DEF Inv, Isolation, WaitFails
<1>8. OneOwner'
  BY DEF Inv, OneOwner, InFlight, WaitFails
<1>9. OutcomeTruth'
  BY DEF Inv, OutcomeTruth, WaitFails
<1> QED  BY <1>1, <1>2, <1>3, <1>4, <1>5, <1>6, <1>7, <1>8, <1>9 DEF Inv

\* The call gives up its generation, reclaimed or retained.
LEMMA AllocateFailsPreserves ==
  ASSUME Inv, NEW c \in Callers, AllocateFails(c)
  PROVE  Inv'
<1>1. TypeOK'
  BY DEF Inv, TypeOK, StageInv, Stage, CallerInv, AllocateFails
<1>2. FreshInv'
  BY DEF Inv, TypeOK, FreshInv, StageInv, Stage, AllocateFails
<1>3. StageInv'
  BY DEF Inv, TypeOK, StageInv, Stage, AllocateFails
<1>4. CallerInv'
  BY DEF Inv, TypeOK, CallerInv, AllocateFails
<1>5. RecovererInv'
  BY ActorsAssumption DEF Inv, TypeOK, StageInv, Stage, CallerInv, RecovererInv,
         AllocateFails
<1>6. HandleInv'
  BY ActorsAssumption DEF Inv, TypeOK, StageInv, Stage, CallerInv, RecovererInv,
         HandleInv, AllocateFails
<1>7. Isolation'
  BY DEF Inv, TypeOK, Isolation, AllocateFails
<1>8. OneOwner'
  BY DEF Inv, TypeOK, StageInv, Stage, OneOwner, InFlight, AllocateFails
<1>9. OutcomeTruth'
  BY DEF Inv, TypeOK, StageInv, Stage, OutcomeTruth, AllocateFails
<1> QED  BY <1>1, <1>2, <1>3, <1>4, <1>5, <1>6, <1>7, <1>8, <1>9 DEF Inv

\* A teardown asks only a live process to stop.
LEMMA CheckTerminalPreserves ==
  ASSUME Inv, NEW a \in Actors, CheckTerminal(a)
  PROVE  Inv'
<1> DEFINE g == gen[a]
           p == IF Terminal(g) THEN process[g] ELSE [process[g] EXCEPT !.asked = TRUE]
<1>1. g \in Generations
  BY DEF Inv, TypeOK, CallerInv, RecovererInv, CheckTerminal
<1>2. process' = [process EXCEPT ![g] = p]
  BY <1>1 DEF Inv, TypeOK, CheckTerminal
<1>3. /\ p \in Process
      /\ p.state = process[g].state /\ p.fact = process[g].fact
  BY <1>1 DEF Inv, TypeOK, Process
<1> HIDE DEF p
<1>4. process' \in [Generations -> Process] /\ process'[g] = p
  BY <1>1, <1>2, <1>3 DEF Inv, TypeOK
<1>5. \A h \in Generations : process'[h].state = process[h].state /\ process'[h].fact = process[h].fact
  BY <1>1, <1>2, <1>3, <1>4 DEF Inv, TypeOK
<1>6. TypeOK'
  BY <1>1, <1>4, <1>5 DEF Inv, TypeOK, CheckTerminal
<1>7. FreshInv'
  BY <1>1, <1>4, <1>5 DEF Inv, FreshInv, CheckTerminal
<1>8. StageInv'
  BY <1>1, <1>4, <1>5, ActorsAssumption DEF Inv, TypeOK, StageInv, Stage, CallerInv,
         RecovererInv, CheckTerminal
<1>9. CallerInv'
  BY <1>1, <1>4, <1>5 DEF Inv, TypeOK, CallerInv, CheckTerminal
<1>10. RecovererInv'
  BY <1>1, <1>4, <1>5 DEF Inv, TypeOK, RecovererInv, CheckTerminal
<1>11. HandleInv'
  BY <1>1, <1>4, <1>5 DEF Inv, TypeOK, HandleInv, CheckTerminal
<1>12. Isolation'
  BY <1>1, <1>4, <1>5 DEF Inv, TypeOK, Isolation, CheckTerminal
<1>13. OneOwner'
  BY <1>1, <1>4, <1>5 DEF Inv, TypeOK, OneOwner, InFlight, CheckTerminal
<1>14. OutcomeTruth'
  BY <1>1, <1>4, <1>5 DEF Inv, TypeOK, StageInv, Stage, CallerInv, OutcomeTruth,
         CheckTerminal
<1> QED  BY <1>6, <1>7, <1>8, <1>9, <1>10, <1>11, <1>12, <1>13, <1>14 DEF Inv

\* A stop that returned with a live process is a failure.
LEMMA StopReturnsPreserves ==
  ASSUME Inv, NEW a \in Actors, StopReturns(a)
  PROVE  Inv'
<1>1. TypeOK'
  BY DEF Inv, TypeOK, StopReturns
<1>2. FreshInv'
  BY DEF Inv, FreshInv, StopReturns
<1>3. StageInv'
  BY DEF Inv, StageInv, Stage, StopReturns
<1>4. CallerInv'
  BY DEF Inv, CallerInv, StopReturns
<1>5. RecovererInv'
  BY DEF Inv, RecovererInv, StopReturns
<1>6. HandleInv'
  BY DEF Inv, HandleInv, StopReturns
<1>7. Isolation'
  BY DEF Inv, Isolation, StopReturns
<1>8. OneOwner'
  BY DEF Inv, OneOwner, InFlight, StopReturns
<1>9. OutcomeTruth'
  BY DEF Inv, OutcomeTruth, StopReturns
<1> QED  BY <1>1, <1>2, <1>3, <1>4, <1>5, <1>6, <1>7, <1>8, <1>9 DEF Inv

\* A teardown reaps the process that only it may reap.
LEMMA ReapProcessPreserves ==
  ASSUME Inv, NEW a \in Actors, ReapProcess(a)
  PROVE  Inv'
<1>1. TypeOK'
  BY DEF Inv, TypeOK, ReapProcess, Unregister
<1>2. FreshInv'
  BY DEF Inv, TypeOK, FreshInv, ReapProcess, Unregister
<1>3. StageInv'
  BY ActorsAssumption DEF Inv, TypeOK, StageInv, Stage, CallerInv, RecovererInv,
         HandleInv, OneOwner, InFlight, ReapProcess, Unregister
<1>4. CallerInv'
  BY DEF Inv, TypeOK, CallerInv, ReapProcess, Unregister
<1>5. RecovererInv'
  BY DEF Inv, TypeOK, RecovererInv, ReapProcess, Unregister
<1>6. HandleInv'
  BY ActorsAssumption DEF Inv, TypeOK, StageInv, Stage, CallerInv, RecovererInv,
         HandleInv, OneOwner, InFlight, ReapProcess, Unregister
<1>7. Isolation'
  BY ActorsAssumption, PortInjective, PortRange DEF Inv, TypeOK, FreshInv, StageInv,
         Stage, CallerInv, RecovererInv, HandleInv, Isolation, OneOwner, InFlight,
         OutcomeTruth, ReapProcess, Unregister
<1>8. OneOwner'
  BY DEF Inv, TypeOK, OneOwner, InFlight, ReapProcess, Unregister
<1>9. OutcomeTruth'
  BY DEF Inv, TypeOK, OutcomeTruth, ReapProcess, Unregister
<1> QED  BY <1>1, <1>2, <1>3, <1>4, <1>5, <1>6, <1>7, <1>8, <1>9 DEF Inv

\* A recoverer enters with a generation that is still retained.
LEMMA RecoverLockPreserves ==
  ASSUME Inv, NEW r \in Recoverers, RecoverLock(r)
  PROVE  Inv'
<1>1. TypeOK'
  BY DEF Inv, TypeOK, RecoverLock
<1>2. FreshInv'
  BY DEF Inv, TypeOK, FreshInv, RecoverLock
<1>3. StageInv'
  BY ActorsAssumption DEF Inv, TypeOK, StageInv, Stage, CallerInv, RecovererInv,
         HandleInv, OneOwner, InFlight, RecoverLock
<1>4. CallerInv'
  BY DEF Inv, TypeOK, CallerInv, RecoverLock
<1>5. RecovererInv'
  BY ActorsAssumption DEF Inv, TypeOK, StageInv, Stage, CallerInv, RecovererInv,
         RecoverLock
<1>6. HandleInv'
  BY DEF Inv, TypeOK, HandleInv, RecoverLock
<1>7. Isolation'
  BY DEF Inv, TypeOK, Isolation, RecoverLock
<1>8. OneOwner'
  BY DEF Inv, TypeOK, StageInv, Stage, CallerInv, OneOwner, InFlight, RecoverLock
<1>9. OutcomeTruth'
  BY DEF Inv, TypeOK, OutcomeTruth, RecoverLock
<1> QED  BY <1>1, <1>2, <1>3, <1>4, <1>5, <1>6, <1>7, <1>8, <1>9 DEF Inv

\* A recoverer forgets the handle it reaped, and leaves.
LEMMA RecoverEndPreserves ==
  ASSUME Inv, NEW r \in Recoverers, RecoverEnd(r)
  PROVE  Inv'
<1>1. TypeOK'
  BY DEF Inv, TypeOK, RecoverEnd
<1>2. FreshInv'
  BY DEF Inv, TypeOK, FreshInv, RecoverEnd
<1>3. StageInv'
  BY DEF Inv, TypeOK, StageInv, Stage, RecoverEnd
<1>4. CallerInv'
  BY DEF Inv, TypeOK, CallerInv, RecoverEnd
<1>5. RecovererInv'
  BY DEF Inv, TypeOK, RecovererInv, RecoverEnd
<1>6. HandleInv'
  BY DEF Inv, HandleInv, RecoverEnd
<1>7. Isolation'
  BY DEF Inv, Isolation, RecoverEnd
<1>8. OneOwner'
  BY ActorsAssumption DEF Inv, TypeOK, StageInv, Stage, CallerInv, RecovererInv,
         OneOwner, InFlight, RecoverEnd
<1>9. OutcomeTruth'
  BY DEF Inv, TypeOK, StageInv, Stage, OutcomeTruth, RecoverEnd
<1> QED  BY <1>1, <1>2, <1>3, <1>4, <1>5, <1>6, <1>7, <1>8, <1>9 DEF Inv

\* A recoverer looks a generation up.
LEMMA RecoverBeginPreserves ==
  ASSUME Inv, NEW r \in Recoverers, NEW g \in Generations, RecoverBegin(r, g)
  PROVE  Inv'
<1>1. g < nextGeneration
  BY DEF Inv, TypeOK, FreshInv, Generations, RecoverBegin
<1>2. TypeOK'
  BY <1>1 DEF Inv, TypeOK, RecoverBegin
<1>3. FreshInv'
  BY <1>1 DEF Inv, FreshInv, RecoverBegin
<1>4. StageInv'
  BY <1>1 DEF Inv, StageInv, Stage, RecoverBegin
<1>5. CallerInv'
  BY <1>1, ActorsAssumption DEF Inv, TypeOK, StageInv, Stage, CallerInv,
         RecovererInv, RecoverBegin
<1>6. RecovererInv'
  BY <1>1 DEF Inv, TypeOK, RecovererInv, RecoverBegin
<1>7. HandleInv'
  BY <1>1 DEF Inv, HandleInv, RecoverBegin
<1>8. Isolation'
  BY <1>1 DEF Inv, Isolation, RecoverBegin
<1>9. OneOwner'
  BY <1>1 DEF Inv, OneOwner, InFlight, RecoverBegin
<1>10. OutcomeTruth'
  BY <1>1 DEF Inv, OutcomeTruth, RecoverBegin
<1> QED  BY <1>2, <1>3, <1>4, <1>5, <1>6, <1>7, <1>8, <1>9, <1>10 DEF Inv

-----------------------------------------------------------------------------
\* The initial state: nothing was ever handed out.
LEMMA InitEstablishes == Init => Inv
<1> SUFFICES ASSUME Init PROVE Inv
  OBVIOUS
<1>1. Generations \subseteq Nat \ {0} /\ 1 \in 1 .. (MaxPort - BasePort + 2)
  BY PortsAssumption DEF Generations
<1>2. TypeOK
  BY <1>1 DEF Init, TypeOK, Process
<1>3. FreshInv /\ StageInv /\ CallerInv /\ RecovererInv /\ HandleInv
  BY DEF Init, FreshInv, StageInv, Stage, CallerInv, RecovererInv, HandleInv
<1>4. Isolation /\ OneOwner /\ OutcomeTruth
  BY DEF Init, Isolation, OneOwner, OutcomeTruth
<1> QED  BY <1>2, <1>3, <1>4 DEF Inv

\* A stuttering step.
LEMMA StutterPreserves == ASSUME Inv, UNCHANGED vars PROVE Inv'
BY DEF vars, Inv, TypeOK, FreshInv, StageInv, Stage, CallerInv, RecovererInv, HandleInv,
       Isolation, OneOwner, InFlight, OutcomeTruth

\* Every step preserves the invariant: one lemma per action.
LEMMA NextPreserves == ASSUME Inv, [Next]_vars PROVE Inv'
<1>1. CASE UNCHANGED vars
  BY <1>1, StutterPreserves
<1>2. ASSUME NEW g \in Generations,
             ProcessProvesReady(g) \/ ProcessEnds(g) \/ ShutdownStops(g) \/ ShutdownReaps(g)
      PROVE  Inv'
  BY <1>2, ProcessProvesReadyPreserves, ProcessEndsPreserves, ShutdownStopsPreserves,
     ShutdownReapsPreserves
<1>3. ASSUME NEW a \in Actors, Teardown(a) PROVE Inv'
  BY <1>3, CheckTerminalPreserves, StopReturnsPreserves, ReapProcessPreserves DEF Teardown
<1>4. ASSUME NEW c \in Callers, Reserve(c) \/ AllocateStep(c) PROVE Inv'
  BY <1>3, <1>4, ReservePreserves, LaunchPreserves, RollbackPreserves, RegisterPreserves,
     AllocateReadyPreserves, WaitFailsPreserves, AllocateFailsPreserves DEF AllocateStep
<1>5. ASSUME NEW r \in Recoverers,
             RecoverLock(r) \/ RecoverStep(r) \/ \E g \in Generations : RecoverBegin(r, g)
      PROVE  Inv'
  BY <1>3, <1>5, RecoverLockPreserves, RecoverEndPreserves, RecoverBeginPreserves
     DEF RecoverStep
<1> QED  BY <1>1, <1>2, <1>4, <1>5 DEF Next

\* The inductive invariant of the allocator over its supervisor.
THEOREM AllocatorInvariant == Spec => []Inv
<1>1. Init => Inv
  BY InitEstablishes
<1>2. Inv /\ [Next]_vars => Inv'
  BY NextPreserves
<1> QED  BY <1>1, <1>2, PTL DEF Spec

\* Type correctness: in particular no port beyond the range is ever reserved.
THEOREM AllocatorTypeCorrect == Spec => []TypeOK
<1>1. Inv => TypeOK
  BY DEF Inv
<1> QED  BY <1>1, AllocatorInvariant, PTL

\* The reserved ports and spools are those of the registered generations.
THEOREM ReservationsIsolated == Spec => []Isolation
<1>1. Inv => Isolation
  BY DEF Inv
<1> QED  BY <1>1, AllocatorInvariant, PTL

\* Every registered generation has exactly one owner who will reap it.
THEOREM EveryProcessOwned == Spec => []OneOwner
<1>1. Inv => OneOwner
  BY DEF Inv
<1> QED  BY <1>1, AllocatorInvariant, PTL

\* The supervisor never refuses a reap of the allocator.
THEOREM ReapsExactlyOnce == Spec => []ReapNeverRefused
<1>1. Inv => ReapNeverRefused
  BY DEF Inv, StageInv, Stage, ReapNeverRefused
<1> QED  BY <1>1, AllocatorInvariant, PTL

\* What Allocate reports is true and stays true.
THEOREM OutcomesTrue == Spec => []OutcomeTruth
<1>1. Inv => OutcomeTruth
  BY DEF Inv
<1> QED  BY <1>1, AllocatorInvariant, PTL

-----------------------------------------------------------------------------
\* A step of the contract of g, or none.
ContractStep(g) == Contract(g)!ProcessNext \/ UNCHANGED Contract(g)!processVars

\* Steps that touch no process satisfy every contract.
LEMMA UntouchedKeepsContract ==
  ASSUME UNCHANGED process, NEW h \in Generations PROVE ContractStep(h)
BY DEF ContractStep, Contract!processVars

\* Stopping a live process is the contract's request; a terminal or a
\* foreign process is left alone.
LEMMA AskKeepsContract ==
  ASSUME TypeOK, NEW g \in Generations, process[g].state \notin TerminalStates,
         process' = [process EXCEPT ![g].asked = TRUE], NEW h \in Generations
  PROVE  ContractStep(h)
<1>1. CASE h = g
  <2>1. /\ process'[h].state = process[h].state /\ process'[h].fact = process[h].fact
        /\ process'[h].asked = TRUE
    BY <1>1 DEF TypeOK, Process
  <2> QED  BY <1>1, <2>1 DEF ContractStep, Contract!ProcessNext, Contract!Ask, Contract!Ended
<1>2. CASE h # g
  BY <1>2 DEF TypeOK, ContractStep, Contract!processVars
<1> QED  BY <1>1, <1>2

\* Every step keeps the contract of every process.
LEMMA NextKeepsContract ==
  ASSUME Inv, Next, NEW h \in Generations PROVE ContractStep(h)
<1> USE DEF Inv, TypeOK, Process
<1>1. ASSUME NEW g \in Generations, ProcessProvesReady(g) PROVE ContractStep(h)
  <2>1. CASE h = g
    <3>1. /\ process[h].state = "starting" /\ process'[h].state = "ready"
          /\ process'[h].fact = TRUE /\ process'[h].asked = process[h].asked
      BY <1>1, <2>1 DEF ProcessProvesReady
    <3> QED  BY <3>1 DEF ContractStep, Contract!ProcessNext, Contract!ProveReady
  <2>2. CASE h # g
    BY <1>1, <2>2 DEF ProcessProvesReady, ContractStep, Contract!processVars
  <2> QED  BY <2>1, <2>2
<1>2. ASSUME NEW g \in Generations, ProcessEnds(g) PROVE ContractStep(h)
  <2>1. CASE h = g
    <3>1. /\ process[h].state \in {"starting", "ready"}
          /\ process'[h].state = "crashed" \/ (process[h].asked /\ process'[h].state = "stopped")
          /\ process'[h].fact = process[h].fact /\ process'[h].asked = process[h].asked
      BY <1>2, <2>1 DEF ProcessEnds
    <3> QED  BY <3>1 DEF ContractStep, Contract!ProcessNext, Contract!End, Contract!Ended
  <2>2. CASE h # g
    BY <1>2, <2>2 DEF ProcessEnds, ContractStep, Contract!processVars
  <2> QED  BY <2>1, <2>2
<1>3. ASSUME NEW g \in Generations, ShutdownStops(g) PROVE ContractStep(h)
  BY <1>3, AskKeepsContract DEF ShutdownStops
<1>4. ASSUME NEW a \in Actors, CheckTerminal(a) PROVE ContractStep(h)
  <2>1. gen[a] \in Generations
    BY <1>4 DEF CallerInv, RecovererInv, CheckTerminal
  <2>2. CASE Terminal(gen[a])
    BY <1>4, <2>2, UntouchedKeepsContract DEF CheckTerminal
  <2>3. CASE ~Terminal(gen[a])
    BY <1>4, <2>1, <2>3, AskKeepsContract DEF CheckTerminal
  <2> QED  BY <2>2, <2>3
<1>5. ASSUME NEW c \in Callers, Launch(c) PROVE ContractStep(h)
  <2>1. gen[c] \in Generations /\ process[gen[c]].state = "none"
    BY <1>5 DEF CallerInv, StageInv, Stage, Launch
  <2>2. CASE h = gen[c]
    <3>1. /\ process[h].state = "none" /\ process'[h].state = "starting"
          /\ process'[h].fact = process[h].fact /\ process'[h].asked = process[h].asked
      BY <1>5, <2>1, <2>2 DEF Launch
    <3> QED  BY <3>1 DEF ContractStep, Contract!processVars
  <2>3. CASE h # gen[c]
    BY <1>5, <2>3 DEF Launch, ContractStep, Contract!processVars
  <2> QED  BY <2>2, <2>3
<1>6. CASE UNCHANGED process
  BY <1>6, UntouchedKeepsContract
<1>7. ASSUME NEW a \in Actors, StopReturns(a) \/ ReapProcess(a) PROVE UNCHANGED process
  BY <1>7 DEF StopReturns, ReapProcess
<1>8. ASSUME NEW c \in Callers,
             Reserve(c) \/ Rollback(c) \/ Register(c) \/ AllocateReady(c) \/ WaitFails(c)
               \/ AllocateFails(c)
      PROVE  UNCHANGED process
  BY <1>8 DEF Reserve, Rollback, Register, AllocateReady, WaitFails, AllocateFails
<1>9. ASSUME NEW r \in Recoverers,
             RecoverLock(r) \/ RecoverEnd(r) \/ \E g \in Generations : RecoverBegin(r, g)
      PROVE  UNCHANGED process
  BY <1>9 DEF RecoverLock, RecoverEnd, RecoverBegin
<1>10. ASSUME NEW g \in Generations, ShutdownReaps(g) PROVE UNCHANGED process
  BY <1>10 DEF ShutdownReaps
<1> QED
  BY <1>1, <1>2, <1>3, <1>4, <1>5, <1>6, <1>7, <1>8, <1>9, <1>10
     DEF Next, Teardown, AllocateStep, RecoverStep

\* The processes stay within the contract the host launcher implements, under
\* the allocator's launches, stops and reaps.
THEOREM ContractKept == Spec => ProcessesKeepContract
<1>1. Inv /\ [Next]_vars
        => [\A g \in Generations :
              Contract(g)!ProcessNext \/ UNCHANGED Contract(g)!processVars]_vars
  BY NextKeepsContract DEF ContractStep
<1> QED  BY <1>1, AllocatorInvariant, PTL DEF Spec, ProcessesKeepContract

-----------------------------------------------------------------------------
(* The preparations and their servers (module ScenarioServer).             *)

\* What holds between a preparation and the one call of Allocate made for it.
PreparationInv ==
  /\ \A p \in Callers :
       /\ pc[p] # "idle" => phase[p] = "ready"
       /\ pc[p] = "idle" => gen[p] = 0
       /\ server[p] # "none" => phase[p] = "ready"
       /\ server[p] = "none" => handle[p] = 0
       /\ server[p] = "process" => pc[p] = "ready" /\ handle[p] = gen[p]
       /\ server[p] = "failure" => pc[p] \in {"idle", "error", "cleanupError"} /\ handle[p] = 0
  /\ \A p, q \in Callers : gen[p] # 0 /\ gen[p] = gen[q] => p = q
  /\ \A g \in allocated : \E p \in Callers : pc[p] = "ready" /\ gen[p] = g
  /\ \A g \in retained : \E p \in Callers : pc[p] = "cleanupError" /\ gen[p] = g

ScenarioInv == Inv /\ ScenarioTypeOK /\ PreparationInv

\* What a step of Allocate does to its caller: it goes on, and hands its
\* generation over exactly when it returns it or fails to reclaim it.
LEMMA AllocateStepEffect ==
  ASSUME NEW p \in Callers, AllocateStep(p)
  PROVE  /\ pc[p] \in Allocating /\ gen' = gen
         /\ \E next \in (Allocating \cup Returned) \ {"idle"} :
              /\ pc' = [pc EXCEPT ![p] = next]
              /\ allocated' = allocated \/ (next = "ready" /\ allocated' = allocated \cup {gen[p]})
              /\ retained' = retained \/ (next = "cleanupError" /\ retained' = retained \cup {gen[p]})
<1>1. CASE Launch(p) \/ Rollback(p) \/ Register(p) \/ WaitFails(p)
  BY <1>1 DEF Launch, Rollback, Register, WaitFails
<1>2. CASE AllocateReady(p)
  BY <1>2 DEF AllocateReady
<1>3. CASE CheckTerminal(p)
  BY <1>3 DEF CheckTerminal
<1>4. CASE StopReturns(p)
  BY <1>4 DEF StopReturns
<1>5. CASE ReapProcess(p)
  BY <1>5 DEF ReapProcess
<1>6. CASE AllocateFails(p)
  BY <1>6 DEF AllocateFails
<1> QED  BY <1>1, <1>2, <1>3, <1>4, <1>5, <1>6 DEF AllocateStep, Teardown

\* The deployment touches no caller, and only takes generations back.
LEMMA DeploymentEffect ==
  ASSUME Inv, Deployment
  PROVE  /\ \A p \in Callers : pc'[p] = pc[p] /\ gen'[p] = gen[p]
         /\ allocated' \subseteq allocated /\ retained' \subseteq retained
<1>1. \A p \in Callers, r \in Recoverers : p # r
  BY ActorsAssumption
<1>2. ASSUME NEW g \in Generations,
             ProcessProvesReady(g) \/ ProcessEnds(g) \/ ShutdownStops(g) \/ ShutdownReaps(g)
      PROVE  pc' = pc /\ gen' = gen /\ allocated' \subseteq allocated /\ retained' \subseteq retained
  BY <1>2 DEF ProcessProvesReady, ProcessEnds, ShutdownStops, ShutdownReaps
<1>3. ASSUME NEW r \in Recoverers,
             RecoverLock(r) \/ RecoverStep(r) \/ \E g \in Generations : RecoverBegin(r, g)
      PROVE  /\ \E next : pc' = [pc EXCEPT ![r] = next]
             /\ gen' = gen \/ \E g : gen' = [gen EXCEPT ![r] = g]
             /\ allocated' \subseteq allocated /\ retained' \subseteq retained
  <2>1. CASE RecoverLock(r)
    BY <2>1 DEF RecoverLock
  <2>2. CASE Teardown(r)
    BY <2>2 DEF Teardown, CheckTerminal, StopReturns, ReapProcess
  <2>3. CASE RecoverEnd(r)
    BY <2>3 DEF RecoverEnd
  <2>4. CASE \E g \in Generations : RecoverBegin(r, g)
    BY <2>4 DEF RecoverBegin
  <2> QED  BY <1>3, <2>1, <2>2, <2>3, <2>4 DEF RecoverStep
<1>4. pc \in [Actors -> Allocating \cup {"lock"} \cup Returned] /\ gen \in [Actors -> Generations \cup {0}]
  BY DEF Inv, TypeOK
<1>5. ASSUME NEW r \in Recoverers, NEW p \in Callers,
             \E next : pc' = [pc EXCEPT ![r] = next],
             gen' = gen \/ \E g : gen' = [gen EXCEPT ![r] = g]
      PROVE  pc'[p] = pc[p] /\ gen'[p] = gen[p]
  BY <1>1, <1>4, <1>5
<1> QED  BY <1>2, <1>3, <1>5 DEF Deployment

\* A preparation that may still move is not ready, and the move keeps types.
LEMMA MovesEffect ==
  ASSUME ScenarioTypeOK, NEW p \in Callers, PreparationMoves(p)
  PROVE  /\ phase[p] # "ready" /\ phase' \in [Callers -> Phases] /\ outcome' \in [Callers -> Outcomes]
         /\ \A q \in Callers : q # p => phase'[q] = phase[q] /\ outcome'[q] = outcome[q]
         /\ UNCHANGED <<vars, server, handle>>
<1>1. phase[p] # "ready"
  BY DEF PreparationMoves, L!Queue, L!Run, L!Finish, L!EndAs
<1> QED  BY <1>1 DEF PreparationMoves, ScenarioTypeOK

\* Every step of the composition is a step of the allocator, or leaves it alone.
LEMMA ScenarioStepsAllocator == ASSUME ScenarioNext PROVE [Next]_vars
<1>1. ASSUME NEW p \in Callers, PreparationMoves(p) PROVE UNCHANGED vars
  BY <1>1 DEF PreparationMoves
<1>2. ASSUME NEW p \in Callers, Serving(p) PROVE [Next]_vars
  BY <1>2 DEF Serving, AllocateForReady, AllocateRefused, RecordAllocation, Next
<1>3. ASSUME Deployment PROVE Next
  BY <1>3 DEF Deployment, Next
<1> QED  BY <1>1, <1>2, <1>3 DEF ScenarioNext

\* A preparation starts an allocation: its generation is one that nobody has.
LEMMA AllocateForReadyKeeps ==
  ASSUME ScenarioInv, NEW p \in Callers, AllocateForReady(p)
  PROVE  PreparationInv'
<1>1. PICK g \in {0, nextGeneration}, next \in {"error", "launch"} :
        pc' = [pc EXCEPT ![p] = next] /\ gen' = [gen EXCEPT ![p] = g]
  BY DEF AllocateForReady, Reserve
<1>2. pc \in [Actors -> Allocating \cup {"lock"} \cup Returned] /\ gen \in [Actors -> Generations \cup {0}]
  BY DEF ScenarioInv, Inv, TypeOK
<1>3. /\ UNCHANGED <<phase, outcome, server, handle, retained, allocated>>
      /\ phase[p] = "ready" /\ server[p] = "none" /\ pc[p] = "idle"
  BY DEF AllocateForReady, Reserve, prepVars
<1>4. \A q \in Callers : q # p => pc'[q] = pc[q] /\ gen'[q] = gen[q]
  BY <1>1, <1>2
<1>5. pc'[p] = next /\ gen'[p] = g
  BY <1>1, <1>2
<1>6. \A q \in Callers : gen[q] # nextGeneration
  BY <1>2, PortsAssumption DEF ScenarioInv, Inv, FreshInv, TypeOK, Generations
<1>7. \A q, r \in Callers : gen'[q] # 0 /\ gen'[q] = gen'[r] => q = r
  BY <1>4, <1>5, <1>6 DEF ScenarioInv, PreparationInv
<1>8. \A q \in Callers :
        /\ pc'[q] # "idle" => phase'[q] = "ready"
        /\ pc'[q] = "idle" => gen'[q] = 0
        /\ server'[q] # "none" => phase'[q] = "ready"
        /\ server'[q] = "none" => handle'[q] = 0
        /\ server'[q] = "process" => pc'[q] = "ready" /\ handle'[q] = gen'[q]
        /\ server'[q] = "failure" => pc'[q] \in {"idle", "error", "cleanupError"} /\ handle'[q] = 0
  BY <1>3, <1>4, <1>5 DEF ScenarioInv, PreparationInv
<1>9. /\ \A h \in allocated' : \E q \in Callers : pc'[q] = "ready" /\ gen'[q] = h
      /\ \A h \in retained' : \E q \in Callers : pc'[q] = "cleanupError" /\ gen'[q] = h
  BY <1>3, <1>4 DEF ScenarioInv, PreparationInv
<1> QED  BY <1>7, <1>8, <1>9 DEF PreparationInv

\* A step of an allocation that is going on.
LEMMA AllocateStepKeeps ==
  ASSUME ScenarioInv, NEW p \in Callers, AllocateStep(p), UNCHANGED prepVars
  PROVE  PreparationInv'
<1>1. PICK next \in (Allocating \cup Returned) \ {"idle"} :
        /\ pc' = [pc EXCEPT ![p] = next]
        /\ allocated' = allocated \/ (next = "ready" /\ allocated' = allocated \cup {gen[p]})
        /\ retained' = retained \/ (next = "cleanupError" /\ retained' = retained \cup {gen[p]})
  BY AllocateStepEffect
<1>2. pc \in [Actors -> Allocating \cup {"lock"} \cup Returned]
  BY DEF ScenarioInv, Inv, TypeOK
<1>3. gen' = gen /\ pc[p] \in Allocating /\ UNCHANGED <<phase, outcome, server, handle>>
  BY AllocateStepEffect DEF prepVars
<1>4. pc'[p] = next /\ \A q \in Callers : q # p => pc'[q] = pc[q]
  BY <1>1, <1>2
<1>5. server[p] = "none" /\ phase[p] = "ready"
  BY <1>3 DEF ScenarioInv, PreparationInv, ScenarioTypeOK
<1>6. \A q \in Callers :
        /\ pc'[q] # "idle" => phase'[q] = "ready"
        /\ pc'[q] = "idle" => gen'[q] = 0
        /\ server'[q] # "none" => phase'[q] = "ready"
        /\ server'[q] = "none" => handle'[q] = 0
        /\ server'[q] = "process" => pc'[q] = "ready" /\ handle'[q] = gen'[q]
        /\ server'[q] = "failure" => pc'[q] \in {"idle", "error", "cleanupError"} /\ handle'[q] = 0
  BY <1>3, <1>4, <1>5 DEF ScenarioInv, PreparationInv
<1>7. /\ \A h \in allocated' : \E q \in Callers : pc'[q] = "ready" /\ gen'[q] = h
      /\ \A h \in retained' : \E q \in Callers : pc'[q] = "cleanupError" /\ gen'[q] = h
  BY <1>1, <1>3, <1>4 DEF ScenarioInv, PreparationInv
<1> QED  BY <1>3, <1>6, <1>7 DEF ScenarioInv, PreparationInv

\* A step of the preparation, or of the recording of its outcome.
LEMMA PreparationSideKeeps ==
  ASSUME ScenarioInv, NEW p \in Callers,
         PreparationMoves(p) \/ AllocateRefused(p) \/ RecordAllocation(p)
  PROVE  PreparationInv'
<1>1. UNCHANGED <<pc, gen, allocated, retained>>
  BY DEF PreparationMoves, AllocateRefused, RecordAllocation, vars
<1>2. CASE PreparationMoves(p)
  BY <1>1, <1>2, MovesEffect DEF ScenarioInv, PreparationInv
<1>3. CASE AllocateRefused(p)
  BY <1>1, <1>3 DEF AllocateRefused, ScenarioInv, ScenarioTypeOK, PreparationInv
<1>4. CASE RecordAllocation(p)
  <2>1. CASE pc[p] = "ready"
    BY <1>1, <1>4, <2>1 DEF RecordAllocation, ScenarioInv, ScenarioTypeOK, PreparationInv
  <2>2. CASE pc[p] # "ready"
    BY <1>1, <1>4, <2>2 DEF RecordAllocation, ScenarioInv, ScenarioTypeOK, PreparationInv
  <2> QED  BY <2>1, <2>2
<1> QED  BY <1>2, <1>3, <1>4

\* Types: a recorded handle is the generation the caller has.
LEMMA ScenarioTypes ==
  ASSUME ScenarioInv, Inv', ScenarioNext
  PROVE  ScenarioTypeOK'
<1>1. TypeOK'
  BY DEF Inv
<1>2. ASSUME NEW p \in Callers, PreparationMoves(p) PROVE ScenarioTypeOK'
  BY <1>1, <1>2, MovesEffect DEF ScenarioInv, ScenarioTypeOK
<1>3. ASSUME NEW p \in Callers, AllocateRefused(p) PROVE ScenarioTypeOK'
  BY <1>1, <1>3 DEF AllocateRefused, ScenarioInv, ScenarioTypeOK
<1>4. ASSUME NEW p \in Callers, RecordAllocation(p) PROVE ScenarioTypeOK'
  <2>1. gen[p] \in Generations \cup {0}
    BY DEF ScenarioInv, Inv, TypeOK
  <2> QED  BY <1>1, <1>4, <2>1 DEF RecordAllocation, ScenarioInv, ScenarioTypeOK
<1>5. ASSUME UNCHANGED prepVars PROVE ScenarioTypeOK'
  BY <1>1, <1>5 DEF prepVars, ScenarioInv, ScenarioTypeOK
<1> QED  BY <1>2, <1>3, <1>4, <1>5 DEF ScenarioNext, Serving, AllocateForReady

\* Every step of the composition keeps the invariant.
LEMMA ScenarioStepKeeps == ScenarioInv /\ [ScenarioNext]_scenarioVars => ScenarioInv'
<1> SUFFICES ASSUME ScenarioInv, [ScenarioNext]_scenarioVars PROVE ScenarioInv'
  OBVIOUS
<1>1. CASE UNCHANGED scenarioVars
  <2>1. Inv'
    BY <1>1, StutterPreserves DEF scenarioVars, ScenarioInv
  <2> QED  BY <1>1, <2>1 DEF scenarioVars, vars, prepVars, ScenarioInv, ScenarioTypeOK, Inv,
              PreparationInv
<1>2. CASE ScenarioNext
  <2>1. Inv'
    BY <1>2, ScenarioStepsAllocator, NextPreserves DEF ScenarioInv
  <2>2. ASSUME NEW p \in Callers, PreparationMoves(p) \/ Serving(p) PROVE PreparationInv'
    BY <2>2, PreparationSideKeeps, AllocateForReadyKeeps, AllocateStepKeeps DEF Serving
  <2>3. ASSUME Deployment, UNCHANGED prepVars PROVE PreparationInv'
    <3>1. \A p \in Callers : pc'[p] = pc[p] /\ gen'[p] = gen[p]
      BY <2>3, DeploymentEffect DEF ScenarioInv
    <3>2. allocated' \subseteq allocated /\ retained' \subseteq retained
      BY <2>3, DeploymentEffect DEF ScenarioInv
    <3> QED  BY <2>3, <3>1, <3>2 DEF prepVars, ScenarioInv, PreparationInv
  <2>4. PreparationInv'
    BY <1>2, <2>2, <2>3 DEF ScenarioNext
  <2> QED  BY <1>2, <2>1, <2>4, ScenarioTypes DEF ScenarioInv
<1> QED  BY <1>1, <1>2

\* The inductive invariant of the preparations over the allocator.
THEOREM ScenarioInvariant == ScenarioSpec => []ScenarioInv
<1>1. ScenarioInit => ScenarioInv
  <2> SUFFICES ASSUME ScenarioInit PROVE ScenarioInv
    OBVIOUS
  <2>1. Inv
    BY InitEstablishes DEF ScenarioInit
  <2>2. ScenarioTypeOK
    BY <2>1 DEF ScenarioInit, ScenarioTypeOK, Inv, Phases, Outcomes
  <2>3. PreparationInv
    BY DEF ScenarioInit, Init, PreparationInv
  <2> QED  BY <2>1, <2>2, <2>3 DEF ScenarioInv
<1> QED  BY <1>1, ScenarioStepKeeps, PTL DEF ScenarioSpec

\* Type correctness of the composition.
THEOREM ScenarioTypeCorrect == ScenarioSpec => []ScenarioTypeOK
<1>1. ScenarioInv => ScenarioTypeOK
  BY DEF ScenarioInv
<1> QED  BY <1>1, ScenarioInvariant, PTL

\* No two preparations ever have the same server process.
THEOREM ServersAreDistinct == ScenarioSpec => []ServersDistinct
<1>1. ScenarioInv => ServersDistinct
  <2> SUFFICES ASSUME ScenarioInv, NEW p \in Callers, NEW q \in Callers,
                      handle[p] # 0, handle[p] = handle[q]
               PROVE  p = q
    BY DEF ServersDistinct
  <2>1. handle[p] = gen[p] /\ handle[q] = gen[q]
    BY DEF ScenarioInv, ScenarioTypeOK, PreparationInv
  <2>2. gen[p] # 0 /\ gen[p] = gen[q] => p = q
    BY DEF ScenarioInv, PreparationInv
  <2> QED  BY <2>1, <2>2
<1> QED  BY <1>1, ScenarioInvariant, PTL

\* Every running process and every reservation belongs to one ready preparation.
THEOREM EveryProcessAccounted == ScenarioSpec => []ProcessesAccounted
<1>1. ScenarioInv => ProcessesAccounted
  <2> SUFFICES ASSUME ScenarioInv, NEW g \in Generations, g \in Registered \/ Live(g)
               PROVE  \E p \in Callers :
                        /\ phase[p] = "ready" /\ gen[p] = g
                        /\ \/ server[p] = "none" /\ pc[p] # "idle"
                           \/ server[p] = "process" /\ handle[p] = g /\ g \in allocated
                           \/ server[p] = "failure" /\ g \in retained
    BY DEF ProcessesAccounted
  <2>1. g \in retained \/ g \in allocated \/ \E c \in Callers : InFlight(c, g)
    BY DEF ScenarioInv, Inv, Isolation, OneOwner, InFlight
  <2>2. CASE g \in retained
    BY <2>2 DEF ScenarioInv, ScenarioTypeOK, PreparationInv
  <2>3. CASE g \in allocated
    BY <2>3 DEF ScenarioInv, ScenarioTypeOK, PreparationInv
  <2>4. CASE \E c \in Callers : InFlight(c, g)
    BY <2>4 DEF InFlight, ScenarioInv, ScenarioTypeOK, PreparationInv
  <2> QED  BY <2>1, <2>2, <2>3, <2>4
<1> QED  BY <1>1, ScenarioInvariant, PTL

\* What a preparation's status says of its server is true.
THEOREM StatusIsTruth == ScenarioSpec => []StatusTruth
<1>1. ScenarioInv => StatusTruth
  <2> SUFFICES ASSUME ScenarioInv, NEW p \in Callers
               PROVE  /\ server[p] = "process" <=> handle[p] # 0
                      /\ handle[p] # 0 => handle[p] = gen[p] /\ process[gen[p]].fact
                      /\ server[p] = "failure" /\ gen[p] # 0 =>
                           gen[p] \in retained \/ (gen[p] \notin Registered /\ ~Live(gen[p]))
    BY Zenon DEF StatusTruth
  <2>1. server[p] \in {"none", "process", "failure"} /\ gen[p] \in Generations \cup {0}
    BY DEF ScenarioInv, ScenarioTypeOK, Inv, TypeOK
  <2>2. server[p] = "process" => gen[p] # 0 /\ process[gen[p]].fact
    BY PortsAssumption DEF ScenarioInv, PreparationInv, Inv, CallerInv, OutcomeTruth, Generations
  <2>3. server[p] = "failure" /\ gen[p] # 0 =>
          gen[p] \in retained \/ (gen[p] \notin Registered /\ ~Live(gen[p]))
    BY DEF ScenarioInv, PreparationInv, Inv, OutcomeTruth
  <2> QED  BY <2>1, <2>2, <2>3 DEF ScenarioInv, PreparationInv
<1> QED  BY <1>1, ScenarioInvariant, PTL

\* The allocator decides one server, once, after the preparation is ready.
THEOREM LifecycleServed == ScenarioSpec => ServesLifecycle
<1>1. ScenarioInv /\ [ScenarioNext]_scenarioVars
        => [\A p \in Callers : L(p)!LifecycleNext \/ UNCHANGED L(p)!lifecycleVars]_scenarioVars
  <2> SUFFICES ASSUME ScenarioInv, ScenarioNext, NEW q \in Callers
               PROVE  L(q)!LifecycleNext \/ UNCHANGED L(q)!lifecycleVars
    OBVIOUS
  <2> USE DEF L!lifecycleVars
  <2>1. ASSUME NEW p \in Callers, PreparationMoves(p)
        PROVE  L(q)!LifecycleNext \/ UNCHANGED L(q)!lifecycleVars
    <3>1. CASE p = q
      BY <2>1, <3>1 DEF PreparationMoves, L!LifecycleNext
    <3>2. CASE p # q
      BY <2>1, <3>2, MovesEffect DEF ScenarioInv
    <3> QED  BY <3>1, <3>2
  <2>2. ASSUME NEW p \in Callers, AllocateRefused(p) \/ RecordAllocation(p)
        PROVE  L(q)!LifecycleNext \/ UNCHANGED L(q)!lifecycleVars
    <3>1. PICK s \in {"process", "failure"} : server' = [server EXCEPT ![p] = s]
      BY <2>2 DEF AllocateRefused, RecordAllocation
    <3>2. phase[p] = "ready" /\ server[p] = "none" /\ UNCHANGED <<phase, outcome>>
      BY <2>2 DEF AllocateRefused, RecordAllocation, ScenarioInv, PreparationInv
    <3>3. CASE p = q
      BY <3>1, <3>2, <3>3 DEF L!LifecycleNext, L!Serve, ScenarioInv, ScenarioTypeOK
    <3>4. CASE p # q
      BY <3>1, <3>2, <3>4 DEF ScenarioInv, ScenarioTypeOK
    <3> QED  BY <3>3, <3>4
  <2>3. CASE UNCHANGED prepVars
    BY <2>3 DEF prepVars
  <2> QED  BY <2>1, <2>2, <2>3 DEF ScenarioNext, Serving, AllocateForReady
<1> QED  BY <1>1, ScenarioInvariant, PTL DEF ScenarioSpec, ServesLifecycle
=============================================================================
