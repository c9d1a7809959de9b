--------------------------- MODULE LaunchingProofs ---------------------------
(* Proofs about Launching, for any number of calls, generations, launches   *)
(* and restarts.                                                            *)
EXTENDS Launching, TLAPS

\* Where a call is, and what it has on disk.
CallInv ==
  \A c \in Callers :
    /\ pc[c] = "idle" => gen[c] = 0 /\ launch[c] = 0
    /\ pc[c] # "idle" => /\ gen[c] \in reserved /\ handles[gen[c]] = 0
                         /\ launch[c] \in past + 1 .. launches
    /\ pc[c] \in Making \cup {"register"} => dirs[gen[c]] = launch[c]
    /\ pc[c] = "register" <=> launch[c] \in came

\* No two calls have a generation, or a launch, in common.
Apart ==
  \A c, d \in Callers :
    pc[c] # "idle" /\ (gen[c] = gen[d] \/ launch[c] = launch[d]) => c = d

\* What is reserved was handed out, and what is registered came up in this run.
RegistryInv ==
  /\ \A g \in reserved : g < nextGeneration
  /\ \A g \in Generations :
       handles[g] # 0 => g \in reserved /\ handles[g] \in came /\ handles[g] > past

\* What is on disk, or runs, was launched.
OutsideInv ==
  /\ \A g \in Generations : dirs[g] <= launches
  /\ \A x \in children : x.launch \in came

LaunchInv ==
  /\ TypeOK /\ CallInv /\ Apart /\ RegistryInv /\ OutsideInv
  /\ FreshSpool /\ NoTrace /\ ChildrenHeld

USE DEF LaunchPC, Making, Generations, Launches, Child, supervisorVars, callVars, historyVars

-----------------------------------------------------------------------------
LEMMA InitHolds == Init => LaunchInv
<1> SUFFICES ASSUME Init PROVE LaunchInv
  OBVIOUS
<1> USE LaunchingAssumption DEF Init
<1>1. TypeOK
  BY DEF TypeOK
<1>2. CallInv /\ Apart /\ RegistryInv /\ OutsideInv
  BY DEF CallInv, Apart, RegistryInv, OutsideInv
<1>3. FreshSpool /\ NoTrace /\ ChildrenHeld
  BY DEF FreshSpool, NoTrace, ChildrenHeld
<1> QED  BY <1>1, <1>2, <1>3 DEF LaunchInv

\* Moving one call on moves that call only.
LEMMA GoesOn ==
  ASSUME TypeOK, NEW c \in Callers, NEW from, NEW to \in LaunchPC, Goes(c, from, to)
  PROVE  /\ pc[c] = from /\ pc' \in [Callers -> LaunchPC] /\ UNCHANGED <<gen, launch>>
         /\ \A d \in Callers : pc'[d] = IF d = c THEN to ELSE pc[d]
BY DEF Goes, TypeOK

LEMMA ReturnsIdle ==
  ASSUME TypeOK, NEW c \in Callers, Returns(c)
  PROVE  /\ pc' \in [Callers -> LaunchPC]
         /\ gen' \in [Callers -> Generations \cup {0}] /\ launch' \in [Callers -> Launches \cup {0}]
         /\ \A d \in Callers :
              /\ pc'[d] = IF d = c THEN "idle" ELSE pc[d]
              /\ gen'[d] = IF d = c THEN 0 ELSE gen[d]
              /\ launch'[d] = IF d = c THEN 0 ELSE launch[d]
BY DEF Returns, TypeOK

\* A call goes on, and neither makes nor has a directory nor starts a child.
LEMMA MoveKeeps ==
  ASSUME LaunchInv, NEW c \in Callers, NEW from, NEW to \in LaunchPC, Goes(c, from, to),
         from \notin {"idle", "register"}, to \notin {"idle", "register"},
         to \in Making <=> from \in Making,
         UNCHANGED <<supervisorVars, dirs, children, historyVars, restarts>>
  PROVE  LaunchInv'
<1>1. /\ pc[c] = from /\ pc' \in [Callers -> LaunchPC] /\ UNCHANGED <<gen, launch>>
      /\ \A d \in Callers : pc'[d] = IF d = c THEN to ELSE pc[d]
  BY GoesOn DEF LaunchInv
<1>2. TypeOK'
  BY <1>1 DEF LaunchInv, TypeOK
<1>3. CallInv'
  BY <1>1 DEF LaunchInv, TypeOK, CallInv, Apart
<1>4. Apart'
  BY <1>1 DEF LaunchInv, TypeOK, CallInv, Apart
<1>5. RegistryInv'
  BY <1>1 DEF LaunchInv, TypeOK, CallInv, RegistryInv
<1>6. OutsideInv'
  BY <1>1 DEF LaunchInv, TypeOK, CallInv, OutsideInv
<1>7. FreshSpool'
  BY <1>1 DEF LaunchInv, TypeOK, CallInv, FreshSpool, OutsideInv
<1>8. NoTrace'
  BY <1>1 DEF LaunchInv, TypeOK, CallInv, NoTrace, Apart, OutsideInv
<1>9. ChildrenHeld'
  BY <1>1 DEF LaunchInv, TypeOK, CallInv, ChildrenHeld, Apart, OutsideInv, RegistryInv
<1> QED  BY <1>2, <1>3, <1>4, <1>5, <1>6, <1>7, <1>8, <1>9 DEF LaunchInv

\* A directory is made where there is none.
LEMMA MakeDirKeeps ==
  ASSUME LaunchInv, NEW c \in Callers, MakeDir(c)
  PROVE  LaunchInv'
<1>1. /\ pc[c] = "make" /\ pc' \in [Callers -> LaunchPC] /\ UNCHANGED <<gen, launch>>
      /\ \A d \in Callers : pc'[d] = IF d = c THEN "recheck" ELSE pc[d]
  BY GoesOn DEF LaunchInv, MakeDir
<1>2. /\ dirs[gen[c]] = 0 /\ gen[c] \in Generations /\ launch[c] \in past + 1 .. launches
      /\ launch[c] \in Launches /\ launch[c] \notin came
  BY <1>1 DEF LaunchInv, TypeOK, CallInv, MakeDir
<1>3. /\ dirs' \in [Generations -> Launches \cup {0}]
      /\ \A g \in Generations : dirs'[g] = IF g = gen[c] THEN launch[c] ELSE dirs[g]
  BY <1>2 DEF LaunchInv, TypeOK, MakeDir
<1>4. UNCHANGED <<supervisorVars, children, historyVars, restarts>>
  BY DEF MakeDir
<1>5. TypeOK'
  BY <1>1, <1>2, <1>3, <1>4 DEF LaunchInv, TypeOK
<1>6. CallInv'
  BY <1>1, <1>2, <1>3, <1>4 DEF LaunchInv, TypeOK, CallInv, Apart
<1>7. Apart'
  BY <1>1, <1>2, <1>3, <1>4 DEF LaunchInv, TypeOK, CallInv, Apart
<1>8. RegistryInv'
  BY <1>1, <1>2, <1>3, <1>4 DEF LaunchInv, TypeOK, CallInv, RegistryInv
<1>9. OutsideInv'
  BY <1>1, <1>2, <1>3, <1>4 DEF LaunchInv, TypeOK, CallInv, OutsideInv
<1>10. FreshSpool'
  BY <1>1, <1>2, <1>3, <1>4 DEF LaunchInv, TypeOK, CallInv, FreshSpool, OutsideInv
<1>11. NoTrace'
  BY <1>1, <1>2, <1>3, <1>4 DEF LaunchInv, TypeOK, CallInv, NoTrace, Apart, OutsideInv
<1>12. ChildrenHeld'
  BY <1>1, <1>2, <1>3, <1>4 DEF LaunchInv, TypeOK, CallInv, ChildrenHeld, Apart, OutsideInv, RegistryInv
<1> QED  BY <1>5, <1>6, <1>7, <1>8, <1>9, <1>10, <1>11, <1>12 DEF LaunchInv

\* The directory of a launch without a child is removed.
LEMMA RemoveKeeps ==
  ASSUME LaunchInv, NEW c \in Callers, RecheckFails(c) \/ Undo(c)
  PROVE  LaunchInv'
<1>1. /\ pc[c] \in Making /\ pc' \in [Callers -> LaunchPC] /\ UNCHANGED <<gen, launch>>
      /\ \A d \in Callers : pc'[d] = IF d = c THEN "rollback" ELSE pc[d]
  BY GoesOn DEF LaunchInv, RecheckFails, Undo
<1>2. dirs[gen[c]] = launch[c] /\ gen[c] \in Generations /\ launch[c] \notin came
  BY <1>1 DEF LaunchInv, TypeOK, CallInv
<1>3. /\ dirs' \in [Generations -> Launches \cup {0}]
      /\ \A g \in Generations : dirs'[g] = IF g = gen[c] THEN 0 ELSE dirs[g]
  BY <1>2 DEF LaunchInv, TypeOK, RecheckFails, Undo
<1>4. UNCHANGED <<supervisorVars, children, historyVars, restarts>>
  BY DEF RecheckFails, Undo
<1>5. TypeOK'
  BY <1>1, <1>2, <1>3, <1>4 DEF LaunchInv, TypeOK
<1>6. CallInv'
  BY <1>1, <1>2, <1>3, <1>4 DEF LaunchInv, TypeOK, CallInv, Apart
<1>7. Apart'
  BY <1>1, <1>2, <1>3, <1>4 DEF LaunchInv, TypeOK, CallInv, Apart
<1>8. RegistryInv'
  BY <1>1, <1>2, <1>3, <1>4 DEF LaunchInv, TypeOK, CallInv, RegistryInv
<1>9. OutsideInv'
  BY <1>1, <1>2, <1>3, <1>4 DEF LaunchInv, TypeOK, CallInv, OutsideInv
<1>10. FreshSpool'
  BY <1>1, <1>2, <1>3, <1>4 DEF LaunchInv, TypeOK, CallInv, FreshSpool, OutsideInv
<1>11. NoTrace'
  BY <1>1, <1>2, <1>3, <1>4 DEF LaunchInv, TypeOK, CallInv, NoTrace, Apart, OutsideInv
<1>12. ChildrenHeld'
  BY <1>1, <1>2, <1>3, <1>4 DEF LaunchInv, TypeOK, CallInv, ChildrenHeld, Apart, OutsideInv, RegistryInv
<1> QED  BY <1>5, <1>6, <1>7, <1>8, <1>9, <1>10, <1>11, <1>12 DEF LaunchInv

\* A child comes up in the directory its launch made.
LEMMA StartChildKeeps ==
  ASSUME LaunchInv, NEW c \in Callers, StartChild(c)
  PROVE  LaunchInv'
<1>1. /\ pc[c] = "start" /\ pc' \in [Callers -> LaunchPC] /\ UNCHANGED <<gen, launch>>
      /\ \A d \in Callers : pc'[d] = IF d = c THEN "register" ELSE pc[d]
  BY GoesOn DEF LaunchInv, StartChild
<1>2. /\ dirs[gen[c]] = launch[c] /\ gen[c] \in Generations /\ gen[c] \in reserved
      /\ launch[c] \in Launches /\ launch[c] \in past + 1 .. launches
  BY <1>1 DEF LaunchInv, TypeOK, CallInv
<1>3. /\ came' = came \cup {launch[c]}
      /\ children' = children \cup {[generation |-> gen[c], launch |-> launch[c]]}
      /\ UNCHANGED <<supervisorVars, dirs, launches, past, restarts>>
  BY DEF StartChild
<1>4. TypeOK'
  <2>1. [generation |-> gen[c], launch |-> launch[c]] \in Child
    BY <1>2
  <2>2. launch[c] \in 1 .. launches
    BY <1>2, LaunchingAssumption DEF LaunchInv, TypeOK
  <2> QED  BY <1>1, <1>3, <2>1, <2>2 DEF LaunchInv, TypeOK
<1>5. CallInv'
  BY <1>1, <1>2, <1>3 DEF LaunchInv, TypeOK, CallInv, Apart
<1>6. Apart'
  BY <1>1, <1>2, <1>3 DEF LaunchInv, TypeOK, CallInv, Apart
<1>7. RegistryInv'
  BY <1>1, <1>2, <1>3 DEF LaunchInv, TypeOK, CallInv, RegistryInv
<1>8. OutsideInv'
  BY <1>1, <1>2, <1>3 DEF LaunchInv, TypeOK, CallInv, OutsideInv
<1>9. FreshSpool'
  BY <1>1, <1>2, <1>3 DEF LaunchInv, TypeOK, CallInv, FreshSpool, OutsideInv
<1>10. NoTrace'
  BY <1>1, <1>2, <1>3 DEF LaunchInv, TypeOK, CallInv, NoTrace, Apart, OutsideInv
<1>11. ChildrenHeld'
  BY <1>1, <1>2, <1>3 DEF LaunchInv, TypeOK, CallInv, ChildrenHeld, Apart, OutsideInv, RegistryInv
<1> QED  BY <1>4, <1>5, <1>6, <1>7, <1>8, <1>9, <1>10, <1>11 DEF LaunchInv

\* A generation nobody has is reserved, for a new launch.
LEMMA ReserveKeeps ==
  ASSUME LaunchInv, NEW c \in Callers, Reserve(c)
  PROVE  LaunchInv'
<1>1. nextGeneration \in Generations /\ nextGeneration \notin reserved /\ handles[nextGeneration] = 0
  BY LaunchingAssumption DEF LaunchInv, TypeOK, RegistryInv, Reserve, PortExhausted
<1>2. /\ pc[c] = "idle" /\ launches < MaxLaunches /\ launches' = launches + 1
      /\ nextGeneration' = nextGeneration + 1 /\ reserved' = reserved \cup {nextGeneration}
      /\ UNCHANGED <<handles, dirs, children, came, past, restarts>>
  BY <1>1 DEF Reserve
<1>3. launches + 1 \in Launches
  BY <1>2, LaunchingAssumption DEF LaunchInv, TypeOK
<1>4. /\ pc' \in [Callers -> LaunchPC]
      /\ gen' \in [Callers -> Generations \cup {0}] /\ launch' \in [Callers -> Launches \cup {0}]
      /\ \A d \in Callers :
           /\ pc'[d] = IF d = c THEN "inspect" ELSE pc[d]
           /\ gen'[d] = IF d = c THEN nextGeneration ELSE gen[d]
           /\ launch'[d] = IF d = c THEN launches + 1 ELSE launch[d]
  <2>1. /\ pc' = [pc EXCEPT ![c] = "inspect"] /\ gen' = [gen EXCEPT ![c] = nextGeneration]
        /\ launch' = [launch EXCEPT ![c] = launches + 1]
    BY <1>1 DEF Reserve
  <2> QED  BY <1>1, <1>3, <2>1 DEF LaunchInv, TypeOK
<1>5. TypeOK'
  BY <1>1, <1>2, <1>3, <1>4, LaunchingAssumption DEF LaunchInv, TypeOK
<1>6. CallInv'
  BY <1>1, <1>2, <1>3, <1>4, LaunchingAssumption DEF LaunchInv, TypeOK, CallInv, Apart
<1>7. Apart'
  BY <1>1, <1>2, <1>3, <1>4, LaunchingAssumption DEF LaunchInv, TypeOK, CallInv, Apart
<1>8. RegistryInv'
  BY <1>1, <1>2, <1>3, <1>4, LaunchingAssumption DEF LaunchInv, TypeOK, CallInv, RegistryInv
<1>9. OutsideInv'
  BY <1>2, LaunchingAssumption DEF LaunchInv, TypeOK, OutsideInv
<1>10. FreshSpool'
  BY <1>1, <1>2, <1>3, <1>4, LaunchingAssumption DEF LaunchInv, TypeOK, CallInv, FreshSpool, OutsideInv
<1>11. NoTrace'
  BY <1>1, <1>2, <1>3, <1>4, LaunchingAssumption DEF LaunchInv, TypeOK, CallInv, NoTrace, Apart, OutsideInv
<1>12. ChildrenHeld'
  BY <1>1, <1>2, <1>3, <1>4, LaunchingAssumption DEF LaunchInv, TypeOK, CallInv, ChildrenHeld, Apart, OutsideInv, RegistryInv
<1> QED  BY <1>5, <1>6, <1>7, <1>8, <1>9, <1>10, <1>11, <1>12 DEF LaunchInv

\* A failed launch gives its reservation back.
LEMMA RollbackKeeps ==
  ASSUME LaunchInv, NEW c \in Callers, Rollback(c)
  PROVE  LaunchInv'
<1>1. /\ pc' \in [Callers -> LaunchPC]
      /\ gen' \in [Callers -> Generations \cup {0}] /\ launch' \in [Callers -> Launches \cup {0}]
      /\ \A d \in Callers :
           /\ pc'[d] = IF d = c THEN "idle" ELSE pc[d]
           /\ gen'[d] = IF d = c THEN 0 ELSE gen[d]
           /\ launch'[d] = IF d = c THEN 0 ELSE launch[d]
  BY ReturnsIdle DEF LaunchInv, Rollback
<1>2. /\ pc[c] = "rollback" /\ reserved' = reserved \ {gen[c]}
      /\ UNCHANGED <<nextGeneration, handles, dirs, children, historyVars, restarts>>
  BY DEF Rollback
<1>3. TypeOK'
  BY <1>1, <1>2 DEF LaunchInv, TypeOK
<1>4. CallInv'
  BY <1>1, <1>2 DEF LaunchInv, TypeOK, CallInv, Apart
<1>5. Apart'
  BY <1>1, <1>2 DEF LaunchInv, TypeOK, CallInv, Apart
<1>6. RegistryInv'
  BY <1>1, <1>2 DEF LaunchInv, TypeOK, CallInv, RegistryInv
<1>7. OutsideInv'
  BY <1>1, <1>2 DEF LaunchInv, TypeOK, CallInv, OutsideInv
<1>8. FreshSpool'
  BY <1>1, <1>2 DEF LaunchInv, TypeOK, CallInv, FreshSpool, OutsideInv
<1>9. NoTrace'
  BY <1>1, <1>2 DEF LaunchInv, TypeOK, CallInv, NoTrace, Apart, OutsideInv
<1>10. ChildrenHeld'
  BY <1>1, <1>2 DEF LaunchInv, TypeOK, CallInv, ChildrenHeld, Apart, OutsideInv, RegistryInv
<1> QED  BY <1>3, <1>4, <1>5, <1>6, <1>7, <1>8, <1>9, <1>10 DEF LaunchInv

\* The launched process is registered.
LEMMA RegisterKeeps ==
  ASSUME LaunchInv, NEW c \in Callers, Register(c)
  PROVE  LaunchInv'
<1>1. /\ pc' \in [Callers -> LaunchPC]
      /\ gen' \in [Callers -> Generations \cup {0}] /\ launch' \in [Callers -> Launches \cup {0}]
      /\ \A d \in Callers :
           /\ pc'[d] = IF d = c THEN "idle" ELSE pc[d]
           /\ gen'[d] = IF d = c THEN 0 ELSE gen[d]
           /\ launch'[d] = IF d = c THEN 0 ELSE launch[d]
  BY ReturnsIdle DEF LaunchInv, Register
<1>2. /\ pc[c] = "register" /\ launch[c] \in came /\ launch[c] \in past + 1 .. launches
      /\ gen[c] \in Generations /\ gen[c] \in reserved /\ launch[c] \in Launches
      /\ UNCHANGED <<nextGeneration, reserved, dirs, children, historyVars, restarts>>
  BY DEF LaunchInv, TypeOK, CallInv, Register
<1>3. /\ handles' \in [Generations -> Launches \cup {0}]
      /\ \A g \in Generations : handles'[g] = IF g = gen[c] THEN launch[c] ELSE handles[g]
  BY <1>2 DEF LaunchInv, TypeOK, Register
<1>4. TypeOK'
  BY <1>1, <1>2, <1>3 DEF LaunchInv, TypeOK
<1>5. CallInv'
  BY <1>1, <1>2, <1>3 DEF LaunchInv, TypeOK, CallInv, Apart
<1>6. Apart'
  BY <1>1, <1>2, <1>3 DEF LaunchInv, TypeOK, CallInv, Apart
<1>7. RegistryInv'
  BY <1>1, <1>2, <1>3 DEF LaunchInv, TypeOK, CallInv, RegistryInv
<1>8. OutsideInv'
  BY <1>1, <1>2, <1>3 DEF LaunchInv, TypeOK, CallInv, OutsideInv
<1>9. FreshSpool'
  BY <1>1, <1>2, <1>3 DEF LaunchInv, TypeOK, CallInv, FreshSpool, OutsideInv
<1>10. NoTrace'
  BY <1>1, <1>2, <1>3 DEF LaunchInv, TypeOK, CallInv, NoTrace, Apart, OutsideInv
<1>11. ChildrenHeld'
  BY <1>1, <1>2, <1>3 DEF LaunchInv, TypeOK, CallInv, ChildrenHeld, Apart, OutsideInv, RegistryInv
<1> QED  BY <1>4, <1>5, <1>6, <1>7, <1>8, <1>9, <1>10, <1>11 DEF LaunchInv

\* A terminal process is reaped.
LEMMA ReapKeeps ==
  ASSUME LaunchInv, NEW g \in Generations, Reap(g)
  PROVE  LaunchInv'
<1>1. /\ handles[g] # 0 /\ [generation |-> g, launch |-> handles[g]] \notin children
      /\ reserved' = reserved \ {g}
      /\ UNCHANGED <<nextGeneration, callVars, dirs, children, historyVars, restarts>>
  BY DEF Reap, Terminal
<1>2. /\ handles' \in [Generations -> Launches \cup {0}]
      /\ \A h \in Generations : handles'[h] = IF h = g THEN 0 ELSE handles[h]
  BY DEF LaunchInv, TypeOK, Reap
<1>3. \A x \in children : x.generation = g => x.launch # handles[g]
  BY <1>1 DEF LaunchInv, TypeOK
<1>4. TypeOK'
  BY <1>1, <1>2, <1>3 DEF LaunchInv, TypeOK
<1>5. CallInv'
  BY <1>1, <1>2, <1>3 DEF LaunchInv, TypeOK, CallInv, Apart
<1>6. Apart'
  BY <1>1, <1>2, <1>3 DEF LaunchInv, TypeOK, CallInv, Apart
<1>7. RegistryInv'
  BY <1>1, <1>2, <1>3 DEF LaunchInv, TypeOK, CallInv, RegistryInv
<1>8. OutsideInv'
  BY <1>1, <1>2, <1>3 DEF LaunchInv, TypeOK, CallInv, OutsideInv
<1>9. FreshSpool'
  BY <1>1, <1>2, <1>3 DEF LaunchInv, TypeOK, CallInv, FreshSpool, OutsideInv
<1>10. NoTrace'
  BY <1>1, <1>2, <1>3 DEF LaunchInv, TypeOK, CallInv, NoTrace, Apart, OutsideInv
<1>11. ChildrenHeld'
  BY <1>1, <1>2, <1>3 DEF LaunchInv, TypeOK, CallInv, ChildrenHeld, Apart, OutsideInv, RegistryInv
<1> QED  BY <1>4, <1>5, <1>6, <1>7, <1>8, <1>9, <1>10, <1>11 DEF LaunchInv

\* A child ends.
LEMMA ChildEndsKeeps ==
  ASSUME LaunchInv, NEW child \in children, ChildEnds(child)
  PROVE  LaunchInv'
<1>1. /\ children' \subseteq children
      /\ UNCHANGED <<supervisorVars, callVars, dirs, historyVars, restarts>>
  BY DEF ChildEnds
<1>2. TypeOK'
  BY <1>1 DEF LaunchInv, TypeOK
<1>3. CallInv'
  BY <1>1 DEF LaunchInv, TypeOK, CallInv, Apart
<1>4. Apart'
  BY <1>1 DEF LaunchInv, TypeOK, CallInv, Apart
<1>5. RegistryInv'
  BY <1>1 DEF LaunchInv, TypeOK, CallInv, RegistryInv
<1>6. OutsideInv'
  BY <1>1 DEF LaunchInv, TypeOK, CallInv, OutsideInv
<1>7. FreshSpool'
  BY <1>1 DEF LaunchInv, TypeOK, CallInv, FreshSpool, OutsideInv
<1>8. NoTrace'
  BY <1>1 DEF LaunchInv, TypeOK, CallInv, NoTrace, Apart, OutsideInv
<1>9. ChildrenHeld'
  BY <1>1 DEF LaunchInv, TypeOK, CallInv, ChildrenHeld, Apart, OutsideInv, RegistryInv
<1> QED  BY <1>2, <1>3, <1>4, <1>5, <1>6, <1>7, <1>8, <1>9 DEF LaunchInv

\* The program is restarted: directories and children stay.
LEMMA RestartKeeps ==
  ASSUME LaunchInv, Restart
  PROVE  LaunchInv'
<1>1. /\ nextGeneration' = 1 /\ reserved' = {} /\ past' = launches
      /\ restarts' \in 0 .. MaxRestarts
      /\ UNCHANGED <<dirs, children, launches, came>>
  BY LaunchingAssumption DEF LaunchInv, TypeOK, Restart
<1>2. /\ handles' \in [Generations -> Launches \cup {0}] /\ pc' \in [Callers -> LaunchPC]
      /\ gen' \in [Callers -> Generations \cup {0}] /\ launch' \in [Callers -> Launches \cup {0}]
      /\ \A g \in Generations : handles'[g] = 0
      /\ \A c \in Callers : pc'[c] = "idle" /\ gen'[c] = 0 /\ launch'[c] = 0
  BY DEF Restart
<1>3. TypeOK'
  BY <1>1, <1>2, LaunchingAssumption DEF LaunchInv, TypeOK
<1>4. CallInv'
  BY <1>1, <1>2, LaunchingAssumption DEF LaunchInv, TypeOK, CallInv, Apart
<1>5. Apart'
  BY <1>1, <1>2, LaunchingAssumption DEF LaunchInv, TypeOK, CallInv, Apart
<1>6. RegistryInv'
  BY <1>1, <1>2, LaunchingAssumption DEF LaunchInv, TypeOK, CallInv, RegistryInv
<1>7. OutsideInv'
  BY <1>1, <1>2, LaunchingAssumption DEF LaunchInv, TypeOK, CallInv, OutsideInv
<1>8. FreshSpool'
  BY <1>1, <1>2, LaunchingAssumption DEF LaunchInv, TypeOK, CallInv, FreshSpool, OutsideInv
<1>9. NoTrace'
  BY <1>1, <1>2, LaunchingAssumption DEF LaunchInv, TypeOK, CallInv, NoTrace, Apart, OutsideInv
<1>10. ChildrenHeld'
  BY <1>1, <1>2, LaunchingAssumption DEF LaunchInv, TypeOK, CallInv, ChildrenHeld, Apart, OutsideInv, RegistryInv
<1> QED  BY <1>3, <1>4, <1>5, <1>6, <1>7, <1>8, <1>9, <1>10 DEF LaunchInv

\* Every step keeps the invariant.
LEMMA StepKeeps == LaunchInv /\ [Next]_vars => LaunchInv'
<1> SUFFICES ASSUME LaunchInv, [Next]_vars PROVE LaunchInv'
  OBVIOUS
<1>1. CASE UNCHANGED vars
  BY <1>1 DEF vars, LaunchInv, TypeOK, CallInv, Apart, RegistryInv, OutsideInv, FreshSpool, NoTrace,
              ChildrenHeld
<1>2. ASSUME NEW c \in Callers, Start(c) PROVE LaunchInv'
  BY <1>2, ReserveKeeps, RollbackKeeps, RegisterKeeps DEF Start
<1>3. ASSUME NEW c \in Callers, Launch(c) PROVE LaunchInv'
  <2>1. CASE LaunchRefused(c) \/ MakeDirFails(c) \/ Recheck(c) \/ StartFails(c)
    BY <2>1, MoveKeeps DEF LaunchRefused, MakeDirFails, Recheck, StartFails
  <2>2. CASE Inspect(c)
    BY <2>2, MoveKeeps DEF Inspect
  <2> QED  BY <1>3, <2>1, <2>2, MakeDirKeeps, RemoveKeeps, StartChildKeeps DEF Launch
<1> QED  BY <1>1, <1>2, <1>3, ReapKeeps, ChildEndsKeeps, RestartKeeps DEF Next

-----------------------------------------------------------------------------
(* The theorems.                                                           *)

\* The inductive invariant of launching.
THEOREM LaunchInvariant == Spec => []LaunchInv
  BY InitHolds, StepKeeps, PTL DEF Spec

\* Type correctness; in particular no generation beyond the last port.
THEOREM LaunchTypeCorrect == Spec => []TypeOK
<1>1. LaunchInv => TypeOK
  BY DEF LaunchInv
<1> QED  BY <1>1, LaunchInvariant, PTL

\* A child works in the directory its own launch made (launcher.go:264).
THEOREM SpoolIsFresh == Spec => []FreshSpool
<1>1. LaunchInv => FreshSpool
  BY DEF LaunchInv
<1> QED  BY <1>1, LaunchInvariant, PTL

\* Two live children share neither generation, port nor directory, however
\* often the program is restarted over them (process-spec.go:8).
THEOREM ChildrenIsolated == Spec => []LiveIsolated
<1>1. LaunchInv => LiveIsolated
  BY DEF LaunchInv, TypeOK, FreshSpool, LiveIsolated
<1> QED  BY <1>1, LaunchInvariant, PTL

\* A failed launch leaves no spool directory behind (launcher.go:235).
THEOREM FailuresLeaveNothing == Spec => []NoTrace
<1>1. LaunchInv => NoTrace
  BY DEF LaunchInv
<1> QED  BY <1>1, LaunchInvariant, PTL

\* A live child of this run is registered, or about to be, under its reservation.
THEOREM EveryChildHeld == Spec => []ChildrenHeld
<1>1. LaunchInv => ChildrenHeld
  BY DEF LaunchInv
<1> QED  BY <1>1, LaunchInvariant, PTL

\* The directory of a child that came up is never removed nor made again.
THEOREM PublishedIsKept == Spec => SpoolKept
<1>1. LaunchInv /\ [Next]_vars => [\A g \in Generations : dirs[g] \in came => dirs'[g] = dirs[g]]_vars
  <2> SUFFICES ASSUME LaunchInv, Next, NEW g \in Generations, dirs[g] \in came
               PROVE  dirs'[g] = dirs[g]
    OBVIOUS
  <2>1. dirs \in [Generations -> Launches \cup {0}] /\ dirs[g] # 0
    BY DEF LaunchInv, TypeOK
  <2>2. ASSUME NEW c \in Callers, Start(c) PROVE dirs'[g] = dirs[g]
    BY <2>2 DEF Start, Reserve, Rollback, Register
  <2>3. ASSUME NEW c \in Callers, MakeDir(c) PROVE dirs'[g] = dirs[g]
    BY <2>1, <2>3 DEF MakeDir
  <2>4. ASSUME NEW c \in Callers, RecheckFails(c) \/ Undo(c) PROVE dirs'[g] = dirs[g]
    <3>1. pc[c] \in Making
      BY <2>4, GoesOn DEF LaunchInv, RecheckFails, Undo
    <3>2. dirs[gen[c]] = launch[c] /\ launch[c] \notin came
      BY <3>1 DEF LaunchInv, CallInv
    <3> QED  BY <2>1, <2>4, <3>2 DEF RecheckFails, Undo
  <2>5. ASSUME NEW c \in Callers, Launch(c) PROVE dirs'[g] = dirs[g]
    BY <2>3, <2>4, <2>5 DEF Launch, LaunchRefused, Inspect, MakeDirFails, Recheck, StartChild, StartFails
  <2>6. ASSUME (\E h \in Generations : Reap(h)) \/ (\E child \in children : ChildEnds(child)) \/ Restart
        PROVE  dirs' = dirs
    BY <2>6 DEF Reap, ChildEnds, Restart
  <2> QED  BY <2>2, <2>5, <2>6 DEF Next
<1> QED  BY <1>1, LaunchInvariant, PTL DEF Spec, SpoolKept
=============================================================================
