------------------------------ MODULE Launching ------------------------------
(***************************************************************************)
(* How a child is launched, in the steps of Supervisor.Start               *)
(* (server/supervisor.go) and of Launcher.Launch with its undo             *)
(* (server/hostexec/launcher.go), and what outlives the program: the spool *)
(* directories on disk and the children, which run in process groups of    *)
(* their own.  A restarted program starts again from generation 1, the     *)
(* first port and the first directory, and remembers nothing.              *)
(*                                                                         *)
(* Module WorkerAllocator has what happens to a launched process within    *)
(* one run of the program.                                                 *)
(***************************************************************************)
EXTENDS Naturals

CONSTANTS
  Callers,          \* concurrent calls of Start
  MaxGeneration,    \* the last generation that has a port
  MaxLaunches,      \* bounds on the reservations ever made,
  MaxRestarts       \* and on the restarts

ASSUME LaunchingAssumption ==
  MaxGeneration \in Nat \ {0} /\ MaxLaunches \in Nat /\ MaxRestarts \in Nat

VARIABLES
  nextGeneration, reserved,  \* Supervisor: the generations whose id, port and spool are taken
  handles,                   \* Supervisor.processes: the launch registered, or 0
  pc, gen, launch,           \* each call: where it is, its generation, its launch
  dirs,                      \* on disk: the launch that made a spool directory, or 0
  children,                  \* the live children, of all runs
  launches, came, past,      \* history: launches numbered, those whose child
                             \* came up, those of earlier runs
  restarts

supervisorVars == <<nextGeneration, reserved, handles>>
callVars == <<pc, gen, launch>>
historyVars == <<launches, came, past>>
vars == <<supervisorVars, callVars, dirs, children, historyVars, restarts>>

Generations == 1 .. MaxGeneration
Launches == 1 .. MaxLaunches
Child == [generation : Generations, launch : Launches]

\* A launch that has its directory and no child yet.
Making == {"recheck", "start", "undo"}
LaunchPC == {"idle", "inspect", "make", "register", "rollback"} \cup Making

TypeOK ==
  /\ nextGeneration \in 1 .. MaxGeneration + 1 /\ reserved \subseteq Generations
  /\ handles \in [Generations -> Launches \cup {0}]
  /\ pc \in [Callers -> LaunchPC]
  /\ gen \in [Callers -> Generations \cup {0}] /\ launch \in [Callers -> Launches \cup {0}]
  /\ dirs \in [Generations -> Launches \cup {0}]
  /\ children \subseteq Child
  /\ launches \in 0 .. MaxLaunches /\ past \in 0 .. launches /\ came \subseteq 1 .. launches
  /\ restarts \in 0 .. MaxRestarts

Init ==
  /\ nextGeneration = 1 /\ reserved = {}
  /\ handles = [g \in Generations |-> 0]
  /\ pc = [c \in Callers |-> "idle"]
  /\ gen = [c \in Callers |-> 0] /\ launch = [c \in Callers |-> 0]
  /\ dirs = [g \in Generations |-> 0]
  /\ children = {}
  /\ launches = 0 /\ past = 0 /\ came = {} /\ restarts = 0

Goes(c, from, to) ==
  /\ pc[c] = from /\ pc' = [pc EXCEPT ![c] = to]
  /\ UNCHANGED <<gen, launch>>

Returns(c) ==
  /\ pc' = [pc EXCEPT ![c] = "idle"]
  /\ gen' = [gen EXCEPT ![c] = 0] /\ launch' = [launch EXCEPT ![c] = 0]

-----------------------------------------------------------------------------
(* Supervisor.Start.                                                       *)

PortExhausted(g) == g > MaxGeneration

\* allocateSpecLocked.  An exhausted range changes nothing; a reservation that
\* is still held costs a generation.
Reserve(c) ==
  LET g == nextGeneration IN
  /\ pc[c] = "idle" /\ launches < MaxLaunches
  /\ ~PortExhausted(g)
  /\ nextGeneration' = g + 1
  /\ IF g \in reserved THEN UNCHANGED <<reserved, callVars, launches>>
     ELSE /\ reserved' = reserved \cup {g}
          /\ launches' = launches + 1
          /\ pc' = [pc EXCEPT ![c] = "inspect"] /\ gen' = [gen EXCEPT ![c] = g]
          /\ launch' = [launch EXCEPT ![c] = launches']
  /\ UNCHANGED <<handles, dirs, children, came, past, restarts>>

\* Launch failed: the reservation is released, the generation is not.
Rollback(c) ==
  /\ pc[c] = "rollback"
  /\ reserved' = reserved \ {gen[c]}
  /\ Returns(c)
  /\ UNCHANGED <<nextGeneration, handles, dirs, children, historyVars, restarts>>

Register(c) ==
  /\ pc[c] = "register"
  /\ handles' = [handles EXCEPT ![gen[c]] = launch[c]]
  /\ Returns(c)
  /\ UNCHANGED <<nextGeneration, reserved, dirs, children, historyVars, restarts>>

Terminal(g) == [generation |-> g, launch |-> handles[g]] \notin children

ReapRemoving(g) ==
  /\ handles[g] # 0 /\ Terminal(g)
  /\ handles' = [handles EXCEPT ![g] = 0] /\ reserved' = reserved \ {g}
  /\ dirs' = [dirs EXCEPT ![g] = 0]
  /\ UNCHANGED <<nextGeneration, callVars, children, historyVars, restarts>>

ReapLive(g) ==
  /\ handles[g] # 0
  /\ handles' = [handles EXCEPT ![g] = 0] /\ reserved' = reserved \ {g}
  /\ UNCHANGED <<nextGeneration, callVars, dirs, children, historyVars, restarts>>

\* Only a terminal process is reaped; its spool directory stays.
Reap(g) ==
  /\ handles[g] # 0 /\ Terminal(g)
  /\ handles' = [handles EXCEPT ![g] = 0] /\ reserved' = reserved \ {g}
  /\ UNCHANGED <<nextGeneration, callVars, dirs, children, historyVars, restarts>>

-----------------------------------------------------------------------------
(* Launcher.Launch.                                                        *)

\* The context ended, the path is refused, or the disk cannot be read.
LaunchRefused(c) ==
  /\ Goes(c, "inspect", "rollback")
  /\ UNCHANGED <<supervisorVars, dirs, children, historyVars, restarts>>

\* A directory that is already there is as good as a new one.
InspectReusing(c) ==
  /\ Goes(c, "inspect", IF dirs[gen[c]] = 0 THEN "make" ELSE "start")
  /\ UNCHANGED <<supervisorVars, dirs, children, historyVars, restarts>>

\* createSpoolDir.  A directory that is already there is refused, never reused.
Inspect(c) ==
  /\ Goes(c, "inspect", IF dirs[gen[c]] = 0 THEN "make" ELSE "rollback")
  /\ UNCHANGED <<supervisorVars, dirs, children, historyVars, restarts>>

\* Mkdir makes a directory that is not there, or fails.
MakeDir(c) ==
  /\ Goes(c, "make", "recheck")
  /\ dirs[gen[c]] = 0
  /\ dirs' = [dirs EXCEPT ![gen[c]] = launch[c]]
  /\ UNCHANGED <<supervisorVars, children, historyVars, restarts>>

MakeDirFails(c) ==
  /\ Goes(c, "make", "rollback")
  /\ UNCHANGED <<supervisorVars, dirs, children, historyVars, restarts>>

Recheck(c) ==
  /\ Goes(c, "recheck", "start")
  /\ UNCHANGED <<supervisorVars, dirs, children, historyVars, restarts>>

\* The directory does not resolve, or not to one under the root, and is removed.
RecheckFails(c) ==
  /\ Goes(c, "recheck", "rollback")
  /\ dirs' = [dirs EXCEPT ![gen[c]] = 0]
  /\ UNCHANGED <<supervisorVars, children, historyVars, restarts>>

\* The child runs, with its generation, its port and its directory.
StartChild(c) ==
  /\ Goes(c, "start", "register")
  /\ children' = children \cup {[generation |-> gen[c], launch |-> launch[c]]}
  /\ came' = came \cup {launch[c]}
  /\ UNCHANGED <<supervisorVars, dirs, launches, past, restarts>>

StartFailsLeaving(c) ==
  /\ Goes(c, "start", "rollback")
  /\ UNCHANGED <<supervisorVars, dirs, children, historyVars, restarts>>

StartFails(c) ==
  /\ Goes(c, "start", "undo")
  /\ UNCHANGED <<supervisorVars, dirs, children, historyVars, restarts>>

\* The directory that was made is removed again: it is the launch's own and
\* empty, and its removal is taken to succeed, as the code takes it.
Undo(c) ==
  /\ Goes(c, "undo", "rollback")
  /\ dirs' = [dirs EXCEPT ![gen[c]] = 0]
  /\ UNCHANGED <<supervisorVars, children, historyVars, restarts>>

-----------------------------------------------------------------------------
(* The children and the program.                                           *)

ChildEnds(child) ==
  /\ children' = children \ {child}
  /\ UNCHANGED <<supervisorVars, callVars, dirs, historyVars, restarts>>

\* The program ends, wherever its calls are, and is started again.
Restart ==
  /\ restarts < MaxRestarts /\ restarts' = restarts + 1
  /\ nextGeneration' = 1 /\ reserved' = {} /\ handles' = [g \in Generations |-> 0]
  /\ pc' = [c \in Callers |-> "idle"]
  /\ gen' = [c \in Callers |-> 0] /\ launch' = [c \in Callers |-> 0]
  /\ past' = launches
  /\ UNCHANGED <<dirs, children, launches, came>>

Start(c) == Reserve(c) \/ Rollback(c) \/ Register(c)

Launch(c) ==
  \/ LaunchRefused(c) \/ Inspect(c) \/ MakeDir(c) \/ MakeDirFails(c)
  \/ Recheck(c) \/ RecheckFails(c) \/ StartChild(c) \/ StartFails(c) \/ Undo(c)

Next ==
  \/ \E c \in Callers : Start(c) \/ Launch(c)
  \/ \E g \in Generations : Reap(g)
  \/ \E child \in children : ChildEnds(child)
  \/ Restart

Spec == Init /\ [][Next]_vars

-----------------------------------------------------------------------------
\* process-spec.go:8 "Two live processes must never share any of these": also
\* not one that a restarted program launches and one that an earlier run left
\* behind, though both runs number from 1.
LiveIsolated ==
  \A x, y \in children : x.generation = y.generation => x = y

\* launcher.go:264 "stale state is never reused": a child works in a directory
\* that its own launch made, never in one with the files of another child.
FreshSpool == \A x \in children : dirs[x.generation] = x.launch

\* launcher.go:235 "A failed launch leaves no spool directory behind": a
\* directory belongs to a child that came up, to a launch that is going on, or
\* to one that the end of the program cut off.
NoTrace ==
  \A g \in Generations : dirs[g] # 0 =>
    \/ dirs[g] \in came \/ dirs[g] <= past
    \/ \E c \in Callers : pc[c] \in Making /\ launch[c] = dirs[g] /\ gen[c] = g

\* A live child of this run can be stopped and reaped: it is registered, or
\* about to be, and its port and directory are reserved for it.
ChildrenHeld ==
  \A x \in children : x.launch > past =>
    /\ x.generation \in reserved
    /\ \/ handles[x.generation] = x.launch
       \/ \E c \in Callers :
            pc[c] = "register" /\ gen[c] = x.generation /\ launch[c] = x.launch

\* The directory of a child that came up is never removed nor made again: what
\* it published stays for the watcher, whatever fails, is reaped or restarts.
SpoolKept == [][\A g \in Generations : dirs[g] \in came => dirs'[g] = dirs[g]]_vars
=============================================================================
