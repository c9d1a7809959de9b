------------------------- MODULE HostProcessProofs -------------------------
(***************************************************************************)
(* Proofs about HostProcess, for any number of callers of Stop,            *)
(* WaitReadiness and WaitTerminal.                                         *)
(***************************************************************************)
EXTENDS HostProcess, TLAPS

\* The reaper alone makes the state terminal, when the child is gone, and
\* opens the delivery of artifacts before it delivers any.
PhaseInv ==
  /\ reaper = "done" <=> Terminal
  /\ Terminal => done /\ waitCh /\ readyCh
  /\ done => Terminal
  /\ reaper # "wait" => child # "alive"
  /\ reaper \in {"deliver", "record"} => state \in {"running", "ready"}

\* The first line is in the buffer, has ended the scan or is the next to be
\* read; a dead child writes nothing more, the reaper waits for the captures to
\* read what it wrote, and delivers what the buffer then holds.
StreamInv ==
  /\ stdoutBuf => first = "fits"
  /\ scanner = "scanning" /\ ~stdoutBuf /\ pipe = <<>> => first = "none"
  /\ scanner = "scanning" /\ ~stdoutBuf /\ pipe # <<>>
       => first = IF Head(pipe) = "overlong" THEN "overlong" ELSE "fits"
  /\ scanner = "draining" => pipe = <<>>
  /\ scanner = "draining" /\ ~stdoutBuf => first = "overlong"

OutputInv ==
  /\ StreamInv
  /\ reaper \in {"running", "deliver", "record", "done"} => pipe = <<>>
  /\ artifacts => reaper \in {"record", "done"}
  /\ reaper \in {"record", "done"} => (artifacts <=> stdoutBuf)

\* Where a reason and a stop request come from.
ReasonInv ==
  /\ state = "crashed" <=> reason # "none"
  /\ state = "stopped" => stopOnce /\ ~pendingCrash
  /\ reason = "readiness_timeout" <=> Terminal /\ pendingCrash
  /\ stopRequested => stopOnce \/ pendingCrash

\* Every Stop under way knows of an owner of the teardown, which is still
\* waiting or has seen the exit or asked for the kill.
StopInv ==
  /\ \A s \in Stoppers : stopper[s] \in {"stopped", "crashed"} => state = stopper[s]
  /\ \A s \in Stoppers : stopper[s] \in {"signal", "wait", "join", "ctx"} => stopOnce
  /\ stopOnce => \/ \E t \in Stoppers : stopper[t] \in {"signal", "wait"}
                 \/ child # "alive"
                 \/ "kill" \in signals

HostInv == TypeOK /\ PhaseInv /\ OutputInv /\ ReasonInv /\ StopInv

USE DEF stateVars, channelVars, streamVars, childVars, goroutineVars, callerVars, vars

LEMMA HostInit == Init => HostInv
<1>1. Init => TypeOK
  <2>1. <<>> \in Seq(Lines)
    OBVIOUS
  <2>2. Init => pipe \in Seq(Lines)
    BY <2>1 DEF Init
  <2>3. QED
    BY <2>2 DEF Init, TypeOK
<1>2. Init => PhaseInv /\ OutputInv /\ ReasonInv
  BY DEF Init, PhaseInv, OutputInv, StreamInv, ReasonInv, Terminal, TerminalStates
<1>3. Init => StopInv
  BY DEF Init, StopInv
<1>4. QED
  BY <1>1, <1>2, <1>3 DEF HostInv

LEMMA TypeStep == TypeOK /\ PhaseInv /\ [Next]_vars => TypeOK'
<1> SUFFICES ASSUME TypeOK, PhaseInv, [Next]_vars PROVE TypeOK'
  OBVIOUS
<1> USE DEF TypeOK
<1>1. CASE Child
  <2>1. ASSUME NEW l \in Lines, ChildWrites(l) PROVE TypeOK'
    <3>1. pipe' \in Seq(Lines) /\ first' \in {"none", "fits", "overlong"}
      BY <2>1 DEF ChildWrites
    <3>2. QED
      BY <2>1, <3>1 DEF ChildWrites
  <2>2. CASE ChildExits
    BY <2>2 DEF ChildExits, Exits
  <2>3. CASE ChildTerminated
    BY <2>3 DEF ChildTerminated, Exits
  <2>4. CASE ChildKilled
    BY <2>4 DEF ChildKilled, Exits
  <2>5. QED
    BY <1>1, <2>1, <2>2, <2>3, <2>4 DEF Child
<1>2. CASE capture
  <2>1. pipe' \in Seq(Lines)
    <3>1. <<>> \in Seq(Lines) /\ Tail(pipe) \in Seq(Lines)
      BY <1>2 DEF capture
    <3>2. pipe' = <<>> \/ pipe' = Tail(pipe)
      BY <1>2 DEF capture
    <3>3. QED
      BY <3>1, <3>2
  <2>2. line' \in {"none", "matched", "taken"}
    BY <1>2 DEF capture
  <2>3. scanner' \in {"scanning", "draining"} /\ stdoutBuf' \in BOOLEAN
    BY <1>2 DEF capture
  <2>4. QED
    BY <1>2, <2>1, <2>2, <2>3 DEF capture
<1>3. CASE WatcherStep
  <2>1. CASE WatcherSelects
    <3>1. line' \in {"none", "matched", "taken"}
      BY <2>1 DEF WatcherSelects
    <3>2. watcher' \in {"select", "ready", "timeout", "kill", "done"}
      BY <2>1 DEF WatcherSelects
    <3>3. UNCHANGED <<stateVars, channelVars, child, streamVars, signals, reaper, callerVars>>
      BY <2>1 DEF WatcherSelects
    <3>4. QED
      BY <3>1, <3>2, <3>3
  <2>2. CASE markReady
    <3>1. CASE UNCHANGED <<state, fact, readyCh>>
      BY <2>2, <3>1 DEF markReady
    <3>2. CASE fact' = TRUE /\ state' = "ready" /\ readyCh' = TRUE
      BY <2>2, <3>2 DEF markReady
    <3>3. QED
      BY <2>2, <3>1, <3>2 DEF markReady
  <2>3. CASE readinessTimeout
    <3>1. CASE Terminal
      BY <2>3, <3>1 DEF readinessTimeout
    <3>2. CASE ~Terminal
      BY <2>3, <3>2 DEF readinessTimeout
    <3>3. QED
      BY <3>1, <3>2
  <2>4. CASE WatcherKills
    BY <2>4 DEF WatcherKills
  <2>5. QED
    BY <1>3, <2>1, <2>2, <2>3, <2>4 DEF WatcherStep
<1>4. CASE ReaperStep
  <2> USE DEF ReaperTo
  <2>1. CASE ReapWait
    BY <2>1 DEF ReapWait
  <2>2. CASE ReapDrain
    BY <2>2 DEF ReapDrain
  <2>3. CASE ReapMarkRunning
    <3>1. state' \in {"launching", "running", "ready"} \cup TerminalStates
      BY <2>3 DEF ReapMarkRunning
    <3>2. QED
      BY <2>3, <3>1 DEF ReapMarkRunning
  <2>4. CASE ReapDeliver
    <3>1. artifacts' \in BOOLEAN
      BY <2>4 DEF ReapDeliver
    <3>2. QED
      BY <2>4, <3>1 DEF ReapDeliver
  <2>5. CASE ReapRecord
    <3>1. PICK st \in TerminalStates, r \in CrashCodes \cup {"none"} : terminalLocked(st, r)
      BY <2>5 DEF ReapRecord, TerminalStates, CrashCodes, exitReason
    <3>2. state' \in {"launching", "running", "ready"} \cup TerminalStates
             /\ reason' \in CrashCodes \cup {"none"}
             /\ readyCh' \in BOOLEAN /\ waitCh' \in BOOLEAN /\ done' \in BOOLEAN
      BY <2>5, <3>1 DEF ReapRecord, terminalLocked
    <3>3. reaper' = "done" /\ UNCHANGED <<artifacts, stopRequested, pendingCrash, stopOnce,
                                          fact, childVars, watcher, callerVars>>
      BY <2>5 DEF ReapRecord
    <3>4. QED
      BY <3>2, <3>3
  <2>6. QED
    BY <1>4, <2>1, <2>2, <2>3, <2>4, <2>5 DEF ReaperStep
<1>5. ASSUME NEW s \in Stoppers, StopBegin(s) \/ StopStep(s) \/ StopContextEnds(s)
      PROVE TypeOK'
  <2>1. PICK pc \in {"idle", "signal", "wait", "join"} \cup Returned : StopperTo(s, pc)
    <3>1. CASE StopBegin(s)
      BY <3>1 DEF StopBegin, Returned, Terminal, TerminalStates
    <3>2. CASE StopObservesDone(s) \/ StopSignals(s) \/ StopGraceExpires(s)
      BY <3>2 DEF PhaseInv, StopObservesDone, StopSignals, StopGraceExpires, Returned,
         TerminalStates, Terminal
    <3>3. CASE StopContextEnds(s)
      BY <3>3 DEF StopContextEnds, Returned
    <3>4. QED
      BY <1>5, <3>1, <3>2, <3>3 DEF StopStep
  <2>2. stopRequested' \in BOOLEAN /\ stopOnce' \in BOOLEAN /\ signals' \subseteq {"term", "kill"}
    BY <1>5 DEF StopBegin, StopStep, StopSignals, StopObservesDone, StopGraceExpires,
       StopContextEnds
  <2>3. stopper' \in [Stoppers -> {"idle", "signal", "wait", "join"} \cup Returned]
    BY <2>1 DEF StopperTo
  <2>4. QED
    BY <2>1, <2>2, <2>3 DEF StopperTo
<1>6. ASSUME NEW w \in Waiters, WaitBegin(w) \/ WaitContextEnds(w) \/ WaitStep(w)
      PROVE TypeOK'
  <2> DEFINE Counters == {"idle", "waitReady", "waitTerminal", "woken",
                          "ready", "notReady", "terminal", "ctx"}
  <2>1. PICK pc \in Counters : WaiterTo(w, pc)
    BY <1>6 DEF WaitBegin, WaitContextEnds, WaitStep, WaitReadinessWakes, WaitReadinessReads,
       WaitTerminalWakes
  <2>2. waiter' \in [Waiters -> Counters]
    BY <2>1 DEF WaiterTo
  <2>3. QED
    BY <2>1, <2>2 DEF WaiterTo
<1>7. CASE UNCHANGED vars
  BY <1>7
<1>8. QED
  BY <1>1, <1>2, <1>3, <1>4, <1>5, <1>6, <1>7 DEF Next

LEMMA PhaseStep == TypeOK /\ PhaseInv /\ [Next]_vars => PhaseInv'
<1> SUFFICES ASSUME TypeOK, PhaseInv, [Next]_vars PROVE PhaseInv'
  OBVIOUS
<1> USE DEF PhaseInv, TerminalStates, Terminal
<1>1. CASE Child
  BY <1>1 DEF Child, ChildWrites, ChildExits, ChildTerminated,
     ChildKilled
<1>2. CASE capture
  BY <1>2 DEF capture
<1>3. CASE WatcherStep
  BY <1>3 DEF WatcherStep, WatcherSelects, markReady, readinessTimeout, WatcherKills
<1>4. CASE ReaperStep
  BY <1>4 DEF ReaperStep, ReapWait, ReapDrain, ReapMarkRunning, ReapDeliver, ReapRecord,
     ReaperTo, terminalLocked, TypeOK
<1>5. ASSUME NEW s \in Stoppers, StopBegin(s) \/ StopStep(s) \/ StopContextEnds(s)
      PROVE PhaseInv'
  BY <1>5 DEF StopBegin, StopStep, StopSignals, StopObservesDone, StopGraceExpires,
     StopContextEnds, StopperTo
<1>6. ASSUME NEW w \in Waiters, WaitBegin(w) \/ WaitContextEnds(w) \/ WaitStep(w)
      PROVE PhaseInv'
  BY <1>6 DEF WaitBegin, WaitContextEnds, WaitStep, WaitReadinessWakes, WaitReadinessReads,
     WaitTerminalWakes, WaiterTo
<1>7. CASE UNCHANGED vars
  BY <1>7
<1>8. QED
  BY <1>1, <1>2, <1>3, <1>4, <1>5, <1>6, <1>7 DEF Next

\* A write makes a line the next to be read only of an empty pipe, and a read
\* takes it into the buffer or ends the scan.
LEMMA StreamStep == TypeOK /\ StreamInv /\ (capture \/ \E l \in Lines : ChildWrites(l)) => StreamInv'
<1> SUFFICES ASSUME TypeOK, StreamInv, capture \/ \E l \in Lines : ChildWrites(l)
             PROVE  StreamInv'
  OBVIOUS
<1> USE DEF TypeOK, StreamInv
<1>1. ASSUME NEW l \in Lines, ChildWrites(l) PROVE StreamInv'
  <2>1. pipe' # <<>> /\ Head(pipe') = IF pipe = <<>> THEN l ELSE Head(pipe)
    BY <1>1 DEF ChildWrites
  <2>2. /\ UNCHANGED <<scanner, stdoutBuf>> /\ scanner = "scanning"
        /\ first' = IF first # "none" THEN first ELSE IF l = "overlong" THEN l ELSE "fits"
    BY <1>1 DEF ChildWrites
  <2>3. QED
    BY <2>1, <2>2
<1>2. CASE capture
  <2>1. pipe # <<>> /\ scanner = "scanning" /\ UNCHANGED first
    BY <1>2 DEF capture
  <2>2. CASE Head(pipe) = "overlong"
    BY <1>2, <2>1, <2>2 DEF capture
  <2>3. CASE Head(pipe) # "overlong"
    BY <1>2, <2>1, <2>3 DEF capture
  <2>4. QED
    BY <2>2, <2>3
<1>3. QED
  BY <1>1, <1>2

\* The reaper delivers what the buffer holds when the captures are done.
LEMMA OutputStep == TypeOK /\ PhaseInv /\ OutputInv /\ [Next]_vars => OutputInv'
<1> SUFFICES ASSUME TypeOK, PhaseInv, OutputInv, [Next]_vars PROVE OutputInv'
  OBVIOUS
<1> USE DEF OutputInv
<1>1. CASE Child
  <2>1. CASE \E l \in Lines : ChildWrites(l)
    <3>1. reaper = "wait" /\ UNCHANGED <<reaper, artifacts>>
      BY <2>1 DEF ChildWrites, PhaseInv
    <3>2. QED
      BY <2>1, <3>1, StreamStep
  <2>2. CASE ChildExits \/ ChildTerminated \/ ChildKilled
    BY <2>2 DEF ChildExits, ChildTerminated, ChildKilled, StreamInv
  <2>3. QED
    BY <1>1, <2>1, <2>2 DEF Child
<1>2. CASE capture
  <2>1. /\ reaper \in {"wait", "drain"} /\ ~artifacts
        /\ UNCHANGED <<reaper, artifacts>>
    BY <1>2 DEF capture, TypeOK
  <2>2. QED
    BY <1>2, <2>1, StreamStep
<1>3. CASE WatcherStep
  BY <1>3 DEF WatcherStep, WatcherSelects, markReady, readinessTimeout, WatcherKills, StreamInv
<1>4. CASE ReaperStep
  <2>1. StreamInv' /\ UNCHANGED <<pipe, stdoutBuf>>
    BY <1>4 DEF ReaperStep, ReapWait, ReapDrain, ReapMarkRunning, ReapDeliver, ReapRecord,
       ReaperTo, StreamInv
  <2>2. CASE ReapDeliver
    <3>1. artifacts' <=> stdoutBuf
      BY <2>2 DEF ReapDeliver, PhaseInv, TypeOK
    <3>2. QED
      BY <2>1, <2>2, <3>1 DEF ReapDeliver, ReaperTo
  <2>3. CASE ReapWait \/ ReapDrain \/ ReapMarkRunning \/ ReapRecord
    BY <2>1, <2>3 DEF ReapWait, ReapDrain, ReapMarkRunning, ReapRecord, ReaperTo
  <2>4. QED
    BY <1>4, <2>2, <2>3 DEF ReaperStep
<1>5. ASSUME NEW s \in Stoppers, StopBegin(s) \/ StopStep(s) \/ StopContextEnds(s)
      PROVE OutputInv'
  BY <1>5 DEF StopBegin, StopStep, StopSignals, StopObservesDone, StopGraceExpires,
     StopContextEnds, StopperTo, StreamInv
<1>6. ASSUME NEW w \in Waiters, WaitBegin(w) \/ WaitContextEnds(w) \/ WaitStep(w)
      PROVE OutputInv'
  BY <1>6 DEF WaitBegin, WaitContextEnds, WaitStep, WaitReadinessWakes, WaitReadinessReads,
     WaitTerminalWakes, WaiterTo, StreamInv
<1>7. CASE UNCHANGED vars
  BY <1>7 DEF StreamInv
<1>8. QED
  BY <1>1, <1>2, <1>3, <1>4, <1>5, <1>6, <1>7 DEF Next

LEMMA ReasonStep == TypeOK /\ PhaseInv /\ ReasonInv /\ [Next]_vars => ReasonInv'
<1> SUFFICES ASSUME TypeOK, PhaseInv, ReasonInv, [Next]_vars PROVE ReasonInv'
  OBVIOUS
<1> USE DEF ReasonInv, Terminal, TerminalStates
<1>1. CASE Child \/ capture
  BY <1>1 DEF Child, ChildWrites, ChildExits, ChildTerminated,
     ChildKilled, capture
<1>2. CASE WatcherStep
  BY <1>2 DEF WatcherStep, WatcherSelects, markReady, readinessTimeout, WatcherKills
<1>3. CASE ReaperStep
  <2>1. CASE ReapRecord
    <3> exitReason \notin {"none", "readiness_timeout"}
      BY DEF exitReason
    <3>1. UNCHANGED <<stopRequested, pendingCrash, stopOnce>>
      BY <2>1 DEF ReapRecord, ReaperTo
    <3>2. CASE pendingCrash
      BY <2>1, <3>1, <3>2 DEF ReapRecord, terminalLocked
    <3>3. CASE ~pendingCrash /\ stopRequested
      BY <2>1, <3>1, <3>3 DEF ReapRecord, terminalLocked
    <3>4. CASE ~pendingCrash /\ ~stopRequested
      BY <2>1, <3>1, <3>4 DEF ReapRecord, terminalLocked
    <3>5. QED
      BY <3>2, <3>3, <3>4
  <2>2. CASE ReapMarkRunning
    BY <2>2 DEF ReapMarkRunning, ReaperTo
  <2>3. CASE ReapWait \/ ReapDrain \/ ReapDeliver
    BY <2>3 DEF ReapWait, ReapDrain, ReapDeliver, ReaperTo
  <2>4. QED
    BY <1>3, <2>1, <2>2, <2>3 DEF ReaperStep
<1>4. ASSUME NEW s \in Stoppers, StopBegin(s) \/ StopStep(s) \/ StopContextEnds(s)
      PROVE ReasonInv'
  BY <1>4 DEF StopBegin, StopStep, StopSignals, StopObservesDone, StopGraceExpires,
     StopContextEnds, StopperTo
<1>5. ASSUME NEW w \in Waiters, WaitBegin(w) \/ WaitContextEnds(w) \/ WaitStep(w)
      PROVE ReasonInv'
  BY <1>5 DEF WaitBegin, WaitContextEnds, WaitStep, WaitReadinessWakes, WaitReadinessReads,
     WaitTerminalWakes, WaiterTo
<1>6. CASE UNCHANGED vars
  BY <1>6
<1>7. QED
  BY <1>1, <1>2, <1>3, <1>4, <1>5, <1>6 DEF Next

\* A step that moves no caller of Stop and lets no terminal state go.
LEMMA StopFrame ==
  ASSUME StopInv, PhaseInv, UNCHANGED <<stopper, stopOnce>>, TypeOK,
         Terminal => UNCHANGED state, signals \subseteq signals', child # "alive" => UNCHANGED child
  PROVE  StopInv'
<1>1. \A s \in Stoppers : stopper'[s] \in {"stopped", "crashed"} => state' = stopper'[s]
  BY DEF StopInv, Terminal, TerminalStates
<1>2. (\A s \in Stoppers : stopper'[s] \in {"signal", "wait", "join", "ctx"} => stopOnce')
  BY DEF StopInv
<1>3. stopOnce' => \/ \E t \in Stoppers : stopper'[t] \in {"signal", "wait"}
                   \/ child' # "alive"
                   \/ "kill" \in signals'
  BY DEF StopInv
<1>4. QED
  BY <1>1, <1>2, <1>3 DEF StopInv

LEMMA StopStepInv == TypeOK /\ PhaseInv /\ StopInv /\ [Next]_vars => StopInv'
<1> SUFFICES ASSUME TypeOK, PhaseInv, StopInv, [Next]_vars PROVE StopInv'
  OBVIOUS
<1>1. CASE Child \/ capture
  BY <1>1, StopFrame DEF Child, ChildWrites, ChildExits,
     ChildTerminated, ChildKilled, capture
<1>2. CASE WatcherStep
  BY <1>2, StopFrame DEF WatcherStep, WatcherSelects, markReady, readinessTimeout, WatcherKills
<1>3. CASE ReaperStep
  <2>1. Terminal => UNCHANGED state
    BY <1>3 DEF ReaperStep, ReapWait, ReapDrain, ReapMarkRunning, ReapDeliver, ReapRecord,
       ReaperTo, PhaseInv, Terminal, TerminalStates
  <2>2. UNCHANGED <<stopper, stopOnce, signals, child>>
    BY <1>3 DEF ReaperStep, ReapWait, ReapDrain, ReapMarkRunning, ReapDeliver, ReapRecord,
       ReaperTo
  <2>3. QED
    BY <2>1, <2>2, StopFrame
<1>4. ASSUME NEW s \in Stoppers, StopBegin(s) \/ StopStep(s) \/ StopContextEnds(s)
      PROVE StopInv'
  <2>1. \A t \in Stoppers : t # s => stopper'[t] = stopper[t]
    BY <1>4 DEF StopBegin, StopStep, StopSignals, StopObservesDone, StopGraceExpires,
       StopContextEnds, StopperTo, TypeOK
  <2>2. UNCHANGED <<state, child>> /\ signals \subseteq signals' /\ (stopOnce => stopOnce')
    BY <1>4 DEF StopBegin, StopStep, StopSignals, StopObservesDone, StopGraceExpires,
       StopContextEnds, StopperTo
  <2>3. CASE StopBegin(s)
    <3>1. CASE Terminal /\ stopper'[s] = state /\ UNCHANGED stopOnce
      BY <2>1, <2>2, <2>3, <3>1 DEF StopBegin, StopInv, Terminal, TerminalStates, PhaseInv
    <3>2. CASE stopOnce' = TRUE /\ stopper'[s] = "signal"
      BY <2>1, <2>2, <3>2 DEF StopInv
    <3>3. CASE stopOnce /\ UNCHANGED stopOnce /\ stopper[s] = "idle" /\ stopper'[s] = "join"
      BY <2>1, <2>2, <3>3 DEF StopInv
    <3>4. QED
      BY <2>3, <3>1, <3>2, <3>3 DEF StopBegin, StopperTo, TypeOK
  <2>4. CASE StopSignals(s) \/ StopGraceExpires(s)
    <3>1. stopper[s] \in {"signal", "wait"} /\ stopper'[s] = "wait" /\ UNCHANGED stopOnce
      BY <2>4 DEF StopSignals, StopGraceExpires, StopperTo, TypeOK
    <3>2. QED
      BY <2>1, <2>2, <3>1 DEF StopInv
  <2>5. CASE StopObservesDone(s)
    <3>1. stopper'[s] = state /\ UNCHANGED stopOnce /\ Terminal /\ child # "alive"
      BY <2>5 DEF StopObservesDone, StopperTo, TypeOK, PhaseInv
    <3>2. QED
      BY <2>1, <2>2, <3>1 DEF StopInv, Terminal, TerminalStates
  <2>6. CASE StopContextEnds(s)
    <3>1. stopper[s] \in {"wait", "join"} /\ stopper'[s] = "ctx" /\ UNCHANGED stopOnce
          /\ (stopper[s] = "wait" => "kill" \in signals')
      BY <2>6 DEF StopContextEnds, StopperTo, TypeOK
    <3>2. QED
      BY <2>1, <2>2, <3>1 DEF StopInv
  <2>7. QED
    BY <1>4, <2>3, <2>4, <2>5, <2>6 DEF StopStep
<1>5. ASSUME NEW w \in Waiters, WaitBegin(w) \/ WaitContextEnds(w) \/ WaitStep(w)
      PROVE StopInv'
  BY <1>5, StopFrame DEF WaitBegin, WaitContextEnds, WaitStep, WaitReadinessWakes,
     WaitReadinessReads, WaitTerminalWakes, WaiterTo
<1>6. CASE UNCHANGED vars
  BY <1>6, StopFrame
<1>7. QED
  BY <1>1, <1>2, <1>3, <1>4, <1>5, <1>6 DEF Next

\* The inductive invariant of a launched process.
THEOREM HostInvariant == Spec => []HostInv
<1>1. HostInv /\ [Next]_vars => HostInv'
  BY TypeStep, PhaseStep, OutputStep, ReasonStep, StopStepInv DEF HostInv
<1>2. QED
  BY HostInit, <1>1, PTL DEF Spec

\* Every variable keeps its type.
THEOREM HostTypeCorrect == Spec => []TypeOK
<1>1. HostInv => TypeOK
  BY DEF HostInv
<1>2. QED
  BY HostInvariant, <1>1, PTL

\* The recorded terminal state tells what happened (reap, terminalLocked,
\* readinessTimeout), and is visible only once the child is gone.
THEOREM TerminalStateIsTruth == Spec => []TerminalTruth
<1>1. HostInv => TerminalTruth
  BY DEF HostInv, TypeOK, PhaseInv, ReasonInv, TerminalTruth, Terminal, TerminalStates
<1>2. QED
  BY HostInvariant, <1>1, PTL

\* Before the reaper publishes the terminal state it delivers what the capture
\* kept of the child's stdout: something exactly if its first line was not too
\* long for the scanner.
THEOREM OutputIsDelivered == Spec => []OutputDelivered
<1>1. HostInv => OutputDelivered
  BY DEF HostInv, TypeOK, PhaseInv, OutputInv, StreamInv, OutputDelivered
<1>2. QED
  BY HostInvariant, <1>1, PTL

\* What Stop returned is the recorded state; a Stop given up has killed.
THEOREM StopReportsOutcome == Spec => []StopOutcome
<1>1. HostInv => StopOutcome
  BY DEF HostInv, StopInv, StopOutcome
<1>2. QED
  BY HostInvariant, <1>1, PTL

\* No goroutine and no caller alters a terminal process.
THEOREM TerminalStateIsFinal == Spec => TerminalIsFinal
<1>1. HostInv /\ [Next]_vars
      => [Terminal => UNCHANGED <<state, fact, reason, artifacts, pendingCrash>>]_vars
  <2> SUFFICES ASSUME HostInv, [Next]_vars, Terminal
               PROVE  UNCHANGED <<state, fact, reason, artifacts, pendingCrash>>
    OBVIOUS
  <2>1. CASE Child \/ capture
    BY <2>1 DEF Child, ChildWrites, ChildExits, ChildTerminated,
       ChildKilled, capture
  <2>2. CASE WatcherStep
    BY <2>2 DEF WatcherStep, WatcherSelects, markReady, readinessTimeout, WatcherKills
  <2>3. CASE ReaperStep
    BY <2>3 DEF ReaperStep, ReapWait, ReapDrain, ReapMarkRunning, ReapDeliver, ReapRecord,
       HostInv, PhaseInv
  <2>4. ASSUME NEW s \in Stoppers, StopBegin(s) \/ StopStep(s) \/ StopContextEnds(s)
        PROVE  UNCHANGED <<state, fact, reason, artifacts, pendingCrash>>
    BY <2>4 DEF StopBegin, StopStep, StopSignals, StopObservesDone, StopGraceExpires,
       StopContextEnds, StopperTo
  <2>5. ASSUME NEW w \in Waiters, WaitBegin(w) \/ WaitContextEnds(w) \/ WaitStep(w)
        PROVE  UNCHANGED <<state, fact, reason, artifacts, pendingCrash>>
    BY <2>5 DEF WaitBegin, WaitContextEnds, WaitStep, WaitReadinessWakes, WaitReadinessReads,
       WaitTerminalWakes, WaiterTo
  <2>6. QED
    BY <2>1, <2>2, <2>3, <2>4, <2>5 DEF Next
<1>2. QED
  BY HostInvariant, <1>1, PTL DEF Spec, TerminalIsFinal

-----------------------------------------------------------------------------
ContractStep == Contract!ProcessNext \/ UNCHANGED Contract!processVars

\* A step that keeps state, fact and stopOnce is no step of the contract.
LEMMA ContractStutter == ASSUME UNCHANGED <<state, fact, stopOnce>> PROVE ContractStep
BY DEF ContractStep, Contract!processVars

\* Every step of a goroutine or a caller is a step of the contract or none.
LEMMA NextMeetsContract == ASSUME HostInv, [Next]_vars PROVE ContractStep
<1>1. CASE UNCHANGED vars
  BY <1>1, ContractStutter
<1>2. CASE Child \/ capture
  BY <1>2, ContractStutter DEF Child, ChildWrites, ChildExits,
     ChildTerminated, ChildKilled, capture
<1>3. CASE markReady
  <2>1. CASE fact \/ Terminal \/ state \notin {"launching", "running"}
    BY <1>3, <2>1, ContractStutter DEF markReady
  <2>2. CASE ~(fact \/ Terminal \/ state \notin {"launching", "running"})
    <3>1. /\ state \in {"launching", "running"} /\ state' = "ready"
          /\ fact' = TRUE /\ UNCHANGED stopOnce
      BY <1>3, <2>2 DEF markReady
    <3>2. QED
      BY <3>1 DEF ContractStep, Contract!ProcessNext, Contract!ProveReady
  <2>3. QED
    BY <2>1, <2>2
<1>4. CASE WatcherSelects \/ readinessTimeout \/ WatcherKills
  BY <1>4, ContractStutter DEF WatcherSelects, readinessTimeout, WatcherKills
<1>5. CASE ReapWait \/ ReapDrain \/ ReapDeliver
  BY <1>5, ContractStutter DEF ReapWait, ReapDrain, ReapDeliver, ReaperTo
<1>6. CASE ReapMarkRunning
  <2>1. /\ state' = IF state = "launching" THEN "running" ELSE state
        /\ UNCHANGED <<fact, stopOnce>>
    BY <1>6 DEF ReapMarkRunning, ReaperTo
  <2>2. QED
    BY <2>1 DEF ContractStep, Contract!processVars
<1>7. CASE ReapRecord
  <2>1. state \in {"launching", "running", "ready"}
    BY <1>7 DEF ReapRecord, HostInv, TypeOK, PhaseInv, Terminal, TerminalStates
  <2>2. /\ state' \in {"crashed", "stopped"}
        /\ state' = "stopped" => stopOnce
        /\ UNCHANGED <<fact, stopOnce>>
    BY <1>7 DEF ReapRecord, ReaperTo, terminalLocked, HostInv, TypeOK, ReasonInv
  <2>3. QED
    BY <2>1, <2>2 DEF ContractStep, Contract!ProcessNext, Contract!End, Contract!Ended
<1>8. ASSUME NEW s \in Stoppers, StopBegin(s) PROVE ContractStep
  <2>1. CASE Terminal \/ stopOnce
    BY <1>8, <2>1, ContractStutter DEF StopBegin, StopperTo
  <2>2. CASE ~Terminal /\ ~stopOnce
    <3>1. /\ state \in {"launching", "running", "ready"}
          /\ stopOnce' = TRUE /\ UNCHANGED <<state, fact>>
      BY <1>8, <2>2 DEF StopBegin, StopperTo, HostInv, TypeOK, Terminal, TerminalStates
    <3>2. QED
      BY <3>1 DEF ContractStep, Contract!ProcessNext, Contract!Ask, Contract!Ended
  <2>3. QED
    BY <2>1, <2>2
<1>9. ASSUME NEW s \in Stoppers, StopStep(s) \/ StopContextEnds(s) PROVE ContractStep
  BY <1>9, ContractStutter DEF StopStep, StopSignals, StopObservesDone, StopGraceExpires,
     StopContextEnds, StopperTo
<1>10. ASSUME NEW w \in Waiters, WaitBegin(w) \/ WaitContextEnds(w) \/ WaitStep(w)
       PROVE  ContractStep
  BY <1>10, ContractStutter DEF WaitBegin, WaitContextEnds, WaitStep, WaitReadinessWakes,
     WaitReadinessReads, WaitTerminalWakes, WaiterTo
<1>11. QED
  BY <1>1, <1>2, <1>3, <1>4, <1>5, <1>6, <1>7, <1>8, <1>9, <1>10
     DEF Next, WatcherStep, ReaperStep

\* The safety part of MeetsContract: the launched process implements the
\* supervision contract, for any number of callers.
THEOREM ProcessContractImplemented == Spec => ImplementsProcess
<1>1. Init => Contract!ProcessInit
  BY DEF Init, Contract!ProcessInit
<1>2. HostInv /\ [Next]_vars => [Contract!ProcessNext]_(Contract!processVars)
  BY NextMeetsContract DEF ContractStep
<1>3. QED
  BY <1>1, <1>2, HostInvariant, PTL DEF Spec, ImplementsProcess, Contract!ProcessSpec
=============================================================================
