---------------------------- MODULE HostProcess ----------------------------
(***************************************************************************)
(* One supervised child process: LaunchedProcess of                        *)
(* server/hostexec/launcher.go, after a successful Launch.  Its goroutines *)
(* are the stdout capture, the readiness watcher and the reaper; its       *)
(* callers run Stop, WaitReadiness and WaitTerminal.  The child itself and *)
(* the kernel that delivers signals are the environment.                   *)
(*                                                                         *)
(* The channels readyCh, waitCh and done carry no value and are closed at  *)
(* most once: each is a Boolean.  A timer that has not fired may fire at   *)
(* any moment.                                                             *)
(***************************************************************************)
EXTENDS Naturals, FiniteSets, Sequences

CONSTANTS
  Stoppers,    \* callers of Stop
  Waiters,     \* callers of WaitReadiness or WaitTerminal
  MaxUnread    \* bound on the lines the child is ahead of the capture

ASSUME BoundAssumption == MaxUnread \in Nat

VARIABLES
  state, fact, reason, artifacts, stopRequested, pendingCrash, stopOnce,
  readyCh, waitCh, done,
  child,             \* the child: alive or how it exited
  pipe,              \* the lines of its stdout that are not captured yet
  scanner,           \* "scanning", or "draining" after a line too long for it
  stdoutBuf,         \* the capture buffer holds something
  line,              \* the readiness line, on its way to the watcher
  first,             \* history: whether the child's first line fits the scanner
  signals,           \* signals sent to the process group
  watcher, reaper,   \* program counters of the two goroutines
  stopper, waiter    \* program counters of the callers

stateVars == <<state, fact, reason, artifacts, stopRequested, pendingCrash, stopOnce>>
channelVars == <<readyCh, waitCh, done>>
streamVars == <<pipe, scanner, stdoutBuf, first>>
childVars == <<child, streamVars, line, signals>>
goroutineVars == <<watcher, reaper>>
callerVars == <<stopper, waiter>>
vars == <<stateVars, channelVars, childVars, goroutineVars, callerVars>>

TerminalStates == {"crashed", "stopped"}
Terminal == state \in TerminalStates

\* "crashes" and "quits" are exits of the child's own accord, with a nonzero
\* and a zero code; "signaled" is death by a signal.
Exits == {"crashes", "quits", "signaled"}
CrashCodes == {"readiness_timeout", "exit_nonzero", "signaled", "exit_unexpected"}
Returned == {"stopped", "crashed", "ctx"}

\* The exact readiness line, a line beyond the scanner's limit, any other.
Lines == {"plain", "ready", "overlong"}

TypeOK ==
  /\ state \in {"launching", "running", "ready"} \cup TerminalStates
  /\ reason \in CrashCodes \cup {"none"}
  /\ fact \in BOOLEAN /\ artifacts \in BOOLEAN /\ stopRequested \in BOOLEAN
  /\ pendingCrash \in BOOLEAN /\ stopOnce \in BOOLEAN
  /\ readyCh \in BOOLEAN /\ waitCh \in BOOLEAN /\ done \in BOOLEAN
  /\ child \in {"alive"} \cup Exits
  /\ pipe \in Seq(Lines) /\ first \in {"none", "fits", "overlong"}
  /\ scanner \in {"scanning", "draining"} /\ stdoutBuf \in BOOLEAN
  /\ line \in {"none", "matched", "taken"}
  /\ signals \subseteq {"term", "kill"}
  /\ watcher \in {"select", "ready", "timeout", "kill", "done"}
  /\ reaper \in {"wait", "drain", "running", "deliver", "record", "done"}
  /\ stopper \in [Stoppers -> {"idle", "signal", "wait", "join"} \cup Returned]
  /\ waiter \in [Waiters -> {"idle", "waitReady", "waitTerminal", "woken",
                           "ready", "notReady", "terminal", "ctx"}]

Init ==
  /\ state = "launching" /\ reason = "none"
  /\ fact = FALSE /\ artifacts = FALSE
  /\ stopRequested = FALSE /\ pendingCrash = FALSE /\ stopOnce = FALSE
  /\ readyCh = FALSE /\ waitCh = FALSE /\ done = FALSE
  /\ child = "alive" /\ signals = {}
  /\ pipe = <<>> /\ first = "none" /\ scanner = "scanning" /\ stdoutBuf = FALSE
  /\ line = "none"
  /\ watcher = "select" /\ reaper = "wait"
  /\ stopper = [s \in Stoppers |-> "idle"]
  /\ waiter = [w \in Waiters |-> "idle"]

-----------------------------------------------------------------------------
(* The child.  It may ignore SIGTERM, never SIGKILL.  After its exit the   *)
(* copies of its output finish within WaitDelay, so nothing is cut off.    *)

\* What is written to a drained stream is thrown away and changes nothing.
ChildWrites(l) ==
  /\ child = "alive" /\ scanner = "scanning" /\ Len(pipe) < MaxUnread
  /\ pipe' = Append(pipe, l)
  /\ first' = IF first # "none" THEN first ELSE IF l = "overlong" THEN l ELSE "fits"
  /\ UNCHANGED <<stateVars, channelVars, child, scanner, stdoutBuf, line, signals,
                 goroutineVars, callerVars>>

ChildExits ==
  /\ child = "alive"
  /\ child' \in {"crashes", "quits"}
  /\ UNCHANGED <<stateVars, channelVars, streamVars, line, signals, goroutineVars, callerVars>>

ChildTerminated ==
  /\ child = "alive" /\ "term" \in signals
  /\ child' = "signaled"
  /\ UNCHANGED <<stateVars, channelVars, streamVars, line, signals, goroutineVars, callerVars>>

ChildKilled ==
  /\ child = "alive" /\ "kill" \in signals
  /\ child' = "signaled"
  /\ UNCHANGED <<stateVars, channelVars, streamVars, line, signals, goroutineVars, callerVars>>

-----------------------------------------------------------------------------
(* Capture and the readiness watcher.                                      *)

\* capture takes a line into the buffer and reports the exact one on a channel
\* of one slot, which is looked at once.  The buffer keeps of the first line at
\* least a byte, so it is empty only before that.  A line too long for the
\* scanner ends the scan: the rest of the stream is read and thrown away.
capture ==
  /\ pipe # <<>>
  /\ IF Head(pipe) = "overlong"
     THEN pipe' = <<>> /\ scanner' = "draining" /\ UNCHANGED <<stdoutBuf, line>>
     ELSE /\ pipe' = Tail(pipe) /\ stdoutBuf' = TRUE
          /\ line' = IF Head(pipe) = "ready" /\ line = "none" THEN "matched" ELSE line
          /\ UNCHANGED scanner
  /\ UNCHANGED <<stateVars, channelVars, child, first, signals, goroutineVars, callerVars>>

\* The select of runWatchers: several ready branches are chosen at random.
WatcherSelects ==
  /\ watcher = "select"
  /\ \/ /\ line = "matched" /\ line' = "taken" /\ watcher' = "ready"
     \/ /\ watcher' = "timeout" /\ UNCHANGED line
     \/ /\ done /\ watcher' = "done" /\ UNCHANGED line
  /\ UNCHANGED <<stateVars, channelVars, child, streamVars, signals, reaper, callerVars>>

\* Not after a fact or a terminal state; Launching passes through Running.
markReady ==
  /\ watcher = "ready"
  /\ watcher' = "done"
  /\ IF fact \/ Terminal \/ state \notin {"launching", "running"}
     THEN UNCHANGED <<state, fact, readyCh>>
     ELSE fact' = TRUE /\ state' = "ready" /\ readyCh' = TRUE
  /\ UNCHANGED <<reason, artifacts, stopRequested, pendingCrash, stopOnce, waitCh, done,
                 childVars, reaper, callerVars>>

\* The decision is made under the lock, the kill comes after it.
readinessTimeout ==
  /\ watcher = "timeout"
  /\ IF Terminal
     THEN watcher' = "done" /\ UNCHANGED <<stopRequested, pendingCrash>>
     ELSE watcher' = "kill" /\ stopRequested' = TRUE /\ pendingCrash' = TRUE
  /\ UNCHANGED <<state, fact, reason, artifacts, stopOnce, channelVars, childVars,
                 reaper, callerVars>>

WatcherNeverKills ==
  /\ watcher = "kill" /\ watcher' = "done"
  /\ UNCHANGED <<stateVars, channelVars, childVars, reaper, callerVars>>

WatcherKills ==
  /\ watcher = "kill" /\ watcher' = "done"
  /\ signals' = signals \cup {"kill"}
  /\ UNCHANGED <<stateVars, channelVars, child, streamVars, line, reaper, callerVars>>

-----------------------------------------------------------------------------
(* The reaper.                                                             *)

ReaperTo(next) ==
  /\ reaper' = next
  /\ UNCHANGED <<stopRequested, pendingCrash, stopOnce, fact, childVars, watcher, callerVars>>

ReapWait ==
  /\ reaper = "wait" /\ child # "alive"
  /\ ReaperTo("drain")
  /\ UNCHANGED <<state, reason, artifacts, channelVars>>

\* streamWG.Wait: the captures have read everything the child wrote.
ReapDrain ==
  /\ reaper = "drain" /\ pipe = <<>>
  /\ ReaperTo("running")
  /\ UNCHANGED <<state, reason, artifacts, channelVars>>

ReapSkipsRunning ==
  /\ reaper = "running"
  /\ ReaperTo("deliver")
  /\ UNCHANGED <<state, reason, artifacts, channelVars>>

ReapMarkRunning ==
  /\ reaper = "running"
  /\ state' = IF state = "launching" THEN "running" ELSE state
  /\ ReaperTo("deliver")
  /\ UNCHANGED <<reason, artifacts, channelVars>>

\* What the buffer holds is delivered, nothing if it holds nothing;
\* DeliverArtifact refuses unless the process is running or ready.
ReapDeliver ==
  /\ reaper = "deliver"
  /\ artifacts' = (artifacts \/ (stdoutBuf /\ state \in {"running", "ready"}))
  /\ ReaperTo("record")
  /\ UNCHANGED <<state, reason, channelVars>>

exitReason == CASE child = "crashes" -> "exit_nonzero"
                [] child = "signaled" -> "signaled"
                [] OTHER -> "exit_unexpected"

TerminalWakingTerminalWaitersOnly(s, r) ==
  /\ state' = s /\ reason' = r
  /\ waitCh' = TRUE /\ UNCHANGED readyCh

terminalLocked(s, r) ==
  /\ state' = s /\ reason' = r
  /\ waitCh' = TRUE /\ readyCh' = TRUE

ReapRecordStopFirst ==
  /\ reaper = "record"
  /\ IF stopRequested THEN terminalLocked("stopped", "none")
     ELSE IF pendingCrash THEN terminalLocked("crashed", "readiness_timeout")
     ELSE terminalLocked("crashed", exitReason)
  /\ done' = TRUE
  /\ ReaperTo("done")
  /\ UNCHANGED artifacts

\* The reason a watcher decided on comes first, then a requested stop.
ReapRecord ==
  /\ reaper = "record"
  /\ IF pendingCrash THEN terminalLocked("crashed", "readiness_timeout")
     ELSE IF stopRequested THEN terminalLocked("stopped", "none")
     ELSE terminalLocked("crashed", exitReason)
  /\ done' = TRUE
  /\ ReaperTo("done")
  /\ UNCHANGED artifacts

-----------------------------------------------------------------------------
(* Stop.                                                                   *)

StopperTo(s, next) ==
  /\ stopper' = [stopper EXCEPT ![s] = next]
  /\ UNCHANGED <<state, fact, reason, artifacts, pendingCrash, channelVars, child, streamVars,
                 line, goroutineVars, waiter>>

\* The first caller on a process that is not terminal owns the teardown.
StopBegin(s) ==
  /\ stopper[s] = "idle"
  /\ \/ /\ Terminal
        /\ StopperTo(s, state)
        /\ UNCHANGED <<stopRequested, stopOnce>>
     \/ /\ ~Terminal /\ ~stopOnce
        /\ stopOnce' = TRUE /\ stopRequested' = TRUE
        /\ StopperTo(s, "signal")
     \/ /\ ~Terminal /\ stopOnce
        /\ StopperTo(s, "join")
        /\ UNCHANGED <<stopRequested, stopOnce>>
  /\ UNCHANGED signals

StopSignals(s) ==
  /\ stopper[s] = "signal"
  /\ signals' = signals \cup {"term"}
  /\ StopperTo(s, "wait")
  /\ UNCHANGED <<stopRequested, stopOnce>>

StopObservesDone(s) ==
  /\ stopper[s] \in {"wait", "join"} /\ done
  /\ StopperTo(s, state)
  /\ UNCHANGED <<stopRequested, stopOnce, signals>>

StopGraceOnce(s) ==
  /\ stopper[s] = "wait"
  /\ StopperTo(s, "join")
  /\ UNCHANGED <<stopRequested, stopOnce, signals>>

\* The grace period ends: hard kill, and wait for another period.
StopGraceExpires(s) ==
  /\ stopper[s] = "wait" /\ "kill" \notin signals
  /\ signals' = signals \cup {"kill"}
  /\ StopperTo(s, "wait")
  /\ UNCHANGED <<stopRequested, stopOnce>>

\* Only the owner of the teardown kills when its context ends.
StopContextEnds(s) ==
  /\ stopper[s] \in {"wait", "join"}
  /\ signals' = IF stopper[s] = "wait" THEN signals \cup {"kill"} ELSE signals
  /\ StopperTo(s, "ctx")
  /\ UNCHANGED <<stopRequested, stopOnce>>

-----------------------------------------------------------------------------
(* Waiting for readiness and for the terminal state.                       *)

WaiterTo(w, next) ==
  /\ waiter' = [waiter EXCEPT ![w] = next]
  /\ UNCHANGED <<stateVars, channelVars, childVars, goroutineVars, stopper>>

WaitBegin(w) ==
  waiter[w] = "idle" /\ \E pc \in {"waitReady", "waitTerminal"} : WaiterTo(w, pc)

WaitContextEnds(w) == waiter[w] \in {"waitReady", "waitTerminal"} /\ WaiterTo(w, "ctx")

WaitReadinessWakes(w) == waiter[w] = "waitReady" /\ readyCh /\ WaiterTo(w, "woken")

\* The fact is read under the lock after the wake: a process that proved
\* readiness and died since still yields its fact.
WaitReadinessReads(w) ==
  /\ waiter[w] = "woken"
  /\ WaiterTo(w, IF fact THEN "ready" ELSE "notReady")

WaitTerminalWakes(w) == waiter[w] = "waitTerminal" /\ waitCh /\ WaiterTo(w, "terminal")

-----------------------------------------------------------------------------
Child == (\E l \in Lines : ChildWrites(l)) \/ ChildExits \/ ChildTerminated \/ ChildKilled
WatcherStep == WatcherSelects \/ markReady \/ readinessTimeout \/ WatcherKills
ReaperStep == ReapWait \/ ReapDrain \/ ReapMarkRunning \/ ReapDeliver \/ ReapRecord
StopStep(s) == StopSignals(s) \/ StopObservesDone(s) \/ StopGraceExpires(s)
WaitStep(w) == WaitReadinessWakes(w) \/ WaitReadinessReads(w) \/ WaitTerminalWakes(w)

Next ==
  \/ Child \/ capture \/ WatcherStep \/ ReaperStep
  \/ \E s \in Stoppers : StopBegin(s) \/ StopStep(s) \/ StopContextEnds(s)
  \/ \E w \in Waiters : WaitBegin(w) \/ WaitContextEnds(w) \/ WaitStep(w)

Spec == Init /\ [][Next]_vars

\* Goroutines that can run do, a pending SIGKILL is delivered and a timer in a
\* select fires.  Nothing is assumed of the child's own behaviour or of any
\* caller's context.
Fairness ==
  /\ WF_vars(ChildKilled) /\ WF_vars(capture)
  /\ WF_vars(WatcherStep) /\ WF_vars(ReaperStep)
  /\ \A s \in Stoppers : WF_vars(StopStep(s))
  /\ \A w \in Waiters : WF_vars(WaitStep(w))

FairSpec == Spec /\ Fairness

-----------------------------------------------------------------------------
\* What the terminal state says is what happened: a crash carries a reason, a
\* readiness timeout is never reported as a stop, and a stop is only reported
\* when some caller asked for it; and no caller can find the state terminal,
\* or done closed, while the child lives.
TerminalTruth ==
  /\ state = "crashed" <=> reason # "none"
  /\ state = "stopped" => stopOnce /\ ~pendingCrash
  /\ reason = "readiness_timeout" <=> Terminal /\ pendingCrash
  /\ Terminal <=> done
  /\ Terminal => child # "alive" /\ waitCh /\ readyCh

\* A terminal process is final: no readiness fact, reason or artifact appears
\* after the state became terminal, whatever the watcher had already decided.
TerminalIsFinal ==
  [][Terminal => UNCHANGED <<state, fact, reason, artifacts, pendingCrash>>]_vars

\* When the terminal state is published the captured output is delivered, also
\* of a child that never proved readiness or whose last lines were read after
\* its death: there is an artifact exactly if the child wrote a line and the
\* first was not too long for the scanner, after which nothing is captured.
OutputDelivered == Terminal => (artifacts <=> first = "fits")

\* A Stop that returned an outcome left no child behind and reported the
\* recorded state; whichever Stop owned the teardown has asked for the kill or
\* seen the exit.
StopOutcome ==
  \A s \in Stoppers :
    /\ stopper[s] \in {"stopped", "crashed"} => state = stopper[s]
    /\ (stopper[s] = "ctx" /\ \A t \in Stoppers : stopper[t] \notin {"signal", "wait"})
         => (child # "alive" \/ "kill" \in signals)

\* The goroutines implement the supervision contract of ServerProcess: a
\* process never leaves a terminal state, is "stopped" only when a caller asked
\* for it, proves readiness at most once and only while it is not terminal;
\* it proves readiness or ends, since a child that does neither is killed when
\* the readiness timer fires; and it ends once a caller asked it to stop.
Contract == INSTANCE ServerProcess WITH
              state <- IF state \in {"launching", "running"} THEN "starting" ELSE state,
              asked <- stopOnce

ImplementsProcess == Contract!ProcessSpec

MeetsContract == Contract!FairProcessSpec

\* No wakeup is lost: whoever waits is woken by readiness or by the terminal
\* state, and every Stop returns, also when the child ignores SIGTERM.
WaitersReturn ==
  /\ \A s \in Stoppers : stopper[s] \in {"signal", "wait", "join"} ~> stopper[s] \in Returned
  /\ \A w \in Waiters :
       /\ waiter[w] = "waitReady" ~> waiter[w] \in {"ready", "notReady", "ctx"}
       /\ waiter[w] = "waitTerminal" /\ stopOnce ~> waiter[w] \in {"terminal", "ctx"}

\* launcher.go:72 "CrashExitNonZero is recorded when the child exited with a
\* non-zero status without being asked to stop", a typed crash.
UnexpectedExitIsCrash == child = "crashes" /\ ~stopRequested ~> state = "crashed"
=============================================================================
