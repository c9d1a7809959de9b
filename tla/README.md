# Fraglands: formal models

TLA+ specifications of the stateful core of this repository, the TLC
configurations that model-check them on small instances, and TLAPS proofs that
carry the main safety results to every instance. Paths are relative to the
repository root.

    tlc -workers 2 -config MCResultPath.cfg MCResultPath.tla     # a run
    tlapm ResultPathProofs.tla                                   # a proof

`PROJECT.json` lists the runs, the map from definitions to source lines, a
mutation for every checked property, the hazards, findings and theorems.
Type invariants, and a few invariants that a stronger checked property covers,
are not run but proved; they are named below with their theorems.

## The system

Fraglands turns a moment of a recorded match into a playable scenario. An
account asks for a preparation; the provider compiles a scenario revision from
a replay fetched under a one-use grant; the worker allocates a game server
process for it; accounts hold lobby slots, get one-use join intents and are
admitted on the process; the game server writes a terminal summary per attempt
into its spool directory, and the summary becomes the account's private result.

| component | state | operations | modelled in |
|---|---|---|---|
| lease authority, `core/server-lease.go` | lease per credential, active lease per generation | issue, authenticate, revoke, two commits | `ServerLease` |
| ingestion gate, `server/summary-ingestion.go` | digests seen | ingest | `ResultPath` |
| spool watcher, `server/summary-spool-watcher.go` | processed names, terminal, stopped | poll, stop, refuse | `ResultPath` |
| admission and results, `orchestrator/{admission,server,scenario,join}.go`, `core/result.go`, `app/composition.go` | consumed intents, admissions, results | consume, attribute, accept | `ResultPath`, `ResultLedger`, `AttemptPath` |
| host launcher, `server/hostexec/launcher.go` | spool directories; state, fact, reason, flags, channels of one child | launch; capture, watch, reap, stop, wait | `Launching`, `HostProcess` |
| process contract, `server/process*.go` | state and fact | prove ready, stop, end | `ServerProcess` |
| supervisor, `server/supervisor.go` | generations, registry, ports, spools | start, reap | `WorkerAllocator`, `Launching` |
| worker allocator, `worker/allocator.go` | retained handles | allocate, recover | `WorkerAllocator`, `ScenarioServer` |
| preparation, `core/{scenario-preparation,prepare}.go`, `orchestrator/scenario.go` | state, revision and failure of a preparation, its server | prepare, run, cancel, wait | `Preparation`, `ScenarioLifecycle`, `ScenarioServer` |
| replay grants, `core/grant.go`, `provider/verifying-store.go` | grant per preparation | mint, verify, revoke | `Preparation` |
| provider and compiler, `provider/provider.go`, `core/provider.go` | none (pure) | fetch, extract, compile | `Preparation`, `Compiler` |
| lobby, claims, invitations, join intents, `core/{lobby,join-intent}.go`, `orchestrator/{claim,join}.go` | slots, invitations, intents, admissions | claim, release, invite, issue, consume | `JoinPath`, `Roster` |
| web sessions, `web/{session,csrf,login,web,handlers}.go` | sessions, tokens | sign in and out, resolve, render, verify | `WebSession`, `Console` |
| API, `cmd`, templates, readers | none of their own | translate and render | not modelled |

How they interact: the orchestrator calls the provider on a goroutine of its own
and then the worker, which calls the supervisor, which calls the launcher; the
launcher's goroutines talk through closed channels and one mutex. Spool watchers
call the gate; the gate runs its commit as a callback under the lease
authority's mutex, and that callback takes the orchestrator's lock and the
store's. The hard behaviours are the interleavings between lock acquisitions
(attribution, digests, leases), the closing of channels against timers and
exits, failures in the middle of a launch, a teardown or a commit, concurrent
retries of a teardown, and the exhaustion of the port range. What makes each
part correct is stated with its module below. The program persists none of its
own state and recovers nothing after a crash, but two things outlive it: the
spool directories, and the children, which have process groups of their own.
`Launching` restarts the program over both. The crash of a game server is a
normal event and modelled as one.

## Modules

Every section of the code under one mutex is one step; what the code does
between two sections may interleave with anything. A deferred unlock that
follows the last write is part of that step.

**ServerLease** models the two maps of the authority. A lease record is written
once under a fresh token and never removed, so the pointer in `active` is the
token. `commits` is a history of the lease each commit ran under; it records the
closure's success, since a closure that fails changes nothing. Properties:
versions only grow, across revocations too (`ActiveIsNewest`), and a credential
that stopped authenticating never does again (`NeverAuthenticatesAgain`); both
are checked in `result_path`, over the split commits. That commits follow lease
order (`NoStaleCommit`) is proved.

**ResultPath** extends it with watchers, the gate, admission and the store. `pc`
is where a watcher stands inside `pollOnce` and `Ingest`; `leaseLock` is the
authority's mutex, which the gate's commit holds over three steps (attribution,
admission check, store), each under a lock of its own. `spool` is the directory:
publication is a rename over a name, and a file may be replaced, vanish or be
unreadable. An artifact is its own digest: SHA-256 is taken as free of
collisions. Properties: `ReservationsOwned`, `OneAttribution`, `PollTerminates`,
`PollAdvances` (each step of a poll returns, drops an entry, or takes its ingest
nearer to its end), and two refinements: the split commit implements the one-step commits of
ServerLease (`ImplementsLease`), and the whole path implements **ResultLedger**
(`ImplementsLedger`), which says without watchers, credentials or locks what a
private result is: live lease, admitted account, the process's revision, once
per attempt, for ever.

**HostProcess** models one child from a successful `Launch` on: the stdout
capture, the readiness watcher, the reaper, concurrent callers of `Stop`,
`WaitReadiness` and `WaitTerminal`. A channel that carries no value and is closed
once is a Boolean; a timer may fire whenever its select is waited on. The child
writes lines, the ready line among them, exits with or without an error, or dies
of a signal. `pipe` holds the lines that `capture` has not read. A line beyond the
scanner's limit ends the scan: what follows is read and thrown away, a ready line
included, and if it was the first, nothing is kept and nothing delivered. The
buffer's own bound cuts text but keeps at least a byte of the first line, so
whether there is something to deliver depends on that line alone, which is what
`OutputDelivered` says; how much is delivered is not modelled. A caller of a wait
chooses which. Properties: `TerminalTruth`, `OutputDelivered`, `StopOutcome`,
`WaitersReturn`, and `MeetsContract`, the refinement of
**ServerProcess**, the contract of one process as the interfaces in `server/`
describe it: terminal is final, "stopped" only when asked, readiness decided one
way or the other, a requested stop ends. `TerminalIsFinal` is proved.

**WorkerAllocator** models the supervisor and the allocator over processes that
behave as ServerProcess says. A caller of Allocate reserves, launches,
registers, waits, and tears down; a recoverer looks up, locks, tears down. A
generation names its handle and its spool; its port is `BasePort + g - 1`, as in
the code. Properties: `Isolation` (the reserved ports and spools are those of
the registered generations, running processes are registered),
`ReapNeverRefused` and `RecoveryReclaims`, checked in
`scenario_server`, where the callers are preparations; that every registered
process has exactly one party who will reap it (`OneOwner`), and that what
Allocate reports stays true (`OutcomeTruth`), is proved. The launcher guarantees
what this module assumes of the processes (`MeetsContract`, proved for its safety
part), and that this module's use of them stays within it (`ProcessesKeepContract`)
is proved.

**ScenarioServer** extends it with `runPreparer`: the goroutine of a ready
preparation is a caller of Allocate, in every detail, and records in a lock
section of its own what came back (`handle` is the generation recorded). The
preparation itself moves as ScenarioLifecycle lets it, which `Preparation` was
shown to implement. Properties: `ServersDistinct` (no two preparations are ever
given one process: results, intents and admissions are keyed by generation),
`ProcessesAccounted` (whatever runs or is reserved is some ready preparation's,
or is retained for recovery), `StatusTruth`, `ServesLifecycle` (with the
allocator in place of its outcome the preparation is still a behaviour of
ScenarioLifecycle), `ServerDecided`.

**Launching** has what the two modules above take as one step: a launch in the
steps of `Supervisor.Start` and `Launcher.Launch`, any of which may fail, and
restarts of the program, which numbers generations, ports and directories from 1
again over the children and directories that earlier runs left. `launch` tells
launches of one generation apart; `came`, `past` and `launches` are history.
Properties: `FreshSpool`, `NoTrace`, `ChildrenHeld`, `SpoolKept`; that no two live
children share a generation, hence a port and a spool, across restarts too
(`LiveIsolated`), is proved. That a generation's old directory is there is all that keeps a
restarted program off a surviving child: after a restart every launch fails
(`ErrSpoolExists`) until the numbers pass those of the earlier runs. The code
has no other way past them, and no text of the repository says more. The
repository constructs no launcher outside its tests: which root it gets, and
that a restart gets the same, is up to the deployment.

**Compiler** is `Compile` and what it calls, as operators: the typed omissions in
the order of the code's checks, the fidelity, the revision's identity, and the
lead-in window with its conversion of a float to an unsigned tick. The float is
a quotient of integers, rounded down; beyond 32 bits the conversion yields what a
platform makes of it (`ToUint32`), so a compilation yields a set of revisions.
Two statements say what a caller may rely on: `AccountsForEveryField` and
`LeadInHonest`.

**Preparation** extends it with `Orchestrator.Prepare`, the runner goroutine of
each preparation, the provider it calls, the record's `transition`, the grant
authority with a clock, cancellers (mark, then revoke: two lock sections, and
the fetch may come between), `WaitReady` and the shutdown of the context.
`runner[p]` is where the goroutine stands, `cause[p]` the error it carries to
`fail`. Properties: `GrantSettled`, `RevisionHonest`, `CancelStopsFetch`,
`EveryoneServed`, and `KeepsLifecycle`: every preparation is a behaviour of
**ScenarioLifecycle**, which knows no grants, stores, compilers or goroutines.

**JoinPath** takes over where a preparation is ready: each call of the API is a
sequence of lock sections, and `call[k]` is what a call has checked and is about
to do. A lobby keeps the two maps of the code. `seated` is a history of who ever
held a slot. Properties: `LobbyConsistent`, `AdmissionsIssued`, and `MeetsRoster`,
the refinement of **Roster**: only the owner and those the owner invited are ever
seated, never more at a time than the lobby holds, and only who was seated is
ever admitted. A slot may be given up before the intent is stored or consumed, so
more accounts may be admitted in the end than the lobby seats at a time; Roster
promises no more than the code keeps.

**AttemptPath** extends it by the acceptance of results, one step each, as
`ResultPath` was shown to act on ResultLedger. It closes the chain:
`ResultsEarned` follows a private result back to a used intent, a slot, and the
invitation or the ownership behind the slot; `AdmitsAsAssumed` says that
admissions change as `ResultPath` lets them change (used up first, recorded
after, one at a time, never taken back); and `KeepsLedger` that over the
join path's admissions the results still are the ledger. It assumes that
processes of different preparations have different generations, which is
`ServersDistinct`.

**WebSession** models the two stores of the console, one step per call to a
store or to the identity authority: a request resolves its session, is
authenticated, and renders, acts or signs out; sign-in destroys the session that
came along and creates another. Properties: `FormsStayValid`, `OwnFormsOnly`, and
`MeetsConsole`, the refinement of **Console**: a session opens once and closes for
good, and nothing is done but by a request that found its session open and whose
account was vouched for after that. The session may close while its request
runs on: the code does not look again, and Console does not ask it to.

The `MC` modules give values to constants that a configuration file cannot
spell, and the symmetry sets; `HostProcess`, `WorkerAllocator`, `ScenarioServer`
and `Launching` are run directly.

## Runs

| run | instance | question |
|---|---|---|
| `result_path` | 1 generation, 2 watchers, 2 tokens, 2 accounts, 2 names | lease order, no revival, reservations, attribution, both refinements |
| `result_path_live` | 1 direct submitter besides, oversize files, 1 name, 2 tokens, 1 account, fairness | every poll returns, step by step nearer; the ledger with a submitter |
| `host_process` | 2 stoppers, 1 waiter of either kind, 2 lines unread, fairness | terminal truth, what is delivered, contract, no lost wakeup |
| `scenario_server` | 2 preparations, 2 recoverers, 2 ports, fairness | leaks, ownership and recovery, whose process is whose, the status, the lifecycle |
| `launching` | 2 callers, 3 generations, 5 launches, 2 restarts | fresh directories, failures, children, restarts |
| `preparation` | 1 preparation, 3 replays, 2 owners, 2 cancellers, 1 waiter, clock to 2, fairness | grants, lifecycle, honest revisions, everybody served |
| `attempt_path` | 2 preparations of one revision with different owners, 3 accounts, one without Steam, 2 calls, lobby of 1, 1 invitation, 1 intent, 1 attempt, leases opening and closing | the maps, the roster, results back to their entitlement |
| `web_session` | 2 requests, 2 identifiers, 2 tokens, 2 accounts | forms, sessions, the console |

Why the bounds suffice to be interesting. Two tokens give an old and a replaced
lease, and a revocation between them; with the old record never removed, a third
would meet the same two maps. Two watchers of one generation are the situation in
which reservations collide, and two summaries that conflict under one attempt, one
also under a wrong name, reach every refusal. Two stoppers are an owner and a
joiner. Two lines unread put a ready line before or behind one too long for the
scanner; a waiter decides nothing for the others, so one of either kind shows
whether it is woken. Two allocations can fail together and be retained together, and two
recoverers can meet on either; the exhausted range takes a third allocation, which
`worker_ports_exhausted` reaches with one caller, and the proofs allow any number.
In `launching`, five launches over three generations fail, come up, and come back
over the directories and children of two earlier runs.
Preparations share `prepSeq`, the clock and the keyed authority and nothing else,
so one is enough for what races inside it; its three replays compile to a
complete revision whose window overflows, a preview with every kind of omission,
and a refusal, and the clock passes the grant's lifetime. Two preparations of one
revision are what could confuse intents and results. The owner of a lobby of one
slot and the account it invited contend for it, at once or one after the other's
release, and a full lobby refuses either; what a lobby of one slot cannot show,
that one account never holds two, `LobbiesConsistent` and `RosterKept` prove for
every capacity. One invitation and one intent are enough to be presented twice, by
two calls. Two requests meet on one session, or close each other's; identifiers
and tokens are random and never repeat, so requests stop when they are used up.
The proofs show, for the theorems they list, that the safety results do not
depend on these numbers. Runs that check no liveness use symmetry where values
are only compared: tokens, accounts and watchers in `result_path`, calls in
`attempt_path` and its preparations together with their owners, and everything in
`web_session`. Deadlock is not checked where the system really stops: a reaped
child whose callers returned, preparations that ended or were given up, ports,
generations, invitations, intents or identifiers used up, and in the runs that
must fail. The two passing runs of the result path check it.

Runs that must fail, each a disagreement between the code and its own text:

| run | the text | the code |
|---|---|---|
| `result_path_duplicate` | `terminal-summary.go:39`: duplicate means "already ingested" | a duplicate of a reservation that is rolled back is dropped too |
| `host_process_crash` | `launcher.go:72`: `exit_nonzero` is recorded for a child that exited so "without being asked to stop" | a crash before any stop is recorded as a stop if one begins before the reaper records the end |
| `worker_returns_terminal` | `process-allocator.go:18`: "must not return a process that has already become terminal" | a fact recorded before the exit is enough |
| `worker_ports_exhausted` | `supervisor.go:59` and `:131`: no generation leaks, a port is freed "for reuse" | ports follow generations, which only grow |

Further places where text and code part, met while modelling, without a run:

- `server-lease.go:193` says that after Revoke "no CommitLease for the generation
  can succeed"; `IssueLease` accepts a revoked generation, which then commits again.
- `prepare.go:43` "A returned error means the preparation was transitioned to
  failed": not when it was cancelled meanwhile, and `MarkRunning` refuses.
- `provider.go:97` of `core`: no freshness budget "can never yield a Complete grant":
  it does for facts without a hero, which have no omission.
- `provider.go:67` of `core`: everything not listed "forces Preview"; `heroOmissions`
  looks at the nine kinematic fields only.
- `session.go:10` "since last activity": the deadline is fixed at creation.
- `web.go:192` "The upstream credential is no longer valid": any error of
  `Authenticate` destroys the session.
- `replay_not_found` (`provider/errors.go:72`) is never reported: a store error is
  wrapped as denied first. `CancelPreparation` has no caller in the repository,
  and `LeadInStartTick` of a preparation is not read by the compiler.
- `launcher.go:609` and `process-stop.go:15` say that Stop of a terminal process
  refuses with a typed error: of a stopped one it returns nil. `ErrStopInProgress`
  (`launcher.go:100`) is returned by nobody; a second Stop waits for the first.
- `launcher.go:19` "readiness is proven only when the child's stdout contains the
  exact configured line": necessary, not sufficient, since a ready line behind one
  too long for the scanner is not seen.
- An invitation is single-use, but a claim authorized by a slot held now may
  return after a concurrent release and seat the account again (`claim.go:32-40`).

## Fairness

Goroutines that can run do so (weak fairness of the steps of a poll, of the
watcher, reaper, stop and wait steps, of an allocation and a recovery). Timers
in a select fire, so a select with a timer never blocks for ever. A pending
SIGKILL is delivered. `recoverMtx` is granted under strong fairness, since Go's
mutexes hand over to a starving waiter. Nothing is assumed of the child, of the
file writer, of cancellations, of new calls or of the deployment.
A preparation's goroutine goes on whenever it can, which assumes that a store, an
extractor and an allocator return; cancellations,
shutdown and the clock owe nothing. In `ScenarioServer` a ready preparation's
goroutine allocates and records in the end, and the deployment owes nothing.
`AttemptPath`, `WebSession` and `Launching` are checked for safety only.
`RecoveryReclaims` is conditional on Recover being called again and again: the
code starts no recovery by itself. The allocator's `process[g].asked => ends` is
what `HostProcess` proves by model checking as part of `MeetsContract`.

## Proofs

Each proof module extends its component. The only assumptions are the named
ASSUMEs on the constants, which TLC evaluates in every run. Every type invariant is
a theorem, and every invariant and action property that a run checks.

- `ServerLeaseProofs`: the invariant adds to the types that the active record of
  a generation exists, was issued for it and is newer than the others; the three
  properties follow.
- `ResultPathProofs`: `ResultInv`. `ReservationsOwned` is inductive only with the
  facts about what a watcher past each check knows: that the lock holder's
  credential is still valid (`LockInv`), that stored results were admitted
  (`ResultsAdmitted`), and that a pending account was the only one admitted when
  it was attributed (`AttributionInv`): later admissions cannot undo a stored
  attribution, they can only make the next one fail. Both refinements are
  proved from it, step by step: each action is a step of the abstract
  specification or a stutter. `PollsAdvance` proves the bound behind the
  termination of polls: with `Left`, the entries a poll has not been through, and
  the place its ingest has reached, every step of a poll goes down or returns.
- `HostProcessProofs`: `HostInv` relates the reaper's position to the state, the
  channels and the child (`PhaseInv`), the reason and the flags (`ReasonInv`),
  and the stoppers to each other (`StopInv`). `OutputInv` follows the child's first
  line: it is next to be read, in the buffer, or ended the scan (`StreamInv`), and
  once the reaper is past the captures only the last two are left. The safety part of the contract is
  a theorem (`ProcessContractImplemented`).
- `WorkerAllocatorProofs`: `Inv` says what every actor knows of its generation at
  each step (`StageInv`), that a recoverer in a teardown holds the mutex and its
  generation is retained (`RecovererInv`), and that unallocated generations have
  left no trace (`FreshInv`); uniqueness of owners then makes one actor's
  step invisible to the others. One lemma per action. For `ScenarioServer` the
  invariant is extended by what each goroutine's call knows of the record
  (`PreparationInv`): a preparation that has not recorded still is the only one
  named by the allocator's stage, and one that has keeps a generation that the
  counter has passed. `ServersDistinct` follows because generations are never given
  out twice, and `LifecycleServed` maps each step to ScenarioLifecycle.
- `PreparationProofs`: first the statements about every revision that a compilation
  yields (`CompileHonest`), from the arithmetic of the clamp and a case split on the
  omission kinds. Then, for any number of preparations, cancellers and waiters. The
  invariant says what a preparation's goroutine knows at each step of the record
  and of its grant, and that a canceller past its revocation left a grant that is
  used or revoked; that is what keeps the fetch out for ever.
- `JoinPathProofs`: the maps are inverse, so the members of a lobby are as many as
  its occupied slots; every seat, and every call that will claim, has its owner or
  invitation behind it, and every intent, stored or on its way, has a seat behind
  it. For `AttemptPath` the entitlement of every seat (`EntitledInv`) and the
  account's own Steam identity in every intent (`OwnSteam`) carry over to
  admissions and from there to results. Against the results' side,
  `AdmissionsAsAssumed` and `LedgerKept` prove that the two halves of the chain,
  `JoinPath` and `ResultPath`, fit.
- `LaunchingProofs`: for any number of callers and restarts. `CallInv` says what a
  launch has made of its directory and child at each step, `Apart` that two launches
  under way have different generations, `RegistryInv` and `OutsideInv` what is left
  of the launches of this run and of earlier ones. `SpoolIsFresh` and
  `ChildrenIsolated` rest on one fact: a directory once made by a launch whose child
  came up is never removed, so the next that gets this generation fails.
- `WebSessionProofs`: a token of a held session is the one its forms carry, since
  a session is deleted before its token is dropped (`DeletedFirst`) and every
  stored token went out with a form (`TokensRendered`).

Only model-checked: all liveness (`PollTerminates`, `WaitersReturn`,
`RecoveryReclaims`, `ServerDecided`, `EveryoneServed` and the fair part of
`MeetsContract`), which is out of the prover's reach.

## What is not modelled

The JSON codec of the summary (an artifact decodes or does not), the file system
checks of the spool reader and of `createSpoolDir` (a check fails or does not; that
the launcher removes an empty directory of its own is taken to succeed), stderr, the text that the bound on stdout keeps (but whether
it keeps any is), copies of the output that outlast `WaitDelay` because a
descendant of the child holds the pipe, HTTP, HTML, logging. `MarkCrashed`,
`MarkStopped` and `DeliverArtifact` of the launcher are exported but called by
no code of the repository except the reaper's own delivery. The deployment that
issues and revokes leases and shuts processes down is not in the repository; it
is modelled as calling these operations at any time.

The API (`api/`) translates JSON and errors and keeps no state. The replay
parser is a library: extraction yields given facts or a typed failure. A grant's
MAC and random tokens are taken as unforgeable and never repeated. A launch is one
outcome in `WorkerAllocator`; its steps are in `Launching`.

## Plan

What would come next: a refinement of `WorkerAllocator`'s one-step launch by
`Launching`, for a run of the program without restarts; `Preparation` in place of
ScenarioLifecycle under `ScenarioServer`; and the history of leases behind the
admission to the ledger in `AttemptPath`, in place of a lease that opens and closes.
