---------------------------- MODULE Preparation ----------------------------
(***************************************************************************)
(* Scenario preparation: orchestrator/scenario.go, the lifecycle record of *)
(* core/scenario-preparation.go, the replay grants of core/grant.go, and   *)
(* the provider that turns a replay into a revision (provider/provider.go, *)
(* core/prepare.go; the compiler is Compiler).                             *)
(*                                                                         *)
(* Each accepted preparation has a goroutine, runPreparer.  Cancellers run *)
(* CancelPreparation and waiters run WaitReady against it.  A lock section *)
(* is one step: the orchestrator's, the preparation's and the authority's  *)
(* locks are never held together.  Preparations are numbered by prepSeq;   *)
(* the token of a grant is the preparation it was minted for.              *)
(***************************************************************************)
EXTENDS Compiler

CONSTANTS
  MaxPreps,         \* bound on prepSeq
  Accounts, Catalog, Demo, TakeoverTicks,
  MaxFreshness,     \* the provider's freshness budget
  TTL, MaxClock,    \* the grants' lifetime, and the bound on the clock
  FetchFailures,    \* typed causes on the way from the store to the facts
  Cancellers, Waiters

Preps == 1 .. MaxPreps

Grants == [owner : Accounts, replay : Catalog, expires : Nat, used : BOOLEAN, revoked : BOOLEAN]
Requests == [owner : Accounts, replay : Catalog, takeover : TakeoverTicks]
Refusals == {"grant_revoked", "grant_already_used", "grant_expired"}
Causes == Refusals \cup FetchFailures
            \cup {"takeover_tick_required", "provider_failed", "compile_refused"}

\* Demo gives, for each replay of the catalog, what its bytes hold: the facts
\* of any tick and the proven interval.
ASSUME PreparationAssumption ==
  /\ MaxPreps \in Nat /\ TTL \in Nat \ {0} /\ MaxClock \in Nat /\ MaxFreshness \in Nat
  /\ TakeoverTicks \subseteq Ticks
  /\ \A r \in Catalog : WellFormed(Demo[r].facts) /\ Demo[r].interval \in Nat
  /\ Nothing \notin Grants /\ Nothing \notin Requests /\ Nothing \notin Causes

VARIABLES
  prepSeq, clock, shutdown,
  request,       \* the Prepare calls: "none", "reserved", "minted", "refused", "accepted"
  asked,         \* what each asked for: [owner, replay, takeover]
  grant,         \* the authority's record of the grant minted for a preparation
  phase, revision, failure,  \* the lifecycle record: a state ("none" before it
                             \* exists), no or one revision, a reason
  server,        \* processes and allocFailures of the orchestrator
  runner, cause, \* the goroutine of a preparation, and the error it carries
  canceller, cancels,        \* CancelPreparation calls and their preparations
  waiter, waits              \* WaitReady calls and their preparations

requestVars == <<prepSeq, request, asked>>
recordVars == <<phase, revision, failure>>
goroutineVars == <<runner, cause>>
cancelVars == <<canceller, cancels>>
waitVars == <<waiter, waits>>
environmentVars == <<clock, shutdown>>
vars == <<requestVars, grant, recordVars, server, goroutineVars, cancelVars, waitVars,
          environmentVars>>

Terminal(p) == phase[p] \in {"ready", "failed", "cancelled"}
\* The facts s2replay extracts at the takeover tick of a preparation.
Facts(p) == [Demo[asked[p].replay].facts EXCEPT !.tick = asked[p].takeover]
Interval(p) == Demo[asked[p].replay].interval

TypeOK ==
  /\ prepSeq \in 0 .. MaxPreps /\ clock \in 0 .. MaxClock /\ shutdown \in BOOLEAN
  /\ request \in [Preps -> {"none", "reserved", "minted", "refused", "accepted"}]
  /\ asked \in [Preps -> Requests \cup {Nothing}]
  /\ grant \in [Preps -> Grants \cup {Nothing}]
  /\ phase \in [Preps -> {"none", "queued", "running", "ready", "failed", "cancelled"}]
  /\ failure \in [Preps -> Causes \cup {Nothing}]
  /\ server \in [Preps -> {"none", "process", "failure"}]
  /\ runner \in [Preps -> {"none", "start", "check", "verify", "fetch", "mark", "compile",
                           "fail", "await", "revoke", "allocate", "done"}]
  /\ cause \in [Preps -> Causes \cup {Nothing}]
  /\ canceller \in [Cancellers -> {"idle", "revoke", "refused", "ok"}]
  /\ cancels \in [Cancellers -> Preps \cup {0}]
  /\ waiter \in [Waiters -> {"idle", "read", "blocked", "terminal", "ctx"}]
  /\ waits \in [Waiters -> Preps \cup {0}]

Init ==
  /\ prepSeq = 0 /\ clock = 0 /\ shutdown = FALSE
  /\ request = [p \in Preps |-> "none"] /\ asked = [p \in Preps |-> Nothing]
  /\ grant = [p \in Preps |-> Nothing]
  /\ phase = [p \in Preps |-> "none"]
  /\ revision = [p \in Preps |-> {}] /\ failure = [p \in Preps |-> Nothing]
  /\ server = [p \in Preps |-> "none"]
  /\ runner = [p \in Preps |-> "none"] /\ cause = [p \in Preps |-> Nothing]
  /\ canceller = [c \in Cancellers |-> "idle"] /\ cancels = [c \in Cancellers |-> 0]
  /\ waiter = [w \in Waiters |-> "idle"] /\ waits = [w \in Waiters |-> 0]

-----------------------------------------------------------------------------
(* Orchestrator.Prepare.  An unknown replay is refused before anything     *)
(* changes.                                                                *)

ReserveID(a, r, t) ==
  /\ prepSeq < MaxPreps
  /\ prepSeq' = prepSeq + 1
  /\ request' = [request EXCEPT ![prepSeq'] = "reserved"]
  /\ asked' = [asked EXCEPT ![prepSeq'] = [owner |-> a, replay |-> r, takeover |-> t]]
  /\ UNCHANGED <<grant, recordVars, server, goroutineVars, cancelVars, waitVars, environmentVars>>

\* Refused for a second mint, or when no nonce can be generated.
Mint(p) ==
  /\ request[p] = "reserved"
  /\ \/ /\ grant[p] = Nothing
        /\ grant' = [grant EXCEPT ![p] =
             [owner |-> asked[p].owner, replay |-> asked[p].replay,
              expires |-> clock + TTL, used |-> FALSE, revoked |-> FALSE]]
        /\ request' = [request EXCEPT ![p] = "minted"]
     \/ /\ request' = [request EXCEPT ![p] = "refused"]
        /\ UNCHANGED grant
  /\ UNCHANGED <<prepSeq, asked, recordVars, server, goroutineVars, cancelVars, waitVars,
                 environmentVars>>

\* The preparation is registered and its goroutine started.
Register(p) ==
  /\ request[p] = "minted"
  /\ request' = [request EXCEPT ![p] = "accepted"]
  /\ phase' = [phase EXCEPT ![p] = "queued"]
  /\ runner' = [runner EXCEPT ![p] = "start"]
  /\ UNCHANGED <<prepSeq, asked, grant, revision, failure, server, cause, cancelVars, waitVars,
                 environmentVars>>

-----------------------------------------------------------------------------
(* The lifecycle record.  A transition that is legal from the current      *)
(* state sets all three fields and broadcasts.                             *)

LegalWithoutTerminalCheck(p, next) ==
  /\ next = "running" => phase[p] = "queued"
  /\ next = "ready" => phase[p] = "running"

Legal(p, next) ==
  /\ ~Terminal(p)
  /\ next = "running" => phase[p] = "queued"
  /\ next = "ready" => phase[p] = "running"

\* Wakes nobody when a preparation is cancelled.
BroadcastUnlessCancelled(p) ==
  waiter' = [w \in Waiters |->
    IF waits[w] = p /\ waiter[w] = "blocked" /\ phase'[p] # "cancelled" THEN "read" ELSE waiter[w]]

\* Everyone blocked on the channel of the record reads it again.
Broadcast(p) ==
  waiter' = [w \in Waiters |-> IF waits[w] = p /\ waiter[w] = "blocked" THEN "read" ELSE waiter[w]]

transition(p, next, rev, reason) ==
  /\ Legal(p, next)
  /\ phase' = [phase EXCEPT ![p] = next]
  /\ revision' = [revision EXCEPT ![p] = rev]
  /\ failure' = [failure EXCEPT ![p] = reason]
  /\ Broadcast(p)

Refuse(p, next) == ~Legal(p, next) /\ UNCHANGED <<recordVars, waiter>>

-----------------------------------------------------------------------------
(* runPreparer and the provider.                                           *)

\* The goroutine goes on at pc, with an error when c is one.
Continue(p, pc, c) ==
  /\ runner' = [runner EXCEPT ![p] = pc]
  /\ cause' = [cause EXCEPT ![p] = c]

\* A preparation already terminal is refused without consulting the store.
PrepareStart(p) ==
  /\ runner[p] = "start"
  /\ Continue(p, IF Terminal(p) THEN "await" ELSE "check", Nothing)
  /\ UNCHANGED <<requestVars, grant, recordVars, server, cancelVars, waitVars, environmentVars>>

CheckPreparation(p) ==
  /\ runner[p] = "check"
  /\ IF asked[p].takeover = 0 THEN Continue(p, "fail", "takeover_tick_required")
     ELSE IF shutdown THEN Continue(p, "fail", "provider_failed")
     ELSE Continue(p, "verify", Nothing)
  /\ UNCHANGED <<requestVars, grant, recordVars, server, cancelVars, waitVars, environmentVars>>

\* Looks at the use and the expiry only.
RefusalUnlessRevoked(g) ==
  IF g.used THEN "grant_already_used"
  ELSE IF clock >= g.expires THEN "grant_expired"
  ELSE "none"

\* The refusals of Verify, in its order.  The token is the preparation's own,
\* so it is never unknown and never bound to another preparation or replay.
Refusal(g) ==
  IF g.revoked THEN "grant_revoked"
  ELSE IF g.used THEN "grant_already_used"
  ELSE IF clock >= g.expires THEN "grant_expired"
  ELSE "none"

\* Verification consumes the grant; a refusal never does.
Verify(p) ==
  /\ runner[p] = "verify"
  /\ IF Refusal(grant[p]) # "none"
     THEN Continue(p, "fail", Refusal(grant[p])) /\ UNCHANGED grant
     ELSE Continue(p, "fetch", Nothing) /\ grant' = [grant EXCEPT ![p].used = TRUE]
  /\ UNCHANGED <<requestVars, recordVars, server, cancelVars, waitVars, environmentVars>>

\* The store, the bounded read, the interval prober and the extraction.  A
\* store may heed the cancelled context, but need not.
FetchReplay(p) ==
  /\ runner[p] = "fetch"
  /\ \/ /\ Interval(p) > 0
        /\ Continue(p, "mark", Nothing)
     \/ \E f \in FetchFailures : Continue(p, "fail", f)
  /\ UNCHANGED <<requestVars, grant, recordVars, server, cancelVars, waitVars, environmentVars>>

MarkRunning(p) ==
  /\ runner[p] = "mark"
  /\ \/ transition(p, "running", {}, Nothing) /\ Continue(p, "compile", Nothing)
     \/ Refuse(p, "running") /\ Continue(p, "fail", "provider_failed")
  /\ UNCHANGED <<requestVars, grant, server, cancelVars, waits, environmentVars>>

\* A refused compilation is marked failed here, and the provider then tries
\* to mark it again.
PrepareScenario(p) ==
  /\ runner[p] = "compile"
  /\ LET revisions == Compile(Facts(p), MaxFreshness, Interval(p)) IN
     \/ /\ revisions = {}
        /\ \/ transition(p, "failed", {}, "compile_refused")
           \/ Refuse(p, "failed")
        /\ Continue(p, "fail", "provider_failed")
     \/ /\ \E r \in revisions : transition(p, "ready", {r}, Nothing)
        /\ Continue(p, "await", Nothing)
     \/ /\ revisions # {} /\ Refuse(p, "ready")
        /\ Continue(p, "fail", "provider_failed")
  /\ UNCHANGED <<requestVars, grant, server, cancelVars, waits, environmentVars>>

\* Provider.fail: a refusal to mark means the preparation has its end.
MarkFailed(p) ==
  /\ runner[p] = "fail"
  /\ transition(p, "failed", {}, cause[p]) \/ Refuse(p, "failed")
  /\ Continue(p, "await", Nothing)
  /\ UNCHANGED <<requestVars, grant, server, cancelVars, waits, environmentVars>>

\* The runner's own WaitReady; a shutdown ends it only while it would block.
AwaitEnd(p) ==
  /\ runner[p] = "await"
  /\ Terminal(p) \/ shutdown
  /\ Continue(p, IF ~Terminal(p) THEN "done"
                 ELSE IF phase[p] = "ready" THEN "allocate" ELSE "revoke", Nothing)
  /\ UNCHANGED <<requestVars, grant, recordVars, server, cancelVars, waitVars, environmentVars>>

RevokedThoughUsed(p) ==
  IF grant[p] = Nothing THEN grant ELSE [grant EXCEPT ![p].revoked = TRUE]

\* An unknown preparation and a consumed grant are left alone.
Revoked(p) ==
  IF grant[p] = Nothing \/ grant[p].used THEN grant
  ELSE [grant EXCEPT ![p].revoked = TRUE]

RunnerRevokes(p) ==
  /\ runner[p] = "revoke"
  /\ grant' = Revoked(p)
  /\ Continue(p, "done", Nothing)
  /\ UNCHANGED <<requestVars, recordVars, server, cancelVars, waitVars, environmentVars>>

\* The allocation and the lock section that records what it returned.
AllocateServer(p) ==
  /\ runner[p] = "allocate"
  /\ \E s \in {"process", "failure"} : server' = [server EXCEPT ![p] = s]
  /\ Continue(p, "done", Nothing)
  /\ UNCHANGED <<requestVars, grant, recordVars, cancelVars, waitVars, environmentVars>>

Runner(p) ==
  \/ PrepareStart(p) \/ CheckPreparation(p) \/ Verify(p) \/ FetchReplay(p)
  \/ MarkRunning(p) \/ PrepareScenario(p) \/ MarkFailed(p)
  \/ AwaitEnd(p) \/ RunnerRevokes(p) \/ AllocateServer(p)

-----------------------------------------------------------------------------
(* CancelPreparation: the mark, then the revocation.                       *)

\* Only the owner of a registered preparation gets past the lookup.
CancelMark(c, a, p) ==
  /\ canceller[c] = "idle"
  /\ phase[p] # "none" /\ asked[p].owner = a
  /\ cancels' = [cancels EXCEPT ![c] = p]
  /\ \/ /\ transition(p, "cancelled", {}, Nothing)
        /\ canceller' = [canceller EXCEPT ![c] = "revoke"]
     \/ /\ Refuse(p, "cancelled")
        /\ canceller' = [canceller EXCEPT ![c] = "refused"]
  /\ UNCHANGED <<requestVars, grant, server, goroutineVars, waits, environmentVars>>

CancelRevoke(c) ==
  /\ canceller[c] = "revoke"
  /\ grant' = Revoked(cancels[c])
  /\ canceller' = [canceller EXCEPT ![c] = "ok"]
  /\ UNCHANGED <<requestVars, recordVars, server, goroutineVars, cancels, waitVars,
                 environmentVars>>

-----------------------------------------------------------------------------
(* WaitReady: the state and the channel are read under one lock.           *)

WaitBegin(w, p) ==
  /\ waiter[w] = "idle" /\ phase[p] # "none"
  /\ waiter' = [waiter EXCEPT ![w] = "read"]
  /\ waits' = [waits EXCEPT ![w] = p]
  /\ UNCHANGED <<requestVars, grant, recordVars, server, goroutineVars, cancelVars,
                 environmentVars>>

WaitReads(w) ==
  /\ waiter[w] = "read"
  /\ waiter' = [waiter EXCEPT ![w] = IF Terminal(waits[w]) THEN "terminal" ELSE "blocked"]
  /\ UNCHANGED <<requestVars, grant, recordVars, server, goroutineVars, cancelVars, waits,
                 environmentVars>>

WaitContextEnds(w) ==
  /\ waiter[w] = "blocked" /\ shutdown
  /\ waiter' = [waiter EXCEPT ![w] = "ctx"]
  /\ UNCHANGED <<requestVars, grant, recordVars, server, goroutineVars, cancelVars, waits,
                 environmentVars>>

-----------------------------------------------------------------------------

Tick ==
  /\ clock < MaxClock
  /\ clock' = clock + 1
  /\ UNCHANGED <<requestVars, grant, recordVars, server, goroutineVars, cancelVars, waitVars,
                 shutdown>>

Shutdown ==
  /\ ~shutdown /\ shutdown' = TRUE
  /\ UNCHANGED <<requestVars, grant, recordVars, server, goroutineVars, cancelVars, waitVars,
                 clock>>

Request ==
  \/ \E a \in Accounts, r \in Catalog, t \in TakeoverTicks : ReserveID(a, r, t)
  \/ \E p \in Preps : Mint(p) \/ Register(p)

Cancel ==
  \E c \in Cancellers :
    \/ \E a \in Accounts, p \in Preps : CancelMark(c, a, p)
    \/ CancelRevoke(c)

Wait ==
  \E w \in Waiters :
    \/ \E p \in Preps : WaitBegin(w, p)
    \/ WaitReads(w)
    \/ WaitContextEnds(w)

Next == Request \/ (\E p \in Preps : Runner(p)) \/ Cancel \/ Wait \/ Tick \/ Shutdown

Spec == Init /\ [][Next]_vars

\* The scheduler runs every goroutine that can go on; a store, an extractor
\* and an allocator return.  Cancellations, shutdown and the clock owe nothing.
Fairness ==
  /\ \A p \in Preps : WF_vars(Runner(p))
  /\ \A w \in Waiters : WF_vars(WaitReads(w))

FairSpec == Spec /\ Fairness

-----------------------------------------------------------------------------
\* A request that returned left a grant exactly when it left a preparation;
\* no grant is both used and revoked; and once the goroutine of a preparation
\* that did not become ready is done, its grant can never fetch again (the
\* comments on Prepare, Revoke and runPreparer).
GrantSettled ==
  \A p \in Preps :
    /\ request[p] = "accepted" <=> phase[p] # "none"
    /\ phase[p] # "none" => grant[p] # Nothing
    /\ request[p] = "refused" => grant[p] = Nothing
    /\ grant[p] # Nothing =>
         /\ ~(grant[p].used /\ grant[p].revoked)
         /\ phase[p] = "ready" => grant[p].used
         /\ runner[p] = "done" /\ phase[p] # "ready" => grant[p].used \/ grant[p].revoked

\* A ready revision accounts for every field of the facts it was compiled
\* from and leads in honestly, whatever raced its preparation.
RevisionHonest ==
  \A p \in Preps :
    /\ phase[p] = "ready" <=> revision[p] # {}
    /\ \A r \in revision[p] :
         /\ AccountsForEveryField(Facts(p), MaxFreshness, r)
         /\ LeadInHonest(Interval(p), r)

\* Once CancelPreparation has returned success, replay bytes are never fetched
\* for that preparation ("so it can never be used to fetch replay bytes").
CancelStopsFetch ==
  [][\A c \in Cancellers : canceller[c] = "ok" =>
       \A p \in Preps : cancels[c] = p => (runner[p] = "verify" => runner'[p] # "fetch")]_vars

\* Every preparation keeps the lifecycle its owner was promised: one end, with
\* exactly what belongs to it, and a server decided only after it is ready.
Outcome(p) ==
  IF revision[p] # {} THEN "revision" ELSE IF failure[p] # Nothing THEN "reason" ELSE "none"

L(p) == INSTANCE ScenarioLifecycle
          WITH phase <- phase[p], outcome <- Outcome(p), server <- server[p]

KeepsLifecycle ==
  /\ \A p \in Preps : L(p)!LifecycleInit
  /\ [][\A p \in Preps : L(p)!LifecycleNext \/ UNCHANGED L(p)!lifecycleVars]_vars

\* Every accepted preparation ends, every ready one has its server decided, and
\* nobody who waits for a preparation misses its end.
EveryoneServed ==
  /\ \A p \in Preps : L(p)!Promised
  /\ \A w \in Waiters : waiter[w] \in {"read", "blocked"} ~> waiter[w] \in {"terminal", "ctx"}
=============================================================================
