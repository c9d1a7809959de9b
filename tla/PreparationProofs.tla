-------------------------- MODULE PreparationProofs --------------------------
(***************************************************************************)
(* Proofs about Compiler, for every facts record, budget, interval and tick*)
(* width; and about Preparation, which compiles with it, for any number of *)
(* preparations, accounts, cancellers and waiters, and any catalog and     *)
(* clock.                                                                  *)
(***************************************************************************)
EXTENDS Preparation, TLAPS

-----------------------------------------------------------------------------
(* The compiler.                                                           *)

\* Whatever a platform makes of an overflowing conversion is no larger than
\* what was converted.
LEMMA ConversionBounded ==
  ASSUME NEW n \in Nat, NEW m \in ToUint32(n)
  PROVE  m \in Nat /\ m <= n /\ (m = n \/ TickLimit <= n)
<1>1. TickLimit \in Nat \ {0}
  BY CompilerAssumption
<1>2. CASE n < TickLimit
  BY <1>1, <1>2 DEF ToUint32
<1>3. CASE ~(n < TickLimit)
  <2>1. n % TickLimit \in 0 .. TickLimit - 1
    BY <1>1
  <2>2. m \in {n % TickLimit, 0, TickLimit - 1}
    BY <1>3 DEF ToUint32
  <2>3. QED
    BY <1>1, <1>3, <2>1, <2>2
<1>4. QED
  BY <1>2, <1>3

\* Rounding down loses less than one divisor.
LEMMA Division ==
  ASSUME NEW n \in Nat, NEW d \in Nat \ {0}
  PROVE  n \div d \in Nat /\ (n \div d) * d <= n /\ n < (n \div d + 1) * d
OBVIOUS

LEMMA Monotone ==
  ASSUME NEW a \in Nat, NEW b \in Nat, NEW d \in Nat, a <= b
  PROVE  a * d <= b * d
OBVIOUS

\* The lead-in starts within the replay and never exceeds its five seconds,
\* on every platform and for every interval.
THEOREM LeadInWindow ==
  ASSUME NEW takeover \in Nat, NEW interval \in Nat \ {0},
         NEW start \in leadInStartTick(takeover, interval),
         NEW r, r.takeover = takeover, r.leadInStart = start
  PROVE  LeadInHonest(interval, r)
<1> DEFINE full == LeadIn \div interval
<1>1. full \in Nat /\ full * interval <= LeadIn /\ LeadIn < (full + 1) * interval
  BY CompilerAssumption, Division
<1>2. PICK ticks \in ToUint32(full) : start = IF ticks > takeover THEN 0 ELSE takeover - ticks
  BY DEF leadInStartTick
<1>3. ticks \in Nat /\ ticks <= full /\ (ticks = full \/ TickLimit <= full)
  BY <1>1, ConversionBounded
<1> DEFINE window == takeover - start
<1> HIDE DEF full
<1>4. start \in 0 .. takeover /\ window \in Nat /\ window <= ticks /\ (start = 0 \/ window = ticks)
  BY <1>2, <1>3
<1> HIDE DEF window
<1>5. window * interval <= LeadIn
  <2>1. window * interval <= full * interval
    BY <1>1, <1>3, <1>4, Monotone
  <2>2. QED
    BY <1>1, <1>4, <2>1, CompilerAssumption
<1>6. \/ start = 0
      \/ LeadIn < (window + 1) * interval
      \/ TickLimit <= full
  BY <1>1, <1>3, <1>4
<1>7. QED
  BY <1>4, <1>5, <1>6 DEF LeadInHonest, window, full

-----------------------------------------------------------------------------

\* A field is used under no omission kind exactly when it is usable.
LEMMA UsableMeansNoKind ==
  ASSUME NEW value \in [present : BOOLEAN, freshness : Nat], NEW f \in Fields,
         NEW maxFreshness \in Nat
  PROVE  Usable(value, f, maxFreshness) <=> OmissionKind(value, f, maxFreshness) = "none"
<1>1. CASE ~value.present
  BY <1>1 DEF Usable, OmissionKind
<1>2. CASE value.present /\ (maxFreshness = 0 \/ value.freshness > maxFreshness)
  <2>1. ~(0 < maxFreshness /\ value.freshness <= maxFreshness)
    BY <1>2
  <2>2. QED
    BY <1>2, <2>1 DEF Usable, OmissionKind
<1>3. CASE value.present /\ ~(maxFreshness = 0 \/ value.freshness > maxFreshness)
  <2>1. 0 < maxFreshness /\ value.freshness <= maxFreshness
    BY <1>3
  <2>2. QED
    BY <1>3, <2>1 DEF Usable, OmissionKind
<1>4. QED
  BY <1>1, <1>2, <1>3

\* The omissions of a facts record are those of its fields, and that of the
\* record itself when it is ineligible.
LEMMA OmissionsAre ==
  ASSUME NEW facts, NEW maxFreshness, NEW o
  PROVE  o \in collectOmissions(facts, maxFreshness) <=>
           \/ ~facts.eligible /\ o = <<"ineligible", << >> >>
           \/ \E s \in DOMAIN facts.heroes, f \in Fields :
                /\ OmissionKind(facts.heroes[s][f], f, maxFreshness) # "none"
                /\ o = <<OmissionKind(facts.heroes[s][f], f, maxFreshness), <<s, f>>>>
<1> HIDE DEF OmissionKind
<1>1. o \in collectOmissions(facts, maxFreshness) <=>
        \/ ~facts.eligible /\ o = <<"ineligible", << >> >>
        \/ \E s \in DOMAIN facts.heroes : o \in heroOmissions(s, facts.heroes[s], maxFreshness)
  BY DEF collectOmissions
<1>2. \A s : o \in heroOmissions(s, facts.heroes[s], maxFreshness) <=>
        \E f \in Fields :
          /\ OmissionKind(facts.heroes[s][f], f, maxFreshness) # "none"
          /\ o = <<OmissionKind(facts.heroes[s][f], f, maxFreshness), <<s, f>>>>
  BY DEF heroOmissions
<1>3. QED
  BY <1>1, <1>2

\* A compiled revision accounts for every field of every observed hero, and
\* is complete exactly when all of them are usable and the facts eligible.
THEOREM FidelityHonest ==
  ASSUME NEW facts, WellFormed(facts), NEW maxFreshness \in Nat,
         NEW r, r.omissions = collectOmissions(facts, maxFreshness),
         r.fidelity = grantedFidelity(r.omissions)
  PROVE  AccountsForEveryField(facts, maxFreshness, r)
<1> DEFINE Kind(s, f) == OmissionKind(facts.heroes[s][f], f, maxFreshness)
           Good(s, f) == Usable(facts.heroes[s][f], f, maxFreshness)
<1>1. \A s \in DOMAIN facts.heroes, f \in Fields : Good(s, f) <=> Kind(s, f) = "none"
  BY UsableMeansNoKind DEF WellFormed
<1>2. facts.eligible \in BOOLEAN
  BY DEF WellFormed
<1>3. \A o : o \in r.omissions <=>
        \/ ~facts.eligible /\ o = <<"ineligible", << >> >>
        \/ \E s \in DOMAIN facts.heroes, f \in Fields :
             Kind(s, f) # "none" /\ o = <<Kind(s, f), <<s, f>>>>
  BY OmissionsAre
<1> HIDE DEF Kind, Good
<1>4. r.fidelity = "complete" <=> r.omissions = {}
  BY DEF grantedFidelity
<1>5. r.omissions = {} <=>
        facts.eligible /\ \A s \in DOMAIN facts.heroes, f \in Fields : Good(s, f)
  BY <1>1, <1>2, <1>3
<1>6. \A s \in DOMAIN facts.heroes, f \in Fields :
        Good(s, f) <=> ~\E o \in r.omissions : o[2] = <<s, f>>
  <2> SUFFICES ASSUME NEW s \in DOMAIN facts.heroes, NEW f \in Fields
               PROVE  Good(s, f) <=> ~\E o \in r.omissions : o[2] = <<s, f>>
    OBVIOUS
  <2>1. Good(s, f) => ~\E o \in r.omissions : o[2] = <<s, f>>
    BY <1>1, <1>3
  <2>2. ~Good(s, f) => <<Kind(s, f), <<s, f>>>> \in r.omissions
    BY <1>1, <1>3
  <2>3. QED
    BY <2>1, <2>2
<1>7. \A o, q \in r.omissions : o[2] = q[2] => o = q
  <2> SUFFICES ASSUME NEW o \in r.omissions, NEW q \in r.omissions, o[2] = q[2]
               PROVE  o = q
    OBVIOUS
  <2>1. CASE o = <<"ineligible", << >> >>
    BY <2>1, <1>3
  <2>2. CASE q = <<"ineligible", << >> >>
    BY <2>2, <1>3
  <2>3. CASE o # <<"ineligible", << >> >> /\ q # <<"ineligible", << >> >>
    BY <2>3, <1>3
  <2>4. QED
    BY <2>1, <2>2, <2>3
<1>8. QED
  BY <1>4, <1>5, <1>6, <1>7 DEF AccountsForEveryField, Good

\* Every revision the compiler yields is honest about its fields and its
\* lead-in.
THEOREM CompileHonest ==
  ASSUME NEW facts, WellFormed(facts), NEW maxFreshness \in Nat, NEW interval \in Nat,
         NEW r \in Compile(facts, maxFreshness, interval)
  PROVE  AccountsForEveryField(facts, maxFreshness, r) /\ LeadInHonest(interval, r)
<1>1. facts.tick \in Nat /\ interval \in Nat \ {0}
  BY DEF Compile, Refused, WellFormed
<1>2. PICK start \in leadInStartTick(facts.tick, interval) :
        r = [id |-> RevisionID(facts), replay |-> replayIdentity(facts.source),
             leadInStart |-> start, takeover |-> facts.tick,
             fidelity |-> grantedFidelity(collectOmissions(facts, maxFreshness)),
             omissions |-> collectOmissions(facts, maxFreshness)]
  BY DEF Compile
<1>3. /\ r.omissions = collectOmissions(facts, maxFreshness)
      /\ r.fidelity = grantedFidelity(r.omissions)
      /\ r.takeover = facts.tick /\ r.leadInStart = start
  BY <1>2
<1>4. AccountsForEveryField(facts, maxFreshness, r)
  BY <1>3, FidelityHonest
<1>5. LeadInHonest(interval, r)
  BY <1>1, <1>3, LeadInWindow
<1>6. QED
  BY <1>4, <1>5

-----------------------------------------------------------------------------
(* The preparation.                                                        *)

\* What a request has made so far.
RequestInv ==
  \A p \in Preps :
    /\ p <= prepSeq <=> request[p] # "none"
    /\ request[p] # "none" => asked[p] \in Requests
    /\ grant[p] # Nothing <=> request[p] \in {"minted", "accepted"}
    /\ phase[p] # "none" <=> request[p] = "accepted"
    /\ runner[p] # "none" <=> request[p] = "accepted"

\* A preparation runs only on a consumed grant, and a grant that was consumed
\* is never revoked.
GrantInv ==
  \A p \in Preps : grant[p] # Nothing =>
    /\ ~(grant[p].used /\ grant[p].revoked)
    /\ runner[p] \in {"fetch", "mark", "compile"} => grant[p].used
    /\ phase[p] \in {"running", "ready"} => grant[p].used
    /\ runner[p] = "done" /\ phase[p] # "ready" => grant[p].used \/ grant[p].revoked

\* The provider leaves its preparation terminal.
RunnerInv ==
  \A p \in Preps :
    /\ runner[p] \in {"await", "revoke", "allocate", "done"} => Terminal(p)
    /\ runner[p] = "revoke" => phase[p] # "ready"
    /\ runner[p] = "allocate" => phase[p] = "ready"
    /\ runner[p] = "fail" => cause[p] \in Causes
    /\ server[p] # "none" => runner[p] = "done" /\ phase[p] = "ready"

\* What the lifecycle record holds.
RecordInv ==
  /\ DOMAIN revision = Preps
  /\ \A p \in Preps :
    /\ phase[p] = "ready" <=> revision[p] # {}
    /\ phase[p] = "failed" <=> failure[p] # Nothing
    /\ \A r \in revision[p] : r \in Compile(Facts(p), MaxFreshness, Interval(p))

\* A cancellation that took effect leaves a cancelled preparation, and once it
\* has returned, a dead grant.
CancelInv ==
  \A c \in Cancellers :
    /\ canceller[c] \in {"revoke", "ok"} =>
         cancels[c] \in Preps /\ phase[cancels[c]] = "cancelled"
    /\ canceller[c] = "ok" => grant[cancels[c]].used \/ grant[cancels[c]].revoked

PrepInv == TypeOK /\ RequestInv /\ GrantInv /\ RunnerInv /\ RecordInv /\ CancelInv

USE DEF requestVars, recordVars, goroutineVars, cancelVars, waitVars, environmentVars, vars
USE PreparationAssumption DEF Preps

Pcs == {"none", "start", "check", "verify", "fetch", "mark", "compile", "fail", "await",
        "revoke", "allocate", "done"}
Phases == {"none", "queued", "running", "ready", "failed", "cancelled"}

\* What every step of a goroutine does to its own variables.
LEMMA ContinueTypes ==
  ASSUME TypeOK, NEW p \in Preps, NEW pc \in Pcs, NEW c \in Causes \cup {Nothing},
         Continue(p, pc, c)
  PROVE  /\ runner' \in [Preps -> Pcs] /\ cause' \in [Preps -> Causes \cup {Nothing}]
         /\ runner'[p] = pc /\ cause'[p] = c
         /\ \A q \in Preps : q # p => runner'[q] = runner[q] /\ cause'[q] = cause[q]
BY DEF TypeOK, Continue, Pcs

\* A revocation changes nothing but the revoked flag of an unused grant.
LEMMA RevokedGrants ==
  ASSUME TypeOK, NEW p \in Preps
  PROVE  /\ Revoked(p) \in [Preps -> Grants \cup {Nothing}]
         /\ \A q \in Preps : q # p => Revoked(p)[q] = grant[q]
         /\ Revoked(p)[p] = Nothing <=> grant[p] = Nothing
         /\ grant[p] # Nothing =>
              /\ Revoked(p)[p].used = grant[p].used
              /\ Revoked(p)[p].revoked = (IF grant[p].used THEN grant[p].revoked ELSE TRUE)
<1>1. CASE grant[p] = Nothing \/ grant[p].used
  BY <1>1 DEF Revoked, TypeOK
<1>2. CASE ~(grant[p] = Nothing \/ grant[p].used)
  <2>1. grant[p] \in Grants
    BY <1>2 DEF TypeOK
  <2>2. [grant[p] EXCEPT !.revoked = TRUE] \in Grants
    BY <2>1 DEF Grants
  <2> DEFINE g == [grant[p] EXCEPT !.revoked = TRUE]
  <2>3. g.used = grant[p].used /\ g.revoked = TRUE /\ g # Nothing
    BY <2>1, <2>2 DEF Grants
  <2>4. Revoked(p) = [grant EXCEPT ![p] = g]
    BY <1>2, <2>1 DEF Revoked, TypeOK
  <2>5. g \in Grants
    BY <2>2
  <2> HIDE DEF g
  <2>6. Revoked(p)[p] = g /\ \A q \in Preps : q # p => Revoked(p)[q] = grant[q]
    BY <2>4 DEF TypeOK
  <2>7. Revoked(p) \in [Preps -> Grants \cup {Nothing}]
    BY <2>4, <2>5 DEF TypeOK
  <2>8. QED
    BY <1>2, <2>3, <2>6, <2>7
<1>3. QED
  BY <1>1, <1>2

\* A transition that is legal leaves the record of every other preparation
\* alone, and everyone who waits where it was or reading again.
LEMMA TransitionEffect ==
  ASSUME TypeOK, NEW p \in Preps, NEW next \in Phases, NEW revs,
         NEW reason \in Causes \cup {Nothing}, transition(p, next, revs, reason)
  PROVE  /\ phase' \in [Preps -> Phases] /\ failure' \in [Preps -> Causes \cup {Nothing}]
         /\ phase'[p] = next /\ failure'[p] = reason
         /\ revision' = [revision EXCEPT ![p] = revs]
         /\ \A q \in Preps : q # p => phase'[q] = phase[q] /\ failure'[q] = failure[q]
         /\ waiter' \in [Waiters -> {"idle", "read", "blocked", "terminal", "ctx"}]
         /\ ~Terminal(p)
BY DEF TypeOK, transition, Broadcast, Legal, Phases

\* A transition to a state with what belongs to it keeps the record whole.
LEMMA TransitionRecord ==
  ASSUME TypeOK, RecordInv, NEW p \in Preps, NEW next \in Phases, NEW revs,
         NEW reason \in Causes \cup {Nothing}, transition(p, next, revs, reason),
         UNCHANGED asked,
         next = "ready" <=> revs # {}, next = "failed" <=> reason # Nothing,
         \A r \in revs : r \in Compile(Facts(p), MaxFreshness, Interval(p))
  PROVE  RecordInv'
<1>1. \A q \in Preps : Facts(q)' = Facts(q) /\ Interval(q)' = Interval(q)
  BY DEF Facts, Interval
<1>2. \A q \in Preps : revision'[q] = (IF q = p THEN revs ELSE revision[q])
  <2>1. revision' = [revision EXCEPT ![p] = revs]
    BY TransitionEffect
  <2> QED
    BY <2>1 DEF RecordInv
<1>3. DOMAIN revision' = Preps
  BY TransitionEffect DEF RecordInv
<1>4. QED
  BY <1>1, <1>2, <1>3, TransitionEffect DEF RecordInv

LEMMA PrepareStartPreserves ==
  ASSUME PrepInv, NEW p \in Preps, PrepareStart(p)
  PROVE  PrepInv'
<1> USE DEF PrepInv
<1>1. TypeOK'
  BY DEF PrepareStart, Continue, Terminal, TypeOK, RequestInv, GrantInv, RunnerInv
<1>2. RequestInv'
  BY DEF PrepareStart, Continue, Terminal, RequestInv, TypeOK, GrantInv, RunnerInv
<1>3. GrantInv'
  BY DEF PrepareStart, Continue, Terminal, GrantInv, TypeOK, RequestInv, RunnerInv
<1>4. RunnerInv'
  BY DEF PrepareStart, Continue, Terminal, RunnerInv, TypeOK, RequestInv, GrantInv
<1>5. RecordInv'
  BY DEF PrepareStart, Continue, Terminal, RecordInv, TypeOK, RequestInv, GrantInv, RunnerInv, Facts, Interval
<1>6. CancelInv'
  BY DEF PrepareStart, Continue, Terminal, CancelInv, TypeOK, RequestInv, GrantInv, RunnerInv
<1>7. QED
  BY <1>1, <1>2, <1>3, <1>4, <1>5, <1>6

LEMMA CheckPreparationPreserves ==
  ASSUME PrepInv, NEW p \in Preps, CheckPreparation(p)
  PROVE  PrepInv'
<1> USE DEF PrepInv
<1>1. TypeOK'
  <2>1. PICK pc \in {"fail", "verify"}, c \in Causes \cup {Nothing} : Continue(p, pc, c)
    BY DEF CheckPreparation, Causes
  <2>2. runner' \in [Preps -> Pcs] /\ cause' \in [Preps -> Causes \cup {Nothing}]
    BY <2>1, ContinueTypes DEF Pcs
  <2>3. QED
    BY <2>2 DEF CheckPreparation, TypeOK, Pcs
<1>2. RequestInv'
  BY DEF CheckPreparation, Continue, Causes, Terminal, RequestInv, TypeOK, GrantInv, RunnerInv
<1>3. GrantInv'
  BY DEF CheckPreparation, Continue, Causes, Terminal, GrantInv, TypeOK, RequestInv, RunnerInv
<1>4. RunnerInv'
  BY DEF CheckPreparation, Continue, Causes, Terminal, RunnerInv, TypeOK, RequestInv, GrantInv
<1>5. RecordInv'
  BY DEF CheckPreparation, Continue, Causes, Terminal, RecordInv, TypeOK, RequestInv, GrantInv, RunnerInv, Facts, Interval
<1>6. CancelInv'
  BY DEF CheckPreparation, Continue, Causes, Terminal, CancelInv, TypeOK, RequestInv, GrantInv, RunnerInv
<1>7. QED
  BY <1>1, <1>2, <1>3, <1>4, <1>5, <1>6

\* A verification refuses and changes no grant, or consumes a grant that was
\* neither used nor revoked.
LEMMA VerifyEffect ==
  ASSUME PrepInv, NEW p \in Preps, Verify(p)
  PROVE  \/ UNCHANGED grant /\ \E c \in Refusals : Continue(p, "fail", c)
         \/ /\ Continue(p, "fetch", Nothing)
            /\ ~grant[p].used /\ ~grant[p].revoked
            /\ grant' \in [Preps -> Grants \cup {Nothing}]
            /\ grant'[p] # Nothing /\ grant'[p].used /\ ~grant'[p].revoked
            /\ \A q \in Preps : q # p => grant'[q] = grant[q]
<1>1. grant[p] \in Grants
  BY DEF PrepInv, RequestInv, TypeOK, Verify
<1>2. CASE Refusal(grant[p]) # "none"
  BY <1>2 DEF Verify, Refusal, Refusals
<1>3. CASE Refusal(grant[p]) = "none"
  <2>1. ~grant[p].used /\ ~grant[p].revoked
    BY <1>1, <1>3 DEF Refusal
  <2> DEFINE g == [grant[p] EXCEPT !.used = TRUE]
  <2>2. g \in Grants /\ g.used /\ ~g.revoked
    BY <1>1, <2>1 DEF Grants
  <2>3. grant' = [grant EXCEPT ![p] = g] /\ Continue(p, "fetch", Nothing)
    BY <1>1, <1>3 DEF Verify, PrepInv, TypeOK
  <2> HIDE DEF g
  <2>4. grant'[p] = g /\ \A q \in Preps : q # p => grant'[q] = grant[q]
    BY <2>3 DEF PrepInv, TypeOK
  <2>5. grant' \in [Preps -> Grants \cup {Nothing}]
    BY <2>2, <2>3 DEF PrepInv, TypeOK
  <2>6. QED
    BY <2>1, <2>2, <2>3, <2>4, <2>5
<1>4. QED
  BY <1>2, <1>3

LEMMA VerifyPreserves ==
  ASSUME PrepInv, NEW p \in Preps, Verify(p)
  PROVE  PrepInv'
<1> USE DEF PrepInv
<1>1. TypeOK'
  <2>1. CASE UNCHANGED grant /\ \E c \in Refusals : Continue(p, "fail", c)
    BY <2>1, ContinueTypes DEF Verify, Causes, Pcs, TypeOK
  <2>2. CASE ~(UNCHANGED grant /\ \E c \in Refusals : Continue(p, "fail", c))
    <3>1. Continue(p, "fetch", Nothing) /\ grant' \in [Preps -> Grants \cup {Nothing}]
      BY <2>2, VerifyEffect
    <3>2. runner' \in [Preps -> Pcs] /\ cause' \in [Preps -> Causes \cup {Nothing}]
      BY <3>1, ContinueTypes DEF Pcs
    <3> QED
      BY <3>1, <3>2 DEF Verify, Pcs, TypeOK
  <2>3. QED
    BY <2>1, <2>2
<1>2. RequestInv'
  <2>1. CASE UNCHANGED grant /\ \E c \in Refusals : Continue(p, "fail", c)
    BY <2>1, ContinueTypes DEF Verify, Causes, Pcs, RequestInv
  <2>2. CASE ~(UNCHANGED grant /\ \E c \in Refusals : Continue(p, "fail", c))
    <3>1. Continue(p, "fetch", Nothing) /\ grant'[p] # Nothing
          /\ \A q \in Preps : q # p => grant'[q] = grant[q]
      BY <2>2, VerifyEffect
    <3>3. grant[p] # Nothing
      BY DEF Verify, RequestInv
    <3>2. \A q \in Preps : runner'[q] = "none" <=> runner[q] = "none"
      BY <3>1, ContinueTypes DEF Verify, Pcs
    <3> QED
      BY <3>1, <3>2, <3>3 DEF Verify, RequestInv
  <2>3. QED
    BY <2>1, <2>2
<1>3. GrantInv'
  <2>1. CASE UNCHANGED grant /\ \E c \in Refusals : Continue(p, "fail", c)
    BY <2>1, ContinueTypes DEF Verify, Causes, Pcs, GrantInv, RunnerInv, Terminal
  <2>2. CASE ~(UNCHANGED grant /\ \E c \in Refusals : Continue(p, "fail", c))
    BY <2>2, VerifyEffect, ContinueTypes DEF Verify, Causes, Pcs, GrantInv, RunnerInv, Terminal
  <2>3. QED
    BY <2>1, <2>2
<1>4. RunnerInv'
  BY DEF Verify, Continue, Refusal, Grants, Causes, Refusals, Terminal, RunnerInv, TypeOK, RequestInv, GrantInv
<1>5. RecordInv'
  BY DEF Verify, Continue, Refusal, Grants, Causes, Refusals, Terminal, RecordInv, TypeOK, RequestInv, GrantInv, RunnerInv, Facts, Interval
<1>6. CancelInv'
  <2>1. CASE UNCHANGED grant /\ \E c \in Refusals : Continue(p, "fail", c)
    BY <2>1, ContinueTypes DEF Verify, Causes, Pcs, CancelInv
  <2>2. CASE ~(UNCHANGED grant /\ \E c \in Refusals : Continue(p, "fail", c))
    BY <2>2, VerifyEffect, ContinueTypes DEF Verify, Causes, Pcs, CancelInv
  <2>3. QED
    BY <2>1, <2>2
<1>7. QED
  BY <1>1, <1>2, <1>3, <1>4, <1>5, <1>6

LEMMA FetchReplayPreserves ==
  ASSUME PrepInv, NEW p \in Preps, FetchReplay(p)
  PROVE  PrepInv'
<1> USE DEF PrepInv
<1>1. TypeOK'
  <2>1. PICK pc \in {"fail", "mark"}, c \in Causes \cup {Nothing} : Continue(p, pc, c)
    BY DEF FetchReplay, Causes
  <2>2. runner' \in [Preps -> Pcs] /\ cause' \in [Preps -> Causes \cup {Nothing}]
    BY <2>1, ContinueTypes DEF Pcs
  <2>3. QED
    BY <2>2 DEF FetchReplay, TypeOK, Pcs
<1>2. RequestInv'
  BY DEF FetchReplay, Continue, Causes, Terminal, RequestInv, TypeOK, GrantInv, RunnerInv
<1>3. GrantInv'
  BY DEF FetchReplay, Continue, Causes, Terminal, GrantInv, TypeOK, RequestInv, RunnerInv
<1>4. RunnerInv'
  BY DEF FetchReplay, Continue, Causes, Terminal, RunnerInv, TypeOK, RequestInv, GrantInv
<1>5. RecordInv'
  BY DEF FetchReplay, Continue, Causes, Terminal, RecordInv, TypeOK, RequestInv, GrantInv, RunnerInv, Facts, Interval
<1>6. CancelInv'
  BY DEF FetchReplay, Continue, Causes, Terminal, CancelInv, TypeOK, RequestInv, GrantInv, RunnerInv
<1>7. QED
  BY <1>1, <1>2, <1>3, <1>4, <1>5, <1>6

LEMMA MarkRunningPreserves ==
  ASSUME PrepInv, NEW p \in Preps, MarkRunning(p)
  PROVE  PrepInv'
<1> USE DEF PrepInv
<1>0. /\ \A q \in Preps : q # p => phase'[q] = phase[q] /\ runner'[q] = runner[q] /\ cause'[q] = cause[q]
      /\ \/ ~Terminal(p) /\ phase'[p] = "running" /\ runner'[p] = "compile"
         \/ phase'[p] = phase[p] /\ runner'[p] = "fail" /\ cause'[p] = "provider_failed"
  <2>1. CASE transition(p, "running", {}, Nothing) /\ Continue(p, "compile", Nothing)
    BY <2>1, TransitionEffect, ContinueTypes DEF Phases, Pcs
  <2>2. CASE Refuse(p, "running") /\ Continue(p, "fail", "provider_failed")
    BY <2>2, ContinueTypes DEF Refuse, Pcs, Causes
  <2> QED
    BY <2>1, <2>2 DEF MarkRunning
<1>1. TypeOK'
  <2>1. PICK pc \in {"compile", "fail"}, c \in Causes \cup {Nothing} : Continue(p, pc, c)
    BY DEF MarkRunning, Causes
  <2>2. runner' \in [Preps -> Pcs] /\ cause' \in [Preps -> Causes \cup {Nothing}]
    BY <2>1, ContinueTypes DEF Pcs
  <2>3. /\ phase' \in [Preps -> Phases] /\ failure' \in [Preps -> Causes \cup {Nothing}]
        /\ waiter' \in [Waiters -> {"idle", "read", "blocked", "terminal", "ctx"}]
    <3>1. CASE UNCHANGED <<recordVars, waiter>>
      BY <3>1 DEF TypeOK, Phases
    <3>2. ASSUME NEW next \in Phases, NEW revs, NEW reason \in Causes \cup {Nothing},
                 transition(p, next, revs, reason)
          PROVE  /\ phase' \in [Preps -> Phases] /\ failure' \in [Preps -> Causes \cup {Nothing}]
                 /\ waiter' \in [Waiters -> {"idle", "read", "blocked", "terminal", "ctx"}]
      BY <3>2, TransitionEffect
    <3>3. QED
      BY <3>1, <3>2 DEF MarkRunning, Refuse, Phases, Causes
  <2>4. QED
    BY <2>2, <2>3 DEF MarkRunning, TypeOK, Pcs, Phases
<1>2. RequestInv'
  BY <1>0 DEF MarkRunning, RequestInv
<1>3. GrantInv'
  BY <1>0 DEF MarkRunning, RequestInv, GrantInv, RunnerInv, Terminal
<1>4. RunnerInv'
  BY <1>0 DEF MarkRunning, RunnerInv, Terminal, RequestInv, Causes
<1>5. RecordInv'
  <2>1. CASE UNCHANGED recordVars
    BY <2>1 DEF MarkRunning, RecordInv, Facts, Interval
  <2>2. CASE transition(p, "running", {}, Nothing)
    BY <2>2, TransitionRecord DEF MarkRunning, Phases
  <2>3. QED
    BY <2>1, <2>2 DEF MarkRunning, Refuse
<1>6. CancelInv'
  BY <1>0 DEF MarkRunning, CancelInv, Terminal
<1>7. QED
  BY <1>1, <1>2, <1>3, <1>4, <1>5, <1>6

LEMMA PrepareScenarioPreserves ==
  ASSUME PrepInv, NEW p \in Preps, PrepareScenario(p)
  PROVE  PrepInv'
<1> USE DEF PrepInv
<1>0. /\ \A q \in Preps : q # p => phase'[q] = phase[q] /\ runner'[q] = runner[q] /\ cause'[q] = cause[q]
      /\ \/ ~Terminal(p) /\ phase'[p] = "failed" /\ runner'[p] = "fail" /\ cause'[p] = "provider_failed"
         \/ ~Terminal(p) /\ phase'[p] = "ready" /\ runner'[p] = "await"
         \/ phase'[p] = phase[p] /\ runner'[p] = "fail" /\ cause'[p] = "provider_failed"
  <2>1. CASE transition(p, "failed", {}, "compile_refused") /\ Continue(p, "fail", "provider_failed")
    BY <2>1, TransitionEffect, ContinueTypes DEF Phases, Pcs, Causes
  <2>2. ASSUME NEW r, transition(p, "ready", {r}, Nothing), Continue(p, "await", Nothing)
        PROVE  /\ \A q \in Preps : q # p =>
                    phase'[q] = phase[q] /\ runner'[q] = runner[q] /\ cause'[q] = cause[q]
               /\ ~Terminal(p) /\ phase'[p] = "ready" /\ runner'[p] = "await"
    <3>1. runner'[p] = "await" /\ \A q \in Preps : q # p => runner'[q] = runner[q] /\ cause'[q] = cause[q]
      BY <2>2, ContinueTypes DEF Pcs
    <3>2. ~Terminal(p) /\ phase'[p] = "ready" /\ \A q \in Preps : q # p => phase'[q] = phase[q]
      BY <2>2, TransitionEffect DEF Phases
    <3> QED
      BY <3>1, <3>2
  <2>3. CASE UNCHANGED recordVars /\ Continue(p, "fail", "provider_failed")
    BY <2>3, ContinueTypes DEF Pcs, Causes
  <2> QED
    BY <2>1, <2>2, <2>3 DEF PrepareScenario, Refuse
<1>1. TypeOK'
  <2>1. PICK pc \in {"fail", "await"}, c \in Causes \cup {Nothing} : Continue(p, pc, c)
    BY DEF PrepareScenario, Causes
  <2>2. runner' \in [Preps -> Pcs] /\ cause' \in [Preps -> Causes \cup {Nothing}]
    BY <2>1, ContinueTypes DEF Pcs
  <2>3. /\ phase' \in [Preps -> Phases] /\ failure' \in [Preps -> Causes \cup {Nothing}]
        /\ waiter' \in [Waiters -> {"idle", "read", "blocked", "terminal", "ctx"}]
    <3>1. CASE UNCHANGED <<recordVars, waiter>>
      BY <3>1 DEF TypeOK, Phases
    <3>2. ASSUME NEW next \in Phases, NEW revs, NEW reason \in Causes \cup {Nothing},
                 transition(p, next, revs, reason)
          PROVE  /\ phase' \in [Preps -> Phases] /\ failure' \in [Preps -> Causes \cup {Nothing}]
                 /\ waiter' \in [Waiters -> {"idle", "read", "blocked", "terminal", "ctx"}]
      BY <3>2, TransitionEffect
    <3>3. QED
      BY <3>1, <3>2 DEF PrepareScenario, Refuse, Phases, Causes
  <2>4. QED
    BY <2>2, <2>3 DEF PrepareScenario, TypeOK, Pcs, Phases
<1>2. RequestInv'
  BY <1>0 DEF PrepareScenario, RequestInv
<1>3. GrantInv'
  BY <1>0 DEF PrepareScenario, RequestInv, GrantInv, RunnerInv, Terminal
<1>4. RunnerInv'
  BY <1>0 DEF PrepareScenario, RunnerInv, Terminal, RequestInv, Causes
<1>5. RecordInv'
  <2>1. CASE UNCHANGED recordVars
    BY <2>1 DEF PrepareScenario, RecordInv, Facts, Interval
  <2>2. CASE \/ transition(p, "failed", {}, "compile_refused")
            \/ \E r \in Compile(Facts(p), MaxFreshness, Interval(p)) :
                 transition(p, "ready", {r}, Nothing)
    <3>1. CASE transition(p, "failed", {}, "compile_refused")
      BY <3>1, TransitionRecord DEF PrepareScenario, Phases, Causes
    <3>2. ASSUME NEW r \in Compile(Facts(p), MaxFreshness, Interval(p)),
                 transition(p, "ready", {r}, Nothing)
          PROVE  RecordInv'
      BY <3>2, TransitionRecord DEF PrepareScenario, Phases
    <3>3. QED
      BY <2>2, <3>1, <3>2
  <2>3. QED
    BY <2>1, <2>2 DEF PrepareScenario, Refuse
<1>6. CancelInv'
  BY <1>0 DEF PrepareScenario, CancelInv, Terminal
<1>7. QED
  BY <1>1, <1>2, <1>3, <1>4, <1>5, <1>6

LEMMA MarkFailedPreserves ==
  ASSUME PrepInv, NEW p \in Preps, MarkFailed(p)
  PROVE  PrepInv'
<1> USE DEF PrepInv
<1>0. /\ \A q \in Preps : q # p => phase'[q] = phase[q] /\ runner'[q] = runner[q] /\ cause'[q] = cause[q]
      /\ \/ ~Terminal(p) /\ phase'[p] = "failed"
         \/ Terminal(p) /\ phase'[p] = phase[p]
      /\ runner'[p] = "await"
  <2>1. Continue(p, "await", Nothing) /\ cause[p] \in Causes
    BY DEF MarkFailed, RunnerInv
  <2>2. CASE transition(p, "failed", {}, cause[p])
    <3>1. runner'[p] = "await" /\ \A q \in Preps : q # p => runner'[q] = runner[q] /\ cause'[q] = cause[q]
      BY <2>1, ContinueTypes DEF Pcs
    <3>2. ~Terminal(p) /\ phase'[p] = "failed" /\ \A q \in Preps : q # p => phase'[q] = phase[q]
      BY <2>1, <2>2, TransitionEffect DEF Phases
    <3> QED
      BY <3>1, <3>2
  <2>3. CASE Refuse(p, "failed")
    BY <2>1, <2>3, ContinueTypes DEF Refuse, Legal, Pcs
  <2> QED
    BY <2>2, <2>3 DEF MarkFailed
<1>1. TypeOK'
  <2>1. PICK pc \in {"await"}, c \in Causes \cup {Nothing} : Continue(p, pc, c)
    BY DEF MarkFailed, Causes, RunnerInv
  <2>2. runner' \in [Preps -> Pcs] /\ cause' \in [Preps -> Causes \cup {Nothing}]
    BY <2>1, ContinueTypes DEF Pcs
  <2>3. /\ phase' \in [Preps -> Phases] /\ failure' \in [Preps -> Causes \cup {Nothing}]
        /\ waiter' \in [Waiters -> {"idle", "read", "blocked", "terminal", "ctx"}]
    <3>1. CASE UNCHANGED <<recordVars, waiter>>
      BY <3>1 DEF TypeOK, Phases
    <3>2. ASSUME NEW next \in Phases, NEW revs, NEW reason \in Causes \cup {Nothing},
                 transition(p, next, revs, reason)
          PROVE  /\ phase' \in [Preps -> Phases] /\ failure' \in [Preps -> Causes \cup {Nothing}]
                 /\ waiter' \in [Waiters -> {"idle", "read", "blocked", "terminal", "ctx"}]
      BY <3>2, TransitionEffect
    <3>3. QED
      BY <3>1, <3>2 DEF MarkFailed, Refuse, Phases, Causes, RunnerInv
  <2>4. QED
    BY <2>2, <2>3 DEF MarkFailed, TypeOK, Pcs, Phases
<1>2. RequestInv'
  BY <1>0 DEF MarkFailed, RequestInv
<1>3. GrantInv'
  BY <1>0 DEF MarkFailed, RequestInv, GrantInv, RunnerInv, Terminal
<1>4. RunnerInv'
  BY <1>0 DEF MarkFailed, RunnerInv, Terminal, RequestInv
<1>5. RecordInv'
  <2>1. CASE UNCHANGED recordVars
    BY <2>1 DEF MarkFailed, RecordInv, Facts, Interval
  <2>2. CASE transition(p, "failed", {}, cause[p])
    <3>1. cause[p] \in Causes
      BY DEF MarkFailed, RunnerInv
    <3>2. QED
      BY <2>2, <3>1, TransitionRecord DEF MarkFailed, Phases
  <2>3. QED
    BY <2>1, <2>2 DEF MarkFailed, Refuse
<1>6. CancelInv'
  BY <1>0 DEF MarkFailed, CancelInv, Terminal
<1>7. QED
  BY <1>1, <1>2, <1>3, <1>4, <1>5, <1>6

LEMMA AwaitEndPreserves ==
  ASSUME PrepInv, NEW p \in Preps, AwaitEnd(p)
  PROVE  PrepInv'
<1> USE DEF PrepInv
<1>1. TypeOK'
  BY DEF AwaitEnd, Continue, Terminal, TypeOK, RequestInv, GrantInv, RunnerInv
<1>2. RequestInv'
  BY DEF AwaitEnd, Continue, Terminal, RequestInv, TypeOK, GrantInv, RunnerInv
<1>3. GrantInv'
  BY DEF AwaitEnd, Continue, Terminal, GrantInv, TypeOK, RequestInv, RunnerInv
<1>4. RunnerInv'
  BY DEF AwaitEnd, Continue, Terminal, RunnerInv, TypeOK, RequestInv, GrantInv
<1>5. RecordInv'
  BY DEF AwaitEnd, Continue, Terminal, RecordInv, TypeOK, RequestInv, GrantInv, RunnerInv, Facts, Interval
<1>6. CancelInv'
  BY DEF AwaitEnd, Continue, Terminal, CancelInv, TypeOK, RequestInv, GrantInv, RunnerInv
<1>7. QED
  BY <1>1, <1>2, <1>3, <1>4, <1>5, <1>6

LEMMA RunnerRevokesPreserves ==
  ASSUME PrepInv, NEW p \in Preps, RunnerRevokes(p)
  PROVE  PrepInv'
<1> USE DEF PrepInv
<1>1. TypeOK'
  <2>1. p \in Preps
    OBVIOUS
  <2>2. grant' \in [Preps -> Grants \cup {Nothing}]
    BY <2>1, RevokedGrants DEF RunnerRevokes
  <2>3. QED
    BY <2>2 DEF RunnerRevokes, Continue, TypeOK
<1>2. RequestInv'
  <2>1. p \in Preps
    OBVIOUS
  <2>2. \A q \in Preps : grant'[q] = Nothing <=> grant[q] = Nothing
    <3>1. \A q \in Preps : Revoked(p)[q] = Nothing <=> grant[q] = Nothing
      <4> SUFFICES ASSUME NEW q \in Preps
                   PROVE  Revoked(p)[q] = Nothing <=> grant[q] = Nothing
        OBVIOUS
      <4>1. CASE q = p
        BY <2>1, <4>1, RevokedGrants
      <4>2. CASE q # p
        <5>1. Revoked(p)[q] = grant[q]
          BY <2>1, <4>2, RevokedGrants
        <5>2. QED
          BY <5>1
      <4>3. QED
        BY <4>1, <4>2
    <3>2. grant' = Revoked(p)
      BY DEF RunnerRevokes
    <3>3. QED
      BY <3>1, <3>2
  <2>3. QED
    BY <2>2 DEF RunnerRevokes, Continue, TypeOK, RequestInv
<1>3. GrantInv'
  BY DEF RunnerRevokes, Continue, Revoked, Grants, Terminal, GrantInv, TypeOK, RequestInv, RunnerInv
<1>4. RunnerInv'
  BY DEF RunnerRevokes, Continue, Revoked, Grants, Terminal, RunnerInv, TypeOK, RequestInv, GrantInv
<1>5. RecordInv'
  BY DEF RunnerRevokes, Continue, Revoked, Grants, Terminal, RecordInv, TypeOK, RequestInv, GrantInv, RunnerInv, Facts, Interval
<1>6. CancelInv'
  BY DEF RunnerRevokes, Continue, Revoked, Grants, Terminal, CancelInv, TypeOK, RequestInv, GrantInv, RunnerInv
<1>7. QED
  BY <1>1, <1>2, <1>3, <1>4, <1>5, <1>6

LEMMA AllocateServerPreserves ==
  ASSUME PrepInv, NEW p \in Preps, AllocateServer(p)
  PROVE  PrepInv'
<1> USE DEF PrepInv
<1>1. TypeOK'
  BY DEF AllocateServer, Continue, Terminal, TypeOK, RequestInv, GrantInv, RunnerInv
<1>2. RequestInv'
  BY DEF AllocateServer, Continue, Terminal, RequestInv, TypeOK, GrantInv, RunnerInv
<1>3. GrantInv'
  BY DEF AllocateServer, Continue, Terminal, GrantInv, TypeOK, RequestInv, RunnerInv
<1>4. RunnerInv'
  BY DEF AllocateServer, Continue, Terminal, RunnerInv, TypeOK, RequestInv, GrantInv
<1>5. RecordInv'
  BY DEF AllocateServer, Continue, Terminal, RecordInv, TypeOK, RequestInv, GrantInv, RunnerInv, Facts, Interval
<1>6. CancelInv'
  BY DEF AllocateServer, Continue, Terminal, CancelInv, TypeOK, RequestInv, GrantInv, RunnerInv
<1>7. QED
  BY <1>1, <1>2, <1>3, <1>4, <1>5, <1>6

\* A mint makes a fresh grant where there was none, or nothing.
LEMMA MintEffect ==
  ASSUME PrepInv, NEW p \in Preps, Mint(p)
  PROVE  /\ request' \in [Preps -> {"none", "reserved", "minted", "refused", "accepted"}]
         /\ \A q \in Preps : q # p => request'[q] = request[q]
         /\ request[p] = "reserved" /\ grant[p] = Nothing
         /\ grant' \in [Preps -> Grants \cup {Nothing}]
         /\ \A q \in Preps : q # p => grant'[q] = grant[q]
         /\ \/ grant' = grant /\ request'[p] = "refused"
            \/ /\ request'[p] = "minted" /\ grant'[p] # Nothing
               /\ ~grant'[p].used /\ ~grant'[p].revoked
<1>1. /\ request' \in [Preps -> {"none", "reserved", "minted", "refused", "accepted"}]
      /\ \A q \in Preps : q # p => request'[q] = request[q]
      /\ request[p] = "reserved" /\ grant[p] = Nothing
  <2>1. request[p] = "reserved" /\ grant[p] = Nothing
    BY DEF Mint, PrepInv, RequestInv
  <2>2. PICK r \in {"minted", "refused"} : request' = [request EXCEPT ![p] = r]
    BY DEF Mint
  <2> QED
    BY <2>1, <2>2 DEF PrepInv, TypeOK
<1>2. CASE UNCHANGED grant /\ request' = [request EXCEPT ![p] = "refused"]
  BY <1>1, <1>2 DEF PrepInv, TypeOK
<1>3. CASE ~(UNCHANGED grant /\ request' = [request EXCEPT ![p] = "refused"])
  <2> DEFINE g == [owner |-> asked[p].owner, replay |-> asked[p].replay,
                   expires |-> clock + TTL, used |-> FALSE, revoked |-> FALSE]
  <2>1. asked[p] \in Requests /\ clock + TTL \in Nat
    BY <1>1 DEF PrepInv, RequestInv, TypeOK
  <2>2. g \in Grants /\ ~g.used /\ ~g.revoked
    BY <2>1 DEF Grants, Requests
  <2>3. grant' = [grant EXCEPT ![p] = g] /\ request' = [request EXCEPT ![p] = "minted"]
    BY <1>3 DEF Mint
  <2> HIDE DEF g
  <2>4. grant'[p] = g /\ \A q \in Preps : q # p => grant'[q] = grant[q]
    BY <2>3 DEF PrepInv, TypeOK
  <2>5. grant' \in [Preps -> Grants \cup {Nothing}]
    BY <2>2, <2>3 DEF PrepInv, TypeOK
  <2>6. request'[p] = "minted"
    BY <2>3 DEF PrepInv, TypeOK
  <2>7. QED
    BY <1>1, <2>2, <2>4, <2>5, <2>6
<1>4. QED
  BY <1>2, <1>3

LEMMA MintPreserves ==
  ASSUME PrepInv, NEW p \in Preps, Mint(p)
  PROVE  PrepInv'
<1> USE DEF PrepInv
<1>1. TypeOK'
  BY MintEffect DEF Mint, TypeOK
<1>2. RequestInv'
  BY MintEffect DEF Mint, RequestInv
<1>3. GrantInv'
  BY MintEffect DEF Mint, GrantInv, RequestInv
<1>4. RunnerInv'
  BY DEF Mint, Grants, Requests, Terminal, RunnerInv, TypeOK, RequestInv, GrantInv
<1>5. RecordInv'
  BY DEF Mint, Grants, Requests, Terminal, RecordInv, TypeOK, RequestInv, GrantInv, RunnerInv, Facts, Interval
<1>6. CancelInv'
  BY MintEffect DEF Mint, CancelInv, RequestInv
<1>7. QED
  BY <1>1, <1>2, <1>3, <1>4, <1>5, <1>6

LEMMA RegisterPreserves ==
  ASSUME PrepInv, NEW p \in Preps, Register(p)
  PROVE  PrepInv'
<1> USE DEF PrepInv
<1>1. TypeOK'
  BY DEF Register, Terminal, TypeOK, RequestInv, GrantInv, RunnerInv
<1>2. RequestInv'
  BY DEF Register, Terminal, RequestInv, TypeOK, GrantInv, RunnerInv
<1>3. GrantInv'
  BY DEF Register, Terminal, GrantInv, TypeOK, RequestInv, RunnerInv
<1>4. RunnerInv'
  BY DEF Register, Terminal, RunnerInv, TypeOK, RequestInv, GrantInv
<1>5. RecordInv'
  <2>1. \A q \in Preps : Facts(q)' = Facts(q) /\ Interval(q)' = Interval(q)
    BY DEF Register, Facts, Interval
  <2>2. phase[p] = "none" /\ phase'[p] = "queued" /\ \A q \in Preps : q # p => phase'[q] = phase[q]
    BY DEF Register, TypeOK, RequestInv
  <2>3. UNCHANGED <<revision, failure>>
    BY DEF Register
  <2>4. QED
    BY <2>1, <2>2, <2>3 DEF RecordInv
<1>6. CancelInv'
  BY DEF Register, Terminal, CancelInv, TypeOK, RequestInv, GrantInv, RunnerInv
<1>7. QED
  BY <1>1, <1>2, <1>3, <1>4, <1>5, <1>6

LEMMA ReserveIDPreserves ==
  ASSUME PrepInv, NEW a \in Accounts, NEW r \in Catalog, NEW t \in TakeoverTicks, ReserveID(a, r, t)
  PROVE  PrepInv'
<1> USE DEF PrepInv
<1>1. TypeOK'
  BY DEF ReserveID, Requests, Terminal, TypeOK, RequestInv, GrantInv, RunnerInv
<1>2. RequestInv'
  BY DEF ReserveID, Requests, Terminal, RequestInv, TypeOK, GrantInv, RunnerInv
<1>3. GrantInv'
  BY DEF ReserveID, Requests, Terminal, GrantInv, TypeOK, RequestInv, RunnerInv
<1>4. RunnerInv'
  BY DEF ReserveID, Requests, Terminal, RunnerInv, TypeOK, RequestInv, GrantInv
<1>5. RecordInv'
  <2> DEFINE n == prepSeq + 1
  <2>1. n \in Preps /\ \A q \in Preps : q # n => asked'[q] = asked[q]
    BY DEF ReserveID, TypeOK
  <2>2. revision[n] = {} /\ UNCHANGED recordVars
    <3>1. request[n] = "none"
      BY <2>1 DEF TypeOK, RequestInv
    <3>2. phase[n] = "none"
      BY <2>1, <3>1 DEF RequestInv
    <3>3. QED
      BY <2>1, <3>2 DEF RecordInv, ReserveID
  <2> HIDE DEF n
  <2>3. \A q \in Preps : q # n => Facts(q)' = Facts(q) /\ Interval(q)' = Interval(q)
    BY <2>1 DEF Facts, Interval
  <2>4. QED
    BY <2>2, <2>3 DEF RecordInv
<1>6. CancelInv'
  BY DEF ReserveID, Requests, Terminal, CancelInv, TypeOK, RequestInv, GrantInv, RunnerInv
<1>7. QED
  BY <1>1, <1>2, <1>3, <1>4, <1>5, <1>6

LEMMA CancelMarkPreserves ==
  ASSUME PrepInv, NEW c \in Cancellers, NEW a \in Accounts, NEW p \in Preps, CancelMark(c, a, p)
  PROVE  PrepInv'
<1> USE DEF PrepInv
<1>0. /\ \A q \in Preps : q # p => phase'[q] = phase[q]
      /\ \A d \in Cancellers : d # c => canceller'[d] = canceller[d] /\ cancels'[d] = cancels[d]
      /\ cancels'[c] = p
      /\ \/ ~Terminal(p) /\ phase'[p] = "cancelled" /\ canceller'[c] = "revoke"
         \/ phase'[p] = phase[p] /\ canceller'[c] = "refused"
  <2>1. /\ \A d \in Cancellers : d # c => canceller'[d] = canceller[d] /\ cancels'[d] = cancels[d]
        /\ cancels'[c] = p
    BY DEF CancelMark, TypeOK
  <2>2. CASE transition(p, "cancelled", {}, Nothing) /\ canceller' = [canceller EXCEPT ![c] = "revoke"]
    BY <2>1, <2>2, TransitionEffect DEF Phases, TypeOK
  <2>3. CASE UNCHANGED recordVars /\ canceller' = [canceller EXCEPT ![c] = "refused"]
    BY <2>1, <2>3 DEF TypeOK
  <2> QED
    BY <2>2, <2>3 DEF CancelMark, Refuse
<1>1. TypeOK'
  <2>1. /\ phase' \in [Preps -> Phases] /\ failure' \in [Preps -> Causes \cup {Nothing}]
        /\ waiter' \in [Waiters -> {"idle", "read", "blocked", "terminal", "ctx"}]
    <3>1. CASE UNCHANGED <<recordVars, waiter>>
      BY <3>1 DEF TypeOK, Phases
    <3>2. CASE transition(p, "cancelled", {}, Nothing)
      BY <3>2, TransitionEffect DEF Phases
    <3>3. QED
      BY <3>1, <3>2 DEF CancelMark, Refuse
  <2>2. canceller' \in [Cancellers -> {"idle", "revoke", "refused", "ok"}]
    <3>1. PICK pc \in {"revoke", "refused"} : canceller' = [canceller EXCEPT ![c] = pc]
      BY DEF CancelMark
    <3> QED
      BY <3>1 DEF TypeOK
  <2>3. cancels' \in [Cancellers -> Preps \cup {0}]
    BY DEF CancelMark, TypeOK
  <2>4. QED
    BY <2>1, <2>2, <2>3 DEF CancelMark, TypeOK, Phases
<1>2. RequestInv'
  BY <1>0 DEF CancelMark, RequestInv
<1>3. GrantInv'
  BY <1>0 DEF CancelMark, RequestInv, GrantInv, RunnerInv, Terminal
<1>4. RunnerInv'
  BY <1>0 DEF CancelMark, RunnerInv, Terminal, RequestInv
<1>5. RecordInv'
  <2>1. CASE UNCHANGED recordVars
    BY <2>1 DEF CancelMark, RecordInv, Facts, Interval
  <2>2. CASE transition(p, "cancelled", {}, Nothing)
    BY <2>2, TransitionRecord DEF CancelMark, Phases
  <2>3. QED
    BY <2>1, <2>2 DEF CancelMark, Refuse
<1>6. CancelInv'
  BY <1>0 DEF CancelMark, CancelInv, Terminal, TypeOK
<1>7. QED
  BY <1>1, <1>2, <1>3, <1>4, <1>5, <1>6

LEMMA CancelRevokePreserves ==
  ASSUME PrepInv, NEW c \in Cancellers, CancelRevoke(c)
  PROVE  PrepInv'
<1> USE DEF PrepInv
<1>1. TypeOK'
  <2>1. cancels[c] \in Preps
    BY DEF CancelInv, CancelRevoke
  <2>2. grant' \in [Preps -> Grants \cup {Nothing}]
    BY <2>1, RevokedGrants DEF CancelRevoke
  <2>3. QED
    BY <2>2 DEF CancelRevoke, Continue, TypeOK
<1>2. RequestInv'
  <2>1. cancels[c] \in Preps
    BY DEF CancelInv, CancelRevoke
  <2>2. \A q \in Preps : grant'[q] = Nothing <=> grant[q] = Nothing
    <3>1. \A q \in Preps : Revoked(cancels[c])[q] = Nothing <=> grant[q] = Nothing
      <4> SUFFICES ASSUME NEW q \in Preps
                   PROVE  Revoked(cancels[c])[q] = Nothing <=> grant[q] = Nothing
        OBVIOUS
      <4>1. CASE q = cancels[c]
        BY <2>1, <4>1, RevokedGrants
      <4>2. CASE q # cancels[c]
        <5>1. Revoked(cancels[c])[q] = grant[q]
          BY <2>1, <4>2, RevokedGrants
        <5>2. QED
          BY <5>1
      <4>3. QED
        BY <4>1, <4>2
    <3>2. grant' = Revoked(cancels[c])
      BY DEF CancelRevoke
    <3>3. QED
      BY <3>1, <3>2
  <2>3. QED
    BY <2>2 DEF CancelRevoke, Continue, TypeOK, RequestInv
<1>3. GrantInv'
  BY DEF CancelRevoke, Revoked, Grants, Terminal, GrantInv, TypeOK, RequestInv, RunnerInv
<1>4. RunnerInv'
  BY DEF CancelRevoke, Revoked, Grants, Terminal, RunnerInv, TypeOK, RequestInv, GrantInv
<1>5. RecordInv'
  BY DEF CancelRevoke, Revoked, Grants, Terminal, RecordInv, TypeOK, RequestInv, GrantInv, RunnerInv, Facts, Interval
<1>6. CancelInv'
  BY DEF CancelRevoke, Revoked, Grants, Terminal, CancelInv, TypeOK, RequestInv, GrantInv, RunnerInv
<1>7. QED
  BY <1>1, <1>2, <1>3, <1>4, <1>5, <1>6

LEMMA WaitBeginPreserves ==
  ASSUME PrepInv, NEW w \in Waiters, NEW p \in Preps, WaitBegin(w, p)
  PROVE  PrepInv'
<1> USE DEF PrepInv
<1>1. TypeOK'
  BY DEF WaitBegin, Terminal, TypeOK, RequestInv, GrantInv, RunnerInv
<1>2. RequestInv'
  BY DEF WaitBegin, Terminal, RequestInv, TypeOK, GrantInv, RunnerInv
<1>3. GrantInv'
  BY DEF WaitBegin, Terminal, GrantInv, TypeOK, RequestInv, RunnerInv
<1>4. RunnerInv'
  BY DEF WaitBegin, Terminal, RunnerInv, TypeOK, RequestInv, GrantInv
<1>5. RecordInv'
  BY DEF WaitBegin, Terminal, RecordInv, TypeOK, RequestInv, GrantInv, RunnerInv, Facts, Interval
<1>6. CancelInv'
  BY DEF WaitBegin, Terminal, CancelInv, TypeOK, RequestInv, GrantInv, RunnerInv
<1>7. QED
  BY <1>1, <1>2, <1>3, <1>4, <1>5, <1>6

LEMMA WaitReadsPreserves ==
  ASSUME PrepInv, NEW w \in Waiters, WaitReads(w)
  PROVE  PrepInv'
<1> USE DEF PrepInv
<1>1. TypeOK'
  BY DEF WaitReads, Terminal, TypeOK, RequestInv, GrantInv, RunnerInv
<1>2. RequestInv'
  BY DEF WaitReads, Terminal, RequestInv, TypeOK, GrantInv, RunnerInv
<1>3. GrantInv'
  BY DEF WaitReads, Terminal, GrantInv, TypeOK, RequestInv, RunnerInv
<1>4. RunnerInv'
  BY DEF WaitReads, Terminal, RunnerInv, TypeOK, RequestInv, GrantInv
<1>5. RecordInv'
  BY DEF WaitReads, Terminal, RecordInv, TypeOK, RequestInv, GrantInv, RunnerInv, Facts, Interval
<1>6. CancelInv'
  BY DEF WaitReads, Terminal, CancelInv, TypeOK, RequestInv, GrantInv, RunnerInv
<1>7. QED
  BY <1>1, <1>2, <1>3, <1>4, <1>5, <1>6

LEMMA WaitContextEndsPreserves ==
  ASSUME PrepInv, NEW w \in Waiters, WaitContextEnds(w)
  PROVE  PrepInv'
<1> USE DEF PrepInv
<1>1. TypeOK'
  BY DEF WaitContextEnds, Terminal, TypeOK, RequestInv, GrantInv, RunnerInv
<1>2. RequestInv'
  BY DEF WaitContextEnds, Terminal, RequestInv, TypeOK, GrantInv, RunnerInv
<1>3. GrantInv'
  BY DEF WaitContextEnds, Terminal, GrantInv, TypeOK, RequestInv, RunnerInv
<1>4. RunnerInv'
  BY DEF WaitContextEnds, Terminal, RunnerInv, TypeOK, RequestInv, GrantInv
<1>5. RecordInv'
  BY DEF WaitContextEnds, Terminal, RecordInv, TypeOK, RequestInv, GrantInv, RunnerInv, Facts, Interval
<1>6. CancelInv'
  BY DEF WaitContextEnds, Terminal, CancelInv, TypeOK, RequestInv, GrantInv, RunnerInv
<1>7. QED
  BY <1>1, <1>2, <1>3, <1>4, <1>5, <1>6

LEMMA TickPreserves ==
  ASSUME PrepInv, Tick
  PROVE  PrepInv'
<1> USE DEF PrepInv
<1>1. TypeOK'
  BY DEF Tick, Terminal, TypeOK, RequestInv, GrantInv, RunnerInv
<1>2. RequestInv'
  BY DEF Tick, Terminal, RequestInv, TypeOK, GrantInv, RunnerInv
<1>3. GrantInv'
  BY DEF Tick, Terminal, GrantInv, TypeOK, RequestInv, RunnerInv
<1>4. RunnerInv'
  BY DEF Tick, Terminal, RunnerInv, TypeOK, RequestInv, GrantInv
<1>5. RecordInv'
  BY DEF Tick, Terminal, RecordInv, TypeOK, RequestInv, GrantInv, RunnerInv, Facts, Interval
<1>6. CancelInv'
  BY DEF Tick, Terminal, CancelInv, TypeOK, RequestInv, GrantInv, RunnerInv
<1>7. QED
  BY <1>1, <1>2, <1>3, <1>4, <1>5, <1>6

LEMMA ShutdownPreserves ==
  ASSUME PrepInv, Shutdown
  PROVE  PrepInv'
<1> USE DEF PrepInv
<1>1. TypeOK'
  BY DEF Shutdown, Terminal, TypeOK, RequestInv, GrantInv, RunnerInv
<1>2. RequestInv'
  BY DEF Shutdown, Terminal, RequestInv, TypeOK, GrantInv, RunnerInv
<1>3. GrantInv'
  BY DEF Shutdown, Terminal, GrantInv, TypeOK, RequestInv, RunnerInv
<1>4. RunnerInv'
  BY DEF Shutdown, Terminal, RunnerInv, TypeOK, RequestInv, GrantInv
<1>5. RecordInv'
  BY DEF Shutdown, Terminal, RecordInv, TypeOK, RequestInv, GrantInv, RunnerInv, Facts, Interval
<1>6. CancelInv'
  BY DEF Shutdown, Terminal, CancelInv, TypeOK, RequestInv, GrantInv, RunnerInv
<1>7. QED
  BY <1>1, <1>2, <1>3, <1>4, <1>5, <1>6

-----------------------------------------------------------------------------

LEMMA PrepInitially == Init => PrepInv
<1> SUFFICES ASSUME Init PROVE PrepInv
  OBVIOUS
<1> USE DEF Init
<1>1. TypeOK /\ RequestInv
  <2>1. /\ asked \in [Preps -> Requests \cup {Nothing}]
        /\ grant \in [Preps -> Grants \cup {Nothing}]
        /\ failure \in [Preps -> Causes \cup {Nothing}]
        /\ cause \in [Preps -> Causes \cup {Nothing}]
    OBVIOUS
  <2>2. prepSeq \in 0 .. MaxPreps /\ clock \in 0 .. MaxClock
    OBVIOUS
  <2>3. /\ cancels \in [Cancellers -> Preps \cup {0}]
        /\ waits \in [Waiters -> Preps \cup {0}]
    OBVIOUS
  <2>4. TypeOK
    BY <2>1, <2>2, <2>3 DEF TypeOK
  <2>5. RequestInv
    BY DEF RequestInv
  <2>6. QED
    BY <2>4, <2>5
<1>2. GrantInv /\ CancelInv
  BY DEF GrantInv, CancelInv
<1>3. RunnerInv /\ RecordInv
  BY DEF RunnerInv, RecordInv, Terminal
<1>4. QED
  BY <1>1, <1>2, <1>3 DEF PrepInv

LEMMA RunnerPreserves ==
  ASSUME PrepInv, NEW p \in Preps, Runner(p)
  PROVE  PrepInv'
BY PrepareStartPreserves, CheckPreparationPreserves, VerifyPreserves, FetchReplayPreserves,
   MarkRunningPreserves, PrepareScenarioPreserves, MarkFailedPreserves, AwaitEndPreserves,
   RunnerRevokesPreserves, AllocateServerPreserves DEF Runner

LEMMA StutterPreserves == PrepInv /\ UNCHANGED vars => PrepInv'
<1> SUFFICES ASSUME PrepInv, UNCHANGED vars PROVE PrepInv'
  OBVIOUS
<1>1. TypeOK' /\ RequestInv' /\ GrantInv' /\ CancelInv'
  BY DEF PrepInv, TypeOK, RequestInv, GrantInv, CancelInv
<1>2. RunnerInv' /\ RecordInv'
  BY DEF PrepInv, RunnerInv, RecordInv, Terminal, Facts, Interval
<1>3. QED
  BY <1>1, <1>2 DEF PrepInv

\* The inductive invariant holds of every reachable state.
THEOREM PrepInvariant == Spec => []PrepInv
<1>1. PrepInv /\ [Next]_vars => PrepInv'
  <2> SUFFICES ASSUME PrepInv, [Next]_vars PROVE PrepInv'
    OBVIOUS
  <2>1. CASE Request
    BY <2>1, ReserveIDPreserves, MintPreserves, RegisterPreserves DEF Request
  <2>2. ASSUME NEW p \in Preps, Runner(p) PROVE PrepInv'
    BY <2>2, RunnerPreserves
  <2>3. CASE Cancel
    BY <2>3, CancelMarkPreserves, CancelRevokePreserves DEF Cancel
  <2>4. CASE Wait
    BY <2>4, WaitBeginPreserves, WaitReadsPreserves, WaitContextEndsPreserves DEF Wait
  <2>5. CASE Tick
    BY <2>5, TickPreserves
  <2>6. CASE Shutdown
    BY <2>6, ShutdownPreserves
  <2>7. CASE UNCHANGED vars
    BY <2>7, StutterPreserves
  <2>8. QED
    BY <2>1, <2>2, <2>3, <2>4, <2>5, <2>6, <2>7 DEF Next
<1>2. QED
  BY PrepInitially, <1>1, PTL DEF Spec

\* Every variable keeps its type.
THEOREM PrepTypeCorrect == Spec => []TypeOK
<1>1. PrepInv => TypeOK
  BY DEF PrepInv
<1>2. QED
  BY PrepInvariant, <1>1, PTL

\* Grants and preparations come together, no grant is both used and revoked,
\* and the grant of a preparation that did not become ready ends dead.
THEOREM GrantsSettle == Spec => []GrantSettled
<1>1. PrepInv => GrantSettled
  BY DEF PrepInv, RequestInv, GrantInv, GrantSettled
<1>2. QED
  BY PrepInvariant, <1>1, PTL

\* Every revision of a ready preparation is honest.
THEOREM RevisionsHonest == Spec => []RevisionHonest
<1>1. PrepInv => RevisionHonest
  <2> SUFFICES ASSUME PrepInv PROVE RevisionHonest
    OBVIOUS
  <2>1. ASSUME NEW p \in Preps, NEW r \in revision[p]
        PROVE  AccountsForEveryField(Facts(p), MaxFreshness, r) /\ LeadInHonest(Interval(p), r)
    <3>1. r \in Compile(Facts(p), MaxFreshness, Interval(p))
      BY <2>1 DEF PrepInv, RecordInv
    <3>2. asked[p] \in Requests
      <4>1. phase[p] = "ready"
        BY <2>1 DEF PrepInv, RecordInv
      <4>2. QED
        BY <2>1, <4>1 DEF PrepInv, RequestInv
    <3>3. WellFormed(Demo[asked[p].replay].facts) /\ Interval(p) \in Nat
      BY <3>2 DEF Requests, Interval
    <3>4. asked[p].takeover \in Nat
      <4>1. asked[p].takeover \in Ticks
        BY <3>2 DEF Requests
      <4>2. QED
        BY <4>1, CompilerAssumption DEF Ticks
    <3>5. WellFormed(Facts(p))
      <4> DEFINE f == Demo[asked[p].replay].facts
                 t == asked[p].takeover
      <4>1. WellFormed(f) /\ t \in Nat /\ Facts(p) = [f EXCEPT !.tick = t]
        BY <3>3, <3>4 DEF Facts
      <4> HIDE DEF f, t
      <4>2. Facts(p) = [tick |-> t, schema |-> f.schema, source |-> f.source,
                        eligible |-> f.eligible, heroes |-> f.heroes]
        BY <4>1 DEF WellFormed
      <4>3. QED
        BY <4>1, <4>2 DEF WellFormed
    <3>6. MaxFreshness \in Nat
      OBVIOUS
    <3> HIDE DEF Compile
    <3>7. QED
      BY <3>1, <3>3, <3>5, <3>6, CompileHonest
  <2>2. \A p \in Preps : phase[p] = "ready" <=> revision[p] # {}
    BY DEF PrepInv, RecordInv
  <2>3. QED
    BY <2>1, <2>2 DEF RevisionHonest
<1>2. QED
  BY PrepInvariant, <1>1, PTL

\* After a cancellation has returned, no replay bytes are fetched.
THEOREM CancelledNeverFetches == Spec => CancelStopsFetch
<1> DEFINE Step == \A c \in Cancellers : canceller[c] = "ok" =>
                     \A p \in Preps : cancels[c] = p => (runner[p] = "verify" => runner'[p] # "fetch")
<1>1. PrepInv /\ [Next]_vars => [Step]_vars
  <2> SUFFICES ASSUME PrepInv, Next, NEW c \in Cancellers, canceller[c] = "ok",
                      runner[cancels[c]] = "verify", runner'[cancels[c]] = "fetch"
               PROVE  FALSE
    OBVIOUS
  <2> DEFINE p == cancels[c]
  <2>1. p \in Preps /\ (grant[p].used \/ grant[p].revoked)
    BY DEF PrepInv, CancelInv
  <2> HIDE DEF p
  <2>2. runner[p] = "verify" /\ runner'[p] = "fetch"
    BY DEF p
  <2>3. Verify(p)
    <3>1. ASSUME NEW q \in Preps, Runner(q) PROVE Verify(p)
      BY <2>1, <2>2, <3>1 DEF PrepInv, TypeOK, Runner, PrepareStart, CheckPreparation, Verify,
         FetchReplay, MarkRunning, PrepareScenario, MarkFailed, AwaitEnd, RunnerRevokes,
         AllocateServer, Continue
    <3>2. CASE Request
      BY <2>1, <2>2, <3>2 DEF PrepInv, TypeOK, RequestInv, Request, ReserveID, Mint, Register
    <3>3. CASE Cancel \/ Wait \/ Tick \/ Shutdown
      BY <2>2, <3>3 DEF Cancel, CancelMark, CancelRevoke, Wait, WaitBegin, WaitReads,
         WaitContextEnds, Tick, Shutdown
    <3>4. QED
      BY <3>1, <3>2, <3>3 DEF Next
  <2>4. ~grant[p].used /\ ~grant[p].revoked
    BY <2>1, <2>2, <2>3, VerifyEffect, ContinueTypes DEF Pcs, PrepInv, Causes
  <2>5. QED
    BY <2>1, <2>4
<1>2. QED
  BY PrepInvariant, <1>1, PTL DEF Spec, CancelStopsFetch

\* Every step of the preparation path is, for each preparation, a step of the
\* lifecycle promised or none.
THEOREM LifecycleKept == Spec => KeepsLifecycle
<1> USE DEF Outcome, L!lifecycleVars
<1>1. Init => \A p \in Preps : L(p)!LifecycleInit
  BY DEF Init, L!LifecycleInit
<1>2. PrepInv /\ [Next]_vars
        => [\A p \in Preps : L(p)!LifecycleNext \/ UNCHANGED L(p)!lifecycleVars]_vars
  <2> SUFFICES ASSUME PrepInv, Next, NEW q \in Preps
               PROVE  L(q)!LifecycleNext \/ UNCHANGED L(q)!lifecycleVars
    OBVIOUS
  <2>1. CASE UNCHANGED <<recordVars, server>>
    BY <2>1
  <2>2. ASSUME NEW p \in Preps, NEW next \in Phases, NEW revs,
               NEW reason \in Causes \cup {Nothing}, transition(p, next, revs, reason),
               \/ next = "running" /\ revs = {} /\ reason = Nothing
               \/ next = "ready" /\ revs # {} /\ reason = Nothing
               \/ next = "failed" /\ revs = {} /\ reason # Nothing
               \/ next = "cancelled" /\ revs = {} /\ reason = Nothing,
               phase[p] # "none", UNCHANGED server
        PROVE  L(q)!LifecycleNext \/ UNCHANGED L(q)!lifecycleVars
    <3>1. /\ DOMAIN revision = Preps
          /\ phase[p] \in {"queued", "running"} /\ revision[p] = {} /\ failure[p] = Nothing
          /\ next = "running" => phase[p] = "queued"
          /\ next = "ready" => phase[p] = "running"
      BY <2>2 DEF transition, Legal, Terminal, PrepInv, TypeOK, RecordInv
    <3>2. CASE q = p
      <4>1. phase'[q] = next /\ failure'[q] = reason /\ revision'[q] = revs /\ server'[q] = server[q]
        BY <2>2, <3>1, <3>2, TransitionEffect DEF PrepInv
      <4>2. QED
        BY <2>2, <3>1, <3>2, <4>1 DEF L!LifecycleNext, L!Run, L!Finish, L!EndAs
    <3>3. CASE q # p
      <4>1. phase'[q] = phase[q] /\ failure'[q] = failure[q]
        BY <2>2, <3>3, TransitionEffect DEF PrepInv
      <4>2. revision' = [revision EXCEPT ![p] = revs]
        BY <2>2, TransitionEffect DEF PrepInv
      <4>3. revision'[q] = revision[q] /\ server'[q] = server[q]
        BY <2>2, <3>1, <3>3, <4>2
      <4>4. QED
        BY <4>1, <4>3
    <3>4. QED
      BY <3>2, <3>3
  <2>3. ASSUME NEW p \in Preps, MarkRunning(p) \/ PrepareScenario(p) \/ MarkFailed(p)
        PROVE  L(q)!LifecycleNext \/ UNCHANGED L(q)!lifecycleVars
    <3>1. phase[p] # "none" /\ UNCHANGED server
      BY <2>3 DEF PrepInv, RequestInv, MarkRunning, PrepareScenario, MarkFailed
    <3>2. CASE MarkRunning(p)
      BY <2>1, <2>2, <3>1, <3>2 DEF MarkRunning, Refuse, Phases
    <3>3. CASE PrepareScenario(p)
      <4>1. CASE transition(p, "failed", {}, "compile_refused")
        BY <2>2, <3>1, <4>1 DEF Phases, Causes
      <4>2. ASSUME NEW r, transition(p, "ready", {r}, Nothing)
            PROVE  L(q)!LifecycleNext \/ UNCHANGED L(q)!lifecycleVars
        BY <2>2, <3>1, <4>2 DEF Phases
      <4>3. CASE UNCHANGED recordVars
        BY <2>1, <3>1, <4>3
      <4>4. QED
        BY <3>3, <4>1, <4>2, <4>3 DEF PrepareScenario, Refuse
    <3>4. CASE MarkFailed(p)
      <4>1. cause[p] \in Causes /\ cause[p] # Nothing
        BY <3>4 DEF MarkFailed, PrepInv, RunnerInv
      <4>2. QED
        BY <2>1, <2>2, <3>1, <3>4, <4>1 DEF MarkFailed, Refuse, Phases
    <3>5. QED
      BY <2>3, <3>2, <3>3, <3>4
  <2>4. ASSUME NEW p \in Preps, AllocateServer(p)
        PROVE  L(q)!LifecycleNext \/ UNCHANGED L(q)!lifecycleVars
    <3>1. phase[p] = "ready" /\ server[p] = "none" /\ UNCHANGED recordVars
      BY <2>4 DEF AllocateServer, PrepInv, RunnerInv, TypeOK
    <3>2. server'[p] \in {"process", "failure"} /\ (q # p => server'[q] = server[q])
      BY <2>4 DEF AllocateServer, PrepInv, TypeOK
    <3>3. QED
      BY <3>1, <3>2 DEF L!LifecycleNext, L!Serve
  <2>5. ASSUME NEW p \in Preps, Register(p)
        PROVE  L(q)!LifecycleNext \/ UNCHANGED L(q)!lifecycleVars
    <3>1. /\ phase[p] = "none" /\ UNCHANGED <<revision, failure, server>>
          /\ phase'[p] = "queued" /\ (q # p => phase'[q] = phase[q])
      BY <2>5 DEF Register, PrepInv, RequestInv, TypeOK
    <3>2. QED
      BY <3>1 DEF L!LifecycleNext, L!Queue
  <2>6. ASSUME NEW c \in Cancellers, NEW a \in Accounts, NEW p \in Preps, CancelMark(c, a, p)
        PROVE  L(q)!LifecycleNext \/ UNCHANGED L(q)!lifecycleVars
    BY <2>1, <2>2, <2>6 DEF CancelMark, Refuse, Phases
  <2>7. ASSUME NEW p \in Preps, Runner(p)
        PROVE  L(q)!LifecycleNext \/ UNCHANGED L(q)!lifecycleVars
    BY <2>1, <2>3, <2>4, <2>7 DEF Runner, PrepareStart, CheckPreparation, Verify, FetchReplay,
       AwaitEnd, RunnerRevokes
  <2>8. CASE Request
    BY <2>1, <2>5, <2>8 DEF Request, ReserveID, Mint
  <2>9. CASE Cancel
    BY <2>1, <2>6, <2>9 DEF Cancel, CancelRevoke
  <2>10. CASE Wait \/ Tick \/ Shutdown
    BY <2>1, <2>10 DEF Wait, WaitBegin, WaitReads, WaitContextEnds, Tick, Shutdown
  <2>11. QED
    BY <2>7, <2>8, <2>9, <2>10 DEF Next
<1>3. QED
  BY <1>1, <1>2, PrepInvariant, PTL DEF Spec, KeepsLifecycle
=============================================================================
