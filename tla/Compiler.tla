------------------------------ MODULE Compiler ------------------------------
(***************************************************************************)
(* The scenario compiler of core/provider.go and the revision identity of  *)
(* core/prepare.go: what a facts record extracted from a replay compiles   *)
(* to.  It is pure; Preparation calls it.                                  *)
(*                                                                         *)
(* A facts record is [tick, schema, source, eligible, heroes]: heroes maps *)
(* the player slots that were observed to one [present, freshness] per     *)
(* kinematic field.  An omission is <<kind, subject>>, its subject a       *)
(* <<slot, field>>, or << >> for the record as a whole; every omission the *)
(* code builds is Required.  Strings for the reader (Reason) are left out. *)
(***************************************************************************)
EXTENDS Naturals

CONSTANTS
  Fields,         \* the kinematic fields of one hero
  Capabilities,   \* the fields the runtime applies, observes, verifies and resets
  SchemaVersion,  \* the facts schema the compiler supports
  LeadIn,         \* DefaultLeadInSeconds, in the unit of the tick interval
  TickLimit,      \* 2^32: a tick is a uint32
  Nothing         \* the absent SHA-256, match or revision

ASSUME CompilerAssumption ==
  /\ Capabilities \subseteq Fields
  /\ LeadIn \in Nat
  /\ TickLimit \in Nat \ {0}

Ticks == 0 .. TickLimit - 1

\* What the extraction hands over: a facts record of every hero's every field.
WellFormed(facts) ==
  /\ facts = [tick |-> facts.tick, schema |-> facts.schema, source |-> facts.source,
              eligible |-> facts.eligible, heroes |-> facts.heroes]
  /\ facts.tick \in Nat /\ facts.eligible \in BOOLEAN
  /\ \A s \in DOMAIN facts.heroes :
       facts.heroes[s] \in [Fields -> [present : BOOLEAN, freshness : Nat]]

\* The kind under which one observed field is omitted, "none" when it is used:
\* the first check that fails, in the order of the code.
OmissionKind(value, field, maxFreshness) ==
  IF ~value.present THEN "not_observed"
  ELSE IF maxFreshness = 0 \/ value.freshness > maxFreshness THEN "stale"
  ELSE IF field \notin Capabilities THEN "unsupported"
  ELSE "none"

heroOmissions(slot, hero, maxFreshness) ==
  {<<OmissionKind(hero[f], f, maxFreshness), <<slot, f>>>> : f \in
     {g \in Fields : OmissionKind(hero[g], g, maxFreshness) # "none"}}

collectOmissions(facts, maxFreshness) ==
  (IF facts.eligible THEN {} ELSE {<<"ineligible", << >> >>})
    \cup UNION {heroOmissions(s, facts.heroes[s], maxFreshness) : s \in DOMAIN facts.heroes}

grantedFidelity(omissions) == IF omissions = {} THEN "complete" ELSE "preview"

\* A float beyond uint32 converts to what the platform makes of it: the low
\* bits, zero (the low bits of an int64 overflow) or saturation.
ToUint32(n) ==
  IF n < TickLimit THEN {n} ELSE {n % TickLimit, 0, TickLimit - 1}

\* Without the clamp the subtraction wraps.
leadInStartUnclamped(takeover, interval) ==
  {(takeover + TickLimit - ticks) % TickLimit : ticks \in ToUint32(LeadIn \div interval)}

\* The lead-in window in ticks, clamped to the start of the replay.
leadInStartTick(takeover, interval) ==
  {IF ticks > takeover THEN 0 ELSE takeover - ticks : ticks \in ToUint32(LeadIn \div interval)}

\* The digest is the content address, the match the fallback; neither leaves
\* one identity for every such replay.
replayIdentity(source) ==
  IF source.sha256 # Nothing THEN <<"sha", source.sha256>>
  ELSE IF source.match # Nothing THEN <<"match", source.match>>
  ELSE <<"unknown-replay", Nothing>>

RevisionID(facts) == <<replayIdentity(facts.source), facts.tick>>

Refused(facts, interval) ==
  \/ facts.tick = 0
  \/ facts.schema # SchemaVersion
  \/ interval = 0

\* The revisions a compilation may yield; none when it refuses.
Compile(facts, maxFreshness, interval) ==
  IF Refused(facts, interval) THEN {}
  ELSE LET omissions == collectOmissions(facts, maxFreshness) IN
       {[id |-> RevisionID(facts), replay |-> replayIdentity(facts.source),
         leadInStart |-> start, takeover |-> facts.tick,
         fidelity |-> grantedFidelity(omissions), omissions |-> omissions]
          : start \in leadInStartTick(facts.tick, interval)}

-----------------------------------------------------------------------------
\* What a field of a hero must be for a revision to use it.
Usable(value, field, maxFreshness) ==
  value.present /\ 0 < maxFreshness /\ value.freshness <= maxFreshness /\ field \in Capabilities

\* A revision is complete exactly when the facts are eligible and every field
\* of every observed hero is present, fresh within a declared budget and
\* supported; otherwise its omissions name exactly the fields it does not use,
\* each under one kind (the fail-closed rules above Compile).
AccountsForEveryField(facts, maxFreshness, revision) ==
  /\ revision.fidelity = "complete" <=>
       facts.eligible /\ \A s \in DOMAIN facts.heroes, f \in Fields :
                            Usable(facts.heroes[s][f], f, maxFreshness)
  /\ \A s \in DOMAIN facts.heroes, f \in Fields :
       Usable(facts.heroes[s][f], f, maxFreshness) <=>
         ~\E o \in revision.omissions : o[2] = <<s, f>>
  /\ \A o, q \in revision.omissions : o[2] = q[2] => o = q

\* The lead-in starts within the replay, is never longer than its five
\* seconds, and is only shorter when the replay starts first or the
\* conversion of the window overflowed.
LeadInHonest(interval, revision) ==
  LET window == revision.takeover - revision.leadInStart IN
  /\ revision.leadInStart \in 0 .. revision.takeover
  /\ window * interval <= LeadIn
  /\ \/ revision.leadInStart = 0
     \/ LeadIn < (window + 1) * interval
     \/ TickLimit <= LeadIn \div interval
=============================================================================
