--------------------------- MODULE MCPreparation ---------------------------
(* Instances of Preparation: one preparation over a catalog of replays    *)
(* that compile to every kind of revision and refusal.                     *)
EXTENDS Preparation, TLC

MCFields == {"position", "velocity"}
MCTakeoverTicks == {0, 3}

Value(present, age) == [present |-> present, freshness |-> age]
Hero(position, velocity) == [position |-> position, velocity |-> velocity]
Replay(schema, eligible, heroes, interval) ==
  [facts |-> [tick |-> 0, schema |-> schema, eligible |-> eligible, heroes |-> heroes,
              source |-> [sha256 |-> Nothing, match |-> 1]],
   interval |-> interval]

Fresh == Value(TRUE, 1)
Old == Value(TRUE, 2)
Missing == Value(FALSE, 0)

\* A whole hero in a replay whose window overflows and is clamped; missing and stale fields
\* in one that is ineligible; and a facts schema of another version.
MCDemo == [r \in Catalog |->
  CASE r = "whole" -> Replay(1, TRUE, <<Hero(Fresh, Fresh)>>, 1)
    [] r = "partial" -> Replay(1, FALSE, <<Hero(Fresh, Missing), Hero(Old, Fresh)>>, 2)
    [] r = "foreign" -> Replay(2, TRUE, << >>, 3)]
MCCatalog == {"whole", "partial", "foreign"}

=============================================================================
