--------------------------- MODULE LootGenerator ---------------------------
(***************************************************************************)
(* When and how much loot appears (core/LootGenerator.cpp), on a map where *)
(* looters join and pick loots up between two calls of Generate.           *)
(*                                                                         *)
(* The probability 1 - (1 - probability_)^(t / base_interval_) of the code *)
(* is a table over the time t without loot, in units of 1 / Scale, flat    *)
(* beyond Horizon.  The random generator is the default one, which always  *)
(* returns 1.0: no other is ever passed in.                                *)
(***************************************************************************)
EXTENDS Integers

CONSTANTS
  Scale,        \* the value of Probability that stands for 1
  Horizon,      \* bound: time_without_loot_ is not counted beyond this
  Probability,  \* Probability[t] for t in 0 .. Horizon
  BaseInterval, \* base_interval_
  Deltas,       \* the times between two calls of Generate
  MaxLooters    \* bound: looters that join

ASSUME GeneratorAssumption ==
  /\ Scale \in Nat \ {0}
  /\ Horizon \in Nat /\ Horizon >= BaseInterval
  /\ Probability \in [0 .. Horizon -> 0 .. Scale]
  /\ BaseInterval \in Nat \ {0}
  /\ Deltas \subseteq Nat \ {0}
  /\ MaxLooters \in Nat

VARIABLES
  time_without_loot,
  loot_count,
  looter_count

vars == <<time_without_loot, loot_count, looter_count>>

TypeOK ==
  /\ time_without_loot \in 0 .. Horizon
  /\ loot_count \in Nat
  /\ looter_count \in 0 .. MaxLooters

Init ==
  /\ time_without_loot = 0
  /\ loot_count = 0
  /\ looter_count = 0

(* Faulty variant: static_cast without std::round. *)
Truncated(a, b) == a \div b

(* Division rounded half up, as std::round does for these operands. *)
Rounded(a, b) == (2 * a + b) \div (2 * b)

(* Faulty variant: the loots on the map are not counted. *)
loot_shortage_ignoring_loots == looter_count

loot_shortage ==
  IF loot_count > looter_count THEN 0 ELSE looter_count - loot_count

(* time_without_loot_ after the addition at the start of Generate. *)
Elapsed(d) == IF time_without_loot + d > Horizon THEN Horizon
                                                 ELSE time_without_loot + d

generated_loot(d) == Rounded(loot_shortage * Probability[Elapsed(d)], Scale)

(* Faulty variant: the time without loot is reset by every call. *)
GenerateAlwaysReset(d) ==
  /\ loot_count' = loot_count + generated_loot(d)
  /\ time_without_loot' = 0
  /\ UNCHANGED looter_count

(* LootGenerator::Generate and the loop of its caller. *)
Generate(d) ==
  /\ loot_count' = loot_count + generated_loot(d)
  /\ time_without_loot' = IF generated_loot(d) > 0 THEN 0 ELSE Elapsed(d)
  /\ UNCHANGED looter_count

(* GameSession::add_player *)
Join ==
  /\ looter_count < MaxLooters
  /\ looter_count' = looter_count + 1
  /\ UNCHANGED <<time_without_loot, loot_count>>

(* Faulty variant: a loot is taken that is not there. *)
PickUpUnguarded ==
  /\ loot_count' = loot_count - 1
  /\ UNCHANGED <<time_without_loot, looter_count>>

(* A dog takes a loot off the map (the erase in add_loot_to_dog). *)
PickUp ==
  /\ loot_count > 0
  /\ loot_count' = loot_count - 1
  /\ UNCHANGED <<time_without_loot, looter_count>>

Tick == \E d \in Deltas : Generate(d)

Next == Tick \/ Join \/ PickUp

Spec == Init /\ [][Next]_vars

(* Ticks go on once the timer was started. *)
FairSpec == Spec /\ WF_vars(Tick)
-----------------------------------------------------------------------------
(* Properties. *)

(* "The number of loots on the map does not exceed the number of looters"  *)
(* (LootGenerator.h:30), though a tick may place several loots at once and *)
(* the share of the shortage it places is rounded up.                      *)
LootWithinLooters == loot_count <= looter_count

(* The wait for a free place to be filled is short of the base interval:   *)
(* after it, a call fills at least one place.  This needs a probability of *)
(* at least one half for the base interval, which config.json has.         *)
WaitShorterThanBase ==
  [][Tick /\ loot_count < looter_count /\ loot_count' = loot_count
       => time_without_loot' < BaseInterval]_vars

(* While places stay free, new loot appears again and again.               *)
FreePlacesGetLoot ==
  <>[](loot_count < looter_count) => []<><<loot_count' > loot_count>>_vars
=============================================================================
