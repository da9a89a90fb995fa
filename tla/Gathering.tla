----------------------------- MODULE Gathering -----------------------------
(***************************************************************************)
(* What a dog gathers on its way: find_gather_events of CollisionDetector  *)
(* over the loots and offices of GameSession::get_gathered_items, tick by  *)
(* tick while the dog walks.                                               *)
(*                                                                         *)
(* Lengths are tenths of a map unit.  The code divides by the squared      *)
(* length of the move and computes in float; the model multiplies it out   *)
(* and is exact.                                                           *)
(***************************************************************************)
EXTENDS Integers, Sequences, SequencesExt

CONSTANTS
  Points,      \* bound: the points the dog stands on
  Steps,       \* bound: moves of one tick, as vectors
  LootPlaces,  \* bound: points where the loots may lie
  Offices      \* Map::offices()

ASSUME GatheringAssumption ==
  /\ Points \subseteq Int \X Int
  /\ Steps \subseteq Int \X Int
  /\ LootPlaces \subseteq Int \X Int
  /\ Offices \in Seq(Int \X Int)

VARIABLES
  loots,     \* loots_info_: where the two loots lie
  position,  \* the dog's position
  start,     \* history: where the dog last turned or started
  heading,   \* history: its move since then, as a direction
  gathered   \* history: indices of the items gathered since then, in order

vars == <<loots, position, start, heading, gathered>>

lootWidth == 0
baseWidth == 5
gathererWidth == 6

Plus(a, v) == <<a[1] + v[1], a[2] + v[2]>>
Minus(a, b) == <<a[1] - b[1], a[2] - b[2]>>
Dot(u, v) == u[1] * v[1] + u[2] * v[2]

(* The item list of get_gathered_items. *)
Items ==
  [j \in DOMAIN loots |-> [position |-> loots[j], width |-> lootWidth]] \o
  [j \in DOMAIN Offices |-> [position |-> Offices[j], width |-> baseWidth]]

(* TryCollectPoint, with proj_ratio and sq_distance times v_len2. *)
TryCollectPoint(a, b, c) ==
  LET u == Minus(c, a)
      v == Minus(b, a)
  IN [v_len2 |-> Dot(v, v), proj |-> Dot(u, v),
      sq_distance |-> Dot(u, u) * Dot(v, v) - Dot(u, v) * Dot(u, v)]

(* Faulty variant: both ends of the move are left out. *)
CollectedInside(r, radius) ==
  /\ 0 < r.proj /\ r.proj < r.v_len2
  /\ r.sq_distance <= radius * radius * r.v_len2

is_collected(r, radius) ==
  /\ 0 <= r.proj /\ r.proj <= r.v_len2
  /\ r.sq_distance <= radius * radius * r.v_len2

Collected(a, b) ==
  {j \in DOMAIN Items :
     /\ a # b
     /\ is_collected(TryCollectPoint(a, b, Items[j].position), gathererWidth + Items[j].width)}

(* std::sort by time; it leaves the order of equal times open. *)
find_gather_events(a, b) ==
  {events \in SetToSeqs(Collected(a, b)) :
     \A m, n \in DOMAIN events :
       m < n => TryCollectPoint(a, b, Items[events[m]].position).proj
                  <= TryCollectPoint(a, b, Items[events[n]].position).proj}

Init ==
  /\ loots \in [1..2 -> LootPlaces]
  /\ position \in Points
  /\ start = position
  /\ heading = <<0, 0>>
  /\ gathered = <<>>

(* v and w point the same way. *)
Along(v, w) == Dot(v, w) > 0 /\ Dot(v, w) * Dot(v, w) = Dot(v, v) * Dot(w, w)

(* One turn of the dog in MoveDogs.  A wall may have stopped it at once. *)
Move(step) ==
  LET turns == ~Along(heading, step) IN
  /\ Plus(position, step) \in Points
  /\ position' = Plus(position, step)
  /\ start' = IF turns THEN position ELSE start
  /\ heading' = step
  /\ \E events \in find_gather_events(position, position') :
       gathered' = IF turns THEN events ELSE gathered \o events
  /\ UNCHANGED loots

Next == \E step \in Steps : Move(step)

Spec == Init /\ [][Next]_vars

-----------------------------------------------------------------------------
(* What a straight walk gathers does not depend on how the timer cuts it   *)
(* into moves: it is what one long move would gather, nothing slips        *)
(* through between two ticks, and the items come in the order in which the *)
(* dog passes them.                                                        *)
WalkGathersLikeOneMove ==
  /\ ToSet(gathered) = Collected(start, position)
  /\ \A m, n \in DOMAIN gathered :
       m < n => Dot(Items[gathered[m]].position, heading)
                  <= Dot(Items[gathered[n]].position, heading)
=============================================================================
