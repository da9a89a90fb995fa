----------------------------- MODULE DogMotion -----------------------------
(***************************************************************************)
(* The movement of one dog over the roads of its map (core/Dog.cpp).       *)
(*                                                                         *)
(* Positions are in tenths of a map unit and durations in tenths of a      *)
(* second, so a dog of the map's speed v (map units per second) moves      *)
(* exactly v tenths in one tenth of a second; the code computes the same   *)
(* in single precision.  Dogs do not disturb each other.                   *)
(***************************************************************************)
EXTENDS Roads

CONSTANTS
  MaxSpeed,   \* the speed a player action gives the dog
  Deltas      \* durations of a tick, in tenths of a second

ASSUME MotionAssumption ==
  /\ MaxSpeed \in Nat \ {0}
  /\ Deltas \subseteq Nat \ {0}

VARIABLES
  position, speed, current_road_index,
  placed    \* change_position has run for the dog (history variable)

vars == <<position, speed, current_road_index, placed>>

Heading == {"NORTH", "SOUTH", "WEST", "EAST"}
Standing == [vx |-> 0, vy |-> 0]

TypeOK ==
  /\ position \in Point
  /\ speed \in [vx : Int, vy : Int]
  /\ current_road_index \in DOMAIN Roads
  /\ placed \in BOOLEAN

(* A new dog stands at the origin, on the first road of its map by index   *)
(* only: spawn_dog_in_map, which would put it on a road, is never called.  *)
Init ==
  /\ position = [x |-> 0, y |-> 0]
  /\ speed = Standing
  /\ current_road_index = 1
  /\ placed = FALSE

(* Dog::set_speed.  direction_ is not modelled: only Dog::move reads it, to *)
(* test for STOP, which set_speed never stores.                            *)
Velocity(dir) ==
  CASE dir = "EAST"  -> [vx |-> MaxSpeed, vy |-> 0]
    [] dir = "WEST"  -> [vx |-> -MaxSpeed, vy |-> 0]
    [] dir = "SOUTH" -> [vx |-> 0, vy |-> MaxSpeed]
    [] dir = "NORTH" -> [vx |-> 0, vy |-> -MaxSpeed]
    [] dir = "STOP"  -> Standing

SetSpeed(dir) ==
  /\ speed' = Velocity(dir)
  /\ UNCHANGED <<position, current_road_index, placed>>

(* Dog::evaluate_new_position *)
NewPosition(d) == [x |-> position.x + d * speed.vx, y |-> position.y + d * speed.vy]

(* Faulty variant: the first adjacent road, though another holds p. *)
FirstAdjacentRoad(p, j) ==
  /\ j \in adjacent_roads[current_road_index]
  /\ \E k \in adjacent_roads[current_road_index] : point_inside(BoundRect(k), p)
  /\ \A k \in adjacent_roads[current_road_index] : j <= k

(* Dog::search_position_inside_adjacent_roads: the set is searched in the  *)
(* order of the indices.                                                   *)
FoundRoad(p, j) ==
  /\ j \in adjacent_roads[current_road_index]
  /\ point_inside(BoundRect(j), p)
  /\ \A k \in adjacent_roads[current_road_index] :
       k < j => ~point_inside(BoundRect(k), p)

(* The three branches of Dog::change_position. *)
StayOnRoad(p) ==
  /\ point_inside(BoundRect(current_road_index), p)
  /\ position' = p
  /\ UNCHANGED <<current_road_index, speed>>

(* Faulty variant: the index of the road found is one too high. *)
ChangeRoadOffByOne(p) ==
  /\ ~point_inside(BoundRect(current_road_index), p)
  /\ \E j \in DOMAIN Roads :
       /\ FoundRoad(p, j)
       /\ current_road_index' = j + 1
  /\ position' = p
  /\ UNCHANGED speed

ChangeRoad(p) ==
  /\ ~point_inside(BoundRect(current_road_index), p)
  /\ \E j \in DOMAIN Roads :
       /\ FoundRoad(p, j)
       /\ current_road_index' = j
  /\ position' = p
  /\ UNCHANGED speed

(* Faulty variant: the dog is clamped into the first road of the map. *)
StopAtFirstRoad(p) ==
  /\ ~point_inside(BoundRect(current_road_index), p)
  /\ \A j \in adjacent_roads[current_road_index] : ~point_inside(BoundRect(j), p)
  /\ position' = Clamped(p, BoundRect(1))
  /\ speed' = Standing
  /\ UNCHANGED current_road_index

(* Faulty variant: the dog is stopped without being clamped. *)
StopBeyondEdge(p) ==
  /\ ~point_inside(BoundRect(current_road_index), p)
  /\ \A j \in adjacent_roads[current_road_index] : ~point_inside(BoundRect(j), p)
  /\ position' = p
  /\ speed' = Standing
  /\ UNCHANGED current_road_index

StopAtEdge(p) ==
  /\ ~point_inside(BoundRect(current_road_index), p)
  /\ \A j \in adjacent_roads[current_road_index] : ~point_inside(BoundRect(j), p)
  /\ position' = Clamped(p, BoundRect(current_road_index))
  /\ speed' = Standing
  /\ UNCHANGED current_road_index

(* Dog::move; it returns a gatherer exactly if the position changes. *)
Move(d) ==
  /\ \/ StayOnRoad(NewPosition(d))
     \/ ChangeRoad(NewPosition(d))
     \/ StopAtEdge(NewPosition(d))
  /\ placed' = TRUE

Next ==
  \/ \E dir \in Heading \union {"STOP"} : SetSpeed(dir)
  \/ \E d \in Deltas : Move(d)

Spec == Init /\ [][Next]_vars

-----------------------------------------------------------------------------
(* Properties. *)

OnRoad(p, i) == point_inside(BoundRect(i), p)
OnSomeRoad(p) == \E i \in DOMAIN Roads : OnRoad(p, i)

(* Once it has been placed, a dog stands within the road it is recorded to *)
(* be on, whichever roads it changed between and wherever it was stopped.  *)
DogOnItsRoad == placed => OnRoad(position, current_road_index)

(* A dog that stands still is not moved by a tick (and so gathers nothing):*)
(* no branch of change_position may displace it.                           *)
StandingDogStays ==
  [][placed /\ speed = Standing /\ speed' = Standing => position' = position]_vars

(* The point n tenths from p in the direction of v. *)
Ahead(p, v, n) ==
  [x |-> p.x + (IF v.vx > 0 THEN n ELSE IF v.vx < 0 THEN -n ELSE 0),
   y |-> p.y + (IF v.vy > 0 THEN n ELSE IF v.vy < 0 THEN -n ELSE 0)]

(* One tick moves a dog only along its velocity, forwards, and no further  *)
(* than velocity times duration, also when it is stopped at an edge.       *)
MoveWithinVelocity ==
  [][\A d \in Deltas : placed /\ Move(d) =>
       \E n \in 0 .. d * MaxSpeed : position' = Ahead(position, speed, n)]_vars

(* A running dog is stopped by a tick only where no road goes on: one step *)
(* further in its direction there is no road at all.                       *)
StopsOnlyAtDeadEnd ==
  [][\A d \in Deltas : placed /\ Move(d) /\ speed # Standing /\ speed' = Standing
       => ~OnSomeRoad(Ahead(position', speed, 1))]_vars

(* The points between the ends of an axis-parallel segment, inclusive. *)
Segment(p, q) == [x : Lower(p.x, q.x) .. Upper(p.x, q.x),
                  y : Lower(p.y, q.y) .. Upper(p.y, q.y)]

(* No tick carries a dog over ground without a road, although the check in *)
(* change_position looks only at the point the dog arrives at.             *)
NeverLeavesRoads ==
  [][placed => \A p \in Segment(position, position') : OnSomeRoad(p)]_vars
=============================================================================
