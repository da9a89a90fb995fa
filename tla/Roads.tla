------------------------------- MODULE Roads -------------------------------
(***************************************************************************)
(* The road geometry of a map (core/MapModel.cpp): the bounding rectangle  *)
(* of a road, which roads a dog may change to from a road, and the clamp   *)
(* into a rectangle.  All lengths are integers in tenths of a map unit, so *)
(* the half width dS = 0.4 of a road is 4.                                 *)
(***************************************************************************)
EXTENDS Integers, Sequences

CONSTANTS Roads,  \* sequence of roads, each [start, end] with x and y
          dS      \* half width of a road

Point == [x : Int, y : Int]
Road  == [start : Point, end : Point]

is_horizontal(r) == r.start.y = r.end.y
is_vertical(r)   == r.start.x = r.end.x

(* The constructor of Road makes every road horizontal or vertical. *)
ASSUME RoadsAssumption ==
  /\ Roads \in Seq(Road)
  /\ Roads # <<>>
  /\ \A i \in DOMAIN Roads : is_horizontal(Roads[i]) \/ is_vertical(Roads[i])
  /\ dS \in Nat

Lower(a, b) == IF a <= b THEN a ELSE b
Upper(a, b) == IF a <= b THEN b ELSE a

(* Dog::get_current_road_bound_rect *)
BoundRect(i) ==
  LET s == Roads[i].start
      e == Roads[i].end
  IN  [min_point |-> [x |-> Lower(s.x, e.x) - dS, y |-> Lower(s.y, e.y) - dS],
       max_point |-> [x |-> Upper(s.x, e.x) + dS, y |-> Upper(s.y, e.y) + dS]]

(* RoadBoundRect::point_inside *)
point_inside(rect, p) ==
  /\ p.x >= rect.min_point.x /\ p.x <= rect.max_point.x
  /\ p.y >= rect.min_point.y /\ p.y <= rect.max_point.y

(* correct_dog_position_inside_road *)
Clamped(p, rect) ==
  [x |-> Upper(rect.min_point.x, Lower(p.x, rect.max_point.x)),
   y |-> Upper(rect.min_point.y, Lower(p.y, rect.max_point.y))]

(* Both ends of the road lie strictly on the same side of the given line. *)
BesideY(r, y) == \/ r.start.y < y /\ r.end.y < y
                 \/ r.start.y > y /\ r.end.y > y
BesideX(r, x) == \/ r.start.x < x /\ r.end.x < x
                 \/ r.start.x > x /\ r.end.x > x

(* roads_crossed: perpendicular roads, where the second is not beside the  *)
(* line through the first.  It does not ask whether the line is met within *)
(* the first road.                                                         *)
roads_crossed(r1, r2) ==
  /\ \/ is_horizontal(r1) /\ is_vertical(r2)
     \/ is_vertical(r1) /\ is_horizontal(r2)
  /\ IF is_horizontal(r1) THEN ~BesideY(r2, r1.start.y)
                          ELSE ~BesideX(r2, r1.start.x)

(* Faulty variant: two roads in one line are never adjacent. *)
never_adjacent(r1, r2) == FALSE

(* roads_adjacent: parallel roads with a common end. *)
roads_adjacent(r1, r2) ==
  /\ \/ is_horizontal(r1) /\ is_horizontal(r2)
     \/ is_vertical(r1) /\ is_vertical(r2)
  /\ {r1.start, r1.end} \intersect {r2.start, r2.end} # {}

(* Dog::find_adjacent_roads: the test is made once for each pair, with the *)
(* road of lower index first, and entered for both.                        *)
adjacent_roads ==
  [i \in DOMAIN Roads |->
     {j \in DOMAIN Roads :
        \/ i < j /\ (\/ roads_adjacent(Roads[i], Roads[j])
                     \/ roads_crossed(Roads[i], Roads[j]))
        \/ j < i /\ (\/ roads_adjacent(Roads[j], Roads[i])
                     \/ roads_crossed(Roads[j], Roads[i]))}]
=============================================================================
