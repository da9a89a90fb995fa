-------------------------- MODULE DogMotionProofs --------------------------
(***************************************************************************)
(* Theorems about the motion of a dog on any map, for any speed and any    *)
(* durations of ticks.                                                     *)
(***************************************************************************)
EXTENDS DogMotion, SequenceTheorems, TLAPS

RoadInt(r) == /\ r.start.x \in Int /\ r.start.y \in Int
              /\ r.end.x \in Int /\ r.end.y \in Int

LEMMA ElementIn ==
  ASSUME NEW S, NEW s \in Seq(S), NEW i \in DOMAIN s
  PROVE  s[i] \in S
OBVIOUS

LEMMA RoadTyped ==
  ASSUME RoadsAssumption
  PROVE  /\ 1 \in DOMAIN Roads
         /\ \A i \in DOMAIN Roads :
              /\ Roads[i].start \in Point
              /\ Roads[i].end \in Point
              /\ RoadInt(Roads[i])
<1>1. Roads \in Seq(Road) /\ Roads # <<>>
  BY DEF RoadsAssumption
<1>2. \A i \in DOMAIN Roads : Roads[i] \in Road
  BY <1>1, ElementIn
<1>3. \A i \in DOMAIN Roads : Roads[i].start \in Point /\ Roads[i].end \in Point
  BY <1>2 DEF Road
<1>4. \A p \in Point : p.x \in Int /\ p.y \in Int
  BY DEF Point
<1>5. 1 \in DOMAIN Roads
  BY <1>1
<1> QED BY <1>3, <1>4, <1>5 DEF RoadInt

LEMMA BetweenBounds ==
  ASSUME NEW a \in Int, NEW b \in Int
  PROVE  /\ Lower(a, b) \in Int /\ Upper(a, b) \in Int
         /\ Lower(a, b) <= a /\ a <= Upper(a, b)
         /\ Lower(a, b) <= b /\ b <= Upper(a, b)
BY DEF Lower, Upper

LEMMA RectTyped ==
  ASSUME RoadsAssumption, NEW i \in DOMAIN Roads
  PROVE  /\ BoundRect(i) \in [min_point : Point, max_point : Point]
         /\ BoundRect(i).min_point.x <= BoundRect(i).max_point.x
         /\ BoundRect(i).min_point.y <= BoundRect(i).max_point.y
<1> DEFINE s == Roads[i].start
           e == Roads[i].end
           lx == Lower(s.x, e.x)
           ux == Upper(s.x, e.x)
           ly == Lower(s.y, e.y)
           uy == Upper(s.y, e.y)
<1>1. /\ s.x \in Int /\ s.y \in Int /\ e.x \in Int /\ e.y \in Int
      /\ dS \in Int /\ dS >= 0
  BY RoadTyped DEF RoadInt, RoadsAssumption
<1>2. BoundRect(i) = [min_point |-> [x |-> lx - dS, y |-> ly - dS],
                      max_point |-> [x |-> ux + dS, y |-> uy + dS]]
  BY DEF BoundRect
<1> HIDE DEF s, e
<1>3. /\ lx \in Int /\ ux \in Int /\ lx <= ux
      /\ ly \in Int /\ uy \in Int /\ ly <= uy
  BY <1>1 DEF Lower, Upper
<1> HIDE DEF lx, ux, ly, uy
<1>4. /\ lx - dS \in Int /\ ux + dS \in Int /\ lx - dS <= ux + dS
      /\ ly - dS \in Int /\ uy + dS \in Int /\ ly - dS <= uy + dS
  BY <1>1, <1>3
<1> QED BY <1>2, <1>4 DEF Point

(* Clamping into a rectangle yields a point inside it, and leaves the      *)
(* coordinates alone that were inside already.                             *)
LEMMA ClampedInside ==
  ASSUME NEW p \in Point,
         NEW rect \in [min_point : Point, max_point : Point],
         rect.min_point.x <= rect.max_point.x,
         rect.min_point.y <= rect.max_point.y
  PROVE  /\ Clamped(p, rect) \in Point
         /\ point_inside(rect, Clamped(p, rect))
BY DEF Clamped, point_inside, Point, Lower, Upper

LEMMA NewPositionTyped ==
  ASSUME MotionAssumption, TypeOK, NEW d \in Deltas
  PROVE  NewPosition(d) \in Point
<1>1. /\ d \in Int /\ speed.vx \in Int /\ speed.vy \in Int
      /\ position.x \in Int /\ position.y \in Int
  BY DEF MotionAssumption, TypeOK, Point
<1>2. d * speed.vx \in Int /\ d * speed.vy \in Int
  BY <1>1
<1> QED BY <1>1, <1>2 DEF NewPosition, Point

(* A velocity set_speed can give. *)
SpeedInv == speed \in {Velocity(dir) : dir \in Heading \union {"STOP"}}

MotionInv == TypeOK /\ SpeedInv /\ DogOnItsRoad

LEMMA VelocityTyped ==
  ASSUME MotionAssumption, NEW dir \in Heading \union {"STOP"}
  PROVE  Velocity(dir) \in [vx : Int, vy : Int]
BY DEF MotionAssumption, Heading, Velocity, Standing

LEMMA StandingTyped ==
  /\ Standing \in [vx : Int, vy : Int]
  /\ Standing \in {Velocity(dir) : dir \in Heading \union {"STOP"}}
<1>1. Velocity("STOP") = Standing
  BY DEF Velocity
<1>2. "STOP" \in Heading \union {"STOP"}
  OBVIOUS
<1> QED BY <1>1, <1>2 DEF Standing

LEMMA MotionInit ==
  ASSUME RoadsAssumption, Init
  PROVE  MotionInv
<1>1. position \in Point
  BY DEF Init, Point
<1>2. speed \in [vx : Int, vy : Int] /\ SpeedInv
  BY StandingTyped DEF Init, SpeedInv
<1> QED BY <1>1, <1>2, RoadTyped DEF Init, MotionInv, TypeOK, DogOnItsRoad

LEMMA MotionStep ==
  ASSUME RoadsAssumption, MotionAssumption, MotionInv, [Next]_vars
  PROVE  MotionInv'
<1> USE DEF MotionInv
<1>1. ASSUME NEW dir \in Heading \union {"STOP"}, SetSpeed(dir)
      PROVE  MotionInv'
  <2>1. speed' \in [vx : Int, vy : Int] /\ SpeedInv'
    BY <1>1, VelocityTyped DEF SetSpeed, SpeedInv
  <2> QED BY <1>1, <2>1 DEF SetSpeed, TypeOK, DogOnItsRoad
<1>2. ASSUME NEW d \in Deltas, Move(d)
      PROVE  MotionInv'
  <2> DEFINE p == NewPosition(d)
             rect == BoundRect(current_road_index)
  <2>1. p \in Point
    BY NewPositionTyped
  <2>2. placed' = TRUE
    BY <1>2 DEF Move
  <2>3. CASE StayOnRoad(p)
    BY <2>1, <2>2, <2>3
       DEF StayOnRoad, TypeOK, SpeedInv, DogOnItsRoad, OnRoad
  <2>4. CASE ChangeRoad(p)
    <3>1. PICK j \in DOMAIN Roads : FoundRoad(p, j) /\ current_road_index' = j
      BY <2>4 DEF ChangeRoad
    <3>2. position' = p /\ speed' = speed
      BY <2>4 DEF ChangeRoad
    <3> HIDE DEF p
    <3> QED BY <2>1, <2>2, <3>1, <3>2
            DEF FoundRoad, TypeOK, SpeedInv, DogOnItsRoad, OnRoad
  <2>5. CASE StopAtEdge(p)
    <3>1. Clamped(p, rect) \in Point /\ point_inside(rect, Clamped(p, rect))
      BY <2>1, RectTyped, ClampedInside DEF TypeOK
    <3>2. /\ position' = Clamped(p, rect)
          /\ speed' = Standing
          /\ current_road_index' = current_road_index
      BY <2>5 DEF StopAtEdge
    <3>3. speed' \in [vx : Int, vy : Int] /\ SpeedInv'
      BY <3>2, StandingTyped DEF SpeedInv
    <3>4. DogOnItsRoad'
      BY <3>1, <3>2 DEF DogOnItsRoad, OnRoad
    <3> HIDE DEF p, rect
    <3> QED BY <2>2, <3>1, <3>2, <3>3, <3>4 DEF TypeOK
  <2> QED BY <1>2, <2>3, <2>4, <2>5 DEF Move
<1>3. ASSUME UNCHANGED vars
      PROVE  MotionInv'
  BY <1>3 DEF vars, TypeOK, SpeedInv, DogOnItsRoad
<1> QED BY <1>1, <1>2, <1>3 DEF Next

(* On every map a dog that has been placed stands on the road it is        *)
(* recorded to be on, whatever it is told to do and however long ticks are.*)
THEOREM DogStaysOnItsRoad == Spec => [](TypeOK /\ DogOnItsRoad)
<1>1. Init => MotionInv
  BY RoadsAssumption, MotionInit
<1>2. MotionInv /\ [Next]_vars => MotionInv'
  BY RoadsAssumption, MotionAssumption, MotionStep
<1> QED BY <1>1, <1>2, PTL DEF Spec, MotionInv

(* TypeOK: positions stay whole tenths of a unit, and the road recorded    *)
(* for the dog is one of the map's, so road lookups in moves are defined.  *)
THEOREM MotionTypes == Spec => []TypeOK
BY DogStaysOnItsRoad, PTL

LEMMA StandingStep ==
  ASSUME MotionAssumption, MotionInv, Next,
         placed, speed = Standing, speed' = Standing
  PROVE  position' = position
<1>1. CASE \E dir \in Heading \union {"STOP"} : SetSpeed(dir)
  BY <1>1 DEF SetSpeed
<1>2. ASSUME NEW d \in Deltas, Move(d)
      PROVE  position' = position
  <2>1. d \in Int
    BY DEF MotionAssumption
  <2>2. NewPosition(d) = position
    <3>1. speed.vx = 0 /\ speed.vy = 0
      BY DEF Standing
    <3>2. d * speed.vx = 0 /\ d * speed.vy = 0
      BY <2>1, <3>1
    <3> QED BY <3>2 DEF NewPosition, MotionInv, TypeOK, Point
  <2>3. point_inside(BoundRect(current_road_index), NewPosition(d))
    BY <2>2 DEF MotionInv, DogOnItsRoad, OnRoad
  <2>4. StayOnRoad(NewPosition(d))
    BY <1>2, <2>3 DEF Move, ChangeRoad, StopAtEdge
  <2> QED BY <2>2, <2>4 DEF StayOnRoad
<1> QED BY <1>1, <1>2 DEF Next

(* On every map a tick leaves a dog that stands still where it is: since   *)
(* it is on its own road, change_position takes its first branch.          *)
THEOREM StandingDogNotMoved == Spec => StandingDogStays
<1>1. MotionInv /\ [Next]_vars =>
        [placed /\ speed = Standing /\ speed' = Standing => position' = position]_vars
  BY MotionAssumption, StandingStep
<1>2. Init => MotionInv
  BY RoadsAssumption, MotionInit
<1>3. MotionInv /\ [Next]_vars => MotionInv'
  BY RoadsAssumption, MotionAssumption, MotionStep
<1> QED BY <1>1, <1>2, <1>3, PTL DEF Spec, StandingDogStays

LEMMA VelocityStep ==
  ASSUME RoadsAssumption, MotionAssumption, MotionInv, placed,
         NEW d \in Deltas, Move(d)
  PROVE  \E n \in 0 .. d * MaxSpeed : position' = Ahead(position, speed, n)
<1> DEFINE w == d * MaxSpeed
           p == NewPosition(d)
           rect == BoundRect(current_road_index)
           lo == rect.min_point
           hi == rect.max_point
<1>1. d \in Nat /\ MaxSpeed \in Nat /\ MaxSpeed > 0
  BY DEF MotionAssumption
<1>2. w \in Nat /\ d * (-MaxSpeed) = -w /\ d * 0 = 0
  BY <1>1
<1>3. /\ position.x \in Int /\ position.y \in Int
      /\ position = [x |-> position.x, y |-> position.y]
  BY DEF MotionInv, TypeOK, Point
<1>4. /\ lo.x \in Int /\ lo.y \in Int /\ hi.x \in Int /\ hi.y \in Int
      /\ lo.x <= position.x /\ position.x <= hi.x
      /\ lo.y <= position.y /\ position.y <= hi.y
  BY RectTyped DEF MotionInv, TypeOK, DogOnItsRoad, OnRoad, point_inside, Point
<1>5. p = [x |-> position.x + d * speed.vx, y |-> position.y + d * speed.vy]
  BY DEF NewPosition
<1>6. position' = p \/ position' = Clamped(p, rect)
  BY DEF Move, StayOnRoad, ChangeRoad, StopAtEdge
<1>7. Clamped(p, rect) = [x |-> Upper(lo.x, Lower(p.x, hi.x)),
                          y |-> Upper(lo.y, Lower(p.y, hi.y))]
  BY DEF Clamped
<1>8. PICK dir \in Heading \union {"STOP"} : speed = Velocity(dir)
  BY DEF MotionInv, SpeedInv
<1> HIDE DEF w, p, rect, lo, hi
<1>9. w \in Nat /\ position.x \in Int /\ position.y \in Int
  BY <1>2, <1>3
<1>10. /\ Upper(lo.x, Lower(position.x, hi.x)) = position.x
       /\ \E m \in 0 .. w : Upper(lo.x, Lower(position.x + w, hi.x)) = position.x + m
       /\ \E m \in 0 .. w : Upper(lo.x, Lower(position.x - w, hi.x)) = position.x - m
  <2>1. PICK a \in Int, b \in Int, c \in Int :
               a = lo.x /\ b = hi.x /\ c = position.x
    BY <1>4, <1>9
  <2>2. a <= c /\ c <= b
    BY <1>4, <2>1
  <2>3. Upper(a, Lower(c, b)) = c
    BY <2>2 DEF Lower, Upper
  <2>4. \E m \in 0 .. w : Upper(a, Lower(c + w, b)) = c + m
    <3>1. CASE c + w <= b
      <4>1. Upper(a, Lower(c + w, b)) = c + w /\ w \in 0 .. w
        BY <1>9, <2>2, <3>1 DEF Lower, Upper
      <4> QED BY <4>1
    <3>2. CASE ~(c + w <= b)
      <4>1. Upper(a, Lower(c + w, b)) = c + (b - c) /\ b - c \in 0 .. w
        BY <1>9, <2>2, <3>2 DEF Lower, Upper
      <4> QED BY <4>1
    <3> QED BY <3>1, <3>2
  <2>5. \E m \in 0 .. w : Upper(a, Lower(c - w, b)) = c - m
    <3>1. CASE a <= c - w
      <4>1. Upper(a, Lower(c - w, b)) = c - w /\ w \in 0 .. w
        BY <1>9, <2>2, <3>1 DEF Lower, Upper
      <4> QED BY <4>1
    <3>2. CASE ~(a <= c - w)
      <4>1. Upper(a, Lower(c - w, b)) = c - (c - a) /\ c - a \in 0 .. w
        BY <1>9, <2>2, <3>2 DEF Lower, Upper
      <4> QED BY <4>1
    <3> QED BY <3>1, <3>2
  <2> QED BY <2>1, <2>3, <2>4, <2>5
<1>11. /\ Upper(lo.y, Lower(position.y, hi.y)) = position.y
       /\ \E m \in 0 .. w : Upper(lo.y, Lower(position.y + w, hi.y)) = position.y + m
       /\ \E m \in 0 .. w : Upper(lo.y, Lower(position.y - w, hi.y)) = position.y - m
  <2>1. PICK a \in Int, b \in Int, c \in Int :
               a = lo.y /\ b = hi.y /\ c = position.y
    BY <1>4, <1>9
  <2>2. a <= c /\ c <= b
    BY <1>4, <2>1
  <2>3. Upper(a, Lower(c, b)) = c
    BY <2>2 DEF Lower, Upper
  <2>4. \E m \in 0 .. w : Upper(a, Lower(c + w, b)) = c + m
    <3>1. CASE c + w <= b
      <4>1. Upper(a, Lower(c + w, b)) = c + w /\ w \in 0 .. w
        BY <1>9, <2>2, <3>1 DEF Lower, Upper
      <4> QED BY <4>1
    <3>2. CASE ~(c + w <= b)
      <4>1. Upper(a, Lower(c + w, b)) = c + (b - c) /\ b - c \in 0 .. w
        BY <1>9, <2>2, <3>2 DEF Lower, Upper
      <4> QED BY <4>1
    <3> QED BY <3>1, <3>2
  <2>5. \E m \in 0 .. w : Upper(a, Lower(c - w, b)) = c - m
    <3>1. CASE a <= c - w
      <4>1. Upper(a, Lower(c - w, b)) = c - w /\ w \in 0 .. w
        BY <1>9, <2>2, <3>1 DEF Lower, Upper
      <4> QED BY <4>1
    <3>2. CASE ~(a <= c - w)
      <4>1. Upper(a, Lower(c - w, b)) = c - (c - a) /\ c - a \in 0 .. w
        BY <1>9, <2>2, <3>2 DEF Lower, Upper
      <4> QED BY <4>1
    <3> QED BY <3>1, <3>2
  <2> QED BY <2>1, <2>3, <2>4, <2>5
<1>12. CASE dir = "EAST"
  <2>1. speed.vx = MaxSpeed /\ speed.vy = 0
    BY <1>8, <1>12 DEF Velocity
  <2>2. p = [x |-> position.x + w, y |-> position.y]
    BY <1>2, <1>3, <1>5, <2>1 DEF w
  <2>3. \A n : Ahead(position, speed, n) = [x |-> position.x + n, y |-> position.y]
    BY <1>1, <1>3, <2>1 DEF Ahead
  <2>4. PICK m \in 0 .. w : Upper(lo.x, Lower(position.x + w, hi.x)) = position.x + m
    BY <1>10, <1>11
  <2>5. Upper(lo.y, Lower(position.y, hi.y)) = position.y
    BY <1>10, <1>11
  <2>6. Clamped(p, rect) = [x |-> position.x + m, y |-> position.y]
    BY <1>7, <2>2, <2>4, <2>5
  <2>7. w \in 0 .. w
    BY <1>2
  <2> QED BY <1>6, <2>2, <2>3, <2>4, <2>6, <2>7 DEF w
<1>13. CASE dir = "WEST"
  <2>1. speed.vx = -MaxSpeed /\ speed.vy = 0
    BY <1>8, <1>13 DEF Velocity
  <2>2. p = [x |-> position.x - w, y |-> position.y]
    BY <1>2, <1>3, <1>5, <2>1 DEF w
  <2>3. \A n \in Int :
          Ahead(position, speed, n) = [x |-> position.x - n, y |-> position.y]
    BY <1>1, <1>3, <2>1 DEF Ahead
  <2>4. PICK m \in 0 .. w : Upper(lo.x, Lower(position.x - w, hi.x)) = position.x - m
    BY <1>10, <1>11
  <2>5. Upper(lo.y, Lower(position.y, hi.y)) = position.y
    BY <1>10, <1>11
  <2>6. Clamped(p, rect) = [x |-> position.x - m, y |-> position.y]
    BY <1>7, <2>2, <2>4, <2>5
  <2>7. w \in 0 .. w
    BY <1>2
  <2> QED BY <1>6, <2>2, <2>3, <2>4, <2>6, <2>7 DEF w
<1>14. CASE dir = "SOUTH"
  <2>1. speed.vx = 0 /\ speed.vy = MaxSpeed
    BY <1>8, <1>14 DEF Velocity
  <2>2. p = [x |-> position.x, y |-> position.y + w]
    BY <1>2, <1>3, <1>5, <2>1 DEF w
  <2>3. \A n \in Int :
          Ahead(position, speed, n) = [x |-> position.x, y |-> position.y + n]
    BY <1>1, <1>3, <2>1 DEF Ahead
  <2>4. PICK m \in 0 .. w : Upper(lo.y, Lower(position.y + w, hi.y)) = position.y + m
    BY <1>10, <1>11
  <2>5. Upper(lo.x, Lower(position.x, hi.x)) = position.x
    BY <1>10, <1>11
  <2>6. Clamped(p, rect) = [x |-> position.x, y |-> position.y + m]
    BY <1>7, <2>2, <2>4, <2>5
  <2>7. w \in 0 .. w
    BY <1>2
  <2> QED BY <1>6, <2>2, <2>3, <2>4, <2>6, <2>7 DEF w
<1>15. CASE dir = "NORTH"
  <2>1. speed.vx = 0 /\ speed.vy = -MaxSpeed
    BY <1>8, <1>15 DEF Velocity
  <2>2. p = [x |-> position.x, y |-> position.y - w]
    BY <1>2, <1>3, <1>5, <2>1 DEF w
  <2>3. \A n \in Int :
          Ahead(position, speed, n) = [x |-> position.x, y |-> position.y - n]
    BY <1>1, <1>3, <2>1 DEF Ahead
  <2>4. PICK m \in 0 .. w : Upper(lo.y, Lower(position.y - w, hi.y)) = position.y - m
    BY <1>10, <1>11
  <2>5. Upper(lo.x, Lower(position.x, hi.x)) = position.x
    BY <1>10, <1>11
  <2>6. Clamped(p, rect) = [x |-> position.x, y |-> position.y - m]
    BY <1>7, <2>2, <2>4, <2>5
  <2>7. w \in 0 .. w
    BY <1>2
  <2> QED BY <1>6, <2>2, <2>3, <2>4, <2>6, <2>7 DEF w
<1>16. CASE dir = "STOP"
  <2>1. speed.vx = 0 /\ speed.vy = 0
    BY <1>8, <1>16 DEF Velocity, Standing
  <2>2. p = position
    BY <1>2, <1>3, <1>5, <2>1
  <2>3. Ahead(position, speed, 0) = position
    BY <1>3, <2>1 DEF Ahead
  <2>4. Clamped(p, rect) = position
    <3>1. /\ Upper(lo.x, Lower(position.x, hi.x)) = position.x
          /\ Upper(lo.y, Lower(position.y, hi.y)) = position.y
      BY <1>3, <1>4 DEF Lower, Upper
    <3> QED BY <1>3, <1>7, <2>2, <3>1
  <2>5. 0 \in 0 .. w
    BY <1>2
  <2> QED BY <1>6, <2>2, <2>3, <2>4, <2>5 DEF w
<1> QED BY <1>8, <1>12, <1>13, <1>14, <1>15, <1>16 DEF Heading

(* On every map a tick moves a placed dog forwards along its velocity, by  *)
(* at most speed times duration, whether it runs on or is stopped at an    *)
(* edge: the clamp never pushes it aside or back.                          *)
THEOREM MovesAlongItsVelocity == Spec => MoveWithinVelocity
<1>1. MotionInv =>
        [\A d \in Deltas : placed /\ Move(d) =>
           \E n \in 0 .. d * MaxSpeed : position' = Ahead(position, speed, n)]_vars
  BY RoadsAssumption, MotionAssumption, VelocityStep
<1>2. Init => MotionInv
  BY RoadsAssumption, MotionInit
<1>3. MotionInv /\ [Next]_vars => MotionInv'
  BY RoadsAssumption, MotionAssumption, MotionStep
<1> QED BY <1>1, <1>2, <1>3, PTL DEF Spec, MoveWithinVelocity
=============================================================================
