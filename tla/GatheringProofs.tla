-------------------------- MODULE GatheringProofs --------------------------
(***************************************************************************)
(* What a dog gathers does not depend on how its way is cut into moves,    *)
(* for any points, moves, loots and offices.                               *)
(***************************************************************************)
EXTENDS Gathering, FiniteSetTheorems, SequenceTheorems, TLAPS

Vector == Int \X Int

(* Twice the area between two vectors: 0 if they are parallel. *)
Cross(u, v) == u[1] * v[2] - u[2] * v[1]

(* The dog has turned for the last time at start and walked straight on,   *)
(* or has not moved at all.                                                *)
Straight ==
  \/ heading = <<0, 0>> /\ start = position /\ gathered = <<>>
  \/ Along(Minus(position, start), heading)

GatherInv ==
  /\ loots \in [1..2 -> LootPlaces]
  /\ start \in Vector /\ position \in Vector /\ heading \in Vector
  /\ gathered \in Seq(DOMAIN Items)
  /\ Straight
  /\ WalkGathersLikeOneMove

-----------------------------------------------------------------------------
(* Arithmetic. *)

LEMMA ProductSign ==
  ASSUME NEW x \in Int, NEW y \in Int, x > 0
  PROVE  /\ y > 0 => x * y > 0
         /\ y = 0 => x * y = 0
         /\ y < 0 => x * y < 0
OBVIOUS

LEMMA SameSign ==
  ASSUME NEW x \in Int, NEW y \in Int, x > 0, y > 0,
         NEW s \in Int, NEW t \in Int, x * s = y * t
  PROVE  (s >= 0 <=> t >= 0) /\ (s = 0 <=> t = 0) /\ (s > 0 <=> t > 0)
<1>1. /\ s > 0 => x * s > 0
      /\ s = 0 => x * s = 0
      /\ s < 0 => x * s < 0
  BY ProductSign
<1>2. /\ t > 0 => y * t > 0
      /\ t = 0 => y * t = 0
      /\ t < 0 => y * t < 0
  BY ProductSign
<1> DEFINE a == x * s
           b == y * t
<1>3. a \in Int /\ b \in Int /\ a = b  OBVIOUS
<1> HIDE DEF a, b
<1>4. /\ s > 0 => a > 0
      /\ s = 0 => a = 0
      /\ s < 0 => a < 0
  BY <1>1 DEF a
<1>5. /\ t > 0 => b > 0
      /\ t = 0 => b = 0
      /\ t < 0 => b < 0
  BY <1>2 DEF b
<1> QED  BY <1>3, <1>4, <1>5

LEMMA Lagrange ==
  ASSUME NEW a \in Int, NEW b \in Int, NEW c \in Int, NEW d \in Int
  PROVE  (a * a + b * b) * (c * c + d * d) - (a * c + b * d) * (a * c + b * d)
           = (a * d - b * c) * (a * d - b * c)
OBVIOUS

-----------------------------------------------------------------------------
(* Vectors. *)

LEMMA DotTyped ==
  ASSUME NEW u \in Vector, NEW v \in Vector
  PROVE  /\ Dot(u, v) \in Int /\ Cross(u, v) \in Int
         /\ Plus(u, v) \in Vector /\ Minus(u, v) \in Vector
         /\ Dot(u, v) = Dot(v, u) /\ Cross(v, u) = -Cross(u, v)
         /\ Dot(u, u) >= 0
<1> DEFINE a == u[1]
           b == u[2]
           c == v[1]
           d == v[2]
<1>1. a \in Int /\ b \in Int /\ c \in Int /\ d \in Int  BY DEF Vector
<1>2. a * a >= 0 /\ b * b >= 0
  <2> HIDE DEF a, b
  <2>1. \A x \in Int : x * x >= 0  OBVIOUS
  <2> QED  BY <1>1, <2>1
<1>3. /\ Dot(u, v) = a * c + b * d /\ Dot(v, u) = c * a + d * b
      /\ Cross(u, v) = a * d - b * c /\ Cross(v, u) = c * b - d * a
      /\ Dot(u, u) = a * a + b * b
  BY DEF Dot, Cross
<1>4. Plus(u, v) \in Vector /\ Minus(u, v) \in Vector
  BY DEF Vector, Plus, Minus
<1> HIDE DEF a, b, c, d
<1>5. a * c \in Int /\ b * d \in Int /\ a * d \in Int /\ b * c \in Int
      /\ a * c = c * a /\ b * d = d * b /\ a * d = d * a /\ b * c = c * b
  BY <1>1
<1>6. Cross(v, u) = -Cross(u, v)  BY <1>3, <1>5
<1>7. Dot(u, v) \in Int /\ Cross(u, v) \in Int /\ Dot(u, v) = Dot(v, u)  BY <1>3, <1>5
<1>8. Dot(u, u) >= 0
  <2>1. a * a \in Int /\ b * b \in Int  BY <1>1
  <2> QED  BY <1>2, <1>3, <2>1
<1> QED  BY <1>4, <1>6, <1>7, <1>8

LEMMA DotOfSums ==
  ASSUME NEW u \in Vector, NEW v \in Vector, NEW w \in Vector
  PROVE  /\ Dot(Plus(u, v), w) = Dot(u, w) + Dot(v, w)
         /\ Dot(Minus(u, v), w) = Dot(u, w) - Dot(v, w)
         /\ Cross(Plus(u, v), w) = Cross(u, w) + Cross(v, w)
         /\ Cross(Minus(u, v), w) = Cross(u, w) - Cross(v, w)
         /\ Cross(w, w) = 0
BY DEF Vector, Dot, Cross, Plus, Minus

LEMMA SquaredCross ==
  ASSUME NEW u \in Vector, NEW v \in Vector
  PROVE  Dot(u, u) * Dot(v, v) - Dot(u, v) * Dot(u, v) = Cross(u, v) * Cross(u, v)
BY Lagrange DEF Vector, Dot, Cross

LEMMA AlongIsParallel ==
  ASSUME NEW u \in Vector, NEW v \in Vector
  PROVE  Along(u, v) <=> Dot(u, v) > 0 /\ Cross(u, v) = 0
<1> DEFINE a == Dot(u, u)
           b == Dot(v, v)
           p == Dot(u, v)
           c == Cross(u, v)
<1>1. a \in Int /\ b \in Int /\ p \in Int /\ c \in Int  BY DotTyped
<1>2. a * b - p * p = c * c  BY SquaredCross
<1>3. Along(u, v) <=> p > 0 /\ p * p = a * b  BY DEF Along
<1> HIDE DEF a, b, p, c
<1>4. c * c = 0 <=> c = 0  BY <1>1
<1>5. p * p = a * b <=> c * c = 0  BY <1>1, <1>2
<1> QED  BY <1>3, <1>4, <1>5 DEF p, c

(* Measured along a vector or along another one of its direction, lengths  *)
(* and distances are in proportion.                                        *)
LEMMA Proportion ==
  ASSUME NEW p \in Vector, NEW v \in Vector, Along(p, v), NEW w \in Vector
  PROVE  /\ Dot(p, p) > 0 /\ Dot(p, v) > 0 /\ Dot(v, v) > 0
         /\ Dot(p, p) * Dot(w, v) = Dot(p, v) * Dot(w, p)
         /\ Dot(p, p) * Cross(w, v) = Dot(p, v) * Cross(w, p)
         /\ Dot(p, p) * Dot(v, v) = Dot(p, v) * Dot(p, v)
<1> DEFINE a == Dot(p, p)
           b == Dot(p, v)
           g == Dot(v, v)
<1>1. a \in Int /\ b \in Int /\ g \in Int /\ a >= 0 /\ g >= 0  BY DotTyped
<1>2. b > 0 /\ Cross(p, v) = 0 /\ b * b = a * g  BY AlongIsParallel DEF Along
<1>3. a > 0 /\ g > 0
  <2> HIDE DEF a, b, g
  <2>1. b * b > 0  BY <1>1, <1>2, ProductSign
  <2>2. a # 0  BY <1>1, <1>2, <2>1
  <2>3. g # 0  BY <1>1, <1>2, <2>1
  <2> QED  BY <1>1, <2>2, <2>3
<1> DEFINE p1 == p[1]
           p2 == p[2]
           v1 == v[1]
           v2 == v[2]
           w1 == w[1]
           w2 == w[2]
<1>4. p1 \in Int /\ p2 \in Int /\ v1 \in Int /\ v2 \in Int /\ w1 \in Int /\ w2 \in Int
  BY DEF Vector
<1>5. /\ a = p1 * p1 + p2 * p2 /\ b = p1 * v1 + p2 * v2 /\ p1 * v2 - p2 * v1 = 0
      /\ Dot(w, v) = w1 * v1 + w2 * v2 /\ Dot(w, p) = w1 * p1 + w2 * p2
      /\ Cross(w, v) = w1 * v2 - w2 * v1 /\ Cross(w, p) = w1 * p2 - w2 * p1
  BY <1>2 DEF Dot, Cross
<1> HIDE DEF a, b, g, p1, p2, v1, v2, w1, w2
<1>6. a * v1 = b * p1
  <2>1. a * v1 - b * p1 = p2 * (p2 * v1 - p1 * v2)  BY <1>4, <1>5
  <2>2. p2 * v1 - p1 * v2 = 0  BY <1>4, <1>5
  <2>3. a * v1 - b * p1 = 0  BY <2>1, <2>2, <1>4
  <2> QED  BY <2>3, <1>1, <1>4
<1>7. a * v2 = b * p2
  <2>1. a * v2 - b * p2 = p1 * (p1 * v2 - p2 * v1)  BY <1>4, <1>5
  <2>2. p1 * v2 - p2 * v1 = 0  BY <1>4, <1>5
  <2>3. a * v2 - b * p2 = 0  BY <2>1, <2>2, <1>4
  <2> QED  BY <2>3, <1>1, <1>4
<1>8. a * Dot(w, v) = b * Dot(w, p)
  <2>1. a * (w1 * v1 + w2 * v2) = w1 * (a * v1) + w2 * (a * v2)  BY <1>1, <1>4
  <2>2. b * (w1 * p1 + w2 * p2) = w1 * (b * p1) + w2 * (b * p2)  BY <1>1, <1>4
  <2> QED  BY <2>1, <2>2, <1>5, <1>6, <1>7
<1>9. a * Cross(w, v) = b * Cross(w, p)
  <2>1. a * (w1 * v2 - w2 * v1) = w1 * (a * v2) - w2 * (a * v1)  BY <1>1, <1>4
  <2>2. b * (w1 * p2 - w2 * p1) = w1 * (b * p2) - w2 * (b * p1)  BY <1>1, <1>4
  <2> QED  BY <2>1, <2>2, <1>5, <1>6, <1>7
<1> QED  BY <1>2, <1>3, <1>8, <1>9 DEF a, b, g

LEMMA AlongSelf ==
  ASSUME NEW v \in Vector, v # <<0, 0>>
  PROVE  Along(v, v)
<1>1. v[1] \in Int /\ v[2] \in Int /\ (v[1] # 0 \/ v[2] # 0)  BY DEF Vector
<1>2. \A x \in Int : x * x >= 0 /\ (x # 0 => x * x > 0)  OBVIOUS
<1>3. v[1] * v[1] + v[2] * v[2] > 0  BY <1>1, <1>2
<1> QED  BY <1>3 DEF Along, Dot

LEMMA AlongTransitive ==
  ASSUME NEW p \in Vector, NEW h \in Vector, NEW v \in Vector, Along(p, h), Along(h, v)
  PROVE  Along(p, v)
<1>1. /\ Dot(h, h) > 0 /\ Dot(h, v) > 0
      /\ Dot(h, h) * Dot(p, v) = Dot(h, v) * Dot(p, h)
      /\ Dot(h, h) * Cross(p, v) = Dot(h, v) * Cross(p, h)
  BY Proportion
<1>2. Dot(p, h) > 0 /\ Cross(p, h) = 0  BY AlongIsParallel
<1>3. /\ Dot(h, h) \in Int /\ Dot(h, v) \in Int /\ Dot(p, v) \in Int /\ Dot(p, h) \in Int
      /\ Cross(p, v) \in Int /\ Cross(p, h) \in Int
  BY DotTyped
<1>4. Dot(p, v) > 0  BY <1>1, <1>2, <1>3, SameSign
<1>5. Cross(p, v) = 0  BY <1>1, <1>2, <1>3, SameSign
<1> QED  BY <1>4, <1>5, AlongIsParallel

LEMMA AlongFurther ==
  ASSUME NEW p \in Vector, NEW v \in Vector, Along(p, v)
  PROVE  Along(Plus(p, v), v)
<1>1. Dot(p, v) > 0 /\ Cross(p, v) = 0  BY AlongIsParallel
<1>2. Dot(v, v) > 0  BY Proportion
<1>3. /\ Dot(Plus(p, v), v) = Dot(p, v) + Dot(v, v)
      /\ Cross(Plus(p, v), v) = Cross(p, v) + Cross(v, v) /\ Cross(v, v) = 0
  BY DotOfSums
<1>4. Dot(p, v) \in Int /\ Dot(v, v) \in Int /\ Plus(p, v) \in Vector  BY DotTyped
<1>5. Dot(Plus(p, v), v) > 0 /\ Cross(Plus(p, v), v) = 0  BY <1>1, <1>2, <1>3, <1>4
<1> QED  BY <1>4, <1>5, AlongIsParallel

(* The order of points along a way. *)
LEMMA AlongKeepsOrder ==
  ASSUME NEW p \in Vector, NEW v \in Vector, Along(p, v),
         NEW c \in Vector, NEW d \in Vector
  PROVE  Dot(c, p) <= Dot(d, p) <=> Dot(c, v) <= Dot(d, v)
<1> DEFINE w == Minus(d, c)
<1>1. w \in Vector  BY DotTyped
<1>2. Dot(w, p) = Dot(d, p) - Dot(c, p) /\ Dot(w, v) = Dot(d, v) - Dot(c, v)  BY DotOfSums
<1>3. Dot(c, p) \in Int /\ Dot(d, p) \in Int /\ Dot(c, v) \in Int /\ Dot(d, v) \in Int
      /\ Dot(w, p) \in Int /\ Dot(w, v) \in Int /\ Dot(p, p) \in Int /\ Dot(p, v) \in Int
  BY <1>1, DotTyped
<1> HIDE DEF w
<1>4. Dot(p, p) > 0 /\ Dot(p, v) > 0 /\ Dot(p, p) * Dot(w, v) = Dot(p, v) * Dot(w, p)
  BY <1>1, Proportion
<1>5. Dot(w, v) >= 0 <=> Dot(w, p) >= 0  BY <1>3, <1>4, SameSign
<1> QED  BY <1>2, <1>3, <1>5

-----------------------------------------------------------------------------
(* One item and two moves in a row. *)

(* A point at u from where a move p began is passed, within the radius. *)
Hit(u, p, radius) ==
  /\ 0 <= Dot(u, p) /\ Dot(u, p) <= Dot(p, p)
  /\ Cross(u, p) * Cross(u, p) <= radius * radius * Dot(p, p)

LEMMA CollectedIsHit ==
  ASSUME NEW a \in Vector, NEW b \in Vector, NEW c \in Vector, NEW radius \in Int
  PROVE  /\ is_collected(TryCollectPoint(a, b, c), radius) <=> Hit(Minus(c, a), Minus(b, a), radius)
         /\ TryCollectPoint(a, b, c).proj = Dot(Minus(c, a), Minus(b, a))
<1> DEFINE u == Minus(c, a)
           p == Minus(b, a)
<1>1. u \in Vector /\ p \in Vector  BY DotTyped
<1>2. TryCollectPoint(a, b, c) =
        [v_len2 |-> Dot(p, p), proj |-> Dot(u, p),
         sq_distance |-> Dot(u, u) * Dot(p, p) - Dot(u, p) * Dot(u, p)]
  BY DEF TryCollectPoint
<1> HIDE DEF u, p
<1>3. Dot(u, u) * Dot(p, p) - Dot(u, p) * Dot(u, p) = Cross(u, p) * Cross(u, p)
  BY <1>1, SquaredCross
<1> QED  BY <1>2, <1>3 DEF is_collected, Hit, u, p

(* In numbers: x and z are the length and the distance of the point,       *)
(* measured along the first way, whose length is a, and b is how much of   *)
(* it the second one is.                                                   *)
SameHits(a, b, g, x, y, z, w, r) ==
  /\ y - b >= 0 <=> x - a >= 0
  /\ g - (y - b) >= 0 <=> a + b - x >= 0
  /\ x + y >= 0 <=> x >= 0
  /\ (a + 2 * b + g) - (x + y) >= 0 <=> a + b - x >= 0
  /\ r * r * g - w * w >= 0 <=> r * r * a - z * z >= 0
  /\ r * r * (a + 2 * b + g) - (z + w) * (z + w) >= 0 <=> r * r * a - z * z >= 0

LEMMA HitsInNumbers ==
  ASSUME NEW a \in Int, NEW b \in Int, NEW g \in Int, a > 0, b > 0,
         NEW x \in Int, NEW y \in Int, NEW z \in Int, NEW w \in Int, NEW r \in Int,
         a * y = b * x, a * w = b * z, a * g = b * b
  PROVE  SameHits(a, b, g, x, y, z, w, r)
<1>1. a * (y - b) = b * (x - a)  OBVIOUS
<1>2. a * (g - (y - b)) = b * (a + b - x)  OBVIOUS
<1>3. a * (x + y) = (a + b) * x  OBVIOUS
<1>4. a * ((a + 2 * b + g) - (x + y)) = (a + b) * (a + b - x)  OBVIOUS
<1>5. a * a > 0 /\ b * b > 0 /\ a + b > 0 /\ (a + b) * (a + b) > 0
  BY ProductSign
<1>6. (a * a) * (r * r * g - w * w) = (b * b) * (r * r * a - z * z)
  <2>1. (a * a) * (r * r * g - w * w) = (r * r * a) * (a * g) - (a * w) * (a * w)  OBVIOUS
  <2>2. (b * b) * (r * r * a - z * z) = (r * r * a) * (b * b) - (b * z) * (b * z)  OBVIOUS
  <2> QED  BY <2>1, <2>2
<1>7. (a * a) * (r * r * (a + 2 * b + g) - (z + w) * (z + w))
        = ((a + b) * (a + b)) * (r * r * a - z * z)
  <2>1. (a * a) * (r * r * (a + 2 * b + g) - (z + w) * (z + w))
          = (r * r * a) * (a * a + 2 * a * b + a * g) - (a * z + a * w) * (a * z + a * w)
    OBVIOUS
  <2>2. ((a + b) * (a + b)) * (r * r * a - z * z)
          = (r * r * a) * (a * a + 2 * a * b + b * b) - (a * z + b * z) * (a * z + b * z)
    OBVIOUS
  <2> QED  BY <2>1, <2>2
<1>8. y - b >= 0 <=> x - a >= 0
  <2>1. y - b \in Int /\ x - a \in Int  OBVIOUS
  <2> QED  BY <2>1, <1>1, SameSign
<1>9. g - (y - b) >= 0 <=> a + b - x >= 0
  <2>1. g - (y - b) \in Int /\ a + b - x \in Int  OBVIOUS
  <2> QED  BY <2>1, <1>2, SameSign
<1>10. x + y >= 0 <=> x >= 0
  <2>1. x + y \in Int /\ a + b \in Int  OBVIOUS
  <2> QED  BY <2>1, <1>3, <1>5, SameSign
<1>11. (a + 2 * b + g) - (x + y) >= 0 <=> a + b - x >= 0
  <2>1. (a + 2 * b + g) - (x + y) \in Int /\ a + b \in Int /\ a + b - x \in Int  OBVIOUS
  <2> QED  BY <2>1, <1>4, <1>5, SameSign
<1>12. r * r * g - w * w >= 0 <=> r * r * a - z * z >= 0
  <2>1. r * r * g - w * w \in Int /\ r * r * a - z * z \in Int /\ a * a \in Int /\ b * b \in Int
    OBVIOUS
  <2> QED  BY <2>1, <1>5, <1>6, SameSign
<1>13. r * r * (a + 2 * b + g) - (z + w) * (z + w) >= 0 <=> r * r * a - z * z >= 0
  <2>1. /\ r * r * (a + 2 * b + g) - (z + w) * (z + w) \in Int /\ r * r * a - z * z \in Int
        /\ a * a \in Int /\ (a + b) * (a + b) \in Int
    OBVIOUS
  <2> QED  BY <2>1, <1>5, <1>7, SameSign
<1> QED  BY <1>8, <1>9, <1>10, <1>11, <1>12, <1>13 DEF SameHits

LEMMA SumsInNumbers ==
  ASSUME NEW p \in Vector, NEW v \in Vector, NEW u \in Vector
  PROVE  /\ Dot(u, Plus(p, v)) = Dot(u, p) + Dot(u, v)
         /\ Cross(u, Plus(p, v)) = Cross(u, p) + Cross(u, v)
         /\ Dot(Plus(p, v), Plus(p, v)) = Dot(p, p) + 2 * Dot(p, v) + Dot(v, v)
<1>1. ASSUME NEW w \in Vector PROVE Dot(w, Plus(p, v)) = Dot(w, p) + Dot(w, v)
  BY DotTyped, DotOfSums
<1>2. Cross(u, Plus(p, v)) = Cross(u, p) + Cross(u, v)
  <2>1. Plus(p, v) \in Vector /\ Cross(Plus(p, v), u) = Cross(p, u) + Cross(v, u)
    BY DotTyped, DotOfSums
  <2>2. /\ Cross(u, Plus(p, v)) = -Cross(Plus(p, v), u)
        /\ Cross(u, p) = -Cross(p, u) /\ Cross(u, v) = -Cross(v, u)
        /\ Cross(p, u) \in Int /\ Cross(v, u) \in Int
    BY <2>1, DotTyped
  <2> QED  BY <2>1, <2>2
<1>3. Dot(Plus(p, v), Plus(p, v)) = Dot(p, p) + 2 * Dot(p, v) + Dot(v, v)
  <2>1. Plus(p, v) \in Vector  BY DotTyped
  <2>2. Dot(Plus(p, v), Plus(p, v)) = Dot(Plus(p, v), p) + Dot(Plus(p, v), v)  BY <1>1, <2>1
  <2>3. /\ Dot(Plus(p, v), p) = Dot(p, p) + Dot(v, p)
        /\ Dot(Plus(p, v), v) = Dot(p, v) + Dot(v, v)
    BY DotOfSums
  <2>4. Dot(v, p) = Dot(p, v) /\ Dot(p, p) \in Int /\ Dot(p, v) \in Int /\ Dot(v, v) \in Int
    BY DotTyped
  <2> QED  BY <2>2, <2>3, <2>4
<1> QED  BY <1>1, <1>2, <1>3

(* Two moves in one direction pass what one move of both lengths passes.   *)
LEMMA TwoMovesHitTheSame ==
  ASSUME NEW p \in Vector, NEW v \in Vector, Along(p, v), NEW u \in Vector, NEW radius \in Int
  PROVE  Hit(u, Plus(p, v), radius) <=> Hit(u, p, radius) \/ Hit(Minus(u, p), v, radius)
<1> DEFINE a == Dot(p, p)
           b == Dot(p, v)
           g == Dot(v, v)
           x == Dot(u, p)
           y == Dot(u, v)
           z == Cross(u, p)
           w == Cross(u, v)
           r == radius
<1>1. /\ a \in Int /\ b \in Int /\ g \in Int /\ x \in Int /\ y \in Int /\ z \in Int
      /\ w \in Int /\ r \in Int
  BY DotTyped
<1>2. a > 0 /\ b > 0 /\ a * y = b * x /\ a * w = b * z /\ a * g = b * b  BY Proportion
<1>3. Hit(u, p, r) <=> 0 <= x /\ x <= a /\ z * z <= r * r * a  BY DEF Hit
<1>4. Hit(Minus(u, p), v, r) <=> 0 <= y - b /\ y - b <= g /\ w * w <= r * r * g
  <2>1. Dot(Minus(u, p), v) = y - b  BY DotOfSums
  <2>2. Cross(Minus(u, p), v) = w
    <3>1. Cross(Minus(u, p), v) = w - Cross(p, v) /\ Cross(p, v) = 0
      BY DotOfSums, AlongIsParallel
    <3> HIDE DEF w
    <3> QED  BY <3>1, <1>1
  <2> QED  BY <2>1, <2>2 DEF Hit
<1>5. Hit(u, Plus(p, v), r) <=> /\ 0 <= x + y /\ x + y <= a + 2 * b + g
                                /\ (z + w) * (z + w) <= r * r * (a + 2 * b + g)
  BY SumsInNumbers DEF Hit
<1> HIDE DEF a, b, g, x, y, z, w, r
<1>6. /\ y - b >= 0 <=> x - a >= 0
      /\ g - (y - b) >= 0 <=> a + b - x >= 0
      /\ x + y >= 0 <=> x >= 0
      /\ (a + 2 * b + g) - (x + y) >= 0 <=> a + b - x >= 0
      /\ r * r * g - w * w >= 0 <=> r * r * a - z * z >= 0
      /\ r * r * (a + 2 * b + g) - (z + w) * (z + w) >= 0 <=> r * r * a - z * z >= 0
  <2>1. SameHits(a, b, g, x, y, z, w, r)  BY <1>1, <1>2, HitsInNumbers
  <2> QED  BY <2>1 DEF SameHits
<1> DEFINE near == r * r * a - z * z >= 0
<1>7. /\ z * z <= r * r * a <=> near
      /\ w * w <= r * r * g <=> near
      /\ (z + w) * (z + w) <= r * r * (a + 2 * b + g) <=> near
  <2>1. \A s, t \in Int : s <= t <=> t - s >= 0  OBVIOUS
  <2>2. z * z \in Int /\ r * r * a \in Int /\ w * w \in Int /\ r * r * g \in Int
        /\ (z + w) * (z + w) \in Int /\ r * r * (a + 2 * b + g) \in Int
    BY <1>1
  <2> QED  BY <1>6, <2>1, <2>2
<1> HIDE DEF near
<1>8. Hit(u, p, r) <=> x >= 0 /\ x <= a /\ near  BY <1>1, <1>3, <1>7
<1>9. Hit(Minus(u, p), v, r) <=> x >= a /\ x <= a + b /\ near  BY <1>1, <1>4, <1>6, <1>7
<1>10. Hit(u, Plus(p, v), r) <=> x >= 0 /\ x <= a + b /\ near  BY <1>1, <1>5, <1>6, <1>7
<1>11. x >= 0 /\ x <= a + b <=> (x >= 0 /\ x <= a) \/ (x >= a /\ x <= a + b)
  BY <1>1, <1>2
<1> QED  BY <1>8, <1>9, <1>10, <1>11 DEF r

-----------------------------------------------------------------------------
(* Items and events. *)

LEMMA ItemsTyped ==
  ASSUME loots \in [1..2 -> LootPlaces]
  PROVE  /\ DOMAIN Items = 1 .. Len(Items) /\ Len(Items) \in Nat
         /\ \A j \in DOMAIN Items : Items[j].position \in Vector /\ Items[j].width \in Int
<1> DEFINE Item == [position : Vector, width : Int]
           f == [j \in DOMAIN loots |-> [position |-> loots[j], width |-> lootWidth]]
           g == [j \in DOMAIN Offices |-> [position |-> Offices[j], width |-> baseWidth]]
<1>1. f \in Seq(Item)
  <2>1. \A j \in 1..2 : loots[j] \in Vector  BY GatheringAssumption DEF Vector
  <2>2. \A j \in 1..2 : [position |-> loots[j], width |-> lootWidth] \in Item
    BY <2>1 DEF lootWidth
  <2>3. DOMAIN loots = 1..2  OBVIOUS
  <2> HIDE DEF Item
  <2> QED  BY <2>2, <2>3
<1>2. g \in Seq(Item)
  <2>1. Offices \in Seq(Vector)  BY GatheringAssumption DEF Vector
  <2>2. \A j \in DOMAIN Offices : [position |-> Offices[j], width |-> baseWidth] \in Item
    BY <2>1 DEF baseWidth
  <2>3. DOMAIN Offices = 1 .. Len(Offices) /\ Len(Offices) \in Nat  BY <2>1
  <2> HIDE DEF Item
  <2> QED  BY <2>2, <2>3
<1>3. Items = f \o g  BY DEF Items
<1> HIDE DEF f, g
<1>4. Items \in Seq(Item)
  <2> HIDE DEF Item
  <2> QED  BY <1>1, <1>2, <1>3
<1>5. DOMAIN Items = 1 .. Len(Items) /\ Len(Items) \in Nat
  <2> HIDE DEF Item
  <2> QED  BY <1>4
<1>6. \A j \in DOMAIN Items : Items[j] \in Item
  <2> HIDE DEF Item
  <2> QED  BY <1>4
<1> QED  BY <1>5, <1>6

(* find_gather_events returns what is collected, all of it, in the order   *)
(* of the way.                                                             *)
LEMMA EventsAreCollected ==
  ASSUME loots \in [1..2 -> LootPlaces], NEW a \in Vector, NEW b \in Vector,
         NEW events \in find_gather_events(a, b)
  PROVE  /\ events \in Seq(DOMAIN Items)
         /\ ToSet(events) = Collected(a, b)
         /\ \A m, n \in DOMAIN events : m < n =>
              Dot(Items[events[m]].position, Minus(b, a)) <= Dot(Items[events[n]].position, Minus(b, a))
<1> DEFINE C == Collected(a, b)
           k == Cardinality(C)
<1>1. C \subseteq DOMAIN Items  BY DEF Collected
<1>2. IsFiniteSet(C) /\ k \in Nat
  <2>1. IsFiniteSet(1 .. Len(Items))  BY ItemsTyped, FS_Interval
  <2>2. IsFiniteSet(C)  BY <1>1, <2>1, ItemsTyped, FS_Subset
  <2> QED  BY <2>2, FS_CardinalityType
<1>3. /\ events \in [1 .. k -> C]
      /\ \A i, j \in 1 .. k : i # j => events[i] # events[j]
      /\ \A m, n \in DOMAIN events : m < n =>
           TryCollectPoint(a, b, Items[events[m]].position).proj
             <= TryCollectPoint(a, b, Items[events[n]].position).proj
  BY DEF find_gather_events, SetToSeqs
<1> HIDE DEF C
<1>4. events \in Seq(DOMAIN Items)
  <2>1. \A i \in 1 .. k : events[i] \in DOMAIN Items  BY <1>1, <1>3
  <2> HIDE DEF k
  <2> QED  BY <1>2, <1>3, <2>1
<1>5. ToSet(events) = C
  <2>1. events \in Injection(1 .. k, C)  BY <1>3 DEF Injection, IsInjective
  <2>2. IsFiniteSet(1 .. k) /\ Cardinality(1 .. k) = k
    <3> HIDE DEF k
    <3> QED  BY <1>2, FS_Interval
  <2>3. events \in Surjection(1 .. k, C)  BY <1>2, <2>1, <2>2, FS_Injection
  <2> QED  BY <1>3, <2>3 DEF Surjection, ToSet
<1>6. ASSUME NEW m \in DOMAIN events, NEW n \in DOMAIN events, m < n
      PROVE  Dot(Items[events[m]].position, Minus(b, a)) <= Dot(Items[events[n]].position, Minus(b, a))
  <2> DEFINE c == Items[events[m]].position
             d == Items[events[n]].position
             p == Minus(b, a)
  <2>1. events[m] \in DOMAIN Items /\ events[n] \in DOMAIN Items  BY <1>1, <1>3
  <2>2. c \in Vector /\ d \in Vector /\ p \in Vector  BY <2>1, ItemsTyped, DotTyped
  <2>3. TryCollectPoint(a, b, c).proj <= TryCollectPoint(a, b, d).proj  BY <1>3, <1>6
  <2> HIDE DEF c, d
  <2>4. TryCollectPoint(a, b, c).proj = Dot(Minus(c, a), p)
        /\ TryCollectPoint(a, b, d).proj = Dot(Minus(d, a), p)
    BY DEF TryCollectPoint
  <2> HIDE DEF p
  <2>5. Dot(Minus(c, a), p) = Dot(c, p) - Dot(a, p) /\ Dot(Minus(d, a), p) = Dot(d, p) - Dot(a, p)
    BY <2>2, DotOfSums
  <2>6. Dot(a, p) \in Int /\ Dot(c, p) \in Int /\ Dot(d, p) \in Int  BY <2>2, DotTyped
  <2>7. Dot(c, p) <= Dot(d, p)  BY <2>3, <2>4, <2>5, <2>6
  <2> QED  BY <2>7 DEF c, d, p
<1> QED  BY <1>4, <1>5, <1>6 DEF C

LEMMA Displacements ==
  ASSUME NEW a \in Vector, NEW b \in Vector, NEW c \in Vector, NEW v \in Vector
  PROVE  /\ Plus(b, v) \in Vector /\ Minus(b, a) \in Vector
         /\ Minus(Plus(b, v), b) = v
         /\ Minus(Plus(b, v), a) = Plus(Minus(b, a), v)
         /\ Minus(c, b) = Minus(Minus(c, a), Minus(b, a))
         /\ Minus(a, a) = <<0, 0>>
BY DEF Vector, Plus, Minus

LEMMA CollectedHits ==
  ASSUME loots \in [1..2 -> LootPlaces], NEW a \in Vector, NEW b \in Vector,
         NEW j \in DOMAIN Items
  PROVE  j \in Collected(a, b) <=>
           a # b /\ Hit(Minus(Items[j].position, a), Minus(b, a), gathererWidth + Items[j].width)
<1>1. Items[j].position \in Vector /\ Items[j].width \in Int  BY ItemsTyped
<1>2. gathererWidth + Items[j].width \in Int  BY <1>1 DEF gathererWidth
<1> DEFINE c == Items[j].position
           r == gathererWidth + Items[j].width
<1>3. is_collected(TryCollectPoint(a, b, c), r) <=> Hit(Minus(c, a), Minus(b, a), r)
  <2> HIDE DEF c, r
  <2>1. c \in Vector /\ r \in Int  BY <1>1, <1>2 DEF c, r
  <2> QED  BY <2>1, CollectedIsHit
<1> QED  BY <1>3 DEF Collected

LEMMA CollectedInParts ==
  ASSUME loots \in [1..2 -> LootPlaces], NEW a \in Vector, NEW b \in Vector, NEW v \in Vector,
         Along(Minus(b, a), v)
  PROVE  Collected(a, Plus(b, v)) = Collected(a, b) \cup Collected(b, Plus(b, v))
<1> DEFINE p == Minus(b, a)
           q == Plus(b, v)
<1>1. /\ p \in Vector /\ q \in Vector /\ Minus(q, b) = v /\ Minus(q, a) = Plus(p, v)
      /\ Minus(a, a) = <<0, 0>> /\ Minus(b, b) = <<0, 0>>
  BY Displacements
<1>2. Dot(<<0, 0>>, <<0, 0>>) = 0  BY DEF Dot
<1>3. Dot(p, p) > 0 /\ Dot(v, v) > 0  BY <1>1, Proportion
<1>4. Dot(Plus(p, v), Plus(p, v)) > 0
  <2>1. Plus(p, v) \in Vector /\ Along(Plus(p, v), v)  BY <1>1, DotTyped, AlongFurther
  <2> QED  BY <2>1, Proportion
<1> HIDE DEF p, q
<1>5. a # b  BY <1>1, <1>2, <1>3 DEF p
<1>6. b # q  BY <1>1, <1>2, <1>3
<1>7. a # q  BY <1>1, <1>2, <1>4
<1>8. ASSUME NEW j \in DOMAIN Items
      PROVE  j \in Collected(a, q) <=> j \in Collected(a, b) \/ j \in Collected(b, q)
  <2> DEFINE c == Items[j].position
             r == gathererWidth + Items[j].width
             u == Minus(c, a)
  <2>1. c \in Vector /\ r \in Int  BY ItemsTyped DEF gathererWidth
  <2>2. j \in Collected(a, q) <=> Hit(u, Plus(p, v), r)  BY <1>1, <1>7, CollectedHits
  <2>3. j \in Collected(a, b) <=> Hit(u, p, r)  BY <1>1, <1>5, CollectedHits DEF p
  <2>4. j \in Collected(b, q) <=> Hit(Minus(c, b), v, r)  BY <1>1, <1>6, CollectedHits
  <2> HIDE DEF c, r, u
  <2>5. Minus(c, b) = Minus(u, p) /\ u \in Vector  BY <2>1, Displacements DEF u, p
  <2>6. Along(p, v)  BY DEF p
  <2>7. Hit(u, Plus(p, v), r) <=> Hit(u, p, r) \/ Hit(Minus(u, p), v, r)
    BY <1>1, <2>1, <2>5, <2>6, TwoMovesHitTheSame
  <2> QED  BY <2>2, <2>3, <2>4, <2>5, <2>7
<1>9. /\ Collected(a, q) \subseteq DOMAIN Items /\ Collected(a, b) \subseteq DOMAIN Items
      /\ Collected(b, q) \subseteq DOMAIN Items
  BY DEF Collected
<1> QED  BY <1>8, <1>9 DEF q

-----------------------------------------------------------------------------
(* The walk. *)

LEMMA GatherInit == Init => GatherInv
<1> SUFFICES ASSUME Init PROVE GatherInv  OBVIOUS
<1>1. loots \in [1..2 -> LootPlaces] /\ start = position /\ heading = <<0, 0>> /\ gathered = <<>>
  BY DEF Init
<1>2. position \in Vector /\ heading \in Vector
  BY <1>1, GatheringAssumption DEF Init, Vector
<1>3. Collected(start, position) = {}  BY <1>1 DEF Collected
<1>4. ToSet(gathered) = {} /\ DOMAIN gathered = {}  BY <1>1 DEF ToSet
<1>5. WalkGathersLikeOneMove  BY <1>3, <1>4 DEF WalkGathersLikeOneMove
<1>6. gathered \in Seq(DOMAIN Items)  BY <1>1
<1> QED  BY <1>1, <1>2, <1>5, <1>6 DEF GatherInv, Straight

(* The order in which a straight walk passes the items of two moves.       *)
LEMMA OrderKept ==
  ASSUME loots \in [1..2 -> LootPlaces],
         NEW a \in Vector, NEW b \in Vector, NEW h \in Vector, NEW v \in Vector,
         Along(Minus(b, a), h), Along(h, v),
         NEW old \in Seq(DOMAIN Items), ToSet(old) = Collected(a, b),
         \A m, n \in DOMAIN old : m < n =>
           Dot(Items[old[m]].position, h) <= Dot(Items[old[n]].position, h),
         NEW new \in Seq(DOMAIN Items), ToSet(new) = Collected(b, Plus(b, v)),
         \A m, n \in DOMAIN new : m < n =>
           Dot(Items[new[m]].position, v) <= Dot(Items[new[n]].position, v)
  PROVE  \A m, n \in DOMAIN (old \o new) : m < n =>
           Dot(Items[(old \o new)[m]].position, v) <= Dot(Items[(old \o new)[n]].position, v)
<1> DEFINE s == old \o new
           pos(j) == Items[j].position
<1>1. /\ DOMAIN s = 1 .. Len(old) + Len(new) /\ Len(old) \in Nat /\ Len(new) \in Nat
      /\ DOMAIN old = 1 .. Len(old) /\ DOMAIN new = 1 .. Len(new)
      /\ \A k \in 1 .. Len(old) : s[k] = old[k]
      /\ \A k \in 1 .. Len(old) + Len(new) : k > Len(old) =>
           s[k] = new[k - Len(old)] /\ k - Len(old) \in 1 .. Len(new)
  OBVIOUS
<1>2. \A j \in DOMAIN Items : pos(j) \in Vector  BY ItemsTyped
<1>3. ASSUME NEW j \in ToSet(old) PROVE Dot(pos(j), v) <= Dot(b, v)
  <2> DEFINE p == Minus(b, a)
             r == gathererWidth + Items[j].width
             c == pos(j)
  <2>1. j \in DOMAIN Items /\ j \in Collected(a, b)  BY <1>3 DEF Collected
  <2>2. Hit(Minus(c, a), p, r)  BY <2>1, CollectedHits
  <2>3. c \in Vector /\ p \in Vector  BY <1>2, <2>1, DotTyped
  <2>4. Along(p, v)  BY <2>3, AlongTransitive
  <2> HIDE DEF c
  <2>5. Dot(Minus(c, a), p) <= Dot(p, p)  BY <2>2 DEF Hit
  <2>6. Dot(Minus(c, a), p) = Dot(c, p) - Dot(a, p)  BY <2>3, DotOfSums
  <2>7. Dot(p, p) = Dot(b, p) - Dot(a, p)
    <3> DEFINE q == p
    <3>1. q \in Vector  BY <2>3
    <3> HIDE DEF q
    <3>2. Dot(Minus(b, a), q) = Dot(b, q) - Dot(a, q)  BY <3>1, DotOfSums
    <3> QED  BY <3>2 DEF q
  <2>8. Dot(c, p) <= Dot(b, p)
    <3>1. Dot(a, p) \in Int /\ Dot(b, p) \in Int /\ Dot(c, p) \in Int  BY <2>3, DotTyped
    <3> HIDE DEF p
    <3> QED  BY <3>1, <2>5, <2>6, <2>7
  <2> HIDE DEF p
  <2>9. Dot(c, v) <= Dot(b, v)  BY <2>3, <2>4, <2>8, AlongKeepsOrder
  <2> QED  BY <2>9 DEF c
<1>4. ASSUME NEW j \in ToSet(new) PROVE Dot(b, v) <= Dot(pos(j), v)
  <2> DEFINE r == gathererWidth + Items[j].width
             c == pos(j)
  <2>1. j \in DOMAIN Items /\ j \in Collected(b, Plus(b, v))  BY <1>4 DEF Collected
  <2>2. Plus(b, v) \in Vector /\ Minus(Plus(b, v), b) = v  BY Displacements
  <2>3. Hit(Minus(c, b), v, r)  BY <2>1, <2>2, CollectedHits
  <2>4. c \in Vector  BY <1>2, <2>1
  <2> HIDE DEF c
  <2>5. 0 <= Dot(Minus(c, b), v) /\ Dot(Minus(c, b), v) = Dot(c, v) - Dot(b, v)
    BY <2>3, <2>4, DotOfSums DEF Hit
  <2>6. Dot(c, v) \in Int /\ Dot(b, v) \in Int  BY <2>4, DotTyped
  <2>7. Dot(b, v) <= Dot(c, v)  BY <2>5, <2>6
  <2> QED  BY <2>7 DEF c
<1>5. \A k \in DOMAIN old : old[k] \in ToSet(old) /\ old[k] \in DOMAIN Items  BY DEF ToSet
<1>6. \A k \in DOMAIN new : new[k] \in ToSet(new) /\ new[k] \in DOMAIN Items  BY DEF ToSet
<1>7. ASSUME NEW k \in DOMAIN old, NEW l \in DOMAIN old, k < l
      PROVE  Dot(pos(old[k]), v) <= Dot(pos(old[l]), v)
  <2>1. Dot(pos(old[k]), h) <= Dot(pos(old[l]), h)  BY <1>7
  <2>2. pos(old[k]) \in Vector /\ pos(old[l]) \in Vector  BY <1>2, <1>5
  <2> HIDE DEF pos
  <2> QED  BY <2>1, <2>2, AlongKeepsOrder
<1> HIDE DEF s
<1>8. ASSUME NEW m \in DOMAIN s, NEW n \in DOMAIN s, m < n
      PROVE  Dot(pos(s[m]), v) <= Dot(pos(s[n]), v)
  <2>1. CASE n <= Len(old)
    <3>1. m \in DOMAIN old /\ n \in DOMAIN old /\ s[m] = old[m] /\ s[n] = old[n]
      BY <1>1, <1>8, <2>1
    <3> QED  BY <1>7, <1>8, <3>1
  <2>2. CASE m <= Len(old) /\ n > Len(old)
    <3>1. m \in DOMAIN old /\ s[m] = old[m]  BY <1>1, <1>8, <2>2
    <3>2. n - Len(old) \in DOMAIN new /\ s[n] = new[n - Len(old)]  BY <1>1, <1>8, <2>2
    <3>3. s[m] \in ToSet(old) /\ s[n] \in ToSet(new)  BY <1>5, <1>6, <3>1, <3>2
    <3>4. pos(s[m]) \in Vector /\ pos(s[n]) \in Vector  BY <1>2, <1>5, <1>6, <3>1, <3>2
    <3>5. Dot(pos(s[m]), v) <= Dot(b, v) /\ Dot(b, v) <= Dot(pos(s[n]), v)
      BY <1>3, <1>4, <3>3
    <3> HIDE DEF pos
    <3>6. Dot(pos(s[m]), v) \in Int /\ Dot(b, v) \in Int /\ Dot(pos(s[n]), v) \in Int
      BY <3>4, DotTyped
    <3> QED  BY <3>5, <3>6
  <2>3. CASE m > Len(old)
    <3>1. /\ m - Len(old) \in DOMAIN new /\ s[m] = new[m - Len(old)]
          /\ n - Len(old) \in DOMAIN new /\ s[n] = new[n - Len(old)]
          /\ m - Len(old) < n - Len(old)
      BY <1>1, <1>8, <2>3
    <3> QED  BY <3>1
  <2> QED  BY <1>1, <1>8, <2>1, <2>2, <2>3
<1> QED  BY <1>8 DEF s

LEMMA MoveGathers ==
  ASSUME GatherInv, NEW step \in Steps, Move(step)
  PROVE  GatherInv'
<1>1. /\ loots \in [1..2 -> LootPlaces] /\ start \in Vector /\ position \in Vector
      /\ heading \in Vector /\ gathered \in Seq(DOMAIN Items)
      /\ Straight /\ WalkGathersLikeOneMove
  BY DEF GatherInv
<1>2. step \in Vector  BY GatheringAssumption DEF Vector
<1>3. position' = Plus(position, step) /\ heading' = step /\ loots' = loots  BY DEF Move
<1>4. position' \in Vector /\ Minus(position', position) = step  BY <1>1, <1>2, <1>3, Displacements
<1>5. Items' = Items /\ \A a, b : Collected(a, b)' = Collected(a, b)
  BY <1>3 DEF Items, Collected
<1>6. PICK events \in find_gather_events(position, position') :
             gathered' = IF ~Along(heading, step) THEN events ELSE gathered \o events
  BY DEF Move
<1>7. /\ events \in Seq(DOMAIN Items) /\ ToSet(events) = Collected(position, position')
      /\ \A m, n \in DOMAIN events : m < n =>
           Dot(Items[events[m]].position, step) <= Dot(Items[events[n]].position, step)
  BY <1>1, <1>4, EventsAreCollected
<1>8. CASE ~Along(heading, step)
  <2>1. start' = position /\ gathered' = events  BY <1>6, <1>8 DEF Move
  <2>2. Straight'
    <3>1. CASE step # <<0, 0>>
      <4>1. Along(Minus(position', start'), heading')  BY <1>2, <1>3, <1>4, <2>1, <3>1, AlongSelf
      <4> QED  BY <4>1 DEF Straight
    <3>2. CASE step = <<0, 0>>
      <4>1. position' = position  BY <1>1, <1>3, <3>2 DEF Plus, Vector
      <4>2. Collected(position, position') = {}  BY <4>1 DEF Collected
      <4>3. events = <<>>
        <5>1. ToSet(events) = {}  BY <1>7, <4>2
        <5> QED  BY <1>7, <5>1 DEF ToSet
      <4> QED  BY <1>3, <2>1, <3>2, <4>1, <4>3 DEF Straight
    <3> QED  BY <3>1, <3>2
  <2>3. WalkGathersLikeOneMove'
    <3>1. ToSet(gathered') = Collected(start', position')  BY <1>7, <2>1
    <3>2. \A m, n \in DOMAIN gathered' : m < n =>
            Dot(Items[gathered'[m]].position, heading') <= Dot(Items[gathered'[n]].position, heading')
      BY <1>3, <1>7, <2>1
    <3> QED  BY <1>5, <3>1, <3>2 DEF WalkGathersLikeOneMove
  <2> QED  BY <1>1, <1>2, <1>3, <1>4, <1>5, <1>7, <2>1, <2>2, <2>3 DEF GatherInv
<1>9. CASE Along(heading, step)
  <2> DEFINE p == Minus(position, start)
  <2>1. start' = start /\ gathered' = gathered \o events  BY <1>6, <1>9 DEF Move
  <2>2. heading # <<0, 0>>
    <3>1. heading = <<0, 0>> => Dot(heading, step) = 0  BY <1>2 DEF Dot, Vector
    <3> QED  BY <1>9, <3>1 DEF Along
  <2>3. p \in Vector /\ Along(p, heading)  BY <1>1, <2>2, Displacements DEF Straight
  <2>4. Along(p, step)  BY <1>1, <1>2, <1>9, <2>3, AlongTransitive
  <2>5. Straight'
    <3>1. Minus(position', start') = Plus(p, step)  BY <1>1, <1>2, <1>3, <2>1, Displacements
    <3>2. Along(Plus(p, step), step)
      <4> HIDE DEF p
      <4> QED  BY <1>2, <2>3, <2>4, AlongFurther
    <3>3. Along(Minus(position', start'), heading')  BY <1>3, <3>1, <3>2
    <3> QED  BY <3>3 DEF Straight
  <2>6. gathered' \in Seq(DOMAIN Items)  BY <1>1, <1>7, <2>1
  <2>7. ToSet(gathered) = Collected(start, position)
        /\ \A m, n \in DOMAIN gathered : m < n =>
             Dot(Items[gathered[m]].position, heading) <= Dot(Items[gathered[n]].position, heading)
    BY <1>1 DEF WalkGathersLikeOneMove
  <2>8. ToSet(gathered') = Collected(start', position')
    <3>1. ToSet(gathered \o events) = ToSet(gathered) \cup ToSet(events)
      <4> DEFINE D == DOMAIN Items
      <4>1. gathered \in Seq(D) /\ events \in Seq(D)  BY <1>1, <1>7
      <4> HIDE DEF D
      <4>2. ToSet(gathered) = Range(gathered) /\ ToSet(events) = Range(events)
            /\ ToSet(gathered \o events) = Range(gathered \o events)
        BY DEF ToSet, Range
      <4> QED  BY <4>1, <4>2, RangeConcatenation
    <3>2. Collected(start, Plus(position, step))
            = Collected(start, position) \cup Collected(position, Plus(position, step))
      BY <1>1, <1>2, <2>4, CollectedInParts
    <3> QED  BY <1>3, <1>7, <2>1, <2>7, <3>1, <3>2
  <2>9. \A m, n \in DOMAIN gathered' : m < n =>
          Dot(Items[gathered'[m]].position, step) <= Dot(Items[gathered'[n]].position, step)
    <3>1. ToSet(events) = Collected(position, Plus(position, step))  BY <1>3, <1>7
    <3> QED  BY <1>1, <1>2, <1>7, <1>9, <2>1, <2>3, <2>7, <3>1, OrderKept
  <2>10. WalkGathersLikeOneMove'
    BY <1>3, <1>5, <2>8, <2>9 DEF WalkGathersLikeOneMove
  <2> QED  BY <1>1, <1>2, <1>3, <1>4, <1>5, <2>1, <2>5, <2>6, <2>10 DEF GatherInv
<1> QED  BY <1>8, <1>9

(* WalkGathersLikeOneMove, for any lengths of the moves, and any places of *)
(* loots and offices: nothing slips through find_gather_events between two *)
(* ticks, and no item is gathered that the straight walk does not pass.    *)
THEOREM CutsDoNotMatter == Spec => []WalkGathersLikeOneMove
<1>1. GatherInv /\ [Next]_vars => GatherInv'
  <2> SUFFICES ASSUME GatherInv, [Next]_vars PROVE GatherInv'  OBVIOUS
  <2>1. CASE Next  BY <2>1, MoveGathers DEF Next
  <2>2. CASE UNCHANGED vars
    BY <2>2 DEF vars, GatherInv, Straight, WalkGathersLikeOneMove, Items, Collected
  <2> QED  BY <2>1, <2>2
<1>2. GatherInv => WalkGathersLikeOneMove  BY DEF GatherInv
<1> QED  BY <1>1, <1>2, GatherInit, PTL DEF Spec
=============================================================================
