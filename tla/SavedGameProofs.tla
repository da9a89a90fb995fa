-------------------------- MODULE SavedGameProofs --------------------------
(***************************************************************************)
(* Proofs about SavedGame, for any maps, names, tokens, bag capacity, and  *)
(* numbers of loots, restarts and records, whether the archive works or    *)
(* not.                                                                    *)
(***************************************************************************)
EXTENDS SavedGame, FiniteSetTheorems, SequenceTheorems, TLAPS

(* A session, or what is saved of it, has lost and doubled no loot. *)
Conserved(s) == s.appeared = Len(s.loots) + carried(s.players) + s.gone

IdsInOrder(players) == \A k \in DOMAIN players : players[k].id = k - 1

Ordered(s) == s.player_id = Len(s.players) /\ IdsInOrder(s.players)

(* The players found expired have a record, as far as the loop has come. *)
RecordInv ==
  /\ phase = "save" => \A j \in DOMAIN expired : j <= handled => records[expired[j]] > 0
  /\ phase = "delete" => \A j \in DOMAIN expired : records[expired[j]] > 0
  /\ RetiredHaveRecords

(* What holds of the sessions holds of the saved ones. *)
SavedInv ==
  /\ TypeOK
  /\ \A i \in DOMAIN sessions : Conserved(sessions[i])
  /\ \A i \in DOMAIN file : Conserved(file[i])
  /\ retired = {} => /\ \A i \in DOMAIN sessions : Ordered(sessions[i])
                    /\ \A i \in DOMAIN file : IdsInOrder(file[i].players)
  /\ ~up => phase = "none" /\ sessions = <<>>
  /\ ~ArchiveWorks => file = <<>>
  /\ RecordInv

-----------------------------------------------------------------------------
(* Induction, over the set of the numbers for which a claim holds, and the *)
(* existence of a function that is defined by recursion.                   *)

LEMMA LeastNatural ==
  ASSUME NEW S, S \subseteq Nat, S # {}
  PROVE  Min(S) \in S /\ \A m \in S : Min(S) <= m
<1> DEFINE T == {1..n : n \in S}
           R == StrictSubsetOrdering(Nat)
<1>1. IsWellFoundedOn(R, FiniteSubsetsOf(Nat))  BY FS_StrictSubsetOrderingWellFounded
<1>2. T \subseteq FiniteSubsetsOf(Nat) /\ T # {}
  <2>1. \A n \in S : IsFiniteSet(1..n) /\ 1..n \subseteq Nat  BY FS_Interval
  <2> QED  BY <2>1 DEF FiniteSubsetsOf
<1>3. ASSUME NEW x \in T, NEW y \in T, y \subseteq x, y # x PROVE <<y, x>> \in R
  BY <1>2, <1>3 DEF StrictSubsetOrdering, FiniteSubsetsOf
<1> HIDE DEF R
<1>4. PICK x \in T : \A y \in T : ~(<<y, x>> \in R)
  <2> HIDE DEF T
  <2> QED  BY <1>1, <1>2, WFMin
<1>5. PICK n \in S : x = 1..n  OBVIOUS
<1>6. ASSUME NEW m \in S, m < n PROVE FALSE
  <2>1. 1..m \subseteq x /\ 1..m # x  BY <1>5, <1>6
  <2> QED  BY <2>1, <1>3, <1>4
<1>7. \A m \in S : n <= m  BY <1>6
<1> QED  BY <1>7 DEF Min

LEMMA UpToInduction ==
  ASSUME NEW n \in Nat, NEW S, 0 \in S, \A k \in 1 .. n : k - 1 \in S => k \in S
  PROVE  0 .. n \subseteq S
<1> DEFINE B == (0 .. n) \ S
<1> SUFFICES ASSUME B # {} PROVE FALSE  OBVIOUS
<1>1. B \subseteq Nat  OBVIOUS
<1>2. Min(B) \in B /\ \A m \in B : Min(B) <= m
  <2> HIDE DEF B
  <2> QED  BY <1>1, LeastNatural
<1>3. PICK m \in B : \A l \in B : m <= l  BY <1>2
<1>4. m \in 1 .. n /\ m - 1 \in 0 .. n  OBVIOUS
<1>5. m - 1 \in S  BY <1>3, <1>4
<1> QED  BY <1>4, <1>5

HasRecursion(S, base, n, G) ==
  \E f \in [0 .. n -> S] : f[0] = base /\ \A k \in 1 .. n : f[k] = G[k][f[k - 1]]

LEMMA RecursionExists ==
  ASSUME NEW S, NEW base \in S, NEW n \in Nat, NEW G \in [1 .. n -> [S -> S]]
  PROVE  HasRecursion(S, base, n, G)
<1> DEFINE Good(m) == \E f \in [0 .. m -> S] :
                        f[0] = base /\ \A k \in 1 .. m : f[k] = G[k][f[k - 1]]
           M == {m \in 0 .. n : Good(m)}
<1>1. 0 \in M
  <2> DEFINE f == [k \in 0 .. 0 |-> base]
  <2>1. f \in [0 .. 0 -> S] /\ f[0] = base /\ 1 .. 0 = {}  OBVIOUS
  <2> HIDE DEF f
  <2>2. Good(0)  BY <2>1
  <2> QED  BY <2>2
<1>2. ASSUME NEW m \in 1 .. n, m - 1 \in M PROVE m \in M
  <2>1. PICK f \in [0 .. m - 1 -> S] :
               f[0] = base /\ \A k \in 1 .. m - 1 : f[k] = G[k][f[k - 1]]
    BY <1>2
  <2> DEFINE g == [k \in 0 .. m |-> IF k = m THEN G[m][f[m - 1]] ELSE f[k]]
  <2>2. g \in [0 .. m -> S]
    <3>1. G[m] \in [S -> S] /\ f[m - 1] \in S  OBVIOUS
    <3>2. G[m][f[m - 1]] \in S  BY <3>1
    <3>3. \A k \in 0 .. m : k # m => k \in 0 .. m - 1  OBVIOUS
    <3> QED  BY <3>2, <3>3
  <2>3. g[0] = base  BY <2>1
  <2>4. ASSUME NEW k \in 1 .. m PROVE g[k] = G[k][g[k - 1]]
    <3>1. g[k - 1] = f[k - 1]  OBVIOUS
    <3>2. CASE k = m  BY <3>1, <3>2
    <3>3. CASE k # m  BY <2>1, <3>1, <3>3
    <3> QED  BY <3>2, <3>3
  <2> HIDE DEF g
  <2>5. Good(m)  BY <2>2, <2>3, <2>4
  <2> HIDE DEF Good
  <2>6. m \in 0 .. n  OBVIOUS
  <2> QED  BY <2>5, <2>6
<1> HIDE DEF M
<1>3. 0 .. n \subseteq M  BY <1>1, <1>2, UpToInduction
<1>4. n \in M  BY <1>3
<1> QED  BY <1>4 DEF M, HasRecursion

-----------------------------------------------------------------------------
(* Sequences. *)

(* Taking element j out of a sequence shifts the elements behind it. *)
LEMMA RemoveAtElements ==
  ASSUME NEW S, NEW s \in Seq(S), NEW j \in 1 .. Len(s)
  PROVE  /\ RemoveAt(s, j) \in Seq(S)
         /\ Len(RemoveAt(s, j)) = Len(s) - 1
         /\ \A i \in 1 .. Len(s) - 1 :
              RemoveAt(s, j)[i] = IF i < j THEN s[i] ELSE s[i + 1]
<1> DEFINE a == SubSeq(s, 1, j - 1)
           b == SubSeq(s, j + 1, Len(s))
<1>0. Len(s) \in Nat /\ j \in Nat
  OBVIOUS
<1>1. /\ a \in Seq(S)
      /\ Len(a) = j - 1
      /\ \A i \in 1 .. j - 1 : a[i] = s[i]
  <2>1. /\ a \in Seq(S)
        /\ Len(a) = IF 1 <= j - 1 THEN j - 1 - 1 + 1 ELSE 0
        /\ \A i \in 1 .. j - 1 - 1 + 1 : a[i] = s[1 + i - 1]
    BY <1>0, SubSeqProperties
  <2> HIDE DEF a
  <2> QED BY <2>1, <1>0
<1>2. /\ b \in Seq(S)
      /\ Len(b) = Len(s) - j
      /\ \A i \in 1 .. Len(s) - j : b[i] = s[i + j]
  <2>1. /\ b \in Seq(S)
        /\ Len(b) = IF j + 1 <= Len(s) THEN Len(s) - (j + 1) + 1 ELSE 0
        /\ \A i \in 1 .. Len(s) - (j + 1) + 1 : b[i] = s[j + 1 + i - 1]
    BY <1>0, SubSeqProperties
  <2> HIDE DEF b
  <2> QED BY <2>1, <1>0
<1> HIDE DEF a, b
<1>3. /\ a \o b \in Seq(S)
      /\ Len(a \o b) = Len(a) + Len(b)
      /\ \A i \in 1 .. Len(a) + Len(b) :
           (a \o b)[i] = IF i <= Len(a) THEN a[i] ELSE b[i - Len(a)]
  BY <1>1, <1>2, ConcatProperties
<1>4. ASSUME NEW i \in 1 .. Len(s) - 1
      PROVE  (a \o b)[i] = IF i < j THEN s[i] ELSE s[i + 1]
  <2>1. CASE i < j
    BY <1>1, <1>2, <1>3, <2>1
  <2>2. CASE ~(i < j)
    <3>1. i - (j - 1) \in 1 .. Len(s) - j
      BY <2>2
    <3>2. b[i - (j - 1)] = s[i - (j - 1) + j]
      BY <1>2, <3>1
    <3>3. (a \o b)[i] = b[i - (j - 1)]
      BY <1>1, <1>2, <1>3, <2>2
    <3>4. i - (j - 1) + j = i + 1
      BY <1>0
    <3>5. (a \o b)[i] = s[i + 1]
      BY <3>2, <3>3, <3>4, Zenon
    <3> QED BY <3>5, <2>2, <1>0
  <2> QED BY <2>1, <2>2
<1>5. RemoveAt(s, j) = a \o b
  BY DEF RemoveAt, a, b
<1>6. Len(a \o b) = Len(s) - 1
  BY <1>0, <1>1, <1>2, <1>3
<1> QED BY <1>3, <1>4, <1>5, <1>6

LEMMA RemoveFirstShortens ==
  ASSUME NEW S, NEW s \in Seq(S), NEW e \in ToSet(s)
  PROVE  RemoveFirst(s, e) \in Seq(S) /\ Len(RemoveFirst(s, e)) = Len(s) - 1
<1> DEFINE I == {i \in 1 .. Len(s) : s[i] = e}
<1>1. I \subseteq Nat /\ I # {}  BY DEF ToSet
<1>2. Min(I) \in I  BY <1>1, LeastNatural
<1>3. RemoveFirst(s, e) = RemoveAt(s, Min(I))
  <2>1. SelectInSeq(s, LAMBDA v : v = e) = Min(I)  BY <1>1 DEF SelectInSeq
  <2>2. \E i \in 1 .. Len(s) : s[i] = e  BY <1>1
  <2> QED  BY <2>1, <2>2 DEF RemoveFirst
<1> QED  BY <1>2, <1>3, RemoveAtElements

-----------------------------------------------------------------------------
(* How many loots are carried. *)

LEMMA SumExists ==
  ASSUME NEW n \in Nat, NEW w \in [1 .. n -> Nat]
  PROVE  \E f \in [0 .. n -> Nat] : f[0] = 0 /\ \A k \in 1 .. n : f[k] = f[k - 1] + w[k]
<1> DEFINE G == [k \in 1 .. n |-> [x \in Nat |-> x + w[k]]]
<1>1. G \in [1 .. n -> [Nat -> Nat]]  OBVIOUS
<1>2. \A k \in 1 .. n : \A x \in Nat : G[k][x] = x + w[k]  OBVIOUS
<1> HIDE DEF G
<1>3. PICK f \in [0 .. n -> Nat] : f[0] = 0 /\ \A k \in 1 .. n : f[k] = G[k][f[k - 1]]
  <2>1. 0 \in Nat  OBVIOUS
  <2>2. HasRecursion(Nat, 0, n, G)  BY <1>1, <2>1, RecursionExists
  <2> QED  BY <2>2 DEF HasRecursion
<1>4. \A k \in 1 .. n : f[k - 1] \in Nat  OBVIOUS
<1> QED  BY <1>2, <1>3, <1>4

CarriedUpTo(players) ==
  CHOOSE g : g = [k \in 0 .. Len(players) |->
                    IF k = 0 THEN 0 ELSE g[k - 1] + Len(players[k].bag)]

LEMMA CarriedDef ==
  ASSUME NEW ps \in Seq(Player)
  PROVE  /\ carried(ps) = CarriedUpTo(ps)[Len(ps)]
         /\ CarriedUpTo(ps) \in [0 .. Len(ps) -> Nat]
         /\ CarriedUpTo(ps)[0] = 0
         /\ \A k \in 1 .. Len(ps) :
              CarriedUpTo(ps)[k] = CarriedUpTo(ps)[k - 1] + Len(ps[k].bag)
<1> DEFINE w == [k \in 1 .. Len(ps) |-> Len(ps[k].bag)]
<1>1. carried(ps) = CarriedUpTo(ps)[Len(ps)]  BY DEF carried, CarriedUpTo
<1>2. w \in [1 .. Len(ps) -> Nat]
  <2>1. \A k \in 1 .. Len(ps) : ps[k] \in Player  OBVIOUS
  <2> QED  BY <2>1 DEF Player
<1>3. \A k \in 1 .. Len(ps) : w[k] = Len(ps[k].bag)  OBVIOUS
<1> HIDE DEF w
<1>4. Len(ps) \in Nat  OBVIOUS
<1>5. PICK f \in [0 .. Len(ps) -> Nat] :
             f[0] = 0 /\ \A k \in 1 .. Len(ps) : f[k] = f[k - 1] + w[k]
  BY <1>2, <1>4, SumExists
<1>6. f = [k \in 0 .. Len(ps) |-> IF k = 0 THEN 0 ELSE f[k - 1] + Len(ps[k].bag)]
  BY <1>3, <1>4, <1>5
<1> DEFINE c == CarriedUpTo(ps)
<1>7. c = [k \in 0 .. Len(ps) |-> IF k = 0 THEN 0 ELSE c[k - 1] + Len(ps[k].bag)]
  BY <1>6 DEF CarriedUpTo
<1> HIDE DEF c
<1>8. c[0] = 0 /\ \A k \in 1 .. Len(ps) : c[k] = c[k - 1] + Len(ps[k].bag)
  BY <1>4, <1>7
<1>9. \A k \in 0 .. Len(ps) : c[k] \in Nat
  <2> DEFINE M == {k \in 0 .. Len(ps) : c[k] \in Nat}
  <2>1. 0 \in M  BY <1>4, <1>8
  <2>2. ASSUME NEW k \in 1 .. Len(ps), k - 1 \in M PROVE k \in M
    <3>1. c[k - 1] \in Nat /\ w[k] \in Nat  BY <1>2, <2>2
    <3>2. c[k] = c[k - 1] + w[k]  BY <1>3, <1>8
    <3>3. k \in 0 .. Len(ps)  BY <1>4
    <3> QED  BY <3>1, <3>2, <3>3
  <2> HIDE DEF M
  <2>3. 0 .. Len(ps) \subseteq M  BY <1>4, <2>1, <2>2, UpToInduction
  <2> QED  BY <2>3 DEF M
<1>10. c \in [0 .. Len(ps) -> Nat]  BY <1>7, <1>9
<1> QED  BY <1>1, <1>8, <1>10 DEF c

LEMMA CarriedNat ==
  ASSUME NEW ps \in Seq(Player)
  PROVE  carried(ps) \in Nat
<1>1. Len(ps) \in 0 .. Len(ps)  OBVIOUS
<1> QED  BY <1>1, CarriedDef

LEMMA CarriedNone == carried(<<>>) = 0
<1>1. <<>> \in Seq(Player) /\ Len(<<>>) = 0  OBVIOUS
<1> QED  BY <1>1, CarriedDef

LEMMA CarriedAppend ==
  ASSUME NEW ps \in Seq(Player), NEW p \in Player
  PROVE  carried(Append(ps, p)) = carried(ps) + Len(p.bag)
<1> DEFINE qs == Append(ps, p)
           n == Len(ps)
           c == CarriedUpTo(ps)
           d == CarriedUpTo(qs)
           M == {k \in 0 .. n : d[k] = c[k]}
<1>1. /\ qs \in Seq(Player) /\ Len(qs) = n + 1 /\ n \in Nat
      /\ qs[n + 1] = p
      /\ \A k \in 1 .. n : qs[k] = ps[k]
  OBVIOUS
<1> HIDE DEF qs
<1>2. /\ c[0] = 0 /\ carried(ps) = c[n]
      /\ \A k \in 1 .. n : c[k] = c[k - 1] + Len(ps[k].bag)
  BY CarriedDef
<1>3. /\ d[0] = 0 /\ carried(qs) = d[n + 1]
      /\ \A k \in 1 .. n + 1 : d[k] = d[k - 1] + Len(qs[k].bag)
  BY <1>1, CarriedDef
<1> HIDE DEF c, d, n
<1>4. 0 \in M  BY <1>1, <1>2, <1>3
<1>5. ASSUME NEW k \in 1 .. n, k - 1 \in M PROVE k \in M
  <2>1. k \in 0 .. n /\ k \in 1 .. n + 1  BY <1>1
  <2>2. d[k - 1] = c[k - 1]  BY <1>5
  <2>3. d[k] = d[k - 1] + Len(qs[k].bag) /\ qs[k] = ps[k]  BY <1>1, <1>3, <2>1
  <2>4. c[k] = c[k - 1] + Len(ps[k].bag)  BY <1>2
  <2> QED  BY <2>1, <2>2, <2>3, <2>4
<1>6. d[n] = c[n]
  <2> HIDE DEF M
  <2>1. 0 .. n \subseteq M  BY <1>1, <1>4, <1>5, UpToInduction
  <2> QED  BY <2>1, <1>1 DEF M
<1>7. d[n + 1] = d[n] + Len(p.bag)  BY <1>1, <1>3
<1> QED  BY <1>2, <1>3, <1>6, <1>7 DEF qs

LEMMA CarriedExcept ==
  ASSUME NEW ps \in Seq(Player), NEW i \in 1 .. Len(ps), NEW p \in Player
  PROVE  carried([ps EXCEPT ![i] = p]) = carried(ps) - Len(ps[i].bag) + Len(p.bag)
<1> DEFINE qs == [ps EXCEPT ![i] = p]
           n == Len(ps)
           c == CarriedUpTo(ps)
           d == CarriedUpTo(qs)
           M == {k \in 0 .. n :
                   d[k] = IF k < i THEN c[k] ELSE c[k] - Len(ps[i].bag) + Len(p.bag)}
<1>1. /\ qs \in Seq(Player) /\ Len(qs) = n /\ n \in Nat
      /\ \A k \in 1 .. n : qs[k] = IF k = i THEN p ELSE ps[k]
      /\ Len(p.bag) \in Nat
      /\ \A k \in 1 .. n : Len(ps[k].bag) \in Nat
  <2>1. \A k \in 1 .. n : ps[k] \in Player  OBVIOUS
  <2> QED  BY <2>1 DEF Player
<1> HIDE DEF qs
<1>2. /\ c \in [0 .. n -> Nat] /\ c[0] = 0 /\ carried(ps) = c[n]
      /\ \A k \in 1 .. n : c[k] = c[k - 1] + Len(ps[k].bag)
  BY CarriedDef
<1>3. /\ d[0] = 0 /\ carried(qs) = d[n]
      /\ \A k \in 1 .. n : d[k] = d[k - 1] + Len(qs[k].bag)
  BY <1>1, CarriedDef
<1> HIDE DEF c, d, n
<1>4. 0 \in M  BY <1>1, <1>2, <1>3 DEF n
<1>5. ASSUME NEW k \in 1 .. n, k - 1 \in M PROVE k \in M
  <2>1. i \in 1 .. n  BY DEF n
  <2>2. /\ d[k - 1] = IF k - 1 < i THEN c[k - 1] ELSE c[k - 1] - Len(ps[i].bag) + Len(p.bag)
        /\ d[k] = d[k - 1] + Len(qs[k].bag)
        /\ c[k] = c[k - 1] + Len(ps[k].bag)
        /\ c[k - 1] \in Nat /\ k \in 0 .. n
    <3>1. k \in 0 .. n /\ k - 1 \in 0 .. n  BY <1>1
    <3>2. d[k - 1] = IF k - 1 < i THEN c[k - 1] ELSE c[k - 1] - Len(ps[i].bag) + Len(p.bag)
      BY <1>5
    <3>3. d[k] = d[k - 1] + Len(qs[k].bag) /\ c[k] = c[k - 1] + Len(ps[k].bag)
      BY <1>2, <1>3
    <3> QED  BY <1>2, <3>1, <3>2, <3>3
  <2>3. CASE k < i  BY <1>1, <2>2, <2>3
  <2>4. CASE k = i  BY <1>1, <2>1, <2>2, <2>4
  <2>5. CASE k > i
    <3>1. d[k] = c[k - 1] - Len(ps[i].bag) + Len(p.bag) + Len(ps[k].bag)
      BY <1>1, <2>1, <2>2, <2>5
    <3>2. Len(ps[i].bag) \in Nat /\ Len(ps[k].bag) \in Nat  BY <1>1, <2>1
    <3>3. d[k] = c[k] - Len(ps[i].bag) + Len(p.bag)
      <4> DEFINE w == c[k - 1]
                 x == Len(ps[i].bag)
                 y == Len(p.bag)
                 z == Len(ps[k].bag)
      <4>1. w \in Nat /\ x \in Nat /\ y \in Nat /\ z \in Nat  BY <1>1, <2>2, <3>2
      <4>2. d[k] = w - x + y + z /\ c[k] = w + z  BY <2>2, <3>1
      <4> HIDE DEF w, x, y, z
      <4>3. d[k] = c[k] - x + y  BY <4>1, <4>2
      <4> QED  BY <4>3 DEF x, y
    <3>4. ~(k < i)  BY <1>1, <2>1, <2>5
    <3> QED  BY <2>2, <3>3, <3>4
  <2> QED  BY <2>1, <2>3, <2>4, <2>5
<1>6. n \in M
  <2> HIDE DEF M
  <2>1. 0 .. n \subseteq M  BY <1>1, <1>4, <1>5, UpToInduction
  <2> QED  BY <2>1, <1>1
<1>7. i <= n  BY DEF n
<1> QED  BY <1>1, <1>2, <1>3, <1>6, <1>7 DEF qs

LEMMA CarriedRemoveAt ==
  ASSUME NEW ps \in Seq(Player), NEW i \in 1 .. Len(ps)
  PROVE  carried(RemoveAt(ps, i)) = carried(ps) - Len(ps[i].bag)
<1> DEFINE qs == RemoveAt(ps, i)
           n == Len(ps)
           c == CarriedUpTo(ps)
           d == CarriedUpTo(qs)
           M == {k \in 0 .. n - 1 :
                   d[k] = IF k < i THEN c[k] ELSE c[k + 1] - Len(ps[i].bag)}
<1>1. /\ qs \in Seq(Player) /\ Len(qs) = n - 1 /\ n \in Nat /\ n > 0
      /\ \A k \in 1 .. n - 1 : qs[k] = IF k < i THEN ps[k] ELSE ps[k + 1]
  <2>1. n \in Nat /\ n > 0  OBVIOUS
  <2>2. /\ qs \in Seq(Player) /\ Len(qs) = n - 1
        /\ \A k \in 1 .. n - 1 : qs[k] = IF k < i THEN ps[k] ELSE ps[k + 1]
    BY RemoveAtElements
  <2> QED  BY <2>1, <2>2
<1>0. \A k \in 1 .. n : Len(ps[k].bag) \in Nat
  <2>1. \A k \in 1 .. n : ps[k] \in Player  OBVIOUS
  <2> QED  BY <2>1 DEF Player
<1> HIDE DEF qs
<1>2. /\ c \in [0 .. n -> Nat] /\ c[0] = 0 /\ carried(ps) = c[n]
      /\ \A k \in 1 .. n : c[k] = c[k - 1] + Len(ps[k].bag)
  BY CarriedDef
<1>3. /\ d[0] = 0 /\ carried(qs) = d[n - 1]
      /\ \A k \in 1 .. n - 1 : d[k] = d[k - 1] + Len(qs[k].bag)
  BY <1>1, CarriedDef
<1>4. i \in 1 .. n  OBVIOUS
<1> HIDE DEF c, d, n
<1>5. 0 \in M  BY <1>1, <1>2, <1>3, <1>4
<1>6. ASSUME NEW k \in 1 .. n - 1, k - 1 \in M PROVE k \in M
  <2>1. /\ d[k - 1] = IF k - 1 < i THEN c[k - 1] ELSE c[k - 1 + 1] - Len(ps[i].bag)
        /\ d[k] = d[k - 1] + Len(qs[k].bag)
        /\ qs[k] = IF k < i THEN ps[k] ELSE ps[k + 1]
    BY <1>1, <1>3, <1>6
  <2>2. /\ c[k] = c[k - 1] + Len(ps[k].bag)
        /\ c[k + 1] = c[k] + Len(ps[k + 1].bag)
        /\ c[k - 1] \in Nat /\ c[k] \in Nat
    <3>1. k \in 1 .. n /\ k + 1 \in 1 .. n /\ k - 1 \in 0 .. n /\ k \in 0 .. n
          /\ (k + 1) - 1 = k
      BY <1>1
    <3> QED  BY <1>2, <3>1
  <2>3. k - 1 + 1 = k /\ k \in 0 .. n - 1  BY <1>1
  <2>4. Len(ps[k].bag) \in Nat /\ Len(ps[k + 1].bag) \in Nat /\ Len(ps[i].bag) \in Nat
    BY <1>0, <1>1, <1>4
  <2>5. CASE k < i
    <3>1. d[k] = c[k]  BY <2>1, <2>2, <2>5
    <3> QED  BY <3>1, <2>3, <2>5
  <2>6. CASE k = i
    <3>1. d[k] = c[k - 1] + Len(ps[k + 1].bag)  BY <2>1, <2>6
    <3>2. c[k + 1] = c[k - 1] + Len(ps[i].bag) + Len(ps[k + 1].bag)  BY <2>2, <2>4, <2>6
    <3>3. d[k] = c[k + 1] - Len(ps[i].bag)
      <4> DEFINE x == c[k - 1]
                 y == Len(ps[i].bag)
                 z == Len(ps[k + 1].bag)
      <4>1. x \in Nat /\ y \in Nat /\ z \in Nat  BY <2>2, <2>4
      <4>2. d[k] = x + z /\ c[k + 1] = x + y + z  BY <3>1, <3>2
      <4> HIDE DEF x, y, z
      <4>3. d[k] = c[k + 1] - y  BY <4>1, <4>2
      <4> QED  BY <4>3 DEF y
    <3> QED  BY <3>3, <2>3, <2>6
  <2>7. CASE k > i
    <3>1. d[k] = c[k] - Len(ps[i].bag) + Len(ps[k + 1].bag)  BY <2>1, <2>3, <2>7, <1>4
    <3>2. d[k] = c[k + 1] - Len(ps[i].bag)  BY <3>1, <2>2, <2>4
    <3> QED  BY <3>2, <2>3, <2>7, <1>4
  <2> QED  BY <2>5, <2>6, <2>7, <1>4
<1>7. n - 1 \in M
  <2> HIDE DEF M
  <2>1. n - 1 \in Nat  BY <1>1
  <2>2. 0 .. n - 1 \subseteq M  BY <2>1, <1>5, <1>6, UpToInduction
  <2> QED  BY <2>1, <2>2
<1>8. (n - 1) + 1 = n  BY <1>1
<1>9. CASE n - 1 < i
  <2>1. i = n  BY <1>1, <1>4, <1>9
  <2>2. d[n - 1] = c[n - 1] /\ c[n] = c[n - 1] + Len(ps[n].bag)  BY <1>1, <1>2, <1>7, <1>9
  <2>3. c[n - 1] \in Nat /\ Len(ps[n].bag) \in Nat  BY <1>0, <1>1, <1>2
  <2> QED  BY <2>1, <2>2, <2>3, <1>2, <1>3 DEF qs
<1>10. CASE ~(n - 1 < i)  BY <1>2, <1>3, <1>7, <1>8, <1>10 DEF qs
<1> QED  BY <1>9, <1>10

-----------------------------------------------------------------------------
(* Who has expired, and which sessions are kept. *)

IdleUpTo(players) ==
  CHOOSE g : g = [k \in 0 .. Len(players) |->
                    IF k = 0 THEN <<>>
                    ELSE IF players[k].idle THEN Append(g[k - 1], players[k].token) ELSE g[k - 1]]

LEMMA IdleTokensAreTokens ==
  ASSUME NEW ps \in Seq(Player)
  PROVE  idle_tokens(ps) \in Seq(Tokens)
<1> DEFINE G == [k \in 1 .. Len(ps) |-> [x \in Seq(Tokens) |->
                   IF ps[k].idle THEN Append(x, ps[k].token) ELSE x]]
<1>1. Len(ps) \in Nat /\ <<>> \in Seq(Tokens)  OBVIOUS
<1>2. \A k \in 1 .. Len(ps) : ps[k].token \in Tokens
  <2>1. \A k \in 1 .. Len(ps) : ps[k] \in Player  OBVIOUS
  <2> QED  BY <2>1 DEF Player
<1>3. G \in [1 .. Len(ps) -> [Seq(Tokens) -> Seq(Tokens)]]  BY <1>2
<1>4. \A k \in 1 .. Len(ps) : \A x \in Seq(Tokens) :
        G[k][x] = IF ps[k].idle THEN Append(x, ps[k].token) ELSE x
  OBVIOUS
<1> HIDE DEF G
<1>5. HasRecursion(Seq(Tokens), <<>>, Len(ps), G)  BY <1>1, <1>3, RecursionExists
<1>6. PICK f \in [0 .. Len(ps) -> Seq(Tokens)] :
             f[0] = <<>> /\ \A k \in 1 .. Len(ps) : f[k] = G[k][f[k - 1]]
  BY <1>5 DEF HasRecursion
<1>7. \A k \in 1 .. Len(ps) :
        f[k] = IF ps[k].idle THEN Append(f[k - 1], ps[k].token) ELSE f[k - 1]
  <2>1. \A k \in 1 .. Len(ps) : f[k - 1] \in Seq(Tokens)  BY <1>1
  <2> QED  BY <1>4, <1>6, <2>1
<1>8. f = [k \in 0 .. Len(ps) |->
             IF k = 0 THEN <<>>
             ELSE IF ps[k].idle THEN Append(f[k - 1], ps[k].token) ELSE f[k - 1]]
  <2> DEFINE step(k) == IF ps[k].idle THEN Append(f[k - 1], ps[k].token) ELSE f[k - 1]
  <2>1. \A k \in 1 .. Len(ps) : f[k] = step(k)  BY <1>7
  <2> HIDE DEF step
  <2>2. f = [k \in 0 .. Len(ps) |-> IF k = 0 THEN <<>> ELSE step(k)]
    BY <1>1, <1>6, <2>1
  <2> QED  BY <2>2 DEF step
<1> DEFINE c == IdleUpTo(ps)
<1>9. c = [k \in 0 .. Len(ps) |->
             IF k = 0 THEN <<>>
             ELSE IF ps[k].idle THEN Append(c[k - 1], ps[k].token) ELSE c[k - 1]]
  BY <1>8 DEF IdleUpTo
<1>10. idle_tokens(ps) = c[Len(ps)]  BY DEF idle_tokens, IdleUpTo
<1> HIDE DEF c
<1> DEFINE M == {k \in 0 .. Len(ps) : c[k] \in Seq(Tokens)}
<1>11. 0 \in M  BY <1>1, <1>9
<1>12. ASSUME NEW k \in 1 .. Len(ps), k - 1 \in M PROVE k \in M
  <2>1. k \in 0 .. Len(ps) /\ k # 0  BY <1>1
  <2>2. c[k] = IF ps[k].idle THEN Append(c[k - 1], ps[k].token) ELSE c[k - 1]
    BY <1>9, <2>1
  <2>3. c[k - 1] \in Seq(Tokens)  BY <1>12
  <2>4. Append(c[k - 1], ps[k].token) \in Seq(Tokens)  BY <1>2, <2>3
  <2>5. c[k] \in Seq(Tokens)  BY <2>2, <2>3, <2>4
  <2> QED  BY <2>1, <2>5
<1> HIDE DEF M
<1>13. 0 .. Len(ps) \subseteq M  BY <1>1, <1>11, <1>12, UpToInduction
<1>14. Len(ps) \in M  BY <1>1, <1>13
<1> QED  BY <1>10, <1>14 DEF M

WithPlayersUpTo(ss) ==
  CHOOSE g : g = [i \in 0 .. Len(ss) |->
                    IF i = 0 THEN <<>>
                    ELSE IF ss[i].players # <<>> THEN Append(g[i - 1], ss[i]) ELSE g[i - 1]]

LEMMA WithPlayersAreOfTheSame ==
  ASSUME NEW T, NEW ss \in Seq(T)
  PROVE  with_players(ss) \in Seq(T)
<1> DEFINE G == [k \in 1 .. Len(ss) |-> [x \in Seq(T) |->
                   IF ss[k].players # <<>> THEN Append(x, ss[k]) ELSE x]]
<1>1. Len(ss) \in Nat /\ <<>> \in Seq(T)  OBVIOUS
<1>2. \A k \in 1 .. Len(ss) : ss[k] \in T  OBVIOUS
<1>3. G \in [1 .. Len(ss) -> [Seq(T) -> Seq(T)]]  BY <1>2
<1>4. \A k \in 1 .. Len(ss) : \A x \in Seq(T) :
        G[k][x] = IF ss[k].players # <<>> THEN Append(x, ss[k]) ELSE x
  OBVIOUS
<1> HIDE DEF G
<1>5. HasRecursion(Seq(T), <<>>, Len(ss), G)  BY <1>1, <1>3, RecursionExists
<1>6. PICK f \in [0 .. Len(ss) -> Seq(T)] :
             f[0] = <<>> /\ \A k \in 1 .. Len(ss) : f[k] = G[k][f[k - 1]]
  BY <1>5 DEF HasRecursion
<1>7. \A k \in 1 .. Len(ss) :
        f[k] = IF ss[k].players # <<>> THEN Append(f[k - 1], ss[k]) ELSE f[k - 1]
  <2>1. \A k \in 1 .. Len(ss) : f[k - 1] \in Seq(T)  BY <1>1
  <2> QED  BY <1>4, <1>6, <2>1
<1>8. f = [k \in 0 .. Len(ss) |->
             IF k = 0 THEN <<>>
             ELSE IF ss[k].players # <<>> THEN Append(f[k - 1], ss[k]) ELSE f[k - 1]]
  <2> DEFINE step(k) == IF ss[k].players # <<>> THEN Append(f[k - 1], ss[k]) ELSE f[k - 1]
  <2>1. \A k \in 1 .. Len(ss) : f[k] = step(k)  BY <1>7
  <2> HIDE DEF step
  <2>2. f = [k \in 0 .. Len(ss) |-> IF k = 0 THEN <<>> ELSE step(k)]
    BY <1>1, <1>6, <2>1
  <2> QED  BY <2>2 DEF step
<1> DEFINE c == WithPlayersUpTo(ss)
<1>9. c = [k \in 0 .. Len(ss) |->
             IF k = 0 THEN <<>>
             ELSE IF ss[k].players # <<>> THEN Append(c[k - 1], ss[k]) ELSE c[k - 1]]
  BY <1>8 DEF WithPlayersUpTo
<1>10. with_players(ss) = c[Len(ss)]  BY DEF with_players, WithPlayersUpTo
<1> HIDE DEF c
<1> DEFINE M == {k \in 0 .. Len(ss) : c[k] \in Seq(T)}
<1>11. 0 \in M  BY <1>1, <1>9
<1>12. ASSUME NEW k \in 1 .. Len(ss), k - 1 \in M PROVE k \in M
  <2>1. k \in 0 .. Len(ss) /\ k # 0  BY <1>1
  <2>2. c[k] = IF ss[k].players # <<>> THEN Append(c[k - 1], ss[k]) ELSE c[k - 1]
    BY <1>9, <2>1
  <2>3. c[k - 1] \in Seq(T)  BY <1>12
  <2>4. Append(c[k - 1], ss[k]) \in Seq(T)  BY <1>2, <2>3
  <2>5. c[k] \in Seq(T)  BY <2>2, <2>3, <2>4
  <2> QED  BY <2>1, <2>5
<1> HIDE DEF M
<1>13. 0 .. Len(ss) \subseteq M  BY <1>1, <1>11, <1>12, UpToInduction
<1>14. Len(ss) \in M  BY <1>1, <1>13
<1> QED  BY <1>10, <1>14 DEF M

FlattenUpTo(ss) ==
  CHOOSE g : g = [i \in 1 .. Len(ss) |-> IF i = 1 THEN ss[i] ELSE g[i - 1] \o ss[i]]

LEMMA FlattenSeqElements ==
  ASSUME NEW T, NEW ss \in Seq(Seq(T))
  PROVE  FlattenSeq(ss) \in Seq(T)
<1>1. CASE Len(ss) = 0
  <2>1. ss = <<>>  BY <1>1
  <2> QED  BY <1>1, <2>1 DEF FlattenSeq
<1>2. CASE Len(ss) # 0
  <2> DEFINE G == [k \in 1 .. Len(ss) - 1 |-> [x \in Seq(T) |-> x \o ss[k + 1]]]
  <2>1. Len(ss) \in Nat /\ Len(ss) - 1 \in Nat  BY <1>2
  <2>2. \A k \in 1 .. Len(ss) : ss[k] \in Seq(T)  OBVIOUS
  <2>3. G \in [1 .. Len(ss) - 1 -> [Seq(T) -> Seq(T)]]
    <3>1. \A k \in 1 .. Len(ss) - 1 : ss[k + 1] \in Seq(T)  BY <2>1, <2>2
    <3> QED  BY <3>1
  <2>4. \A k \in 1 .. Len(ss) - 1 : \A x \in Seq(T) : G[k][x] = x \o ss[k + 1]  OBVIOUS
  <2>5. ss[1] \in Seq(T)  BY <2>1, <2>2
  <2> HIDE DEF G
  <2>6. HasRecursion(Seq(T), ss[1], Len(ss) - 1, G)  BY <2>1, <2>3, <2>5, RecursionExists
  <2>7. PICK f \in [0 .. Len(ss) - 1 -> Seq(T)] :
               f[0] = ss[1] /\ \A k \in 1 .. Len(ss) - 1 : f[k] = G[k][f[k - 1]]
    BY <2>6 DEF HasRecursion
  <2>8. \A k \in 1 .. Len(ss) - 1 : f[k] = f[k - 1] \o ss[k + 1]
    <3>1. \A k \in 1 .. Len(ss) - 1 : f[k - 1] \in Seq(T)
      <4>1. \A k \in 1 .. Len(ss) - 1 : k - 1 \in 0 .. Len(ss) - 1  BY <2>1
      <4> QED  BY <2>7, <4>1
    <3> QED  BY <2>4, <2>7, <3>1
  <2> DEFINE h == [i \in 1 .. Len(ss) |-> f[i - 1]]
  <2>9. h = [i \in 1 .. Len(ss) |-> IF i = 1 THEN ss[i] ELSE h[i - 1] \o ss[i]]
    <3>1. h[1] = ss[1]  BY <2>1, <2>7
    <3>2. ASSUME NEW i \in 1 .. Len(ss), i # 1 PROVE h[i] = h[i - 1] \o ss[i]
      <4>1. i - 1 \in 1 .. Len(ss) - 1 /\ i - 1 \in 1 .. Len(ss) /\ (i - 1) + 1 = i
        BY <2>1, <3>2
      <4>2. f[i - 1] = f[i - 1 - 1] \o ss[i]  BY <2>8, <4>1
      <4>3. h[i] = f[i - 1] /\ h[i - 1] = f[i - 1 - 1]  BY <4>1
      <4> QED  BY <4>2, <4>3
    <3> QED  BY <3>1, <3>2
  <2> HIDE DEF h
  <2> DEFINE c == FlattenUpTo(ss)
  <2>10. c = [i \in 1 .. Len(ss) |-> IF i = 1 THEN ss[i] ELSE c[i - 1] \o ss[i]]
    BY <2>9 DEF FlattenUpTo
  <2>11. FlattenSeq(ss) = c[Len(ss)]  BY <1>2 DEF FlattenSeq, FlattenUpTo
  <2> HIDE DEF c
  <2> DEFINE M == {k \in 0 .. Len(ss) - 1 : c[k + 1] \in Seq(T)}
  <2>12. 0 \in M
    <3>1. c[1] = ss[1]  BY <2>1, <2>10
    <3> QED  BY <2>1, <2>5, <3>1
  <2>13. ASSUME NEW k \in 1 .. Len(ss) - 1, k - 1 \in M PROVE k \in M
    <3>1. k + 1 \in 1 .. Len(ss) /\ k + 1 # 1 /\ (k + 1) - 1 = k /\ (k - 1) + 1 = k
          /\ k \in 0 .. Len(ss) - 1
      BY <2>1
    <3>2. c[k + 1] = c[k] \o ss[k + 1]  BY <2>10, <3>1
    <3>3. c[k] \in Seq(T)
      <4>1. c[(k - 1) + 1] \in Seq(T)  BY <2>13
      <4> QED  BY <3>1, <4>1
    <3>4. ss[k + 1] \in Seq(T)  BY <2>2, <3>1
    <3>5. c[k + 1] \in Seq(T)  BY <3>2, <3>3, <3>4
    <3> QED  BY <3>1, <3>5
  <2> HIDE DEF M
  <2>14. 0 .. Len(ss) - 1 \subseteq M  BY <2>1, <2>12, <2>13, UpToInduction
  <2>15. Len(ss) - 1 \in M /\ (Len(ss) - 1) + 1 = Len(ss)  BY <2>1, <2>14
  <2> QED  BY <2>11, <2>15 DEF M
<1> QED  BY <1>1, <1>2

-----------------------------------------------------------------------------
(* What restore_session makes of a saved session. *)

LEMMA TwoFields ==
  ASSUME NEW R, NEW x, NEW y
  PROVE  [R EXCEPT !.players = x, !.player_id = y]
           = [[R EXCEPT !.players = x] EXCEPT !.player_id = y]
OBVIOUS

LEMMA ThreeFields ==
  ASSUME NEW R, NEW x, NEW y, NEW z
  PROVE  [R EXCEPT !.loots = x, !.appeared = y, !.gone = z]
           = [[[R EXCEPT !.loots = x] EXCEPT !.appeared = y] EXCEPT !.gone = z]
OBVIOUS

(* The session with the first k of its players restored. *)
RestoredUpTo(info, k) ==
  [map |-> info.map, players |-> SubSeq(info.players, 1, k), player_id |-> k,
   loots |-> info.loots, loot_id |-> 0, appeared |-> info.appeared, gone |-> info.gone]

(* A new player in the place behind the others is given all of the saved   *)
(* one: nothing of add_player's survives but the place.                    *)
LEMMA RestoredPlayer ==
  ASSUME NEW info \in SessionInfo, NEW k \in 1 .. Len(info.players)
  PROVE  restore_player(RestoredUpTo(info, k - 1), info.players[k]) = RestoredUpTo(info, k)
<1> DEFINE ps == info.players
           s == RestoredUpTo(info, k - 1)
           p == ps[k]
           new == [name |-> p.name, token |-> p.token, id |-> k - 1, bag |-> <<>>, idle |-> FALSE]
           front == SubSeq(ps, 1, k - 1)
           added == [map |-> info.map, players |-> Append(front, new), player_id |-> k,
                     loots |-> info.loots, loot_id |-> 0,
                     appeared |-> info.appeared, gone |-> info.gone]
<1>1. ps \in Seq(Player) /\ p \in Player  BY DEF SessionInfo, PlayerState
<1>2. /\ front \in Seq(Player) /\ Len(front) = k - 1
      /\ \A j \in 1 .. k - 1 : front[j] = ps[j]
  <2>1. k - 1 \in Nat /\ Len(ps) \in Nat /\ k - 1 <= Len(ps)  BY <1>1
  <2> HIDE DEF ps
  <2> QED  BY <1>1, <2>1
<1>3. /\ SubSeq(ps, 1, k) \in Seq(Player) /\ Len(SubSeq(ps, 1, k)) = k
      /\ \A j \in 1 .. k : SubSeq(ps, 1, k)[j] = ps[j]
  <2>1. k \in Nat /\ Len(ps) \in Nat /\ k <= Len(ps)  BY <1>1
  <2> HIDE DEF ps
  <2> QED  BY <1>1, <2>1
<1>4. new \in [name : Names, token : Tokens, id : Int, bag : Seq(Nat), idle : BOOLEAN]
      /\ new \in Player
  BY <1>1 DEF Player
<1> HIDE DEF front, p
<1>5. add_saved_player(s, p) = added
  <2>1. s.player_id = k - 1 /\ s.players = front  BY DEF RestoredUpTo, front
  <2>2. k - 1 + 1 = k  OBVIOUS
  <2> HIDE DEF s
  <2>3. with_player(s, p.name, p.token) = [s EXCEPT !.players = Append(s.players, new),
                                                    !.player_id = s.player_id + 1]
    BY <2>1 DEF with_player
  <2>4. with_player(s, p.name, p.token) = [s EXCEPT !.players = Append(front, new), !.player_id = k]
    BY <2>1, <2>2, <2>3
  <2> DEFINE q == Append(front, new)
             r == [s EXCEPT !.players = q]
  <2> HIDE DEF q
  <2>5. r = [map |-> info.map, players |-> q, player_id |-> k - 1,
             loots |-> info.loots, loot_id |-> 0,
             appeared |-> info.appeared, gone |-> info.gone]
    BY DEF RestoredUpTo, s
  <2> HIDE DEF r
  <2>6. [r EXCEPT !.player_id = k] = [map |-> info.map, players |-> q, player_id |-> k,
             loots |-> info.loots, loot_id |-> 0,
             appeared |-> info.appeared, gone |-> info.gone]
    BY <2>5
  <2>7. [s EXCEPT !.players = q, !.player_id = k] = [r EXCEPT !.player_id = k]
    BY TwoFields DEF r
  <2> QED  BY <2>4, <2>6, <2>7 DEF add_saved_player, q
<1> HIDE DEF new
<1>6. /\ Append(front, new) \in Seq(Player) /\ Len(Append(front, new)) = k
      /\ Append(front, new)[k] = new
      /\ \A j \in 1 .. k - 1 : Append(front, new)[j] = ps[j]
  BY <1>2, <1>4
<1>7. init_player(new, p) = p
  <2>1. new.bag \o p.bag = p.bag
    <3>1. new.bag = <<>> /\ p.bag \in Seq(Nat)  BY <1>1 DEF new, Player
    <3> HIDE DEF p
    <3> QED  BY <3>1
  <2>2. init_player(new, p) = [name |-> p.name, token |-> p.token, id |-> p.id,
                               bag |-> p.bag, idle |-> p.idle]
    <3> DEFINE b == new.bag \o p.bag
    <3>1. init_player(new, p) = [new EXCEPT !.id = p.id, !.bag = b, !.idle = p.idle]
      BY DEF init_player
    <3> HIDE DEF b
    <3> DEFINE i == k - 1
               x == p.id
               y == p.idle
               m == p.name
               t == p.token
    <3>2. new = [name |-> m, token |-> t, id |-> i, bag |-> <<>>, idle |-> FALSE]  BY DEF new
    <3> HIDE DEF i, x, y, m, t
    <3>3. [new EXCEPT !.id = x, !.bag = b, !.idle = y]
            = [name |-> m, token |-> t, id |-> x, bag |-> b, idle |-> y]
      <4> DEFINE e == <<>>
                 f == FALSE
      <4>1. new = [name |-> m, token |-> t, id |-> i, bag |-> e, idle |-> f]  BY <3>2
      <4> HIDE DEF new, e, f
      <4> DEFINE u == [new EXCEPT !.id = x]
                 v == [u EXCEPT !.bag = b]
      <4>2. [new EXCEPT !.id = x, !.bag = b, !.idle = y] = [v EXCEPT !.idle = y]  OBVIOUS
      <4>3. u = [name |-> m, token |-> t, id |-> x, bag |-> e, idle |-> f]  BY <4>1
      <4> HIDE DEF u
      <4>4. v = [name |-> m, token |-> t, id |-> x, bag |-> b, idle |-> f]  BY <4>3
      <4> HIDE DEF v
      <4>5. [v EXCEPT !.idle = y] = [name |-> m, token |-> t, id |-> x, bag |-> b, idle |-> y]
        BY <4>4
      <4> QED  BY <4>2, <4>5
    <3> QED  BY <2>1, <3>1, <3>3 DEF b, x, y, m, t
  <2>3. p = [name |-> p.name, token |-> p.token, id |-> p.id, bag |-> p.bag, idle |-> p.idle]
    <3> HIDE DEF p
    <3> QED  BY <1>1 DEF Player
  <2> QED  BY <2>2, <2>3
<1>8. [Append(front, new) EXCEPT ![k] = p] = SubSeq(ps, 1, k)
  <2> DEFINE a == Append(front, new)
             q == [a EXCEPT ![k] = p]
  <2>1. /\ a \in Seq(Player) /\ Len(a) = k /\ k \in 1 .. Len(a)
        /\ \A j \in 1 .. k - 1 : a[j] = ps[j]
    BY <1>6
  <2>2. p = ps[k]  BY DEF p
  <2> HIDE DEF a, ps
  <2>3. q \in Seq(Player) /\ Len(q) = k  BY <1>1, <2>1
  <2>4. ASSUME NEW j \in 1 .. k PROVE q[j] = ps[j]
    <3>1. j = k \/ j \in 1 .. k - 1  OBVIOUS
    <3>2. q[j] = IF j = k THEN p ELSE a[j]  BY <2>1
    <3> QED  BY <3>1, <3>2, <2>1, <2>2
  <2> DEFINE t == SubSeq(ps, 1, k)
  <2>5. t \in Seq(Player) /\ Len(t) = k /\ \A j \in 1 .. k : q[j] = t[j]
    BY <1>3, <2>4
  <2> HIDE DEF q, t
  <2>6. q = t  BY <2>3, <2>5, SeqEqual
  <2> QED  BY <2>6 DEF q, t, a
<1>9. restore_player(s, p) = [added EXCEPT !.players[k] = p]
  <2>1. added.players = Append(front, new)  OBVIOUS
  <2>2. Len(added.players) = k /\ added.players[k] = new  BY <1>6, <2>1
  <2> HIDE DEF added, s, p
  <2>3. restore_player(s, p) = [added EXCEPT !.players[k] = init_player(@, p)]
    BY <1>5, <2>2 DEF restore_player
  <2>4. [added EXCEPT !.players[k] = init_player(@, p)]
          = [added EXCEPT !.players[k] = init_player(new, p)]
    BY <2>2
  <2> QED  BY <1>7, <2>3, <2>4
<1>10. [added EXCEPT !.players[k] = p] = RestoredUpTo(info, k)
  <2> DEFINE a == Append(front, new)
             t == SubSeq(ps, 1, k)
  <2>1. [a EXCEPT ![k] = p] = t  BY <1>8
  <2> HIDE DEF a, t, ps
  <2>2. [added EXCEPT !.players[k] = p] = [map |-> info.map, players |-> [a EXCEPT ![k] = p],
             player_id |-> k, loots |-> info.loots, loot_id |-> 0,
             appeared |-> info.appeared, gone |-> info.gone]
    BY DEF a
  <2> QED  BY <2>1, <2>2 DEF RestoredUpTo, t, ps
<1> QED  BY <1>9, <1>10 DEF p

RestoredBy(info) ==
  CHOOSE g : g = [k \in 0 .. Len(info.players) |->
    IF k = 0 THEN [NewSession(info.map) EXCEPT !.loots = info.loots,
                                               !.appeared = info.appeared, !.gone = info.gone]
    ELSE restore_player(g[k - 1], info.players[k])]

LEMMA RestoredSession ==
  ASSUME NEW info \in SessionInfo
  PROVE  restore_session(info) = RestoredUpTo(info, Len(info.players))
<1> DEFINE n == Len(info.players)
           s == [NewSession(info.map) EXCEPT !.loots = info.loots,
                                             !.appeared = info.appeared, !.gone = info.gone]
           f == [k \in 0 .. n |-> RestoredUpTo(info, k)]
           c == RestoredBy(info)
<1>1. info.players \in Seq(Player) /\ n \in Nat  BY DEF SessionInfo, PlayerState
<1>2. s = RestoredUpTo(info, 0)
  <2>1. SubSeq(info.players, 1, 0) = <<>>  BY <1>1
  <2> DEFINE R == NewSession(info.map)
             a == [R EXCEPT !.loots = info.loots]
             b == [a EXCEPT !.appeared = info.appeared]
  <2>2. a = [map |-> info.map, players |-> <<>>, player_id |-> 0, loots |-> info.loots,
             loot_id |-> 0, appeared |-> 0, gone |-> 0]
    BY DEF NewSession
  <2> HIDE DEF R, a
  <2>3. b = [map |-> info.map, players |-> <<>>, player_id |-> 0, loots |-> info.loots,
             loot_id |-> 0, appeared |-> info.appeared, gone |-> 0]
    BY <2>2
  <2> HIDE DEF b
  <2>4. [b EXCEPT !.gone = info.gone]
          = [map |-> info.map, players |-> <<>>, player_id |-> 0, loots |-> info.loots,
             loot_id |-> 0, appeared |-> info.appeared, gone |-> info.gone]
    BY <2>3
  <2>5. s = [b EXCEPT !.gone = info.gone]  BY ThreeFields DEF R, a, b
  <2> QED  BY <2>1, <2>4, <2>5 DEF RestoredUpTo
<1>3. \A k \in 1 .. n : restore_player(RestoredUpTo(info, k - 1), info.players[k]) = RestoredUpTo(info, k)
  BY RestoredPlayer
<1>4. restore_session(info) = c[n]  BY DEF restore_session, RestoredBy
<1> HIDE DEF n, s
<1>5. f = [k \in 0 .. n |-> IF k = 0 THEN s ELSE restore_player(f[k - 1], info.players[k])]
  <2>1. \A k \in 1 .. n : f[k - 1] = RestoredUpTo(info, k - 1)  BY <1>1
  <2>2. \A k \in 0 .. n : f[k] = IF k = 0 THEN s ELSE restore_player(f[k - 1], info.players[k])
    BY <1>1, <1>2, <1>3, <2>1
  <2> QED  BY <2>2
<1> HIDE DEF f
<1>6. c = [k \in 0 .. n |-> IF k = 0 THEN s ELSE restore_player(c[k - 1], info.players[k])]
  BY <1>5 DEF RestoredBy, n, s
<1> HIDE DEF c
<1> DEFINE M == {k \in 0 .. n : c[k] = RestoredUpTo(info, k)}
<1>7. 0 \in M  BY <1>1, <1>2, <1>6
<1>8. ASSUME NEW k \in 1 .. n, k - 1 \in M PROVE k \in M
  <2>1. k \in 0 .. n /\ k # 0  BY <1>1
  <2>2. c[k] = restore_player(c[k - 1], info.players[k])  BY <1>6, <2>1
  <2>3. c[k - 1] = RestoredUpTo(info, k - 1)  BY <1>8
  <2> QED  BY <1>3, <2>1, <2>2, <2>3
<1> HIDE DEF M
<1>9. 0 .. n \subseteq M  BY <1>1, <1>7, <1>8, UpToInduction
<1>10. n \in M  BY <1>1, <1>9
<1> QED  BY <1>4, <1>10 DEF M, n

-----------------------------------------------------------------------------
(* What each operation makes of one session. *)

Kept(s, t) == t \in Session /\ Conserved(t) /\ (Ordered(s) => Ordered(t))

LEMMA NewSessionKept ==
  ASSUME NEW m \in Maps
  PROVE  NewSession(m) \in Session /\ Conserved(NewSession(m)) /\ Ordered(NewSession(m))
<1> DEFINE s == NewSession(m)
<1>1. s \in Session  BY DEF NewSession, Session
<1>2. s.players = <<>> /\ s.loots = <<>> /\ s.appeared = 0 /\ s.gone = 0 /\ s.player_id = 0
  BY DEF NewSession
<1> HIDE DEF s
<1>3. Conserved(s)  BY <1>2, CarriedNone DEF Conserved
<1>4. Ordered(s)  BY <1>2 DEF Ordered, IdsInOrder
<1> QED  BY <1>1, <1>3, <1>4 DEF s

LEMMA WithPlayerKept ==
  ASSUME NEW s \in Session, Conserved(s), NEW name \in Names, NEW token \in Tokens
  PROVE  Kept(s, with_player(s, name, token))
<1> DEFINE t == with_player(s, name, token)
           new == [name |-> name, token |-> token, id |-> s.player_id, bag |-> <<>>, idle |-> FALSE]
           ps == Append(s.players, new)
           n == s.player_id + 1
<1>1. /\ s.players \in Seq(Player) /\ s.player_id \in Nat /\ s.gone \in Nat
      /\ s.appeared \in Nat /\ s.loots \in Seq(Nat)
  BY DEF Session
<1>2. new \in Player /\ Len(new.bag) = 0 /\ new.id = s.player_id  BY <1>1 DEF Player
<1>3. t = [s EXCEPT !.players = ps, !.player_id = n]  BY DEF with_player
<1> HIDE DEF new
<1>4. /\ ps \in Seq(Player) /\ n \in Nat /\ carried(ps) = carried(s.players)
      /\ Len(ps) = Len(s.players) + 1
  <2>1. carried(ps) = carried(s.players) + 0  BY <1>1, <1>2, CarriedAppend
  <2>2. carried(s.players) \in Nat  BY <1>1, CarriedNat
  <2> QED  BY <1>1, <1>2, <2>1, <2>2
<1>5. ASSUME IdsInOrder(s.players), s.player_id = Len(s.players) PROVE IdsInOrder(ps)
  <2>1. \A k \in 1 .. Len(s.players) : ps[k] = s.players[k]  BY <1>1, <1>2
  <2>2. ps[Len(s.players) + 1] = new  BY <1>1, <1>2
  <2>3. \A k \in 1 .. Len(s.players) : s.players[k].id = k - 1  BY <1>1, <1>5 DEF IdsInOrder
  <2>4. DOMAIN ps = 1 .. Len(s.players) + 1  BY <1>4
  <2> HIDE DEF ps
  <2>5. ASSUME NEW k \in 1 .. Len(s.players) + 1 PROVE ps[k].id = k - 1
    <3>1. CASE k = Len(s.players) + 1  BY <1>1, <1>2, <1>5, <2>2, <3>1
    <3>2. CASE k # Len(s.players) + 1
      <4>1. k \in 1 .. Len(s.players)  BY <1>1, <3>2
      <4> QED  BY <2>1, <2>3, <4>1
    <3> QED  BY <3>1, <3>2
  <2> QED  BY <2>4, <2>5 DEF IdsInOrder
<1> HIDE DEF ps, n, t
<1>6. /\ t \in Session /\ t.players = ps /\ t.player_id = n
      /\ t.loots = s.loots /\ t.appeared = s.appeared /\ t.gone = s.gone
  BY <1>3, <1>4 DEF Session
<1>7. Conserved(t)  BY <1>4, <1>6 DEF Conserved
<1>8. Ordered(s) => Ordered(t)  BY <1>4, <1>5, <1>6 DEF Ordered, n
<1> QED  BY <1>6, <1>7, <1>8 DEF Kept, t

LEMMA AppearKept ==
  ASSUME NEW s \in Session, Conserved(s)
  PROVE  Kept(s, [s EXCEPT !.loots = Append(@, s.loot_id),
                           !.loot_id = @ + 1, !.appeared = @ + 1])
<1> DEFINE ls == Append(s.loots, s.loot_id)
           n == s.loot_id + 1
           m == s.appeared + 1
           t == [s EXCEPT !.loots = ls, !.loot_id = n, !.appeared = m]
<1>1. /\ s.players \in Seq(Player) /\ s.loot_id \in Nat /\ s.gone \in Nat
      /\ s.appeared \in Nat /\ s.loots \in Seq(Nat)
  BY DEF Session
<1>2. ls \in Seq(Nat) /\ Len(ls) = Len(s.loots) + 1 /\ n \in Nat /\ m \in Nat  BY <1>1
<1> HIDE DEF ls, n, m
<1>3. /\ t \in Session /\ t.players = s.players /\ t.player_id = s.player_id
      /\ t.loots = ls /\ t.appeared = m /\ t.gone = s.gone
  BY <1>2 DEF Session
<1> HIDE DEF t
<1>4. carried(s.players) \in Nat  BY <1>1, CarriedNat
<1>5. Conserved(t)
  <2> DEFINE a == s.appeared
             b == Len(s.loots)
             c == carried(s.players)
             g == s.gone
  <2>1. a \in Nat /\ b \in Nat /\ c \in Nat /\ g \in Nat  BY <1>1, <1>4
  <2>2. a = b + c + g  BY DEF Conserved
  <2>3. Conserved(t) <=> a + 1 = b + 1 + c + g  BY <1>2, <1>3 DEF Conserved, m
  <2> HIDE DEF a, b, c, g
  <2> QED  BY <2>1, <2>2, <2>3
<1>6. Ordered(s) => Ordered(t)  BY <1>3 DEF Ordered
<1>7. Kept(s, t)  BY <1>3, <1>5, <1>6 DEF Kept
<1> QED  BY <1>7 DEF t, ls, n, m

(* Whatever becomes of one player, if the session does not miss the loots. *)
LEMMA PlayerChanged ==
  ASSUME NEW s \in Session, Conserved(s), NEW k \in 1 .. Len(s.players),
         NEW p \in Player, p.id = s.players[k].id,
         NEW t \in Session,
         t.players = [s.players EXCEPT ![k] = p], t.player_id = s.player_id,
         t.appeared = s.appeared,
         Len(t.loots) + Len(p.bag) + t.gone = Len(s.loots) + Len(s.players[k].bag) + s.gone
  PROVE  Kept(s, t)
<1> DEFINE ps == [s.players EXCEPT ![k] = p]
           ls == t.loots
           g == t.gone
<1>1. /\ s.players \in Seq(Player) /\ s.gone \in Nat
      /\ s.appeared \in Nat /\ s.loots \in Seq(Nat)
      /\ ls \in Seq(Nat) /\ g \in Nat
  BY DEF Session
<1>2. carried(ps) = carried(s.players) - Len(s.players[k].bag) + Len(p.bag)
  BY <1>1, CarriedExcept
<1>3. /\ Len(ps) = Len(s.players) /\ DOMAIN ps = 1 .. Len(s.players)
      /\ \A j \in 1 .. Len(s.players) : ps[j] = IF j = k THEN p ELSE s.players[j]
  BY <1>1
<1>4. Conserved(t)
  <2> DEFINE a == Len(ls)
             b == Len(p.bag)
             c == Len(s.loots)
             d == Len(s.players[k].bag)
             u == carried(s.players)
             v == s.gone
             w == s.appeared
  <2>1. a \in Nat /\ c \in Nat /\ u \in Nat /\ v \in Nat /\ w \in Nat  BY <1>1, CarriedNat
  <2>2. b \in Nat /\ d \in Nat
    <3>1. s.players[k] \in Player  BY <1>1
    <3> QED  BY <3>1 DEF Player
  <2>3. a + b + g = c + d + v /\ w = c + u + v  BY DEF Conserved
  <2>4. carried(t.players) = u - d + b /\ t.loots = ls  BY <1>2
  <2>5. Conserved(t) <=> w = a + (u - d + b) + g  BY <2>4 DEF Conserved
  <2>7. g \in Nat  BY <1>1
  <2> HIDE DEF a, b, c, d, u, v, w, g
  <2>6. w = a + (u - d + b) + g  BY <2>1, <2>2, <2>3, <2>7
  <2> QED  BY <2>5, <2>6
<1>5. ASSUME IdsInOrder(s.players) PROVE IdsInOrder(ps)
  <2>1. \A j \in 1 .. Len(s.players) : s.players[j].id = j - 1  BY <1>1, <1>5 DEF IdsInOrder
  <2> HIDE DEF ps
  <2>2. \A j \in 1 .. Len(s.players) : ps[j].id = j - 1  BY <1>3, <2>1
  <2> QED  BY <1>3, <2>2 DEF IdsInOrder
<1>6. Ordered(s) => Ordered(t)  BY <1>3, <1>5 DEF Ordered
<1> QED  BY <1>4, <1>6 DEF Kept

LEMMA PickUpKept ==
  ASSUME NEW s \in Session, Conserved(s), NEW k \in 1 .. Len(s.players), NEW l \in ToSet(s.loots)
  PROVE  Kept(s, [s EXCEPT !.loots = erase(@, l), !.players[k].bag = Append(@, l)])
<1> DEFINE ls == erase(s.loots, l)
           q == s.players[k]
           b == Append(q.bag, l)
           p == [q EXCEPT !.bag = b]
           ps == [s.players EXCEPT ![k] = p]
           r == [s EXCEPT !.loots = ls]
           t == [r EXCEPT !.players = ps]
<1>1. /\ s.players \in Seq(Player) /\ s.gone \in Nat
      /\ s.appeared \in Nat /\ s.loots \in Seq(Nat) /\ l \in Nat
  BY DEF Session, ToSet
<1>2. ls \in Seq(Nat) /\ Len(ls) = Len(s.loots) - 1  BY <1>1, RemoveFirstShortens DEF erase
<1>3. q \in Player /\ q.bag \in Seq(Nat)
  <2>1. q \in Player  BY <1>1
  <2> HIDE DEF q
  <2> QED  BY <2>1 DEF Player
<1>4. b \in Seq(Nat) /\ Len(b) = Len(q.bag) + 1
  <2> HIDE DEF q
  <2> QED  BY <1>1, <1>3
<1> HIDE DEF b
<1>5. p \in Player /\ p.id = q.id /\ p.bag = b
  <2> HIDE DEF q
  <2> QED  BY <1>3, <1>4 DEF Player
<1>6. ps \in Seq(Player)  BY <1>1, <1>5
<1>7. [s EXCEPT !.loots = erase(@, l), !.players[k].bag = Append(@, l)] = t
  <2>1. [s EXCEPT !.loots = erase(@, l), !.players[k].bag = Append(@, l)]
          = [s EXCEPT !.loots = ls, !.players[k].bag = b]
    BY DEF b
  <2> HIDE DEF ls, b
  <2>2. [s EXCEPT !.loots = ls, !.players[k].bag = b] = t  OBVIOUS
  <2> QED  BY <2>1, <2>2
<1> HIDE DEF ps, ls, p
<1>8. r \in Session /\ r.loots = ls /\ r.player_id = s.player_id /\ r.appeared = s.appeared
      /\ r.gone = s.gone
  BY <1>2 DEF Session
<1> HIDE DEF r
<1>9. t \in Session /\ t.players = ps /\ t.player_id = s.player_id /\ t.loots = ls
      /\ t.gone = s.gone /\ t.appeared = s.appeared
  BY <1>6, <1>8 DEF Session
<1> HIDE DEF t
<1>10. Len(ls) + Len(p.bag) + s.gone = Len(s.loots) + Len(q.bag) + s.gone
  <2> DEFINE x == Len(s.loots)
             y == Len(q.bag)
             z == s.gone
  <2>1. x \in Nat /\ y \in Nat /\ z \in Nat  BY <1>1, <1>3
  <2>2. Len(ls) = x - 1 /\ Len(p.bag) = y + 1  BY <1>2, <1>4, <1>5
  <2> HIDE DEF x, y, z
  <2>3. Len(ls) + Len(p.bag) + z = x + y + z  BY <2>1, <2>2
  <2> QED  BY <2>3 DEF x, y, z
<1>11. Kept(s, t)
  <2>1. t.players = [s.players EXCEPT ![k] = p]  BY <1>9 DEF ps
  <2>2. p \in Player /\ p.id = s.players[k].id  BY <1>5
  <2>3. Len(t.loots) + Len(p.bag) + t.gone = Len(s.loots) + Len(s.players[k].bag) + s.gone
    BY <1>9, <1>10
  <2> HIDE DEF q
  <2> QED  BY <2>1, <2>2, <2>3, <1>9, PlayerChanged
<1> QED  BY <1>7, <1>11

LEMMA HandInKept ==
  ASSUME NEW s \in Session, Conserved(s), NEW k \in 1 .. Len(s.players)
  PROVE  Kept(s, [s EXCEPT !.players[k].bag = <<>>, !.gone = @ + Len(s.players[k].bag)])
<1> DEFINE q == s.players[k]
           b == <<>>
           g == s.gone + Len(q.bag)
           p == [q EXCEPT !.bag = b]
           ps == [s.players EXCEPT ![k] = p]
           r == [s EXCEPT !.players = ps]
           t == [r EXCEPT !.gone = g]
<1>1. /\ s.players \in Seq(Player) /\ s.gone \in Nat
      /\ s.appeared \in Nat /\ s.loots \in Seq(Nat)
  BY DEF Session
<1>2. q \in Player /\ q.bag \in Seq(Nat)
  <2>1. q \in Player  BY <1>1
  <2> HIDE DEF q
  <2> QED  BY <2>1 DEF Player
<1>3. b \in Seq(Nat) /\ Len(b) = 0 /\ g \in Nat
  <2> HIDE DEF q
  <2> QED  BY <1>1, <1>2
<1>4. [s EXCEPT !.players[k].bag = <<>>, !.gone = @ + Len(s.players[k].bag)] = t
  <2>1. [s EXCEPT !.players[k].bag = <<>>, !.gone = @ + Len(s.players[k].bag)]
          = [s EXCEPT !.players[k].bag = b, !.gone = g]
    OBVIOUS
  <2> HIDE DEF g, b
  <2>2. [s EXCEPT !.players[k].bag = b, !.gone = g] = t  OBVIOUS
  <2> QED  BY <2>1, <2>2
<1> HIDE DEF b
<1>5. p \in Player /\ p.id = q.id /\ p.bag = b
  <2> HIDE DEF q
  <2> QED  BY <1>2, <1>3 DEF Player
<1>6. ps \in Seq(Player)  BY <1>1, <1>5
<1> HIDE DEF ps, p, g
<1>7. r \in Session /\ r.players = ps /\ r.player_id = s.player_id /\ r.appeared = s.appeared
      /\ r.loots = s.loots
  BY <1>6 DEF Session
<1> HIDE DEF r
<1>8. t \in Session /\ t.players = ps /\ t.player_id = s.player_id /\ t.loots = s.loots
      /\ t.gone = g /\ t.appeared = s.appeared
  BY <1>3, <1>7 DEF Session
<1> HIDE DEF t
<1>9. Len(s.loots) + Len(p.bag) + g = Len(s.loots) + Len(q.bag) + s.gone
  <2> DEFINE x == Len(s.loots)
             y == Len(q.bag)
             z == s.gone
  <2>1. x \in Nat /\ y \in Nat /\ z \in Nat  BY <1>1, <1>2
  <2>2. Len(p.bag) = 0 /\ g = z + y  BY <1>3, <1>5 DEF g
  <2> HIDE DEF x, y, z
  <2>3. x + Len(p.bag) + g = x + y + z  BY <2>1, <2>2
  <2> QED  BY <2>3 DEF x, y, z
<1>10. Kept(s, t)
  <2>1. t.players = [s.players EXCEPT ![k] = p]  BY <1>8 DEF ps
  <2>2. p \in Player /\ p.id = s.players[k].id /\ g \in Nat /\ s.loots \in Seq(Nat)
    BY <1>1, <1>3, <1>5
  <2>3. Len(s.loots) + Len(p.bag) + g = Len(s.loots) + Len(s.players[k].bag) + s.gone
    BY <1>9
  <2>4. /\ t \in Session /\ t.player_id = s.player_id /\ t.loots = s.loots
        /\ t.gone = g /\ t.appeared = s.appeared
    BY <1>8
  <2>5. Len(t.loots) + Len(p.bag) + t.gone = Len(s.loots) + Len(s.players[k].bag) + s.gone
    BY <2>3, <2>4
  <2> HIDE DEF q
  <2> QED  BY <2>1, <2>2, <2>4, <2>5, PlayerChanged
<1> QED  BY <1>4, <1>10

LEMMA RestKept ==
  ASSUME NEW s \in Session, Conserved(s), NEW k \in 1 .. Len(s.players), NEW idle \in BOOLEAN
  PROVE  Kept(s, [s EXCEPT !.players[k].idle = idle])
<1> DEFINE q == s.players[k]
           p == [q EXCEPT !.idle = idle]
           ps == [s.players EXCEPT ![k] = p]
           t == [s EXCEPT !.players = ps]
<1>1. /\ s.players \in Seq(Player) /\ s.gone \in Nat
      /\ s.appeared \in Nat /\ s.loots \in Seq(Nat)
  BY DEF Session
<1>2. q \in Player  BY <1>1
<1>3. [s EXCEPT !.players[k].idle = idle] = t  OBVIOUS
<1>4. p \in Player /\ p.id = q.id /\ p.bag = q.bag
  <2> HIDE DEF q
  <2> QED  BY <1>2 DEF Player
<1>5. ps \in Seq(Player)  BY <1>1, <1>4
<1> HIDE DEF ps, p
<1>6. t \in Session /\ t.players = ps /\ t.player_id = s.player_id /\ t.loots = s.loots
      /\ t.gone = s.gone /\ t.appeared = s.appeared
  BY <1>5 DEF Session
<1> HIDE DEF t
<1>7. Len(s.loots) + Len(p.bag) + s.gone = Len(s.loots) + Len(q.bag) + s.gone  BY <1>4
<1>8. Kept(s, t)
  <2>1. t.players = [s.players EXCEPT ![k] = p]  BY <1>6 DEF ps
  <2> QED  BY <2>1, <1>1, <1>4, <1>6, <1>7, PlayerChanged
<1> QED  BY <1>3, <1>8

(* The bag of a deleted player goes with its owner, and is counted. *)
LEMMA DeleteConserves ==
  ASSUME NEW s \in Session, Conserved(s), NEW t \in Tokens, HasPlayerWithAuthToken(s, t)
  PROVE  delete_player(s, t) \in Session /\ Conserved(delete_player(s, t))
<1> DEFINE I == {i \in 1 .. Len(s.players) : s.players[i].token = t}
           k == SelectInSeq(s.players, LAMBDA p : p.token = t)
           q == s.players[k]
           ps == RemoveAt(s.players, k)
           g == s.gone + Len(q.bag)
           r == [s EXCEPT !.players = ps, !.gone = g]
<1>1. /\ s.players \in Seq(Player) /\ s.gone \in Nat
      /\ s.appeared \in Nat /\ s.loots \in Seq(Nat)
  BY DEF Session
<1>2. k \in 1 .. Len(s.players)
  <2>1. I \subseteq Nat /\ I # {}  BY <1>1 DEF HasPlayerWithAuthToken
  <2>2. Min(I) \in I  BY <2>1, LeastNatural
  <2>3. k = Min(I)  BY <2>1 DEF SelectInSeq
  <2> QED  BY <2>2, <2>3
<1>3. delete_player(s, t) = r  BY DEF delete_player
<1> HIDE DEF k
<1>4. q \in Player /\ q.bag \in Seq(Nat)
  <2>1. q \in Player  BY <1>1, <1>2
  <2> HIDE DEF q
  <2> QED  BY <2>1 DEF Player
<1>5. /\ ps \in Seq(Player) /\ g \in Nat
      /\ carried(ps) = carried(s.players) - Len(q.bag)
  <2>1. ps \in Seq(Player)  BY <1>1, <1>2, RemoveAtElements
  <2>2. carried(ps) = carried(s.players) - Len(q.bag)  BY <1>1, <1>2, CarriedRemoveAt
  <2>3. g \in Nat
    <3> HIDE DEF q
    <3> QED  BY <1>1, <1>4
  <2> QED  BY <2>1, <2>2, <2>3
<1> HIDE DEF ps, g, q
<1>6. /\ r \in Session /\ r.players = ps /\ r.gone = g
      /\ r.loots = s.loots /\ r.appeared = s.appeared
  BY <1>5 DEF Session
<1> HIDE DEF r
<1>7. Conserved(r)
  <2> DEFINE a == s.appeared
             b == Len(s.loots)
             c == carried(s.players)
             d == s.gone
             f == Len(q.bag)
  <2>1. a \in Nat /\ b \in Nat /\ c \in Nat /\ d \in Nat /\ f \in Nat
    BY <1>1, <1>4, CarriedNat
  <2>2. a = b + c + d  BY DEF Conserved
  <2>3. Conserved(r) <=> a = b + (c - f) + (d + f)  BY <1>5, <1>6 DEF Conserved, g
  <2> HIDE DEF a, b, c, d, f
  <2> QED  BY <2>1, <2>2, <2>3
<1> QED  BY <1>3, <1>6, <1>7

LEMMA SavedState ==
  ASSUME NEW s \in Session, Conserved(s)
  PROVE  /\ get_session_state(s) \in SessionInfo /\ Conserved(get_session_state(s))
         /\ Ordered(s) => IdsInOrder(get_session_state(s).players)
<1> DEFINE t == get_session_state(s)
<1>1. t \in SessionInfo /\ t.players = s.players /\ t.loots = s.loots /\ t.gone = s.gone
      /\ t.appeared = s.appeared
  BY DEF get_session_state, Session, SessionInfo, PlayerState
<1> HIDE DEF t
<1> QED  BY <1>1 DEF Conserved, Ordered, t

LEMMA RestoredState ==
  ASSUME NEW info \in SessionInfo, Conserved(info)
  PROVE  /\ restore_session(info) \in Session /\ Conserved(restore_session(info))
         /\ IdsInOrder(info.players) => Ordered(restore_session(info))
         /\ get_session_state(restore_session(info)) = info
<1> DEFINE s == restore_session(info)
           n == Len(info.players)
<1>1. /\ info.players \in Seq(Player) /\ n \in Nat /\ info.map \in Maps
      /\ info.loots \in Seq(Nat) /\ info.appeared \in Nat /\ info.gone \in Nat
  BY DEF SessionInfo, PlayerState
<1>2. SubSeq(info.players, 1, n) = info.players
  <2> DEFINE ps == info.players
             q == SubSeq(ps, 1, n)
  <2>1. ps \in Seq(Player) /\ n = Len(ps)  BY <1>1
  <2> HIDE DEF ps, n
  <2>2. q \in Seq(Player) /\ Len(q) = n /\ \A j \in 1 .. n : q[j] = ps[j]
    BY <1>1, <2>1
  <2> HIDE DEF q
  <2>3. q = ps  BY <2>1, <2>2, SeqEqual
  <2> QED  BY <2>3 DEF q, ps
<1>3. s = [map |-> info.map, players |-> info.players, player_id |-> n, loots |-> info.loots,
           loot_id |-> 0, appeared |-> info.appeared, gone |-> info.gone]
  BY <1>2, RestoredSession DEF RestoredUpTo
<1> HIDE DEF s, n
<1>4. s \in Session  BY <1>1, <1>3 DEF Session
<1>5. Conserved(s)  BY <1>3 DEF Conserved
<1>6. IdsInOrder(info.players) => Ordered(s)  BY <1>3 DEF Ordered, n
<1>7. get_session_state(s) = info
  <2>1. get_session_state(s) = [map |-> info.map, players |-> info.players,
          loots |-> info.loots, appeared |-> info.appeared, gone |-> info.gone]
    BY <1>3 DEF get_session_state
  <2>2. info = [map |-> info.map, players |-> info.players,
          loots |-> info.loots, appeared |-> info.appeared, gone |-> info.gone]
    BY DEF SessionInfo
  <2> QED  BY <2>1, <2>2
<1> QED  BY <1>4, <1>5, <1>6, <1>7 DEF s

-----------------------------------------------------------------------------
(* The invariant is inductive. *)

LEMMA SavedInit == Init => SavedInv
<1> SUFFICES ASSUME Init PROVE SavedInv  OBVIOUS
<1>1. TypeOK  BY DEF Init, TypeOK
<1>2. DOMAIN sessions = {} /\ DOMAIN file = {}  BY DEF Init
<1>3. RecordInv  BY DEF Init, RecordInv, RetiredHaveRecords
<1> QED  BY <1>1, <1>2, <1>3 DEF Init, SavedInv, up

(* What does not touch the records or the handler keeps what they promise. *)
LEMMA RecordsKept ==
  ASSUME RecordInv, UNCHANGED <<records, handler, retired>>
  PROVE  RecordInv'
BY DEF RecordInv, RetiredHaveRecords, handler

LEMMA SessionReplaced ==
  ASSUME SavedInv, up, NEW i \in DOMAIN sessions, NEW t, Kept(sessions[i], t),
         sessions' = [sessions EXCEPT ![i] = t], issued' \subseteq Tokens,
         UNCHANGED <<process, file, records, handler, retired, restarts>>
  PROVE  SavedInv'
<1>1. TypeOK  BY DEF SavedInv
<1>2. t \in Session /\ Conserved(t) /\ (Ordered(sessions[i]) => Ordered(t))  BY DEF Kept
<1>3. /\ sessions' \in Seq(Session) /\ DOMAIN sessions' = DOMAIN sessions
      /\ \A j \in DOMAIN sessions : sessions'[j] = IF j = i THEN t ELSE sessions[j]
  BY <1>1, <1>2 DEF TypeOK
<1>4. TypeOK'  BY <1>1, <1>3 DEF TypeOK, handler
<1>5. \A j \in DOMAIN sessions' : Conserved(sessions'[j])  BY <1>2, <1>3 DEF SavedInv
<1>6. retired' = {} => \A j \in DOMAIN sessions' : Ordered(sessions'[j])
  BY <1>2, <1>3 DEF SavedInv
<1>7. RecordInv'  BY RecordsKept DEF SavedInv
<1>8. up'  BY DEF up
<1> QED  BY <1>4, <1>5, <1>6, <1>7, <1>8 DEF SavedInv

LEMMA JoinInv ==
  ASSUME SavedInv, NEW m \in Maps, NEW name \in Names, NEW token \in Tokens, Join(m, name, token)
  PROVE  SavedInv'
<1> DEFINE I == {i \in 1 .. Len(sessions) : sessions[i].map = m}
           i == SelectInSeq(sessions, LAMBDA s : s.map = m)
           t == with_player(NewSession(m), name, token)
<1>1. TypeOK /\ up  BY DEF SavedInv, Join, Idle
<1>2. /\ issued' \subseteq Tokens
      /\ UNCHANGED <<process, file, records, handler, retired, restarts>>
  BY <1>1 DEF Join, TypeOK
<1>3. CASE i = 0 /\ sessions' = Append(sessions, t)
  <2>1. t \in Session /\ Conserved(t) /\ Ordered(t)
    BY NewSessionKept, WithPlayerKept DEF Kept
  <2> HIDE DEF t, i
  <2>2. /\ sessions' \in Seq(Session) /\ DOMAIN sessions' = 1 .. Len(sessions) + 1
        /\ \A j \in 1 .. Len(sessions) + 1 :
             sessions'[j] = IF j = Len(sessions) + 1 THEN t ELSE sessions[j]
        /\ \A j \in 1 .. Len(sessions) + 1 : j # Len(sessions) + 1 => j \in DOMAIN sessions
    BY <1>1, <1>3, <2>1 DEF TypeOK
  <2>3. TypeOK'  BY <1>1, <1>2, <2>2 DEF TypeOK, handler
  <2>4. \A j \in DOMAIN sessions' : Conserved(sessions'[j])  BY <2>1, <2>2 DEF SavedInv
  <2>5. retired' = {} => \A j \in DOMAIN sessions' : Ordered(sessions'[j])
    BY <1>2, <2>1, <2>2 DEF SavedInv
  <2>6. RecordInv'  BY <1>2, RecordsKept DEF SavedInv
  <2>7. up'  BY <1>1, <1>2 DEF up
  <2> QED  BY <1>2, <2>3, <2>4, <2>5, <2>6, <2>7 DEF SavedInv
<1>4. CASE i # 0 /\ sessions' = [sessions EXCEPT ![i] = with_player(@, name, token)]
  <2>1. i \in DOMAIN sessions
    <3>1. I \subseteq Nat /\ I # {} /\ i = Min(I)  BY <1>4 DEF SelectInSeq
    <3>2. Min(I) \in I  BY <3>1, LeastNatural
    <3> QED  BY <1>1, <3>1, <3>2 DEF TypeOK
  <2> HIDE DEF i
  <2>2. sessions[i] \in Session /\ Conserved(sessions[i])  BY <1>1, <2>1 DEF TypeOK, SavedInv
  <2>3. Kept(sessions[i], with_player(sessions[i], name, token))  BY <2>2, WithPlayerKept
  <2>4. sessions' = [sessions EXCEPT ![i] = with_player(sessions[i], name, token)]  BY <1>4
  <2> QED  BY <1>1, <1>2, <2>1, <2>3, <2>4, SessionReplaced
<1>5. (i = 0 /\ sessions' = Append(sessions, t))
      \/ (i # 0 /\ sessions' = [sessions EXCEPT ![i] = with_player(@, name, token)])
  BY DEF Join
<1> QED  BY <1>3, <1>4, <1>5

LEMMA PlayInv ==
  ASSUME SavedInv, NEW i \in DOMAIN sessions, Play(i)
  PROVE  SavedInv'
<1> DEFINE s == sessions[i]
<1>1. s \in Session /\ Conserved(s) /\ issued \subseteq Tokens  BY DEF SavedInv, TypeOK
<1>2. ASSUME NEW t, Idle, Kept(s, t), Change(i, t) PROVE SavedInv'
  <2>1. /\ up /\ sessions' = [sessions EXCEPT ![i] = t] /\ issued' \subseteq Tokens
        /\ UNCHANGED <<process, file, records, handler, retired, restarts>>
    BY <1>1, <1>2 DEF Change, Idle
  <2> QED  BY <1>2, <2>1, SessionReplaced
<1>3. DOMAIN s.players = 1 .. Len(s.players)  BY <1>1 DEF Session
<1>4. CASE Appear(i)
  <2> DEFINE t == [s EXCEPT !.loots = Append(@, s.loot_id),
                            !.loot_id = @ + 1, !.appeared = @ + 1]
  <2>1. Kept(s, t)  BY <1>1, AppearKept
  <2>2. Idle /\ Change(i, t)  BY <1>4 DEF Appear
  <2> HIDE DEF t
  <2> QED  BY <1>2, <2>1, <2>2
<1>5. ASSUME NEW k \in DOMAIN s.players, HandIn(i, k) PROVE SavedInv'
  <2> DEFINE t == [s EXCEPT !.players[k].bag = <<>>, !.gone = @ + Len(s.players[k].bag)]
  <2>1. Kept(s, t)  BY <1>1, <1>3, HandInKept
  <2>2. Idle /\ Change(i, t)  BY <1>5 DEF HandIn
  <2> HIDE DEF t
  <2> QED  BY <1>2, <2>1, <2>2
<1>6. ASSUME NEW k \in DOMAIN s.players, Rest(i, k) PROVE SavedInv'
  <2>1. PICK idle \in BOOLEAN : Change(i, [s EXCEPT !.players[k].idle = idle])
    BY <1>6 DEF Rest
  <2> DEFINE t == [s EXCEPT !.players[k].idle = idle]
  <2>2. Kept(s, t)  BY <1>1, <1>3, RestKept
  <2>3. Idle /\ Change(i, t)  BY <1>6, <2>1 DEF Rest
  <2> HIDE DEF t
  <2> QED  BY <1>2, <2>2, <2>3
<1>7. ASSUME NEW k \in DOMAIN s.players, NEW l \in ToSet(s.loots), PickUp(i, k, l)
      PROVE  SavedInv'
  <2> DEFINE t == [s EXCEPT !.loots = erase(@, l), !.players[k].bag = Append(@, l)]
  <2>1. Kept(s, t)  BY <1>1, <1>3, PickUpKept
  <2>2. Idle /\ Change(i, t)  BY <1>7 DEF PickUp
  <2> HIDE DEF t
  <2> QED  BY <1>2, <2>1, <2>2
<1> QED  BY <1>4, <1>5, <1>6, <1>7 DEF Play

LEMMA ExpiredInv ==
  ASSUME SavedInv, find_expired_players
  PROVE  SavedInv'
<1>1. TypeOK /\ up  BY DEF SavedInv, find_expired_players, Idle
<1>2. expired' \in Seq(Tokens)
  <2> DEFINE ts == [i \in DOMAIN sessions |-> idle_tokens(sessions[i].players)]
  <2>1. \A i \in DOMAIN sessions : sessions[i].players \in Seq(Player)
    <3>1. \A i \in DOMAIN sessions : sessions[i] \in Session  BY <1>1 DEF TypeOK
    <3> QED  BY <3>1 DEF Session
  <2>2. \A i \in DOMAIN sessions : idle_tokens(sessions[i].players) \in Seq(Tokens)
    BY <2>1, IdleTokensAreTokens
  <2>3. ts \in Seq(Seq(Tokens))
    <3>1. DOMAIN sessions = 1 .. Len(sessions) /\ Len(sessions) \in Nat  BY <1>1 DEF TypeOK
    <3>2. \A i \in 1 .. Len(sessions) : ts[i] \in Seq(Tokens)  BY <2>2, <3>1
    <3> QED  BY <2>2, <3>1, <3>2
  <2>4. expired' = FlattenSeq(ts)  BY DEF find_expired_players
  <2> HIDE DEF ts
  <2> QED  BY <2>3, <2>4, FlattenSeqElements
<1>3. TypeOK'  BY <1>1, <1>2 DEF TypeOK, find_expired_players, game
<1>4. UNCHANGED <<process, sessions, file, records, retired>> /\ phase' = "save" /\ handled' = 0
  BY DEF find_expired_players, game
<1>5. RecordInv'
  <2>1. \A j \in DOMAIN expired' : ~(j <= 0)  BY <1>2
  <2> QED  BY <1>4, <2>1 DEF SavedInv, RecordInv, RetiredHaveRecords
<1>6. up'  BY <1>1, <1>4 DEF up
<1> QED  BY <1>3, <1>4, <1>5, <1>6 DEF SavedInv

LEMMA RecordingInv ==
  ASSUME SavedInv, save_expired_players
  PROVE  SavedInv'
<1>1. TypeOK /\ up /\ phase = "save"  BY DEF SavedInv, save_expired_players
<1>2. UNCHANGED <<process, sessions, issued, file, retired, restarts>>
  BY DEF save_expired_players, game
<1>3. ASSUME TypeOK', RecordInv' PROVE SavedInv'
  BY <1>1, <1>2, <1>3 DEF SavedInv, up
<1>4. CASE LoopTo("delete") /\ UNCHANGED records
  <2>1. TypeOK'  BY <1>1, <1>2, <1>4 DEF TypeOK, LoopTo
  <2>2. \A j \in DOMAIN expired : j <= handled  BY <1>1, <1>4 DEF LoopTo, TypeOK
  <2>3. RecordInv'
    BY <1>1, <1>2, <1>4, <2>2 DEF LoopTo, SavedInv, RecordInv, RetiredHaveRecords
  <2> QED  BY <1>3, <2>1, <2>3
<1>5. CASE /\ handled < Len(expired)
           /\ records' = [records EXCEPT ![expired[handled + 1]] = @ + 1]
           /\ Handled
  <2> DEFINE t == expired[handled + 1]
  <2>1. t \in Tokens /\ handled + 1 \in DOMAIN expired  BY <1>1, <1>5 DEF TypeOK
  <2>2. /\ records' \in [Tokens -> Nat] /\ records'[t] > 0
        /\ \A u \in Tokens : records[u] > 0 => records'[u] > 0
    BY <1>1, <1>5, <2>1 DEF TypeOK
  <2>3. phase' = "save" /\ expired' = expired /\ handled' = handled + 1
    BY <1>1, <1>5 DEF Handled
  <2>4. TypeOK'  BY <1>1, <1>2, <2>2, <2>3 DEF TypeOK
  <2>5. ASSUME NEW j \in DOMAIN expired, j <= handled + 1 PROVE records'[expired[j]] > 0
    <3>1. expired[j] \in Tokens  BY <1>1 DEF TypeOK
    <3>2. CASE j = handled + 1  BY <2>2, <3>2
    <3>3. CASE j # handled + 1
      <4>1. j <= handled  BY <1>1, <2>5, <3>3 DEF TypeOK
      <4>2. records[expired[j]] > 0  BY <1>1, <4>1 DEF SavedInv, RecordInv
      <4> QED  BY <2>2, <3>1, <4>2
    <3> QED  BY <3>2, <3>3
  <2>6. RetiredHaveRecords'
    BY <1>1, <1>2, <2>2 DEF SavedInv, RecordInv, RetiredHaveRecords, TypeOK
  <2>7. RecordInv'  BY <2>3, <2>5, <2>6 DEF RecordInv
  <2> QED  BY <1>3, <2>4, <2>7
<1>6. CASE InsertFails /\ UNCHANGED records
  <2>1. TypeOK'  BY <1>1, <1>2, <1>6 DEF TypeOK, InsertFails, Abandon
  <2>2. RecordInv'
    BY <1>2, <1>6 DEF InsertFails, Abandon, SavedInv, RecordInv, RetiredHaveRecords
  <2> QED  BY <1>3, <2>1, <2>2
<1> QED  BY <1>4, <1>5, <1>6 DEF save_expired_players

LEMMA DeletionInv ==
  ASSUME SavedInv, delete_expired_players
  PROVE  SavedInv'
<1> DEFINE t == expired[handled + 1]
           i == searched_session(t)
<1>1. TypeOK /\ up /\ phase = "delete"  BY DEF SavedInv, delete_expired_players
<1>2. UNCHANGED <<process, issued, file, records, restarts>>  BY DEF delete_expired_players
<1>3. CASE LoopTo("clean") /\ UNCHANGED <<sessions, retired>>
  <2>1. TypeOK'  BY <1>1, <1>2, <1>3 DEF TypeOK, LoopTo
  <2>2. RecordInv'
    BY <1>2, <1>3 DEF LoopTo, SavedInv, RecordInv, RetiredHaveRecords
  <2> QED  BY <1>1, <1>2, <1>3, <2>1, <2>2 DEF SavedInv, up
<1>4. CASE LookupFails /\ UNCHANGED <<sessions, retired>>
  <2>1. TypeOK'  BY <1>1, <1>2, <1>4 DEF TypeOK, LookupFails, Abandon
  <2>2. RecordInv'
    BY <1>2, <1>4 DEF LookupFails, Abandon, SavedInv, RecordInv, RetiredHaveRecords
  <2> QED  BY <1>1, <1>2, <1>4, <2>1, <2>2 DEF SavedInv, up
<1>5. CASE /\ handled < Len(expired) /\ i # 0
           /\ sessions' = [sessions EXCEPT ![i] = delete_player(@, t)]
           /\ retired' = retired \cup {t}
           /\ Handled
  <2>1. i = 1 /\ HasPlayerWithAuthToken(sessions[1], t)  BY <1>5 DEF searched_session
  <2>2. t \in Tokens /\ handled + 1 \in DOMAIN expired  BY <1>1, <1>5 DEF TypeOK
  <2>3. phase' = phase /\ expired' = expired /\ handled' = handled + 1  BY <1>5 DEF Handled
  <2>4. /\ sessions' \in Seq(Session)
        /\ \A j \in DOMAIN sessions' : Conserved(sessions'[j])
    <3>1. CASE 1 \in DOMAIN sessions
      <4> DEFINE d == delete_player(sessions[1], t)
      <4>1. sessions[1] \in Session /\ Conserved(sessions[1])
        BY <1>1, <3>1 DEF TypeOK, SavedInv
      <4>2. d \in Session /\ Conserved(d)  BY <2>1, <2>2, <4>1, DeleteConserves
      <4>3. sessions' = [sessions EXCEPT ![1] = d]  BY <1>5, <2>1
      <4> HIDE DEF d, t, i
      <4>4. /\ sessions' \in Seq(Session) /\ DOMAIN sessions' = DOMAIN sessions
            /\ \A j \in DOMAIN sessions : sessions'[j] = IF j = 1 THEN d ELSE sessions[j]
        BY <1>1, <3>1, <4>2, <4>3 DEF TypeOK
      <4> QED  BY <4>2, <4>4 DEF SavedInv
    <3>2. CASE 1 \notin DOMAIN sessions
      <4> DEFINE d == delete_player(sessions[1], t)
      <4>1. sessions' = [sessions EXCEPT ![1] = d]  BY <1>5, <2>1
      <4> HIDE DEF d, t, i
      <4>2. sessions' = sessions  BY <1>1, <3>2, <4>1 DEF TypeOK
      <4> QED  BY <1>1, <4>2 DEF TypeOK, SavedInv
    <3> QED  BY <3>1, <3>2
  <2>5. TypeOK'  BY <1>1, <1>2, <1>5, <2>2, <2>3, <2>4 DEF TypeOK
  <2>6. retired' # {}  BY <1>5
  <2>7. RecordInv'
    <3>1. records[t] > 0  BY <1>1, <2>2 DEF SavedInv, RecordInv
    <3>2. RetiredHaveRecords'
      BY <1>2, <1>5, <3>1 DEF SavedInv, RecordInv, RetiredHaveRecords
    <3> QED  BY <1>1, <1>2, <2>3, <3>2 DEF SavedInv, RecordInv
  <2> QED  BY <1>1, <1>2, <2>4, <2>5, <2>6, <2>7 DEF SavedInv, up
<1> QED  BY <1>3, <1>4, <1>5 DEF delete_expired_players

LEMMA CleaningInv ==
  ASSUME SavedInv, delete_empty_sessions
  PROVE  SavedInv'
<1> DEFINE T == {s \in Session : Conserved(s) /\ (retired = {} => Ordered(s))}
<1>1. TypeOK /\ up  BY DEF SavedInv, delete_empty_sessions
<1>2. /\ UNCHANGED <<process, issued, file, records, retired, restarts>>
      /\ sessions' = with_players(sessions) /\ Abandon
  BY DEF delete_empty_sessions
<1>3. sessions \in Seq(T)
  <2>1. \A i \in DOMAIN sessions : sessions[i] \in T  BY <1>1 DEF SavedInv, TypeOK
  <2> HIDE DEF T
  <2> QED  BY <1>1, <2>1 DEF TypeOK
<1>4. sessions' \in Seq(T)  BY <1>2, <1>3, WithPlayersAreOfTheSame
<1>5. \A i \in DOMAIN sessions' : sessions'[i] \in T
  <2> HIDE DEF T
  <2> QED  BY <1>4
<1>6. sessions' \in Seq(Session)
  <2>1. \A i \in DOMAIN sessions' : sessions'[i] \in Session  BY <1>5
  <2> HIDE DEF T
  <2> QED  BY <1>4, <2>1
<1>7. TypeOK'  BY <1>1, <1>2, <1>6 DEF TypeOK, Abandon
<1>8. RecordInv'  BY <1>2 DEF Abandon, SavedInv, RecordInv, RetiredHaveRecords
<1>9. up'  BY <1>1, <1>2 DEF up
<1> QED  BY <1>2, <1>5, <1>7, <1>8, <1>9 DEF SavedInv

(* Shutdown and Crash. *)
LEMMA StopInv ==
  ASSUME SavedInv, NEW ending \in {"exited", "crashed", "overflowed"}, Stop(ending),
         file' \in Seq(SessionInfo), \A i \in DOMAIN file' : Conserved(file'[i]),
         retired = {} => \A i \in DOMAIN file' : IdsInOrder(file'[i].players),
         ~ArchiveWorks => file' = <<>>
  PROVE  SavedInv'
<1>1. /\ process' = ending /\ sessions' = <<>> /\ Abandon
      /\ UNCHANGED <<issued, records, retired, restarts>>
  BY DEF Stop
<1>2. TypeOK'  BY <1>1 DEF SavedInv, TypeOK, Abandon
<1>3. DOMAIN sessions' = {}  BY <1>1
<1>4. RecordInv'  BY <1>1 DEF Abandon, SavedInv, RecordInv, RetiredHaveRecords
<1>5. phase' = "none"  BY <1>1 DEF Abandon
<1> QED  BY <1>1, <1>2, <1>3, <1>4, <1>5 DEF SavedInv

LEMMA ShutdownInv ==
  ASSUME SavedInv, Shutdown
  PROVE  SavedInv'
<1>1. CASE UNCHANGED file /\ Stop("exited")  BY <1>1, StopInv DEF SavedInv, TypeOK
<1>2. CASE ArchiveWorks /\ file' = create_game_state /\ Stop("exited")
  <2>1. sessions \in Seq(Session) /\ \A i \in DOMAIN sessions : Conserved(sessions[i])
    BY DEF SavedInv, TypeOK
  <2>2. \A i \in DOMAIN sessions :
          /\ get_session_state(sessions[i]) \in SessionInfo
          /\ Conserved(get_session_state(sessions[i]))
          /\ Ordered(sessions[i]) => IdsInOrder(get_session_state(sessions[i]).players)
    BY <2>1, SavedState
  <2>3. /\ DOMAIN file' = DOMAIN sessions
        /\ \A i \in DOMAIN sessions : file'[i] = get_session_state(sessions[i])
    BY <1>2 DEF create_game_state
  <2>4. file' \in Seq(SessionInfo)
    <3>1. DOMAIN sessions = 1 .. Len(sessions) /\ Len(sessions) \in Nat  BY <2>1
    <3> QED  BY <1>2, <2>2, <3>1 DEF create_game_state
  <2>5. \A i \in DOMAIN file' : Conserved(file'[i])  BY <2>2, <2>3
  <2>6. retired = {} => \A i \in DOMAIN file' : IdsInOrder(file'[i].players)
    BY <2>2, <2>3 DEF SavedInv
  <2> QED  BY <1>2, <2>4, <2>5, <2>6, StopInv
<1>3. CASE file' = <<>> /\ Stop("overflowed")
  <2>1. file' \in Seq(SessionInfo) /\ DOMAIN file' = {}  BY <1>3
  <2> QED  BY <1>3, <2>1, StopInv
<1> QED  BY <1>1, <1>2, <1>3 DEF Shutdown

LEMMA CrashInv ==
  ASSUME SavedInv, Crash
  PROVE  SavedInv'
BY StopInv DEF Crash, SavedInv, TypeOK

LEMMA RestartInv ==
  ASSUME SavedInv, Restart
  PROVE  SavedInv' /\ create_game_state' = file'
<1>1. /\ TypeOK /\ ~up /\ phase = "none" /\ process' = "up" /\ restarts' = restarts + 1
      /\ UNCHANGED <<issued, file, records, handler, retired>>
  BY DEF SavedInv, Restart
<1>2. /\ sessions' \in Seq(Session)
      /\ DOMAIN sessions' = DOMAIN file
      /\ \A i \in DOMAIN file : sessions'[i] = restore_session(file[i])
  <2>1. CASE ArchiveWorks
    <3>1. sessions' = [i \in DOMAIN file |-> restore_session(file[i])]  BY <2>1 DEF Restart
    <3>2. DOMAIN file = 1 .. Len(file) /\ Len(file) \in Nat
          /\ \A i \in DOMAIN file : file[i] \in SessionInfo /\ Conserved(file[i])
      BY <1>1 DEF TypeOK, SavedInv
    <3>3. \A i \in DOMAIN file : restore_session(file[i]) \in Session
      BY <3>2, RestoredState
    <3> QED  BY <3>1, <3>2, <3>3
  <2>2. CASE ~ArchiveWorks
    <3>1. sessions' = <<>> /\ file = <<>>  BY <2>2 DEF Restart, SavedInv
    <3> QED  BY <3>1
  <2> QED  BY <2>1, <2>2
<1>3. \A i \in DOMAIN file : file[i] \in SessionInfo /\ Conserved(file[i])
  BY <1>1 DEF TypeOK, SavedInv
<1>4. \A i \in DOMAIN file :
        /\ Conserved(restore_session(file[i]))
        /\ IdsInOrder(file[i].players) => Ordered(restore_session(file[i]))
        /\ get_session_state(restore_session(file[i])) = file[i]
  BY <1>3, RestoredState
<1>5. TypeOK'  BY <1>1, <1>2 DEF TypeOK, handler
<1>6. RecordInv'  BY <1>1, RecordsKept DEF SavedInv
<1>7. up'  BY <1>1 DEF up
<1>8. SavedInv'  BY <1>1, <1>2, <1>4, <1>5, <1>6, <1>7 DEF SavedInv
<1>9. create_game_state' = file'
  <2>1. create_game_state' = [i \in DOMAIN sessions' |-> get_session_state(sessions'[i])]
    BY DEF create_game_state, get_session_state
  <2>2. \A i \in DOMAIN file : get_session_state(sessions'[i]) = file[i]  BY <1>2, <1>4
  <2>3. file = [i \in DOMAIN file |-> file[i]]  BY <1>1 DEF TypeOK
  <2> QED  BY <1>1, <1>2, <2>1, <2>2, <2>3
<1> QED  BY <1>8, <1>9

LEMMA SavedStep == SavedInv /\ [Next]_vars => SavedInv'
<1> SUFFICES ASSUME SavedInv, [Next]_vars PROVE SavedInv'  OBVIOUS
<1>1. ASSUME NEW m \in Maps, NEW name \in Names, NEW token \in Tokens, Join(m, name, token)
      PROVE  SavedInv'
  BY <1>1, JoinInv
<1>2. ASSUME NEW i \in DOMAIN sessions, Play(i) PROVE SavedInv'  BY <1>2, PlayInv
<1>3. CASE handle_retired_players
  BY <1>3, ExpiredInv, RecordingInv, DeletionInv, CleaningInv DEF handle_retired_players
<1>4. CASE Shutdown  BY <1>4, ShutdownInv
<1>5. CASE Crash  BY <1>5, CrashInv
<1>6. CASE Restart  BY <1>6, RestartInv
<1>7. CASE UNCHANGED vars
  <2>1. UNCHANGED <<process, sessions, issued, file, records, phase, expired, handled,
                    retired, restarts>>
    BY <1>7 DEF vars, game, handler
  <2>2. TypeOK' /\ RecordInv' /\ (up' <=> up)
    BY <2>1 DEF SavedInv, TypeOK, RecordInv, RetiredHaveRecords, up
  <2> QED  BY <2>1, <2>2 DEF SavedInv
<1> QED  BY <1>1, <1>2, <1>3, <1>4, <1>5, <1>6, <1>7 DEF Next

LEMMA Invariant == Spec => []SavedInv
<1>1. Init => SavedInv  BY SavedInit
<1>2. SavedInv /\ [Next]_vars => SavedInv'  BY SavedStep
<1> QED  BY <1>1, <1>2, PTL DEF Spec

-----------------------------------------------------------------------------
(* Theorems. *)

(* TypeOK: the sessions, the file, the records and the progress of the     *)
(* handler of retirement stay what Game and its database keep.             *)
THEOREM SavedTypes == Spec => []TypeOK
<1>1. SavedInv => TypeOK  BY DEF SavedInv
<1> QED  BY <1>1, Invariant, PTL

(* LootConserved: saving and restoring, finding a loot by an identifier    *)
(* that may be given out twice, and deleting players lose and double none. *)
THEOREM LootIsConserved == Spec => []LootConserved
<1>1. SavedInv => LootConserved  BY DEF SavedInv, Conserved, LootConserved
<1> QED  BY <1>1, Invariant, PTL

(* IdsFollowJoinOrder: as long as nobody is deleted, a player's identifier *)
(* is its place in the list, also behind add_player and init_player of a   *)
(* restored game.                                                          *)
THEOREM IdsCountPlayers == Spec => []IdsFollowJoinOrder
<1>1. SavedInv => IdsFollowJoinOrder
  BY DEF SavedInv, Ordered, IdsInOrder, IdsFollowJoinOrder
<1> QED  BY <1>1, Invariant, PTL

(* RetiredHaveRecords: delete_expired_players runs only behind a loop that *)
(* has saved every expired player, and no step takes a record away.        *)
THEOREM NobodyRetiresUnrecorded == Spec => []RetiredHaveRecords
<1>1. SavedInv => RetiredHaveRecords  BY DEF SavedInv, RecordInv
<1> QED  BY <1>1, Invariant, PTL

(* RestoredIsSaved: create_game_state after restore_sessions is the file   *)
(* that was read.                                                          *)
THEOREM RestoringLosesNothing == Spec => RestoredIsSaved
<1>1. SavedInv /\ [Next]_vars => [~up /\ up' => create_game_state' = file']_vars
  <2> SUFFICES ASSUME SavedInv, Next, ~up, up' PROVE create_game_state' = file'
    OBVIOUS
  <2>1. sessions = <<>> /\ DOMAIN sessions = {}  BY DEF SavedInv
  <2>2. Restart
    BY <2>1 DEF Next, Join, Idle, handle_retired_players, find_expired_players,
      save_expired_players, delete_expired_players, delete_empty_sessions, Shutdown, Crash
  <2> QED  BY <2>2, RestartInv
<1> QED  BY <1>1, Invariant, PTL DEF Spec, RestoredIsSaved
=============================================================================
