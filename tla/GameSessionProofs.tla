------------------------- MODULE GameSessionProofs -------------------------
(***************************************************************************)
(* Theorems about GameSession for any players, offices, loot types, bag    *)
(* capacity and tick durations, and any value of the bounds.               *)
(***************************************************************************)
EXTENDS GameSession, SequenceTheorems, TLAPS

(* Tick actions read players[cursor]; this is what keeps that defined, and *)
(* the rest of what the type invariant needs to be inductive.              *)
TickShape ==
  /\ phase \in {"items", "pass"} => cursor <= Len(players)
  /\ phase # "pass" => passed = 0
  /\ phase = "pass" => passed <= Len(gathered_loots[players[cursor]])

TypeInv == TypeOK /\ TickShape

(* Adding to one component of a function into the naturals. *)
LEMMA AddAt ==
  ASSUME NEW S, NEW f \in [S -> Nat], NEW x \in S, NEW d \in Nat
  PROVE  [f EXCEPT ![x] = @ + d] \in [S -> Nat]
OBVIOUS

(* Taking element j out of a sequence shifts the elements behind it. *)
LEMMA RemoveAtElements ==
  ASSUME NEW S, NEW s \in Seq(S), NEW j \in 1 .. Len(s)
  PROVE  /\ RemoveAt(s, j) \in Seq(S)
         /\ Len(RemoveAt(s, j)) = Len(s) - 1
         /\ \A i \in 1 .. Len(s) - 1 :
              RemoveAt(s, j)[i] = IF i < j THEN s[i] ELSE s[i + 1]
<1> DEFINE a == SubSeq(s, 1, j - 1)
           b == SubSeq(s, j + 1, Len(s))
<1>0. Len(s) \in Nat /\ j \in Nat
  OBVIOUS
<1>1. /\ a \in Seq(S)
      /\ Len(a) = j - 1
      /\ \A i \in 1 .. j - 1 : a[i] = s[i]
  <2>1. /\ a \in Seq(S)
        /\ Len(a) = IF 1 <= j - 1 THEN j - 1 - 1 + 1 ELSE 0
        /\ \A i \in 1 .. j - 1 - 1 + 1 : a[i] = s[1 + i - 1]
    BY <1>0, SubSeqProperties
  <2> HIDE DEF a
  <2> QED BY <2>1, <1>0
<1>2. /\ b \in Seq(S)
      /\ Len(b) = Len(s) - j
      /\ \A i \in 1 .. Len(s) - j : b[i] = s[i + j]
  <2>1. /\ b \in Seq(S)
        /\ Len(b) = IF j + 1 <= Len(s) THEN Len(s) - (j + 1) + 1 ELSE 0
        /\ \A i \in 1 .. Len(s) - (j + 1) + 1 : b[i] = s[j + 1 + i - 1]
    BY <1>0, SubSeqProperties
  <2> HIDE DEF b
  <2> QED BY <2>1, <1>0
<1> HIDE DEF a, b
<1>3. /\ a \o b \in Seq(S)
      /\ Len(a \o b) = Len(a) + Len(b)
      /\ \A i \in 1 .. Len(a) + Len(b) :
           (a \o b)[i] = IF i <= Len(a) THEN a[i] ELSE b[i - Len(a)]
  BY <1>1, <1>2, ConcatProperties
<1>4. ASSUME NEW i \in 1 .. Len(s) - 1
      PROVE  (a \o b)[i] = IF i < j THEN s[i] ELSE s[i + 1]
  <2>1. CASE i < j
    BY <1>1, <1>2, <1>3, <2>1
  <2>2. CASE ~(i < j)
    <3>1. i - (j - 1) \in 1 .. Len(s) - j
      BY <2>2
    <3>2. b[i - (j - 1)] = s[i - (j - 1) + j]
      BY <1>2, <3>1
    <3>3. (a \o b)[i] = b[i - (j - 1)]
      BY <1>1, <1>2, <1>3, <2>2
    <3>4. i - (j - 1) + j = i + 1
      BY <1>0
    <3>5. (a \o b)[i] = s[i + 1]
      BY <3>2, <3>3, <3>4, Zenon
    <3> QED BY <3>5, <2>2, <1>0
  <2> QED BY <2>1, <2>2
<1>5. RemoveAt(s, j) = a \o b
  BY DEF RemoveAt, a, b
<1>6. Len(a \o b) = Len(s) - 1
  BY <1>0, <1>1, <1>2, <1>3
<1> QED BY <1>3, <1>4, <1>5, <1>6

LEMMA ItemsTyped ==
  ASSUME SessionAssumption, TypeOK, NEW ev \in GatherEvents
  PROVE  [i \in DOMAIN ev |-> AllItems[ev[i]]] \in Seq(Item)
<1> DEFINE N == Len(loots_info) + Offices
<1>1. N \in Nat
  BY DEF SessionAssumption, TypeOK
<1>2. AllItems \in [1 .. N -> Item]
  <2>1. ASSUME NEW i \in 1 .. N
        PROVE  (IF i <= Len(loots_info)
                THEN [id_ |-> loots_info[i].id, type_ |-> "Loot"]
                ELSE [id_ |-> 0, type_ |-> "Office"]) \in Item
    <3>1. CASE i <= Len(loots_info)
      <4>1. loots_info[i] \in Loot
        BY <3>1, <1>1 DEF TypeOK
      <4> QED BY <3>1, <4>1 DEF Loot, Item
    <3>2. CASE ~(i <= Len(loots_info))
      BY <3>2 DEF Item
    <3> QED BY <3>1, <3>2
  <2> QED BY <2>1 DEF AllItems
<1>3. PICK m \in 0 .. N : ev \in [1 .. m -> DOMAIN AllItems]
  BY DEF GatherEvents, BoundedSeq, SeqOf
<1>4. DOMAIN ev = 1 .. m /\ m \in Nat
  BY <1>1, <1>3
<1>5. [i \in 1 .. m |-> AllItems[ev[i]]] \in [1 .. m -> Item]
  BY <1>2, <1>3
<1> QED BY <1>4, <1>5

LEMMA TypeInit == SessionAssumption /\ Init => TypeInv
BY DEF SessionAssumption, Init, TypeInv, TypeOK, TickShape, Phase

(***************************************************************************)
(* Type correctness.                                                       *)
(***************************************************************************)
LEMMA TypeStep == SessionAssumption /\ TypeInv /\ [Next]_vars => TypeInv'
<1> SUFFICES ASSUME SessionAssumption, TypeInv, [Next]_vars
             PROVE  TypeInv'
  OBVIOUS
<1> USE DEF TypeInv
<1>1. ASSUME NEW p \in Names, AddPlayer(p)
      PROVE  TypeInv'
  BY <1>1 DEF AddPlayer, TypeOK, TickShape, dogVars, tickVars, Phase
<1>2. ASSUME NEW p \in Names, NEW go \in BOOLEAN, SetSpeed(p, go)
      PROVE  TypeInv'
  BY <1>2 DEF SetSpeed, TypeOK, TickShape, tickVars, Phase
<1>3. ASSUME NEW d \in Deltas, BeginTick(d)
      PROVE  TypeInv'
  <2>1. loot_shortage \in Nat
    BY DEF loot_shortage, TypeOK
  <2> QED BY <1>3, <2>1
          DEF BeginTick, TypeOK, TickShape, dogVars, Phase, SessionAssumption
<1>4. ASSUME NEW t \in LootTypes, GenerateOne(t)
      PROVE  TypeInv'
  <2>1. loots_info' \in Seq(Loot)
    BY <1>4 DEF GenerateOne, TypeOK, Loot
  <2>2. /\ loot_id' \in Nat
        /\ todo' \in Nat
    BY <1>4 DEF GenerateOne, TypeOK
  <2> QED BY <1>4, <2>1, <2>2 DEF GenerateOne, TypeOK, TickShape, dogVars
<1>5. ASSUME BeginMoves
      PROVE  TypeInv'
  BY <1>5 DEF BeginMoves, TypeOK, TickShape, dogVars, Phase
<1>6. ASSUME MoveDogStuck
      PROVE  TypeInv'
  <2>1. players[cursor] \in Names
    BY <1>6 DEF MoveDogStuck, TypeOK
  <2>2. /\ play_time' \in [Names -> Nat]
        /\ idle_time' \in [Names -> Nat]
    BY <1>6, <2>1, AddAt DEF MoveDogStuck, TypeOK
  <2>3. /\ running' \in [Names -> BOOLEAN]
        /\ on_road' \in [Names -> BOOLEAN]
    BY <1>6, <2>1 DEF MoveDogStuck, TypeOK
  <2>4. TypeOK'
    <3>1. /\ UNCHANGED <<players, loots_info, loot_id, gathered_loots, score,
                         delta, todo, items, passed, now>>
          /\ phase' = "idle"
          /\ cursor' = 1
      BY <1>6 DEF MoveDogStuck
    <3> QED BY <2>2, <2>3, <3>1 DEF TypeOK, Phase
  <2>5. TickShape'
    BY <1>6 DEF MoveDogStuck, TickShape
  <2> QED BY <2>4, <2>5
<1>7. ASSUME MoveDogAlong
      PROVE  TypeInv'
  <2>1. players[cursor] \in Names
    BY <1>7 DEF MoveDogAlong, TypeOK
  <2>2. items' \in Seq(Item)
    BY <1>7, ItemsTyped DEF MoveDogAlong
  <2>3. /\ play_time' \in [Names -> Nat]
        /\ idle_time' \in [Names -> Nat]
    BY <1>7, <2>1, AddAt DEF MoveDogAlong, TypeOK
  <2>4. /\ running' \in [Names -> BOOLEAN]
        /\ on_road' \in [Names -> BOOLEAN]
    BY <1>7, <2>1 DEF MoveDogAlong, TypeOK
  <2> QED BY <1>7, <2>2, <2>3, <2>4
          DEF MoveDogAlong, TypeOK, TickShape, Phase
<1>8. ASSUME ReachOffice
      PROVE  TypeInv'
  <2>1. players[cursor] \in Names
    BY <1>8 DEF ReachOffice, TypeOK, TickShape
  <2>2. items' \in Seq(Item)
    BY <1>8 DEF ReachOffice, TypeOK
  <2>3. gathered_loots[players[cursor]] \in Seq(Loot)
    BY <2>1 DEF TypeOK
  <2>4. TypeOK'
    BY <1>8, <2>2 DEF ReachOffice, TypeOK, Phase, dogVars
  <2>5. TickShape'
    BY <1>8, <2>3 DEF ReachOffice, TickShape, dogVars
  <2> QED BY <2>4, <2>5
<1>9. ASSUME TakeLoot
      PROVE  TypeInv'
  <2>1. players[cursor] \in Names
    BY <1>9 DEF TakeLoot, TypeOK, TickShape
  <2>2. PICK j \in DOMAIN loots_info :
          /\ gathered_loots' = [gathered_loots EXCEPT
               ![players[cursor]] = Append(@, loots_info[j])]
          /\ loots_info' = RemoveAt(loots_info, j)
    BY <1>9 DEF TakeLoot
  <2>3. loots_info' \in Seq(Loot)
    BY <2>2, RemoveAtElements DEF TypeOK
  <2>4. gathered_loots' \in [Names -> Seq(Loot)]
    BY <2>1, <2>2 DEF TypeOK
  <2>5. items' \in Seq(Item)
    BY <1>9 DEF TakeLoot, TypeOK
  <2> QED BY <1>9, <2>3, <2>4, <2>5 DEF TakeLoot, TypeOK, TickShape, Phase
<1>10. ASSUME LeaveLoot
       PROVE  TypeInv'
  <2>1. items' \in Seq(Item)
    BY <1>10 DEF LeaveLoot, TypeOK
  <2> QED BY <1>10, <2>1 DEF LeaveLoot, TypeOK, TickShape, dogVars
<1>11. ASSUME PassOne
       PROVE  TypeInv'
  <2>1. players[cursor] \in Names
    BY <1>11 DEF PassOne, TypeOK, TickShape
  <2>2. gathered_loots[players[cursor]][passed + 1] \in Loot
    BY <1>11, <2>1 DEF PassOne, TypeOK
  <2>3. LootScore[gathered_loots[players[cursor]][passed + 1].type] \in Nat
    BY <2>2 DEF Loot, SessionAssumption
  <2>4. score' \in [Names -> Nat]
    <3> DEFINE d == LootScore[gathered_loots[players[cursor]][passed + 1].type]
    <3>1. score' = [score EXCEPT ![players[cursor]] = @ + d]
      BY <1>11 DEF PassOne
    <3>2. d \in Nat
      BY <2>3
    <3> HIDE DEF d
    <3> QED BY <2>1, <3>1, <3>2, AddAt DEF TypeOK
  <2>5. /\ passed' \in Nat
        /\ passed' <= Len(gathered_loots[players[cursor]])
    BY <1>11, <2>1 DEF PassOne, TypeOK
  <2> QED BY <1>11, <2>4, <2>5 DEF PassOne, TypeOK, TickShape
<1>12. ASSUME ClearBag
       PROVE  TypeInv'
  <2>1. players[cursor] \in Names
    BY <1>12 DEF ClearBag, TypeOK, TickShape
  <2>2. gathered_loots' \in [Names -> Seq(Loot)]
    BY <1>12, <2>1 DEF ClearBag, TypeOK
  <2> QED BY <1>12, <2>2 DEF ClearBag, TypeOK, TickShape, Phase
<1>13. ASSUME NextDog
       PROVE  TypeInv'
  BY <1>13 DEF NextDog, TypeOK, TickShape, dogVars, Phase
<1>14. ASSUME EndTick
       PROVE  TypeInv'
  BY <1>14 DEF EndTick, TypeOK, TickShape, dogVars, Phase
<1>15. ASSUME UNCHANGED vars
       PROVE  TypeInv'
  BY <1>15 DEF vars, TypeOK, TickShape, dogVars, tickVars
<1> QED
  BY <1>1, <1>2, <1>3, <1>4, <1>5, <1>6, <1>7, <1>8, <1>9, <1>10, <1>11,
     <1>12, <1>13, <1>14, <1>15
  DEF Next, TickStep, GenerateLoot, MoveDog, AddLootToDog

(* Every reachable state of a session, between handlers and inside a tick, *)
(* is well typed, and players[cursor] is defined wherever a step reads it. *)
THEOREM TypeCorrect == Spec => []TypeOK
<1>1. Init => TypeInv
  BY SessionAssumption, TypeInit
<1>2. TypeInv /\ [Next]_vars => TypeInv'
  BY SessionAssumption, TypeStep
<1> QED BY <1>1, <1>2, PTL DEF Spec, TypeInv

(***************************************************************************)
(* How many loots there are.                                               *)
(***************************************************************************)
LEMMA CountStep ==
  TypeInv /\ LootBoundedByLooters /\ [Next]_vars => LootBoundedByLooters'
<1> SUFFICES ASSUME TypeInv, LootBoundedByLooters, [Next]_vars
             PROVE  LootBoundedByLooters'
  OBVIOUS
<1>0. Len(loots_info) \in Nat /\ Len(players) \in Nat /\ todo \in Nat
  BY DEF TypeInv, TypeOK
<1>1. ASSUME NEW p \in Names, AddPlayer(p)
      PROVE  LootBoundedByLooters'
  <2>1. Len(players') >= Len(players)
    BY <1>1 DEF AddPlayer, TypeInv, TypeOK
  <2> QED BY <1>0, <1>1, <2>1
          DEF AddPlayer, LootBoundedByLooters, tickVars
<1>2. ASSUME NEW d \in Deltas, BeginTick(d)
      PROVE  LootBoundedByLooters'
  BY <1>0, <1>2 DEF BeginTick, loot_shortage, LootBoundedByLooters
<1>3. ASSUME NEW t \in LootTypes, GenerateOne(t)
      PROVE  LootBoundedByLooters'
  <2>1. Len(loots_info') = Len(loots_info) + 1
    BY <1>3 DEF GenerateOne, TypeInv, TypeOK
  <2> QED BY <1>0, <1>3, <2>1 DEF GenerateOne, LootBoundedByLooters
<1>4. ASSUME TakeLoot
      PROVE  LootBoundedByLooters'
  <2>1. PICK j \in DOMAIN loots_info : loots_info' = RemoveAt(loots_info, j)
    BY <1>4 DEF TakeLoot
  <2>2. Len(loots_info') = Len(loots_info) - 1
    BY <2>1, RemoveAtElements DEF TypeInv, TypeOK
  <2> QED BY <1>0, <1>4, <2>2 DEF TakeLoot, LootBoundedByLooters
<1>5. CASE UNCHANGED <<players, loots_info, todo>>
  BY <1>5 DEF LootBoundedByLooters
<1> QED
  BY <1>1, <1>2, <1>3, <1>4, <1>5
  DEF Next, TickStep, GenerateLoot, MoveDog, AddLootToDog, SetSpeed,
      BeginMoves, MoveDogStuck, MoveDogAlong, ReachOffice, LeaveLoot, PassOne,
      ClearBag, NextDog, EndTick, vars, tickVars

(* The documented promise of the loot generator holds for the session that *)
(* uses it, at every moment of a tick: never more loots than players.      *)
THEOREM LootNeverExceedsLooters == Spec => []LootBoundedByLooters
<1>1. Init => LootBoundedByLooters
  BY DEF Init, LootBoundedByLooters
<1>2. Init => TypeInv
  BY SessionAssumption, TypeInit
<1>3. TypeInv /\ [Next]_vars => TypeInv'
  BY SessionAssumption, TypeStep
<1> QED BY <1>1, <1>2, <1>3, CountStep, PTL DEF Spec

(***************************************************************************)
(* Fairness among the players of one session.                              *)
(***************************************************************************)

(* The players whose turn in the current MoveDogs loop has begun. *)
Served(i) ==
  \/ phase = "move" /\ i < cursor
  \/ phase \in {"items", "pass"} /\ i <= cursor

(* What makes PlayTimeFollowsJoinOrder inductive: a name plays once, has   *)
(* no play time before it joins, and a player already served in this tick  *)
(* is ahead of a later one that is not by at least the tick.               *)
OrderInv ==
  /\ \A i, j \in DOMAIN players : players[i] = players[j] => i = j
  /\ \A p \in Names : ~Joined(p) => play_time[p] = 0
  /\ PlayTimeFollowsJoinOrder
  /\ \A i, j \in DOMAIN players :
       i < j /\ Served(i) /\ ~Served(j)
         => play_time[players[i]] >= play_time[players[j]] + delta

(* Only a dog that just moved lets the loop go on to the next player. *)
MovedInv ==
  \A i \in DOMAIN players : Served(i) => idle_time[players[i]] = 0

LEMMA OrderStep == TypeInv /\ OrderInv /\ [Next]_vars => OrderInv'
<1> SUFFICES ASSUME TypeInv, OrderInv, [Next]_vars
             PROVE  OrderInv'
  OBVIOUS
<1>0. /\ players \in Seq(Names)
      /\ play_time \in [Names -> Nat]
      /\ cursor \in Nat
      /\ delta \in Nat
      /\ \A i \in DOMAIN players : players[i] \in Names
  BY DEF TypeInv, TypeOK
<1>1. ASSUME NEW p \in Names, AddPlayer(p)
      PROVE  OrderInv'
  <2>1. CASE Joined(p)
    BY <1>1, <2>1 DEF AddPlayer, OrderInv, PlayTimeFollowsJoinOrder, Joined,
                      Served, dogVars, tickVars
  <2>2. CASE ~Joined(p)
    <3>1. /\ DOMAIN players' = 1 .. Len(players) + 1
          /\ DOMAIN players = 1 .. Len(players)
          /\ \A i \in DOMAIN players : players'[i] = players[i]
          /\ players'[Len(players) + 1] = p
          /\ Len(players) \in Nat
      BY <1>0, <1>1, <2>2 DEF AddPlayer
    <3>2. \A i \in DOMAIN players : players[i] # p
      BY <2>2 DEF Joined
    <3>3. UNCHANGED <<play_time, phase, cursor, delta>> /\ phase = "idle"
      BY <1>1 DEF AddPlayer, dogVars, tickVars
    <3>4. play_time[p] = 0
      BY <2>2 DEF OrderInv
    <3>5. \A i, j \in DOMAIN players' : players'[i] = players'[j] => i = j
      BY <3>1, <3>2 DEF OrderInv
    <3>6. \A q \in Names : ~Joined(q)' => play_time'[q] = 0
      BY <3>1, <3>3 DEF OrderInv, Joined
    <3>7. PlayTimeFollowsJoinOrder'
      <4>1. ASSUME NEW i \in DOMAIN players', NEW j \in DOMAIN players', i < j
            PROVE  play_time'[players'[i]] >= play_time'[players'[j]]
        <5>1. i \in DOMAIN players
          BY <3>1, <4>1
        <5>2. CASE j \in DOMAIN players
          BY <3>1, <3>3, <4>1, <5>1, <5>2 DEF OrderInv, PlayTimeFollowsJoinOrder
        <5>3. CASE j = Len(players) + 1
          BY <1>0, <3>1, <3>3, <3>4, <5>1, <5>3
        <5> QED BY <3>1, <5>2, <5>3
      <4> QED BY <4>1 DEF PlayTimeFollowsJoinOrder
    <3>8. \A i : ~Served(i)'
      BY <3>3 DEF Served
    <3> QED BY <3>5, <3>6, <3>7, <3>8 DEF OrderInv
  <2> QED BY <2>1, <2>2
<1>2. ASSUME UNCHANGED <<players, play_time>>, \A i : ~Served(i)'
      PROVE  OrderInv'
  BY <1>2 DEF OrderInv, PlayTimeFollowsJoinOrder, Joined
<1>3. ASSUME NEW p \in Names, NEW go \in BOOLEAN, SetSpeed(p, go)
      PROVE  OrderInv'
  BY <1>2, <1>3 DEF SetSpeed, tickVars, Served
<1>4. ASSUME NEW d \in Deltas, BeginTick(d)
      PROVE  OrderInv'
  BY <1>2, <1>4 DEF BeginTick, dogVars, Served
<1>5. ASSUME NEW t \in LootTypes, GenerateOne(t)
      PROVE  OrderInv'
  BY <1>2, <1>5 DEF GenerateOne, dogVars, Served
<1>6. ASSUME BeginMoves
      PROVE  OrderInv'
  <2>1. \A i \in DOMAIN players : ~Served(i)'
    BY <1>0, <1>6 DEF BeginMoves, Served
  <2> QED BY <1>6, <2>1 DEF BeginMoves, dogVars, OrderInv, Joined,
                            PlayTimeFollowsJoinOrder
(* The player at the cursor has its turn: its clock advances by delta.     *)
<1>7. ASSUME phase = "move", cursor <= Len(players), UNCHANGED players,
             play_time' = [play_time EXCEPT ![players[cursor]] = @ + delta]
      PROVE  /\ \A i, j \in DOMAIN players' : players'[i] = players'[j] => i = j
             /\ \A p \in Names : ~Joined(p)' => play_time'[p] = 0
             /\ PlayTimeFollowsJoinOrder'
             /\ \A i, j \in DOMAIN players :
                  i <= cursor /\ cursor < j =>
                    play_time'[players[i]] >= play_time'[players[j]] + delta
  <2>1. cursor \in DOMAIN players
    BY <1>0, <1>7 DEF TypeInv, TypeOK
  <2>2. \A i \in DOMAIN players :
          play_time'[players[i]] = IF i = cursor
                                   THEN play_time[players[i]] + delta
                                   ELSE play_time[players[i]]
    BY <1>0, <1>7, <2>1 DEF OrderInv
  <2>3. \A p \in Names : ~Joined(p)' => play_time'[p] = 0
    BY <1>0, <1>7, <2>1 DEF OrderInv, Joined
  <2>4. \A i, j \in DOMAIN players :
          /\ i < j => play_time[players[i]] >= play_time[players[j]]
          /\ i < cursor /\ cursor <= j =>
               play_time[players[i]] >= play_time[players[j]] + delta
    BY <1>0, <1>7 DEF OrderInv, PlayTimeFollowsJoinOrder, Served
  <2>5. PlayTimeFollowsJoinOrder'
    BY <1>0, <1>7, <2>1, <2>2, <2>4 DEF PlayTimeFollowsJoinOrder
  <2>6. ASSUME NEW i \in DOMAIN players, NEW j \in DOMAIN players,
               i <= cursor, cursor < j
        PROVE  play_time'[players[i]] >= play_time'[players[j]] + delta
    <3>1. /\ play_time[players[i]] \in Nat
          /\ play_time[players[j]] \in Nat
          /\ play_time'[players[j]] = play_time[players[j]]
      BY <1>0, <2>2, <2>6
    <3>2. CASE i = cursor
      <4>1. play_time'[players[i]] = play_time[players[i]] + delta
        BY <2>2, <3>2
      <4>2. play_time[players[i]] >= play_time[players[j]]
        BY <2>4, <2>6, <3>2
      <4> QED BY <1>0, <3>1, <4>1, <4>2
    <3>3. CASE i < cursor
      <4>1. play_time'[players[i]] = play_time[players[i]]
        BY <1>0, <2>2, <3>3
      <4>2. play_time[players[i]] >= play_time[players[j]] + delta
        BY <1>0, <2>4, <2>6, <3>3
      <4> QED BY <3>1, <4>1, <4>2
    <3> QED BY <1>0, <2>6, <3>2, <3>3
  <2> QED BY <1>7, <2>3, <2>5, <2>6 DEF OrderInv
<1>8. ASSUME MoveDogStuck
      PROVE  OrderInv'
  <2>1. \A i : ~Served(i)'
    BY <1>8 DEF MoveDogStuck, Served
  <2> QED BY <1>7, <1>8, <2>1 DEF MoveDogStuck, OrderInv
<1>9. ASSUME MoveDogAlong
      PROVE  OrderInv'
  <2>1. UNCHANGED <<players, cursor, delta>> /\ phase' = "items"
    BY <1>9 DEF MoveDogAlong
  <2>2. \A i, j \in DOMAIN players' :
          i < j /\ Served(i)' /\ ~Served(j)' => i <= cursor /\ cursor < j
    BY <1>0, <2>1 DEF Served
  <2> QED BY <1>7, <1>9, <2>1, <2>2 DEF MoveDogAlong, OrderInv
<1>10. ASSUME UNCHANGED <<players, play_time, delta>>,
              \A i \in DOMAIN players : Served(i)' <=> Served(i)
       PROVE  OrderInv'
  BY <1>10 DEF OrderInv, PlayTimeFollowsJoinOrder, Joined
<1>11. ASSUME AddLootToDog
       PROVE  OrderInv'
  <2>1. /\ UNCHANGED <<players, play_time, delta, cursor>>
        /\ phase \in {"items", "pass"}
        /\ phase' \in {"items", "pass"}
    BY <1>11 DEF AddLootToDog, ReachOffice, TakeLoot, LeaveLoot, PassOne,
                 ClearBag, dogVars
  <2> QED BY <1>10, <2>1 DEF Served
<1>12. ASSUME NextDog
       PROVE  OrderInv'
  <2>1. \A i \in DOMAIN players : Served(i)' <=> Served(i)
    BY <1>0, <1>12 DEF NextDog, Served
  <2> QED BY <1>10, <1>12, <2>1 DEF NextDog, dogVars
<1>13. ASSUME EndTick
       PROVE  OrderInv'
  BY <1>2, <1>13 DEF EndTick, dogVars, Served
<1>14. ASSUME UNCHANGED vars
       PROVE  OrderInv'
  BY <1>10, <1>14 DEF vars, dogVars, tickVars, Served
<1> QED
  BY <1>1, <1>3, <1>4, <1>5, <1>6, <1>8, <1>9, <1>11, <1>12, <1>13, <1>14
  DEF Next, TickStep, GenerateLoot, MoveDog

(* No player's clock runs ahead of the clock of one who joined earlier.    *)
THEOREM PlayTimeOrdered == Spec => []PlayTimeFollowsJoinOrder
<1>1. Init => OrderInv
  BY DEF Init, OrderInv, PlayTimeFollowsJoinOrder
<1>2. Init => TypeInv
  BY SessionAssumption, TypeInit
<1>3. TypeInv /\ [Next]_vars => TypeInv'
  BY SessionAssumption, TypeStep
<1>4. OrderInv => PlayTimeFollowsJoinOrder
  BY DEF OrderInv
<1> QED BY <1>1, <1>2, <1>3, <1>4, OrderStep, PTL DEF Spec

LEMMA MovedStep == TypeInv /\ MovedInv /\ [Next]_vars => MovedInv'
<1> SUFFICES ASSUME TypeInv, MovedInv, [Next]_vars
             PROVE  MovedInv'
  OBVIOUS
<1>0. /\ idle_time \in [Names -> Nat]
      /\ cursor \in Nat
      /\ \A i \in DOMAIN players : players[i] \in Names
      /\ DOMAIN players \subseteq Nat \ {0}
  BY DEF TypeInv, TypeOK
<1>1. ASSUME \A i \in DOMAIN players' : ~Served(i)'
      PROVE  MovedInv'
  BY <1>1 DEF MovedInv
<1>2. ASSUME UNCHANGED <<players, idle_time>>,
             \A i \in DOMAIN players : Served(i)' => Served(i)
      PROVE  MovedInv'
  BY <1>2 DEF MovedInv
<1>3. ASSUME MoveDogAlong
      PROVE  MovedInv'
  <2>1. /\ idle_time' = [idle_time EXCEPT ![players[cursor]] = 0]
        /\ UNCHANGED <<players, cursor>>
        /\ phase = "move"
        /\ phase' = "items"
    BY <1>3 DEF MoveDogAlong
  <2>2. ASSUME NEW i \in DOMAIN players, i <= cursor
        PROVE  idle_time'[players[i]] = 0
    <3>1. CASE i = cursor
      BY <1>0, <2>1, <3>1
    <3>2. CASE i < cursor
      <4>1. idle_time[players[i]] = 0
        BY <2>1, <3>2 DEF MovedInv, Served
      <4> QED BY <1>0, <2>1, <4>1
    <3> QED BY <1>0, <2>2, <3>1, <3>2
  <2> QED BY <2>1, <2>2 DEF MovedInv, Served
<1>4. ASSUME MoveDogStuck
      PROVE  MovedInv'
  BY <1>1, <1>4 DEF MoveDogStuck, Served
<1>5. ASSUME NEW p \in Names, AddPlayer(p)
      PROVE  MovedInv'
  BY <1>1, <1>5 DEF AddPlayer, tickVars, Served
<1>6. ASSUME NEW p \in Names, NEW go \in BOOLEAN, SetSpeed(p, go)
      PROVE  MovedInv'
  BY <1>1, <1>6 DEF SetSpeed, tickVars, Served
<1>7. ASSUME NEW d \in Deltas, BeginTick(d)
      PROVE  MovedInv'
  BY <1>1, <1>7 DEF BeginTick, Served
<1>8. ASSUME GenerateLoot
      PROVE  MovedInv'
  <2>1. CASE \E t \in LootTypes : GenerateOne(t)
    BY <1>1, <2>1 DEF GenerateOne, Served
  <2>2. CASE BeginMoves
    <3>1. \A i \in DOMAIN players' : ~Served(i)'
      BY <1>0, <2>2 DEF BeginMoves, Served
    <3> QED BY <1>1, <3>1
  <2> QED BY <1>8, <2>1, <2>2 DEF GenerateLoot
<1>9. ASSUME AddLootToDog
      PROVE  MovedInv'
  <2>1. /\ UNCHANGED <<players, idle_time, cursor>>
        /\ phase \in {"items", "pass"}
        /\ phase' \in {"items", "pass"}
    BY <1>9 DEF AddLootToDog, ReachOffice, TakeLoot, LeaveLoot, PassOne,
                ClearBag, dogVars
  <2> QED BY <1>2, <2>1 DEF Served
<1>10. ASSUME NextDog
       PROVE  MovedInv'
  <2>1. \A i \in DOMAIN players : Served(i)' => Served(i)
    BY <1>0, <1>10 DEF NextDog, Served
  <2> QED BY <1>2, <1>10, <2>1 DEF NextDog, dogVars
<1>11. ASSUME EndTick
       PROVE  MovedInv'
  BY <1>1, <1>11 DEF EndTick, Served
<1>12. ASSUME UNCHANGED vars
       PROVE  MovedInv'
  BY <1>2, <1>12 DEF vars, dogVars, tickVars, Served
<1> QED
  BY <1>3, <1>4, <1>5, <1>6, <1>7, <1>8, <1>9, <1>10, <1>11, <1>12
  DEF Next, TickStep, MoveDog

(* What one step does to the clock, the bag and the score of a player      *)
(* behind a parked one: nothing.                                           *)
HeldUp ==
  \A i, j \in DOMAIN players :
    i < j /\ idle_time[players[i]] > 0
      => LET q == players[j] IN
           /\ play_time'[q] = play_time[q]
           /\ gathered_loots'[q] = gathered_loots[q]
           /\ score'[q] = score[q]

LEMMA HeldUpStep == TypeInv /\ OrderInv /\ MovedInv /\ [Next]_vars => HeldUp
<1> SUFFICES ASSUME TypeInv, OrderInv, MovedInv, [Next]_vars,
                    NEW i \in DOMAIN players, NEW j \in DOMAIN players,
                    i < j, idle_time[players[i]] > 0
             PROVE  /\ play_time'[players[j]] = play_time[players[j]]
                    /\ gathered_loots'[players[j]] = gathered_loots[players[j]]
                    /\ score'[players[j]] = score[players[j]]
  BY DEF HeldUp
<1>0. /\ play_time \in [Names -> Nat]
      /\ gathered_loots \in [Names -> Seq(Loot)]
      /\ score \in [Names -> Nat]
      /\ cursor \in Nat
      /\ players \in Seq(Names)
  BY DEF TypeInv, TypeOK
<1>a. i \in Nat /\ j \in Nat
  BY <1>0
(* The loop has not got past i, for that takes a move that resets idle_time. *)
<1>1. ASSUME phase \in {"move", "items", "pass"}, cursor <= Len(players)
      PROVE  players[j] # players[cursor] /\ players[cursor] \in Names
  <2>1. ~Served(i)
    BY DEF MovedInv
  <2>2. cursor < j
    BY <1>0, <1>a, <1>1, <2>1 DEF Served
  <2>3. cursor \in DOMAIN players
    BY <1>1 DEF TypeInv, TypeOK
  <2> QED BY <1>0, <2>2, <2>3 DEF OrderInv, TypeInv, TypeOK
<1>2. CASE MoveDogStuck
  BY <1>0, <1>1, <1>2 DEF MoveDogStuck
<1>3. CASE MoveDogAlong
  BY <1>0, <1>1, <1>3 DEF MoveDogAlong
<1>4. CASE TakeLoot
  <2>1. players[j] # players[cursor]
    BY <1>1, <1>4 DEF TakeLoot, TypeInv, TickShape
  <2> QED BY <1>0, <1>4, <2>1 DEF TakeLoot
<1>5. CASE PassOne
  <2>1. players[j] # players[cursor]
    BY <1>1, <1>5 DEF PassOne, TypeInv, TickShape
  <2> QED BY <1>0, <1>5, <2>1 DEF PassOne
<1>6. CASE ClearBag
  <2>1. players[j] # players[cursor]
    BY <1>1, <1>6 DEF ClearBag, TypeInv, TickShape
  <2> QED BY <1>0, <1>6, <2>1 DEF ClearBag
<1>7. CASE UNCHANGED <<play_time, gathered_loots, score>>
  BY <1>7
<1> QED
  BY <1>2, <1>3, <1>4, <1>5, <1>6, <1>7
  DEF Next, TickStep, GenerateLoot, MoveDog, AddLootToDog, AddPlayer, SetSpeed,
      BeginTick, GenerateOne, BeginMoves, ReachOffice, LeaveLoot, NextDog,
      EndTick, vars, dogVars

(* Whoever joined after a player whose dog is parked makes no progress.    *)
THEOREM LaterPlayersHeldUp == Spec => ParkedDogHoldsUpLaterOnes
<1>1. Init => OrderInv /\ MovedInv
  BY DEF Init, OrderInv, PlayTimeFollowsJoinOrder, MovedInv
<1>2. Init => TypeInv
  BY SessionAssumption, TypeInit
<1>3. TypeInv /\ [Next]_vars => TypeInv'
  BY SessionAssumption, TypeStep
<1>4. TypeInv /\ OrderInv /\ MovedInv /\ [Next]_vars
        => OrderInv' /\ MovedInv' /\ [HeldUp]_vars
  BY OrderStep, MovedStep, HeldUpStep
<1>5. Spec => [][HeldUp]_vars
  BY <1>1, <1>2, <1>3, <1>4, PTL DEF Spec
<1> QED BY <1>5 DEF ParkedDogHoldsUpLaterOnes, HeldUp

-----------------------------------------------------------------------------
(***************************************************************************)
(* Loots keep their identity in a session, and a session implements the    *)
(* ledger of lost things (module LootLedger).                              *)
(***************************************************************************)
(* Identifiers are given out in order and never twice. *)
IdsBelowNext ==
  /\ \A i \in DOMAIN loots_info : loots_info[i].id < loot_id
  /\ \A p \in Names : \A i \in DOMAIN gathered_loots[p] :
       gathered_loots[p][i].id < loot_id

IdInv == NoSharedIds /\ IdsBelowNext

(* What TakeLoot does, in terms of elements: everything but loot number j  *)
(* stays where it was, and that one goes to the end of the bag of player q. *)
LEMMA TakeLootEffect ==
  ASSUME TypeInv, TakeLoot
  PROVE  LET q == players[cursor] IN
         /\ q \in Names
         /\ \E j \in DOMAIN loots_info :
              /\ DOMAIN loots_info = 1 .. Len(loots_info)
              /\ Len(loots_info) \in Nat
              /\ DOMAIN loots_info' = 1 .. Len(loots_info) - 1
              /\ \A i \in DOMAIN loots_info' :
                   loots_info'[i] = IF i < j THEN loots_info[i]
                                             ELSE loots_info[i + 1]
              /\ \A p \in Names \ {q} : gathered_loots'[p] = gathered_loots[p]
              /\ Len(gathered_loots[q]) \in Nat
              /\ DOMAIN gathered_loots[q] = 1 .. Len(gathered_loots[q])
              /\ DOMAIN gathered_loots'[q] = 1 .. Len(gathered_loots[q]) + 1
              /\ \A i \in DOMAIN gathered_loots[q] :
                   gathered_loots'[q][i] = gathered_loots[q][i]
              /\ gathered_loots'[q][Len(gathered_loots[q]) + 1] = loots_info[j]
<1> DEFINE q == players[cursor]
<1>1. q \in Names
  BY DEF TakeLoot, TypeInv, TypeOK, TickShape
<1>2. PICK j \in DOMAIN loots_info :
        /\ gathered_loots' = [gathered_loots EXCEPT
                                ![q] = Append(@, loots_info[j])]
        /\ loots_info' = RemoveAt(loots_info, j)
  BY DEF TakeLoot
<1> HIDE DEF q
<1>3. loots_info \in Seq(Loot) /\ gathered_loots \in [Names -> Seq(Loot)]
  BY DEF TypeInv, TypeOK
<1>4. /\ loots_info' \in Seq(Loot)
      /\ Len(loots_info') = Len(loots_info) - 1
      /\ \A i \in 1 .. Len(loots_info) - 1 :
           loots_info'[i] = IF i < j THEN loots_info[i] ELSE loots_info[i + 1]
  BY <1>2, <1>3, RemoveAtElements
<1>5. /\ DOMAIN loots_info = 1 .. Len(loots_info)
      /\ Len(loots_info) \in Nat
      /\ DOMAIN loots_info' = 1 .. Len(loots_info) - 1
  BY <1>3, <1>4
<1>6. gathered_loots[q] \in Seq(Loot) /\ loots_info[j] \in Loot
  BY <1>1, <1>3
<1>7. gathered_loots'[q] = Append(gathered_loots[q], loots_info[j])
  BY <1>1, <1>2, <1>3
<1>8. /\ Len(gathered_loots[q]) \in Nat
      /\ DOMAIN gathered_loots[q] = 1 .. Len(gathered_loots[q])
      /\ DOMAIN gathered_loots'[q] = 1 .. Len(gathered_loots[q]) + 1
      /\ \A i \in DOMAIN gathered_loots[q] :
           gathered_loots'[q][i] = gathered_loots[q][i]
      /\ gathered_loots'[q][Len(gathered_loots[q]) + 1] = loots_info[j]
  BY <1>6, <1>7
<1>9. \A p \in Names \ {q} : gathered_loots'[p] = gathered_loots[p]
  BY <1>2, <1>3
<1> QED BY <1>1, <1>4, <1>5, <1>8, <1>9 DEF q

LEMMA LootsTyped ==
  ASSUME TypeInv
  PROVE  /\ loots_info \in Seq(Loot)
         /\ gathered_loots \in [Names -> Seq(Loot)]
         /\ loot_id \in Nat
         /\ \A i \in DOMAIN loots_info : loots_info[i].id \in Nat
         /\ \A p \in Names : \A i \in DOMAIN gathered_loots[p] :
              gathered_loots[p][i].id \in Nat
<1>1. /\ loots_info \in Seq(Loot)
      /\ gathered_loots \in [Names -> Seq(Loot)]
      /\ loot_id \in Nat
  BY DEF TypeInv, TypeOK
<1>2. ASSUME NEW i \in DOMAIN loots_info
      PROVE  loots_info[i].id \in Nat
  <2>1. loots_info[i] \in Loot
    BY <1>1
  <2> QED BY <2>1 DEF Loot
<1>3. ASSUME NEW p \in Names, NEW i \in DOMAIN gathered_loots[p]
      PROVE  gathered_loots[p][i].id \in Nat
  <2>1. gathered_loots[p] \in Seq(Loot)
    BY <1>1
  <2>2. gathered_loots[p][i] \in Loot
    BY <2>1
  <2> QED BY <2>2 DEF Loot
<1> QED BY <1>1, <1>2, <1>3

LEMMA IdStep == TypeInv /\ IdInv /\ [Next]_vars => IdInv'
<1> SUFFICES ASSUME TypeInv, IdInv, [Next]_vars
             PROVE  IdInv'
  OBVIOUS
<1>0. /\ loots_info \in Seq(Loot)
      /\ gathered_loots \in [Names -> Seq(Loot)]
      /\ loot_id \in Nat
      /\ \A i \in DOMAIN loots_info : loots_info[i].id \in Nat
      /\ \A p \in Names : \A i \in DOMAIN gathered_loots[p] :
           gathered_loots[p][i].id \in Nat
  BY LootsTyped
<1>1. ASSUME NEW t \in LootTypes, GenerateOne(t)
      PROVE  IdInv'
  <2>1. /\ DOMAIN loots_info' = 1 .. Len(loots_info) + 1
        /\ DOMAIN loots_info = 1 .. Len(loots_info)
        /\ Len(loots_info) \in Nat
        /\ \A i \in DOMAIN loots_info : loots_info'[i] = loots_info[i]
        /\ loots_info'[Len(loots_info) + 1].id = loot_id
    BY <1>0, <1>1 DEF GenerateOne
  <2>2. UNCHANGED gathered_loots /\ loot_id' = loot_id + 1
    BY <1>1 DEF GenerateOne, dogVars
  <2>3. IdsBelowNext'
    BY <1>0, <2>1, <2>2 DEF IdInv, IdsBelowNext
  <2>4. \A i, j \in DOMAIN loots_info' :
          loots_info'[i].id = loots_info'[j].id => i = j
    BY <1>0, <2>1 DEF IdInv, IdsBelowNext, NoSharedIds
  <2>5. \A p \in Names : \A i \in DOMAIN gathered_loots[p] :
          \A j \in DOMAIN loots_info' :
            gathered_loots[p][i].id # loots_info'[j].id
    BY <1>0, <2>1 DEF IdInv, IdsBelowNext, NoSharedIds
  <2> QED BY <2>2, <2>3, <2>4, <2>5 DEF IdInv, NoSharedIds
<1>2. ASSUME TakeLoot
      PROVE  IdInv'
  <2> DEFINE q == players[cursor]
             n == Len(gathered_loots[q])
  <2>1. q \in Names
    BY <1>2, TakeLootEffect
  <2>2. PICK j \in DOMAIN loots_info :
          /\ DOMAIN loots_info = 1 .. Len(loots_info)
          /\ Len(loots_info) \in Nat
          /\ DOMAIN loots_info' = 1 .. Len(loots_info) - 1
          /\ \A i \in DOMAIN loots_info' :
               loots_info'[i] = IF i < j THEN loots_info[i]
                                         ELSE loots_info[i + 1]
          /\ \A p \in Names \ {q} : gathered_loots'[p] = gathered_loots[p]
          /\ n \in Nat
          /\ DOMAIN gathered_loots[q] = 1 .. n
          /\ DOMAIN gathered_loots'[q] = 1 .. n + 1
          /\ \A i \in DOMAIN gathered_loots[q] :
               gathered_loots'[q][i] = gathered_loots[q][i]
          /\ gathered_loots'[q][n + 1] = loots_info[j]
    BY <1>2, TakeLootEffect
  <2>3. loot_id' = loot_id
    BY <1>2 DEF TakeLoot
  <2> HIDE DEF q, n
  (* Where a loot of the next state comes from. *)
  <2> DEFINE src(i) == IF i < j THEN i ELSE i + 1
  <2>4. \A i \in DOMAIN loots_info' :
          /\ src(i) \in DOMAIN loots_info \ {j}
          /\ loots_info'[i] = loots_info[src(i)]
    BY <2>2
  <2>5. \A i, k \in DOMAIN loots_info' : src(i) = src(k) => i = k
    BY <2>2
  <2>6. \A p \in Names : \A i \in DOMAIN gathered_loots'[p] :
          \/ /\ i \in DOMAIN gathered_loots[p]
             /\ gathered_loots'[p][i] = gathered_loots[p][i]
          \/ p = q /\ i = n + 1 /\ gathered_loots'[p][i] = loots_info[j]
    BY <2>1, <2>2
  <2> HIDE DEF src
  <2>7. IdsBelowNext'
    BY <2>3, <2>4, <2>6 DEF IdInv, IdsBelowNext
  <2>8. \A i, k \in DOMAIN loots_info' :
          loots_info'[i].id = loots_info'[k].id => i = k
    BY <2>4, <2>5 DEF IdInv, NoSharedIds
  <2>9. \A p \in Names : \A i \in DOMAIN gathered_loots'[p] :
          \A k \in DOMAIN loots_info' :
            gathered_loots'[p][i].id # loots_info'[k].id
    BY <2>4, <2>6 DEF IdInv, NoSharedIds
  <2>10. \A p, r \in Names : \A i \in DOMAIN gathered_loots'[p] :
           \A k \in DOMAIN gathered_loots'[r] :
             gathered_loots'[p][i].id = gathered_loots'[r][k].id
               => p = r /\ i = k
    BY <2>6 DEF IdInv, NoSharedIds
  <2> QED BY <2>7, <2>8, <2>9, <2>10 DEF IdInv, NoSharedIds
<1>3. ASSUME ClearBag
      PROVE  IdInv'
  <2>1. \A p \in Names : \/ gathered_loots'[p] = gathered_loots[p]
                         \/ gathered_loots'[p] = <<>>
    BY <1>0, <1>3 DEF ClearBag
  <2>2. \A p \in Names : \A i \in DOMAIN gathered_loots'[p] :
          /\ i \in DOMAIN gathered_loots[p]
          /\ gathered_loots'[p][i] = gathered_loots[p][i]
    BY <2>1
  <2>3. UNCHANGED <<loots_info, loot_id>>
    BY <1>3 DEF ClearBag
  <2> QED BY <2>2, <2>3 DEF IdInv, NoSharedIds, IdsBelowNext
<1>4. CASE UNCHANGED <<loots_info, gathered_loots, loot_id>>
  BY <1>4 DEF IdInv, NoSharedIds, IdsBelowNext
<1> QED
  BY <1>1, <1>2, <1>3, <1>4
  DEF Next, TickStep, GenerateLoot, MoveDog, AddLootToDog, AddPlayer, SetSpeed,
      BeginTick, BeginMoves, MoveDogStuck, MoveDogAlong, ReachOffice,
      LeaveLoot, PassOne, NextDog, EndTick, vars, dogVars

(* No loot is ever in two places, in whatever order dogs pass the loots.   *)
THEOREM LootsKeepTheirIds == Spec => []NoSharedIds
<1>1. Init => IdInv
  BY DEF Init, IdInv, NoSharedIds, IdsBelowNext
<1>2. Init => TypeInv
  BY SessionAssumption, TypeInit
<1>3. TypeInv /\ [Next]_vars => TypeInv'
  BY SessionAssumption, TypeStep
<1>4. IdInv => NoSharedIds
  BY DEF IdInv
<1> QED BY <1>1, <1>2, <1>3, <1>4, IdStep, PTL DEF Spec

(***************************************************************************)
(* The refinement.                                                         *)
(***************************************************************************)

(* First unpaid position of p's bag. *)
FirstUnpaid(p) == IF IsBeingPaid(p) THEN passed + 1 ELSE 1

LEMMA UnpaidElements ==
  ASSUME NEW p, NEW l
  PROVE  l \in Unpaid(p) <=>
           \E j \in FirstUnpaid(p) .. Len(gathered_loots[p]) :
             l = gathered_loots[p][j]
BY DEF Unpaid, FirstUnpaid

(* If nothing the mapping reads changes, the ledger does not change. *)
LEMMA LedgerStutter ==
  ASSUME UNCHANGED <<loots_info, loot_id, score>>,
         \A p \in Names : Unpaid(p)' = Unpaid(p)
  PROVE  UNCHANGED Ledger!ledgerVars
<1>1. Gone' = Gone
  BY DEF Gone
<1> QED BY <1>1 DEF Ledger!ledgerVars

LEMMA StepOutsidePass ==
  ASSUME UNCHANGED <<loots_info, loot_id, score, gathered_loots>>,
         phase # "pass", phase' # "pass"
  PROVE  UNCHANGED Ledger!ledgerVars
<1>1. \A p \in Names : Unpaid(p)' = Unpaid(p)
  BY DEF Unpaid, IsBeingPaid
<1> QED BY <1>1, LedgerStutter

LEMMA RefineAppear ==
  ASSUME TypeInv, IdInv, NEW t \in LootTypes, GenerateOne(t)
  PROVE  Ledger!Appear(t)
<1> DEFINE new == [id |-> loot_id, type |-> t]
<1>1. /\ loots_info' = Append(loots_info, new)
      /\ loot_id' = loot_id + 1
      /\ UNCHANGED <<gathered_loots, score>>
      /\ phase # "pass" /\ phase' # "pass"
  BY DEF GenerateOne, dogVars
<1>2. loots_info \in Seq(Loot) /\ loot_id \in Nat
  BY LootsTyped
<1>a. new.id = loot_id
  OBVIOUS
<1> HIDE DEF new
<1>3. ToSet(loots_info') = ToSet(loots_info) \union {new}
  <2>1. /\ DOMAIN loots_info' = 1 .. Len(loots_info) + 1
        /\ DOMAIN loots_info = 1 .. Len(loots_info)
        /\ Len(loots_info) \in Nat
        /\ \A i \in DOMAIN loots_info : loots_info'[i] = loots_info[i]
        /\ loots_info'[Len(loots_info) + 1] = new
    BY <1>1, <1>2, AppendProperties
  <2> QED BY <2>1 DEF ToSet
<1>4. \A p \in Names : Unpaid(p)' = Unpaid(p)
  BY <1>1 DEF Unpaid, IsBeingPaid
<1>5. Gone' = Gone
  <2>1. ASSUME NEW n
        PROVE  n \in Gone' <=> n \in Gone
    <3>1. (\A l \in ToSet(loots_info') : l.id # n)
            <=> (\A l \in ToSet(loots_info) : l.id # n) /\ n # loot_id
      BY <1>3, <1>a
    <3>2. n \in 0 .. loot_id' - 1 /\ n # loot_id <=> n \in 0 .. loot_id - 1
      BY <1>1, <1>2
    <3> QED BY <1>4, <3>1, <3>2 DEF Gone
  <2> QED BY <2>1
<1> QED BY <1>1, <1>3, <1>4, <1>5 DEF Ledger!Appear, new

LEMMA RefinePickUp ==
  ASSUME TypeInv, IdInv, TakeLoot
  PROVE  \E p \in Names : \E l \in ToSet(loots_info) : Ledger!PickUp(p, l)
<1>1. PICK q \in Names : q = players[cursor]
  BY TakeLootEffect
<1> DEFINE n == Len(gathered_loots[q])
<1>2. PICK j \in DOMAIN loots_info :
        /\ DOMAIN loots_info = 1 .. Len(loots_info)
        /\ Len(loots_info) \in Nat
        /\ DOMAIN loots_info' = 1 .. Len(loots_info) - 1
        /\ \A i \in DOMAIN loots_info' :
             loots_info'[i] = IF i < j THEN loots_info[i]
                                       ELSE loots_info[i + 1]
        /\ \A p \in Names \ {q} : gathered_loots'[p] = gathered_loots[p]
        /\ n \in Nat
        /\ DOMAIN gathered_loots[q] = 1 .. n
        /\ DOMAIN gathered_loots'[q] = 1 .. n + 1
        /\ \A i \in DOMAIN gathered_loots[q] :
             gathered_loots'[q][i] = gathered_loots[q][i]
        /\ gathered_loots'[q][n + 1] = loots_info[j]
  BY <1>1, TakeLootEffect
<1> DEFINE l == loots_info[j]
<1>3. /\ UNCHANGED <<loot_id, score>>
      /\ phase # "pass" /\ phase' # "pass"
  BY DEF TakeLoot
<1>4. /\ \A p \in Names : Unpaid(p) =
           {gathered_loots[p][i] : i \in 1 .. Len(gathered_loots[p])}
      /\ \A p \in Names : Unpaid(p)' =
           {gathered_loots'[p][i] : i \in 1 .. Len(gathered_loots'[p])}
  BY <1>3 DEF Unpaid, IsBeingPaid
<1>5. Len(gathered_loots'[q]) = n + 1
  BY <1>2
<1> HIDE DEF n
<1>6. ToSet(loots_info') = ToSet(loots_info) \ {l}
  <2>1. \A i \in DOMAIN loots_info' :
          \E k \in DOMAIN loots_info \ {j} : loots_info'[i] = loots_info[k]
    BY <1>2
  <2>2. \A k \in DOMAIN loots_info \ {j} :
          \E i \in DOMAIN loots_info' : loots_info'[i] = loots_info[k]
    <3> TAKE k \in DOMAIN loots_info \ {j}
    <3>1. CASE k < j
      <4>1. k \in DOMAIN loots_info'
        BY <1>2, <3>1
      <4> QED BY <1>2, <3>1, <4>1
    <3>2. CASE k > j
      <4>1. k - 1 \in DOMAIN loots_info' /\ ~(k - 1 < j) /\ (k - 1) + 1 = k
        BY <1>2, <3>2
      <4> QED BY <1>2, <4>1
    <3> QED BY <1>2, <3>1, <3>2
  <2>3. \A k \in DOMAIN loots_info \ {j} : loots_info[k] # l
    BY DEF IdInv, NoSharedIds
  <2> QED BY <2>1, <2>2, <2>3 DEF ToSet
<1>7. Unpaid(q)' = Unpaid(q) \union {l}
  <2>1. /\ Unpaid(q)  = {gathered_loots[q][i] : i \in 1 .. n}
        /\ Unpaid(q)' = {gathered_loots'[q][i] : i \in 1 .. n + 1}
    BY <1>3, <1>5 DEF Unpaid, IsBeingPaid, n
  <2>2. \A i \in 1 .. n : gathered_loots'[q][i] = gathered_loots[q][i]
    BY <1>2
  <2>3. 1 .. n + 1 = (1 .. n) \union {n + 1}
    BY <1>2
  <2>4. gathered_loots'[q][n + 1] = l
    BY <1>2
  <2> HIDE DEF l
  <2>5. ASSUME NEW x
        PROVE  x \in Unpaid(q)' <=> x \in Unpaid(q) \union {l}
    <3>1. x \in Unpaid(q)' <=> \E i \in (1 .. n) \union {n + 1} :
                                 x = gathered_loots'[q][i]
      BY <2>1, <2>3, Zenon
    <3>2. x \in Unpaid(q) <=> \E i \in 1 .. n : x = gathered_loots[q][i]
      BY <2>1, Zenon
    <3> QED BY <3>1, <3>2, <2>2, <2>4
  <2> QED BY <2>5
<1>8. \A p \in Names \ {q} : Unpaid(p)' = Unpaid(p)
  BY <1>2, <1>3 DEF Unpaid, IsBeingPaid
<1>9. Gone' = Gone
  <2>1. ASSUME NEW m
        PROVE  m \in Gone' <=> m \in Gone
    <3>1. (\A x \in ToSet(loots_info) : x.id # m)
            <=> (\A x \in ToSet(loots_info') : x.id # m) /\ l.id # m
      BY <1>6 DEF ToSet
    <3>2. (\A x \in Unpaid(q)' : x.id # m)
            <=> (\A x \in Unpaid(q) : x.id # m) /\ l.id # m
      BY <1>7
    <3> QED BY <1>1, <1>3, <1>8, <3>1, <3>2 DEF Gone
  <2> QED BY <2>1
<1>10. [p \in Names |-> Unpaid(p)]' =
         [[p \in Names |-> Unpaid(p)] EXCEPT ![q] = @ \union {l}]
  BY <1>1, <1>7, <1>8
<1>11. l \in ToSet(loots_info)
  BY DEF ToSet
<1> QED BY <1>1, <1>3, <1>6, <1>9, <1>10, <1>11 DEF Ledger!PickUp

LEMMA RefineHandIn ==
  ASSUME TypeInv, IdInv, PassOne
  PROVE  \E p \in Names : \E l \in Unpaid(p) : Ledger!HandIn(p, l)
<1>1. PICK q \in Names : q = players[cursor]
  BY DEF PassOne, TypeInv, TypeOK, TickShape
<1> DEFINE n == Len(gathered_loots[q])
           k == passed + 1
           l == gathered_loots[q][k]
<1>2. /\ passed < n
      /\ score' = [score EXCEPT ![q] = @ + LootScore[l.type]]
      /\ passed' = k
      /\ phase = "pass" /\ phase' = "pass"
      /\ UNCHANGED <<players, cursor, loots_info, loot_id, gathered_loots>>
  BY <1>1 DEF PassOne
<1>3. /\ n \in Nat /\ passed \in Nat
      /\ DOMAIN gathered_loots[q] = 1 .. n
      /\ score \in [Names -> Nat]
      /\ l \in Loot
  <2>1. gathered_loots[q] \in Seq(Loot)
    BY <1>1, LootsTyped
  <2>2. passed \in Nat /\ score \in [Names -> Nat]
    BY DEF TypeInv, TypeOK
  <2> QED BY <2>1, <2>2, <1>2
<1>4. /\ Unpaid(q) = {gathered_loots[q][i] : i \in k .. n}
      /\ Unpaid(q)' = {gathered_loots[q][i] : i \in k + 1 .. n}
  BY <1>1, <1>2 DEF Unpaid, IsBeingPaid
<1>5. \A p \in Names \ {q} :
        /\ Unpaid(p) = {gathered_loots[p][i] : i \in 1 .. Len(gathered_loots[p])}
        /\ Unpaid(p)' = Unpaid(p)
  BY <1>1, <1>2 DEF Unpaid, IsBeingPaid
<1>6. /\ k \in 1 .. n
      /\ k .. n = {k} \union (k + 1 .. n)
      /\ k \notin k + 1 .. n
      /\ k + 1 .. n \subseteq 1 .. n
  BY <1>2, <1>3
<1>7. \A i \in k + 1 .. n : gathered_loots[q][i].id # l.id
  BY <1>3, <1>6 DEF IdInv, NoSharedIds
<1>8. \A p \in Names \ {q} : \A x \in Unpaid(p) : x.id # l.id
  <2> TAKE p \in Names \ {q}
  <2>1. gathered_loots[p] \in Seq(Loot)
    BY LootsTyped
  <2>2. ASSUME NEW i \in 1 .. Len(gathered_loots[p])
        PROVE  gathered_loots[p][i].id # l.id
    BY <1>3, <1>6, <2>1, <2>2 DEF IdInv, NoSharedIds
  <2> QED BY <1>5, <2>2
<1>9. \A x \in ToSet(loots_info) : x.id # l.id
  BY <1>3, <1>6 DEF IdInv, NoSharedIds, ToSet
<1>10. l.id \in 0 .. loot_id - 1
  <2>1. l.id \in Nat /\ loot_id \in Nat /\ l.id < loot_id
    BY <1>3, <1>6, LootsTyped DEF IdInv, IdsBelowNext
  <2> QED BY <2>1
<1> HIDE DEF l, k, n
<1>11. Unpaid(q)' = Unpaid(q) \ {l} /\ l \in Unpaid(q)
  BY <1>4, <1>6, <1>7 DEF l
<1>12. ToSet(loots_info)' = ToSet(loots_info)
  BY <1>2 DEF ToSet
<1>13. Gone' = Gone \union {l.id}
  <2>1. ASSUME NEW m
        PROVE  m \in Gone' <=> m \in Gone \/ m = l.id
    <3>1. (\A x \in Unpaid(q) : x.id # m)
            <=> (\A x \in Unpaid(q)' : x.id # m) /\ m # l.id
      BY <1>11
    <3>2. m \in Gone' <=> /\ m \in 0 .. loot_id - 1
                          /\ \A x \in ToSet(loots_info) : x.id # m
                          /\ \A x \in Unpaid(q)' : x.id # m
                          /\ \A p \in Names \ {q} : \A x \in Unpaid(p) : x.id # m
      BY <1>2, <1>5, <1>12 DEF Gone
    <3>3. m \in Gone <=> /\ m \in 0 .. loot_id - 1
                         /\ \A x \in ToSet(loots_info) : x.id # m
                         /\ \A x \in Unpaid(q) : x.id # m
                         /\ \A p \in Names \ {q} : \A x \in Unpaid(p) : x.id # m
      BY DEF Gone
    <3>4. CASE m = l.id
      <4>1. \A x \in Unpaid(q)' : x.id # l.id
        BY <1>4, <1>7
      <4> QED BY <3>2, <3>4, <4>1, <1>8, <1>9, <1>10
    <3>5. CASE m # l.id
      BY <3>1, <3>2, <3>3, <3>5
    <3> QED BY <3>4, <3>5
  <2> QED BY <2>1
<1>14. [p \in Names |-> Unpaid(p)]' =
         [[p \in Names |-> Unpaid(p)] EXCEPT ![q] = @ \ {l}]
  BY <1>5, <1>11
<1> QED BY <1>2, <1>11, <1>12, <1>13, <1>14 DEF Ledger!HandIn

(* Emptying the bag only drops loots that have been paid for. *)
LEMMA RefineClearBag ==
  ASSUME TypeInv, ClearBag
  PROVE  UNCHANGED Ledger!ledgerVars
<1>1. PICK q \in Names : q = players[cursor]
  BY DEF ClearBag, TypeInv, TypeOK, TickShape
<1>2. /\ gathered_loots \in [Names -> Seq(Loot)]
      /\ passed \in Nat
  BY DEF TypeInv, TypeOK
<1>3. /\ passed = Len(gathered_loots[q])
      /\ gathered_loots' = [gathered_loots EXCEPT ![q] = <<>>]
      /\ phase = "pass" /\ phase' = "items"
      /\ UNCHANGED <<loots_info, loot_id, score>>
  BY <1>1 DEF ClearBag
<1>4. ASSUME NEW p \in Names
      PROVE  Unpaid(p)' = Unpaid(p)
  <2>1. CASE p = q
    <3>1. passed + 1 .. Len(gathered_loots[q]) = {}
      BY <1>2, <1>3
    <3>2. 1 .. Len(gathered_loots'[q]) = {}
      BY <1>2, <1>3
    <3> QED BY <1>1, <1>3, <2>1, <3>1, <3>2 DEF Unpaid, IsBeingPaid
  <2>2. CASE p # q
    <3>1. gathered_loots'[p] = gathered_loots[p]
      BY <1>2, <1>3, <2>2
    <3> QED BY <1>1, <1>3, <2>2, <3>1 DEF Unpaid, IsBeingPaid
  <2> QED BY <2>1, <2>2
<1> QED BY <1>3, <1>4, LedgerStutter

LEMMA RefineReachOffice ==
  ASSUME TypeInv, ReachOffice
  PROVE  UNCHANGED Ledger!ledgerVars
<1>1. /\ passed = 0 /\ passed' = 0
      /\ UNCHANGED <<players, cursor, loots_info, loot_id, gathered_loots, score>>
  BY DEF ReachOffice, dogVars, TypeInv, TickShape
<1>2. \A p \in Names : Unpaid(p)' = Unpaid(p)
  BY <1>1 DEF Unpaid, IsBeingPaid
<1> QED BY <1>1, <1>2, LedgerStutter

LEMMA RefineStep ==
  TypeInv /\ IdInv /\ [Next]_vars => [Ledger!LedgerNext]_(Ledger!ledgerVars)
<1> SUFFICES ASSUME TypeInv, IdInv, [Next]_vars
             PROVE  Ledger!LedgerNext \/ UNCHANGED Ledger!ledgerVars
  OBVIOUS
<1>1. ASSUME NEW t \in LootTypes, GenerateOne(t)
      PROVE  Ledger!LedgerNext
  BY <1>1, RefineAppear DEF Ledger!LedgerNext
<1>2. ASSUME TakeLoot
      PROVE  Ledger!LedgerNext
  BY <1>2, RefinePickUp DEF Ledger!LedgerNext
<1>3. ASSUME PassOne
      PROVE  Ledger!LedgerNext
  <2>1. PICK p \in Names : \E l \in Unpaid(p) : Ledger!HandIn(p, l)
    BY <1>3, RefineHandIn
  <2>2. [q \in Names |-> Unpaid(q)][p] = Unpaid(p)
    OBVIOUS
  <2> QED BY <2>1, <2>2 DEF Ledger!LedgerNext
<1>4. CASE ClearBag
  BY <1>4, RefineClearBag
<1>5. CASE ReachOffice
  BY <1>5, RefineReachOffice
<1>6. CASE UNCHANGED vars
  <2>1. \A p \in Names : Unpaid(p)' = Unpaid(p)
    BY <1>6 DEF vars, dogVars, tickVars, Unpaid, IsBeingPaid
  <2> QED BY <1>6, <2>1, LedgerStutter DEF vars, dogVars
<1>7. CASE /\ UNCHANGED <<loots_info, loot_id, score, gathered_loots>>
           /\ phase # "pass"
           /\ phase' # "pass"
  BY <1>7, StepOutsidePass
<1> QED
  BY <1>1, <1>2, <1>3, <1>4, <1>5, <1>6, <1>7
  DEF Next, TickStep, GenerateLoot, MoveDog, AddLootToDog, AddPlayer, SetSpeed,
      BeginTick, BeginMoves, MoveDogStuck, MoveDogAlong, LeaveLoot, NextDog,
      EndTick, dogVars, tickVars

(* Whatever players, offices, loots and routes there are: a loot is picked *)
(* up by one dog, paid for once at the price of its type, and never lost.  *)
THEOREM SessionImplementsLedger == Spec => ImplementsLedger
<1>1. Init => Ledger!LedgerInit
  <2> SUFFICES ASSUME Init PROVE Ledger!LedgerInit
    OBVIOUS
  <2>1. ToSet(loots_info) = {}
    BY DEF Init, ToSet
  <2>2. \A p \in Names : Unpaid(p) = {}
    BY DEF Init, Unpaid, IsBeingPaid
  <2>3. Gone = {}
    BY DEF Init, Gone
  <2> QED BY <2>1, <2>2, <2>3 DEF Init, Ledger!LedgerInit
<1>2. Init => TypeInv /\ IdInv
  BY SessionAssumption, TypeInit
  DEF Init, IdInv, NoSharedIds, IdsBelowNext
<1>3. TypeInv /\ IdInv /\ [Next]_vars => TypeInv' /\ IdInv'
  BY SessionAssumption, TypeStep, IdStep
<1> QED
  BY <1>1, <1>2, <1>3, RefineStep, PTL
  DEF Spec, ImplementsLedger, Ledger!LedgerSpec
=============================================================================
