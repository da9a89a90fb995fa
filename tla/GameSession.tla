---------------------------- MODULE GameSession ----------------------------
(***************************************************************************)
(* One GameSession (core/GameSession.cpp) with the dogs of its players:    *)
(* joining, player actions, and the timer tick, which first generates loot *)
(* and then moves the dogs one after the other, each gathering loot on its *)
(* way and handing it to the offices it passes.                            *)
(*                                                                         *)
(* Every handler runs on the strand of the request handler, so a join or a *)
(* player action is one step here.  A tick is a loop over loops; it is     *)
(* split into one step per iteration, with the position in the loops kept  *)
(* in phase, cursor, todo, items and passed, so that the invariants are    *)
(* about every intermediate state another thread might copy.               *)
(*                                                                         *)
(* Geometry is abstracted: whether a dog moves, which loots and offices it *)
(* passes and in which order is chosen freely (module DogMotion has the    *)
(* geometry).  How many loots LootGenerator asks for is any number up to   *)
(* the shortage of loot (module LootGenerator has the formula).            *)
(***************************************************************************)
EXTENDS Integers, Sequences, FiniteSets, SequencesExt

CONSTANTS
  Names,        \* names under which players may join
  Offices,      \* number of offices of the session's map
  LootTypes,    \* indices of the map's loot types
  LootScore,    \* LootScore[t]: points for a loot of type t
  BagCapacity,  \* Dog::bag_capacity_
  Deltas,       \* durations of a tick
  MaxTime,      \* bound: no tick begins beyond this session time
  MaxLoot,      \* bound: loots generated in the whole behaviour
  OriginOnRoad  \* TRUE iff the origin, where a new dog stands, is on its road

ASSUME SessionAssumption ==
  /\ Offices \in Nat
  /\ LootTypes # {}
  /\ LootScore \in [LootTypes -> Nat]
  /\ BagCapacity \in Nat \ {0}
  /\ Deltas \subseteq Nat \ {0}
  /\ MaxTime \in Nat
  /\ MaxLoot \in Nat
  /\ OriginOnRoad \in BOOLEAN

VARIABLES
  players,         \* names in the order of players_
  running,         \* running[p]: the dog's speed_ is not zero
  on_road,         \* on_road[p]: the dog stands within its road
  gathered_loots,  \* gathered_loots[p]: the dog's bag
  score, idle_time, play_time,
  loots_info,      \* loots lying on the map
  loot_id,         \* next identifier of a loot
  phase,           \* where the strand is in the tick, "idle" between handlers
  delta,           \* duration of the current tick
  todo,            \* loots this tick still has to generate
  cursor,          \* position of MoveDogs in players_
  items,           \* gathered items add_loot_to_dog still has to handle
  passed,          \* loots of the bag pass_loot_to_office has paid for
  now              \* sum of the durations of the ticks begun

dogVars == <<running, on_road, gathered_loots, score, idle_time, play_time>>
tickVars == <<phase, delta, todo, cursor, items, passed, now>>
vars == <<players, loots_info, loot_id, dogVars, tickVars>>

Loot == [id : Nat, type : LootTypes]
Item == [id_ : Nat, type_ : {"Loot", "Office"}]
Phase == {"idle", "generate", "move", "items", "pass"}

TypeOK ==
  /\ players \in Seq(Names)
  /\ running \in [Names -> BOOLEAN]
  /\ on_road \in [Names -> BOOLEAN]
  /\ gathered_loots \in [Names -> Seq(Loot)]
  /\ score \in [Names -> Nat]
  /\ idle_time \in [Names -> Nat]
  /\ play_time \in [Names -> Nat]
  /\ loots_info \in Seq(Loot)
  /\ loot_id \in Nat
  /\ phase \in Phase
  /\ delta \in Nat
  /\ todo \in Nat
  /\ cursor \in Nat \ {0}
  /\ items \in Seq(Item)
  /\ passed \in Nat
  /\ now \in Nat

Init ==
  /\ players = <<>>
  /\ running = [p \in Names |-> FALSE]
  /\ on_road = [p \in Names |-> OriginOnRoad]
  /\ gathered_loots = [p \in Names |-> <<>>]
  /\ score = [p \in Names |-> 0]
  /\ idle_time = [p \in Names |-> 0]
  /\ play_time = [p \in Names |-> 0]
  /\ loots_info = <<>>
  /\ loot_id = 0
  /\ phase = "idle"
  /\ delta = 0
  /\ todo = 0
  /\ cursor = 1
  /\ items = <<>>
  /\ passed = 0
  /\ now = 0

-----------------------------------------------------------------------------
(* Handlers that run between two ticks. *)

Joined(p) == \E i \in DOMAIN players : players[i] = p

(* GameSession::add_player: a name that is already playing gets the player *)
(* it has, any other name a new player with a new dog.                     *)
AddPlayer(p) ==
  /\ phase = "idle"
  /\ players' = IF Joined(p) THEN players ELSE Append(players, p)
  /\ UNCHANGED <<loots_info, loot_id, dogVars, tickVars>>

(* Dog::set_speed as HandlePlayerAction calls it: a direction sets the dog *)
(* running, an empty move stops it.                                        *)
SetSpeed(p, go) ==
  /\ phase = "idle"
  /\ Joined(p)
  /\ running' = [running EXCEPT ![p] = go]
  /\ UNCHANGED <<players, loots_info, loot_id, on_road, gathered_loots,
                 score, idle_time, play_time, tickVars>>

-----------------------------------------------------------------------------
(* The tick: GenerateLoot, then MoveDogs. *)

(* Faulty variant: the loots already lying on the map are not counted. *)
loot_shortage_ignoring_loots == Len(players)

loot_shortage ==
  IF Len(loots_info) > Len(players) THEN 0 ELSE Len(players) - Len(loots_info)

BeginTick(d) ==
  /\ phase = "idle"
  /\ now + d <= MaxTime
  /\ now' = now + d
  /\ delta' = d
  /\ phase' = "generate"
  /\ \E n \in 0 .. loot_shortage :
       /\ loot_id + n <= MaxLoot
       /\ todo' = n
  /\ UNCHANGED <<players, loots_info, loot_id, dogVars, cursor, items, passed>>

(* Faulty variant: the loop in GenerateLoot runs once too often. *)
GenerateOneUnguarded(t) ==
  /\ phase = "generate"
  /\ loots_info' = Append(loots_info, [id |-> loot_id, type |-> t])
  /\ loot_id' = loot_id + 1
  /\ todo' = todo - 1
  /\ UNCHANGED <<players, dogVars, phase, delta, cursor, items, passed, now>>

(* generate_loot_info and the push_back of its result. *)
GenerateOne(t) ==
  /\ phase = "generate"
  /\ todo > 0
  /\ loots_info' = Append(loots_info, [id |-> loot_id, type |-> t])
  /\ loot_id' = loot_id + 1
  /\ todo' = todo - 1
  /\ UNCHANGED <<players, dogVars, phase, delta, cursor, items, passed, now>>

(* Faulty variant: the loop over the players skips the first one. *)
BeginMovesAtSecond ==
  /\ phase = "generate"
  /\ todo = 0
  /\ phase' = "move"
  /\ cursor' = 2
  /\ UNCHANGED <<players, loots_info, loot_id, dogVars, delta, todo, items,
                 passed, now>>

BeginMoves ==
  /\ phase = "generate"
  /\ todo = 0
  /\ phase' = "move"
  /\ cursor' = 1
  /\ UNCHANGED <<players, loots_info, loot_id, dogVars, delta, todo, items,
                 passed, now>>

(* The item list of get_gathered_items: every loot, then every office;     *)
(* all offices carry the id 0.                                             *)
AllItems ==
  [i \in 1 .. Len(loots_info) + Offices |->
     IF i <= Len(loots_info) THEN [id_ |-> loots_info[i].id, type_ |-> "Loot"]
                             ELSE [id_ |-> 0, type_ |-> "Office"]]

(* What find_gather_events may return for one gatherer: indices into the   *)
(* item list, each at most once, in any order.                             *)
GatherEvents ==
  {ev \in BoundedSeq(DOMAIN AllItems, Len(loots_info) + Offices) :
     \A i, j \in DOMAIN ev : ev[i] = ev[j] => i = j}

(* Faulty variant: continue instead of return for a dog that did not move. *)
MoveDogStuckContinue ==
  /\ phase = "move"
  /\ cursor <= Len(players)
  /\ LET p == players[cursor] IN
       /\ on_road[p]
       /\ play_time' = [play_time EXCEPT ![p] = @ + delta]
       /\ idle_time' = [idle_time EXCEPT ![p] = @ + delta]
       /\ running' = [running EXCEPT ![p] = FALSE]
  /\ cursor' = cursor + 1
  /\ UNCHANGED <<players, loots_info, loot_id, on_road, gathered_loots, score,
                 phase, delta, todo, items, passed, now>>

(* One iteration of MoveDogs whose dog did not move: the loop returns.  A  *)
(* dog that runs may still fail to move, it then stopped at a wall.        *)
MoveDogStuck ==
  /\ phase = "move"
  /\ cursor <= Len(players)
  /\ LET p == players[cursor] IN
       /\ on_road[p]
       /\ play_time' = [play_time EXCEPT ![p] = @ + delta]
       /\ idle_time' = [idle_time EXCEPT ![p] = @ + delta]
       /\ running' = [running EXCEPT ![p] = FALSE]
  /\ phase' = "idle"
  /\ cursor' = 1
  /\ UNCHANGED <<players, loots_info, loot_id, on_road, gathered_loots, score,
                 delta, todo, items, passed, now>>

(* One iteration of MoveDogs whose dog moved, up to the gathered items.  A *)
(* dog that stands still moves only if it is not on its road yet, because  *)
(* change_position then clamps it into the road; it may be stopped by the  *)
(* end of the road.                                                        *)
MoveDogAlong ==
  /\ phase = "move"
  /\ cursor <= Len(players)
  /\ LET p == players[cursor] IN
       /\ running[p] \/ ~on_road[p]
       /\ play_time' = [play_time EXCEPT ![p] = @ + delta]
       /\ idle_time' = [idle_time EXCEPT ![p] = 0]
       /\ \E wall \in BOOLEAN :
            running' = [running EXCEPT ![p] = @ /\ ~wall]
       /\ on_road' = [on_road EXCEPT ![p] = TRUE]
  /\ \E ev \in GatherEvents :
       items' = [i \in DOMAIN ev |-> AllItems[ev[i]]]
  /\ phase' = "items"
  /\ UNCHANGED <<players, loots_info, loot_id, gathered_loots, score, delta,
                 todo, cursor, passed, now>>

(* add_loot_to_dog, one item: an office. *)
ReachOffice ==
  /\ phase = "items"
  /\ items # <<>>
  /\ Head(items).type_ = "Office"
  /\ items' = Tail(items)
  /\ phase' = "pass"
  /\ UNCHANGED <<players, loots_info, loot_id, dogVars, delta, todo, cursor,
                 passed, now>>

(* j is the position find_if returns for the identifier id. *)
FoundAt(id, j) ==
  /\ j \in DOMAIN loots_info
  /\ loots_info[j].id = id
  /\ \A i \in 1 .. j - 1 : loots_info[i].id # id

(* Faulty variant: the loot is put into the bag and stays on the map. *)
TakeLootNoErase ==
  /\ phase = "items"
  /\ items # <<>>
  /\ Head(items).type_ = "Loot"
  /\ LET p == players[cursor] IN
       /\ Len(gathered_loots[p]) < BagCapacity
       /\ \E j \in DOMAIN loots_info :
            /\ FoundAt(Head(items).id_, j)
            /\ gathered_loots' = [gathered_loots EXCEPT
                                    ![p] = Append(@, loots_info[j])]
  /\ items' = Tail(items)
  /\ UNCHANGED <<players, loots_info, loot_id, running, on_road, score,
                 idle_time, play_time, phase, delta, todo, cursor, passed, now>>

(* add_loot_to_dog, one item: a loot that fits into the bag. *)
TakeLoot ==
  /\ phase = "items"
  /\ items # <<>>
  /\ Head(items).type_ = "Loot"
  /\ LET p == players[cursor] IN
       /\ Len(gathered_loots[p]) < BagCapacity
       /\ \E j \in DOMAIN loots_info :
            /\ FoundAt(Head(items).id_, j)
            /\ gathered_loots' = [gathered_loots EXCEPT
                                    ![p] = Append(@, loots_info[j])]
            /\ loots_info' = RemoveAt(loots_info, j)
  /\ items' = Tail(items)
  /\ UNCHANGED <<players, loot_id, running, on_road, score, idle_time,
                 play_time, phase, delta, todo, cursor, passed, now>>

(* Faulty variant: the loop does not advance past a loot it leaves. *)
LeaveLootAgain ==
  /\ phase = "items"
  /\ items # <<>>
  /\ Head(items).type_ = "Loot"
  /\ \/ Len(gathered_loots[players[cursor]]) >= BagCapacity
     \/ \A j \in DOMAIN loots_info : loots_info[j].id # Head(items).id_
  /\ UNCHANGED vars

(* add_loot_to_dog, one item: a loot that is gone or does not fit. *)
LeaveLoot ==
  /\ phase = "items"
  /\ items # <<>>
  /\ Head(items).type_ = "Loot"
  /\ \/ Len(gathered_loots[players[cursor]]) >= BagCapacity
     \/ \A j \in DOMAIN loots_info : loots_info[j].id # Head(items).id_
  /\ items' = Tail(items)
  /\ UNCHANGED <<players, loots_info, loot_id, dogVars, phase, delta, todo,
                 cursor, passed, now>>

(* pass_loot_to_office, one round of its loop. *)
PassOne ==
  /\ phase = "pass"
  /\ LET p == players[cursor] IN
       /\ passed < Len(gathered_loots[p])
       /\ score' = [score EXCEPT
                      ![p] = @ + LootScore[gathered_loots[p][passed + 1].type]]
  /\ passed' = passed + 1
  /\ UNCHANGED <<players, loots_info, loot_id, running, on_road,
                 gathered_loots, idle_time, play_time, phase, delta, todo,
                 cursor, items, now>>

(* Faulty variant: the bag is paid for and not emptied. *)
KeepBag ==
  /\ phase = "pass"
  /\ passed = Len(gathered_loots[players[cursor]])
  /\ passed' = 0
  /\ phase' = "items"
  /\ UNCHANGED <<players, loots_info, loot_id, dogVars, delta, todo, cursor,
                 items, now>>

(* pass_loot_to_office, the clear after the loop. *)
ClearBag ==
  /\ phase = "pass"
  /\ LET p == players[cursor] IN
       /\ passed = Len(gathered_loots[p])
       /\ gathered_loots' = [gathered_loots EXCEPT ![p] = <<>>]
  /\ passed' = 0
  /\ phase' = "items"
  /\ UNCHANGED <<players, loots_info, loot_id, running, on_road, score,
                 idle_time, play_time, delta, todo, cursor, items, now>>

NextDog ==
  /\ phase = "items"
  /\ items = <<>>
  /\ phase' = "move"
  /\ cursor' = cursor + 1
  /\ UNCHANGED <<players, loots_info, loot_id, dogVars, delta, todo, items,
                 passed, now>>

EndTick ==
  /\ phase = "move"
  /\ cursor > Len(players)
  /\ phase' = "idle"
  /\ cursor' = 1
  /\ UNCHANGED <<players, loots_info, loot_id, dogVars, delta, todo, items,
                 passed, now>>

-----------------------------------------------------------------------------
GenerateLoot == (\E t \in LootTypes : GenerateOne(t)) \/ BeginMoves

MoveDog == MoveDogStuck \/ MoveDogAlong

AddLootToDog == ReachOffice \/ TakeLoot \/ LeaveLoot \/ PassOne \/ ClearBag

(* The rest of a tick once the strand has begun it. *)
TickStep == GenerateLoot \/ MoveDog \/ AddLootToDog \/ NextDog \/ EndTick

Next ==
  \/ \E p \in Names : AddPlayer(p)
  \/ \E p \in Names, go \in BOOLEAN : SetSpeed(p, go)
  \/ \E d \in Deltas : BeginTick(d)
  \/ TickStep

Spec == Init /\ [][Next]_vars

(* A handler the strand has begun runs to its end: it holds a worker thread *)
(* and never waits.  Nothing forces a client or the timer to act.           *)
FairSpec == Spec /\ WF_vars(TickStep)
-----------------------------------------------------------------------------
(* Properties. *)

IsBeingPaid(p) == phase = "pass" /\ p = players[cursor]

(* The loots in p's bag that no office has paid for yet. *)
Unpaid(p) ==
  {gathered_loots[p][j] : j \in (IF IsBeingPaid(p) THEN passed + 1 ELSE 1)
                                  .. Len(gathered_loots[p])}

(* The identifiers given out whose loot is neither on the map nor owed. *)
Gone ==
  {n \in 0 .. loot_id - 1 :
     /\ \A l \in ToSet(loots_info) : l.id # n
     /\ \A p \in Names : \A l \in Unpaid(p) : l.id # n}

Ledger == INSTANCE LootLedger WITH
            spawned <- loot_id,
            onMap <- ToSet(loots_info),
            carried <- [p \in Names |-> Unpaid(p)],
            delivered <- Gone,
            points <- score

(* The session implements the ledger of lost things: add_loot_to_dog and   *)
(* pass_loot_to_office, with their loops and early exits, never lose or    *)
(* invent a loot and pay for each loot exactly once, by its own type.      *)
ImplementsLedger == Ledger!LedgerSpec

(* No two loots of the map and of the bags share an identifier, although a *)
(* tick copies loots by value and finds them again by id only.             *)
NoSharedIds ==
  /\ \A i, j \in DOMAIN loots_info : loots_info[i].id = loots_info[j].id => i = j
  /\ \A p \in Names : \A i \in DOMAIN gathered_loots[p] :
       /\ \A j \in DOMAIN loots_info :
            gathered_loots[p][i].id # loots_info[j].id
       /\ \A q \in Names : \A j \in DOMAIN gathered_loots[q] :
            gathered_loots[p][i].id = gathered_loots[q][j].id
              => p = q /\ i = j

(* "The number of loots on the map does not exceed the number of looters"  *)
(* (LootGenerator.h:30), counting those the running tick will still add.   *)
LootBoundedByLooters == Len(loots_info) + todo <= Len(players)

(* MoveDogs serves the players in join order and stops at the first dog    *)
(* that does not move, so nobody has played longer than one who joined     *)
(* before; the retirement record of Game.cpp reports this play_time.       *)
PlayTimeFollowsJoinOrder ==
  \A i, j \in DOMAIN players :
    i < j => play_time[players[i]] >= play_time[players[j]]

(* A player whose dog did not move in its last turn holds up everyone who  *)
(* joined later: their clocks, bags and scores stand still until it moves  *)
(* again (the return in MoveDogs, GameSession.cpp:90).                     *)
ParkedDogHoldsUpLaterOnes ==
  [][\A i, j \in DOMAIN players :
       i < j /\ idle_time[players[i]] > 0
         => LET q == players[j] IN
              /\ play_time'[q] = play_time[q]
              /\ gathered_loots'[q] = gathered_loots[q]
              /\ score'[q] = score[q]]_vars

(* Every tick the strand begins comes to its end, whatever the dogs meet.  *)
TickEnds == phase # "idle" ~> phase = "idle"
=============================================================================
