# Verification of the dog game server

The repository is a multiplayer game server in C++20 (Boost.Asio/Beast, libpqxx).
Players join a map, each steers a dog over the map's roads, dogs gather lost
things (loots) on their way and carry them to offices for points.  A timer
advances the game.  This directory holds TLA+ modules that model the server's own
logic, the TLC runs that check them, and proofs checked by TLAPS.  Paths in this
file are relative to the repository; `core/`, `network/`, ... stand for
`src/core/`, `src/network/`, ...

- [1 The system](#1-the-system)
- [2 Plan](#2-plan)
- [3 Modules and code](#3-modules-and-code)
- [4 Runs](#4-runs)
- [5 Proofs](#5-proofs)
- [6 What is not modelled](#6-what-is-not-modelled)

## 1 The system

### Components

| component | state | operations | correct when |
|---|---|---|---|
| `GameSession` (core/GameSession.cpp) | `players_` in join order, `loots_info_`, `loot_id_`, a `LootGenerator` | `add_player`, `GenerateLoot`, `MoveDogs`, `add_loot_to_dog`, `delete_player`, `set_loot_list` | a loot is on the map, in one bag, or paid for once; loots never outnumber players; every tick serves players in join order |
| `Dog` (core/Dog.cpp) | position, speed, current road, bag, score, idle and play time | `set_speed`, `move`, `add_loot`, `pass_loot_to_office` | it stays on the roads and stops only where they end |
| `MapModel` (core/MapModel.cpp) | roads, offices, loot types of a map; constant after start | `roads_crossed`, `roads_adjacent`, clamp | adjacency agrees with the geometry |
| `CollisionDetector` | none | `find_gather_events` | every item within reach of a move once, in order of the move |
| `LootGenerator` | time without loot | `Generate` | never more loots than looters; a free place is filled in time |
| `Game` (core/Game.cpp) | sessions, loot and retirement parameters | `add_player`, token lookups, `MoveDogs`, `GenerateLoot`, saving, restoring, retirement | a token means one player of one session; every session is ticked |
| `ApiHandler` (network/api_handler.cpp) | handler tables, the ticker | one handler per endpoint | every request gets the one answer its state calls for |
| `RequestHandler`, `Ticker` (network/) | the strand, the timer | dispatch, `Start`, `OnTick` | handlers do not overlap; the clock does not stop |
| `Session`, `Listener` (network/http_server) | a connection, its buffer, one pending write | read, handle, write, accept | a request is answered once and connections do not starve |
| `main` | `io_context`, worker threads, signal handler | start, shutdown with a snapshot | the snapshot is a state of the game |
| `ConnectionPool` (db/connection_engine.h) | connections, count in use, mutex, condition variable | `GetConnection`, `ReturnConnection` | a connection has one user, none is lost, no waiter is forgotten |
| retirement records (db/postgres.cpp) | a table in PostgreSQL | `SaveRetired`, `GetRetired` | a retired player has one record |
| map and request parsing, JSON responses, logging | none that changes | | |

### How they interact

An HTTP `Session` reads a request on any worker thread and calls
`RequestHandler::operator()`.  API requests are dispatched to one **strand**
(network/request_handler.h:39) and run there to the end, one at a time, calling
`Game`, which calls the `GameSession` of the player's map.  The timer is bound to
the same strand; on each expiry it calls `Game::GenerateLoot` and then
`Game::MoveDogs` (network/api_handler.h:48-54).  The first successful join starts
the timer.  Requests outside the API (map lists) read constant data off the
strand.  The signal handler stops the `io_context` and then serializes the game
on whichever worker thread runs it, off the strand.

Some code is present and called by nothing in this commit: `spawn_dog_in_map`,
`handle_retired_players`, `serialize_sessions`, `Game::timer_handler`; command
line options are not parsed (`Args{}` in main.cpp:45), so saved games are never
restored, and the tick period is always the default of 100 ms (core/Game.h:112),
so the ticker always exists and the tick endpoint always answers 400.  The
`defaultBagCapacity` of the configuration has no effect: a map without a capacity of its
own has 1 (core/MapModel.cpp:27), which is what a dog takes (core/Dog.cpp:29).

### What is hard

- A tick is a loop over players with a loop over gathered items and a loop over
  the bag inside, over three containers that copy loots by value and find them
  again by identifier.
- `MoveDogs` *returns* at the first dog that does not move
  (core/GameSession.cpp:90).  Dogs behind it in join order are not served.
- Adjacency of roads is over-approximated, and only the point a move arrives at is
  tested (core/MapModel.cpp:48, core/Dog.cpp:143).
- A dog starts off the roads, because it is never spawned.
- Exceptions that leave a handler reach `ioc.run` and then the worker threads: on a
  worker they end the process, on the main thread they leave the workers serving.
- Shutdown races with the strand: the saved game is copied off it, while handlers still run.
- Retirement saves records one by one and deletes players afterwards; either part may
  fail in the middle.
- A restored session is rebuilt through `add_player`, and its counters start again.

PROJECT.json lists each hazard at its line, with the properties that watch it, or
the reason why none does.

## 2 Plan

Order: what every request and every tick goes through first.

1. `LootLedger` (abstract) and `GameSession` (detailed), with proofs. *Done.*
2. `Roads`, `DogMotion`, with proofs. *Done.*
3. `LootGenerator`, with proofs. *Done.*  `Gathering`: the collision detector, with
   proofs. *Done.*
4. `Server`: strand, ticker, worker threads, connections, exceptions, shutdown.
   *Done*, with proofs of the turns on the strand and of the one tick.
5. `GameApi`: sessions and tokens, and the answers of all handlers, with proofs. *Done.*
6. `SavedGame`: saving, restoring, retirement, over shutdowns and crashes, with proofs. *Done.*
7. `ConnectionLease` (abstract) and `ConnectionPool`, with proofs. *Done.*

Composition: `GameApi` has the sessions as far as requests see them, `GameSession` one of
them in full; `Server` treats a handler of `GameApi` as two writes with an end, which is
what `GameSession` justifies by splitting it further; `SavedGame` takes up the loots of
`LootLedger` over restarts.

What is left: an abstract account of the saved game (each token playing, saved or retired) that
`SavedGame` implements, and one of the registry for `GameApi`.

## 3 Modules and code

### LootLedger: what a session promises about lost things

`Appear`, `PickUp` and `HandIn` are all that can happen to a loot; the points of a
player change only by `HandIn`, by the score of that loot's type.

### GameSession: players and ticks

State: `players` is `players_` by name (a name is unique in a session, core/GameSession.cpp:38-43);
`gathered_loots`, `score`, `idle_time`, `play_time` are the fields of each player's
dog; `loots_info` and `loot_id` are the session's.  `running[p]` and `on_road[p]` are
what the session needs to know of the dog's motion: its speed is not zero, and it
stands within its road.  `phase`, `cursor`, `todo`, `items`, `passed`, `delta` are the
local variables and program counters of the running tick, and `now` the sum of the
durations, used only for a bound.

| action | code |
|---|---|
| `AddPlayer` | `GameSession::add_player`, from `HandleAuthRequest` |
| `SetSpeed` | `Dog::set_speed`, from `HandlePlayerAction` |
| `BeginTick`, `GenerateOne`, `BeginMoves` | ticker handler, `GenerateLoot`, one loot per step |
| `MoveDogStuck` | an iteration of `MoveDogs` that ends in `return` |
| `MoveDogAlong` | an iteration of `MoveDogs` up to `get_gathered_items` |
| `ReachOffice`, `TakeLoot`, `LeaveLoot` | an iteration of `add_loot_to_dog` |
| `PassOne`, `ClearBag` | the loop of `pass_loot_to_office`, and the `clear` after it |
| `NextDog`, `EndTick` | the ends of the two loops |

A handler runs on the strand without interruption, so joins and player actions are
single steps and enabled only in phase `idle`.  The tick is split all the same: the
invariants then speak of every state in the middle of it, which is what the snapshot
at shutdown may copy, and the refinement shows in which step each loop does its part.

Abstractions, each allowing more than the code does: which items a move passes and in
which order is any list of distinct items (`GatherEvents`); how many loots the generator
asks for is any number up to the shortage; whether a running dog moves is free, because
it may stand at a wall.  Not free is that a standing dog on its road does not move
(theorem `StandingDogNotMoved` of DogMotion) and that a dog off its road does, because
the clamp displaces it.  `OriginOnRoad` says whether new dogs, which stand at the origin,
are on their road: true of map1 and town, false of map3.  A running dog is assumed to move
further than the `epsilon` of `Dog::move`, which it does at the speeds of config.json and
ticks of 1 ms and more.

### Roads and DogMotion: one dog on its map

`Roads` has the geometry: bounding rectangles, the clamp, `roads_crossed`,
`roads_adjacent` and the table built by `find_adjacent_roads`.  `DogMotion` has the dog:
`position`, `speed`, `current_road_index`, and the history variable `placed`, false
until the first `change_position`.  `SetSpeed` is `set_speed`; `Move` is `move`, by the
three branches of `change_position` (`StayOnRoad`, `ChangeRoad`, `StopAtEdge`).  Indices
of roads start at 1.

Lengths are tenths of a map unit and durations tenths of a second.  In these units the
roads, the half width 0.4, and the distances covered in ticks of whole tenths of seconds
are integers, so the model computes exactly; the code computes in `float`, and rounding
there is not modelled.  The order in which `search_position_inside_adjacent_roads` tries
roads is that of `std::set<int>`: ascending indices.

### LootGenerator: when and how much

`time_without_loot` is `time_without_loot_`; `loot_count` and `looter_count` are the sizes of
`loots_info_` and `players_`, which `GameSession` passes in.  `Generate` is the function with
the loop of its caller, `Join` and `PickUp` are what happens in between.  The probability is
a table over the accumulated time: the real formula has no integer values.  The generator of
random numbers is the default one, which always returns 1.0
(core/LootGenerator.h:37), because the only caller passes none.  So how much loot appears
is determined by the time and the shortage.

### ConnectionLease and ConnectionPool

`pool` and `used_connections` are the fields; `pc` says what each thread is doing, `conn` which
connection its `ConnectionWrapper` has.  A thread calls, gets a connection at once or waits, uses
it, returns it under the lock, and notifies after the lock is released.  What happens under the
mutex is one step.  The wait may end spuriously; the predicate is tested again then.

The pool is modelled for any threads, which is what the class is written for.  In this commit
its callers all run on the strand, so no two of them meet.  The creation of the pool by
`std::call_once` is the initial state.  A wrapper that is assigned to, and would forget
its connection, occurs nowhere.

### Gathering: what a dog meets on its way

`Move` is one turn of the dog in `MoveDogs`: a step along the street and the items
`find_gather_events` gives for it.  Lengths are tenths of a map unit; the projection and the
distance are multiplied by the squared length of the move in place of dividing, so the model is
exact, and rounding in `float` is not modelled.  `std::sort` leaves the order of equal times
open.  The loots stay where they are here: picking them up is in GameSession.

### GameApi: the registry and the handlers

`sessions` is `Game::sessions_`, with the players of each; `issued` are the tokens the
generator has given, which are assumed to be different; `given` is the history of the answers
to joins, and `ordered` that of the moves accepted; `answer` is the last response, with a code named
for the constant of api_handler.cpp and, where the properties need it, what the body tells.  A
handler runs on the strand to its end, so each is one action with one disjunct for each way it ends.
When an exception leaves it, the code is the name of that exception: `"out_of_range"` of a map that
is not there, `"InvalidTokenException"` of a token, `"system_error"` of a target or body that
cannot be parsed (`MalformedTarget`, before the handler of any endpoint; `HandlePlayerAction`),
`"LootNotSpecifiedException"` and `"RoadNotSpecifiedException"` of a tick on a map whose lists of loot
types or roads are empty (core/GameSession.cpp:134-141; core/MapParser.cpp:161-171 accepts them),
`"DogSpeedException"` and `"DatabaseError"`.  `"undefined"` stands for a tick that reads the first road
of a map without any.  `NumLoots` and `NumRoads` are the lengths of these lists.

A tick, by the timer or by request, is `Tick`: the sessions are gone through until one throws, then
any dogs may be found to stand where no road goes on, and lose their speed (`MoveDogs`; which of them
do is in DogMotion).  `ticker` is chosen at the start, since `create_game` takes the tick
period as a parameter.  Texts of tokens are sets of character codes, as far as `IsValidAuthToken`
looks at them.  Headers shorter than the word `Bearer`, for which `remove_prefix` of `GetAuthToken`
is undefined, are left out, and so are headers it does not end for, which are in `Server`.

### Server: threads, strand, timer, connections

| action | code |
|---|---|
| `OnAccept`, `OnRead`, `OnWrite` | `Listener::OnAccept`, `SessionBase::OnRead` with `RequestHandler::operator()`, `SessionBase::OnWrite` |
| `DispatchJob` | `net::dispatch(strand_, ...)`, and that of the timer's completion |
| `RunStrand`, `NextHandler`, `InvokerEnds` | the strand's invoker: taken by a thread, on to its next handler, posted again or done |
| `ChangeFirst`, `ChangeSecond` | the body of a handler up to `send` or `ScheduleTick` |
| `HandlerThrows`, `HandlerLoops` | an exception leaves the handler; `GetAuthToken` does not end |
| `TimerExpires` | the wait is over; a thread completes it, which dispatches `OnTick` |
| `Signal`, `HandleSignal`, `CopyFirst`, `CopySecond` | SIGINT or SIGTERM, `ioc.stop()`, `serialize_state` |
| `LeaveRun`, `Exit` | `ioc.run()` returns; `RunWorkers` and `main` return |

The game is two parts which every handler writes one after the other, with values modulo 2: enough
to tell a snapshot taken between two handlers from one taken in the middle.

The strand is modelled as Asio has it.  It has one *invoker* and two queues, `waiting` and `ready`.
A thread that dispatches to a strand without an invoker becomes the invoker and runs the handler
there and then; other handlers wait.  Having run what is ready, the invoker makes ready what waits and
is posted to the `io_context`, for any thread to take it; so it does when an exception leaves a
handler, which is how the strand goes on.  All that is ready is run in one operation of
the `io_context`.  `stop()` lets no operation begin, and those that have begun go on to their end:
also the invoker, which begins further handlers after `ioc.stop()` while the game is serialized, and
also a thread that has read a request and is about to dispatch it, which may still become the invoker.

### SavedGame: what outlives the process

`sessions` has players with name, token, identifier, bag and whether they have been idle
long enough; `file` is the saved game; `records[t]` counts the rows inserted for the player with
token `t`.  `find_expired_players`, `save_expired_players`, `delete_expired_players` and
`delete_empty_sessions` are the four parts of `handle_retired_players`, one record or player a
step, so that a failing insertion or a crash comes between any two.  Nothing else of the game does:
the whole of it would run in one handler.  `Shutdown` and `Restart` are `serialize_state` and
`restore_sessions`.

Between these two this commit does not work: `serialize` of a `GameState` calls itself until the
stack overflows, and `main` restores nothing because `Args{}` has no file.  The constant
`ArchiveWorks` says whether an archive that returns what it was given stands between them.  With
FALSE the module is this commit (run `save_overflows`).  With TRUE it shows what the operations of
`Game` promise each other, and the results of run `saved_game` about restored games hold
for this commit only once the archive does its part; those about retirement do not depend on it, but
on something that calls it.

### MC modules

The MC modules instantiate these with constants; MCDogMotion holds the road lists of
config.json, in their order, of the two maps that are not a simple ring.

## 4 Runs

| run | instance | shows |
|---|---|---|
| `session` | 2 players, 1 office, 2 loot types worth 1 and 3, bag of 2, 3 ticks of 1, 3 loots, map3's origin | the properties of the next table |
| `dog_map3` | map3, speed 3, ticks of 100 and 300 ms | `DogOnItsRoad`, `NeverLeavesRoads`, `StandingDogStays`, `MoveWithinVelocity` |
| `dog_town` | town (22 roads), speed 3, ticks of 500 ms | `StopsOnlyAtDeadEnd`, `NeverLeavesRoads` |
| `loot_generator` | config.json's period and probability, 3 looters, calls after 100 or 700 ms | `LootWithinLooters`, `WaitShorterThanBase`, `FreePlacesGetLoot` |
| `connection_pool` | 4 threads, 2 connections | the pool's properties below |
| `gathering` | two crossing streets, two loots, one office, moves of 0.1, 0.3 and 0.4 | `WalkGathersLikeOneMove` |
| `game_api` | 2 maps, one without loot types and one without roads, one unknown name, 2 names and the empty one, 3 tokens | properties of the registry below |
| `server` | main and one worker thread, 2 connections | properties of the server below |
| `saved_game` | 2 maps, 2 names, 2 tokens, 2 loots in a session, bag of 1, 1 restart, 2 records | properties of the saved game below |
| `torn_snapshot` | as `server` | violated: `SnapshotIsAState` |
| `unknown_map` | as `game_api` | violated: `UnknownMapIsNotFound` |
| `save_overflows` | as `saved_game`, without a working archive | violated: `ShutdownCompletes` |

Properties of `session`:

| property | meaning |
|---|---|
| `ImplementsLedger` | the session implements `LootLedger`: no loot is lost, doubled or paid for twice |
| `NoSharedIds` | loots of the map and of all bags have different identifiers, in every step of a tick |
| `LootBoundedByLooters` | loots on the map, with those still to be generated, do not outnumber players (core/LootGenerator.h:30) |
| `PlayTimeFollowsJoinOrder` | nobody has played longer than a player who joined earlier |
| `ParkedDogHoldsUpLaterOnes` | a dog that did not move in its last turn freezes clock, bag and score of everyone behind it, until it moves |
| `TickEnds` | a tick comes to its end |

`PlayTimeFollowsJoinOrder` and `ParkedDogHoldsUpLaterOnes` state what the `return` in
`MoveDogs` means for players.  No document of the repository says whether it is meant;
a `continue` would break the first claim's cause and the second claim.  Play time is what
the records of retired players are ranked by.

Properties of `loot_generator`: loots never outnumber looters; a call that finds a free place
and fills none has seen less than the base interval pass (5 s); and if places stay free from some
time on, loot still appears again and again.  Properties of `connection_pool`: a connection is at
one free place or with one thread (`EachConnectionOnce`); the count is the number of users
(`CountMatchesUsers`, which implies the assertion at db/connection_engine.h:76); while a thread
waits, every free connection has a thread on its way to take it or to notify (`NoLostWakeup`);
it does not stay so that one waits and a connection is free (`FreeConnectionFindsWaiter`); the
pool implements `ConnectionLease`.  Which waiter is served is up to the condition
variable, and a newcomer may overtake it, so no single thread is sure to be served.

Property of `gathering`: between two turns, the items gathered are those one long move would
gather, in the order of the way.  Nothing slips through where one tick ends and the next
begins, however late the timer is.

| property | meaning |
|---|---|
| `TokensResolve` | a token given to a client leads, through every lookup, to that name on that map and to nobody else, also after a join under the same name |
| `LookupsSucceed` | every lookup finds what it looks for: a reader's of a token, a tick's and an action's of a map; no failed join leaves a session behind whose map they would miss |
| `ClockStartsWithFirstPlayer` | sessions always have players, and the clock runs exactly when there is one |
| `PlayersSteerTheirDogs` | the dog of the name and map a client has joined as runs only if the last order with his token was to move, and then at the speed of that map: no order reaches another's dog |
| `HandlersNeverOverlap` | requests and ticks take turns with the game, whichever thread has read them |
| `OneTickPending` | never more than one tick is on its way: in the timer, on the strand, or running |
| `ClockKeepsTicking` | a started clock ticks again and again until the shutdown, unless an exception leaves a tick on the main thread or a handler never ends |
| `RequestsEnd` | a request on the strand is answered or loses its connection, or the server stops |
| `ShutdownEnds` | after a signal the process ends, also if the main thread had failed before |
| `LootConserved` | all loots that appeared lie on the map, are in bags, or are gone, although identifiers repeat after a restart |
| `IdsFollowJoinOrder` | while nobody has retired, identifiers are the places in join order, also after a restart |
| `RetiredHaveRecords` | nobody is deleted without a record, whichever insertion fails and whenever the process dies |
| `RestoredIsSaved` | saving a restored game gives the file it was restored from |
| `RetirementCompletesOrBreaksOff` | the deletion either takes away everyone the retirement has found, or breaks off with one of them recorded and still playing, in a session behind the first |

`LookupsSucceed` does not say that these handlers throw nothing: a malformed target throws before any of
them, a body that is no move request in an action, and a tick on a map without loot types or roads.
The run has such maps, so each of these ends is reached.

`RetirementCompletesOrBreaksOff` has its second branch for the `break` in `delete_expired_players`
(core/Game.cpp:299), whose indentation suggests that it was to follow the deletion.  As it stands, the
lookup of a player of another session goes to the first session, throws there (core/GameSession.cpp:76)
after his record has been committed, and ends the retirement.  He plays on idle, so the next one finds
him again and records him again.

`torn_snapshot`: a request has changed the first part of the game when the signal comes.  The thread
that takes it stops the `io_context` and copies both parts; the request's thread changes the second part
after that.  `SnapshotIsAState` says of the copy what "save server state"
(utility/utility_functions.h:43) says: it is the game as it is between two handlers.  `ioc.stop()` waits
for nobody, and nothing else keeps the handlers from the game.

Bounds.  `MaxTime` bounds the number of ticks and `MaxLoot` the loots.  Two players are
enough for one to hold up the other and to compete for a loot on the map; two types tell
apart a loot paid by another's score; a bag of two lets the paying loop run more than once
and a bag be full; three loots let a loot be left behind, picked up later, and a bag be
refilled after an office; three ticks let a player join, be held up and catch up.  With the
bounds reached the system stops ticking, but players may still steer, so there is no deadlock.
The motion runs have no bound: the reachable positions are finitely many.
The table of `loot_generator` ends at 13 s: from there on up to three free places are all
filled by one call, so longer times make no difference.  Four threads and two
connections let two threads return while two wait.  The pool has no other bound.
`game_api`: two maps let a token be of another session than the first; two names and three
tokens let a player join again, and two play on one map.  `server`: one worker and the main thread
are the two kinds there are, and let one handle while the other reads or serializes; two connections
let requests wait behind each other and behind a tick.  `saved_game`: two players let identifiers
have a gap after a retirement, or be in two sessions; two loots let one appear after a restart
with the identifier of another.  It is checked up to renaming of maps, names and tokens, which
are only compared.  The reach of the dog in `gathering` is 0.6 for a loot and 1.1 for an office; the
loots lie on the way, at the edge of the reach, beyond it, and where moves end.

Gaps.  `NeverLeavesRoads` on map3 holds for ticks up to 300 ms and fails for ticks of 500 ms:
the vertical road that ends at (8, 14) and the horizontal road at y = 16 are taken as crossed,
because `roads_crossed` does not ask whether the crossing lies on the first road, and a dog
that starts from the edge of the one lands 1.5 units further, on the other, across a gap of
1.2 units without a road.  The timer's period is 100 ms, but ticks carry the measured time, so
this needs a tick that is late by 300 ms.

`unknown_map`: a join for a map that does not exist ends in `std::map::at`
(core/MapParser.h:17), whose exception is not the one `HandleAuthRequest` catches to answer "Map not
found"; a GET of such a map takes the same way past the branch for it in `RequestHandler`.  `Server` has
what follows: the connection is lost, and the process too unless it was the main thread.

`save_overflows`: one join and a shutdown.  The process dies in the archive, after the file
has been truncated and before "server exited" is logged.

A dog that joins is not spawned (`spawn_dog_in_map` is called by nothing; the call in
network/api_handler.cpp:177-178 is commented out): on map3 it is first seen at the origin, off every
road, and is moved onto the first road by its first tick.  The motion properties begin there (`placed`).

Fairness.  `TickEnds` needs weak fairness of `TickStep`, the remaining steps of a tick
the strand has begun.  A handler on the strand holds a worker thread, waits for nothing and is a
finite loop whose next step is always enabled.  `FreePlacesGetLoot` needs weak fairness of
`Tick`: a started timer is set again by every tick.  `FreeConnectionFindsWaiter` needs it of the
steps of a thread that is not blocked, and of returning a connection, which is held for one SQL
statement.  Nothing is assumed of clients, nor that a thread ever calls.  In `Server`, threads
continue the operation they are in (weak fairness).  The strand's posted invoker, the expiry of the
timer and the signal need strong fairness: they are taken by a thread that is free, and threads are
busy and free in turn; the `io_context` queues what is ready and does not pass it over for ever.  A connection's own steps have no fairness: clients may stop at any time.

Each property was also checked against a faulty variant of one action or operator, kept beside
the correct one and marked as such (`TakeLootNoErase`, `MoveDogStuckContinue`, ...): the
property is violated with it.

## 5 Proofs

All theorems hold for every value of the constants that satisfies the named assumptions
(`SessionAssumption`, `RoadsAssumption`, `MotionAssumption`, `GeneratorAssumption`,
`PoolAssumption`, `GatheringAssumption`, `ApiAssumption`, `ServerAssumption`):
any number of players, types, offices, maps, names and tokens, any map of horizontal and vertical
roads, any speed and durations, any table of probabilities, any threads and connections, any
number of restarts.  The assumptions say of which type the constants
are, that roads are horizontal or vertical, that threads and connections are finitely many, and
that a name the model introduces is not one of the program's (`NoToken`, `None`, `"tick"`); the
maps of `GameApi` may be without loot types or roads.  The
theorems of SavedGameProofs need none of them; of those of ServerProofs only `OneTickAtATime` does.
`FreePlaceWaitsLessThanBase` has a hypothesis of its own, explained below.

| theorem | module | states |
|---|---|---|
| `TypeCorrect` | GameSessionProofs | `TypeOK` of `GameSession` |
| `LootNeverExceedsLooters` | GameSessionProofs | `LootBoundedByLooters` |
| `PlayTimeOrdered` | GameSessionProofs | `PlayTimeFollowsJoinOrder` |
| `LaterPlayersHeldUp` | GameSessionProofs | `ParkedDogHoldsUpLaterOnes` |
| `LootsKeepTheirIds` | GameSessionProofs | `NoSharedIds` |
| `SessionImplementsLedger` | GameSessionProofs | `ImplementsLedger` |
| `MotionTypes` | DogMotionProofs | `TypeOK` of `DogMotion` |
| `DogStaysOnItsRoad` | DogMotionProofs | `DogOnItsRoad` |
| `StandingDogNotMoved` | DogMotionProofs | `StandingDogStays` |
| `MovesAlongItsVelocity` | DogMotionProofs | `MoveWithinVelocity` |
| `LootTypes` | LootGeneratorProofs | `TypeOK` of `LootGenerator` |
| `LootNeverBeyondLooters` | LootGeneratorProofs | `LootWithinLooters` |
| `FreePlaceWaitsLessThanBase` | LootGeneratorProofs | `WaitShorterThanBase` |
| `PoolTypes` | ConnectionPoolProofs | `TypeOK` of `ConnectionPool` |
| `CountCorrect` | ConnectionPoolProofs | `CountMatchesUsers` |
| `ConnectionsNeverLost` | ConnectionPoolProofs | `EachConnectionOnce` |
| `PoolImplementsLease` | ConnectionPoolProofs | `ImplementsLease` |
| `WakeupsNotLost` | ConnectionPoolProofs | `NoLostWakeup` |
| `GameHasOneHandler` | ServerProofs | `HandlersNeverOverlap` |
| `ServerTypes` | ServerProofs | `TypeOK` of `Server` |
| `OneTickAtATime` | ServerProofs | `OneTickPending` |
| `CutsDoNotMatter` | GatheringProofs | `WalkGathersLikeOneMove` |
| `ApiTypes` | GameApiProofs | `TypeOK` of `GameApi` |
| `TokensFindTheirPlayer` | GameApiProofs | `TokensResolve` |
| `ClockStarts` | GameApiProofs | `ClockStartsWithFirstPlayer` |
| `OrdersReachTheirDogs` | GameApiProofs | `PlayersSteerTheirDogs` |
| `LookupsNeverFail` | GameApiProofs | `LookupsSucceed` |
| `SavedTypes` | SavedGameProofs | `TypeOK` of `SavedGame` |
| `LootIsConserved` | SavedGameProofs | `LootConserved` |
| `IdsCountPlayers` | SavedGameProofs | `IdsFollowJoinOrder` |
| `NobodyRetiresUnrecorded` | SavedGameProofs | `RetiredHaveRecords` |
| `RestoringLosesNothing` | SavedGameProofs | `RestoredIsSaved` |

The arguments:

- *Types.*  `TypeInv` is `TypeOK` with `TickShape`: in the phases of a dog's turn the cursor
  points at a player.  Without it `players[cursor]` has no type.
- *Loot count.*  Inductive with the types: `BeginTick` bounds `todo` by the shortage, each
  generated loot moves one from `todo` to the map, joins only raise the bound.
- *Play time.*  `OrderInv` adds that names are unique, that a name that has not joined has
  no play time, and that between a player the running loop has served and one it has not, the
  lead is at least the tick.  The last is what makes the next increment safe.
- *Held up.*  `MovedInv`: a player the running loop has passed has idle time 0.  A dog with
  positive idle time has not been passed, so the cursor is not behind it and no step of the loop
  touches a later player.
- *Ledger.*  `IdInv` is `NoSharedIds` with all identifiers below `loot_id`.  The mapping keeps in
  `carried` the loots not yet paid for and puts in `delivered` every identifier given out that
  is neither on the map nor owed, so `PassOne` is `HandIn` and `ClearBag` is a stutter.  Each
  action is shown to be the ledger's step or a stutter.
- *Motion.*  `MotionInv` adds that the speed is one `set_speed` gives or zero.  From the clamp
  lying inside the rectangle each branch of `change_position` keeps the dog in the rectangle
  of its road; a standing dog then always takes the first branch; and clamping a point that left the
  rectangle along one axis moves it back along that axis, not beyond where it came from.
- *Generator.*  A rounded share of the shortage is at most the shortage (`RoundedShare`); a share
  of at least one half of at least one rounds to at least one (`RoundedHalf`).  The second needs
  `LikelyInBase`: the probability for the base interval is at least one half, as in config.json,
  where it is exactly that.  With a smaller one the wait is longer.
- *Pool.*  `CountInv`: whoever returns a connection is counted, so the count is positive then and the
  index is valid.  `PlaceInv`: the free places hold distinct connections, none of which a
  thread has, and every connection is somewhere.  `NoLostWakeup` is inductive with the count: a
  return adds a free connection and a thread that will notify, a notification replaces that
  thread by the one it wakes, and a thread starts to wait only when nothing is free.
- *Turns.*  `OneInvoker`: one thread at most is in the strand, in a handler or between two, and
  while it is, `invoker` is `"running"`.  A thread comes in only when it is not, and leaves the strand
  before the invoker is posted again, also by an exception.  It needs no assumption on the constants.
- *One tick.*  `TickPlaces`: each queue of the strand holds one tick at most, one thread at most has
  one, and of the two queues, the threads and the timer only one place has it; before the ticker is
  started none has.  A cardinality says little by itself, so each action is shown to leave the tick
  where it is or to move it from one of these places to another (`DispatchTick`, `TakeTick`,
  `LeaveWithTick`, `EndTick`, `TimerToThread`), and the sum of the numbers follows.
- *Gathering.*  `GatherInv` adds that the dog has walked straight: the way since `start` is in the
  direction of `heading` (`Straight`).  That two moves in one direction hit what one over both does
  (`TwoMovesHitTheSame`) is arithmetic: by Lagrange's identity the distance from the line of the
  way does not depend on the length of the move, and the projections on parallel moves are in
  proportion (`Proportion`), so the two closed intervals of `proj_ratio` cover that of the one move.
  The order is kept because nothing the second move hits lies before what the first has hit
  (`OrderKept`); an item hit by both is met again at the end of the first.
- *Registry.*  `RegistryInv`: one session at most for a map, every token of a player issued and of
  no other player in any session, different names in a session, every answer to a join still true of
  some player, and every speed zero or, after an order to move with the player's token, that of the
  player's map (`SpeedsAsOrdered`).  The lookups return the first that fits; since at most one does,
  it is the right one, so an order changes the dog of its player only.  A tick or an action finds its
  map because sessions have maps of the configuration, a reader its token because it has tested it.
- *Saved game.*  `SavedInv` states of each session *and of each saved one* that its loots are all
  accounted for, and, while nobody has retired, that identifiers are in order; that a process which
  is not up has no sessions and no handler; and that those the retirement is about to delete have
  records, as far as its loop has come (`RecordInv`).  The clauses about `file` are what carries the
  others over a restart.  `RestoredSession`: the players made by `restore_session` through
  `add_player` are, one by one, the saved ones; `RestoredIsSaved` follows.  `carried`, a sum over the
  players, changes with one bag as that bag does (`CarriedExcept`), and with the deletion of a
  player by what it had (`CarriedRemoveAt`).

Induction.  The library's induction theorems take an operator and cannot be instantiated here.
Where the models sum or filter a sequence with a recursive function, `UpToInduction` takes the place
of those theorems: a set of numbers that contains 0 and with each number below the end the
next contains all up to the end, because the set of the others would have a least element
(`LeastNatural`, from the well-foundedness of inclusion between finite sets).  A recursive function
is a CHOOSE of some function that satisfies its equation; `RecursionExists` shows that there is one.

Checked only by TLC: `TickEnds`, `FreePlacesGetLoot`, `FreeConnectionFindsWaiter`, `ClockKeepsTicking`,
`RequestsEnd` and `ShutdownEnds`, which are liveness under fairness and out of the prover's reach; and
`StopsOnlyAtDeadEnd` and `NeverLeavesRoads`, which are facts about the shipped maps and false of some
others.  `RetirementCompletesOrBreaksOff` rests on TLC as well.
`SnapshotIsAState`, `UnknownMapIsNotFound` and `ShutdownCompletes` are violated.  Each
inductive invariant was checked by TLC on the instance of its run before it was proved.

## 6 What is not modelled

Parsing of the configuration (once, at start, from a fixed file; its results are constants),
formatting and logging; SQL and what PostgreSQL does; rounding in `float`; overflow of the clocks;
the Asio and Beast libraries, beyond what `Server` assumes of them.  `spawn_dog_in_map`,
`Game::timer_handler` and `serialize_sessions` are called by nothing.  Of a saved dog, position,
direction, score and clocks are left out: they are assigned both ways.  `Dog::direction_` is
left out of DogMotion: only `Dog::move` reads it, for a value `set_speed` never stores.  That
generated tokens are all different is assumed, of two 64-bit generators.  Undefined behaviour is
modelled for the unknown direction of a player action, as any outcome; not for an authorization header
shorter than its prefix.
