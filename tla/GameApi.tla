------------------------------ MODULE GameApi ------------------------------
(***************************************************************************)
(* The registry of Game (core/Game.cpp): one session for each map that is  *)
(* played, the players of each session with their tokens, and the API      *)
(* handlers (network/api_handler.cpp) that read and change it.             *)
(*                                                                         *)
(* A handler runs on the strand to its end, so each endpoint is one action *)
(* and answer is the response it gives: a code named for the response, and *)
(* what the body tells about the registry.  A handler that an exception    *)
(* leaves gives no response, and the code is the name of the exception;    *)
(* module Server has what becomes of the thread.  The code "undefined" is  *)
(* that of a handler that reads past the end of a vector.  What a tick     *)
(* does inside a session is in modules GameSession and DogMotion.          *)
(***************************************************************************)
EXTENDS Integers, Sequences, FiniteSets, SequencesExt

CONSTANTS
  Maps,            \* names of the maps in the configuration
  UnknownMaps,     \* other names a client may ask for
  Names,           \* player names, EmptyName among them
  EmptyName,
  Tokens,          \* tokens the generator may give
  TokenChars,      \* TokenChars[t]: the codes of the characters of token t
  NoToken,         \* what GetAuthToken makes of a missing header
  ConfigSpeed,     \* ConfigSpeed[m]: dogSpeed of map m, 0 when it has none
  DefaultSpeed,    \* defaultDogSpeed
  NumLoots,        \* NumLoots[m]: types of loot of map m, may be none
  NumRoads         \* NumRoads[m]: roads of map m, may be none

ASSUME ApiAssumption ==
  /\ UnknownMaps \cap Maps = {}
  /\ EmptyName \in Names
  /\ NoToken \notin Tokens
  /\ TokenChars \in [Tokens -> (SUBSET (48..57 \cup 97..102)) \ {{}}]
  /\ ConfigSpeed \in [Maps -> Nat]
  /\ DefaultSpeed \in Nat
  /\ NumLoots \in [Maps -> Nat] /\ NumRoads \in [Maps -> Nat]

VARIABLES
  sessions,     \* sessions_: for each its map, its players and player_id
  issued,       \* tokens the generator has given
  ticker,       \* ApiHandler has a ticker: the tick period is not zero
  has_started,  \* Ticker::has_started_
  given,        \* history: the join answers, as [token, map, name]
  ordered,      \* history: ordered[t], the last move accepted with token t
  answer        \* the last response

registry == <<sessions, issued, given, ordered>>
vars == <<registry, ticker, has_started, answer>>

Player == [name : Names, token : Tokens, id : Nat, speed : Nat]
Session == [map : Maps, players : Seq(Player), player_id : Nat]

(* What GetMoveDirection may find in a body: the four directions are alike *)
(* here.                                                                   *)
DogDirection == {"STOP", "EAST"}

TypeOK ==
  /\ sessions \in Seq(Session)
  /\ issued \subseteq Tokens
  /\ ticker \in BOOLEAN
  /\ has_started \in BOOLEAN
  /\ given \subseteq [token : Tokens, map : Maps, name : Names]
  /\ ordered \in [Tokens -> DogDirection]

Reply(endpoint, code, body) ==
  answer' = [endpoint |-> endpoint, code |-> code, body |-> body]

(* A response that leaves the game and the ticker as they are. *)
Only(endpoint, code, body) ==
  /\ Reply(endpoint, code, body)
  /\ UNCHANGED <<registry, ticker, has_started>>

(* create_game takes the tick period as a parameter; main leaves it at 100. *)
Init ==
  /\ sessions = <<>>
  /\ issued = {}
  /\ ticker \in BOOLEAN
  /\ has_started = FALSE
  /\ given = {}
  /\ ordered = [t \in Tokens |-> "STOP"]
  /\ answer = [endpoint |-> "none", code |-> "none", body |-> {}]

-----------------------------------------------------------------------------
(* Lookups.  All of them take the first session, or player, that fits;     *)
(* position 0 means there is none.                                         *)

HasPlayerWithAuthToken(s, t) == \E i \in DOMAIN s.players : s.players[i].token = t
__find_session(m) == SelectInSeq(sessions, LAMBDA s : s.map = m)
__get_session_for_token(t) == SelectInSeq(sessions, LAMBDA s : HasPlayerWithAuthToken(s, t))
has_session_with_auth_info(t) == __get_session_for_token(t) # 0

(* The position of a token's player in its session. *)
GetPlayerWithAuthToken(t) ==
  SelectInSeq(sessions[__get_session_for_token(t)].players, LAMBDA p : p.token = t)

(* MapStorage::get_map: std::map::at throws for a name it does not have. *)
map_found(m) == m \in Maps

(* Map::dog_speed is 0 unless the map sets it, which means the default. *)
dog_speed(m) == IF ConfigSpeed[m] > 0 THEN ConfigSpeed[m] ELSE DefaultSpeed

-----------------------------------------------------------------------------
(* Joining. *)

(* GameSession::add_player: the player who has the name already, or a new  *)
(* one with the given token and the next identifier.                       *)
with_player(s, name, token) ==
  IF \E i \in DOMAIN s.players : s.players[i].name = name
    THEN s
    ELSE [s EXCEPT !.players = Append(@, [name |-> name, token |-> token,
                                          id |-> s.player_id, speed |-> 0]),
                   !.player_id = @ + 1]

named(s, name) == CHOOSE p \in ToSet(s.players) : p.name = name

(* Faulty variant: the answer carries the token just drawn, also for a     *)
(* player who was there before and keeps the old one.                      *)
AuthInfoOfGenerator(s, name, token) == [token |-> token, id |-> named(s, name).id]
PlayerAuthInfo(s, name, token) == [token |-> named(s, name).token, id |-> named(s, name).id]

NewSession(m) == [map |-> m, players |-> <<>>, player_id |-> 0]
with_session(m) == IF __find_session(m) # 0 THEN sessions ELSE Append(sessions, NewSession(m))

(* Game::add_player for a map that exists: the session of the map, made    *)
(* now if nobody played there, takes the player.  The generator gives a    *)
(* token in either case, and the tokens it gives are different.  The first *)
(* join starts the ticker.                                                 *)
add_player(m, name, token) ==
  LET at == IF __find_session(m) # 0 THEN __find_session(m) ELSE Len(sessions) + 1
      joined == with_player(with_session(m)[at], name, token)
      info == PlayerAuthInfo(joined, name, token)
  IN /\ sessions' = [with_session(m) EXCEPT ![at] = joined]
     /\ issued' = issued \cup {token}
     /\ given' = given \cup {[token |-> info.token, map |-> m, name |-> name]}
     /\ has_started' = (has_started \/ ticker)
     /\ Reply("join", "ok", {info})
     /\ UNCHANGED <<ordered, ticker>>

(* Faulty variant: the session is made before the map is looked up. *)
UnknownMapAfterSession(m) ==
  /\ sessions' = with_session(m)
  /\ Reply("join", "out_of_range", {})
  /\ UNCHANGED <<issued, given, ordered, ticker, has_started>>

(* find_map throws out_of_range before anything has changed; the handler   *)
(* has a catch clause for MapNotFoundException, which nothing throws.      *)
unknown_map(m) == Only("join", "out_of_range", {})

HandleAuthRequest(m, name, token) ==
  \/ /\ name = EmptyName
     /\ Only("join", "invalidName", {})
  \/ /\ name # EmptyName
     /\ ~map_found(m)
     /\ unknown_map(m)
  \/ /\ name # EmptyName
     /\ map_found(m)
     /\ add_player(m, name, token)

(* What ParseJoinGameRequest may find in a body. *)
JoinRequest == [mapId : Maps \cup UnknownMaps, userName : Names]

HandleJoinGameRequest(method) ==
  \/ /\ method # "POST"
     /\ Only("join", "onlyPostMethodAllowed", {})
  \/ /\ method = "POST"
     /\ \/ Only("join", "joinGameReqParseError", {})   \* the body is no join request
        \/ \E r \in JoinRequest, token \in Tokens \ issued :
             HandleAuthRequest(r.mapId, r.userName, token)

-----------------------------------------------------------------------------
(* Reading.  GetAuthToken gives NoToken for a request without a header of  *)
(* the form it expects, and otherwise what follows the word Bearer.        *)

Headers == Tokens \cup {NoToken}

(* find_all_players_for_auth_info and get_loots_for_auth_info throw for a  *)
(* token that no session has.                                              *)
players_of(t) == ToSet(sessions[__get_session_for_token(t)].players)
Listed(endpoint, t, body) ==
  IF has_session_with_auth_info(t) THEN Only(endpoint, "ok", body)
                                   ELSE Only(endpoint, "InvalidTokenException", {})

(* SerializePlayers and GetPlayerInfoResponce: what they tell of players.  *)
PlayerInfo(players) == {<<p.id, p.name>> : p \in players}
DogInfo(players) == {<<p.id, p.speed>> : p \in players}

HandleGetPlayersRequest(method, t) ==
  \/ /\ method = "POST"
     /\ Only("players", "invalidMethod", {})
  \/ /\ method # "POST"
     /\ \/ /\ t = NoToken
           /\ Only("players", "authHeaderMissing", {})
        \/ /\ t # NoToken
           /\ ~has_session_with_auth_info(t)
           /\ Only("players", "playerTokenNotFound", {})
        \/ /\ has_session_with_auth_info(t)
           /\ Listed("players", t, IF method = "GET" THEN PlayerInfo(players_of(t)) ELSE {})

(* Each character of a token is tested to be below '0', above '9', below   *)
(* 'a' or above 'f', and every character is one of these.                  *)
IsValidAuthToken(t) ==
  \A c \in TokenChars[t] : ~(c < 48 \/ c > 57 \/ c < 97 \/ c > 102)

(* Faulty variant: only a missing header is turned away. *)
TurnedAwayIfMissing(t) == t = NoToken

turned_away(t) == t = NoToken \/ ~has_session_with_auth_info(t)

HandleGetGameState(method, t) ==
  \/ /\ method = "POST"
     /\ Only("state", "invalidMethod", {})
  \/ /\ method # "POST"
     /\ turned_away(t)
     /\ Only("state", IF t = NoToken \/ ~IsValidAuthToken(t)
                      THEN "authHeaderMissing" ELSE "playerTokenNotFound", {})
  \/ /\ method # "POST"
     /\ ~turned_away(t)
     /\ IF method = "GET" THEN Listed("state", t, DogInfo(players_of(t)))
                          ELSE Only("state", "ok", {})

-----------------------------------------------------------------------------
(* The player's action, ticks and records. *)

(* Faulty variant: the speed of the map that is played first. *)
map_speed_of_first(t) == dog_speed(sessions[1].map)

(* find_map for the map of the token's session, then Map::dog_speed. *)
map_speed(t) == dog_speed(sessions[__get_session_for_token(t)].map)

(* Dog::set_speed of the token's player. *)
set_speed(t, dir) ==
  /\ sessions' = [sessions EXCEPT
       ![__get_session_for_token(t)].players[GetPlayerWithAuthToken(t)].speed =
         IF dir = "STOP" THEN 0 ELSE map_speed(t)]
  /\ ordered' = [ordered EXCEPT ![t] = dir]
  /\ Reply("action", "ok", {})
  /\ UNCHANGED <<issued, given, ticker, has_started>>

(* The body is parsed last.  What is no move request throws; a direction   *)
(* nobody defined is looked up in a map and the end of the map is read, so *)
(* whatever lies there is the direction, or makes set_speed throw.         *)
HandlePlayerAction(method, t) ==
  \/ /\ method # "POST"
     /\ Only("action", "invalidMethod", {})
  \/ /\ method = "POST"
     /\ t = NoToken
     /\ Only("action", "authHeaderRequired", {})
  \/ /\ method = "POST"
     /\ t # NoToken
     /\ ~has_session_with_auth_info(t)
     /\ Only("action", "playerTokenNotFound", {})
  \/ /\ method = "POST"
     /\ has_session_with_auth_info(t)
     /\ IF ~map_found(sessions[__get_session_for_token(t)].map)
          THEN Only("action", "out_of_range", {})
          ELSE \/ \E dir \in DogDirection : set_speed(t, dir)
               \/ \E e \in {"system_error", "DogSpeedException"} : Only("action", e, {})

(* What may become of generate_loot_info for one session, in whose tick    *)
(* there may be nothing to generate.                                       *)
loot_codes(s) ==
  IF ~map_found(s.map) THEN {"out_of_range"}
  ELSE {"ok"} \cup (IF NumLoots[s.map] = 0 THEN {"LootNotSpecifiedException"}
                    ELSE IF NumRoads[s.map] = 0 THEN {"RoadNotSpecifiedException"} ELSE {})

(* Game::GenerateLoot goes through the sessions until one throws.  Then    *)
(* Game::MoveDogs moves the first dog of every session at least, and a dog *)
(* on a map without roads reads the first of them all the same.            *)
tick_codes ==
  LET Reached == {i \in DOMAIN sessions : \A j \in 1..(i - 1) : "ok" \in loot_codes(sessions[j])}
      Thrown == UNION {loot_codes(sessions[i]) \ {"ok"} : i \in Reached}
      Moved == IF \E i \in DOMAIN sessions : sessions[i].players # <<>> /\ NumRoads[sessions[i].map] = 0
                 THEN "undefined" ELSE "ok"
  IN Thrown \cup (IF \A i \in DOMAIN sessions : "ok" \in loot_codes(sessions[i])
                     THEN {Moved} ELSE {})

(* Dogs that MoveDogs takes to where no road goes on stand still there:    *)
(* those of the players in T, who may be any.                              *)
MoveDogs(T) ==
  sessions' = [i \in DOMAIN sessions |->
    [sessions[i] EXCEPT !.players = [k \in DOMAIN sessions[i].players |->
       IF sessions[i].players[k].token \in T THEN [sessions[i].players[k] EXCEPT !.speed = 0]
                                             ELSE sessions[i].players[k]]]]

Tick(endpoint) ==
  \E code \in tick_codes :
    IF code \in {"ok", "undefined"}
      THEN /\ \E T \in SUBSET issued : MoveDogs(T)
           /\ Reply(endpoint, code, {})
           /\ UNCHANGED <<issued, given, ordered, ticker, has_started>>
      ELSE Only(endpoint, code, {})

HandleTickAction(method) ==
  \/ /\ method # "POST"
     /\ Only("tick", "invalidMethod", {})
  \/ /\ method = "POST"
     /\ ticker
     /\ Only("tick", "invalidEndpoint", {})
  \/ /\ method = "POST"
     /\ ~ticker
     /\ Only("tick", "failedToParseTick", {}) \/ Tick("tick")

OnTick ==
  /\ has_started
  /\ Tick("timer")

(* ParseParameters: start is read before maxItems, and what cannot be read *)
(* leaves its default and everything after it at the default.              *)
MAX_DB_RECORDS == 100
Parameter == [kind : {"absent", "malformed"}, value : {0}] \cup [kind : {"number"}, value : {-1, 101}]
ParseParameters(start, maxItems) ==
  [start |-> IF start.kind = "number" THEN start.value ELSE 0,
   max_items |-> IF start.kind # "malformed" /\ maxItems.kind = "number"
                   THEN maxItems.value ELSE MAX_DB_RECORDS]

(* The database refuses a negative limit or offset, and may be away. *)
HandleGetRecordsAction(method) ==
  \/ /\ method = "POST"
     /\ Only("records", "invalidMethod", {})
  \/ /\ method # "POST"
     /\ \E start, maxItems \in Parameter :
          LET p == ParseParameters(start, maxItems) IN
          \/ /\ p.max_items > MAX_DB_RECORDS
             /\ Only("records", "invalidName", {})
          \/ /\ p.max_items <= MAX_DB_RECORDS
             /\ \/ /\ p.max_items >= 0
                   /\ p.start >= 0
                   /\ Only("records", "ok", {})
                \/ Only("records", "DatabaseError", {})

-----------------------------------------------------------------------------
(* GetRequestParameters parses the target before its handler is called:    *)
(* boost::urls::url_view throws for one that is not a URL.                 *)
Endpoints == {"join", "players", "state", "action", "tick", "records"}
MalformedTarget == \E endpoint \in Endpoints : Only(endpoint, "system_error", {})

(* InitApiRequestHandlers: a handler for each endpoint. *)
HandleApiRequest(method) ==
  \/ MalformedTarget
  \/ HandleJoinGameRequest(method)
  \/ \E t \in Headers :
       \/ HandleGetPlayersRequest(method, t)
       \/ HandleGetGameState(method, t)
       \/ HandlePlayerAction(method, t)
  \/ HandleTickAction(method)
  \/ HandleGetRecordsAction(method)

(* RequestHandler::operator() for other targets, on no strand: it reads    *)
(* only what does not change.  get_map_as_string throws out_of_range for a *)
(* map it does not have; the branch for an empty text is never taken.      *)
HandleMapRequest(method) ==
  \/ /\ method = "POST"
     /\ Only("maps", "invalidMethod", {})
  \/ /\ method # "POST"
     /\ \/ Only("maps", "badRequest", {})
        \/ Only("maps", "ok", Maps)
        \/ \E m \in Maps \cup UnknownMaps :
             IF map_found(m) THEN Only("maps", "ok", IF method = "GET" THEN {m} ELSE {})
                             ELSE Only("maps", "out_of_range", {})

Next == \/ OnTick
        \/ \E method \in {"GET", "HEAD", "POST"} :
             HandleApiRequest(method) \/ HandleMapRequest(method)

Spec == Init /\ [][Next]_vars

-----------------------------------------------------------------------------
(* Properties. *)

(* A token that a join has answered with leads, through the lookups of     *)
(* every endpoint, to the player of that name in the session of that map,  *)
(* and to nobody else, however many players join or join again after it.   *)
TokensResolve ==
  \A g \in given :
    /\ has_session_with_auth_info(g.token)
    /\ LET s == sessions[__get_session_for_token(g.token)] IN
         /\ s.map = g.map
         /\ s.players[GetPlayerWithAuthToken(g.token)].name = g.name
    /\ \A h \in given : h.token = g.token => h = g

(* Every lookup of the registry finds what it looks for, whatever joins,   *)
(* actions and ticks have gone before: a reader looks up no token it has   *)
(* not tested in the same way, and no session is left behind by a failed   *)
(* join whose map the next tick or action would miss.  Other exceptions do *)
(* leave these handlers: of a malformed target, and, on a map without      *)
(* types of loot or roads, of a tick.                                      *)
LookupsSucceed ==
  /\ answer.code # "InvalidTokenException"
  /\ answer.endpoint \in {"timer", "tick", "action"} => answer.code # "out_of_range"

(* The clock runs as soon as, and not before, somebody plays: sessions     *)
(* have players from the start, and the ticker starts with the first.      *)
ClockStartsWithFirstPlayer ==
  /\ \A i \in DOMAIN sessions : sessions[i].players # <<>>
  /\ has_started <=> ticker /\ sessions # <<>>

(* A player steers the dog the join answer named, and no other: whoever    *)
(* was told a token, the dog of that name on that map runs only if the     *)
(* last order given with the token was to move, and then at the speed of   *)
(* that map, or the default where it has none, whatever the sessions made, *)
(* the players who joined and the orders of others in between.  (It may    *)
(* stand still all the same, where its road has ended.)                    *)
PlayersSteerTheirDogs ==
  \A g \in given : \A i \in DOMAIN sessions : \A p \in ToSet(sessions[i].players) :
    sessions[i].map = g.map /\ p.name = g.name
      => p.speed \in (IF ordered[g.token] = "STOP" THEN {0} ELSE {0, dog_speed(g.map)})

(* What Game.cpp:84-85 says of a map that is not found, and both HandleAuth- *)
(* Request and RequestHandler have an answer for: "Map not found".  The    *)
(* code throws something else on the way, and the request has no answer.   *)
UnknownMapIsNotFound ==
  ~(answer.endpoint \in {"join", "maps"} /\ answer.code = "out_of_range")
=============================================================================
