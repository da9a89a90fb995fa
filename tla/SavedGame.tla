----------------------------- MODULE SavedGame -----------------------------
(***************************************************************************)
(* What outlives the process: the saved game (Game::create_game_state and  *)
(* restore_sessions with serialization/game_state_serialization.cpp) and   *)
(* the records of retired players (Game::handle_retired_players with       *)
(* db/postgres.cpp), over shutdowns and crashes.                           *)
(*                                                                         *)
(* In this commit saving a game with a session never ends: serialize of a  *)
(* GameState, preferred to the one for vectors, serializes the same object *)
(* again until the stack overflows.  And main restores only if it has a    *)
(* save_file, which its Args leave empty.  Both stand between the          *)
(* operations create_game_state and restore_sessions of Game, and the      *)
(* constant ArchiveWorks says whether they do.  The call of handle_retired_ *)
(* players in ApiHandler's tick is commented out; it is modelled all the   *)
(* same, as the operation of Game that it is.                              *)
(*                                                                         *)
(* A loot is its identifier, as in the lookups of add_loot_to_dog.  The    *)
(* fields appeared and gone of a session are history: they count its loots *)
(* ever and the loots handed in or retired with their owner.               *)
(***************************************************************************)
EXTENDS Integers, Sequences, FiniteSets, SequencesExt

CONSTANTS
  Maps, Names, Tokens,
  BagCapacity,
  ArchiveWorks, \* FALSE in this commit
  MaxLoots,     \* bound: loots that appear in a session
  MaxRestarts,  \* bound: restarts of the process
  MaxRecords    \* bound: records of one player

ASSUME SavedAssumption ==
  /\ BagCapacity \in Nat \ {0}
  /\ ArchiveWorks \in BOOLEAN
  /\ MaxLoots \in Nat /\ MaxRestarts \in Nat /\ MaxRecords \in Nat

VARIABLES
  process,    \* "up", "exited", "crashed", or "overflowed" its stack
  sessions,   \* Game::sessions_
  issued,     \* tokens given out
  file,       \* the saved game, <<>> if there is no file
  records,    \* records[t]: rows of retired_players for the player with token t
  phase,      \* of handle_retired_players: "none", "save", "delete", "clean"
  expired,    \* tokens of the players find_expired_players has found
  handled,    \* how many of them the loop of the phase has handled
  retired,    \* history: tokens of players deleted by retirement
  restarts

game == <<sessions, issued>>
handler == <<phase, expired, handled>>
vars == <<process, game, file, records, handler, retired, restarts>>

Player == [name : Names, token : Tokens, id : Nat, bag : Seq(Nat), idle : BOOLEAN]
Session == [map : Maps, players : Seq(Player), player_id : Nat,
            loots : Seq(Nat), loot_id : Nat, appeared : Nat, gone : Nat]
PlayerState == Player
SessionInfo == [map : Maps, players : Seq(PlayerState), loots : Seq(Nat),
                appeared : Nat, gone : Nat]

TypeOK ==
  /\ process \in {"up", "exited", "crashed", "overflowed"}
  /\ sessions \in Seq(Session)
  /\ issued \subseteq Tokens
  /\ file \in Seq(SessionInfo)
  /\ records \in [Tokens -> Nat]
  /\ phase \in {"none", "save", "delete", "clean"}
  /\ expired \in Seq(Tokens)
  /\ handled \in Nat
  /\ retired \subseteq Tokens
  /\ restarts \in Nat

Init ==
  /\ process = "up"
  /\ sessions = <<>>
  /\ issued = {}
  /\ file = <<>>
  /\ records = [t \in Tokens |-> 0]
  /\ phase = "none"
  /\ expired = <<>>
  /\ handled = 0
  /\ retired = {}
  /\ restarts = 0

up == process = "up"

(* Between two handlers of the running process. *)
Idle == up /\ phase = "none"

(* How many loots the players carry together. *)
carried(players) ==
  LET upto[k \in 0 .. Len(players)] ==
        IF k = 0 THEN 0 ELSE upto[k - 1] + Len(players[k].bag)
  IN upto[Len(players)]

-----------------------------------------------------------------------------
(* The game as it is played. *)

NewSession(m) == [map |-> m, players |-> <<>>, player_id |-> 0, loots |-> <<>>,
                  loot_id |-> 0, appeared |-> 0, gone |-> 0]

(* GameSession::add_player for a name that is not playing yet. *)
with_player(s, name, token) ==
  [s EXCEPT !.players = Append(@, [name |-> name, token |-> token, id |-> s.player_id,
                                   bag |-> <<>>, idle |-> FALSE]),
            !.player_id = @ + 1]

(* Game::add_player; a name that is playing already changes nothing. *)
Join(m, name, token) ==
  /\ Idle
  /\ token \notin issued
  /\ LET i == SelectInSeq(sessions, LAMBDA s : s.map = m) IN
       \/ /\ i = 0
          /\ sessions' = Append(sessions, with_player(NewSession(m), name, token))
       \/ /\ i # 0
          /\ \A k \in DOMAIN sessions[i].players : sessions[i].players[k].name # name
          /\ sessions' = [sessions EXCEPT ![i] = with_player(@, name, token)]
  /\ issued' = issued \cup {token}
  /\ UNCHANGED <<process, file, records, handler, retired, restarts>>

Change(i, s) ==
  /\ sessions' = [sessions EXCEPT ![i] = s]
  /\ UNCHANGED <<process, issued, file, records, handler, retired, restarts>>

(* GameSession::generate_loot_info. *)
Appear(i) ==
  /\ Idle
  /\ sessions[i].appeared < MaxLoots
  /\ Change(i, [sessions[i] EXCEPT !.loots = Append(@, sessions[i].loot_id),
                                   !.loot_id = @ + 1, !.appeared = @ + 1])

(* Faulty variant: everything with the identifier is erased. *)
EraseAll(loots, l) == Remove(loots, l)

(* loots.erase(itFind): the first loot with the identifier. *)
erase(loots, l) == RemoveFirst(loots, l)

(* add_loot_to_dog and Dog::add_loot: the bag gets a copy of it. *)
PickUp(i, k, l) ==
  /\ Idle
  /\ Len(sessions[i].players[k].bag) < BagCapacity
  /\ Change(i, [sessions[i] EXCEPT !.loots = erase(@, l), !.players[k].bag = Append(@, l)])

(* Dog::pass_loot_to_office. *)
HandIn(i, k) ==
  /\ Idle
  /\ Change(i, [sessions[i] EXCEPT !.players[k].bag = <<>>,
                                   !.gone = @ + Len(sessions[i].players[k].bag)])

(* The dog's idle time reaches dogRetirementTime, or is reset by a move. *)
Rest(i, k) ==
  /\ Idle
  /\ \E idle \in BOOLEAN : Change(i, [sessions[i] EXCEPT !.players[k].idle = idle])

-----------------------------------------------------------------------------
(* Retirement, the four parts of handle_retired_players.  An exception     *)
(* leaves the rest undone.                                                 *)

HasPlayerWithAuthToken(s, t) == \E k \in DOMAIN s.players : s.players[k].token = t

idle_tokens(players) ==
  LET upto[k \in 0 .. Len(players)] ==
        IF k = 0 THEN <<>>
        ELSE IF players[k].idle THEN Append(upto[k - 1], players[k].token) ELSE upto[k - 1]
  IN upto[Len(players)]

find_expired_players ==
  /\ Idle
  /\ expired' = FlattenSeq([i \in DOMAIN sessions |-> idle_tokens(sessions[i].players)])
  /\ expired' # <<>>
  /\ phase' = "save"
  /\ handled' = 0
  /\ UNCHANGED <<process, game, file, records, retired, restarts>>

Abandon == phase' = "none" /\ expired' = <<>> /\ handled' = 0

LoopTo(next) ==
  /\ handled = Len(expired)
  /\ phase' = next
  /\ handled' = 0
  /\ UNCHANGED expired

Handled == handled' = handled + 1 /\ UNCHANGED <<phase, expired>>

(* Faulty variant: a failed insertion is passed over. *)
PassOver == Handled

InsertFails == Abandon

(* SaveRetiredPlayer inserts a row under a new identifier and commits it,  *)
(* or throws.                                                              *)
save_expired_players ==
  /\ up
  /\ phase = "save"
  /\ \/ /\ LoopTo("delete")
        /\ UNCHANGED records
     \/ /\ handled < Len(expired)
        /\ records[expired[handled + 1]] < MaxRecords
        /\ records' = [records EXCEPT ![expired[handled + 1]] = @ + 1]
        /\ Handled
     \/ /\ handled < Len(expired)
        /\ InsertFails
        /\ UNCHANGED records
  /\ UNCHANGED <<process, game, file, retired, restarts>>

(* The loop over the sessions breaks after the first one, where the lookup *)
(* throws PlayerAbsentException for a player of another; 0 stands for that. *)
searched_session(t) == IF HasPlayerWithAuthToken(sessions[1], t) THEN 1 ELSE 0

(* Faulty variant: a player who is not found is passed over. *)
PassOverAbsent == Handled

LookupFails == Abandon

(* GameSession::delete_player; the bag goes with its owner. *)
delete_player(s, t) ==
  LET k == SelectInSeq(s.players, LAMBDA p : p.token = t) IN
  [s EXCEPT !.players = RemoveAt(@, k), !.gone = @ + Len(s.players[k].bag)]

delete_expired_players ==
  /\ up
  /\ phase = "delete"
  /\ \/ /\ LoopTo("clean")
        /\ UNCHANGED <<sessions, retired>>
     \/ /\ handled < Len(expired)
        /\ LET t == expired[handled + 1]
               i == searched_session(t) IN
             \/ /\ i = 0
                /\ LookupFails
                /\ UNCHANGED <<sessions, retired>>
             \/ /\ i # 0
                /\ sessions' = [sessions EXCEPT ![i] = delete_player(@, t)]
                /\ retired' = retired \cup {t}
                /\ Handled
  /\ UNCHANGED <<process, issued, file, records, restarts>>

with_players(ss) ==
  LET upto[i \in 0 .. Len(ss)] ==
        IF i = 0 THEN <<>>
        ELSE IF ss[i].players # <<>> THEN Append(upto[i - 1], ss[i]) ELSE upto[i - 1]
  IN upto[Len(ss)]

delete_empty_sessions ==
  /\ up
  /\ phase = "clean"
  /\ sessions' = with_players(sessions)
  /\ Abandon
  /\ UNCHANGED <<process, issued, file, records, retired, restarts>>

handle_retired_players ==
  \/ find_expired_players \/ save_expired_players
  \/ delete_expired_players \/ delete_empty_sessions

-----------------------------------------------------------------------------
(* Saving and restoring. *)

(* GameSession::get_session_state, Player::get_state, Dog::get_state: the  *)
(* counters of a session are not part of its state.                        *)
get_session_state(s) ==
  [map |-> s.map, players |-> s.players, loots |-> s.loots,
   appeared |-> s.appeared, gone |-> s.gone]

create_game_state == [i \in DOMAIN sessions |-> get_session_state(sessions[i])]

Stop(ending) ==
  /\ process' = ending
  /\ sessions' = <<>>
  /\ Abandon
  /\ UNCHANGED <<issued, records, retired, restarts>>

(* A shutdown ends with serialize_state, which writes no empty game.       *)
(* serialize_game_state truncates the file before it begins to write.      *)
Shutdown ==
  /\ Idle
  /\ \/ /\ sessions = <<>>
        /\ UNCHANGED file
        /\ Stop("exited")
     \/ /\ sessions # <<>>
        /\ ArchiveWorks
        /\ file' = create_game_state
        /\ Stop("exited")
     \/ /\ sessions # <<>>
        /\ ~ArchiveWorks
        /\ file' = <<>>
        /\ Stop("overflowed")

Crash == up /\ Stop("crashed") /\ UNCHANGED file

(* Faulty variant: the identifier a player had is forgotten. *)
init_without_id(player, state) == [state EXCEPT !.id = player.id]

(* Player::set_id and init_dog: the saved state over the new player. *)
init_player(player, state) ==
  [player EXCEPT !.id = state.id, !.bag = player.bag \o state.bag, !.idle = state.idle]

(* Faulty variant: the session does not count its restored players. *)
UncountedPlayer(s, state) ==
  [s EXCEPT !.players = Append(@, Last(with_player(s, state.name, state.token).players))]

add_saved_player(s, state) == with_player(s, state.name, state.token)

restore_player(s, state) ==
  LET added == add_saved_player(s, state)
      k == Len(added.players)
  IN [added EXCEPT !.players[k] = init_player(@, state)]

(* set_loot_list adds the size of the list it has just moved away, so the  *)
(* next identifier of a loot is 0 again.                                   *)
restore_session(info) ==
  LET s == [NewSession(info.map) EXCEPT !.loots = info.loots,
                                        !.appeared = info.appeared, !.gone = info.gone]
      restored[k \in 0 .. Len(info.players)] ==
        IF k = 0 THEN s ELSE restore_player(restored[k - 1], info.players[k])
  IN restored[Len(info.players)]

Restart ==
  /\ ~up
  /\ restarts < MaxRestarts
  /\ process' = "up"
  /\ sessions' = IF ArchiveWorks THEN [i \in DOMAIN file |-> restore_session(file[i])] ELSE <<>>
  /\ restarts' = restarts + 1
  /\ UNCHANGED <<issued, file, records, handler, retired>>

-----------------------------------------------------------------------------
Play(i) ==
  \/ Appear(i)
  \/ \E k \in DOMAIN sessions[i].players :
       \/ HandIn(i, k) \/ Rest(i, k)
       \/ \E l \in ToSet(sessions[i].loots) : PickUp(i, k, l)

Next ==
  \/ \E m \in Maps, name \in Names, token \in Tokens : Join(m, name, token)
  \/ \E i \in DOMAIN sessions : Play(i)
  \/ handle_retired_players
  \/ Shutdown \/ Crash \/ Restart

Spec == Init /\ [][Next]_vars

-----------------------------------------------------------------------------
(* Properties. *)

(* Saving a restored game gives the file it was restored from: the new     *)
(* players made by add_player end up with the names, tokens, identifiers,  *)
(* bags and order of the saved ones, also when retirement has left gaps.   *)
RestoredIsSaved == [][~up /\ up' => create_game_state' = file']_vars

(* No loot is lost or doubled over restarts: all that appeared lie on the  *)
(* map, are in bags, or are gone, although identifiers are given out again *)
(* after a restart and a loot is found and erased by its identifier.       *)
LootConserved ==
  \A i \in DOMAIN sessions :
    sessions[i].appeared = Len(sessions[i].loots) + carried(sessions[i].players) + sessions[i].gone

(* While nobody has retired, identifiers count the players in join order,  *)
(* before and after a restart, so no two players of a session share one.   *)
(* The answers that list players are keyed by it.                          *)
IdsFollowJoinOrder ==
  retired = {} =>
    \A i \in DOMAIN sessions :
      /\ sessions[i].player_id = Len(sessions[i].players)
      /\ \A k \in DOMAIN sessions[i].players : sessions[i].players[k].id = k - 1

(* Nobody is deleted without a record, whichever insertion fails and       *)
(* whenever the process dies.                                              *)
RetiredHaveRecords == \A t \in retired : records[t] > 0

(* Retirement either deletes everyone it has found, before it cleans up,   *)
(* or breaks off at somebody of a later session, who has just got a record *)
(* and plays on: it will find him again, and record him again.             *)
playing(t) == \E i \in DOMAIN sessions : HasPlayerWithAuthToken(sessions[i], t)
RetirementCompletesOrBreaksOff ==
  [][phase = "delete" /\ phase' # "delete" /\ up' =>
       IF phase' = "clean"
         THEN \A t \in ToSet(expired) : t \in retired /\ ~playing(t)
         ELSE \E t \in ToSet(expired) :
                /\ records[t] > 0
                /\ \E i \in DOMAIN sessions \ {1} : HasPlayerWithAuthToken(sessions[i], t)]_vars

(* A shutdown writes the game to its archive (the comment at game_state_   *)
(* serialization.cpp:75) and then reports that the server has exited with  *)
(* success (main.cpp:81): the process does not die on the way.             *)
ShutdownCompletes == process # "overflowed"
=============================================================================
