--------------------------- MODULE GameApiProofs ---------------------------
(***************************************************************************)
(* Proofs about GameApi, for any maps, names and tokens, any number of     *)
(* sessions and players, and any speeds of the configuration.              *)
(***************************************************************************)
EXTENDS GameApi, FiniteSetTheorems, SequenceTheorems, TLAPS

PlayerAt(ss, i, k) == ss[i].players[k]
PlayersOf(ss, i) == DOMAIN ss[i].players

OneSessionPerMap(ss) == \A i, j \in DOMAIN ss : ss[i].map = ss[j].map => i = j

(* A token belongs to one player of one session. *)
TokensDiffer(ss) ==
  \A i, j \in DOMAIN ss : \A k \in PlayersOf(ss, i), l \in PlayersOf(ss, j) :
    PlayerAt(ss, i, k).token = PlayerAt(ss, j, l).token => i = j /\ k = l

(* The generator has given it. *)
TokensIssued(ss, tokens) ==
  \A i \in DOMAIN ss : \A k \in PlayersOf(ss, i) : PlayerAt(ss, i, k).token \in tokens

(* The player an answer to a join was about is there. *)
AnswersKept(ss, answers) ==
  \A g \in answers : \E i \in DOMAIN ss : \E k \in PlayersOf(ss, i) :
    /\ ss[i].map = g.map
    /\ PlayerAt(ss, i, k).name = g.name
    /\ PlayerAt(ss, i, k).token = g.token

NamesDiffer(ss) ==
  \A i \in DOMAIN ss : \A k, l \in PlayersOf(ss, i) :
    PlayerAt(ss, i, k).name = PlayerAt(ss, i, l).name => k = l

(* A dog stands still or does what the last order of its token was. *)
SpeedsFor(dir, m) == IF dir = "STOP" THEN {0} ELSE {0, dog_speed(m)}
SpeedsAsOrdered(ss, orders) ==
  \A i \in DOMAIN ss : \A k \in PlayersOf(ss, i) :
    PlayerAt(ss, i, k).speed \in SpeedsFor(orders[PlayerAt(ss, i, k).token], ss[i].map)

Registered(ss, tokens, answers, orders) ==
  /\ ss \in Seq(Session)
  /\ OneSessionPerMap(ss)
  /\ TokensDiffer(ss)
  /\ TokensIssued(ss, tokens)
  /\ AnswersKept(ss, answers)
  /\ NamesDiffer(ss)
  /\ SpeedsAsOrdered(ss, orders)

RegistryInv ==
  /\ TypeOK
  /\ Registered(sessions, issued, given, ordered)
  /\ ClockStartsWithFirstPlayer

-----------------------------------------------------------------------------
(* What the lookups return.  They take the first of what fits; as at most  *)
(* one fits, it is enough that they return something that does.            *)

LEMMA LeastNatural ==
  ASSUME NEW S, S \subseteq Nat, S # {}
  PROVE  Min(S) \in S
<1> DEFINE T == {1..n : n \in S}
           R == StrictSubsetOrdering(Nat)
<1>1. IsWellFoundedOn(R, FiniteSubsetsOf(Nat))  BY FS_StrictSubsetOrderingWellFounded
<1>2. T \subseteq FiniteSubsetsOf(Nat) /\ T # {}
  <2>1. \A n \in S : IsFiniteSet(1..n) /\ 1..n \subseteq Nat  BY FS_Interval
  <2> QED  BY <2>1 DEF FiniteSubsetsOf
<1>3. ASSUME NEW x \in T, NEW y \in T, y \subseteq x, y # x PROVE <<y, x>> \in R
  BY <1>2, <1>3 DEF StrictSubsetOrdering, FiniteSubsetsOf
<1> HIDE DEF R
<1>4. PICK x \in T : \A y \in T : ~(<<y, x>> \in R)
  <2> HIDE DEF T
  <2> QED  BY <1>1, <1>2, WFMin
<1>5. PICK n \in S : x = 1..n  OBVIOUS
<1>6. ASSUME NEW m \in S, m < n PROVE FALSE
  <2>1. 1..m \subseteq x /\ 1..m # x  BY <1>5, <1>6
  <2> QED  BY <2>1, <1>3, <1>4
<1>7. \A m \in S : n <= m  BY <1>6
<1> QED  BY <1>7 DEF Min

LEMMA FindSession ==
  ASSUME NEW m, sessions \in Seq(Session)
  PROVE  /\ __find_session(m) # 0 => /\ __find_session(m) \in DOMAIN sessions
                                     /\ sessions[__find_session(m)].map = m
         /\ __find_session(m) = 0 => \A i \in DOMAIN sessions : sessions[i].map # m
<1> DEFINE I == {i \in 1..Len(sessions) : sessions[i].map = m}
<1>1. __find_session(m) = IF I # {} THEN Min(I) ELSE 0  BY DEF __find_session, SelectInSeq
<1>2. I \subseteq Nat /\ 0 \notin I  OBVIOUS
<1>3. I # {} => Min(I) \in I
  <2> HIDE DEF I
  <2> QED  BY <1>2, LeastNatural
<1>4. DOMAIN sessions = 1..Len(sessions)  OBVIOUS
<1>5. CASE I = {}  BY <1>1, <1>4, <1>5
<1>6. CASE I # {}
  <2>1. __find_session(m) \in I  BY <1>1, <1>3, <1>6
  <2> QED  BY <1>2, <1>4, <2>1
<1> QED  BY <1>5, <1>6

LEMMA GetSessionForToken ==
  ASSUME NEW t, sessions \in Seq(Session)
  PROVE  LET i == __get_session_for_token(t) IN
         /\ i # 0 => i \in DOMAIN sessions /\ HasPlayerWithAuthToken(sessions[i], t)
         /\ i = 0 => \A j \in DOMAIN sessions : ~HasPlayerWithAuthToken(sessions[j], t)
<1> DEFINE I == {i \in 1..Len(sessions) : HasPlayerWithAuthToken(sessions[i], t)}
<1>1. __get_session_for_token(t) = IF I # {} THEN Min(I) ELSE 0
  BY DEF __get_session_for_token, SelectInSeq
<1>2. I \subseteq Nat /\ 0 \notin I  OBVIOUS
<1>3. I # {} => Min(I) \in I
  <2> HIDE DEF I
  <2> QED  BY <1>2, LeastNatural
<1>4. DOMAIN sessions = 1..Len(sessions)  OBVIOUS
<1>5. CASE I = {}  BY <1>1, <1>4, <1>5
<1>6. CASE I # {}
  <2>1. __get_session_for_token(t) \in I  BY <1>1, <1>3, <1>6
  <2> QED  BY <1>2, <1>4, <2>1
<1> QED  BY <1>5, <1>6

LEMMA GetPlayer ==
  ASSUME NEW t, sessions \in Seq(Session), has_session_with_auth_info(t)
  PROVE  LET i == __get_session_for_token(t)
             k == GetPlayerWithAuthToken(t)
         IN /\ i \in DOMAIN sessions
            /\ k \in PlayersOf(sessions, i)
            /\ PlayerAt(sessions, i, k).token = t
<1> DEFINE i == __get_session_for_token(t)
           ps == sessions[i].players
           K == {k \in 1..Len(ps) : ps[k].token = t}
<1>1. i \in DOMAIN sessions /\ HasPlayerWithAuthToken(sessions[i], t)
  BY GetSessionForToken DEF has_session_with_auth_info
<1> HIDE DEF i
<1>2. ps \in Seq(Player)
  <2>1. sessions[i] \in Session  BY <1>1
  <2> QED  BY <2>1 DEF Session
<1>3. GetPlayerWithAuthToken(t) = IF K # {} THEN Min(K) ELSE 0
  BY DEF GetPlayerWithAuthToken, SelectInSeq, i
<1>4. K # {}  BY <1>1, <1>2 DEF HasPlayerWithAuthToken
<1>5. K \subseteq Nat  OBVIOUS
<1>6. Min(K) \in K
  <2> HIDE DEF K
  <2> QED  BY <1>4, <1>5, LeastNatural
<1> QED  BY <1>1, <1>2, <1>3, <1>4, <1>6 DEF i, PlayersOf, PlayerAt

-----------------------------------------------------------------------------
(* What a join does to the sessions. *)

(* A session for a map that has none yet. *)
LEMMA SessionOpened ==
  ASSUME NEW ss, NEW tokens, NEW answers, NEW orders, Registered(ss, tokens, answers, orders),
         NEW m \in Maps, \A i \in DOMAIN ss : ss[i].map # m
  PROVE  Registered(Append(ss, NewSession(m)), tokens, answers, orders)
<1> DEFINE new == Append(ss, NewSession(m))
<1>1. ss \in Seq(Session)  BY DEF Registered
<1>2. NewSession(m) \in Session /\ NewSession(m).map = m /\ NewSession(m).players = <<>>
  BY DEF NewSession, Session
<1>3. /\ new \in Seq(Session)
      /\ DOMAIN new = 1 .. Len(ss) + 1 /\ DOMAIN ss = 1 .. Len(ss) /\ Len(ss) \in Nat
      /\ \A i \in DOMAIN ss : new[i] = ss[i]
      /\ new[Len(ss) + 1] = NewSession(m)
  BY <1>1, <1>2
<1> HIDE DEF new
<1>4. \A i \in DOMAIN new : \A k \in PlayersOf(new, i) :
        i \in DOMAIN ss /\ k \in PlayersOf(ss, i) /\ PlayerAt(new, i, k) = PlayerAt(ss, i, k)
  BY <1>2, <1>3 DEF PlayersOf, PlayerAt
<1>5. \A i \in DOMAIN ss : i \in DOMAIN new /\ PlayersOf(new, i) = PlayersOf(ss, i)
  BY <1>3 DEF PlayersOf
<1>6. OneSessionPerMap(new)  BY <1>2, <1>3 DEF OneSessionPerMap, Registered
<1>7. TokensDiffer(new)  BY <1>4 DEF TokensDiffer, Registered
<1>8. TokensIssued(new, tokens)  BY <1>4 DEF TokensIssued, Registered
<1>9. AnswersKept(new, answers)
  <2> SUFFICES ASSUME NEW g \in answers
               PROVE  \E i \in DOMAIN new : \E k \in PlayersOf(new, i) :
                        /\ new[i].map = g.map
                        /\ PlayerAt(new, i, k).name = g.name
                        /\ PlayerAt(new, i, k).token = g.token
    BY DEF AnswersKept
  <2>1. PICK i \in DOMAIN ss : \E k \in PlayersOf(ss, i) :
               /\ ss[i].map = g.map
               /\ PlayerAt(ss, i, k).name = g.name
               /\ PlayerAt(ss, i, k).token = g.token
    BY DEF AnswersKept, Registered
  <2> QED  BY <1>3, <1>4, <1>5, <2>1
<1>10. SpeedsAsOrdered(new, orders)  BY <1>3, <1>4 DEF SpeedsAsOrdered, Registered
<1>11. NamesDiffer(new)
  <2> SUFFICES ASSUME NEW i \in DOMAIN new, NEW k \in PlayersOf(new, i), NEW l \in PlayersOf(new, i),
                      PlayerAt(new, i, k).name = PlayerAt(new, i, l).name
               PROVE  k = l
    BY DEF NamesDiffer
  <2>1. /\ i \in DOMAIN ss /\ k \in PlayersOf(ss, i) /\ l \in PlayersOf(ss, i)
        /\ PlayerAt(ss, i, k).name = PlayerAt(ss, i, l).name
    BY <1>4
  <2> QED  BY <2>1 DEF NamesDiffer, Registered
<1> QED  BY <1>3, <1>6, <1>7, <1>8, <1>9, <1>10, <1>11 DEF Registered, new

(* A player with a token of the generator joins session at. *)
LEMMA PlayerAdded ==
  ASSUME NEW ss, NEW tokens, NEW answers, NEW orders, Registered(ss, tokens, answers, orders),
         NEW at \in DOMAIN ss, NEW p \in Player, p.token \notin tokens, p.speed = 0,
         \A k \in PlayersOf(ss, at) : PlayerAt(ss, at, k).name # p.name,
         NEW joined \in Session, joined.map = ss[at].map,
         joined.players = Append(ss[at].players, p)
  PROVE  Registered([ss EXCEPT ![at] = joined], tokens \cup {p.token}, answers, orders)
<1> DEFINE new == [ss EXCEPT ![at] = joined]
           n == Len(ss[at].players)
<1>1. ss \in Seq(Session)  BY DEF Registered
<1>2. /\ new \in Seq(Session) /\ DOMAIN new = DOMAIN ss
      /\ \A i \in DOMAIN ss : new[i] = IF i = at THEN joined ELSE ss[i]
  BY <1>1
<1>3. ss[at].players \in Seq(Player)
  <2>1. ss[at] \in Session  BY <1>1
  <2> QED  BY <2>1 DEF Session
<1> HIDE DEF new
<1>4. /\ n \in Nat /\ PlayersOf(ss, at) = 1 .. n /\ PlayersOf(new, at) = 1 .. n + 1
      /\ \A k \in 1 .. n : PlayerAt(new, at, k) = PlayerAt(ss, at, k)
      /\ PlayerAt(new, at, n + 1) = p
  <2> DEFINE now == Append(ss[at].players, p)
  <2>1. /\ DOMAIN ss[at].players = 1 .. n /\ n \in Nat
        /\ DOMAIN now = 1 .. n + 1
        /\ \A k \in 1 .. n : now[k] = ss[at].players[k]
        /\ now[n + 1] = p
    BY <1>3
  <2>2. new[at].players = now  BY <1>2
  <2> HIDE DEF now, n
  <2> QED  BY <2>1, <2>2 DEF PlayersOf, PlayerAt
<1>5. \A i \in DOMAIN ss \ {at} :
        /\ PlayersOf(new, i) = PlayersOf(ss, i)
        /\ \A k \in PlayersOf(ss, i) : PlayerAt(new, i, k) = PlayerAt(ss, i, k)
  BY <1>2 DEF PlayersOf, PlayerAt
<1>6. \A i \in DOMAIN ss : new[i].map = ss[i].map  BY <1>2
<1> DEFINE Old(i, k) == i \in DOMAIN ss /\ k \in PlayersOf(ss, i)
<1>7. \A i \in DOMAIN ss : \A k \in PlayersOf(new, i) :
        \/ Old(i, k) /\ PlayerAt(new, i, k) = PlayerAt(ss, i, k)
        \/ i = at /\ k = n + 1 /\ PlayerAt(new, i, k) = p
  BY <1>4, <1>5
<1>8. \A i \in DOMAIN ss : \A k \in PlayersOf(ss, i) :
        k \in PlayersOf(new, i) /\ PlayerAt(new, i, k) = PlayerAt(ss, i, k)
  BY <1>4, <1>5
<1>9. OneSessionPerMap(new)  BY <1>2, <1>6 DEF OneSessionPerMap, Registered
<1>10. TokensDiffer(new)
  BY <1>2, <1>7 DEF TokensDiffer, TokensIssued, Registered
<1>11. TokensIssued(new, tokens \cup {p.token})
  BY <1>2, <1>7 DEF TokensIssued, Registered
<1>12. AnswersKept(new, answers)
  BY <1>2, <1>6, <1>8 DEF AnswersKept, Registered
<1>13. SpeedsAsOrdered(new, orders)
  <2> SUFFICES ASSUME NEW i \in DOMAIN ss, NEW k \in PlayersOf(new, i)
               PROVE  PlayerAt(new, i, k).speed
                        \in SpeedsFor(orders[PlayerAt(new, i, k).token], ss[i].map)
    BY <1>2, <1>6 DEF SpeedsAsOrdered
  <2>1. CASE Old(i, k) /\ PlayerAt(new, i, k) = PlayerAt(ss, i, k)
    BY <2>1 DEF Registered, SpeedsAsOrdered
  <2>2. CASE PlayerAt(new, i, k) = p  BY <2>2 DEF SpeedsFor
  <2> QED  BY <1>7, <2>1, <2>2
<1>14. NamesDiffer(new)  BY <1>2, <1>7 DEF NamesDiffer, Registered
<1> QED  BY <1>2, <1>9, <1>10, <1>11, <1>12, <1>13, <1>14 DEF Registered, new

(* The answer to a join names a player of session at. *)
LEMMA AnswerAdded ==
  ASSUME NEW ss, NEW tokens, NEW answers, NEW orders, Registered(ss, tokens, answers, orders),
         NEW more, tokens \subseteq more,
         NEW g, NEW i \in DOMAIN ss, NEW k \in PlayersOf(ss, i),
         ss[i].map = g.map, PlayerAt(ss, i, k).name = g.name, PlayerAt(ss, i, k).token = g.token
  PROVE  Registered(ss, more, answers \cup {g}, orders)
<1>1. TokensIssued(ss, more)  BY DEF Registered, TokensIssued
<1>2. AnswersKept(ss, answers \cup {g})  BY DEF Registered, AnswersKept
<1> QED  BY <1>1, <1>2 DEF Registered

(* add_player, both for a name that plays already and for a new one. *)
LEMMA JoinStep ==
  ASSUME RegistryInv, NEW m \in Maps, NEW name \in Names, NEW token \in Tokens \ issued,
         add_player(m, name, token)
  PROVE  /\ Registered(sessions', issued', given', ordered')
         /\ \A i \in DOMAIN sessions' : sessions'[i].players # <<>>
         /\ sessions' # <<>>
         /\ issued' \subseteq Tokens
         /\ given' \subseteq [token : Tokens, map : Maps, name : Names]
<1> DEFINE ss == with_session(m)
           at == IF __find_session(m) # 0 THEN __find_session(m) ELSE Len(sessions) + 1
           s == ss[at]
           joined == with_player(s, name, token)
           info == PlayerAuthInfo(joined, name, token)
           g == [token |-> info.token, map |-> m, name |-> name]
<1>1. sessions \in Seq(Session) /\ Registered(sessions, issued, given, ordered)
  BY DEF RegistryInv, Registered
<1>2. /\ sessions' = [ss EXCEPT ![at] = joined]
      /\ issued' = issued \cup {token}
      /\ given' = given \cup {g} /\ ordered' = ordered
  BY DEF add_player
<1>3. /\ Registered(ss, issued, given, ordered)
      /\ at \in DOMAIN ss /\ ss[at].map = m
      /\ \A i \in DOMAIN ss \ {at} : ss[i].players # <<>>
  <2>1. CASE __find_session(m) # 0
    <3>1. ss = sessions /\ at = __find_session(m)  BY <2>1 DEF with_session
    <3>2. at \in DOMAIN sessions /\ sessions[at].map = m  BY <1>1, <2>1, FindSession
    <3> HIDE DEF at, ss
    <3> QED  BY <1>1, <3>1, <3>2 DEF RegistryInv, ClockStartsWithFirstPlayer
  <2>2. CASE __find_session(m) = 0
    <3>1. ss = Append(sessions, NewSession(m)) /\ at = Len(sessions) + 1
      BY <2>2 DEF with_session
    <3>2. \A i \in DOMAIN sessions : sessions[i].map # m  BY <1>1, <2>2, FindSession
    <3> HIDE DEF at, ss
    <3>3. Registered(ss, issued, given, ordered)  BY <1>1, <3>1, <3>2, SessionOpened
    <3>4. /\ DOMAIN ss = 1 .. Len(sessions) + 1 /\ Len(sessions) \in Nat
          /\ DOMAIN sessions = 1 .. Len(sessions)
          /\ \A i \in DOMAIN sessions : ss[i] = sessions[i]
          /\ ss[at] = NewSession(m)
      BY <1>1, <3>1 DEF NewSession, Session
    <3>5. ss[at].map = m  BY <3>4 DEF NewSession
    <3>6. \A i \in DOMAIN ss \ {at} : ss[i].players # <<>>
      BY <3>1, <3>4 DEF RegistryInv, ClockStartsWithFirstPlayer
    <3> QED  BY <3>1, <3>3, <3>4, <3>5, <3>6
  <2> QED  BY <2>1, <2>2
<1> HIDE DEF ss, at
<1>4. ss \in Seq(Session) /\ s \in Session  BY <1>3 DEF Registered
<1>5. /\ Registered(sessions', issued', given, ordered')
      /\ joined \in Session /\ joined.map = m
      /\ \E k \in DOMAIN joined.players : joined.players[k].name = name
  <2>1. CASE \E i \in DOMAIN s.players : s.players[i].name = name
    <3>1. joined = s  BY <2>1 DEF with_player
    <3>2. sessions' = ss  BY <1>2, <1>4, <3>1
    <3>3. TokensIssued(ss, issued')  BY <1>2, <1>3 DEF Registered, TokensIssued
    <3> QED  BY <1>2, <1>3, <1>4, <2>1, <3>1, <3>2, <3>3 DEF Registered
  <2>2. CASE ~\E i \in DOMAIN s.players : s.players[i].name = name
    <3> DEFINE p == [name |-> name, token |-> token, id |-> s.player_id, speed |-> 0]
    <3>1. joined = [s EXCEPT !.players = Append(@, p), !.player_id = @ + 1]
      BY <2>2 DEF with_player
    <3>2. p \in Player /\ p.token = token /\ p.speed = 0 /\ p.name = name
      BY <1>4 DEF Player, Session
    <3>3. /\ joined \in Session /\ joined.map = s.map
          /\ joined.players = Append(s.players, p)
      <4>1. /\ s.map \in Maps /\ s.players \in Seq(Player) /\ s.player_id \in Nat
            /\ DOMAIN s = {"map", "players", "player_id"}
        BY <1>4 DEF Session
      <4>2. Append(s.players, p) \in Seq(Player)  BY <3>2, <4>1
      <4>3. joined = [map |-> s.map, players |-> Append(s.players, p),
                      player_id |-> s.player_id + 1]
        BY <1>4, <3>1 DEF Session
      <4> HIDE DEF p, joined, s
      <4> QED  BY <4>1, <4>2, <4>3 DEF Session
    <3>4. /\ Len(s.players) + 1 \in DOMAIN joined.players
          /\ joined.players[Len(s.players) + 1] = p
      <4>1. s.players \in Seq(Player)  BY <1>4 DEF Session
      <4> HIDE DEF p, joined
      <4> QED  BY <3>2, <3>3, <4>1
    <3> HIDE DEF p, joined
    <3>6. \A k \in PlayersOf(ss, at) : PlayerAt(ss, at, k).name # p.name
      BY <2>2, <3>2 DEF PlayersOf, PlayerAt
    <3>5. Registered([ss EXCEPT ![at] = joined], issued \cup {p.token}, given, ordered)
      BY <1>3, <3>2, <3>3, <3>6, PlayerAdded
    <3> QED  BY <1>2, <1>3, <3>2, <3>3, <3>4, <3>5
  <2> QED  BY <2>1, <2>2
<1>6. PICK k \in DOMAIN joined.players : joined.players[k] = named(joined, name)
                                        /\ joined.players[k].name = name
  BY <1>5 DEF named, ToSet
<1>7. g.map = m /\ g.name = name /\ g.token = joined.players[k].token
  BY <1>6 DEF PlayerAuthInfo
<1>8. /\ DOMAIN sessions' = DOMAIN ss /\ sessions'[at] = joined
      /\ \A i \in DOMAIN ss \ {at} : sessions'[i] = ss[i]
  BY <1>2, <1>3, <1>4, <1>5
<1> HIDE DEF joined
<1>9. joined.players[k] \in Player
  BY <1>5 DEF Session
<1>10. g \in [token : Tokens, map : Maps, name : Names]  BY <1>7, <1>9 DEF Player
<1> HIDE DEF g, s
<1>11. Registered(sessions', issued', given', ordered')
  BY <1>2, <1>3, <1>5, <1>6, <1>7, <1>8, AnswerAdded DEF PlayersOf, PlayerAt
<1>12. \A i \in DOMAIN sessions' : sessions'[i].players # <<>>
  BY <1>3, <1>5, <1>8
<1>13. sessions' # <<>>  BY <1>3, <1>8
<1> QED  BY <1>2, <1>10, <1>11, <1>12, <1>13 DEF RegistryInv, TypeOK

-----------------------------------------------------------------------------
(* What actions and ticks do to the sessions: speeds change, nothing else. *)

OnlySpeedsDiffer(ss, new) ==
  /\ DOMAIN new = DOMAIN ss
  /\ \A i \in DOMAIN ss : new[i].map = ss[i].map /\ PlayersOf(new, i) = PlayersOf(ss, i)
  /\ \A i \in DOMAIN ss : \A k \in PlayersOf(ss, i) :
       /\ PlayerAt(new, i, k).name = PlayerAt(ss, i, k).name
       /\ PlayerAt(new, i, k).token = PlayerAt(ss, i, k).token

LEMMA NewSpeeds ==
  ASSUME RegistryInv, sessions' \in Seq(Session), OnlySpeedsDiffer(sessions, sessions'),
         UNCHANGED <<issued, given>>, SpeedsAsOrdered(sessions', ordered')
  PROVE  /\ Registered(sessions', issued', given', ordered')
         /\ \A i \in DOMAIN sessions' : sessions'[i].players # <<>>
         /\ sessions' = <<>> <=> sessions = <<>>
<1>1. sessions \in Seq(Session) /\ Registered(sessions, issued, given, ordered)
  BY DEF RegistryInv, Registered
<1>2. OneSessionPerMap(sessions')  BY <1>1 DEF Registered, OneSessionPerMap, OnlySpeedsDiffer
<1>3. TokensDiffer(sessions')  BY <1>1 DEF Registered, TokensDiffer, OnlySpeedsDiffer
<1>4. TokensIssued(sessions', issued')  BY <1>1 DEF Registered, TokensIssued, OnlySpeedsDiffer
<1>5. AnswersKept(sessions', given')  BY <1>1 DEF Registered, AnswersKept, OnlySpeedsDiffer
<1>6. NamesDiffer(sessions')  BY <1>1 DEF Registered, NamesDiffer, OnlySpeedsDiffer
<1>7. \A i \in DOMAIN sessions' : sessions'[i].players # <<>>
  <2> SUFFICES ASSUME NEW i \in DOMAIN sessions PROVE sessions'[i].players # <<>>
    BY DEF OnlySpeedsDiffer
  <2>1. sessions[i] \in Session /\ sessions'[i] \in Session  BY <1>1 DEF OnlySpeedsDiffer
  <2>2. sessions[i].players \in Seq(Player) /\ sessions'[i].players \in Seq(Player)
    BY <2>1 DEF Session
  <2>3. sessions[i].players # <<>>  BY DEF RegistryInv, ClockStartsWithFirstPlayer
  <2>4. DOMAIN sessions[i].players # {}
    <3>1. Len(sessions[i].players) \in Nat \ {0}  BY <2>2, <2>3, EmptySeq
    <3>2. DOMAIN sessions[i].players = 1 .. Len(sessions[i].players)  BY <2>2
    <3>3. \A n \in Nat \ {0} : 1 \in 1 .. n  OBVIOUS
    <3> QED  BY <3>1, <3>2, <3>3
  <2>5. DOMAIN sessions'[i].players # {}  BY <2>4 DEF PlayersOf, OnlySpeedsDiffer
  <2> QED  BY <2>2, <2>5
<1>8. sessions' = <<>> <=> sessions = <<>>
  <2>1. /\ Len(sessions) \in Nat /\ DOMAIN sessions = 1 .. Len(sessions)
        /\ Len(sessions') \in Nat /\ DOMAIN sessions' = 1 .. Len(sessions')
    BY <1>1
  <2>2. \A n \in Nat : 1 .. n = {} <=> n = 0  OBVIOUS
  <2>3. Len(sessions) = 0 <=> Len(sessions') = 0  BY <2>1, <2>2 DEF OnlySpeedsDiffer
  <2> QED  BY <1>1, <2>3, EmptySeq
<1> QED  BY <1>2, <1>3, <1>4, <1>5, <1>6, <1>7, <1>8 DEF Registered

(* The order of a token reaches the one player who has it: for everybody   *)
(* else neither the speed nor the last order changes.                      *)
LEMMA SteerStep ==
  ASSUME RegistryInv, NEW t, has_session_with_auth_info(t), NEW dir, set_speed(t, dir)
  PROVE  /\ sessions' \in Seq(Session)
         /\ OnlySpeedsDiffer(sessions, sessions')
         /\ SpeedsAsOrdered(sessions', ordered')
         /\ t \in Tokens
<1> DEFINE a == __get_session_for_token(t)
           b == GetPlayerWithAuthToken(t)
           v == IF dir = "STOP" THEN 0 ELSE map_speed(t)
           p == [PlayerAt(sessions, a, b) EXCEPT !.speed = v]
           joined == [sessions[a] EXCEPT !.players = [@ EXCEPT ![b] = p]]
<1>1. sessions \in Seq(Session) /\ Registered(sessions, issued, given, ordered)
  BY DEF RegistryInv, Registered
<1>2. a \in DOMAIN sessions /\ b \in PlayersOf(sessions, a) /\ PlayerAt(sessions, a, b).token = t
  BY <1>1, GetPlayer
<1>3. sessions' = [sessions EXCEPT ![a] = joined] /\ ordered' = [ordered EXCEPT ![t] = dir]
  BY DEF set_speed, PlayerAt
<1>4. sessions[a] \in Session  BY <1>1, <1>2
<1>5. v \in SpeedsFor(dir, sessions[a].map) /\ v \in Nat
  BY <1>4, ApiAssumption DEF map_speed, dog_speed, Session, SpeedsFor
<1> HIDE DEF a, b, v
<1>6. /\ sessions[a].map \in Maps /\ sessions[a].players \in Seq(Player)
      /\ sessions[a].player_id \in Nat /\ DOMAIN sessions[a] = {"map", "players", "player_id"}
  BY <1>4 DEF Session
<1>7. PlayerAt(sessions, a, b) \in Player  BY <1>2, <1>6 DEF PlayersOf, PlayerAt
<1>8. /\ p \in Player /\ p.speed = v
      /\ p.name = PlayerAt(sessions, a, b).name /\ p.token = PlayerAt(sessions, a, b).token
  BY <1>5, <1>7 DEF Player
<1> HIDE DEF p
<1>9. /\ [sessions[a].players EXCEPT ![b] = p] \in Seq(Player)
      /\ DOMAIN [sessions[a].players EXCEPT ![b] = p] = PlayersOf(sessions, a)
      /\ \A k \in PlayersOf(sessions, a) : [sessions[a].players EXCEPT ![b] = p][k] =
           IF k = b THEN p ELSE PlayerAt(sessions, a, k)
  BY <1>2, <1>6, <1>8 DEF PlayersOf, PlayerAt
<1>10. joined \in Session /\ joined.map = sessions[a].map
       /\ joined.players = [sessions[a].players EXCEPT ![b] = p]
  BY <1>4, <1>6, <1>9 DEF Session
<1> HIDE DEF joined
<1>11. /\ sessions' \in Seq(Session) /\ DOMAIN sessions' = DOMAIN sessions
       /\ \A i \in DOMAIN sessions : sessions'[i] = IF i = a THEN joined ELSE sessions[i]
  BY <1>1, <1>2, <1>3, <1>10
<1>12. \A i \in DOMAIN sessions :
         sessions'[i].map = sessions[i].map /\ PlayersOf(sessions', i) = PlayersOf(sessions, i)
  BY <1>9, <1>10, <1>11 DEF PlayersOf
<1>13. \A i \in DOMAIN sessions : \A k \in PlayersOf(sessions, i) :
         PlayerAt(sessions', i, k) = IF i = a /\ k = b THEN p ELSE PlayerAt(sessions, i, k)
  BY <1>9, <1>10, <1>11 DEF PlayerAt, PlayersOf
<1>14. OnlySpeedsDiffer(sessions, sessions')
  BY <1>8, <1>11, <1>12, <1>13 DEF OnlySpeedsDiffer
<1>15. t \in Tokens /\ ordered \in [Tokens -> DogDirection]
  BY <1>2, <1>7 DEF Player, RegistryInv, TypeOK
<1>16. SpeedsAsOrdered(sessions', ordered')
  <2> SUFFICES ASSUME NEW i \in DOMAIN sessions, NEW k \in PlayersOf(sessions, i)
               PROVE  PlayerAt(sessions', i, k).speed
                        \in SpeedsFor(ordered'[PlayerAt(sessions', i, k).token], sessions[i].map)
    BY <1>11, <1>12 DEF SpeedsAsOrdered
  <2>1. CASE i = a /\ k = b
    BY <1>2, <1>3, <1>5, <1>8, <1>13, <1>15, <2>1
  <2>2. CASE ~(i = a /\ k = b)
    <3>1. PlayerAt(sessions', i, k) = PlayerAt(sessions, i, k)  BY <1>13, <2>2
    <3>2. PlayerAt(sessions, i, k).token # t
      BY <1>1, <1>2, <2>2 DEF Registered, TokensDiffer
    <3>3. ordered'[PlayerAt(sessions, i, k).token] = ordered[PlayerAt(sessions, i, k).token]
      BY <1>3, <1>15, <3>2
    <3> QED  BY <1>1, <3>1, <3>3 DEF Registered, SpeedsAsOrdered
  <2> QED  BY <2>1, <2>2
<1> QED  BY <1>11, <1>14, <1>15, <1>16

LEMMA MoveStep ==
  ASSUME RegistryInv, NEW T, MoveDogs(T), ordered' = ordered
  PROVE  /\ sessions' \in Seq(Session)
         /\ OnlySpeedsDiffer(sessions, sessions')
         /\ SpeedsAsOrdered(sessions', ordered')
<1> DEFINE Moved(i, k) == IF sessions[i].players[k].token \in T
                            THEN [sessions[i].players[k] EXCEPT !.speed = 0]
                            ELSE sessions[i].players[k]
           ps(i) == [k \in DOMAIN sessions[i].players |-> Moved(i, k)]
           s(i) == [sessions[i] EXCEPT !.players = ps(i)]
<1>1. sessions \in Seq(Session) /\ Registered(sessions, issued, given, ordered)
  BY DEF RegistryInv, Registered
<1>2. sessions' = [i \in DOMAIN sessions |-> s(i)]  BY DEF MoveDogs
<1>3. ASSUME NEW i \in DOMAIN sessions
      PROVE  /\ s(i) \in Session /\ s(i).map = sessions[i].map /\ s(i).players = ps(i)
             /\ DOMAIN ps(i) = PlayersOf(sessions, i)
             /\ \A k \in PlayersOf(sessions, i) :
                  /\ ps(i)[k].name = PlayerAt(sessions, i, k).name
                  /\ ps(i)[k].token = PlayerAt(sessions, i, k).token
                  /\ ps(i)[k].speed \in {0, PlayerAt(sessions, i, k).speed}
  <2>1. sessions[i] \in Session  BY <1>1
  <2>2. /\ sessions[i].map \in Maps /\ sessions[i].players \in Seq(Player)
        /\ sessions[i].player_id \in Nat /\ DOMAIN sessions[i] = {"map", "players", "player_id"}
    BY <2>1 DEF Session
  <2>3. ASSUME NEW k \in PlayersOf(sessions, i)
        PROVE  /\ Moved(i, k) \in Player
               /\ Moved(i, k).name = PlayerAt(sessions, i, k).name
               /\ Moved(i, k).token = PlayerAt(sessions, i, k).token
               /\ Moved(i, k).speed \in {0, PlayerAt(sessions, i, k).speed}
    <3>1. sessions[i].players[k] \in Player  BY <2>2 DEF PlayersOf
    <3> QED  BY <3>1 DEF Player, PlayerAt
  <2> HIDE DEF Moved
  <2>4. DOMAIN ps(i) = PlayersOf(sessions, i)
        /\ \A k \in PlayersOf(sessions, i) : ps(i)[k] = Moved(i, k)
    BY DEF PlayersOf
  <2>5. ps(i) \in Seq(Player)
    <3>1. PlayersOf(sessions, i) = 1 .. Len(sessions[i].players) /\ Len(sessions[i].players) \in Nat
      BY <2>2 DEF PlayersOf
    <3> QED  BY <2>3, <3>1 DEF PlayersOf
  <2>6. s(i) \in Session /\ s(i).map = sessions[i].map /\ s(i).players = ps(i)
    <3> HIDE DEF ps
    <3>1. s(i) = [map |-> sessions[i].map, players |-> ps(i), player_id |-> sessions[i].player_id]
      BY <2>1 DEF Session
    <3> QED  BY <2>2, <2>5, <3>1 DEF Session
  <2> QED  BY <2>3, <2>4, <2>6
<1> HIDE DEF s, ps
<1>4. sessions' \in Seq(Session) /\ DOMAIN sessions' = DOMAIN sessions
      /\ \A i \in DOMAIN sessions : sessions'[i] = s(i)
  <2>1. DOMAIN sessions = 1 .. Len(sessions) /\ Len(sessions) \in Nat  BY <1>1
  <2> QED  BY <1>2, <1>3, <2>1
<1>5. \A i \in DOMAIN sessions :
        sessions'[i].map = sessions[i].map /\ PlayersOf(sessions', i) = PlayersOf(sessions, i)
  BY <1>3, <1>4 DEF PlayersOf
<1>6. \A i \in DOMAIN sessions : \A k \in PlayersOf(sessions, i) :
        /\ PlayerAt(sessions', i, k).name = PlayerAt(sessions, i, k).name
        /\ PlayerAt(sessions', i, k).token = PlayerAt(sessions, i, k).token
        /\ PlayerAt(sessions', i, k).speed \in {0, PlayerAt(sessions, i, k).speed}
  BY <1>3, <1>4 DEF PlayerAt
<1>7. OnlySpeedsDiffer(sessions, sessions')  BY <1>4, <1>5, <1>6 DEF OnlySpeedsDiffer
<1>8. SpeedsAsOrdered(sessions', ordered')
  <2> SUFFICES ASSUME NEW i \in DOMAIN sessions, NEW k \in PlayersOf(sessions, i)
               PROVE  PlayerAt(sessions', i, k).speed
                        \in SpeedsFor(ordered[PlayerAt(sessions, i, k).token], sessions[i].map)
    BY <1>4, <1>5, <1>6 DEF SpeedsAsOrdered
  <2>1. PlayerAt(sessions, i, k).speed
          \in SpeedsFor(ordered[PlayerAt(sessions, i, k).token], sessions[i].map)
    BY <1>1 DEF Registered, SpeedsAsOrdered
  <2> QED  BY <1>6, <2>1 DEF SpeedsFor
<1> QED  BY <1>4, <1>7, <1>8

-----------------------------------------------------------------------------
(* The steps: a join, an order, dogs that move, or an answer and nothing   *)
(* else.                                                                   *)

Quiet == UNCHANGED <<registry, ticker, has_started>>
Joins == \E m \in Maps, name \in Names, token \in Tokens \ issued : add_player(m, name, token)
Steers == \E t \in Headers, dir \in DogDirection :
            has_session_with_auth_info(t) /\ set_speed(t, dir)
Moves == (\E T \in SUBSET issued : MoveDogs(T)) /\ UNCHANGED <<issued, given, ordered, ticker, has_started>>

LEMMA StepKinds ==
  ASSUME [Next]_vars
  PROVE  Quiet \/ Joins \/ Steers \/ Moves
<1>1. CASE UNCHANGED vars  BY <1>1 DEF vars, Quiet
<1> USE DEF Only
<1>6. ASSUME NEW endpoint, Tick(endpoint) PROVE Quiet \/ Moves
  BY <1>6 DEF Tick, Quiet, Moves
<1>2. CASE OnTick  BY <1>2, <1>6 DEF OnTick
<1>3. ASSUME NEW method \in {"GET", "HEAD", "POST"}, HandleApiRequest(method)
      PROVE  Quiet \/ Joins \/ Steers \/ Moves
  <2>1. CASE HandleJoinGameRequest(method)
    <3>1. CASE Only("join", "onlyPostMethodAllowed", {})  BY <3>1 DEF Only, Quiet
    <3>2. CASE Only("join", "joinGameReqParseError", {})  BY <3>2 DEF Only, Quiet
    <3>3. ASSUME NEW r \in JoinRequest, NEW token \in Tokens \ issued,
                 HandleAuthRequest(r.mapId, r.userName, token)
          PROVE  Quiet \/ Joins \/ Steers \/ Moves
      <4>1. r.mapId \in Maps \cup UnknownMaps /\ r.userName \in Names  BY DEF JoinRequest
      <4>2. CASE Only("join", "invalidName", {})  BY <4>2 DEF Only, Quiet
      <4>3. CASE unknown_map(r.mapId)  BY <4>3 DEF unknown_map, Only, Quiet
      <4>4. CASE map_found(r.mapId) /\ add_player(r.mapId, r.userName, token)
        BY <4>1, <4>4 DEF map_found, Joins
      <4> QED  BY <3>3, <4>2, <4>3, <4>4 DEF HandleAuthRequest
    <3> QED  BY <2>1, <3>1, <3>2, <3>3 DEF HandleJoinGameRequest
  <2>2. ASSUME NEW t \in Headers, HandleGetPlayersRequest(method, t) PROVE Quiet
    BY <2>2 DEF HandleGetPlayersRequest, Listed, Quiet
  <2>3. ASSUME NEW t \in Headers, HandleGetGameState(method, t) PROVE Quiet
    BY <2>3 DEF HandleGetGameState, Listed, Quiet
  <2>4. ASSUME NEW t \in Headers, HandlePlayerAction(method, t) PROVE Quiet \/ Steers
    <3>1. CASE \E code : Only("action", code, {})  BY <3>1 DEF Only, Quiet
    <3>2. CASE has_session_with_auth_info(t) /\ \E dir \in DogDirection : set_speed(t, dir)
      BY <3>2 DEF Steers
    <3> QED  BY <2>4, <3>1, <3>2 DEF HandlePlayerAction
  <2>7. CASE MalformedTarget  BY <2>7 DEF MalformedTarget, Quiet
  <2>5. CASE HandleTickAction(method)  BY <1>6, <2>5 DEF HandleTickAction, Quiet
  <2>6. CASE HandleGetRecordsAction(method)  BY <2>6 DEF HandleGetRecordsAction, Only, Quiet
  <2> QED  BY <1>3, <2>1, <2>2, <2>3, <2>4, <2>5, <2>6, <2>7 DEF HandleApiRequest
<1>4. ASSUME NEW method \in {"GET", "HEAD", "POST"}, HandleMapRequest(method)
      PROVE  Quiet
  BY <1>4 DEF HandleMapRequest, Quiet
<1> QED  BY <1>1, <1>2, <1>3, <1>4 DEF Next

LEMMA RegistryInvInit == Init => RegistryInv
<1> SUFFICES ASSUME Init PROVE RegistryInv  OBVIOUS
<1>1. sessions = <<>> /\ sessions \in Seq(Session) /\ DOMAIN sessions = {}
  BY DEF Init
<1>2. TypeOK  BY <1>1 DEF Init, TypeOK, DogDirection
<1>3. Registered(sessions, issued, given, ordered)
  BY <1>1 DEF Init, Registered, OneSessionPerMap, TokensDiffer, TokensIssued, AnswersKept,
              NamesDiffer, SpeedsAsOrdered
<1>4. ClockStartsWithFirstPlayer  BY <1>1 DEF Init, ClockStartsWithFirstPlayer
<1> QED  BY <1>2, <1>3, <1>4 DEF RegistryInv

LEMMA RegistryInvNext == RegistryInv /\ [Next]_vars => RegistryInv'
<1> SUFFICES ASSUME RegistryInv, [Next]_vars PROVE RegistryInv'  OBVIOUS
<1>1. CASE Quiet
  BY <1>1 DEF Quiet, registry, RegistryInv, TypeOK, ClockStartsWithFirstPlayer
<1>2. CASE Joins
  <2>1. PICK m \in Maps, name \in Names, token \in Tokens \ issued : add_player(m, name, token)
    BY <1>2 DEF Joins
  <2>2. /\ Registered(sessions', issued', given', ordered')
        /\ \A i \in DOMAIN sessions' : sessions'[i].players # <<>>
        /\ sessions' # <<>>
        /\ issued' \subseteq Tokens
        /\ given' \subseteq [token : Tokens, map : Maps, name : Names]
    BY <2>1, JoinStep
  <2>3. ticker' = ticker /\ has_started' = (has_started \/ ticker) /\ ordered' = ordered
    BY <2>1 DEF add_player
  <2>4. TypeOK'  BY <2>2, <2>3 DEF RegistryInv, TypeOK, Registered
  <2>5. has_started' <=> ticker' /\ sessions' # <<>>
    BY <2>2, <2>3 DEF RegistryInv, ClockStartsWithFirstPlayer, TypeOK
  <2>6. ClockStartsWithFirstPlayer'  BY <2>2, <2>5 DEF ClockStartsWithFirstPlayer
  <2> QED  BY <2>2, <2>4, <2>6 DEF RegistryInv
<1>3. CASE Steers
  <2>1. PICK t \in Headers, dir \in DogDirection :
               has_session_with_auth_info(t) /\ set_speed(t, dir)
    BY <1>3 DEF Steers
  <2>2. UNCHANGED <<issued, given, ticker, has_started>> /\ ordered' = [ordered EXCEPT ![t] = dir]
    BY <2>1 DEF set_speed
  <2>3. /\ Registered(sessions', issued', given', ordered')
        /\ \A i \in DOMAIN sessions' : sessions'[i].players # <<>>
        /\ sessions' = <<>> <=> sessions = <<>>
    BY <2>1, <2>2, SteerStep, NewSpeeds
  <2>4. ordered' \in [Tokens -> DogDirection]  BY <2>2 DEF RegistryInv, TypeOK
  <2>5. TypeOK'  BY <2>2, <2>3, <2>4 DEF RegistryInv, TypeOK, Registered
  <2>6. ClockStartsWithFirstPlayer'
    BY <2>2, <2>3 DEF RegistryInv, ClockStartsWithFirstPlayer
  <2> QED  BY <2>3, <2>5, <2>6 DEF RegistryInv
<1>4. CASE Moves
  <2>1. PICK T \in SUBSET issued : MoveDogs(T)  BY <1>4 DEF Moves
  <2>2. UNCHANGED <<issued, given, ordered, ticker, has_started>>  BY <1>4 DEF Moves
  <2>3. /\ Registered(sessions', issued', given', ordered')
        /\ \A i \in DOMAIN sessions' : sessions'[i].players # <<>>
        /\ sessions' = <<>> <=> sessions = <<>>
    BY <2>1, <2>2, MoveStep, NewSpeeds
  <2>4. TypeOK'  BY <2>2, <2>3 DEF RegistryInv, TypeOK, Registered
  <2>5. ClockStartsWithFirstPlayer'
    BY <2>2, <2>3 DEF RegistryInv, ClockStartsWithFirstPlayer
  <2> QED  BY <2>3, <2>4, <2>5 DEF RegistryInv
<1> QED  BY <1>1, <1>2, <1>3, <1>4, StepKinds

LEMMA RegistryInvAlways == Spec => []RegistryInv
BY RegistryInvInit, RegistryInvNext, PTL DEF Spec

-----------------------------------------------------------------------------
(* The theorems. *)

(* TypeOK, for any maps, names and tokens. *)
THEOREM ApiTypes == Spec => []TypeOK
<1>1. RegistryInv => TypeOK  BY DEF RegistryInv
<1> QED  BY <1>1, RegistryInvAlways, PTL

LEMMA AnswersResolve == RegistryInv => TokensResolve
<1> SUFFICES ASSUME RegistryInv, NEW g \in given
             PROVE  /\ has_session_with_auth_info(g.token)
                    /\ LET s == sessions[__get_session_for_token(g.token)] IN
                         /\ s.map = g.map
                         /\ s.players[GetPlayerWithAuthToken(g.token)].name = g.name
                    /\ \A h \in given : h.token = g.token => h = g
  BY DEF TokensResolve
<1>1. sessions \in Seq(Session) /\ Registered(sessions, issued, given, ordered) /\ 0 \notin DOMAIN sessions
  BY DEF RegistryInv, Registered
<1>2. PICK i \in DOMAIN sessions : \E k \in PlayersOf(sessions, i) :
             /\ sessions[i].map = g.map
             /\ PlayerAt(sessions, i, k).name = g.name
             /\ PlayerAt(sessions, i, k).token = g.token
  BY <1>1 DEF Registered, AnswersKept
<1>3. PICK k \in PlayersOf(sessions, i) :
             /\ sessions[i].map = g.map
             /\ PlayerAt(sessions, i, k).name = g.name
             /\ PlayerAt(sessions, i, k).token = g.token
  BY <1>2
<1>4. has_session_with_auth_info(g.token)
  <2>1. HasPlayerWithAuthToken(sessions[i], g.token)
    BY <1>3 DEF HasPlayerWithAuthToken, PlayersOf, PlayerAt
  <2> QED  BY <1>1, <2>1, GetSessionForToken DEF has_session_with_auth_info
<1>5. /\ __get_session_for_token(g.token) = i
      /\ GetPlayerWithAuthToken(g.token) = k
  BY <1>1, <1>3, <1>4, GetPlayer DEF Registered, TokensDiffer
<1>6. ASSUME NEW h \in given, h.token = g.token PROVE h = g
  <2>1. PICK j \in DOMAIN sessions : \E l \in PlayersOf(sessions, j) :
               /\ sessions[j].map = h.map
               /\ PlayerAt(sessions, j, l).name = h.name
               /\ PlayerAt(sessions, j, l).token = h.token
    BY <1>1 DEF Registered, AnswersKept
  <2>2. h.map = g.map /\ h.name = g.name
    BY <1>1, <1>3, <1>6, <2>1 DEF Registered, TokensDiffer
  <2>3. /\ g \in [token : Tokens, map : Maps, name : Names]
        /\ h \in [token : Tokens, map : Maps, name : Names]
    BY DEF RegistryInv, TypeOK
  <2> QED  BY <1>6, <2>2, <2>3
<1> QED  BY <1>3, <1>4, <1>5, <1>6 DEF PlayerAt

(* TokensResolve, for any number of joins: a session is found for the map  *)
(* before one is made, a token is given once, and no player is taken out.  *)
THEOREM TokensFindTheirPlayer == Spec => []TokensResolve
BY AnswersResolve, RegistryInvAlways, PTL

(* ClockStartsWithFirstPlayer, for any number of maps and joins: it is a   *)
(* part of the invariant, because a join finds its session not empty.      *)
THEOREM ClockStarts == Spec => []ClockStartsWithFirstPlayer
<1>1. RegistryInv => ClockStartsWithFirstPlayer  BY DEF RegistryInv
<1> QED  BY <1>1, RegistryInvAlways, PTL

LEMMA OrdersFollowed == RegistryInv => PlayersSteerTheirDogs
<1> SUFFICES ASSUME RegistryInv, NEW g \in given,
                    NEW i \in DOMAIN sessions, NEW l \in PlayersOf(sessions, i),
                    sessions[i].map = g.map, PlayerAt(sessions, i, l).name = g.name
             PROVE  PlayerAt(sessions, i, l).speed \in SpeedsFor(ordered[g.token], g.map)
  BY DEF PlayersSteerTheirDogs, SpeedsFor, PlayersOf, PlayerAt, ToSet
<1>1. Registered(sessions, issued, given, ordered)  BY DEF RegistryInv
<1>2. PICK j \in DOMAIN sessions : \E k \in PlayersOf(sessions, j) :
             /\ sessions[j].map = g.map
             /\ PlayerAt(sessions, j, k).name = g.name
             /\ PlayerAt(sessions, j, k).token = g.token
  BY <1>1 DEF Registered, AnswersKept
<1>3. j = i  BY <1>1, <1>2 DEF Registered, OneSessionPerMap
<1>4. PICK k \in PlayersOf(sessions, i) :
             PlayerAt(sessions, i, k).name = g.name /\ PlayerAt(sessions, i, k).token = g.token
  BY <1>2, <1>3
<1>5. k = l  BY <1>1, <1>4 DEF Registered, NamesDiffer
<1> QED  BY <1>1, <1>4, <1>5 DEF Registered, SpeedsAsOrdered

(* PlayersSteerTheirDogs, for any maps, speeds and orders: the player whom *)
(* the lookup by token finds is the one the join answer named, since in    *)
(* one session per map names differ and over all sessions tokens do.       *)
THEOREM OrdersReachTheirDogs == Spec => []PlayersSteerTheirDogs
BY OrdersFollowed, RegistryInvAlways, PTL

(* An answer that tells of a lookup that failed may only come from a join  *)
(* or a request for a map.                                                 *)
Found(a) ==
  /\ a.code # "InvalidTokenException"
  /\ a.endpoint \in {"timer", "tick", "action"} => a.code # "out_of_range"

LEMMA FoundReply ==
  ASSUME NEW endpoint, NEW code, NEW body, Only(endpoint, code, body) \/ Reply(endpoint, code, body),
         code # "InvalidTokenException",
         endpoint \notin {"timer", "tick", "action"} \/ code # "out_of_range"
  PROVE  Found(answer')
BY DEF Only, Reply, Found

(* Every session is of a map of the configuration. *)
LEMMA MapsFound ==
  ASSUME RegistryInv, NEW i \in DOMAIN sessions
  PROVE  map_found(sessions[i].map)
<1>1. sessions[i] \in Session  BY DEF RegistryInv, TypeOK
<1> QED  BY <1>1 DEF Session, map_found

LEMMA TickFound ==
  ASSUME RegistryInv, NEW endpoint, Tick(endpoint)
  PROVE  Found(answer')
<1>1. \A i \in DOMAIN sessions : loot_codes(sessions[i]) \subseteq
        {"ok", "LootNotSpecifiedException", "RoadNotSpecifiedException"}
  BY MapsFound DEF loot_codes
<1>2. tick_codes \subseteq
        {"ok", "undefined", "LootNotSpecifiedException", "RoadNotSpecifiedException"}
  BY <1>1 DEF tick_codes
<1>3. PICK code \in tick_codes : Only(endpoint, code, {}) \/ Reply(endpoint, code, {})
  BY DEF Tick
<1> QED  BY <1>2, <1>3, FoundReply

LEMMA FoundNext ==
  ASSUME RegistryInv, Found(answer), [Next]_vars
  PROVE  Found(answer')
<1>1. CASE UNCHANGED vars  BY <1>1 DEF vars
<1>2. CASE OnTick  BY <1>2, TickFound DEF OnTick
<1>3. ASSUME NEW method \in {"GET", "HEAD", "POST"}, HandleApiRequest(method)
      PROVE  Found(answer')
  <2>1. CASE MalformedTarget  BY <2>1, FoundReply DEF MalformedTarget
  <2>2. CASE HandleJoinGameRequest(method)
    <3>1. ASSUME NEW m, NEW name, NEW token, HandleAuthRequest(m, name, token)
          PROVE  \E code \in {"invalidName", "out_of_range", "ok"} : \E body :
                   Only("join", code, body) \/ Reply("join", code, body)
      BY <3>1 DEF HandleAuthRequest, add_player, unknown_map
    <3>2. ASSUME NEW m, NEW name, NEW token, HandleAuthRequest(m, name, token)
          PROVE  Found(answer')
      BY <3>1, <3>2, FoundReply
    <3>3. CASE \E code \in {"onlyPostMethodAllowed", "joinGameReqParseError"} :
                 Only("join", code, {})
      BY <3>3, FoundReply
    <3> QED  BY <2>2, <3>2, <3>3 DEF HandleJoinGameRequest
  <2>3. ASSUME NEW t \in Headers, HandleGetPlayersRequest(method, t) PROVE Found(answer')
    BY <2>3, FoundReply DEF HandleGetPlayersRequest, Listed
  <2>4. ASSUME NEW t \in Headers, HandleGetGameState(method, t) PROVE Found(answer')
    BY <2>4, FoundReply DEF HandleGetGameState, Listed, turned_away
  <2>5. ASSUME NEW t \in Headers, HandlePlayerAction(method, t) PROVE Found(answer')
    <3>1. CASE has_session_with_auth_info(t)
      <4>1. map_found(sessions[__get_session_for_token(t)].map)
        <5>1. sessions \in Seq(Session)  BY DEF RegistryInv, TypeOK
        <5> QED  BY <3>1, <5>1, GetPlayer, MapsFound
      <4>2. PICK code \in {"invalidMethod", "authHeaderRequired", "ok", "system_error",
                           "DogSpeedException"} :
                   Only("action", code, {}) \/ Reply("action", code, {})
        BY <2>5, <3>1, <4>1 DEF HandlePlayerAction, set_speed
      <4> QED  BY <4>2, FoundReply
    <3>2. CASE ~has_session_with_auth_info(t)
      BY <2>5, <3>2, FoundReply DEF HandlePlayerAction
    <3> QED  BY <3>1, <3>2
  <2>6. CASE HandleTickAction(method)  BY <2>6, TickFound, FoundReply DEF HandleTickAction
  <2>7. CASE HandleGetRecordsAction(method)  BY <2>7, FoundReply DEF HandleGetRecordsAction
  <2> QED  BY <1>3, <2>1, <2>2, <2>3, <2>4, <2>5, <2>6, <2>7 DEF HandleApiRequest
<1>4. ASSUME NEW method \in {"GET", "HEAD", "POST"}, HandleMapRequest(method)
      PROVE  Found(answer')
  BY <1>4, FoundReply DEF HandleMapRequest
<1> QED  BY <1>1, <1>2, <1>3, <1>4 DEF Next

(* LookupsSucceed, for any requests: every session is of a map of the      *)
(* configuration, and a reader looks up only tokens it has tested.         *)
THEOREM LookupsNeverFail == Spec => []LookupsSucceed
<1>1. Init => Found(answer)  BY DEF Init, Found
<1>2. RegistryInv /\ Found(answer) /\ [Next]_vars => Found(answer)'  BY FoundNext
<1>3. Found(answer) => LookupsSucceed  BY DEF Found, LookupsSucceed
<1> QED  BY <1>1, <1>2, <1>3, RegistryInvAlways, PTL DEF Spec
=============================================================================
