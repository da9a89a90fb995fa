------------------------ MODULE ConnectionPoolProofs ------------------------
(***************************************************************************)
(* Theorems about ConnectionPool for any finite set of threads and any     *)
(* number of connections.                                                  *)
(***************************************************************************)
EXTENDS ConnectionPool, FiniteSetTheorems, TLAPS

LEMMA CapacityType == capacity \in Nat
BY PoolAssumption, FS_CardinalityType DEF capacity

LEMMA StatesFinite ==
  ASSUME NEW s
  PROVE  /\ IsFiniteSet(InState(s))
         /\ Cardinality(InState(s)) \in Nat
<1>1. InState(s) \in SUBSET Threads
  BY DEF InState
<1>2. IsFiniteSet(InState(s))
  BY <1>1, PoolAssumption, FS_Subset
<1> QED
  BY <1>2, FS_CardinalityType
-----------------------------------------------------------------------------
(* Types, and the count of connections in use.  The type of the count      *)
(* needs its meaning: whoever returns a connection is one of those counted.*)

CountInv == TypeOK /\ CountMatchesUsers

LEMMA CountInit == Init => CountInv
<1> SUFFICES ASSUME Init
             PROVE  CountInv
  OBVIOUS
<1>1. TypeOK
  BY CapacityType DEF Init, TypeOK
<1>2. InState("using") = {}
  BY DEF Init, InState
<1>3. CountMatchesUsers
  BY <1>2, FS_EmptySet DEF Init, CountMatchesUsers
<1> QED
  BY <1>1, <1>3 DEF CountInv

(* Steps that touch neither the pool nor the set of users. *)
LEMMA CountSamePool ==
  ASSUME CountInv, UNCHANGED <<pool, used_connections, conn>>,
         pc' \in [Threads -> {"idle", "getting", "waiting", "using", "notifying"}],
         InState("using")' = InState("using")
  PROVE  CountInv'
BY DEF CountInv, TypeOK, CountMatchesUsers

LEMMA CountStep == CountInv /\ [Next]_vars => CountInv'
<1> SUFFICES ASSUME CountInv, [Next]_vars
             PROVE  CountInv'
  OBVIOUS
<1> USE DEF CountInv
<1>0. capacity \in Nat /\ used_connections \in 0 .. capacity
  BY CapacityType DEF TypeOK
<1>1. ASSUME NEW t \in Threads, Call(t)
      PROVE  CountInv'
  <2>1. pc' \in [Threads -> {"idle", "getting", "waiting", "using", "notifying"}]
    BY <1>1 DEF Call, TypeOK
  <2>2. InState("using")' = InState("using")
    BY <1>1 DEF Call, TypeOK, InState
  <2> QED
    BY <1>1, <2>1, <2>2, CountSamePool DEF Call
<1>2. ASSUME NEW t \in Threads, GetConnection(t)
      PROVE  CountInv'
  <2>1. InState("using")' = InState("using") \cup {t} /\ t \notin InState("using")
    BY <1>2 DEF GetConnection, TypeOK, InState
  <2>2. Cardinality(InState("using")') = Cardinality(InState("using")) + 1
    BY <2>1, StatesFinite, FS_AddElement
  <2>3. CountMatchesUsers'
    BY <1>2, <2>2 DEF GetConnection, CountMatchesUsers
  <2>4. used_connections + 1 \in 1 .. capacity
    BY <1>0, <1>2 DEF GetConnection
  <2>5. TypeOK'
    BY <1>2, <2>4 DEF GetConnection, TypeOK
  <2> QED
    BY <2>3, <2>5
<1>3. ASSUME NEW t \in Threads, WaitForConnection(t)
      PROVE  CountInv'
  <2>1. pc' \in [Threads -> {"idle", "getting", "waiting", "using", "notifying"}]
    BY <1>3 DEF WaitForConnection, TypeOK
  <2>2. InState("using")' = InState("using")
    BY <1>3 DEF WaitForConnection, TypeOK, InState
  <2> QED
    BY <1>3, <2>1, <2>2, CountSamePool DEF WaitForConnection
<1>4. ASSUME NEW t \in Threads, NotifyOne(t)
      PROVE  CountInv'
  <2>1. pc' \in [Threads -> {"idle", "getting", "waiting", "using", "notifying"}]
    BY <1>4 DEF NotifyOne, TypeOK, InState
  <2>2. InState("using")' = InState("using")
    BY <1>4 DEF NotifyOne, TypeOK, InState
  <2> QED
    BY <1>4, <2>1, <2>2, CountSamePool DEF NotifyOne
<1>5. ASSUME NEW t \in Threads, SpuriousWakeup(t)
      PROVE  CountInv'
  <2>1. pc' \in [Threads -> {"idle", "getting", "waiting", "using", "notifying"}]
    BY <1>5 DEF SpuriousWakeup, TypeOK
  <2>2. InState("using")' = InState("using")
    BY <1>5 DEF SpuriousWakeup, TypeOK, InState
  <2> QED
    BY <1>5, <2>1, <2>2, CountSamePool DEF SpuriousWakeup
<1>6. ASSUME NEW t \in Threads, ReturnConnection(t)
      PROVE  CountInv'
  <2>1. InState("using")' = InState("using") \ {t} /\ t \in InState("using")
    BY <1>6 DEF ReturnConnection, TypeOK, InState
  <2>2. /\ Cardinality(InState("using")') = Cardinality(InState("using")) - 1
        /\ Cardinality(InState("using")') \in Nat
    BY <2>1, StatesFinite, FS_RemoveElement, FS_CardinalityType
  <2>3. CountMatchesUsers'
    BY <1>6, <2>2 DEF ReturnConnection, CountMatchesUsers
  <2>4. used_connections - 1 \in 0 .. capacity
    BY <1>0, <2>2 DEF CountMatchesUsers
  <2>5. TypeOK'
    BY <1>6, <2>4 DEF ReturnConnection, TypeOK
  <2> QED
    BY <2>3, <2>5
<1>7. CASE UNCHANGED vars
  BY <1>7 DEF vars, TypeOK, CountMatchesUsers, InState
<1> QED
  BY <1>1, <1>2, <1>3, <1>4, <1>5, <1>6, <1>7 DEF Next, Run

(* The count of connections is always the number of threads that use one,  *)
(* so the assertion of ReturnConnection (db/connection_engine.h:76) holds. *)
THEOREM CountCorrect == Spec => []CountMatchesUsers
<1>1. Spec => []CountInv
  BY CountInit, CountStep, PTL DEF Spec
<1> QED
  BY <1>1, PTL DEF CountInv

(* TypeOK: the index used_connections_ never leaves 0..capacity, although  *)
(* ReturnConnection decrements it, and pool places hold connections or     *)
(* nothing.                                                                *)
THEOREM PoolTypes == Spec => []TypeOK
<1>1. Spec => []CountInv
  BY CountInit, CountStep, PTL DEF Spec
<1> QED
  BY <1>1, PTL DEF CountInv
-----------------------------------------------------------------------------
(* Where each connection is. *)

PlaceInv ==
  /\ \A i, j \in FreePlaces : pool[i] = pool[j] => i = j
  /\ \A i \in FreePlaces : /\ pool[i] \in Connections
                           /\ \A t \in Threads : conn[t] # pool[i]
  /\ \A t, u \in Threads : conn[t] = conn[u] /\ conn[t] # None => t = u
  /\ \A t \in Threads : conn[t] # None <=> pc[t] = "using"
  /\ \A c \in Connections : \/ \E i \in FreePlaces : pool[i] = c
                            \/ \E t \in Threads : conn[t] = c

LEMMA PlaceInit == Init => PlaceInv
<1> SUFFICES ASSUME Init
             PROVE  PlaceInv
  OBVIOUS
<1>1. FreePlaces = 1 .. capacity
  BY CapacityType DEF Init, FreePlaces
<1>2. /\ pool \in [1 .. capacity -> Connections]
      /\ \A c \in Connections : \E i \in 1 .. capacity :
           \A j \in 1 .. capacity : pool[j] = c <=> j = i
  BY DEF Init
<1>3. \A i, j \in 1 .. capacity : pool[i] = pool[j] => i = j
  BY <1>2
<1>4. \A c \in Connections : \E i \in 1 .. capacity : pool[i] = c
  BY <1>2
<1>5. \A t \in Threads : conn[t] = None /\ pc[t] = "idle"
  BY DEF Init
<1> QED
  BY <1>1, <1>2, <1>3, <1>4, <1>5, PoolAssumption DEF PlaceInv

LEMMA PlaceSamePool ==
  ASSUME PlaceInv, UNCHANGED <<pool, used_connections, conn>>,
         InState("using")' = InState("using")
  PROVE  PlaceInv'
<1>1. \A t \in Threads : pc'[t] = "using" <=> pc[t] = "using"
  BY DEF InState
<1>2. FreePlaces' = FreePlaces
  BY DEF FreePlaces, capacity
<1> QED
  BY <1>1, <1>2 DEF PlaceInv

LEMMA PlaceStep == CountInv /\ CountInv' /\ PlaceInv /\ [Next]_vars => PlaceInv'
<1> SUFFICES ASSUME CountInv, CountInv', PlaceInv, [Next]_vars
             PROVE  PlaceInv'
  OBVIOUS
<1>0. /\ TypeOK
      /\ capacity \in Nat /\ capacity' = capacity
      /\ used_connections \in 0 .. capacity
      /\ used_connections' \in 0 .. capacity
  BY CapacityType DEF CountInv, TypeOK, capacity
<1>1. ASSUME NEW t \in Threads, Call(t)
      PROVE  PlaceInv'
  <2>1. InState("using")' = InState("using")
    BY <1>0, <1>1 DEF Call, TypeOK, InState
  <2> QED
    BY <1>1, <2>1, PlaceSamePool DEF Call
<1>2. ASSUME NEW t \in Threads, GetConnection(t)
      PROVE  PlaceInv'
  <2> DEFINE k == used_connections + 1
  <2>1. k \in FreePlaces /\ k \notin FreePlaces' /\ FreePlaces' = FreePlaces \ {k}
    BY <1>0, <1>2 DEF GetConnection, FreePlaces
  <2>2. \A i \in FreePlaces' : pool'[i] = pool[i]
    BY <1>0, <1>2, <2>1 DEF GetConnection, FreePlaces, TypeOK
  <2>3. pool[k] \in Connections /\ pool[k] # None
    BY <2>1, PoolAssumption DEF PlaceInv
  <2>4. \A u \in Threads : conn'[u] = IF u = t THEN pool[k] ELSE conn[u]
    BY <1>0, <1>2 DEF GetConnection, TypeOK
  <2>5. \A u \in Threads : pc'[u] = IF u = t THEN "using" ELSE pc[u]
    BY <1>0, <1>2 DEF GetConnection, TypeOK
  <2>6. conn[t] = None
    BY <1>2 DEF GetConnection, PlaceInv
  <2>7. \A i, j \in FreePlaces' : pool'[i] = pool'[j] => i = j
    BY <2>1, <2>2 DEF PlaceInv
  <2>8. \A i \in FreePlaces' : /\ pool'[i] \in Connections
                               /\ \A u \in Threads : conn'[u] # pool'[i]
    BY <2>1, <2>2, <2>4 DEF PlaceInv
  <2>9. \A u, v \in Threads : conn'[u] = conn'[v] /\ conn'[u] # None => u = v
    BY <2>1, <2>4 DEF PlaceInv
  <2>10. \A u \in Threads : conn'[u] # None <=> pc'[u] = "using"
    BY <2>3, <2>4, <2>5 DEF PlaceInv
  <2>11. \A c \in Connections : \/ \E i \in FreePlaces' : pool'[i] = c
                                \/ \E u \in Threads : conn'[u] = c
    <3> SUFFICES ASSUME NEW c \in Connections
                 PROVE  \/ \E i \in FreePlaces' : pool'[i] = c
                        \/ \E u \in Threads : conn'[u] = c
      OBVIOUS
    <3>1. CASE \E i \in FreePlaces : pool[i] = c
      BY <3>1, <2>1, <2>2, <2>4
    <3>2. CASE \E u \in Threads : conn[u] = c
      BY <3>2, <2>4, <2>6, PoolAssumption
    <3> QED
      BY <3>1, <3>2 DEF PlaceInv
  <2> QED
    BY <2>7, <2>8, <2>9, <2>10, <2>11 DEF PlaceInv
<1>3. ASSUME NEW t \in Threads, WaitForConnection(t)
      PROVE  PlaceInv'
  <2>1. InState("using")' = InState("using")
    BY <1>0, <1>3 DEF WaitForConnection, TypeOK, InState
  <2> QED
    BY <1>3, <2>1, PlaceSamePool DEF WaitForConnection
<1>4. ASSUME NEW t \in Threads, NotifyOne(t)
      PROVE  PlaceInv'
  <2>1. InState("using")' = InState("using")
    BY <1>0, <1>4 DEF NotifyOne, TypeOK, InState
  <2> QED
    BY <1>4, <2>1, PlaceSamePool DEF NotifyOne
<1>5. ASSUME NEW t \in Threads, SpuriousWakeup(t)
      PROVE  PlaceInv'
  <2>1. InState("using")' = InState("using")
    BY <1>0, <1>5 DEF SpuriousWakeup, TypeOK, InState
  <2> QED
    BY <1>5, <2>1, PlaceSamePool DEF SpuriousWakeup
<1>6. ASSUME NEW t \in Threads, ReturnConnection(t)
      PROVE  PlaceInv'
  <2> DEFINE k == used_connections
  <2>1. k \in 1 .. capacity /\ k \notin FreePlaces /\ FreePlaces' = FreePlaces \cup {k}
    BY <1>0, <1>6 DEF ReturnConnection, FreePlaces
  <2>2. /\ pool'[k] = conn[t]
        /\ \A i \in FreePlaces : pool'[i] = pool[i]
    BY <1>0, <1>6, <2>1 DEF ReturnConnection, FreePlaces, TypeOK
  <2>3. conn[t] \in Connections /\ conn[t] # None
    BY <1>0, <1>6 DEF ReturnConnection, PlaceInv, TypeOK
  <2>4. \A u \in Threads : conn'[u] = IF u = t THEN None ELSE conn[u]
    BY <1>0, <1>6 DEF ReturnConnection, TypeOK
  <2>5. \A u \in Threads : pc'[u] = IF u = t THEN "notifying" ELSE pc[u]
    BY <1>0, <1>6 DEF ReturnConnection, TypeOK
  <2>7. \A i, j \in FreePlaces' : pool'[i] = pool'[j] => i = j
    BY <2>1, <2>2 DEF PlaceInv
  <2>8. \A i \in FreePlaces' : /\ pool'[i] \in Connections
                               /\ \A u \in Threads : conn'[u] # pool'[i]
    BY <2>1, <2>2, <2>3, <2>4, PoolAssumption DEF PlaceInv
  <2>9. \A u, v \in Threads : conn'[u] = conn'[v] /\ conn'[u] # None => u = v
    BY <2>4 DEF PlaceInv
  <2>10. \A u \in Threads : conn'[u] # None <=> pc'[u] = "using"
    BY <2>4, <2>5 DEF PlaceInv
  <2>11. \A c \in Connections : \/ \E i \in FreePlaces' : pool'[i] = c
                                \/ \E u \in Threads : conn'[u] = c
    BY <2>1, <2>2, <2>4 DEF PlaceInv
  <2> QED
    BY <2>7, <2>8, <2>9, <2>10, <2>11 DEF PlaceInv
<1>7. CASE UNCHANGED vars
  BY <1>7, PlaceSamePool DEF vars, InState
<1> QED
  BY <1>1, <1>2, <1>3, <1>4, <1>5, <1>6, <1>7 DEF Next, Run

LEMMA PlacesCounted == PlaceInv => EachConnectionOnce
<1> SUFFICES ASSUME PlaceInv, NEW c \in Connections
             PROVE  Cardinality({i \in FreePlaces : pool[i] = c})
                      + Cardinality({t \in Threads : conn[t] = c}) = 1
  BY DEF EachConnectionOnce
<1> DEFINE places  == {i \in FreePlaces : pool[i] = c}
           holders == {t \in Threads : conn[t] = c}
<1>0. c # None
  BY PoolAssumption
<1>1. CASE \E i \in FreePlaces : pool[i] = c
  <2> PICK i \in FreePlaces : pool[i] = c
    BY <1>1
  <2>1. places = {i} /\ holders = {}
    BY DEF PlaceInv
  <2>2. Cardinality(places) = 1 /\ Cardinality(holders) = 0
    BY <2>1, FS_Singleton, FS_EmptySet
  <2> HIDE DEF places, holders
  <2>3. Cardinality(places) + Cardinality(holders) = 1
    BY <2>2
  <2> QED
    BY <2>3 DEF places, holders
<1>2. CASE ~ \E i \in FreePlaces : pool[i] = c
  <2> PICK t \in Threads : conn[t] = c
    BY <1>2 DEF PlaceInv
  <2>1. places = {} /\ holders = {t}
    BY <1>0, <1>2 DEF PlaceInv
  <2>2. Cardinality(holders) = 1 /\ Cardinality(places) = 0
    BY <2>1, FS_Singleton, FS_EmptySet
  <2> HIDE DEF places, holders
  <2>3. Cardinality(places) + Cardinality(holders) = 1
    BY <2>2
  <2> QED
    BY <2>3 DEF places, holders
<1> QED
  BY <1>1, <1>2

LEMMA PlacesKept == Spec => [](CountInv /\ PlaceInv)
<1>1. Init => CountInv /\ PlaceInv
  BY CountInit, PlaceInit
<1>2. CountInv /\ PlaceInv /\ [Next]_vars => (CountInv /\ PlaceInv)'
  BY CountStep, PlaceStep
<1> QED
  BY <1>1, <1>2, PTL DEF Spec

(* Every connection is at one free place of the pool or with one thread    *)
(* (GetConnection and ReturnConnection, db/connection_engine.h:59-81).     *)
THEOREM ConnectionsNeverLost == Spec => []EachConnectionOnce
BY PlacesKept, PlacesCounted, PTL

(* The pool implements the lease of connections to one thread at a time.   *)
THEOREM PoolImplementsLease == Spec => ImplementsLease
<1>1. Init => Lease!Init
  BY DEF Init, Lease!Init
<1>2. CountInv /\ PlaceInv /\ [Next]_vars => [Lease!Next]_conn
  <2> SUFFICES ASSUME CountInv, PlaceInv, [Next]_vars
               PROVE  Lease!Next \/ conn' = conn
    OBVIOUS
  <2>1. ASSUME NEW t \in Threads, GetConnection(t)
        PROVE  Lease!Next
    <3>1. used_connections + 1 \in FreePlaces
      BY <2>1, CapacityType DEF GetConnection, FreePlaces, CountInv, TypeOK
    <3>2. Lease!Lend(t, pool[used_connections + 1])
      BY <2>1, <3>1 DEF GetConnection, PlaceInv, Lease!Lend
    <3> QED
      BY <3>1, <3>2 DEF PlaceInv, Lease!Next
  <2>2. ASSUME NEW t \in Threads, ReturnConnection(t)
        PROVE  Lease!Next
    BY <2>2 DEF ReturnConnection, PlaceInv, Lease!Next, Lease!GiveBack
  <2>3. ASSUME NEW t \in Threads, Call(t) \/ WaitForConnection(t)
                                  \/ NotifyOne(t) \/ SpuriousWakeup(t)
        PROVE  conn' = conn
    BY <2>3 DEF Call, WaitForConnection, NotifyOne, SpuriousWakeup
  <2>4. CASE UNCHANGED vars
    BY <2>4 DEF vars
  <2> QED
    BY <2>1, <2>2, <2>3, <2>4 DEF Next, Run
<1> QED
  BY <1>1, <1>2, PlacesKept, PTL DEF Spec, ImplementsLease, Lease!Spec
-----------------------------------------------------------------------------
(* No wakeup is lost. *)

OnTheirWay == InState("getting") \cup InState("notifying")

LEMMA OnTheirWayFinite ==
  IsFiniteSet(OnTheirWay) /\ Cardinality(OnTheirWay) \in Nat
BY StatesFinite, FS_Union, FS_CardinalityType DEF OnTheirWay

LEMMA WakeupStep ==
  CountInv /\ CountInv' /\ NoLostWakeup /\ [Next]_vars => NoLostWakeup'
<1> SUFFICES ASSUME CountInv, CountInv', NoLostWakeup, [Next]_vars,
                    InState("waiting")' # {}
             PROVE  capacity - used_connections' <= Cardinality(OnTheirWay')
  BY DEF NoLostWakeup, OnTheirWay, capacity
<1>0. /\ TypeOK
      /\ capacity \in Nat
      /\ used_connections \in 0 .. capacity
      /\ used_connections' \in 0 .. capacity
      /\ Cardinality(OnTheirWay) \in Nat
      /\ InState("waiting") # {}
           => capacity - used_connections <= Cardinality(OnTheirWay)
  BY CapacityType, OnTheirWayFinite
     DEF CountInv, TypeOK, NoLostWakeup, OnTheirWay, capacity
<1>1. ASSUME NEW t \in Threads, Call(t)
      PROVE  capacity - used_connections' <= Cardinality(OnTheirWay')
  <2>1. /\ InState("waiting")' = InState("waiting")
        /\ OnTheirWay' = OnTheirWay \cup {t}
        /\ t \notin OnTheirWay
    BY <1>0, <1>1 DEF Call, TypeOK, InState, OnTheirWay
  <2>2. Cardinality(OnTheirWay') = Cardinality(OnTheirWay) + 1
    BY <2>1, OnTheirWayFinite, FS_AddElement
  <2> QED
    BY <1>0, <1>1, <2>1, <2>2 DEF Call
<1>2. ASSUME NEW t \in Threads, GetConnection(t)
      PROVE  capacity - used_connections' <= Cardinality(OnTheirWay')
  <2>1. /\ InState("waiting")' = InState("waiting")
        /\ OnTheirWay' = OnTheirWay \ {t}
        /\ t \in OnTheirWay
    BY <1>0, <1>2 DEF GetConnection, TypeOK, InState, OnTheirWay
  <2>2. Cardinality(OnTheirWay') = Cardinality(OnTheirWay) - 1
    BY <2>1, OnTheirWayFinite, FS_RemoveElement
  <2> QED
    BY <1>0, <1>2, <2>1, <2>2 DEF GetConnection
<1>3. ASSUME NEW t \in Threads, WaitForConnection(t)
      PROVE  capacity - used_connections' <= Cardinality(OnTheirWay')
  <2>1. Cardinality(OnTheirWay') \in Nat
    <3>1. OnTheirWay' = OnTheirWay \ {t}
      BY <1>0, <1>3 DEF WaitForConnection, TypeOK, InState, OnTheirWay
    <3>2. IsFiniteSet(OnTheirWay \ {t})
      BY OnTheirWayFinite, FS_RemoveElement
    <3> QED
      BY <3>1, <3>2, FS_CardinalityType
  <2> QED
    BY <1>0, <1>3, <2>1 DEF WaitForConnection
<1>4. ASSUME NEW t \in Threads, NotifyOne(t)
      PROVE  capacity - used_connections' <= Cardinality(OnTheirWay')
  <2>0. t \in OnTheirWay
    BY <1>4 DEF NotifyOne, InState, OnTheirWay
  <2>1. InState("waiting") # {}
    BY <1>0, <1>4 DEF NotifyOne, TypeOK, InState
  <2>2. PICK u \in InState("waiting") : pc' = [pc EXCEPT ![t] = "idle", ![u] = "getting"]
    BY <1>4, <2>1 DEF NotifyOne
  <2>3. u # t /\ u \notin OnTheirWay /\ OnTheirWay' = (OnTheirWay \ {t}) \cup {u}
    BY <1>0, <1>4, <2>2 DEF NotifyOne, TypeOK, InState, OnTheirWay
  <2>4. /\ IsFiniteSet(OnTheirWay \ {t})
        /\ Cardinality(OnTheirWay \ {t}) = Cardinality(OnTheirWay) - 1
    BY <2>0, OnTheirWayFinite, FS_RemoveElement
  <2>5. Cardinality(OnTheirWay') = Cardinality(OnTheirWay)
    <3>1. u \notin OnTheirWay \ {t}
      BY <2>3
    <3>2. Cardinality((OnTheirWay \ {t}) \cup {u}) = Cardinality(OnTheirWay \ {t}) + 1
      BY <3>1, <2>4, FS_AddElement
    <3> QED
      BY <1>0, <2>3, <2>4, <3>2
  <2> QED
    BY <1>0, <1>4, <2>1, <2>5 DEF NotifyOne
<1>5. ASSUME NEW t \in Threads, SpuriousWakeup(t)
      PROVE  capacity - used_connections' <= Cardinality(OnTheirWay')
  <2>1. /\ InState("waiting") # {}
        /\ OnTheirWay' = OnTheirWay \cup {t}
        /\ t \notin OnTheirWay
    BY <1>0, <1>5 DEF SpuriousWakeup, TypeOK, InState, OnTheirWay
  <2>2. Cardinality(OnTheirWay') = Cardinality(OnTheirWay) + 1
    BY <2>1, OnTheirWayFinite, FS_AddElement
  <2> QED
    BY <1>0, <1>5, <2>1, <2>2 DEF SpuriousWakeup
<1>6. ASSUME NEW t \in Threads, ReturnConnection(t)
      PROVE  capacity - used_connections' <= Cardinality(OnTheirWay')
  <2>1. /\ InState("waiting")' = InState("waiting")
        /\ OnTheirWay' = OnTheirWay \cup {t}
        /\ t \notin OnTheirWay
    BY <1>0, <1>6 DEF ReturnConnection, TypeOK, InState, OnTheirWay
  <2>2. Cardinality(OnTheirWay') = Cardinality(OnTheirWay) + 1
    BY <2>1, OnTheirWayFinite, FS_AddElement
  <2> QED
    BY <1>0, <1>6, <2>1, <2>2 DEF ReturnConnection
<1>7. CASE UNCHANGED vars
  BY <1>0, <1>7 DEF vars, InState, OnTheirWay
<1> QED
  BY <1>1, <1>2, <1>3, <1>4, <1>5, <1>6, <1>7 DEF Next, Run

(* While a thread waits in GetConnection, every free connection has a      *)
(* thread on its way to take it or to wake a waiter.                       *)
THEOREM WakeupsNotLost == Spec => []NoLostWakeup
<1>1. Init => CountInv /\ NoLostWakeup
  <2>1. Init => InState("waiting") = {}
    BY DEF Init, InState
  <2> QED
    BY <2>1, CountInit DEF NoLostWakeup
<1>2. CountInv /\ NoLostWakeup /\ [Next]_vars => (CountInv /\ NoLostWakeup)'
  BY CountStep, WakeupStep
<1> QED
  BY <1>1, <1>2, PTL DEF Spec
=============================================================================
