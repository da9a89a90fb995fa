--------------------------- MODULE ConnectionPool ---------------------------
(***************************************************************************)
(* The pool of database connections (db/connection_engine.h) and threads   *)
(* that use it the way SaveRetiredPlayer and GetRetiredPlayers do: a       *)
(* thread gets one connection, works, and returns it when its wrapper is   *)
(* destroyed, also when the work throws.                                   *)
(*                                                                         *)
(* What happens under mutex_ is one step.  Waiting gives the mutex up and  *)
(* joins the waiters in one step, which is what a condition variable is    *)
(* for; notify_one comes after the mutex was released, so it is a step of  *)
(* its own.  Indices of pool_ start at 1.                                  *)
(***************************************************************************)
EXTENDS Integers, FiniteSets

CONSTANTS
  Threads,
  Connections,
  None          \* an empty pointer

ASSUME PoolAssumption ==
  /\ IsFiniteSet(Threads)
  /\ IsFiniteSet(Connections)
  /\ None \notin Connections

VARIABLES
  pool,              \* pool_
  used_connections,  \* used_connections_
  pc,                \* what each thread is doing
  conn               \* conn_ of the wrapper each thread has

vars == <<pool, used_connections, pc, conn>>

capacity == Cardinality(Connections)

TypeOK ==
  /\ pool \in [1 .. capacity -> Connections \cup {None}]
  /\ used_connections \in 0 .. capacity
  /\ pc \in [Threads -> {"idle", "getting", "waiting", "using", "notifying"}]
  /\ conn \in [Threads -> Connections \cup {None}]

InState(s) == {t \in Threads : pc[t] = s}

(* The constructor: every connection of the factory at one place. *)
Init ==
  /\ pool \in {f \in [1 .. capacity -> Connections] :
                 \A c \in Connections : \E i \in 1 .. capacity :
                   \A j \in 1 .. capacity : f[j] = c <=> j = i}
  /\ used_connections = 0
  /\ pc = [t \in Threads |-> "idle"]
  /\ conn = [t \in Threads |-> None]

(* A thread calls GetConnection. *)
Call(t) ==
  /\ pc[t] = "idle"
  /\ pc' = [pc EXCEPT ![t] = "getting"]
  /\ UNCHANGED <<pool, used_connections, conn>>

(* Faulty variant: the connection is copied and the count left alone. *)
GetConnectionUncounted(t) ==
  /\ pc[t] = "getting"
  /\ used_connections < capacity
  /\ conn' = [conn EXCEPT ![t] = pool[used_connections + 1]]
  /\ pc' = [pc EXCEPT ![t] = "using"]
  /\ UNCHANGED <<pool, used_connections>>

(* GetConnection with the predicate of the wait true. *)
GetConnection(t) ==
  /\ pc[t] = "getting"
  /\ used_connections < capacity
  /\ conn' = [conn EXCEPT ![t] = pool[used_connections + 1]]
  /\ pool' = [pool EXCEPT ![used_connections + 1] = None]
  /\ used_connections' = used_connections + 1
  /\ pc' = [pc EXCEPT ![t] = "using"]

(* GetConnection with the predicate false: wait. *)
WaitForConnection(t) ==
  /\ pc[t] = "getting"
  /\ used_connections = capacity
  /\ pc' = [pc EXCEPT ![t] = "waiting"]
  /\ UNCHANGED <<pool, used_connections, conn>>

(* A condition variable may wake a thread without being notified. *)
SpuriousWakeup(t) ==
  /\ pc[t] = "waiting"
  /\ pc' = [pc EXCEPT ![t] = "getting"]
  /\ UNCHANGED <<pool, used_connections, conn>>

(* Faulty variant: the count is decremented after it is used as an index. *)
ReturnConnectionPostDecrement(t) ==
  /\ pc[t] = "using"
  /\ pool' = [pool EXCEPT ![used_connections + 1] = conn[t]]
  /\ used_connections' = used_connections - 1
  /\ conn' = [conn EXCEPT ![t] = None]
  /\ pc' = [pc EXCEPT ![t] = "notifying"]

(* Faulty variant: the wrapper returns what it has already given back. *)
ReturnConnectionAgain(t) ==
  /\ pc[t] = "using"
  /\ pool' = [pool EXCEPT ![used_connections] = conn[t]]
  /\ used_connections' = used_connections - 1
  /\ conn' = [conn EXCEPT ![t] = None]
  /\ UNCHANGED pc

(* The destructor of the wrapper and ReturnConnection under the lock. *)
ReturnConnection(t) ==
  /\ pc[t] = "using"
  /\ pool' = [pool EXCEPT ![used_connections] = conn[t]]
  /\ used_connections' = used_connections - 1
  /\ conn' = [conn EXCEPT ![t] = None]
  /\ pc' = [pc EXCEPT ![t] = "notifying"]

(* Faulty variant: the others are told only if no connection was free.     *)
NotifyIfWasFull(t) ==
  /\ pc[t] = "notifying"
  /\ IF InState("waiting") = {} \/ used_connections + 1 < capacity
       THEN pc' = [pc EXCEPT ![t] = "idle"]
       ELSE \E u \in InState("waiting") :
              pc' = [pc EXCEPT ![t] = "idle", ![u] = "getting"]
  /\ UNCHANGED <<pool, used_connections, conn>>

(* cond_var_.notify_one: one of the waiting threads, if there is any. *)
NotifyOne(t) ==
  /\ pc[t] = "notifying"
  /\ IF InState("waiting") = {}
       THEN pc' = [pc EXCEPT ![t] = "idle"]
       ELSE \E u \in InState("waiting") :
              pc' = [pc EXCEPT ![t] = "idle", ![u] = "getting"]
  /\ UNCHANGED <<pool, used_connections, conn>>

(* A thread that is not blocked goes on. *)
Run(t) == GetConnection(t) \/ WaitForConnection(t) \/ NotifyOne(t)

Next == \E t \in Threads :
  Call(t) \/ Run(t) \/ SpuriousWakeup(t) \/ ReturnConnection(t)

Spec == Init /\ [][Next]_vars

(* Threads that are not blocked are scheduled, and work on a connection    *)
(* ends: it is one statement of SQL.                                       *)
FairSpec == Spec /\ \A t \in Threads :
              WF_vars(Run(t)) /\ WF_vars(ReturnConnection(t))
-----------------------------------------------------------------------------
(* Properties. *)

FreePlaces == used_connections + 1 .. capacity

(* Every connection is either at one place of the free part of the pool or *)
(* with one thread: none is lost, doubled or handed out as an empty        *)
(* pointer, in whatever order connections come back.                       *)
EachConnectionOnce ==
  \A c \in Connections :
    LET places  == {i \in FreePlaces : pool[i] = c}
        holders == {t \in Threads : conn[t] = c}
    IN  Cardinality(places) + Cardinality(holders) = 1

(* The assertion of ReturnConnection, and more: the count is the number of *)
(* threads that use a connection.                                          *)
CountMatchesUsers == used_connections = Cardinality(InState("using"))

(* While a thread waits, each free connection has a thread on its way to   *)
(* take it or to wake a waiter, though it notifies outside the lock, only  *)
(* one waiter at a time, and others may take the connection first.         *)
NoLostWakeup ==
  InState("waiting") # {} =>
    capacity - used_connections
      <= Cardinality(InState("getting") \cup InState("notifying"))

(* It never stays so that a thread waits and a connection is free.         *)
FreeConnectionFindsWaiter ==
  []<>~(InState("waiting") # {} /\ used_connections < capacity)

(* The pool lends a connection to one thread at a time.                    *)
Lease == INSTANCE ConnectionLease WITH lease <- conn
ImplementsLease == Lease!Spec
=============================================================================
