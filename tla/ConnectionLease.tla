--------------------------- MODULE ConnectionLease ---------------------------
(***************************************************************************)
(* What ConnectionPool promises: connections are lent to threads, one to a *)
(* thread, and a connection that is lent is not lent again until it is     *)
(* given back.                                                             *)
(***************************************************************************)
CONSTANTS Threads, Connections, None

VARIABLE lease   \* the connection each thread has, or None

Init == lease = [t \in Threads |-> None]

Lend(t, c) ==
  /\ lease[t] = None
  /\ \A u \in Threads : lease[u] # c
  /\ lease' = [lease EXCEPT ![t] = c]

GiveBack(t) ==
  /\ lease[t] # None
  /\ lease' = [lease EXCEPT ![t] = None]

Next == \E t \in Threads :
  \/ \E c \in Connections : Lend(t, c)
  \/ GiveBack(t)

Spec == Init /\ [][Next]_lease
=============================================================================
