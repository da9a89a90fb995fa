------------------------------- MODULE Server -------------------------------
(***************************************************************************)
(* The server around the game: threads that run one io_context (main.cpp), *)
(* connections (network/http_server), the strand on which API requests and *)
(* ticks are handled (network/request_handler.h, ticker.h), exceptions     *)
(* that leave a handler, and the shutdown on a signal.                     *)
(*                                                                         *)
(* The game is two parts that every handler of the strand writes one after *)
(* the other, as a pick-up writes the map's loots and then a bag; the      *)
(* snapshot of the shutdown reads them one after the other.  Values are    *)
(* kept modulo 2.  GameApi and GameSession have what the handlers do.      *)
(*                                                                         *)
(* Of Asio is assumed, as boost/asio/detail/impl/strand_executor_service   *)
(* has it: a strand is one invoker with two queues.  Who dispatches to a   *)
(* free strand becomes the invoker and runs the handler there and then;    *)
(* otherwise the handler waits.  The invoker runs everything that is ready *)
(* in one operation of the io_context; leaving, also by an exception, it   *)
(* makes ready what waits and is posted again.  After stop() no operation  *)
(* begins, and those that have begun go on to their end.                   *)
(***************************************************************************)
EXTENDS Integers, Sequences, FiniteSets, SequencesExt

CONSTANTS
  Threads,   \* hardware_concurrency threads, the main one among them
  Main,
  Conns      \* connections open at a time: the bound on clients

ASSUME ServerAssumption ==
  /\ Main \in Threads
  /\ "tick" \notin Conns

VARIABLES
  pc,         \* what a thread does: see PC
  job,        \* job[t]: its strand handler, of a connection or "tick"
  ready,      \* handlers the strand's invoker runs next
  waiting,    \* handlers dispatched while there is an invoker
  invoker,    \* of the strand: "none", "posted" or "running" on some thread
  conn,       \* conn[c]: state of a connection, "closed" when there is none
  accepting,  \* the acceptor has an async_accept pending
  timer,      \* an async_wait of the ticker is pending
  has_started,
  signals,    \* "waiting" for a signal, "come", or "done"
  stopped,    \* io_context::stop has been called
  game,       \* the two parts of the game
  snapshot,   \* what create_game_state has copied of them
  process     \* "up", "terminated", "exit_success" or "exit_failure"

strand == <<ready, waiting, invoker>>
sources == <<accepting, timer, has_started>>
shutdown == <<signals, stopped>>
vars == <<pc, job, strand, conn, sources, shutdown, game, snapshot, process>>

(* "run": in ioc.run between two operations; "dispatch": about to dispatch *)
(* job to the strand; "first" and "second": in the handler job; "next":    *)
(* the invoker between two handlers.                                       *)
PC == {"run", "dispatch", "first", "second", "next", "loop", "copy1", "copy2", "left", "failed"}
Job == Conns \cup {"tick"}

TypeOK ==
  /\ pc \in [Threads -> PC]
  /\ job \in [Threads -> Job]
  /\ ready \in Seq(Job) /\ waiting \in Seq(Job)
  /\ invoker \in {"none", "posted", "running"}
  /\ conn \in [Conns -> {"closed", "reading", "queued", "writing"}]
  /\ accepting \in BOOLEAN /\ timer \in BOOLEAN
  /\ has_started \in BOOLEAN /\ stopped \in BOOLEAN
  /\ signals \in {"waiting", "come", "done"}
  /\ game \in [1..2 -> 0..1] /\ snapshot \in [1..2 -> 0..1]
  /\ process \in {"up", "terminated", "exit_success", "exit_failure"}

Init ==
  /\ pc = [t \in Threads |-> "run"]
  /\ job = [t \in Threads |-> "tick"]
  /\ ready = <<>> /\ waiting = <<>> /\ invoker = "none"
  /\ conn = [c \in Conns |-> "closed"]
  /\ accepting = TRUE
  /\ timer = FALSE
  /\ has_started = FALSE
  /\ signals = "waiting"
  /\ stopped = FALSE
  /\ game = [i \in 1..2 |-> 0]
  /\ snapshot = [i \in 1..2 |-> 0]
  /\ process = "up"

Handling(t) == pc[t] \in {"first", "second", "loop"}
handling == \E t \in Threads : Handling(t)

(* A thread inside ioc.run that is free to take an operation, and one in   *)
(* the midst of an operation.                                              *)
Free(t) == process = "up" /\ pc[t] = "run" /\ ~stopped
At(t, place) == process = "up" /\ pc[t] = place
Goto(t, place) == pc' = [pc EXCEPT ![t] = place]

-----------------------------------------------------------------------------
(* Threads that fail or leave. *)

(* An exception leaves ioc.run and the thread's function: a worker thread  *)
(* takes the process down; on the main thread the workers are joined first *)
(* and go on as they are.                                                  *)
Throw(t) ==
  /\ Goto(t, "failed")
  /\ process' = IF t = Main THEN process ELSE "terminated"

(* ioc.run returns when the io_context is stopped. *)
LeaveRun(t) ==
  /\ At(t, "run")
  /\ stopped
  /\ Goto(t, "left")
  /\ UNCHANGED <<job, strand, conn, sources, shutdown, game, snapshot, process>>

(* The main thread has left and joined the others: main returns, from its  *)
(* end or from the catch clause.                                           *)
Exit ==
  /\ process = "up"
  /\ \A t \in Threads : pc[t] \in {"left", "failed"}
  /\ process' = IF pc[Main] = "failed" THEN "exit_failure" ELSE "exit_success"
  /\ UNCHANGED <<pc, job, strand, conn, sources, shutdown, game, snapshot>>

-----------------------------------------------------------------------------
(* Connections.  A step runs on the connection's own strand, on any thread *)
(* that is free.                                                           *)

(* Listener::OnAccept: run a session and accept again; after an error,     *)
(* nothing is accepted any more.                                           *)
OnAccept(c) ==
  /\ \E t \in Threads : Free(t)
  /\ accepting
  /\ \/ /\ conn[c] = "closed"
        /\ conn' = [conn EXCEPT ![c] = "reading"]
        /\ UNCHANGED accepting
     \/ /\ accepting' = FALSE
        /\ UNCHANGED conn
  /\ UNCHANGED <<pc, job, strand, timer, has_started, shutdown, game, snapshot, process>>

(* SessionBase::OnRead.  The client is gone, the read failed or took 30 s, *)
(* or RequestHandler has no branch for the target: the session is dropped. *)
(* An API request goes to the strand.  Map lists and refusals are written  *)
(* at once; asking for an unknown map throws.                              *)
OnRead(t, c) ==
  /\ Free(t)
  /\ conn[c] = "reading"
  /\ \/ /\ conn' = [conn EXCEPT ![c] = "closed"]
        /\ UNCHANGED <<pc, job, process>>
     \/ /\ conn' = [conn EXCEPT ![c] = "queued"]
        /\ Goto(t, "dispatch")
        /\ job' = [job EXCEPT ![t] = c]
        /\ UNCHANGED process
     \/ /\ conn' = [conn EXCEPT ![c] = "writing"]
        /\ UNCHANGED <<pc, job, process>>
     \/ /\ conn' = [conn EXCEPT ![c] = "closed"]
        /\ Throw(t)
        /\ job' = [job EXCEPT ![t] = c]
  /\ UNCHANGED <<strand, sources, shutdown, game, snapshot>>

(* SessionBase::OnWrite: read the next request, or drop the session after  *)
(* an error or when the answer says so.                                    *)
OnWrite(c) ==
  /\ \E t \in Threads : Free(t)
  /\ conn[c] = "writing"
  /\ \E next \in {"reading", "closed"} : conn' = [conn EXCEPT ![c] = next]
  /\ UNCHANGED <<pc, job, strand, sources, shutdown, game, snapshot, process>>

-----------------------------------------------------------------------------
(* The strand. *)

(* Faulty variant: the handler runs on the thread that has read it. *)
DispatchHere(t) == Goto(t, "first") /\ UNCHANGED strand

(* net::dispatch: the thread becomes the strand's invoker and runs the     *)
(* handler, or leaves it to the invoker there is.                          *)
Dispatch(t) ==
  IF invoker = "none"
    THEN /\ Goto(t, "first")
         /\ invoker' = "running"
         /\ UNCHANGED <<ready, waiting>>
    ELSE /\ Goto(t, "run")
         /\ waiting' = Append(waiting, job[t])
         /\ UNCHANGED <<ready, invoker>>

DispatchJob(t) ==
  /\ At(t, "dispatch")
  /\ Dispatch(t)
  /\ UNCHANGED <<job, conn, sources, shutdown, game, snapshot, process>>

(* A free thread takes the invoker that was posted. *)
RunStrand(t) ==
  /\ Free(t)
  /\ invoker = "posted"
  /\ invoker' = "running"
  /\ Goto(t, "next")
  /\ UNCHANGED <<job, ready, waiting, conn, sources, shutdown, game, snapshot, process>>

(* The invoker goes on with the next handler that is ready, whether or not *)
(* the io_context has been stopped.                                        *)
NextHandler(t) ==
  /\ At(t, "next")
  /\ ready # <<>>
  /\ job' = [job EXCEPT ![t] = Head(ready)]
  /\ ready' = Tail(ready)
  /\ Goto(t, "first")
  /\ UNCHANGED <<waiting, invoker, conn, sources, shutdown, game, snapshot, process>>

(* on_invoker_exit: what has waited is ready for the next invoker. *)
LeaveStrand ==
  /\ ready' = ready \o waiting
  /\ waiting' = <<>>
  /\ invoker' = IF ready \o waiting = <<>> THEN "none" ELSE "posted"

InvokerEnds(t) ==
  /\ At(t, "next")
  /\ ready = <<>>
  /\ LeaveStrand
  /\ Goto(t, "run")
  /\ UNCHANGED <<job, conn, sources, shutdown, game, snapshot, process>>

-----------------------------------------------------------------------------
(* Its handlers: requests and ticks. *)

(* One changes the first part of the game, or nothing at all. *)
ChangeFirst(t) ==
  /\ At(t, "first")
  /\ \E changed \in 0..1 : game' = [game EXCEPT ![1] = (@ + changed) % 2]
  /\ Goto(t, "second")
  /\ UNCHANGED <<job, strand, conn, sources, shutdown, snapshot, process>>

(* An exception leaves it, of a tick that has changed other sessions       *)
(* before perhaps, which is left out here: its response and its connection *)
(* are gone, and so is the next tick; the strand goes on.                  *)
HandlerThrows(t) ==
  /\ At(t, "first")
  /\ Throw(t)
  /\ LeaveStrand
  /\ conn' = IF job[t] \in Conns THEN [conn EXCEPT ![job[t]] = "closed"] ELSE conn
  /\ UNCHANGED <<job, sources, shutdown, game, snapshot>>

(* GetAuthToken strips leading spaces in a loop that ends only when no     *)
(* space is left, so a header with a space further on keeps it there.      *)
HandlerLoops(t) ==
  /\ At(t, "first")
  /\ job[t] \in Conns
  /\ Goto(t, "loop")
  /\ UNCHANGED <<job, strand, conn, sources, shutdown, game, snapshot, process>>

(* Ticker::ScheduleTick.  expires_after cancels a wait that is pending,    *)
(* whose OnTick is then called as well: it does not look at its error.     *)
ScheduleTick ==
  /\ timer' = TRUE
  /\ waiting' = IF timer THEN Append(waiting, "tick") ELSE waiting
  /\ UNCHANGED <<ready, invoker>>

(* Faulty variant: a join does not ask whether the ticker has started. *)
StartEachTime == ScheduleTick

(* A successful join starts the ticker, once. *)
Start == ~has_started /\ ScheduleTick

(* Faulty variant: a tick does not schedule the next one. *)
TickEndsHere == UNCHANGED <<timer, strand>>

NextTick == ScheduleTick

(* Faulty variant: the response is made and not sent. *)
NoSend(c) == UNCHANGED conn

send(c) == conn' = [conn EXCEPT ![c] = "writing"]

(* The handler writes the second part.  A request hands its response to    *)
(* the session, which begins to write it; a tick schedules the next one.   *)
ChangeSecond(t) ==
  /\ At(t, "second")
  /\ game' = [game EXCEPT ![2] = game[1]]
  /\ Goto(t, "next")
  /\ \/ /\ job[t] = "tick"
        /\ NextTick
        /\ UNCHANGED <<conn, has_started>>
     \/ /\ job[t] # "tick"
        /\ send(job[t])
        /\ \/ Start /\ has_started' = TRUE
           \/ UNCHANGED <<timer, strand, has_started>>
  /\ UNCHANGED <<job, accepting, shutdown, snapshot, process>>

(* The time of the pending wait has come: a thread completes it, which     *)
(* dispatches OnTick to the strand of the timer.                           *)
TimerExpires(t) ==
  /\ Free(t)
  /\ timer
  /\ timer' = FALSE
  /\ Goto(t, "dispatch")
  /\ job' = [job EXCEPT ![t] = "tick"]
  /\ UNCHANGED <<strand, conn, accepting, has_started, shutdown, game, snapshot, process>>

-----------------------------------------------------------------------------
(* Shutdown. *)

(* SIGINT or SIGTERM; the signal set is waited for once. *)
Signal ==
  /\ process = "up"
  /\ signals = "waiting"
  /\ signals' = "come"
  /\ UNCHANGED <<pc, job, strand, conn, sources, stopped, game, snapshot, process>>

SignalTaken(t) ==
  /\ Free(t)
  /\ signals = "come"
  /\ signals' = "done"
  /\ Goto(t, "copy1")
  /\ UNCHANGED <<job, strand, conn, sources, game, snapshot, process>>

(* Faulty variant: the io_context goes on while the game is serialized. *)
HandleSignalNoStop(t) == SignalTaken(t) /\ UNCHANGED stopped

(* The signal handler, on any free thread and on no strand: stop first. *)
HandleSignal(t) == SignalTaken(t) /\ stopped' = TRUE

(* Then serialize_state copies the game.  A game without a session is not  *)
(* written; has_started stands for having one, and before that a join that *)
(* is under way may have made one.                                         *)
CopyFirst(t) ==
  /\ At(t, "copy1")
  /\ \/ /\ ~has_started
        /\ Goto(t, "run")
        /\ UNCHANGED snapshot
     \/ /\ has_started \/ handling
        /\ Goto(t, "copy2")
        /\ snapshot' = [snapshot EXCEPT ![1] = game[1]]
  /\ UNCHANGED <<job, strand, conn, sources, shutdown, game, process>>

(* The archive throws when the file cannot be opened, and otherwise        *)
(* overflows the stack (see SavedGame).                                    *)
CopySecond(t) ==
  /\ At(t, "copy2")
  /\ snapshot' = [snapshot EXCEPT ![2] = game[2]]
  /\ \/ Throw(t)
     \/ Goto(t, "failed") /\ process' = "terminated"
  /\ UNCHANGED <<job, strand, conn, sources, shutdown, game>>

-----------------------------------------------------------------------------
(* What thread t does next in an operation it has begun. *)
Continue(t) ==
  \/ DispatchJob(t) \/ NextHandler(t) \/ InvokerEnds(t)
  \/ ChangeFirst(t) \/ ChangeSecond(t)
  \/ HandlerThrows(t) \/ HandlerLoops(t)
  \/ CopyFirst(t) \/ CopySecond(t)
  \/ LeaveRun(t)

Next ==
  \/ \E t \in Threads : Continue(t) \/ RunStrand(t) \/ TimerExpires(t) \/ HandleSignal(t)
  \/ \E c \in Conns : OnAccept(c) \/ OnWrite(c) \/ \E t \in Threads : OnRead(t, c)
  \/ Signal \/ Exit

Spec == Init /\ [][Next]_vars

(* Threads run, and the io_context takes what is ready in turn: the        *)
(* invoker, the timer and the signal are not passed over for ever by       *)
(* threads that are busy and free again, hence strong fairness.  Nothing   *)
(* is assumed of clients.                                                  *)
FairSpec ==
  /\ Spec
  /\ \A t \in Threads : WF_vars(Continue(t))
  /\ SF_vars(\E t \in Threads : RunStrand(t))
  /\ SF_vars(\E t \in Threads : TimerExpires(t))
  /\ SF_vars(\E t \in Threads : HandleSignal(t))
  /\ WF_vars(Exit)

-----------------------------------------------------------------------------
(* Properties. *)

(* The game has no lock: requests and ticks take turns with it because     *)
(* each is dispatched to the strand, whichever thread has read it, and the *)
(* strand has one invoker, also after one of its handlers has thrown.      *)
HandlersNeverOverlap ==
  \A t, u \in Threads : Handling(t) /\ Handling(u) => t = u

(* There is never more than one tick on its way: waiting for its time,     *)
(* being dispatched, waiting for the strand, or running.  A second one     *)
(* would double the clock for good, because each cancels and calls the     *)
(* other's wait.                                                           *)
TicksIn(q) == Cardinality({i \in DOMAIN q : q[i] = "tick"})
OneTickPending ==
  TicksIn(ready) + TicksIn(waiting)
  + Cardinality({t \in Threads : pc[t] \in {"dispatch", "first", "second"} /\ job[t] = "tick"})
  + (IF timer THEN 1 ELSE 0) <= 1

(* What the shutdown has copied is a state of the game, as it is between   *)
(* two handlers: the game is "server state" to save (the state-file option *)
(* of utility_functions.h:43).  The handler of the signal runs on no       *)
(* strand, stop() waits for nobody, and the strand's invoker goes on with  *)
(* the handler it is in and the ones that are ready, so the two parts may  *)
(* be of different states.                                                 *)
SnapshotIsAState ==
  signals = "done" /\ (\A t \in Threads : pc[t] \notin {"copy1", "copy2"})
    => snapshot[1] = snapshot[2]

looping == \E t \in Threads : pc[t] = "loop"
over == stopped \/ process # "up"

(* Once started the clock ticks again and again until the shutdown, unless *)
(* a tick was left by an exception on the main thread, which ends the      *)
(* clock but not the server, or a handler never ends.                      *)
ClockKeepsTicking ==
  []<>(\/ ~has_started \/ over \/ looping
       \/ \E t \in Threads : pc[t] = "failed" /\ job[t] = "tick"
       \/ \E t \in Threads : Handling(t) /\ job[t] = "tick")

(* A request that has reached the strand is answered, or loses its         *)
(* connection by an exception, unless the server stops first: requests     *)
(* still waiting then are dropped.                                         *)
RequestsEnd ==
  \A c \in Conns : conn[c] = "queued" ~> (conn[c] # "queued" \/ over \/ looping)

(* "On receiving them we end the server" (main.cpp:75): also when the main *)
(* thread has failed before and joins threads that still serve.            *)
ShutdownEnds == signals = "come" ~> (process # "up" \/ looping)
=============================================================================
