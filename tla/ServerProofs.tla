---------------------------- MODULE ServerProofs ----------------------------
(***************************************************************************)
(* Proofs about Server, for any number of threads and connections.         *)
(***************************************************************************)
EXTENDS Server, FiniteSetTheorems, TLAPS

-----------------------------------------------------------------------------
(* The types. *)

LEMMA TypeOKInit == Init => TypeOK
<1> SUFFICES ASSUME Init PROVE TypeOK  OBVIOUS
<1>1. pc \in [Threads -> PC] /\ job \in [Threads -> Job]  BY DEF Init, PC, Job
<1>2. ready \in Seq(Job) /\ waiting \in Seq(Job)  BY DEF Init
<1>3. conn \in [Conns -> {"closed", "reading", "queued", "writing"}]  BY DEF Init
<1>4. game \in [1..2 -> 0..1] /\ snapshot \in [1..2 -> 0..1]  BY DEF Init
<1> QED  BY <1>1, <1>2, <1>3, <1>4 DEF Init, TypeOK

LEMMA GotoType ==
  ASSUME TypeOK, NEW t \in Threads, NEW p \in PC, Goto(t, p)
  PROVE  pc' \in [Threads -> PC]
BY DEF TypeOK, Goto

LEMMA ThrowType ==
  ASSUME TypeOK, NEW t \in Threads, Throw(t)
  PROVE  /\ pc' \in [Threads -> PC]
         /\ process' \in {"up", "terminated", "exit_success", "exit_failure"}
<1>1. pc' \in [Threads -> PC]  BY GotoType DEF Throw, PC
<1> QED  BY <1>1 DEF TypeOK, Throw

StrandTyped ==
  /\ ready \in Seq(Job) /\ waiting \in Seq(Job)
  /\ invoker \in {"none", "posted", "running"}

LEMMA LeaveStrandType ==
  ASSUME TypeOK, LeaveStrand
  PROVE  StrandTyped'
<1>1. ready \o waiting \in Seq(Job) /\ <<>> \in Seq(Job)  BY DEF TypeOK
<1> QED  BY <1>1 DEF LeaveStrand, StrandTyped

LEMMA ScheduleType ==
  ASSUME TypeOK, ScheduleTick
  PROVE  timer' \in BOOLEAN /\ StrandTyped'
<1>1. Append(waiting, "tick") \in Seq(Job)  BY DEF TypeOK, Job
<1> QED  BY <1>1 DEF TypeOK, ScheduleTick, StrandTyped

LEMMA ContinueType ==
  ASSUME TypeOK, NEW t \in Threads, Continue(t)
  PROVE  TypeOK'
<1>1. CASE DispatchJob(t)
  <2>1. Append(waiting, job[t]) \in Seq(Job)  BY DEF TypeOK
  <2>2. StrandTyped'  BY <1>1, <2>1 DEF DispatchJob, Dispatch, TypeOK, StrandTyped
  <2>3. pc' \in [Threads -> PC]  BY <1>1, GotoType DEF DispatchJob, Dispatch, PC
  <2> QED  BY <1>1, <2>2, <2>3 DEF TypeOK, DispatchJob, sources, shutdown, StrandTyped
<1>2. CASE NextHandler(t)
  <2>1. ready \in Seq(Job) /\ ready # <<>>  BY <1>2 DEF NextHandler, TypeOK
  <2>2. Head(ready) \in Job /\ Tail(ready) \in Seq(Job)  BY <2>1
  <2>3. job' \in [Threads -> Job]  BY <1>2, <2>2 DEF NextHandler, TypeOK
  <2>4. pc' \in [Threads -> PC]  BY <1>2, GotoType DEF NextHandler, PC
  <2> QED  BY <1>2, <2>2, <2>3, <2>4 DEF TypeOK, NextHandler, sources, shutdown
<1>3. CASE InvokerEnds(t)
  <2>1. pc' \in [Threads -> PC]  BY <1>3, GotoType DEF InvokerEnds, PC
  <2>2. StrandTyped'  BY <1>3, LeaveStrandType DEF InvokerEnds
  <2> QED  BY <1>3, <2>1, <2>2 DEF TypeOK, InvokerEnds, sources, shutdown, StrandTyped
<1>4. CASE ChangeFirst(t)
  <2>1. pc' \in [Threads -> PC]  BY <1>4, GotoType DEF ChangeFirst, PC
  <2> QED  BY <1>4, <2>1 DEF TypeOK, ChangeFirst, strand, sources, shutdown
<1>5. CASE ChangeSecond(t)
  <2>1. timer' \in BOOLEAN /\ StrandTyped'
    BY <1>5, ScheduleType DEF ChangeSecond, NextTick, Start, strand, TypeOK, StrandTyped
  <2>2. conn' \in [Conns -> {"closed", "reading", "queued", "writing"}]
    BY <1>5 DEF ChangeSecond, send, TypeOK
  <2>3. game' \in [1..2 -> 0..1]  BY <1>5 DEF ChangeSecond, TypeOK
  <2>4. pc' \in [Threads -> PC]  BY <1>5, GotoType DEF ChangeSecond, PC
  <2>5. has_started' \in BOOLEAN  BY <1>5 DEF ChangeSecond, TypeOK
  <2>6. UNCHANGED <<job, accepting, signals, stopped, snapshot, process>>
    BY <1>5 DEF ChangeSecond, shutdown
  <2> QED  BY <2>1, <2>2, <2>3, <2>4, <2>5, <2>6 DEF TypeOK, StrandTyped
<1>6. CASE HandlerThrows(t)
  <2>1. /\ pc' \in [Threads -> PC]
        /\ process' \in {"up", "terminated", "exit_success", "exit_failure"}
    BY <1>6, ThrowType DEF HandlerThrows
  <2>2. StrandTyped'  BY <1>6, LeaveStrandType DEF HandlerThrows
  <2>3. conn' \in [Conns -> {"closed", "reading", "queued", "writing"}]
    BY <1>6 DEF HandlerThrows, TypeOK
  <2> QED  BY <1>6, <2>1, <2>2, <2>3 DEF TypeOK, HandlerThrows, sources, shutdown, StrandTyped
<1>7. CASE HandlerLoops(t)
  <2>1. pc' \in [Threads -> PC]  BY <1>7, GotoType DEF HandlerLoops, PC
  <2> QED  BY <1>7, <2>1 DEF TypeOK, HandlerLoops, strand, sources, shutdown
<1>8. CASE CopyFirst(t)
  <2>1. pc' \in [Threads -> PC]  BY <1>8, GotoType DEF CopyFirst, PC
  <2>2. snapshot' \in [1..2 -> 0..1]  BY <1>8 DEF CopyFirst, TypeOK
  <2> QED  BY <1>8, <2>1, <2>2 DEF TypeOK, CopyFirst, strand, sources, shutdown
<1>9. CASE CopySecond(t)
  <2>1. /\ pc' \in [Threads -> PC]
        /\ process' \in {"up", "terminated", "exit_success", "exit_failure"}
    BY <1>9, ThrowType, GotoType DEF CopySecond, PC
  <2>2. snapshot' \in [1..2 -> 0..1]  BY <1>9 DEF CopySecond, TypeOK
  <2> QED  BY <1>9, <2>1, <2>2 DEF TypeOK, CopySecond, strand, sources, shutdown
<1>10. CASE LeaveRun(t)
  <2>1. pc' \in [Threads -> PC]  BY <1>10, GotoType DEF LeaveRun, PC
  <2> QED  BY <1>10, <2>1 DEF TypeOK, LeaveRun, strand, sources, shutdown
<1> QED  BY <1>1, <1>2, <1>3, <1>4, <1>5, <1>6, <1>7, <1>8, <1>9, <1>10 DEF Continue

LEMMA OnReadType ==
  ASSUME TypeOK, NEW t \in Threads, NEW c \in Conns, OnRead(t, c)
  PROVE  TypeOK'
<1>1. /\ pc' \in [Threads -> PC]
      /\ process' \in {"up", "terminated", "exit_success", "exit_failure"}
  BY ThrowType, GotoType DEF OnRead, TypeOK, PC
<1>2. job' \in [Threads -> Job]  BY DEF OnRead, TypeOK, Job
<1>3. conn' \in [Conns -> {"closed", "reading", "queued", "writing"}]  BY DEF OnRead, TypeOK
<1>4. UNCHANGED <<ready, waiting, invoker, accepting, timer, has_started, signals, stopped,
                  game, snapshot>>
  BY DEF OnRead, strand, sources, shutdown
<1> QED  BY <1>1, <1>2, <1>3, <1>4 DEF TypeOK

LEMMA TypeOKNext == TypeOK /\ [Next]_vars => TypeOK'
<1> SUFFICES ASSUME TypeOK, [Next]_vars PROVE TypeOK'  OBVIOUS
<1> USE DEF strand, sources, shutdown
<1>1. ASSUME NEW t \in Threads, Continue(t) PROVE TypeOK'  BY <1>1, ContinueType
<1>2. ASSUME NEW t \in Threads, RunStrand(t) PROVE TypeOK'
  <2>1. pc' \in [Threads -> PC]  BY <1>2, GotoType DEF RunStrand, PC
  <2> QED  BY <1>2, <2>1 DEF TypeOK, RunStrand
<1>3. ASSUME NEW t \in Threads, TimerExpires(t) PROVE TypeOK'
  <2>1. pc' \in [Threads -> PC]  BY <1>3, GotoType DEF TimerExpires, PC
  <2>2. job' \in [Threads -> Job]  BY <1>3 DEF TimerExpires, TypeOK, Job
  <2> QED  BY <1>3, <2>1, <2>2 DEF TypeOK, TimerExpires
<1>4. ASSUME NEW t \in Threads, HandleSignal(t) PROVE TypeOK'
  <2>1. pc' \in [Threads -> PC]  BY <1>4, GotoType DEF HandleSignal, SignalTaken, PC
  <2> QED  BY <1>4, <2>1 DEF TypeOK, HandleSignal, SignalTaken
<1>5. ASSUME NEW c \in Conns, OnAccept(c) PROVE TypeOK'  BY <1>5 DEF TypeOK, OnAccept
<1>6. ASSUME NEW c \in Conns, OnWrite(c) PROVE TypeOK'  BY <1>6 DEF TypeOK, OnWrite
<1>7. ASSUME NEW c \in Conns, NEW t \in Threads, OnRead(t, c) PROVE TypeOK'
  BY <1>7, OnReadType
<1>8. CASE Signal  BY <1>8 DEF TypeOK, Signal
<1>9. CASE Exit  BY <1>9 DEF TypeOK, Exit
<1>10. CASE UNCHANGED vars  BY <1>10 DEF TypeOK, vars
<1> QED  BY <1>1, <1>2, <1>3, <1>4, <1>5, <1>6, <1>7, <1>8, <1>9, <1>10 DEF Next

(* TypeOK, for any number of threads and connections. *)
THEOREM ServerTypes == Spec => []TypeOK
BY TypeOKInit, TypeOKNext, PTL DEF Spec

-----------------------------------------------------------------------------
(* One thread is the strand's invoker, and then no other becomes it. *)

Invoking(t) == pc[t] \in {"first", "second", "loop", "next"}
OneInvoker ==
  /\ \A t, u \in Threads : Invoking(t) /\ Invoking(u) => t = u
  /\ \A t \in Threads : Invoking(t) => invoker = "running"

(* A thread that is no invoker goes anywhere but into the strand. *)
LEMMA StaysOutside ==
  ASSUME TypeOK, OneInvoker, NEW t \in Threads, NEW p, Goto(t, p),
         p \in {"first", "second", "loop", "next"} => Invoking(t), invoker' = invoker
  PROVE  OneInvoker'
<1>1. \A u \in Threads : pc'[u] = IF u = t THEN p ELSE pc[u]  BY DEF Goto, TypeOK
<1>2. \A u \in Threads : Invoking(u)' => Invoking(u)  BY <1>1 DEF Invoking
<1> QED  BY <1>2 DEF OneInvoker

(* A thread becomes the invoker of a strand that is not running. *)
LEMMA BecomesInvoker ==
  ASSUME TypeOK, OneInvoker, NEW t \in Threads, NEW p, Goto(t, p),
         invoker # "running", invoker' = "running"
  PROVE  OneInvoker'
<1>1. \A u \in Threads : pc'[u] = IF u = t THEN p ELSE pc[u]  BY DEF Goto, TypeOK
<1>2. \A u \in Threads : ~Invoking(u)  BY DEF OneInvoker
<1>3. \A u \in Threads : Invoking(u)' => u = t  BY <1>1, <1>2 DEF Invoking
<1> QED  BY <1>3 DEF OneInvoker

(* The invoker leaves the strand, by its end or by an exception. *)
LEMMA LeavesStrand ==
  ASSUME TypeOK, OneInvoker, NEW t \in Threads, Invoking(t), NEW p, Goto(t, p),
         p \notin {"first", "second", "loop", "next"}
  PROVE  OneInvoker'
<1>1. \A u \in Threads : pc'[u] = IF u = t THEN p ELSE pc[u]  BY DEF Goto, TypeOK
<1>2. \A u \in Threads : ~Invoking(u)'  BY <1>1 DEF OneInvoker, Invoking
<1> QED  BY <1>2 DEF OneInvoker

LEMMA SamePlaces ==
  ASSUME OneInvoker, pc' = pc, invoker' = invoker
  PROVE  OneInvoker'
BY DEF OneInvoker, Invoking

LEMMA OneInvokerNext == TypeOK /\ OneInvoker /\ [Next]_vars => OneInvoker'
<1> SUFFICES ASSUME TypeOK, OneInvoker, [Next]_vars PROVE OneInvoker'  OBVIOUS
<1> USE DEF strand
<1>1. ASSUME NEW t \in Threads, Continue(t) PROVE OneInvoker'
  <2>1. CASE DispatchJob(t)
    <3>1. CASE invoker = "none"
      BY <2>1, <3>1, BecomesInvoker DEF DispatchJob, Dispatch
    <3>2. CASE invoker # "none"
      <4>1. Goto(t, "run") /\ invoker' = invoker  BY <2>1, <3>2 DEF DispatchJob, Dispatch
      <4> QED  BY <4>1, StaysOutside
    <3> QED  BY <3>1, <3>2
  <2>2. CASE NextHandler(t)
    <3>1. Goto(t, "first") /\ invoker' = invoker /\ Invoking(t)
      BY <2>2 DEF NextHandler, At, Invoking
    <3> QED  BY <3>1, StaysOutside
  <2>3. CASE InvokerEnds(t)
    <3>1. Goto(t, "run") /\ Invoking(t)  BY <2>3 DEF InvokerEnds, At, Invoking
    <3> QED  BY <3>1, LeavesStrand
  <2>4. CASE ChangeFirst(t)
    <3>1. Goto(t, "second") /\ invoker' = invoker /\ Invoking(t)
      BY <2>4 DEF ChangeFirst, At, Invoking
    <3> QED  BY <3>1, StaysOutside
  <2>5. CASE ChangeSecond(t)
    <3>1. Goto(t, "next") /\ Invoking(t)  BY <2>5 DEF ChangeSecond, At, Invoking
    <3>2. invoker' = invoker  BY <2>5 DEF ChangeSecond, NextTick, Start, ScheduleTick
    <3> QED  BY <3>1, <3>2, StaysOutside
  <2>6. CASE HandlerThrows(t)
    <3>1. Goto(t, "failed") /\ Invoking(t)  BY <2>6 DEF HandlerThrows, Throw, At, Invoking
    <3> QED  BY <3>1, LeavesStrand
  <2>7. CASE HandlerLoops(t)
    <3>1. Goto(t, "loop") /\ invoker' = invoker /\ Invoking(t)
      BY <2>7 DEF HandlerLoops, At, Invoking
    <3> QED  BY <3>1, StaysOutside
  <2>8. CASE CopyFirst(t)
    <3>1. PICK p \in {"run", "copy2"} : Goto(t, p)  BY <2>8 DEF CopyFirst
    <3>2. invoker' = invoker  BY <2>8 DEF CopyFirst
    <3> QED  BY <3>1, <3>2, StaysOutside
  <2>9. CASE CopySecond(t)
    <3>1. Goto(t, "failed") /\ invoker' = invoker  BY <2>9 DEF CopySecond, Throw
    <3> QED  BY <3>1, StaysOutside
  <2>10. CASE LeaveRun(t)
    <3>1. Goto(t, "left") /\ invoker' = invoker  BY <2>10 DEF LeaveRun
    <3> QED  BY <3>1, StaysOutside
  <2> QED  BY <1>1, <2>1, <2>2, <2>3, <2>4, <2>5, <2>6, <2>7, <2>8, <2>9, <2>10 DEF Continue
<1>2. ASSUME NEW t \in Threads, RunStrand(t) PROVE OneInvoker'
  BY <1>2, BecomesInvoker DEF RunStrand
<1>3. ASSUME NEW t \in Threads, TimerExpires(t) PROVE OneInvoker'
  <2>1. Goto(t, "dispatch") /\ invoker' = invoker  BY <1>3 DEF TimerExpires
  <2> QED  BY <2>1, StaysOutside
<1>4. ASSUME NEW t \in Threads, HandleSignal(t) PROVE OneInvoker'
  <2>1. Goto(t, "copy1") /\ invoker' = invoker  BY <1>4 DEF HandleSignal, SignalTaken
  <2> QED  BY <2>1, StaysOutside
<1>5. ASSUME NEW c \in Conns, OnAccept(c) PROVE OneInvoker'  BY <1>5, SamePlaces DEF OnAccept
<1>6. ASSUME NEW c \in Conns, OnWrite(c) PROVE OneInvoker'  BY <1>6, SamePlaces DEF OnWrite
<1>7. ASSUME NEW c \in Conns, NEW t \in Threads, OnRead(t, c) PROVE OneInvoker'
  <2>1. invoker' = invoker  BY <1>7 DEF OnRead
  <2>2. pc' = pc \/ Goto(t, "dispatch") \/ Goto(t, "failed")  BY <1>7 DEF OnRead, Throw
  <2>3. CASE pc' = pc  BY <2>1, <2>3, SamePlaces
  <2>4. CASE Goto(t, "dispatch")  BY <2>1, <2>4, StaysOutside
  <2>5. CASE Goto(t, "failed")  BY <2>1, <2>5, StaysOutside
  <2> QED  BY <2>2, <2>3, <2>4, <2>5
<1>8. CASE Signal  BY <1>8, SamePlaces DEF Signal
<1>9. CASE Exit  BY <1>9, SamePlaces DEF Exit
<1>10. CASE UNCHANGED vars  BY <1>10, SamePlaces DEF vars
<1> QED  BY <1>1, <1>2, <1>3, <1>4, <1>5, <1>6, <1>7, <1>8, <1>9, <1>10 DEF Next

LEMMA OneInvokerAlways == Spec => [](TypeOK /\ OneInvoker)
<1>1. Init => TypeOK /\ OneInvoker
  BY TypeOKInit DEF Init, OneInvoker, Invoking
<1>2. TypeOK /\ OneInvoker /\ [Next]_vars => (TypeOK /\ OneInvoker)'
  BY TypeOKNext, OneInvokerNext
<1> QED  BY <1>1, <1>2, PTL DEF Spec

(* HandlersNeverOverlap, for any number of threads: a thread comes into    *)
(* the strand only when it has no running invoker, and it leaves it before *)
(* another is posted, whether its handler ends or throws.                  *)
THEOREM GameHasOneHandler == Spec => []HandlersNeverOverlap
<1>1. OneInvoker => HandlersNeverOverlap
  BY DEF OneInvoker, HandlersNeverOverlap, Handling, Invoking
<1> QED  BY <1>1, OneInvokerAlways, PTL

-----------------------------------------------------------------------------
(* Where the tick is. *)

Has(q) == \E i \in DOMAIN q : q[i] = "tick"
AtMostOne(q) == \A i, j \in DOMAIN q : q[i] = "tick" /\ q[j] = "tick" => i = j

Ticking(t) == pc[t] \in {"dispatch", "first", "second"} /\ job[t] = "tick"
Running == \E t \in Threads : Ticking(t)
OneTicking == \A t, u \in Threads : Ticking(t) /\ Ticking(u) => t = u

(* The tick is in one place at most, and in none before the first join. *)
OneOf(a, b, c, d) ==
  ~(a /\ b) /\ ~(a /\ c) /\ ~(a /\ d) /\ ~(b /\ c) /\ ~(b /\ d) /\ ~(c /\ d)
OnePlace == OneOf(Has(ready), Has(waiting), Running, timer)
NoTick == ~Has(ready) /\ ~Has(waiting) /\ ~Running /\ ~timer
TickPlaces ==
  /\ AtMostOne(ready) /\ AtMostOne(waiting) /\ OneTicking
  /\ OnePlace
  /\ ~has_started => NoTick

-----------------------------------------------------------------------------
(* Queues with one tick at most. *)

LEMMA AppendJob ==
  ASSUME NEW q \in Seq(Job), NEW x \in Job
  PROVE  /\ Has(Append(q, x)) <=> Has(q) \/ x = "tick"
         /\ AtMostOne(q) /\ ~(Has(q) /\ x = "tick") => AtMostOne(Append(q, x))
<1> DEFINE r == Append(q, x)
           n == Len(q)
<1>1. /\ DOMAIN q = 1..n /\ DOMAIN r = 1..(n + 1) /\ n \in Nat
      /\ \A i \in 1..n : r[i] = q[i]
      /\ r[n + 1] = x
  OBVIOUS
<1> HIDE DEF r, n
<1>2. Has(r) <=> Has(q) \/ x = "tick"  BY <1>1 DEF Has
<1>3. AtMostOne(q) /\ ~(Has(q) /\ x = "tick") => AtMostOne(r)
  <2> SUFFICES ASSUME AtMostOne(q), ~(Has(q) /\ x = "tick"),
                      NEW i \in 1..(n + 1), NEW j \in 1..(n + 1), r[i] = "tick", r[j] = "tick"
               PROVE  i = j
    BY <1>1 DEF AtMostOne
  <2> QED  BY <1>1 DEF AtMostOne, Has
<1> QED  BY <1>2, <1>3 DEF r

LEMMA TakeHead ==
  ASSUME NEW q \in Seq(Job), q # <<>>
  PROVE  /\ Has(q) <=> Head(q) = "tick" \/ Has(Tail(q))
         /\ AtMostOne(q) => AtMostOne(Tail(q)) /\ ~(Head(q) = "tick" /\ Has(Tail(q)))
<1> DEFINE r == Tail(q)
           n == Len(q)
<1>1. /\ DOMAIN q = 1..n /\ DOMAIN r = 1..(n - 1) /\ n \in Nat /\ n > 0
      /\ \A i \in 1..(n - 1) : r[i] = q[i + 1]
      /\ Head(q) = q[1]
  OBVIOUS
<1> HIDE DEF r, n
<1>2. Has(q) <=> q[1] = "tick" \/ Has(r)
  <2>1. ASSUME NEW i \in 1..n, q[i] = "tick", i # 1 PROVE Has(r)
    <3>1. i - 1 \in 1..(n - 1) /\ r[i - 1] = q[i]  BY <1>1, <2>1
    <3> QED  BY <3>1, <2>1, <1>1 DEF Has
  <2>2. ASSUME NEW i \in 1..(n - 1), r[i] = "tick" PROVE Has(q)
    <3>1. i + 1 \in 1..n /\ r[i] = q[i + 1]  BY <1>1
    <3> QED  BY <3>1, <2>2, <1>1 DEF Has
  <2>3. 1 \in DOMAIN q  BY <1>1
  <2> QED  BY <1>1, <2>1, <2>2, <2>3 DEF Has
<1>3. ASSUME AtMostOne(q) PROVE AtMostOne(r)
  <2> SUFFICES ASSUME NEW i \in 1..(n - 1), NEW j \in 1..(n - 1), r[i] = "tick", r[j] = "tick"
               PROVE  i = j
    BY <1>1 DEF AtMostOne
  <2>1. i + 1 \in 1..n /\ j + 1 \in 1..n /\ q[i + 1] = "tick" /\ q[j + 1] = "tick"  BY <1>1
  <2>2. i + 1 = j + 1  BY <1>1, <1>3, <2>1 DEF AtMostOne
  <2> QED  BY <2>2
<1>4. ASSUME AtMostOne(q), q[1] = "tick", NEW i \in 1..(n - 1), r[i] = "tick" PROVE FALSE
  <2>1. i + 1 \in 1..n /\ 1 \in 1..n /\ q[i + 1] = "tick"  BY <1>1, <1>4
  <2>2. i + 1 = 1  BY <1>1, <1>4, <2>1 DEF AtMostOne
  <2> QED  BY <2>2
<1> QED  BY <1>1, <1>2, <1>3, <1>4 DEF r, Has

LEMMA JoinQueues ==
  ASSUME NEW q \in Seq(Job), NEW r \in Seq(Job)
  PROVE  /\ Has(q \o r) <=> Has(q) \/ Has(r)
         /\ AtMostOne(q) /\ AtMostOne(r) /\ ~(Has(q) /\ Has(r)) => AtMostOne(q \o r)
<1> DEFINE s == q \o r
           m == Len(q)
           n == Len(r)
<1>1. /\ DOMAIN q = 1..m /\ DOMAIN r = 1..n /\ DOMAIN s = 1..(m + n) /\ m \in Nat /\ n \in Nat
      /\ \A i \in 1..m : s[i] = q[i]
      /\ \A i \in (m + 1)..(m + n) : s[i] = r[i - m]
  OBVIOUS
<1> HIDE DEF s, m, n
<1>2. ASSUME NEW i \in 1..(m + n)
      PROVE  \/ i \in 1..m /\ s[i] = q[i]
             \/ i - m \in 1..n /\ s[i] = r[i - m]
  BY <1>1
<1>3. ASSUME NEW i \in 1..n PROVE i + m \in 1..(m + n) /\ s[i + m] = r[i]
  <2>1. i + m \in (m + 1)..(m + n) /\ (i + m) - m = i  BY <1>1
  <2> QED  BY <1>1, <2>1
<1>4. Has(s) <=> Has(q) \/ Has(r)
  <2>1. Has(s) => Has(q) \/ Has(r)  BY <1>1, <1>2 DEF Has
  <2>2. Has(q) => Has(s)
    <3>1. \A i \in 1..m : i \in 1..(m + n)  BY <1>1
    <3> QED  BY <1>1, <3>1 DEF Has
  <2>3. Has(r) => Has(s)  BY <1>1, <1>3 DEF Has
  <2> QED  BY <2>1, <2>2, <2>3
<1>5. ASSUME AtMostOne(q), AtMostOne(r), ~(Has(q) /\ Has(r)) PROVE AtMostOne(s)
  <2> SUFFICES ASSUME NEW i \in 1..(m + n), NEW j \in 1..(m + n), s[i] = "tick", s[j] = "tick"
               PROVE  i = j
    BY <1>1 DEF AtMostOne
  <2>1. CASE i \in 1..m /\ j \in 1..m  BY <1>1, <1>5, <2>1 DEF AtMostOne
  <2>2. CASE i - m \in 1..n /\ j - m \in 1..n /\ s[i] = r[i - m] /\ s[j] = r[j - m]
    <3>1. i - m = j - m  BY <1>1, <1>5, <2>2 DEF AtMostOne
    <3> QED  BY <3>1, <1>1
  <2>3. ASSUME NEW k \in 1..m, NEW l \in 1..n, q[k] = "tick", r[l] = "tick" PROVE FALSE
    BY <1>1, <1>5, <2>3 DEF Has
  <2> QED  BY <1>1, <1>2, <2>1, <2>2, <2>3
<1> QED  BY <1>4, <1>5 DEF s

-----------------------------------------------------------------------------
(* The tick on the threads. *)

LEMMA ThreadGoes ==
  ASSUME TypeOK, OneTicking, NEW t \in Threads, NEW p,
         Goto(t, p), \A u \in Threads \ {t} : job'[u] = job[u]
  PROVE  /\ (Ticking(t)' <=> Ticking(t)) => OneTicking' /\ (Running' <=> Running)
         /\ ~Running => OneTicking' /\ (Running' <=> Ticking(t)')
         /\ Ticking(t) /\ ~Ticking(t)' => OneTicking' /\ ~Running'
<1>1. \A u \in Threads \ {t} : Ticking(u)' <=> Ticking(u)
  BY DEF Goto, TypeOK, Ticking
<1> QED  BY <1>1 DEF OneTicking, Running

LEMMA ThreadsStay ==
  ASSUME OneTicking, pc' = pc, job' = job
  PROVE  OneTicking' /\ (Running' <=> Running)
BY DEF OneTicking, Running, Ticking

-----------------------------------------------------------------------------
(* The tick stays, or goes from one place to another. *)

LEMMA TickStays ==
  ASSUME TickPlaces, UNCHANGED <<ready, waiting, timer, has_started>>,
         OneTicking', Running' <=> Running
  PROVE  TickPlaces'
BY DEF TickPlaces, OnePlace, OneOf, NoTick, Has, AtMostOne

(* A thread goes on with what it has, the queues and the timer as they are. *)
LEMMA ThreadKeeps ==
  ASSUME TypeOK, TickPlaces, NEW t \in Threads, NEW p, Goto(t, p), job' = job,
         UNCHANGED <<ready, waiting, timer, has_started>>, Ticking(t)' <=> Ticking(t)
  PROVE  TickPlaces'
<1>1. OneTicking' /\ (Running' <=> Running)  BY ThreadGoes DEF TickPlaces
<1> QED  BY <1>1, TickStays

LEMMA DispatchTick ==
  ASSUME TypeOK, TickPlaces, NEW t \in Threads, DispatchJob(t)
  PROVE  TickPlaces'
<1>1. At(t, "dispatch") /\ UNCHANGED <<job, timer, has_started>>  BY DEF DispatchJob, sources
<1>2. CASE invoker = "none"
  <2>1. Goto(t, "first") /\ UNCHANGED <<ready, waiting>>  BY <1>2 DEF DispatchJob, Dispatch
  <2>2. Ticking(t)' <=> Ticking(t)  BY <1>1, <2>1 DEF Ticking, At, Goto, TypeOK
  <2> QED  BY <1>1, <2>1, <2>2, ThreadKeeps
<1>3. CASE invoker # "none"
  <2>1. Goto(t, "run") /\ waiting' = Append(waiting, job[t]) /\ ready' = ready
    BY <1>3 DEF DispatchJob, Dispatch
  <2>2. ~Ticking(t)' /\ (Ticking(t) <=> job[t] = "tick")
    BY <1>1, <2>1 DEF Ticking, At, Goto, TypeOK
  <2>3. /\ Has(waiting') <=> Has(waiting) \/ job[t] = "tick"
        /\ AtMostOne(waiting) /\ ~(Has(waiting) /\ job[t] = "tick") => AtMostOne(waiting')
    BY <2>1, AppendJob DEF TypeOK
  <2>4. OneTicking /\ \A u \in Threads \ {t} : job'[u] = job[u]  BY <1>1 DEF TickPlaces
  <2>5. Has(ready') <=> Has(ready)  BY <2>1
  <2>6. AtMostOne(ready) => AtMostOne(ready')  BY <2>1
  <2>7. CASE job[t] = "tick"
    <3>1. OneTicking' /\ ~Running'  BY <2>1, <2>2, <2>4, <2>7, ThreadGoes
    <3>2. Running  BY <2>2, <2>7 DEF Running
    <3> QED  BY <1>1, <2>3, <2>5, <2>6, <3>1, <3>2 DEF TickPlaces, OnePlace, OneOf, NoTick
  <2>8. CASE job[t] # "tick"
    <3>1. OneTicking' /\ (Running' <=> Running)  BY <2>1, <2>2, <2>4, <2>8, ThreadGoes
    <3> QED  BY <1>1, <2>3, <2>5, <2>6, <2>8, <3>1 DEF TickPlaces, OnePlace, OneOf, NoTick
  <2> QED  BY <2>7, <2>8
<1> QED  BY <1>2, <1>3

LEMMA TakeTick ==
  ASSUME TypeOK, TickPlaces, NEW t \in Threads, NextHandler(t)
  PROVE  TickPlaces'
<1>1. /\ At(t, "next") /\ ready # <<>>
      /\ job' = [job EXCEPT ![t] = Head(ready)] /\ ready' = Tail(ready)
      /\ Goto(t, "first") /\ UNCHANGED <<waiting, timer, has_started>>
  BY DEF NextHandler, sources
<1>2. /\ Has(ready) <=> Head(ready) = "tick" \/ Has(ready')
      /\ AtMostOne(ready') /\ ~(Head(ready) = "tick" /\ Has(ready'))
  BY <1>1, TakeHead DEF TypeOK, TickPlaces
<1>3. ~Ticking(t) /\ (Ticking(t)' <=> Head(ready) = "tick")
  BY <1>1 DEF Ticking, At, Goto, TypeOK
<1>4. OneTicking /\ \A u \in Threads \ {t} : job'[u] = job[u]
  BY <1>1 DEF TickPlaces, TypeOK
<1>5. (Has(waiting') <=> Has(waiting)) /\ AtMostOne(waiting')  BY <1>1 DEF TickPlaces
<1>6. CASE Head(ready) = "tick"
  <2>1. Has(ready) /\ ~Running  BY <1>2, <1>6 DEF TickPlaces, OnePlace, OneOf
  <2>2. OneTicking' /\ Running'  BY <1>1, <1>3, <1>4, <1>6, <2>1, ThreadGoes
  <2> QED  BY <1>1, <1>2, <1>5, <1>6, <2>1, <2>2 DEF TickPlaces, OnePlace, OneOf, NoTick
<1>7. CASE Head(ready) # "tick"
  <2>1. OneTicking' /\ (Running' <=> Running)  BY <1>1, <1>3, <1>4, <1>7, ThreadGoes
  <2> QED  BY <1>1, <1>2, <1>5, <1>7, <2>1 DEF TickPlaces, OnePlace, OneOf, NoTick
<1> QED  BY <1>6, <1>7

(* The queues are joined; a tick that throws is gone. *)
LEMMA LeaveWithTick ==
  ASSUME TypeOK, TickPlaces, LeaveStrand, UNCHANGED <<timer, has_started>>,
         OneTicking', Running' => Running
  PROVE  TickPlaces'
<1>1. ready' = ready \o waiting /\ waiting' = <<>>  BY DEF LeaveStrand
<1>2. AtMostOne(ready) /\ AtMostOne(waiting) /\ ~(Has(ready) /\ Has(waiting))
  BY DEF TickPlaces, OnePlace, OneOf
<1>3. (Has(ready') <=> Has(ready) \/ Has(waiting)) /\ AtMostOne(ready')
  BY <1>1, <1>2, JoinQueues DEF TypeOK
<1>4. ~Has(waiting') /\ AtMostOne(waiting')  BY <1>1 DEF Has, AtMostOne
<1> QED  BY <1>3, <1>4 DEF TickPlaces, OnePlace, OneOf, NoTick

LEMMA EndTick ==
  ASSUME TypeOK, TickPlaces, NEW t \in Threads, ChangeSecond(t)
  PROVE  TickPlaces'
<1>1. At(t, "second") /\ Goto(t, "next") /\ job' = job  BY DEF ChangeSecond
<1>2. ~Ticking(t)' /\ (Ticking(t) <=> job[t] = "tick")
  BY <1>1 DEF Ticking, At, Goto, TypeOK
<1>3. OneTicking /\ \A u \in Threads \ {t} : job'[u] = job[u]  BY <1>1 DEF TickPlaces
<1>4. CASE job[t] = "tick"
  <2>1. Running  BY <1>2, <1>4 DEF Running
  <2>2. ~timer /\ ~Has(ready) /\ ~Has(waiting) /\ has_started
    BY <2>1 DEF TickPlaces, OnePlace, OneOf, NoTick
  <2>3. timer' /\ UNCHANGED <<ready, waiting, has_started>>
    BY <1>4, <2>2 DEF ChangeSecond, NextTick, ScheduleTick, TypeOK
  <2>4. OneTicking' /\ ~Running'  BY <1>1, <1>2, <1>3, <1>4, ThreadGoes
  <2>5. ~Has(ready') /\ ~Has(waiting') /\ AtMostOne(ready') /\ AtMostOne(waiting') /\ has_started'
    BY <2>2, <2>3 DEF TickPlaces
  <2> QED  BY <2>4, <2>5 DEF TickPlaces, OnePlace, OneOf
<1>5. CASE job[t] # "tick"
  <2>1. OneTicking' /\ (Running' <=> Running)  BY <1>1, <1>2, <1>3, <1>5, ThreadGoes
  <2>2. CASE Start /\ has_started'
    <3>1. NoTick  BY <2>2 DEF Start, TickPlaces
    <3>2. UNCHANGED <<ready, waiting>>  BY <2>2, <3>1 DEF Start, ScheduleTick, NoTick
    <3>3. ~Has(ready') /\ ~Has(waiting') /\ AtMostOne(ready') /\ AtMostOne(waiting')
      BY <3>1, <3>2 DEF NoTick, TickPlaces
    <3> QED  BY <2>1, <2>2, <3>1, <3>3 DEF TickPlaces, OnePlace, OneOf, NoTick
  <2>3. CASE UNCHANGED <<timer, strand, has_started>>
    BY <2>1, <2>3, TickStays DEF strand
  <2> QED  BY <1>5, <2>2, <2>3 DEF ChangeSecond
<1> QED  BY <1>4, <1>5

LEMMA TimerToThread ==
  ASSUME TypeOK, TickPlaces, NEW t \in Threads, TimerExpires(t)
  PROVE  TickPlaces'
<1>1. /\ pc[t] = "run" /\ timer /\ ~timer'
      /\ Goto(t, "dispatch") /\ job' = [job EXCEPT ![t] = "tick"]
      /\ UNCHANGED <<ready, waiting, has_started>>
  BY DEF TimerExpires, Free, strand
<1>2. Ticking(t)'  BY <1>1 DEF Ticking, Goto, TypeOK
<1>3. OneTicking /\ ~Running /\ ~Has(ready) /\ ~Has(waiting) /\ has_started
  BY <1>1 DEF TickPlaces, OnePlace, OneOf, NoTick
<1>4. \A u \in Threads \ {t} : job'[u] = job[u]  BY <1>1 DEF TypeOK
<1>5. OneTicking' /\ Running'  BY <1>1, <1>2, <1>3, <1>4, ThreadGoes
<1>6. ~Has(ready') /\ ~Has(waiting') /\ AtMostOne(ready') /\ AtMostOne(waiting') /\ has_started'
  BY <1>1, <1>3 DEF TickPlaces
<1> QED  BY <1>1, <1>5, <1>6 DEF TickPlaces, OnePlace, OneOf

LEMMA RequestIsNoTick ==
  ASSUME TypeOK, TickPlaces, NEW c \in Conns, NEW t \in Threads, OnRead(t, c)
  PROVE  TickPlaces'
<1>1. pc[t] = "run" /\ UNCHANGED <<ready, waiting, timer, has_started>>
  BY DEF OnRead, Free, strand, sources
<1>2. CASE pc' = pc /\ job' = job
  <2>1. OneTicking' /\ (Running' <=> Running)  BY <1>2, ThreadsStay DEF TickPlaces
  <2> QED  BY <1>1, <2>1, TickStays
<1>3. CASE (Goto(t, "dispatch") \/ Goto(t, "failed")) /\ job' = [job EXCEPT ![t] = c]
  <2>1. PICK p \in {"dispatch", "failed"} : Goto(t, p)  BY <1>3
  <2>2. job'[t] # "tick" /\ \A u \in Threads \ {t} : job'[u] = job[u]
    BY <1>3, ServerAssumption DEF TypeOK
  <2>3. ~Ticking(t) /\ ~Ticking(t)'  BY <1>1, <2>2 DEF Ticking
  <2>4. OneTicking' /\ (Running' <=> Running)  BY <2>1, <2>2, <2>3, ThreadGoes DEF TickPlaces
  <2> QED  BY <1>1, <2>4, TickStays
<1> QED  BY <1>2, <1>3 DEF OnRead, Throw

LEMMA TickPlacesNext == TypeOK /\ TickPlaces /\ [Next]_vars => TickPlaces'
<1> SUFFICES ASSUME TypeOK, TickPlaces, [Next]_vars PROVE TickPlaces'  OBVIOUS
<1> USE DEF strand, sources
<1>1. ASSUME NEW t \in Threads, Continue(t) PROVE TickPlaces'
  <2>1. CASE DispatchJob(t)  BY <2>1, DispatchTick
  <2>2. CASE NextHandler(t)  BY <2>2, TakeTick
  <2>3. CASE InvokerEnds(t)
    <3>1. At(t, "next") /\ Goto(t, "run") /\ job' = job  BY <2>3 DEF InvokerEnds
    <3>2. Ticking(t)' <=> Ticking(t)  BY <3>1 DEF Ticking, At, Goto, TypeOK
    <3>3. OneTicking' /\ (Running' <=> Running)  BY <3>1, <3>2, ThreadGoes DEF TickPlaces
    <3> QED  BY <2>3, <3>3, LeaveWithTick DEF InvokerEnds
  <2>4. CASE ChangeFirst(t)
    <3>1. At(t, "first") /\ Goto(t, "second") /\ job' = job  BY <2>4 DEF ChangeFirst
    <3>2. Ticking(t)' <=> Ticking(t)  BY <3>1 DEF Ticking, At, Goto, TypeOK
    <3> QED  BY <2>4, <3>1, <3>2, ThreadKeeps DEF ChangeFirst
  <2>5. CASE ChangeSecond(t)  BY <2>5, EndTick
  <2>6. CASE HandlerThrows(t)
    <3>1. Goto(t, "failed") /\ job' = job  BY <2>6 DEF HandlerThrows, Throw
    <3>2. ~Ticking(t)'  BY <3>1 DEF Ticking, Goto, TypeOK
    <3>3. OneTicking' /\ (Running' => Running)  BY <3>1, <3>2, ThreadGoes DEF TickPlaces
    <3> QED  BY <2>6, <3>3, LeaveWithTick DEF HandlerThrows
  <2>7. CASE HandlerLoops(t)
    <3>1. job[t] # "tick" /\ Goto(t, "loop") /\ job' = job
      BY <2>7, ServerAssumption DEF HandlerLoops
    <3>2. Ticking(t)' <=> Ticking(t)  BY <3>1 DEF Ticking
    <3> QED  BY <2>7, <3>1, <3>2, ThreadKeeps DEF HandlerLoops
  <2>8. CASE CopyFirst(t)
    <3>1. PICK p \in {"run", "copy2"} : Goto(t, p)  BY <2>8 DEF CopyFirst
    <3>2. pc[t] = "copy1" /\ job' = job  BY <2>8 DEF CopyFirst, At
    <3>3. Ticking(t)' <=> Ticking(t)  BY <3>1, <3>2 DEF Ticking, Goto, TypeOK
    <3> QED  BY <2>8, <3>1, <3>2, <3>3, ThreadKeeps DEF CopyFirst
  <2>9. CASE CopySecond(t)
    <3>1. pc[t] = "copy2" /\ Goto(t, "failed") /\ job' = job  BY <2>9 DEF CopySecond, Throw, At
    <3>2. Ticking(t)' <=> Ticking(t)  BY <3>1 DEF Ticking, Goto, TypeOK
    <3> QED  BY <2>9, <3>1, <3>2, ThreadKeeps DEF CopySecond
  <2>10. CASE LeaveRun(t)
    <3>1. pc[t] = "run" /\ Goto(t, "left") /\ job' = job  BY <2>10 DEF LeaveRun, At
    <3>2. Ticking(t)' <=> Ticking(t)  BY <3>1 DEF Ticking, Goto, TypeOK
    <3> QED  BY <2>10, <3>1, <3>2, ThreadKeeps DEF LeaveRun
  <2> QED  BY <1>1, <2>1, <2>2, <2>3, <2>4, <2>5, <2>6, <2>7, <2>8, <2>9, <2>10 DEF Continue
<1>2. ASSUME NEW t \in Threads, RunStrand(t) PROVE TickPlaces'
  <2>1. pc[t] = "run" /\ Goto(t, "next") /\ job' = job  BY <1>2 DEF RunStrand, Free
  <2>2. Ticking(t)' <=> Ticking(t)  BY <2>1 DEF Ticking, Goto, TypeOK
  <2> QED  BY <1>2, <2>1, <2>2, ThreadKeeps DEF RunStrand
<1>3. ASSUME NEW t \in Threads, TimerExpires(t) PROVE TickPlaces'  BY <1>3, TimerToThread
<1>4. ASSUME NEW t \in Threads, HandleSignal(t) PROVE TickPlaces'
  <2>1. pc[t] = "run" /\ Goto(t, "copy1") /\ job' = job
    BY <1>4 DEF HandleSignal, SignalTaken, Free
  <2>2. Ticking(t)' <=> Ticking(t)  BY <2>1 DEF Ticking, Goto, TypeOK
  <2> QED  BY <1>4, <2>1, <2>2, ThreadKeeps DEF HandleSignal, SignalTaken
<1>5. ASSUME UNCHANGED <<pc, job, ready, waiting, timer, has_started>> PROVE TickPlaces'
  <2>1. OneTicking' /\ (Running' <=> Running)  BY <1>5, ThreadsStay DEF TickPlaces
  <2> QED  BY <1>5, <2>1, TickStays
<1>6. ASSUME NEW c \in Conns, OnAccept(c) PROVE TickPlaces'  BY <1>5, <1>6 DEF OnAccept
<1>7. ASSUME NEW c \in Conns, OnWrite(c) PROVE TickPlaces'  BY <1>5, <1>7 DEF OnWrite
<1>8. ASSUME NEW c \in Conns, NEW t \in Threads, OnRead(t, c) PROVE TickPlaces'
  BY <1>8, RequestIsNoTick
<1>9. CASE Signal  BY <1>5, <1>9 DEF Signal
<1>10. CASE Exit  BY <1>5, <1>10 DEF Exit
<1>11. CASE UNCHANGED vars  BY <1>5, <1>11 DEF vars
<1> QED  BY <1>1, <1>2, <1>3, <1>4, <1>6, <1>7, <1>8, <1>9, <1>10, <1>11 DEF Next

-----------------------------------------------------------------------------
(* From places to the count. *)

LEMMA CountedTicks ==
  ASSUME NEW q, AtMostOne(q)
  PROVE  TicksIn(q) = IF Has(q) THEN 1 ELSE 0
<1> DEFINE S == {i \in DOMAIN q : q[i] = "tick"}
<1>1. CASE Has(q)
  <2>1. PICK i : S = {i}  BY <1>1 DEF Has, AtMostOne
  <2> QED  BY <1>1, <2>1, FS_Singleton DEF TicksIn
<1>2. CASE ~Has(q)
  <2>1. S = {}  BY <1>2 DEF Has
  <2> QED  BY <1>2, <2>1, FS_EmptySet DEF TicksIn
<1> QED  BY <1>1, <1>2

LEMMA TickPlacesCount == TypeOK /\ TickPlaces => OneTickPending
<1> SUFFICES ASSUME TypeOK, TickPlaces PROVE OneTickPending  OBVIOUS
<1> DEFINE T == {t \in Threads : pc[t] \in {"dispatch", "first", "second"} /\ job[t] = "tick"}
<1>1. Cardinality(T) = IF Running THEN 1 ELSE 0
  <2>1. CASE Running
    <3>1. PICK t : T = {t}  BY <2>1 DEF Running, TickPlaces, OneTicking, Ticking
    <3> QED  BY <2>1, <3>1, FS_Singleton
  <2>2. CASE ~Running
    <3>1. T = {}  BY <2>2 DEF Running, Ticking
    <3> QED  BY <2>2, <3>1, FS_EmptySet
  <2> QED  BY <2>1, <2>2
<1>2. /\ TicksIn(ready) = IF Has(ready) THEN 1 ELSE 0
      /\ TicksIn(waiting) = IF Has(waiting) THEN 1 ELSE 0
  BY CountedTicks DEF TickPlaces
<1>3. OneOf(Has(ready), Has(waiting), Running, timer)  BY DEF TickPlaces, OnePlace
<1> QED  BY <1>1, <1>2, <1>3 DEF OneTickPending, OneOf

(* OneTickPending, for any number of threads and connections: the tick is  *)
(* in one place, and goes from the timer to a thread, through the queues   *)
(* of the strand and back; a join puts one there only while there is none. *)
THEOREM OneTickAtATime == Spec => []OneTickPending
<1>1. Init => TypeOK /\ TickPlaces
  <2>1. Init => TickPlaces
    BY DEF Init, TickPlaces, OneTicking, OnePlace, OneOf, NoTick, Running, Ticking, Has, AtMostOne
  <2> QED  BY <2>1, TypeOKInit
<1>2. TypeOK /\ TickPlaces /\ [Next]_vars => (TypeOK /\ TickPlaces)'
  BY TypeOKNext, TickPlacesNext
<1> QED  BY <1>1, <1>2, TickPlacesCount, PTL DEF Spec
=============================================================================
