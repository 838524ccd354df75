--------------------------- MODULE TcpServerProofs ---------------------------
(***************************************************************************)
(* Type correctness of TcpServer for every set of connections, workers and *)
(* users and every handler, and what the operations on a connection, on    *)
(* the pool's queue and on a batch of pushes keep.                         *)
(***************************************************************************)
EXTENDS TcpServer, FiniteSetTheorems, TLAPS

-----------------------------------------------------------------------------
(* What the operations of ConnectionContext keep. *)

\* y differs from x in the request queue and counters only.
SameLogin(x, y) ==
  y.state = x.state /\ y.user = x.user /\ y.unsent = x.unsent /\ y.armed = x.armed

\* A new queue and request flag keep the type of a context.
LEMMA UpdateQueue ==
  ASSUME NEW x \in Context, NEW q \in Seq(Nat), NEW b \in BOOLEAN
  PROVE  [x EXCEPT !.inFlight = b, !.pending = q] \in Context
  BY DEF Context

\* The same for the number of packets read.
LEMMA UpdateReceived ==
  ASSUME NEW x \in Context, NEW r \in Nat, NEW q \in Seq(Nat)
  PROVE  /\ [x EXCEPT !.pending = q, !.received = r] \in Context
         /\ [x EXCEPT !.inFlight = TRUE, !.received = r] \in Context
  BY DEF Context

\* The same for the unsent output.
LEMMA UpdateOutput ==
  ASSUME NEW x \in Context, NEW n \in Nat, NEW b \in BOOLEAN
  PROVE  [x EXCEPT !.unsent = n, !.armed = b] \in Context
  BY DEF Context

\* Clearing the queue keeps the type and the login.
LEMMA ClearContext ==
  ASSUME NEW x \in Context
  PROVE  ClearPendingRequests(x) \in Context /\ SameLogin(x, ClearPendingRequests(x))
<1>1. <<>> \in Seq(Nat) /\ FALSE \in BOOLEAN
  OBVIOUS
<1>2. ClearPendingRequests(x) \in Context
  BY ONLY <1>1, x \in Context, UpdateQueue DEF ClearPendingRequests
<1>3. SameLogin(x, ClearPendingRequests(x))
  BY DEF ClearPendingRequests, Context, SameLogin
<1> QED
  BY <1>2, <1>3

\* Closing keeps the type and gives a closed connection.
LEMMA ClosedContext ==
  ASSUME NEW x \in Context
  PROVE  Closed(x) \in Context /\ Closed(x).state = "CLOSED"
<1> DEFINE y == ClearPendingRequests(x)
<1>1. y \in Context
  BY ClearContext
<1> HIDE DEF y
<1>2. [y EXCEPT !.state = "CLOSED", !.unsent = 0, !.armed = FALSE] \in Context
  BY <1>1 DEF Context
<1>3. [y EXCEPT !.state = "CLOSED", !.unsent = 0, !.armed = FALSE].state = "CLOSED"
  BY <1>1 DEF Context
<1> QED
  BY <1>2, <1>3 DEF Closed, y

\* Starting or queueing a request keeps the type and the login.
LEMMA StartContext ==
  ASSUME NEW x \in Context, NEW r \in Nat
  PROVE  StartRequestOrQueue(x, r) \in Context /\ SameLogin(x, StartRequestOrQueue(x, r))
<1>1. Append(x.pending, r) \in Seq(Nat)
  BY DEF Context
<1>2. StartRequestOrQueue(x, r) \in Context
  BY <1>1, UpdateReceived DEF StartRequestOrQueue
<1>3. SameLogin(x, StartRequestOrQueue(x, r))
  BY DEF StartRequestOrQueue, Context, SameLogin
<1> QED
  BY <1>2, <1>3

\* Handing out the head of the queue keeps the type and the login.
LEMMA PopContext ==
  ASSUME NEW x \in Context, x.pending # <<>>
  PROVE  LET y == [x EXCEPT !.inFlight = TRUE, !.pending = Tail(@)] IN
         y \in Context /\ SameLogin(x, y) /\ Head(x.pending) \in Nat
<1>1. Tail(x.pending) \in Seq(Nat) /\ Head(x.pending) \in Nat
  BY DEF Context
<1>2. [x EXCEPT !.inFlight = TRUE, !.pending = Tail(@)] \in Context
  BY <1>1, UpdateQueue
<1>3. SameLogin(x, [x EXCEPT !.inFlight = TRUE, !.pending = Tail(@)])
  BY DEF Context, SameLogin
<1> QED
  BY <1>1, <1>2, <1>3

\* Finishing a request keeps the type and the login.
LEMMA FinishContext ==
  ASSUME NEW x \in Context
  PROVE  FinishRequestAndPopNext(x) \in Context /\ SameLogin(x, FinishRequestAndPopNext(x))
<1>1. CASE FinishPops(x)
  BY <1>1, PopContext DEF FinishRequestAndPopNext, FinishPops
<1>2. CASE ~FinishPops(x)
  <2>1. [x EXCEPT !.inFlight = FALSE] \in Context /\ SameLogin(x, [x EXCEPT !.inFlight = FALSE])
    BY DEF Context, SameLogin
  <2> QED
    BY <2>1, <1>2 DEF FinishRequestAndPopNext
<1> QED
  BY <1>1, <1>2

\* Popping a request behind a lowered fence keeps the type and the login.
LEMMA IdleContext ==
  ASSUME NEW x \in Context
  PROVE  PopNextRequestIfIdle(x) \in Context /\ SameLogin(x, PopNextRequestIfIdle(x))
<1>1. CASE IdlePops(x)
  BY <1>1, PopContext DEF PopNextRequestIfIdle, IdlePops
<1>2. CASE ~IdlePops(x)
  BY <1>2 DEF PopNextRequestIfIdle, SameLogin
<1> QED
  BY <1>1, <1>2

\* Raising and lowering the fence keep the type and the login.
LEMMA FenceContext ==
  ASSUME NEW x \in Context
  PROVE  /\ RaiseFence(x) \in Context /\ SameLogin(x, RaiseFence(x))
         /\ LowerFence(x) \in Context /\ SameLogin(x, LowerFence(x))
<1>1. x.marks \in Int
  BY DEF Context
<1>2. ASSUME NEW k \in Int
      PROVE  [x EXCEPT !.marks = k] \in Context /\ SameLogin(x, [x EXCEPT !.marks = k])
  BY DEF Context, SameLogin
<1>3. x.marks + 1 \in Int /\ x.marks - 1 \in Int
  BY <1>1
<1> QED
  BY <1>2, <1>3 DEF RaiseFence, LowerFence

\* Output appended with EPOLLOUT keeps EPOLLOUT armed exactly for unsent output.
LEMMA AppendContext ==
  ASSUME NEW x \in Context, NEW n \in Nat
  PROVE  LET y == AppendPendingSend(x, n) IN
         /\ y \in Context /\ y.state = x.state /\ y.user = x.user
         /\ (x.armed <=> x.unsent > 0) => (y.armed <=> y.unsent > 0)
<1>1. CASE n = 0
  BY <1>1 DEF AppendPendingSend
<1>2. CASE n # 0
  <2> DEFINE m == x.unsent + n
             y == [x EXCEPT !.unsent = m, !.armed = TRUE]
  <2>1. AppendPendingSend(x, n) = y
    BY <1>2 DEF AppendPendingSend
  <2>2. m \in Nat /\ m > 0
    BY <1>2 DEF Context
  <2>3. y \in Context
    BY <2>2, UpdateOutput
  <2>4. y.state = x.state /\ y.user = x.user /\ y.armed = TRUE /\ y.unsent = m
    BY DEF Context
  <2> QED
    BY <2>1, <2>2, <2>3, <2>4
<1> QED
  BY <1>1, <1>2

-----------------------------------------------------------------------------
(* Type correctness *)

\* What a worker is about to hand over fits the task it runs.
OutboxFitsTask ==
  \A w \in Workers : outbox[w] # None =>
    /\ running[w] # None
    /\ running[w].type = "request" => outbox[w] \in ResponseTask
    /\ running[w].type # "request" => outbox[w] \in PostDeliveryEvent

TypeInv == TypeOK /\ OutboxFitsTask

\* The tasks the server submits are tasks of the pool.
LEMMA TaskTypes ==
  ASSUME NEW c \in Conns, NEW r \in Nat
  PROVE  /\ Request(c, r) \in Task /\ MarkSame(c) \in Task
         /\ MarkCross(c) \in Task /\ Cleanup(c) \in Task
  BY DEF Request, MarkSame, MarkCross, Cleanup, Task

\* The head and the tail of a queue keep its type.
LEMMA HeadTailType ==
  ASSUME NEW S, NEW s \in Seq(S), s # <<>>
  PROVE  Head(s) \in S /\ Tail(s) \in Seq(S)
  OBVIOUS

\* The task or event the I/O thread applies next.
LEMMA NextReady ==
  ASSUME TypeOK
  PROVE  /\ readyTasks # <<>> =>
              Head(readyTasks) \in ResponseTask /\ Tail(readyTasks) \in Seq(ResponseTask)
         /\ readyEvents # <<>> =>
              Head(readyEvents) \in PostDeliveryEvent /\ Tail(readyEvents) \in Seq(PostDeliveryEvent)
<1>1. readyTasks \in Seq(ResponseTask) /\ readyEvents \in Seq(PostDeliveryEvent)
  BY DEF TypeOK
<1> QED
  BY <1>1, HeadTailType

\* A task appended to the pool keeps its type.
LEMMA SubmitType ==
  ASSUME NEW s \in Seq(Task), NEW t \in Task
  PROVE  Append(s, t) \in Seq(Task)
  OBVIOUS

\* A new context keeps the type of the connections.
LEMMA ContextType ==
  ASSUME NEW f \in [Conns -> Context], NEW c \in Conns, NEW x \in Context
  PROVE  [f EXCEPT ![c] = x] \in [Conns -> Context]
  OBVIOUS

\* closeClientFd keeps the types of what it changes.
LEMMA CloseType ==
  ASSUME TypeOK, NEW c \in Conns, CloseClientFd(c)
  PROVE  /\ ctx' \in [Conns -> Context]
         /\ authenticated' \subseteq Users \X Conns
         /\ pool' \in Seq(Task)
<1>1. Closed(ctx[c]) \in Context
  BY ClosedContext DEF TypeOK
<1>2. ctx' \in [Conns -> Context]
  BY <1>1 DEF CloseClientFd, TypeOK
<1>3. authenticated' \subseteq Users \X Conns
  BY DEF CloseClientFd, Unregistered, TypeOK
<1>4. pool' \in Seq(Task)
  BY TaskTypes, SubmitType DEF CloseClientFd, TypeOK
<1> QED
  BY <1>2, <1>3, <1>4

\* The types hold initially.
LEMMA InitTypeInv == Init => TypeInv
<1> SUFFICES ASSUME Init PROVE TypeInv
  OBVIOUS
<1>1. NewContext \in Context
  BY DEF NewContext, Context
<1>2. ctx \in [Conns -> Context]
  BY <1>1 DEF Init
<1>3. \A S : <<>> \in Seq(S)
  OBVIOUS
<1>4. /\ completed \in Seq(ResponseTask) /\ readyTasks \in Seq(ResponseTask)
      /\ postEvents \in Seq(PostDeliveryEvent) /\ readyEvents \in Seq(PostDeliveryEvent)
      /\ pool \in Seq(Task)
  BY <1>3, Zenon DEF Init
<1>5. /\ session \in [Conns -> Users \cup {None}]
      /\ running \in [Workers -> Task \cup {None}]
      /\ outbox \in [Workers -> ResponseTask \cup PostDeliveryEvent \cup {None}]
      /\ handled \in [Conns -> Nat] /\ answered \in [Conns -> Nat]
  BY DEF Init
<1>6. stopping \in BOOLEAN /\ eventFd \in BOOLEAN /\ authenticated \subseteq Users \X Conns
  BY DEF Init
<1>7. TypeOK
  BY <1>2, <1>4, <1>5, <1>6 DEF Init, TypeOK
<1>8. OutboxFitsTask
  BY DEF Init, OutboxFitsTask
<1> QED
  BY <1>7, <1>8 DEF TypeInv

\* Every event of a client socket keeps the types.
LEMMA SocketTypeInv ==
  ASSUME TypeInv, NEW c \in Conns, Socket(c)
  PROVE  TypeInv'
<1> USE DEF TypeInv
<1>0. ctx[c] \in Context /\ pool \in Seq(Task) /\ authenticated \subseteq Users \X Conns
  BY DEF TypeOK
<1>1. /\ UNCHANGED <<session, stopping, handVars, running, outbox, ioVars, history>>
      /\ ctx' \in [Conns -> Context]
      /\ authenticated' \subseteq Users \X Conns
      /\ pool' \in Seq(Task)
  <2>1. CASE Accept(c)
    <3>1. [ctx[c] EXCEPT !.state = "CONNECTED"] \in Context
      BY <1>0 DEF Context
    <3>2. ctx' \in [Conns -> Context]
      BY <2>1, <3>1 DEF Accept, TypeOK
    <3> QED
      BY <2>1, <3>2, <1>0 DEF Accept, poolVars
  <2>2. CASE Readable(c)
    <3> DEFINE r == ctx[c].received + 1
               x == StartRequestOrQueue(ctx[c], r)
    <3>1. r \in Nat
      BY <1>0 DEF Context
    <3>2. x \in Context
      BY <1>0, <3>1, StartContext
    <3>3. Closed(x) \in Context
      BY <3>2, ClosedContext
    <3> HIDE DEF x
    <3>4. ctx' = [ctx EXCEPT ![c] = x] \/ ctx' = [ctx EXCEPT ![c] = Closed(x)]
      BY <2>2 DEF Readable, x
    <3>5. ctx' \in [Conns -> Context]
      BY <3>2, <3>3, <3>4 DEF TypeOK
    <3>6. authenticated' \subseteq Users \X Conns
      BY <2>2, <1>0 DEF Readable, Unregistered
    <3>7. pool' \in {pool, Append(pool, Request(c, r)), Append(pool, Cleanup(c))}
      BY <2>2 DEF Readable
    <3>8. pool' \in Seq(Task)
      BY <3>1, <3>7, <1>0, TaskTypes, SubmitType
    <3> QED
      BY <2>2, <3>5, <3>6, <3>8 DEF Readable
  <2>3. CASE Writable(c)
    <3>1. PICK n \in 1..ctx[c].unsent :
            IF n = ctx[c].unsent /\ ctx[c].peerClosed
              THEN CloseClientFd(c)
              ELSE /\ ctx' = [ctx EXCEPT ![c].unsent = @ - n, ![c].armed = n < ctx[c].unsent]
                   /\ UNCHANGED <<authenticated, pool>>
      BY <2>3 DEF Writable
    <3>2. CASE CloseClientFd(c)
      BY <3>2, <2>3, CloseType DEF Writable
    <3>3. CASE ctx' = [ctx EXCEPT ![c].unsent = @ - n, ![c].armed = n < ctx[c].unsent]
               /\ UNCHANGED <<authenticated, pool>>
      <4> DEFINE m == ctx[c].unsent - n
                 b == n < ctx[c].unsent
      <4>1. m \in Nat /\ b \in BOOLEAN
        BY <1>0 DEF Context
      <4>2. [ctx[c] EXCEPT !.unsent = m, !.armed = b] \in Context
        BY <4>1, <1>0, UpdateOutput
      <4>3. ctx' = [ctx EXCEPT ![c] = [ctx[c] EXCEPT !.unsent = m, !.armed = b]]
        BY <3>3, <1>0 DEF TypeOK, Context
      <4>4. ctx' \in [Conns -> Context]
        BY <4>2, <4>3, ContextType DEF TypeOK
      <4> QED
        BY <4>4, <3>3, <2>3, <1>0 DEF Writable
    <3> QED
      BY <3>1, <3>2, <3>3
  <2>4. CASE HalfClose(c)
    <3>1. CASE ctx[c].unsent = 0
      BY <3>1, <2>4, CloseType DEF HalfClose
    <3>2. CASE ctx[c].unsent # 0
      <4>1. [ctx[c] EXCEPT !.peerClosed = TRUE] \in Context
        BY <1>0 DEF Context
      <4>2. ctx' \in [Conns -> Context]
        BY <3>2, <2>4, <4>1 DEF HalfClose, TypeOK
      <4> QED
        BY <3>2, <4>2, <2>4, <1>0 DEF HalfClose
    <3> QED
      BY <3>1, <3>2
  <2>5. CASE PeerError(c)
    BY <2>5, CloseType DEF PeerError
  <2>6. CASE Timeout(c)
    BY <2>6, CloseType DEF Timeout
  <2> QED
    BY <2>1, <2>2, <2>3, <2>4, <2>5, <2>6 DEF Socket
<1>2. TypeOK'
  BY <1>1 DEF TypeOK, handVars, ioVars, history
<1>3. OutboxFitsTask'
  BY <1>1 DEF OutboxFitsTask
<1> QED
  BY <1>2, <1>3

\* Every step of a worker keeps the types.
LEMMA WorkTypeInv ==
  ASSUME TypeInv, NEW w \in Workers, Work(w)
  PROVE  TypeInv'
<1> USE DEF TypeInv
<1>1. CASE TakeTask(w)
  <2>1. Head(pool) \in Task /\ Tail(pool) \in Seq(Task)
    BY <1>1 DEF TakeTask, TypeOK
  <2>2. running' \in [Workers -> Task \cup {None}] /\ pool' \in Seq(Task)
    BY <1>1, <2>1 DEF TakeTask, TypeOK
  <2>3. TypeOK'
    BY <1>1, <2>2 DEF TakeTask, TypeOK, netVars, handVars, ioVars, history
  <2>4. OutboxFitsTask'
    BY <1>1 DEF TakeTask, TypeOK, OutboxFitsTask
  <2> QED
    BY <2>3, <2>4
<1>2. CASE HandleRequest(w)
  <2> DEFINE c == running[w].conn
             r == running[w].req
  <2>1. running[w] \in Task
    BY <1>2 DEF HandleRequest, At, TypeOK
  <2>2. c \in Conns /\ r \in Nat /\ running[w].type = "request"
    BY <1>2, <2>1 DEF HandleRequest, At, Task
  <2>3. handled' \in [Conns -> Nat]
    BY <1>2, <2>2 DEF HandleRequest, TypeOK
  <2>4. CASE UNCHANGED running /\ \E kind \in PossibleKinds(c) :
               \E u \in (IF kind \in {"login", "send", "notify"} THEN Users ELSE {None}) :
                 outbox' = [outbox EXCEPT ![w] = Result(c, r, kind, u)]
    <3>1. PICK kind \in PossibleKinds(c) :
            \E u \in (IF kind \in {"login", "send", "notify"} THEN Users ELSE {None}) :
              outbox' = [outbox EXCEPT ![w] = Result(c, r, kind, u)]
      BY <2>4
    <3>2. PICK u \in Users \cup {None} : /\ kind = "login" => u # None
                                       /\ outbox' = [outbox EXCEPT ![w] = Result(c, r, kind, u)]
      BY <3>1, NoneAssumption
    <3>3. kind \in ResultKinds
      BY KindsAssumption DEF PossibleKinds
    <3>4. Result(c, r, kind, u) \in ResponseTask
      BY <2>2, <3>2, <3>3 DEF Result, ResponseTask
    <3>5. outbox' \in [Workers -> ResponseTask \cup PostDeliveryEvent \cup {None}]
      BY <3>2, <3>4 DEF TypeOK
    <3>6. TypeOK'
      BY <1>2, <2>3, <2>4, <3>5 DEF HandleRequest, TypeOK, netVars, handVars, ioVars
    <3>7. OutboxFitsTask'
      BY <2>1, <2>2, <2>4, <3>2, <3>4, <1>2 DEF HandleRequest, At, OutboxFitsTask, TypeOK
    <3> QED
      BY <3>6, <3>7
  <2>5. CASE Finish(w) /\ UNCHANGED outbox
    <3>1. running' \in [Workers -> Task \cup {None}]
      BY <2>5 DEF Finish, TypeOK
    <3>2. TypeOK'
      BY <1>2, <2>3, <2>5, <3>1 DEF HandleRequest, TypeOK, netVars, handVars, ioVars
    <3>3. OutboxFitsTask'
      BY <1>2, <2>5 DEF HandleRequest, At, Finish, OutboxFitsTask, TypeOK
    <3> QED
      BY <3>2, <3>3
  <2> QED
    BY <1>2, <2>4, <2>5 DEF HandleRequest
<1>3. CASE EnqueueResponse(w)
  <2> DEFINE t == outbox[w]
  <2>1. t \in ResponseTask
    BY <1>3 DEF EnqueueResponse, OutboxFitsTask
  <2>2. t.conn \in Conns
    BY <2>1 DEF ResponseTask
  <2>3. ClearPendingRequests(ctx[t.conn]) \in Context
    BY <2>2, ClearContext DEF TypeOK
  <2>4. ctx' \in [Conns -> Context]
    BY <1>3, <2>2, <2>3 DEF EnqueueResponse, TypeOK
  <2>5. completed' \in Seq(ResponseTask)
    <3>1. completed' = completed \/ completed' = Append(completed, t)
      BY <1>3 DEF EnqueueResponse
    <3>2. Append(completed, t) \in Seq(ResponseTask)
      BY <2>1 DEF TypeOK
    <3> QED
      BY <3>1, <3>2 DEF TypeOK
  <2>6. eventFd' \in BOOLEAN
    BY <1>3 DEF EnqueueResponse, TypeOK
  <2>7. running' \in [Workers -> Task \cup {None}]
        /\ outbox' \in [Workers -> ResponseTask \cup PostDeliveryEvent \cup {None}]
    BY <1>3 DEF EnqueueResponse, Finish, TypeOK
  <2>8. TypeOK'
    BY <1>3, <2>4, <2>5, <2>6, <2>7 DEF EnqueueResponse, TypeOK, ioVars, history
  <2>9. OutboxFitsTask'
    BY <1>3 DEF EnqueueResponse, Finish, OutboxFitsTask, TypeOK
  <2> QED
    BY <2>8, <2>9
<1>4. CASE MarkSameDone(w)
  <2> DEFINE e == [conn |-> running[w].conn, finish |-> TRUE]
  <2>1. running[w] \in Task /\ running[w].type = "markSame"
    BY <1>4 DEF MarkSameDone, At, TypeOK
  <2>2. e \in PostDeliveryEvent
    BY <2>1 DEF Task, PostDeliveryEvent
  <2>3. outbox' \in [Workers -> ResponseTask \cup PostDeliveryEvent \cup {None}]
    BY <1>4, <2>2 DEF MarkSameDone, TypeOK
  <2>4. TypeOK'
    BY <1>4, <2>3 DEF MarkSameDone, TypeOK, netVars, handVars, ioVars, history
  <2>5. OutboxFitsTask'
    BY <1>4, <2>1, <2>2 DEF MarkSameDone, At, OutboxFitsTask, TypeOK
  <2> QED
    BY <2>4, <2>5
<1>5. CASE MarkCrossDone(w)
  <2> DEFINE c == running[w].conn
             e == [conn |-> c, finish |-> FALSE]
  <2>1. running[w] \in Task /\ running[w].type = "markCross" /\ c \in Conns
    BY <1>5 DEF MarkCrossDone, At, TypeOK, Task
  <2>2. e \in PostDeliveryEvent
    BY <2>1 DEF Task, PostDeliveryEvent
  <2>3. LowerFence(ctx[c]) \in Context
    BY <2>1, FenceContext DEF TypeOK
  <2>4. CASE Open(c)
    <3>1. ctx' \in [Conns -> Context]
          /\ outbox' \in [Workers -> ResponseTask \cup PostDeliveryEvent \cup {None}]
      BY <1>5, <2>1, <2>2, <2>3, <2>4 DEF MarkCrossDone, TypeOK
    <3>2. TypeOK'
      BY <1>5, <2>4, <3>1 DEF MarkCrossDone, TypeOK, handVars, ioVars, history
    <3>3. OutboxFitsTask'
      BY <1>5, <2>1, <2>2, <2>4 DEF MarkCrossDone, At, OutboxFitsTask, TypeOK
    <3> QED
      BY <3>2, <3>3
  <2>5. CASE ~Open(c)
    <3>1. running' \in [Workers -> Task \cup {None}]
      BY <1>5, <2>5 DEF MarkCrossDone, Finish, TypeOK
    <3>2. TypeOK'
      BY <1>5, <2>5, <3>1 DEF MarkCrossDone, TypeOK, handVars, ioVars, history
    <3>3. OutboxFitsTask'
      BY <1>5, <2>5 DEF MarkCrossDone, At, Finish, OutboxFitsTask, TypeOK
    <3> QED
      BY <3>2, <3>3
  <2> QED
    BY <2>4, <2>5
<1>6. CASE EnqueueEvent(w)
  <2>1. outbox[w] \in PostDeliveryEvent
    BY <1>6 DEF EnqueueEvent, OutboxFitsTask
  <2>2. postEvents' \in Seq(PostDeliveryEvent)
    BY <1>6, <2>1 DEF EnqueueEvent, TypeOK
  <2>3. running' \in [Workers -> Task \cup {None}]
        /\ outbox' \in [Workers -> ResponseTask \cup PostDeliveryEvent \cup {None}]
    BY <1>6 DEF EnqueueEvent, Finish, TypeOK
  <2>4. TypeOK'
    BY <1>6, <2>2, <2>3 DEF EnqueueEvent, TypeOK, netVars, ioVars, history
  <2>5. OutboxFitsTask'
    BY <1>6 DEF EnqueueEvent, Finish, OutboxFitsTask, TypeOK
  <2> QED
    BY <2>4, <2>5
<1>7. CASE RunCleanup(w)
  <2>1. session' \in [Conns -> Users \cup {None}]
        /\ running' \in [Workers -> Task \cup {None}]
    BY <1>7 DEF RunCleanup, Finish, TypeOK
  <2>2. TypeOK'
    BY <1>7, <2>1 DEF RunCleanup, TypeOK, handVars, ioVars, history
  <2>3. OutboxFitsTask'
    BY <1>7 DEF RunCleanup, At, Finish, OutboxFitsTask, TypeOK
  <2> QED
    BY <2>2, <2>3
<1> QED
  BY <1>1, <1>2, <1>3, <1>4, <1>5, <1>6, <1>7 DEF Work
\* Delivering a response or a push keeps the type of every context.
LEMMA DeliveredContext ==
  ASSUME TypeOK, NEW t \in ResponseTask, NEW bad, NEW d \in Conns
  PROVE  /\ Delivered(t, bad, d) \in Context
         /\ d \in Broken(t, bad) => Delivered(t, bad, d).state = "CLOSED"
         /\ d \notin Broken(t, bad) =>
              LET y == Delivered(t, bad, d) IN
              /\ y.state = ctx[d].state
              /\ y.user = IF d = t.conn THEN UserAfter(t) ELSE ctx[d].user
              /\ (ctx[d].armed <=> ctx[d].unsent > 0) => (y.armed <=> y.unsent > 0)
<1>0. ctx[d] \in Context
  BY DEF TypeOK
<1>1. CASE d \in Broken(t, bad)
  BY <1>0, <1>1, ClosedContext DEF Delivered
<1>2. CASE d \notin Broken(t, bad)
  <2> DEFINE n == Sent(t, bad, d)
             a == AppendPendingSend(ctx[d], n)
             u == IF d = t.conn THEN UserAfter(t) ELSE a.user
             y == [a EXCEPT !.user = u]
  <2>1. n \in Nat
    BY DEF Sent
  <2> HIDE DEF n
  <2>2. /\ a \in Context /\ a.state = ctx[d].state /\ a.user = ctx[d].user
        /\ (ctx[d].armed <=> ctx[d].unsent > 0) => (a.armed <=> a.unsent > 0)
    BY <1>0, <2>1, AppendContext
  <2>3. t.conn \in Conns /\ t.user \in Users \cup {None}
    BY DEF ResponseTask
  <2>4. UserAfter(t) \in Users \cup {None}
    BY <2>3 DEF UserAfter, TypeOK, Context
  <2>5. u \in Users \cup {None}
    BY <2>2, <2>4, <1>0 DEF Context
  <2> HIDE DEF a, u
  <2>6. /\ y \in Context /\ y.state = a.state /\ y.user = u
        /\ y.armed = a.armed /\ y.unsent = a.unsent
    BY <2>2, <2>5 DEF Context
  <2> HIDE DEF y
  <2>7. /\ RaiseFence(y) \in Context /\ SameLogin(y, RaiseFence(y))
    BY <2>6, FenceContext
  <2>8. Delivered(t, bad, d) = IF d \in Fenced(t, bad) THEN RaiseFence(y) ELSE y
    BY <1>2 DEF Delivered, y, u, a, n
  <2>9. u = IF d = t.conn THEN UserAfter(t) ELSE ctx[d].user
    BY <2>2 DEF u
  <2> QED
    BY <1>2, <2>2, <2>6, <2>7, <2>8, <2>9 DEF SameLogin
<1> QED
  BY <1>1, <1>2

\* Going on with the next queued request keeps the type of the context, and closes
\* it only when a request cannot be submitted.
LEMMA ResumedContext ==
  ASSUME NEW y \in Context, NEW pops \in BOOLEAN
  PROVE  /\ Resumed(pops, y) \in Context
         /\ pops /\ stopping => Resumed(pops, y).state = "CLOSED"
         /\ ~(pops /\ stopping) => Resumed(pops, y) = y
  BY ClosedContext DEF Resumed

\* The tasks that go on with a connection are tasks of the pool, and one of them
\* is a cleanup only when a request cannot be submitted.
LEMMA ResumeTasksType ==
  ASSUME NEW c \in Conns, NEW x \in Context, NEW pops \in BOOLEAN,
         pops => x.pending # <<>>
  PROVE  ResumeTasks(c, x, pops) \in Seq(Task)
<1>1. CASE ~pops
  BY <1>1 DEF ResumeTasks
<1>2. CASE pops
  <2>1. Head(x.pending) \in Nat
    BY <1>2, PopContext
  <2>2. Request(c, Head(x.pending)) \in Task /\ Cleanup(c) \in Task
    BY <2>1, TaskTypes
  <2>3. <<Request(c, Head(x.pending))>> \in Seq(Task) /\ <<Cleanup(c)>> \in Seq(Task)
    BY <2>2
  <2> QED
    BY <1>2, <2>3 DEF ResumeTasks
<1> QED
  BY <1>1, <1>2

\* The mark tasks of the fenced connections, in some order, are tasks of the pool.
LEMMA OrderingType ==
  ASSUME NEW S \in SUBSET Conns, NEW order \in Orderings(S)
  PROVE  /\ [i \in DOMAIN order |-> MarkCross(order[i])] \in Seq(Task)
         /\ \A i \in DOMAIN order : order[i] \in Conns
<1>1. IsFiniteSet(S)
  BY ConnsAssumption, FS_Subset
<1>2. Cardinality(S) \in Nat
  BY <1>1, FS_CardinalityType
<1>3. order \in [1..Cardinality(S) -> S]
  BY DEF Orderings
<1>4. \A i \in 1..Cardinality(S) : order[i] \in Conns /\ MarkCross(order[i]) \in Task
  BY <1>3, TaskTypes
<1>5. [i \in 1..Cardinality(S) |-> MarkCross(order[i])] \in Seq(Task)
  BY <1>2, <1>4
<1> QED
  BY <1>3, <1>4, <1>5

\* Four sequences of tasks, one after the other.
LEMMA ConcatType ==
  ASSUME NEW p \in Seq(Task), NEW q \in Seq(Task), NEW r \in Seq(Task), NEW s \in Seq(Task)
  PROVE  p \o q \o r \o s \in Seq(Task)
  OBVIOUS
\* What ApplyResponse gives to the pool.
LEMMA ApplyResponseTasks ==
  ASSUME TypeOK, NEW bad \in Conns \cup {None}, ApplyResponse(bad)
  PROVE  LET t    == Head(readyTasks)
             x    == Delivered(t, bad, t.conn)
             pops == FinishPops(x) /\ ~Deferred(t, bad)
         IN  \E a, b, e \in Seq(Task) :
               /\ pool' = pool \o a \o b \o e
               /\ a = IF Broken(t, bad) = {} THEN <<>> ELSE <<Cleanup(bad)>>
               /\ \A i \in DOMAIN b : b[i].type = "markCross"
               /\ e = IF Deferred(t, bad) THEN <<MarkSame(t.conn)>> ELSE ResumeTasks(t.conn, x, pops)
<1> DEFINE t == Head(readyTasks)
           x == Delivered(t, bad, t.conn)
           pops == FinishPops(x) /\ ~Deferred(t, bad)
           a == IF Broken(t, bad) = {} THEN <<>> ELSE <<Cleanup(bad)>>
           e == IF Deferred(t, bad) THEN <<MarkSame(t.conn)>> ELSE ResumeTasks(t.conn, x, pops)
<1>1. t \in ResponseTask
  BY NextReady DEF ApplyResponse
<1>2. t.conn \in Conns /\ t.pushes \in SUBSET Conns
  BY <1>1 DEF ResponseTask
<1>3. x \in Context
  BY <1>1, <1>2, DeliveredContext
<1>4. Fenced(t, bad) \in SUBSET Conns /\ Broken(t, bad) \in SUBSET Conns
  BY <1>2 DEF Fenced, Broken, Targets
<1>5. PICK order \in Orderings(Fenced(t, bad)) :
        pool' = pool \o a \o [i \in DOMAIN order |-> MarkCross(order[i])] \o e
  BY DEF ApplyResponse
<1> DEFINE b == [i \in DOMAIN order |-> MarkCross(order[i])]
<1>6. b \in Seq(Task)
  BY <1>4, OrderingType
<1>7. \A i \in DOMAIN b : b[i].type = "markCross"
  BY DEF MarkCross
<1>8. a \in Seq(Task)
  <2>1. CASE Broken(t, bad) = {}
    BY <2>1
  <2>2. CASE Broken(t, bad) # {}
    <3>1. bad \in Conns
      BY <2>2, <1>4 DEF Broken
    <3> QED
      BY <3>1, <2>2, TaskTypes
  <2> QED
    BY <2>1, <2>2
<1>9. e \in Seq(Task)
  <2>1. CASE Deferred(t, bad)
    <3> DEFINE k == MarkSame(t.conn)
    <3>1. k \in Task
      BY <1>2, TaskTypes
    <3>2. e = <<k>>
      BY <2>1
    <3> HIDE DEF k, e
    <3>3. <<k>> \in Seq(Task)
      BY <3>1
    <3> QED
      BY <3>2, <3>3
  <2>2. CASE ~Deferred(t, bad)
    <3>1. pops \in BOOLEAN /\ (pops => x.pending # <<>>)
      BY DEF FinishPops
    <3>2. ResumeTasks(t.conn, x, pops) \in Seq(Task)
      BY <1>2, <1>3, <3>1, ResumeTasksType
    <3> QED
      BY <2>2, <3>2
  <2> QED
    BY <2>1, <2>2
<1> HIDE DEF a, b, e
<1>10. pool' = pool \o a \o b \o e
  BY <1>5 DEF b
<1> QED
  BY <1>6, <1>7, <1>8, <1>9, <1>10 DEF a, e

\* What ApplyResponse does to the contexts: a push target that fails, and a
\* connection whose next request cannot be submitted, are closed.
LEMMA ApplyResponseContext ==
  ASSUME TypeOK, NEW bad \in Conns \cup {None}, ApplyResponse(bad), NEW d \in Conns
  PROVE  LET t    == Head(readyTasks)
             x    == Delivered(t, bad, t.conn)
             pops == FinishPops(x) /\ ~Deferred(t, bad)
             gone == d \in Broken(t, bad) \/ (d = t.conn /\ pops /\ stopping)
             y    == ctx'[d]
         IN  /\ y \in Context
             /\ gone => y.state = "CLOSED"
             /\ ~gone =>
                  /\ y.state = ctx[d].state
                  /\ y.user = IF d = t.conn THEN UserAfter(t) ELSE ctx[d].user
                  /\ (ctx[d].armed <=> ctx[d].unsent > 0) => (y.armed <=> y.unsent > 0)
<1> DEFINE t == Head(readyTasks)
           x == Delivered(t, bad, t.conn)
           pops == FinishPops(x) /\ ~Deferred(t, bad)
           z == Delivered(t, bad, d)
           y == ctx'[d]
<1>1. t \in ResponseTask
  BY NextReady DEF ApplyResponse
<1>2. t.conn \in Conns
  BY <1>1 DEF ResponseTask
<1>3. /\ z \in Context
      /\ d \in Broken(t, bad) => z.state = "CLOSED"
      /\ d \notin Broken(t, bad) =>
           /\ z.state = ctx[d].state
           /\ z.user = IF d = t.conn THEN UserAfter(t) ELSE ctx[d].user
           /\ (ctx[d].armed <=> ctx[d].unsent > 0) => (z.armed <=> z.unsent > 0)
  BY <1>1, DeliveredContext
<1>4. y = IF d = t.conn /\ ~Deferred(t, bad)
            THEN Resumed(pops, FinishRequestAndPopNext(x)) ELSE z
  BY DEF ApplyResponse
<1>5. CASE d = t.conn /\ ~Deferred(t, bad)
  <2>1. x = z
    BY <1>5
  <2> DEFINE f == FinishRequestAndPopNext(x)
  <2>2. f \in Context /\ SameLogin(x, f)
    BY <1>3, <2>1, FinishContext
  <2>3. pops \in BOOLEAN
    OBVIOUS
  <2> HIDE DEF f, pops, x, z
  <2>4. /\ Resumed(pops, f) \in Context
        /\ pops /\ stopping => Resumed(pops, f).state = "CLOSED"
        /\ ~(pops /\ stopping) => Resumed(pops, f) = f
    BY <2>2, <2>3, ResumedContext
  <2>5. y = Resumed(pops, f)
    BY <1>4, <1>5 DEF f
  <2>6. f.state = z.state /\ f.user = z.user /\ f.armed = z.armed /\ f.unsent = z.unsent
    BY <2>1, <2>2 DEF SameLogin
  <2>7. CASE pops /\ stopping
    BY <1>5, <2>4, <2>5, <2>7 DEF pops, x
  <2>8. CASE ~(pops /\ stopping)
    <3>1. y = f
      BY <2>4, <2>5, <2>8
    <3> QED
      BY <1>3, <1>5, <2>2, <2>6, <2>8, <3>1 DEF pops, x
  <2> QED
    BY <2>7, <2>8
<1>6. CASE ~(d = t.conn /\ ~Deferred(t, bad))
  BY <1>3, <1>4, <1>6
<1> QED
  BY <1>5, <1>6
\* ApplyResponse keeps the types.
LEMMA ApplyResponseTypeInv ==
  ASSUME TypeInv, NEW bad \in Conns \cup {None}, ApplyResponse(bad)
  PROVE  TypeInv'
<1> USE DEF TypeInv
<1> DEFINE t == Head(readyTasks)
<1>1. t \in ResponseTask /\ Tail(readyTasks) \in Seq(ResponseTask)
  BY NextReady DEF ApplyResponse
<1>2. /\ t.conn \in Conns /\ t.req \in Nat /\ t.user \in Users \cup {None}
      /\ t.kind = "login" => t.user \in Users
  BY <1>1 DEF ResponseTask
<1>3. readyTasks' \in Seq(ResponseTask)
  BY <1>1 DEF ApplyResponse
<1> HIDE DEF t
<1>4. session' \in [Conns -> Users \cup {None}]
  <2>1. session' = SessionAfter(t)
    BY DEF ApplyResponse, t
  <2> QED
    BY <2>1, <1>2 DEF SessionAfter, TypeOK
<1>5. authenticated' \subseteq Users \X Conns
  <2>1. authenticated' \subseteq AuthenticatedAfter(t)
    BY DEF ApplyResponse, t
  <2>2. AuthenticatedAfter(t) \subseteq Users \X Conns
    BY <1>2 DEF AuthenticatedAfter, Unregistered, TypeOK
  <2> QED
    BY <2>1, <2>2
<1>6. ctx' \in [Conns -> Context]
  <2>1. \A d \in Conns : ctx'[d] \in Context
    BY ApplyResponseContext
  <2>2. ctx' = [d \in Conns |-> ctx'[d]]
    BY DEF ApplyResponse
  <2> QED
    BY <2>1, <2>2
<1>7. pool' \in Seq(Task)
  <2>1. PICK a, b, e \in Seq(Task) : pool' = pool \o a \o b \o e
    BY ApplyResponseTasks
  <2> QED
    BY <2>1, ConcatType DEF TypeOK
<1>8. answered' \in [Conns -> Nat]
  <2>1. answered' = IF t.kind = "silent" THEN answered ELSE [answered EXCEPT ![t.conn] = t.req]
    BY DEF ApplyResponse, t
  <2> QED
    BY <2>1, <1>2 DEF TypeOK
<1>9. UNCHANGED <<stopping, handVars, running, outbox, io, readyEvents, handled>>
  BY DEF ApplyResponse
<1>10. TypeOK'
  BY <1>3, <1>4, <1>5, <1>6, <1>7, <1>8, <1>9 DEF TypeOK, handVars
<1>11. OutboxFitsTask'
  BY <1>9 DEF OutboxFitsTask
<1> QED
  BY <1>10, <1>11

\* What ApplyEvent does to the context and the pool.
LEMMA ApplyEventFacts ==
  ASSUME TypeOK, ApplyEvent, NEW c, c = Head(readyEvents).conn, Open(c)
  PROVE  \E y \in Context, pops \in BOOLEAN :
           /\ SameLogin(ctx[c], y)
           /\ pops => ctx[c].pending # <<>>
           /\ ctx' = [ctx EXCEPT ![c] = Resumed(pops, y)]
           /\ authenticated' = IF pops /\ stopping THEN Unregistered(authenticated, c) ELSE authenticated
           /\ pool' = pool \o ResumeTasks(c, ctx[c], pops)
<1>1. Head(readyEvents) \in PostDeliveryEvent
  BY NextReady DEF ApplyEvent
<1>2. c \in Conns /\ ctx[c] \in Context
  BY <1>1 DEF PostDeliveryEvent, TypeOK
<1> DEFINE fin == Head(readyEvents).finish
           pops == IF fin THEN FinishPops(ctx[c]) ELSE IdlePops(ctx[c])
           y == IF fin THEN FinishRequestAndPopNext(ctx[c]) ELSE PopNextRequestIfIdle(ctx[c])
<1>3. y \in Context /\ SameLogin(ctx[c], y)
  BY <1>2, FinishContext, IdleContext
<1>4. pops \in BOOLEAN /\ (pops => ctx[c].pending # <<>>)
  BY DEF FinishPops, IdlePops
<1>5. /\ ctx' = [ctx EXCEPT ![c] = Resumed(pops, y)]
      /\ authenticated' = IF pops /\ stopping THEN Unregistered(authenticated, c) ELSE authenticated
      /\ pool' = pool \o ResumeTasks(c, ctx[c], pops)
  BY DEF ApplyEvent
<1> QED
  BY <1>3, <1>4, <1>5

\* The steps of onWorkerResultReadable keep the types.
LEMMA WorkerResultTypeInv ==
  ASSUME TypeInv, WorkerResult
  PROVE  TypeInv'
<1> USE DEF TypeInv
<1>0. <<>> \in Seq(ResponseTask) /\ <<>> \in Seq(PostDeliveryEvent)
  OBVIOUS
<1>1. CASE DrainEventFd
  <2>1. eventFd' \in BOOLEAN
    BY <1>1 DEF DrainEventFd
  <2>2. TypeOK'
    BY <1>1, <2>1 DEF DrainEventFd, TypeOK, netVars, poolVars, history
  <2>3. OutboxFitsTask'
    BY <1>1 DEF DrainEventFd, OutboxFitsTask, poolVars
  <2> QED
    BY <2>2, <2>3
<1>2. CASE SwapTasks
  <2>1. TypeOK'
    BY <1>0, <1>2 DEF SwapTasks, TypeOK, netVars, poolVars, history
  <2>2. OutboxFitsTask'
    BY <1>2 DEF SwapTasks, OutboxFitsTask, poolVars
  <2> QED
    BY <2>1, <2>2
<1>3. CASE DropResponse
  <2>1. Tail(readyTasks) \in Seq(ResponseTask)
    BY <1>3 DEF DropResponse, TypeOK
  <2>2. TypeOK'
    BY <1>3, <2>1 DEF DropResponse, TypeOK, netVars, handVars, poolVars, history
  <2>3. OutboxFitsTask'
    BY <1>3 DEF DropResponse, OutboxFitsTask, poolVars
  <2> QED
    BY <2>2, <2>3
<1>4. CASE FailResponse
  <2> DEFINE c == Head(readyTasks).conn
  <2>1. Head(readyTasks) \in ResponseTask /\ Tail(readyTasks) \in Seq(ResponseTask)
    BY <1>4 DEF FailResponse, TypeOK
  <2>2. c \in Conns
    BY <2>1 DEF ResponseTask
  <2>3. CloseClientFd(c)
    BY <1>4 DEF FailResponse
  <2>4. /\ ctx' \in [Conns -> Context] /\ authenticated' \subseteq Users \X Conns
        /\ pool' \in Seq(Task)
    BY <2>2, <2>3, CloseType
  <2>5. TypeOK'
    BY <1>4, <2>1, <2>4 DEF FailResponse, TypeOK, handVars, history
  <2>6. OutboxFitsTask'
    BY <1>4 DEF FailResponse, OutboxFitsTask
  <2> QED
    BY <2>5, <2>6
<1>5. CASE \E bad \in Conns \cup {None} : ApplyResponse(bad)
  BY <1>5, ApplyResponseTypeInv
<1>6. CASE SwapEvents
  <2>1. TypeOK'
    BY <1>0, <1>6 DEF SwapEvents, TypeOK, netVars, poolVars, history
  <2>2. OutboxFitsTask'
    BY <1>6 DEF SwapEvents, OutboxFitsTask, poolVars
  <2> QED
    BY <2>1, <2>2
<1>7. CASE ApplyEvent
  <2> DEFINE c == Head(readyEvents).conn
  <2>1. Head(readyEvents) \in PostDeliveryEvent /\ Tail(readyEvents) \in Seq(PostDeliveryEvent)
    BY <1>7, NextReady DEF ApplyEvent
  <2>2. c \in Conns
    BY <2>1 DEF PostDeliveryEvent
  <2>3. /\ ctx' \in [Conns -> Context] /\ authenticated' \subseteq Users \X Conns
        /\ pool' \in Seq(Task)
    <3>1. CASE ~Open(c)
      BY <1>7, <3>1 DEF ApplyEvent, TypeOK
    <3>2. CASE Open(c)
      <4> HIDE DEF c
      <4>1. PICK y \in Context, pops \in BOOLEAN :
              /\ SameLogin(ctx[c], y)
              /\ pops => ctx[c].pending # <<>>
              /\ ctx' = [ctx EXCEPT ![c] = Resumed(pops, y)]
              /\ authenticated' =
                   IF pops /\ stopping THEN Unregistered(authenticated, c) ELSE authenticated
              /\ pool' = pool \o ResumeTasks(c, ctx[c], pops)
        BY <1>7, <3>2, ApplyEventFacts DEF c
      <4>2. Resumed(pops, y) \in Context
        BY ResumedContext
      <4>3. ctx' \in [Conns -> Context]
        BY <2>2, <4>1, <4>2, ContextType DEF TypeOK
      <4>4. authenticated' \subseteq Users \X Conns
        BY <4>1 DEF Unregistered, TypeOK
      <4>5. ResumeTasks(c, ctx[c], pops) \in Seq(Task)
        BY <2>2, <4>1, ResumeTasksType DEF TypeOK
      <4>6. pool' \in Seq(Task)
        BY <4>1, <4>5 DEF TypeOK
      <4> QED
        BY <4>3, <4>4, <4>6
    <3> QED
      BY <3>1, <3>2
  <2>4. TypeOK'
    BY <1>7, <2>1, <2>3 DEF ApplyEvent, TypeOK, handVars, history
  <2>5. OutboxFitsTask'
    BY <1>7 DEF ApplyEvent, OutboxFitsTask
  <2> QED
    BY <2>4, <2>5
<1>8. CASE EventsDone
  <2>1. TypeOK'
    BY <1>8 DEF EventsDone, TypeOK, netVars, handVars, poolVars, history
  <2>2. OutboxFitsTask'
    BY <1>8 DEF EventsDone, OutboxFitsTask, poolVars
  <2> QED
    BY <2>1, <2>2
<1> QED
  BY <1>1, <1>2, <1>3, <1>4, <1>5, <1>6, <1>7, <1>8 DEF WorkerResult

\* Stopping and shutting down keep the types.
LEMMA ShutdownTypeInv ==
  ASSUME TypeInv, Stop \/ Shutdown
  PROVE  TypeInv'
<1> USE DEF TypeInv
<1>0. <<>> \in Seq(ResponseTask)
  OBVIOUS
<1>1. CASE Stop
  <2>1. TypeOK'
    BY <1>1 DEF Stop, TypeOK, netVars, poolVars, ioVars, history
  <2>2. OutboxFitsTask'
    BY <1>1 DEF Stop, OutboxFitsTask, poolVars
  <2> QED
    BY <2>1, <2>2
<1>2. CASE LeaveLoop \/ StopPool \/ Joined
  <2>1. TypeOK'
    BY <1>0, <1>2 DEF LeaveLoop, StopPool, Joined, TypeOK, netVars, handVars, poolVars, history
  <2>2. OutboxFitsTask'
    BY <1>2 DEF LeaveLoop, StopPool, Joined, OutboxFitsTask, poolVars
  <2> QED
    BY <2>1, <2>2
<1>3. ASSUME NEW c \in Conns, CloseClient(c)
      PROVE  TypeInv'
  <2>1. /\ ctx' \in [Conns -> Context] /\ authenticated' \subseteq Users \X Conns
        /\ pool' \in Seq(Task)
    BY <1>3, CloseType DEF CloseClient
  <2>2. TypeOK'
    BY <1>3, <2>1 DEF CloseClient, TypeOK, handVars, ioVars, history
  <2>3. OutboxFitsTask'
    BY <1>3 DEF CloseClient, OutboxFitsTask
  <2> QED
    BY <2>2, <2>3
<1> QED
  BY <1>1, <1>2, <1>3 DEF Shutdown

\* The types are inductive.
LEMMA NextTypeInv == TypeInv /\ [Next]_vars => TypeInv'
<1> SUFFICES ASSUME TypeInv, [Next]_vars
             PROVE  TypeInv'
  OBVIOUS
<1>1. CASE UNCHANGED vars
  BY <1>1 DEF TypeInv, TypeOK, OutboxFitsTask, vars, netVars, handVars, poolVars, ioVars, history
<1>2. CASE Terminated
  BY <1>1, <1>2 DEF Terminated
<1> QED
  BY <1>1, <1>2, SocketTypeInv, WorkTypeInv, WorkerResultTypeInv, ShutdownTypeInv DEF Next

\* TcpServer.cc, every handler: connections, queues, tasks and results keep their
\* types; a worker only hands over what its task produces, and a result that binds
\* a session names a user.
THEOREM TypeCorrect == Spec => []TypeOK
<1>1. Spec => []TypeInv
  BY InitTypeInv, NextTypeInv, PTL DEF Spec
<1>2. TypeInv => TypeOK
  BY DEF TypeInv
<1> QED
  BY <1>1, <1>2, PTL
=============================================================================
