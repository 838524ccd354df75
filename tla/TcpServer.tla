------------------------------ MODULE TcpServer ------------------------------
(***************************************************************************)
(* The request pipeline of src/src/TcpServer.cc: one epoll I/O thread, the *)
(* worker threads of the pool, and what they share: the connections, the   *)
(* queues of completed responses and of post-delivery events, and the      *)
(* eventfd that wakes the I/O thread.                                      *)
(*                                                                         *)
(* A packet read from a connection is handed to the pool or queued behind  *)
(* the connection's running request.  A worker runs the message handler    *)
(* and hands the result back; the I/O thread appends the response to the   *)
(* connection's output, applies the deferred session action, distributes   *)
(* pushes, and starts the next queued request.  Results that carry message *)
(* ids are followed by a "mark delivered" task on the pool: one for the    *)
(* requesting connection delays its next request, one for another          *)
(* connection raises a fence there (pending_delivery_marks_).              *)
(*                                                                         *)
(* The message handler is any implementation of IMessageHandler: each      *)
(* request draws one of the result kinds in Kinds.                         *)
(***************************************************************************)
EXTENDS ConnectionContext, FiniteSets

CONSTANTS
  Conns,        \* connection ids; each is accepted at most once
  Workers,      \* threads of worker_pool_
  Kinds,        \* the results the handler may return
  MaxRequests,  \* bound: packets read from each connection
  MayStop,      \* bound: whether stop() is ever called
  MayFail       \* bound: whether clients hang up, fail or time out

ResultKinds ==
  { "reply",    \* a response only
    "silent",   \* an empty response
    "login",    \* a response and BIND
    "logout",   \* a response and UNBIND
    "send",     \* a response and pushes without message ids
    "notify",   \* a response and pushes with message ids
    "pull",     \* a response with delivered_message_ids
    "throw" }   \* handle() throws

ASSUME KindsAssumption == Kinds \subseteq ResultKinds
ASSUME BoundAssumption == MaxRequests \in [Conns -> Nat] /\ MayStop \in BOOLEAN /\ MayFail \in BOOLEAN
ASSUME NoneAssumption  == None \notin Users
ASSUME ConnsAssumption == IsFiniteSet(Conns)
ASSUME WorkersAssumption == IsFiniteSet(Workers)

VARIABLES
  ctx,           \* the ConnectionContext of every connection
  session,       \* SessionManager: the user each connection is bound to
  authenticated, \* authenticated_connections_, as pairs <<user, connection>>
  stopping,      \* stopping_
  eventFd,       \* the counter of worker_event_fd_ is not zero
  completed,     \* completed_tasks_
  postEvents,    \* post_delivery_events_
  pool,          \* the task queue of worker_pool_
  running,       \* the task each worker executes
  outbox,        \* what each worker is about to hand to the I/O thread
  io,            \* where the I/O thread is
  readyTasks,    \* ready_tasks of onWorkerResultReadable
  readyEvents,   \* ready_events of onWorkerResultReadable
  handled,       \* history: the last request of each connection given to the handler
  answered       \* history: the last request whose response was queued for sending

netVars  == <<ctx, session, authenticated>>
handVars == <<eventFd, completed, postEvents>>
poolVars == <<pool, running, outbox>>
ioVars   == <<io, readyTasks, readyEvents>>
history  == <<handled, answered>>
vars     == <<netVars, stopping, handVars, poolVars, ioVars, history>>

-----------------------------------------------------------------------------
(* Tasks of the pool, results handed back to the I/O thread. *)

Task ==
  [type : {"request", "markSame", "markCross", "cleanup"}, conn : Conns, req : Nat]

ASSUME IdleAssumption == None \notin Task

Request(c, r) == [type |-> "request", conn |-> c, req |-> r]
MarkSame(c)   == [type |-> "markSame", conn |-> c, req |-> 0]
MarkCross(c)  == [type |-> "markCross", conn |-> c, req |-> 0]
Cleanup(c)    == [type |-> "cleanup", conn |-> c, req |-> 0]

\* A login has a user.
ResponseTask ==
  {t \in [conn : Conns, req : Nat, kind : ResultKinds, user : Users \cup {None}, pushes : SUBSET Conns] :
     t.kind = "login" => t.user # None}

PostDeliveryEvent == [conn : Conns, finish : BOOLEAN]

Open(c) == ctx[c].state = "CONNECTED"

\* The sequences that enumerate a finite set, one for each order.
Orderings(S) ==
  {s \in [1..Cardinality(S) -> S] : \A i, j \in DOMAIN s : i # j => s[i] # s[j]}

-----------------------------------------------------------------------------
(* What closeClientFd does to the state: the connection leaves the maps,   *)
(* its queues are cleared, and onConnectionClosed is submitted to the pool.*)

Closed(x) == [ClearPendingRequests(x) EXCEPT !.state = "CLOSED", !.unsent = 0, !.armed = FALSE]

Unregistered(S, c) == {p \in S : p[2] # c}

\* A close that forgets to dispatch onConnectionClosed.
Bug_CloseClientFd(c) ==
  /\ ctx' = [ctx EXCEPT ![c] = Closed(@)]
  /\ authenticated' = Unregistered(authenticated, c)
  /\ pool' = pool

CloseClientFd(c) ==
  /\ ctx' = [ctx EXCEPT ![c] = Closed(@)]
  /\ authenticated' = Unregistered(authenticated, c)
  /\ pool' = Append(pool, Cleanup(c))

-----------------------------------------------------------------------------
Init ==
  /\ ctx = [c \in Conns |-> NewContext]
  /\ session = [c \in Conns |-> None]
  /\ authenticated = {}
  /\ stopping = FALSE
  /\ eventFd = FALSE
  /\ completed = <<>>
  /\ postEvents = <<>>
  /\ pool = <<>>
  /\ running = [w \in Workers |-> None]
  /\ outbox = [w \in Workers |-> None]
  /\ io = "poll"
  /\ readyTasks = <<>>
  /\ readyEvents = <<>>
  /\ handled = [c \in Conns |-> 0]
  /\ answered = [c \in Conns |-> 0]

-----------------------------------------------------------------------------
(* Events of client sockets, acceptLoop.  The I/O thread looks at stopping *)
(* only before and after epoll_wait, so the other events of a batch are    *)
(* still handled after stop() was called.                                  *)

AtSockets == io \in {"poll", "lastBatch"}

Accept(c) ==
  /\ AtSockets
  /\ ctx[c].state = "NEW"
  /\ ctx' = [ctx EXCEPT ![c].state = "CONNECTED"]
  /\ UNCHANGED <<session, authenticated, stopping, handVars, poolVars, ioVars, history>>

\* onReadable, for one packet.
Readable(c) ==
  LET r == ctx[c].received + 1
      x == StartRequestOrQueue(ctx[c], r)
      starts == CanStart(ctx[c])
  IN
  /\ AtSockets
  /\ Open(c) /\ ~ctx[c].peerClosed
  /\ r <= MaxRequests[c]
  /\ \/ /\ starts /\ stopping               \* submitRequestTask fails
        /\ ctx' = [ctx EXCEPT ![c] = Closed(x)]
        /\ authenticated' = Unregistered(authenticated, c)
        /\ pool' = Append(pool, Cleanup(c))
     \/ /\ starts /\ ~stopping
        /\ ctx' = [ctx EXCEPT ![c] = x]
        /\ pool' = Append(pool, Request(c, r))
        /\ UNCHANGED authenticated
     \/ /\ ~starts
        /\ ctx' = [ctx EXCEPT ![c] = x]
        /\ UNCHANGED <<authenticated, pool>>
  /\ UNCHANGED <<session, stopping, handVars, running, outbox, ioVars, history>>

\* An EPOLLOUT event: onWritable sends some packets, and drops EPOLLOUT once
\* nothing is left.  When the peer has shut down, the event also carries
\* EPOLLRDHUP, and the connection is closed once its output is flushed.
Writable(c) ==
  /\ AtSockets
  /\ Open(c) /\ ctx[c].armed
  /\ \E n \in 1..ctx[c].unsent :
       IF n = ctx[c].unsent /\ ctx[c].peerClosed
         THEN CloseClientFd(c)
         ELSE /\ ctx' = [ctx EXCEPT ![c].unsent = @ - n, ![c].armed = n < ctx[c].unsent]
              /\ UNCHANGED <<authenticated, pool>>
  /\ UNCHANGED <<session, stopping, handVars, running, outbox, ioVars, history>>

\* EPOLLIN with EPOLLRDHUP: recv returns 0, and the connection is closed
\* unless some output is still unsent.
HalfClose(c) ==
  /\ MayFail /\ AtSockets
  /\ Open(c) /\ ~ctx[c].peerClosed
  /\ IF ctx[c].unsent = 0
       THEN CloseClientFd(c)
       ELSE /\ ctx' = [ctx EXCEPT ![c].peerClosed = TRUE]
            /\ UNCHANGED <<authenticated, pool>>
  /\ UNCHANGED <<session, stopping, handVars, running, outbox, ioVars, history>>

\* EPOLLERR, a recv or send error, or a packet that is too large.
PeerError(c) ==
  /\ MayFail /\ AtSockets
  /\ Open(c)
  /\ CloseClientFd(c)
  /\ UNCHANGED <<session, stopping, handVars, running, outbox, ioVars, history>>

\* scanConnectionTimeouts finds the idle or heartbeat timeout of c expired.
Timeout(c) ==
  /\ MayFail /\ AtSockets
  /\ Open(c)
  /\ ~ShouldDeferTimeout(ctx[c])
  /\ CloseClientFd(c)
  /\ UNCHANGED <<session, stopping, handVars, running, outbox, ioVars, history>>

-----------------------------------------------------------------------------
(* The worker threads. *)

\* ThreadPool::Taketask.
TakeTask(w) ==
  /\ running[w] = None
  /\ pool # <<>>
  /\ running' = [running EXCEPT ![w] = Head(pool)]
  /\ pool' = Tail(pool)
  /\ UNCHANGED <<netVars, stopping, handVars, outbox, ioVars, history>>

\* The worker is at the start of a task of type ty.
At(w, ty) == running[w] # None /\ outbox[w] = None /\ running[w].type = ty

Finish(w) == running' = [running EXCEPT ![w] = None]

\* The kinds of result a request of a connection can have: what needs a user is
\* refused without one.
PossibleKinds(c) ==
  IF session[c] = None THEN Kinds \ {"logout", "send", "notify", "pull"} ELSE Kinds

\* handler_.handle, which looks up the connections of the user it pushes to.
Result(c, r, kind, u) ==
  [conn |-> c, req |-> r, kind |-> kind, user |-> u,
   pushes |-> IF kind \in {"send", "notify"} THEN {d \in Conns : session[d] = u} ELSE {}]

\* The request lambda of submitRequestTask up to the weak_ptr lock.  The context
\* of a closed connection is gone, or about to go: its results are dropped here
\* or by the I/O thread.
HandleRequest(w) ==
  LET c == running[w].conn
      r == running[w].req
  IN
  /\ At(w, "request")
  /\ handled' = [handled EXCEPT ![c] = r]
  /\ \/ \E kind \in PossibleKinds(c) :
          \E u \in (IF kind \in {"login", "send", "notify"} THEN Users ELSE {None}) :
             outbox' = [outbox EXCEPT ![w] = Result(c, r, kind, u)]
        /\ UNCHANGED running
     \/ /\ ~Open(c)
        /\ Finish(w)
        /\ UNCHANGED outbox
  /\ UNCHANGED <<netVars, stopping, handVars, pool, ioVars, answered>>

\* enqueueResponseTask: refused once the server is stopping; a failed request
\* then clears its connection's queue.
EnqueueResponse(w) ==
  LET t == outbox[w] IN
  /\ running[w] # None /\ running[w].type = "request" /\ t # None
  /\ IF stopping
       THEN /\ ctx' = IF t.kind = "throw" THEN [ctx EXCEPT ![t.conn] = ClearPendingRequests(@)] ELSE ctx
            /\ UNCHANGED <<completed, eventFd>>
       ELSE /\ completed' = Append(completed, t)
            /\ eventFd' = TRUE
            /\ UNCHANGED ctx
  /\ Finish(w) /\ outbox' = [outbox EXCEPT ![w] = None]
  /\ UNCHANGED <<session, authenticated, postEvents, stopping, pool, ioVars, history>>

\* onMessagesDelivered of the batch pushed or returned to the same connection.
MarkSameDone(w) ==
  /\ At(w, "markSame")
  /\ outbox' = [outbox EXCEPT ![w] = [conn |-> running[w].conn, finish |-> TRUE]]
  /\ UNCHANGED <<netVars, stopping, handVars, pool, running, ioVars, history>>

\* The lowered fence is not reported.
Bug_MarkCrossDone(w) ==
  LET c == running[w].conn IN
  /\ At(w, "markCross")
  /\ ctx' = IF Open(c) THEN [ctx EXCEPT ![c] = LowerFence(@)] ELSE ctx
  /\ Finish(w)
  /\ UNCHANGED <<session, authenticated, stopping, handVars, pool, outbox, ioVars, history>>

\* onMessagesDelivered of a batch pushed to another connection, and the lowering
\* of its fence if it is still registered.
MarkCrossDone(w) ==
  LET c == running[w].conn IN
  /\ At(w, "markCross")
  /\ IF Open(c)
       THEN /\ ctx' = [ctx EXCEPT ![c] = LowerFence(@)]
            /\ outbox' = [outbox EXCEPT ![w] = [conn |-> c, finish |-> FALSE]]
            /\ UNCHANGED running
       ELSE /\ Finish(w)
            /\ UNCHANGED <<ctx, outbox>>
  /\ UNCHANGED <<session, authenticated, stopping, handVars, pool, ioVars, history>>

\* The eventfd is not written.
Bug_EnqueueEvent(w) ==
  /\ running[w] # None /\ running[w].type \in {"markSame", "markCross"} /\ outbox[w] # None
  /\ postEvents' = Append(postEvents, outbox[w])
  /\ Finish(w) /\ outbox' = [outbox EXCEPT ![w] = None]
  /\ UNCHANGED <<netVars, stopping, eventFd, completed, pool, ioVars, history>>

\* enqueuePostDeliveryEvent.
EnqueueEvent(w) ==
  /\ running[w] # None /\ running[w].type \in {"markSame", "markCross"} /\ outbox[w] # None
  /\ postEvents' = Append(postEvents, outbox[w])
  /\ eventFd' = TRUE
  /\ Finish(w) /\ outbox' = [outbox EXCEPT ![w] = None]
  /\ UNCHANGED <<netVars, stopping, completed, pool, ioVars, history>>

\* onConnectionClosed: the session of the connection is cleared.
RunCleanup(w) ==
  /\ At(w, "cleanup")
  /\ session' = [session EXCEPT ![running[w].conn] = None]
  /\ Finish(w)
  /\ UNCHANGED <<ctx, authenticated, stopping, handVars, pool, outbox, ioVars, history>>

Work(w) ==
  \/ TakeTask(w) \/ HandleRequest(w) \/ EnqueueResponse(w)
  \/ MarkSameDone(w) \/ MarkCrossDone(w) \/ EnqueueEvent(w) \/ RunCleanup(w)

-----------------------------------------------------------------------------
(* onWorkerResultReadable on the I/O thread: drain the eventfd, take the    *)
(* completed tasks, apply them one by one, then the post-delivery events.   *)

DrainEventFd ==
  /\ io = "poll" /\ eventFd
  /\ eventFd' = FALSE
  /\ io' = "drained"
  /\ UNCHANGED <<netVars, stopping, completed, postEvents, poolVars, readyTasks, readyEvents, history>>

SwapTasks ==
  /\ io = "drained"
  /\ readyTasks' = completed /\ completed' = <<>>
  /\ io' = "tasks"
  /\ UNCHANGED <<netVars, stopping, eventFd, postEvents, poolVars, readyEvents, history>>

\* finishCurrentRequestAndSubmitNext and submitNextQueuedRequestIfIdle, given
\* whether a request is popped from the context x of c, and the context after the
\* pop: what becomes of the context, and the tasks given to the pool.
Resumed(pops, after) == IF pops /\ stopping THEN Closed(after) ELSE after

ResumeTasks(c, x, pops) ==
  IF ~pops THEN <<>> ELSE IF stopping THEN <<Cleanup(c)>> ELSE <<Request(c, Head(x.pending))>>

\* One response task whose connection is gone.
DropResponse ==
  /\ io = "tasks" /\ readyTasks # <<>>
  /\ ~Open(Head(readyTasks).conn)
  /\ readyTasks' = Tail(readyTasks)
  /\ UNCHANGED <<netVars, stopping, handVars, poolVars, io, readyEvents, history>>

\* A task with close_after, or whose response cannot be queued because
\* enableWritableEvent fails: the connection is closed.
FailResponse ==
  LET t == Head(readyTasks) IN
  /\ io = "tasks" /\ readyTasks # <<>>
  /\ Open(t.conn) /\ t.kind # "silent"
  /\ readyTasks' = Tail(readyTasks)
  /\ CloseClientFd(t.conn)
  /\ UNCHANGED <<session, stopping, handVars, running, outbox, io, readyEvents, history>>

\* applyBindSession / applyUnbindSession and the I/O thread's own registration.
SessionAfter(t) ==
  CASE t.kind = "login"  -> [session EXCEPT ![t.conn] = t.user]
    [] t.kind = "logout" -> [session EXCEPT ![t.conn] = None]
    [] OTHER             -> session

UserAfter(t) ==
  CASE t.kind = "login"  -> t.user
    [] t.kind = "logout" -> None
    [] OTHER             -> ctx[t.conn].user

AuthenticatedAfter(t) ==
  CASE t.kind = "login"  -> Unregistered(authenticated, t.conn) \cup {<<t.user, t.conn>>}
    [] t.kind = "logout" -> Unregistered(authenticated, t.conn)
    [] OTHER             -> authenticated

\* The pushes that reach a connection: it is still open and bound to their user.
Bug_Targets(t) == {d \in t.pushes : Open(d)}

Targets(t) == {d \in t.pushes : Open(d) /\ SessionAfter(t)[d] = t.user}

\* The other connections whose pushes carry message ids: their fence is raised.
Fenced(t, bad) == IF t.kind = "notify" THEN Targets(t) \ {t.conn, bad} ELSE {}

\* Whether the next request of the connection waits for a mark-delivered task.
Deferred(t, bad) == t.kind = "pull" \/ (t.kind = "notify" /\ t.conn \in Targets(t) \ {bad})

\* The context of d once the response and the pushes of t are appended: a push
\* target whose enableWritableEvent fails is closed.
Broken(t, bad) == Targets(t) \cap {bad}

Sent(t, bad, d) ==
    (IF d = t.conn /\ t.kind # "silent" THEN 1 ELSE 0)
  + (IF d \in Targets(t) \ {bad} THEN 1 ELSE 0)

Delivered(t, bad, d) ==
  IF d \in Broken(t, bad) THEN Closed(ctx[d])
  ELSE LET y == [AppendPendingSend(ctx[d], Sent(t, bad, d)) EXCEPT
                   !.user = IF d = t.conn THEN UserAfter(t) ELSE @]
       IN  IF d \in Fenced(t, bad) THEN RaiseFence(y) ELSE y

\* One response task, with bad the push target that fails, if any.  The fences of
\* the other targets are raised in any order.
ApplyResponse(bad) ==
  LET t       == Head(readyTasks)
      c       == t.conn
      x       == Delivered(t, bad, c)
      pops    == FinishPops(x) /\ ~Deferred(t, bad)
      refused == pops /\ stopping
  IN
  /\ io = "tasks" /\ readyTasks # <<>>
  /\ Open(c) /\ t.kind # "throw"
  /\ bad \in Targets(t) \cup {None}
  /\ readyTasks' = Tail(readyTasks)
  /\ session' = SessionAfter(t)
  /\ authenticated' =
       {p \in AuthenticatedAfter(t) : p[2] \notin Broken(t, bad) /\ (refused => p[2] # c)}
  /\ ctx' = [d \in Conns |->
               IF d = c /\ ~Deferred(t, bad)
                 THEN Resumed(pops, FinishRequestAndPopNext(x))
                 ELSE Delivered(t, bad, d)]
  /\ \E order \in Orderings(Fenced(t, bad)) :
       pool' = pool \o (IF Broken(t, bad) = {} THEN <<>> ELSE <<Cleanup(bad)>>)
                    \o [i \in DOMAIN order |-> MarkCross(order[i])]
                    \o (IF Deferred(t, bad) THEN <<MarkSame(c)>> ELSE ResumeTasks(c, x, pops))
  /\ answered' = IF t.kind = "silent" THEN answered ELSE [answered EXCEPT ![c] = t.req]
  /\ UNCHANGED <<stopping, handVars, running, outbox, io, readyEvents, handled>>

\* An eventfd that is drained once the queues have been taken.
Bug_SwapEvents ==
  /\ io = "tasks" /\ readyTasks = <<>>
  /\ readyEvents' = postEvents /\ postEvents' = <<>>
  /\ eventFd' = FALSE
  /\ io' = "events"
  /\ UNCHANGED <<netVars, stopping, completed, poolVars, readyTasks, history>>

SwapEvents ==
  /\ io = "tasks" /\ readyTasks = <<>>
  /\ readyEvents' = postEvents /\ postEvents' = <<>>
  /\ io' = "events"
  /\ UNCHANGED <<netVars, stopping, eventFd, completed, poolVars, readyTasks, history>>

\* One post-delivery event.
ApplyEvent ==
  LET e    == Head(readyEvents)
      c    == e.conn
      x    == ctx[c]
      pops == IF e.finish THEN FinishPops(x) ELSE IdlePops(x)
      after == IF e.finish THEN FinishRequestAndPopNext(x) ELSE PopNextRequestIfIdle(x)
  IN
  /\ io = "events" /\ readyEvents # <<>>
  /\ readyEvents' = Tail(readyEvents)
  /\ IF Open(c)
       THEN /\ ctx' = [ctx EXCEPT ![c] = Resumed(pops, after)]
            /\ authenticated' = IF pops /\ stopping THEN Unregistered(authenticated, c) ELSE authenticated
            /\ pool' = pool \o ResumeTasks(c, x, pops)
       ELSE UNCHANGED <<ctx, authenticated, pool>>
  /\ UNCHANGED <<session, stopping, handVars, running, outbox, io, readyTasks, history>>

\* The rest of the batch comes next, and epoll_wait unless the server is stopping.
EventsDone ==
  /\ io = "events" /\ readyEvents = <<>>
  /\ io' = IF stopping THEN "lastBatch" ELSE "poll"
  /\ UNCHANGED <<netVars, stopping, handVars, poolVars, readyTasks, readyEvents, history>>

WorkerResult ==
  \/ DrainEventFd \/ SwapTasks \/ DropResponse \/ FailResponse
  \/ \E bad \in Conns \cup {None} : ApplyResponse(bad)
  \/ SwapEvents \/ ApplyEvent \/ EventsDone

-----------------------------------------------------------------------------
(* Shutdown: stop() from any thread, then cleanup_resources of start() on  *)
(* the I/O thread: close every client, stop the pool after it has drained  *)
(* its queue, and discard what the workers still completed.                *)

\* A stop() that does not wake the I/O thread.
Bug_Stop ==
  /\ MayStop /\ ~stopping
  /\ stopping' = TRUE
  /\ UNCHANGED <<netVars, handVars, poolVars, ioVars, history>>

Stop ==
  /\ MayStop /\ ~stopping
  /\ stopping' = TRUE
  /\ eventFd' = TRUE
  /\ UNCHANGED <<netVars, completed, postEvents, poolVars, ioVars, history>>

\* epoll_wait returns and stopping is set, or the last batch is done.
LeaveLoop ==
  /\ (io = "poll" /\ stopping /\ eventFd) \/ io = "lastBatch"
  /\ io' = "closing"
  /\ UNCHANGED <<netVars, stopping, handVars, poolVars, readyTasks, readyEvents, history>>

CloseClient(c) ==
  /\ io = "closing"
  /\ Open(c)
  /\ CloseClientFd(c)
  /\ UNCHANGED <<session, stopping, handVars, running, outbox, ioVars, history>>

StopPool ==
  /\ io = "closing"
  /\ \A c \in Conns : ~Open(c)
  /\ io' = "joining"
  /\ UNCHANGED <<netVars, stopping, handVars, poolVars, readyTasks, readyEvents, history>>

\* A shutdown that does not wait for the queue of the pool.
Bug_Joined ==
  /\ io = "joining"
  /\ \A w \in Workers : running[w] = None
  /\ completed' = <<>>
  /\ io' = "stopped"
  /\ UNCHANGED <<netVars, stopping, eventFd, postEvents, poolVars, readyTasks, readyEvents, history>>

Joined ==
  /\ io = "joining"
  /\ pool = <<>> /\ \A w \in Workers : running[w] = None
  /\ completed' = <<>>
  /\ io' = "stopped"
  /\ UNCHANGED <<netVars, stopping, eventFd, postEvents, poolVars, readyTasks, readyEvents, history>>

Shutdown == LeaveLoop \/ (\E c \in Conns : CloseClient(c)) \/ StopPool \/ Joined

\* The stopped server does nothing more.
Terminated == io = "stopped" /\ UNCHANGED vars

-----------------------------------------------------------------------------
Socket(c) ==
  Accept(c) \/ Readable(c) \/ Writable(c) \/ HalfClose(c) \/ PeerError(c) \/ Timeout(c)

Next ==
  \/ \E c \in Conns : Socket(c)
  \/ \E w \in Workers : Work(w)
  \/ WorkerResult
  \/ Stop \/ Shutdown \/ Terminated

Spec == Init /\ [][Next]_vars

\* The threads keep running, and a socket with room for output is reported.
\* Nothing is assumed of clients, of the timer or of who calls stop().
Fairness ==
  /\ \A w \in Workers : WF_vars(Work(w))
  /\ WF_vars(WorkerResult)
  /\ WF_vars(Shutdown)
  /\ \A c \in Conns : WF_vars(Writable(c))

FairSpec == Spec /\ Fairness

-----------------------------------------------------------------------------
(* Properties. *)

TypeOK ==
  /\ ctx \in [Conns -> Context]
  /\ session \in [Conns -> Users \cup {None}]
  /\ authenticated \subseteq Users \X Conns
  /\ stopping \in BOOLEAN
  /\ eventFd \in BOOLEAN
  /\ completed \in Seq(ResponseTask)
  /\ postEvents \in Seq(PostDeliveryEvent)
  /\ pool \in Seq(Task)
  /\ running \in [Workers -> Task \cup {None}]
  /\ outbox \in [Workers -> ResponseTask \cup PostDeliveryEvent \cup {None}]
  /\ io \in {"poll", "drained", "tasks", "events", "lastBatch", "closing", "joining", "stopped"}
  /\ readyTasks \in Seq(ResponseTask)
  /\ readyEvents \in Seq(PostDeliveryEvent)
  /\ handled \in [Conns -> Nat]
  /\ answered \in [Conns -> Nat]

\* The tasks, results and events that will finish the current request of c.
Tokens(c) ==
  LET ofTask(k) == k # None /\ k.conn = c /\ k.type \in {"request", "markSame"} IN
    Cardinality({i \in DOMAIN pool : ofTask(pool[i])})
  + Cardinality({w \in Workers : ofTask(running[w])})
  + Cardinality({i \in DOMAIN completed : completed[i].conn = c})
  + Cardinality({i \in DOMAIN readyTasks : readyTasks[i].conn = c})
  + Cardinality({i \in DOMAIN postEvents : postEvents[i] = [conn |-> c, finish |-> TRUE]})
  + Cardinality({i \in DOMAIN readyEvents : readyEvents[i] = [conn |-> c, finish |-> TRUE]})

\* The cross-connection mark tasks of c that have not lowered the fence yet.
OpenMarks(c) ==
  LET ofTask(k) == k # None /\ k.conn = c /\ k.type = "markCross" IN
    Cardinality({i \in DOMAIN pool : ofTask(pool[i])})
  + Cardinality({w \in Workers : ofTask(running[w]) /\ outbox[w] = None})

\* Requests of one connection run one at a time: an open connection has a request
\* in flight exactly when one task, result or event that will finish it is under
\* way, and never more than one; only results refused during shutdown are lost.
OneRequestInFlight ==
  \A c \in Conns : Open(c) =>
    IF ctx[c].inFlight THEN Tokens(c) = 1 \/ (stopping /\ Tokens(c) = 0) ELSE Tokens(c) = 0

\* The fence of an open connection counts exactly the mark-delivered tasks that
\* other connections' pushes have started for it and that are not finished.
FenceCountsMarks == \A c \in Conns : Open(c) => ctx[c].marks = OpenMarks(c)

\* A request that waits in a connection's queue has something that will start it:
\* the running request, the fence, or an event that reports the fence's end.
QueuedRequestHasStarter ==
  \A c \in Conns : Open(c) /\ ctx[c].pending # <<>> /\ ~stopping =>
    \/ ctx[c].inFlight
    \/ ctx[c].marks > 0
    \/ \E w \in Workers : outbox[w] = [conn |-> c, finish |-> FALSE]
    \/ \E i \in DOMAIN postEvents : postEvents[i].conn = c
    \/ \E i \in DOMAIN readyEvents : readyEvents[i].conn = c

\* A connection the timeout scan may close has no work anywhere: every packet
\* read from it was handled, and no task, result or mark of it is outstanding.
TimeoutFindsIdle ==
  \A c \in Conns : Open(c) /\ ~stopping /\ ~ShouldDeferTimeout(ctx[c]) =>
    /\ Tokens(c) = 0 /\ OpenMarks(c) = 0
    /\ handled[c] = ctx[c].received

\* What workers handed over is never forgotten: the eventfd is readable, or the
\* I/O thread has yet to take the queue.
HandoverWakesIo ==
  /\ completed # <<>> => eventFd \/ io \in {"drained", "closing", "joining"}
  /\ postEvents # <<>> => eventFd \/ io \in {"drained", "tasks", "closing", "joining", "stopped"}

\* Whether t is the cleanup task of c, whether the sequence s holds one, and
\* whether c's cleanup is still to run.
IsCleanup(t, c) == t # None /\ t.type = "cleanup" /\ t.conn = c

HasCleanup(s, c) == \E i \in DOMAIN s : IsCleanup(s[i], c)

CleanupPending(c) ==
  \/ HasCleanup(pool, c)
  \/ \E w \in Workers : IsCleanup(running[w], c)

\* A session never outlives its connection: it belongs to an open connection, or
\* the cleanup that clears it is still to come.
NoOrphanSession == \A c \in Conns : session[c] # None => Open(c) \/ CleanupPending(c)

\* The three records of who is logged in on an open connection agree: the
\* connection's metadata, the session manager and the I/O thread's index, which
\* holds nothing else.
LoginRecordsAgree ==
  /\ \A c \in Conns : Open(c) =>
       /\ ctx[c].user = session[c]
       /\ \A u \in Users : <<u, c>> \in authenticated <=> session[c] = u
  /\ \A p \in authenticated : Open(p[2])

\* Unsent output of an open connection always has EPOLLOUT armed, and no
\* connection keeps EPOLLOUT without output: no stuck output, no busy loop.
OutputArmed == \A c \in Conns : Open(c) => (ctx[c].armed <=> ctx[c].unsent > 0)

\* A stopped server has closed every connection, cleared every session, and left
\* no task behind.
StoppedClean ==
  io = "stopped" =>
    /\ \A c \in Conns : ~Open(c) /\ session[c] = None
    /\ pool = <<>> /\ completed = <<>> /\ authenticated = {}

\* Requests of c that are in the pool's queue.
Queued(c) == {i \in DOMAIN pool : pool[i].type = "request" /\ pool[i].conn = c}

\* No request starts behind a raised fence: when a request of a connection is
\* given to the pool, every delivery mark of that connection has been written.
FenceHoldsRequests ==
  [][\A c \in Conns :
       Cardinality(Queued(c)') > Cardinality(Queued(c)) => OpenMarks(c)' = 0]_vars

\* Output is appended only for the user that is logged in on the connection when
\* it is appended: a push that was addressed before a logout or a new login of
\* the connection is dropped.
PushesReachTheirUser ==
  [][\A c \in Conns : readyTasks # <<>> /\ readyTasks' = Tail(readyTasks) =>
       LET t == Head(readyTasks) IN
         (c # t.conn /\ ctx'[c].unsent > ctx[c].unsent) => session[c] = t.user]_vars

\* Every packet read is handed to the handler, unless its connection is closed
\* or the server stops.
RequestsAreHandled ==
  \A c \in Conns : \A n \in 1..MaxRequests[c] :
    ctx[c].received >= n ~> (handled[c] >= n \/ ~Open(c) \/ stopping)

\* stop() leads to a stopped server.
StopCompletes == stopping ~> io = "stopped"

\* The pipeline seen through the packet counters of its connections.
Serial == INSTANCE SerialConnections WITH
  state <- [c \in Conns |-> ctx[c].state], received <- [c \in Conns |-> ctx[c].received]

\* The pipeline implements serial connections: the requests of a connection are
\* handled one at a time, in order, at most once, and answered before the next
\* one is handled, whatever workers, pushes, fences and closes interleave.
ConnectionsAreSerial == Serial!Spec

\* "Keep socket alive until pending response is drained" (onReadable): a
\* half-close of the peer does not close a connection whose request is in flight.
HalfCloseKeepsRequest ==
  [][\A c \in Conns : HalfClose(c) /\ ctx[c].inFlight => ctx'[c].state = "CONNECTED"]_vars
=============================================================================
