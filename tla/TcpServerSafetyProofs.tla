------------------------ MODULE TcpServerSafetyProofs ------------------------
(***************************************************************************)
(* Proofs about TcpServer: the agreement of the login records, the cleanup *)
(* of sessions, the arming of EPOLLOUT, the wakeups of the I/O thread and  *)
(* the state of a stopped server, for every set of connections, workers    *)
(* and users and every handler.                                            *)
(***************************************************************************)
EXTENDS TcpServerProofs

\* The inductive invariant of one connection.  The cleanup of a connection is only
\* submitted once it is closed, a connection not accepted yet has no session, and
\* a closed one has none either or its cleanup is still to come.
ConnOk(c) ==
  /\ ctx[c].state # "CLOSED" =>
       /\ ~CleanupPending(c)
       /\ ctx[c].user = session[c]
       /\ \A u \in Users : <<u, c>> \in authenticated <=> session[c] = u
       /\ ctx[c].armed <=> ctx[c].unsent > 0
  /\ ctx[c].state = "NEW" => session[c] = None
  /\ ctx[c].state = "CLOSED" =>
       /\ session[c] # None => CleanupPending(c)
       /\ \A u \in Users : <<u, c>> \notin authenticated

ConnInv == \A c \in Conns : ConnOk(c)

-----------------------------------------------------------------------------
(* Cleanup tasks in the queue of the pool *)

\* A submitted task adds a cleanup when it is one.
LEMMA AppendCleanup ==
  ASSUME NEW s \in Seq(Task), NEW t \in Task, NEW c
  PROVE  HasCleanup(Append(s, t), c) <=> HasCleanup(s, c) \/ IsCleanup(t, c)
<1>1. DOMAIN s = 1..Len(s) /\ DOMAIN Append(s, t) = 1..(Len(s) + 1) /\ Len(s) \in Nat
  OBVIOUS
<1>2. \A i \in 1..Len(s) : Append(s, t)[i] = s[i]
  OBVIOUS
<1>3. Append(s, t)[Len(s) + 1] = t
  OBVIOUS
<1>4. \A i \in 1..(Len(s) + 1) : i \in 1..Len(s) \/ i = Len(s) + 1
  BY <1>1
<1>5. 1..Len(s) \subseteq 1..(Len(s) + 1) /\ Len(s) + 1 \in 1..(Len(s) + 1)
  BY <1>1
<1> QED
  BY <1>1, <1>2, <1>3, <1>4, <1>5, Zenon DEF HasCleanup

\* The cleanups of a concatenation are those of its parts.
LEMMA ConcatCleanup ==
  ASSUME NEW s \in Seq(Task), NEW t \in Seq(Task), NEW c
  PROVE  HasCleanup(s \o t, c) <=> HasCleanup(s, c) \/ HasCleanup(t, c)
<1>1. /\ DOMAIN s = 1..Len(s) /\ DOMAIN t = 1..Len(t) /\ Len(s) \in Nat /\ Len(t) \in Nat
      /\ DOMAIN (s \o t) = 1..(Len(s) + Len(t))
  OBVIOUS
<1>2. \A i \in 1..Len(s) : i \in 1..(Len(s) + Len(t)) /\ (s \o t)[i] = s[i]
  BY <1>1
<1>3. \A i \in 1..Len(t) : Len(s) + i \in 1..(Len(s) + Len(t)) /\ (s \o t)[Len(s) + i] = t[i]
  BY <1>1
<1>4. \A i \in 1..(Len(s) + Len(t)) :
        (i \in 1..Len(s) /\ (s \o t)[i] = s[i])
        \/ (i - Len(s) \in 1..Len(t) /\ (s \o t)[i] = t[i - Len(s)])
  BY <1>1
<1> QED
  BY <1>1, <1>2, <1>3, <1>4, Zenon DEF HasCleanup

\* The cleanups of a queue are those of its head and its tail.
LEMMA HeadTailCleanup ==
  ASSUME NEW s \in Seq(Task), s # <<>>, NEW c
  PROVE  HasCleanup(s, c) <=> IsCleanup(Head(s), c) \/ HasCleanup(Tail(s), c)
<1>1. /\ Len(s) \in Nat /\ Len(s) > 0 /\ Len(Tail(s)) = Len(s) - 1
      /\ DOMAIN s = 1..Len(s) /\ DOMAIN Tail(s) = 1..(Len(s) - 1) /\ Head(s) = s[1]
  OBVIOUS
<1>2. \A i \in 1..(Len(s) - 1) : i + 1 \in 1..Len(s) /\ Tail(s)[i] = s[i + 1]
  BY <1>1
<1>3. \A i \in 1..Len(s) : i = 1 \/ (i - 1 \in 1..(Len(s) - 1) /\ Tail(s)[i - 1] = s[i])
  BY <1>1
<1>4. 1 \in 1..Len(s)
  BY <1>1
<1> QED
  BY <1>1, <1>2, <1>3, <1>4, Zenon DEF HasCleanup

\* No cleanup in an empty queue; requests and marks are none.
LEMMA OtherTasks ==
  ASSUME NEW c \in Conns, NEW d, NEW r \in Nat
  PROVE  /\ ~HasCleanup(<<>>, d)
         /\ ~IsCleanup(Request(c, r), d) /\ ~IsCleanup(MarkSame(c), d) /\ ~IsCleanup(MarkCross(c), d)
         /\ IsCleanup(Cleanup(c), d) <=> c = d
<1>1. Cleanup(c) # None
  BY TaskTypes, IdleAssumption
<1> QED
  BY <1>1 DEF HasCleanup, IsCleanup, Request, MarkSame, MarkCross, Cleanup

-----------------------------------------------------------------------------
(* Steps seen from one connection *)

\* A step that leaves the login, the output and the cleanup of a connection alone
\* keeps its invariant.
LEMMA KeepConn ==
  ASSUME NEW d \in Conns, ConnOk(d),
         ctx'[d].state = ctx[d].state, ctx'[d].user = ctx[d].user,
         (ctx[d].armed <=> ctx[d].unsent > 0) => (ctx'[d].armed <=> ctx'[d].unsent > 0),
         session'[d] = session[d],
         \A u \in Users : <<u, d>> \in authenticated' <=> <<u, d>> \in authenticated,
         CleanupPending(d)' <=> CleanupPending(d)
  PROVE  ConnOk(d)'
  BY Zenon DEF ConnOk

\* A step that closes a connection and submits its cleanup gives the invariant.
LEMMA CloseConn ==
  ASSUME NEW d \in Conns, ctx'[d].state = "CLOSED", CleanupPending(d)',
         \A u \in Users : <<u, d>> \notin authenticated'
  PROVE  ConnOk(d)'
  BY DEF ConnOk
\* A step that closes the connection c, as closeClientFd does, from a context z.
LEMMA CloseConns ==
  ASSUME TypeOK, ConnInv, NEW c \in Conns, NEW z \in Context,
         ctx' = [ctx EXCEPT ![c] = Closed(z)],
         authenticated' = Unregistered(authenticated, c),
         pool' = Append(pool, Cleanup(c)),
         UNCHANGED <<session, running>>
  PROVE  ConnInv'
<1> SUFFICES ASSUME NEW d \in Conns PROVE ConnOk(d)'
  BY DEF ConnInv
<1>1. Cleanup(c) \in Task /\ pool \in Seq(Task) /\ ctx \in [Conns -> Context]
  BY TaskTypes DEF TypeOK
<1>2. HasCleanup(pool', d) <=> HasCleanup(pool, d) \/ c = d
  <2>1. HasCleanup(Append(pool, Cleanup(c)), d) <=> HasCleanup(pool, d) \/ IsCleanup(Cleanup(c), d)
    BY <1>1, AppendCleanup
  <2>2. IsCleanup(Cleanup(c), d) <=> c = d
    BY OtherTasks
  <2> QED
    BY <2>1, <2>2
<1>3. CASE d = c
  <2>1. ctx'[d].state = "CLOSED"
    BY <1>1, <1>3, ClosedContext
  <2>2. CleanupPending(d)'
    BY <1>2, <1>3 DEF CleanupPending
  <2>3. \A u \in Users : <<u, d>> \notin authenticated'
    BY <1>3 DEF Unregistered
  <2> QED
    BY <2>1, <2>2, <2>3, CloseConn
<1>4. CASE d # c
  <2>1. ctx'[d] = ctx[d] /\ session'[d] = session[d]
    BY <1>1, <1>4
  <2>2. CleanupPending(d)' <=> CleanupPending(d)
    BY <1>2, <1>4 DEF CleanupPending
  <2>3. \A u \in Users : <<u, d>> \in authenticated' <=> <<u, d>> \in authenticated
    BY <1>4 DEF Unregistered
  <2>4. ConnOk(d)
    BY DEF ConnInv
  <2> QED
    BY <2>1, <2>2, <2>3, <2>4, KeepConn
<1> QED
  BY <1>3, <1>4

\* A step that gives the connection c a context z with the same login.
LEMMA KeepConns ==
  ASSUME TypeOK, ConnInv, NEW c \in Conns, NEW z \in Context,
         z.state = ctx[c].state, z.user = ctx[c].user,
         (ctx[c].armed <=> ctx[c].unsent > 0) => (z.armed <=> z.unsent > 0),
         ctx' = [ctx EXCEPT ![c] = z],
         UNCHANGED <<session, authenticated>>,
         \A d \in Conns : CleanupPending(d)' <=> CleanupPending(d)
  PROVE  ConnInv'
<1> SUFFICES ASSUME NEW d \in Conns PROVE ConnOk(d)'
  BY DEF ConnInv
<1>1. ctx \in [Conns -> Context]
  BY DEF TypeOK
<1>2. /\ ctx'[d].state = ctx[d].state /\ ctx'[d].user = ctx[d].user
      /\ (ctx[d].armed <=> ctx[d].unsent > 0) => (ctx'[d].armed <=> ctx'[d].unsent > 0)
  BY <1>1
<1>3. ConnOk(d)
  BY DEF ConnInv
<1> QED
  BY <1>2, <1>3, KeepConn

\* closeClientFd keeps the invariant of every connection.
LEMMA CloseClientConns ==
  ASSUME TypeOK, ConnInv, NEW c \in Conns, CloseClientFd(c), UNCHANGED <<session, running>>
  PROVE  ConnInv'
<1>1. ctx[c] \in Context
  BY DEF TypeOK
<1> QED
  BY <1>1, CloseConns DEF CloseClientFd

\* The pool keeps its cleanups when it and the running tasks stay, or when a
\* request is submitted.
LEMMA SamePool ==
  ASSUME TypeOK, UNCHANGED running,
         pool' = pool \/ (\E c \in Conns, r \in Nat : pool' = Append(pool, Request(c, r))),
         NEW d \in Conns
  PROVE  CleanupPending(d)' <=> CleanupPending(d)
<1>1. CASE pool' = pool
  BY <1>1 DEF CleanupPending
<1>2. ASSUME NEW c \in Conns, NEW r \in Nat, pool' = Append(pool, Request(c, r))
      PROVE  CleanupPending(d)' <=> CleanupPending(d)
  <2>1. Request(c, r) \in Task /\ pool \in Seq(Task)
    BY TaskTypes DEF TypeOK
  <2>2. HasCleanup(pool', d) <=> HasCleanup(pool, d)
    BY <1>2, <2>1, AppendCleanup, OtherTasks
  <2> QED
    BY <2>2 DEF CleanupPending
<1> QED
  BY <1>1, <1>2

\* Every event of a client socket keeps the invariant of every connection.
LEMMA SocketConnInv ==
  ASSUME TypeOK, ConnInv, NEW c \in Conns, Socket(c)
  PROVE  ConnInv'
<1>0. ctx \in [Conns -> Context] /\ ctx[c] \in Context
  BY DEF TypeOK
<1>1. CASE Accept(c)
  <2> SUFFICES ASSUME NEW d \in Conns PROVE ConnOk(d)'
    BY DEF ConnInv
  <2>1. UNCHANGED <<session, authenticated, pool, running>> /\ ctx[c].state = "NEW"
    BY <1>1 DEF Accept, poolVars
  <2>2. ConnOk(d) /\ (CleanupPending(d)' <=> CleanupPending(d))
    BY <2>1, SamePool DEF ConnInv
  <2>3. CASE d = c
    <3>1. /\ ctx'[d].state = "CONNECTED" /\ ctx'[d].user = ctx[d].user
          /\ ctx'[d].armed = ctx[d].armed /\ ctx'[d].unsent = ctx[d].unsent
      BY <1>0, <1>1, <2>3 DEF Accept, Context
    <3> QED
      BY <2>1, <2>2, <2>3, <3>1 DEF ConnOk
  <2>4. CASE d # c
    <3>1. ctx'[d] = ctx[d]
      BY <1>0, <1>1, <2>4 DEF Accept
    <3> QED
      BY <2>1, <2>2, <3>1, KeepConn
  <2> QED
    BY <2>3, <2>4
<1>2. CASE Readable(c)
  <2> DEFINE r == ctx[c].received + 1
             x == StartRequestOrQueue(ctx[c], r)
  <2>1. r \in Nat
    BY <1>0 DEF Context
  <2>2. x \in Context /\ SameLogin(ctx[c], x)
    BY <1>0, <2>1, StartContext
  <2> HIDE DEF x
  <2>3. CASE /\ ctx' = [ctx EXCEPT ![c] = Closed(x)]
             /\ authenticated' = Unregistered(authenticated, c)
             /\ pool' = Append(pool, Cleanup(c))
    <3>1. UNCHANGED <<session, running>>
      BY <1>2 DEF Readable
    <3> QED
      BY <2>2, <2>3, <3>1, CloseConns
  <2>4. CASE /\ ctx' = [ctx EXCEPT ![c] = x] /\ UNCHANGED authenticated
             /\ pool' = pool \/ pool' = Append(pool, Request(c, r))
    <3>1. UNCHANGED <<session, running>>
      BY <1>2 DEF Readable
    <3>2. \A d \in Conns : CleanupPending(d)' <=> CleanupPending(d)
      BY <2>1, <2>4, <3>1, SamePool
    <3>3. /\ x.state = ctx[c].state /\ x.user = ctx[c].user
          /\ (ctx[c].armed <=> ctx[c].unsent > 0) => (x.armed <=> x.unsent > 0)
      BY <2>2 DEF SameLogin
    <3> QED
      BY <2>2, <2>4, <3>1, <3>2, <3>3, KeepConns
  <2> QED
    BY <1>2, <2>3, <2>4 DEF Readable, x
<1>3. CASE Writable(c)
  <2>1. PICK n \in 1..ctx[c].unsent :
          IF n = ctx[c].unsent /\ ctx[c].peerClosed
            THEN CloseClientFd(c)
            ELSE /\ ctx' = [ctx EXCEPT ![c].unsent = @ - n, ![c].armed = n < ctx[c].unsent]
                 /\ UNCHANGED <<authenticated, pool>>
    BY <1>3 DEF Writable
  <2>2. UNCHANGED <<session, running>>
    BY <1>3 DEF Writable
  <2>3. CASE ctx' = [ctx EXCEPT ![c].unsent = @ - n, ![c].armed = n < ctx[c].unsent]
             /\ UNCHANGED <<authenticated, pool>>
    <3> DEFINE m == ctx[c].unsent - n
               b == n < ctx[c].unsent
               z == [ctx[c] EXCEPT !.unsent = m, !.armed = b]
    <3>1. m \in Nat /\ b \in BOOLEAN /\ (b <=> m > 0)
      BY <1>0 DEF Context
    <3>2. ctx' = [ctx EXCEPT ![c] = z]
      BY <2>3, <1>0 DEF Context
    <3> HIDE DEF m, b
    <3>3. z \in Context
      BY <3>1, <1>0, UpdateOutput
    <3>4. z.state = ctx[c].state /\ z.user = ctx[c].user /\ z.armed = b /\ z.unsent = m
      BY <1>0 DEF Context
    <3>5. \A d \in Conns : CleanupPending(d)' <=> CleanupPending(d)
      BY <2>2, <2>3, SamePool
    <3> HIDE DEF z
    <3>6. z.armed <=> z.unsent > 0
      BY <3>1, <3>4
    <3> QED
      BY <2>2, <2>3, <3>2, <3>3, <3>4, <3>5, <3>6, KeepConns
  <2> QED
    BY <2>1, <2>2, <2>3, CloseClientConns
<1>4. CASE HalfClose(c)
  <2>1. UNCHANGED <<session, running>>
    BY <1>4 DEF HalfClose
  <2>2. CASE CloseClientFd(c)
    BY <2>1, <2>2, CloseClientConns
  <2>3. CASE ctx' = [ctx EXCEPT ![c].peerClosed = TRUE] /\ UNCHANGED <<authenticated, pool>>
    <3> DEFINE z == [ctx[c] EXCEPT !.peerClosed = TRUE]
    <3>1. ctx' = [ctx EXCEPT ![c] = z]
      BY <1>0, <2>3 DEF Context
    <3>2. /\ z \in Context /\ z.state = ctx[c].state /\ z.user = ctx[c].user
          /\ z.armed = ctx[c].armed /\ z.unsent = ctx[c].unsent
      BY <1>0 DEF Context
    <3>3. \A d \in Conns : CleanupPending(d)' <=> CleanupPending(d)
      BY <2>1, <2>3, SamePool
    <3> HIDE DEF z
    <3> QED
      BY <2>1, <2>3, <3>1, <3>2, <3>3, KeepConns
  <2> QED
    BY <1>4, <2>2, <2>3 DEF HalfClose
<1>5. CASE PeerError(c) \/ Timeout(c)
  BY <1>5, CloseClientConns DEF PeerError, Timeout
<1> QED
  BY <1>1, <1>2, <1>3, <1>4, <1>5 DEF Socket
\* A worker that ends a task other than a cleanup keeps the pending cleanups.
LEMMA FinishOther ==
  ASSUME TypeOK, NEW w \in Workers, UNCHANGED pool,
         running' = running \/ (Finish(w) /\ (running[w] = None \/ running[w].type # "cleanup")),
         NEW d \in Conns
  PROVE  CleanupPending(d)' <=> CleanupPending(d)
<1>1. running \in [Workers -> Task \cup {None}]
  BY DEF TypeOK
<1>2. \A v \in Workers : IsCleanup(running'[v], d) <=> IsCleanup(running[v], d)
  BY <1>1 DEF Finish, IsCleanup
<1> QED
  BY <1>2 DEF CleanupPending

\* A step that leaves every login alone keeps the invariant.
LEMMA KeepAll ==
  ASSUME ConnInv, UNCHANGED <<ctx, session, authenticated>>,
         \A d \in Conns : CleanupPending(d)' <=> CleanupPending(d)
  PROVE  ConnInv'
<1> SUFFICES ASSUME NEW d \in Conns PROVE ConnOk(d)'
  BY DEF ConnInv
<1>1. ConnOk(d)
  BY DEF ConnInv
<1> QED
  BY <1>1, KeepConn

\* Every step of a worker keeps the invariant of every connection.
LEMMA WorkConnInv ==
  ASSUME TypeInv, ConnInv, NEW w \in Workers, Work(w)
  PROVE  ConnInv'
<1>0. TypeOK /\ running \in [Workers -> Task \cup {None}] /\ ctx \in [Conns -> Context]
  BY DEF TypeInv, TypeOK
<1>1. CASE TakeTask(w)
  <2>1. \A d \in Conns : CleanupPending(d)' <=> CleanupPending(d)
    <3> TAKE d \in Conns
    <3>1. pool \in Seq(Task) /\ pool # <<>> /\ running[w] = None
      BY <1>1 DEF TakeTask, TypeInv, TypeOK
    <3>2. HasCleanup(pool, d) <=> IsCleanup(Head(pool), d) \/ HasCleanup(pool', d)
      BY <1>1, <3>1, HeadTailCleanup DEF TakeTask
    <3>3. running'[w] = Head(pool) /\ \A v \in Workers \ {w} : running'[v] = running[v]
      BY <1>0, <1>1 DEF TakeTask
    <3>4. ~IsCleanup(running[w], d)
      BY <3>1 DEF IsCleanup
    <3>5. (\E v \in Workers : IsCleanup(running'[v], d))
            <=> IsCleanup(Head(pool), d) \/ \E v \in Workers : IsCleanup(running[v], d)
      BY <3>3, <3>4, Zenon
    <3> QED
      BY <3>2, <3>5 DEF CleanupPending
  <2> QED
    BY <1>1, <2>1, KeepAll DEF TakeTask, netVars
<1>2. CASE HandleRequest(w)
  <2>1. /\ UNCHANGED <<ctx, session, authenticated, pool>>
        /\ running' = running \/ (Finish(w) /\ running[w].type # "cleanup")
    BY <1>2 DEF HandleRequest, At, netVars
  <2> QED
    BY <1>0, <2>1, FinishOther, KeepAll
<1>3. CASE EnqueueResponse(w)
  <2> DEFINE c == outbox[w].conn
             z == ClearPendingRequests(ctx[c])
  <2>1. outbox[w] \in ResponseTask
    BY <1>3 DEF EnqueueResponse, TypeInv, OutboxFitsTask
  <2>2. c \in Conns
    BY <2>1 DEF ResponseTask
  <2>3. /\ UNCHANGED <<session, authenticated, pool>> /\ Finish(w) /\ running[w].type # "cleanup"
        /\ ctx' = ctx \/ ctx' = [ctx EXCEPT ![c] = z]
    BY <1>3 DEF EnqueueResponse
  <2>4. \A d \in Conns : CleanupPending(d)' <=> CleanupPending(d)
    BY <1>0, <2>3, FinishOther
  <2>5. z \in Context /\ SameLogin(ctx[c], z)
    BY <1>0, <2>2, ClearContext
  <2> HIDE DEF c, z
  <2>6. CASE ctx' = ctx
    BY <2>3, <2>4, <2>6, KeepAll
  <2>7. CASE ctx' = [ctx EXCEPT ![c] = z]
    <3>1. /\ z.state = ctx[c].state /\ z.user = ctx[c].user
          /\ (ctx[c].armed <=> ctx[c].unsent > 0) => (z.armed <=> z.unsent > 0)
      BY <2>5 DEF SameLogin
    <3> QED
      BY <1>0, <2>2, <2>3, <2>4, <2>5, <2>7, <3>1, KeepConns
  <2> QED
    BY <2>3, <2>6, <2>7
<1>4. CASE MarkSameDone(w)
  <2>1. UNCHANGED <<ctx, session, authenticated, pool, running>>
    BY <1>4 DEF MarkSameDone, netVars
  <2> QED
    BY <1>0, <2>1, FinishOther, KeepAll
<1>5. CASE MarkCrossDone(w)
  <2> DEFINE c == running[w].conn
             z == LowerFence(ctx[c])
  <2>1. running[w] \in Task /\ running[w].type = "markCross" /\ c \in Conns
    BY <1>0, <1>5 DEF MarkCrossDone, At, Task
  <2>2. UNCHANGED <<session, authenticated, pool>> /\ (running' = running \/ Finish(w))
    BY <1>5 DEF MarkCrossDone
  <2>3. \A d \in Conns : CleanupPending(d)' <=> CleanupPending(d)
    BY <1>0, <2>1, <2>2, FinishOther
  <2>4. z \in Context /\ SameLogin(ctx[c], z)
    BY <1>0, <2>1, FenceContext
  <2>5. ctx' = ctx \/ ctx' = [ctx EXCEPT ![c] = z]
    BY <1>5 DEF MarkCrossDone
  <2> HIDE DEF c, z
  <2>6. CASE ctx' = ctx
    BY <2>2, <2>3, <2>6, KeepAll
  <2>7. CASE ctx' = [ctx EXCEPT ![c] = z]
    <3>1. /\ z.state = ctx[c].state /\ z.user = ctx[c].user
          /\ (ctx[c].armed <=> ctx[c].unsent > 0) => (z.armed <=> z.unsent > 0)
      BY <2>4 DEF SameLogin
    <3> QED
      BY <1>0, <2>1, <2>2, <2>3, <2>4, <2>7, <3>1, KeepConns
  <2> QED
    BY <2>5, <2>6, <2>7
<1>6. CASE EnqueueEvent(w)
  <2>1. UNCHANGED <<ctx, session, authenticated, pool>> /\ Finish(w) /\ running[w].type # "cleanup"
    BY <1>6 DEF EnqueueEvent, netVars
  <2> QED
    BY <1>0, <2>1, FinishOther, KeepAll
<1>7. CASE RunCleanup(w)
  <2> SUFFICES ASSUME NEW d \in Conns PROVE ConnOk(d)'
    BY DEF ConnInv
  <2> DEFINE c == running[w].conn
  <2>1. /\ running[w] \in Task /\ running[w] # None /\ running[w].type = "cleanup" /\ c \in Conns
    BY <1>0, <1>7 DEF RunCleanup, At, Task
  <2>2. UNCHANGED <<ctx, authenticated, pool>> /\ Finish(w)
    BY <1>7 DEF RunCleanup
  <2>3. CleanupPending(c)
    BY <2>1 DEF CleanupPending, IsCleanup
  <2>4. ConnOk(c) /\ ConnOk(d)
    BY <2>1 DEF ConnInv
  <2>5. ctx[c].state = "CLOSED"
    BY <2>3, <2>4 DEF ConnOk
  <2>6. CASE d = c
    <3>1. session'[d] = None
      BY <1>7, <2>1, <2>6 DEF RunCleanup, TypeInv, TypeOK
    <3> QED
      BY <2>2, <2>4, <2>5, <2>6, <3>1 DEF ConnOk
  <2>7. CASE d # c
    <3>1. session'[d] = session[d]
      BY <1>7, <2>1, <2>7 DEF RunCleanup, TypeInv, TypeOK
    <3>2. \A v \in Workers : IsCleanup(running'[v], d) <=> IsCleanup(running[v], d)
      BY <1>0, <2>2, <2>7 DEF Finish, IsCleanup
    <3>3. CleanupPending(d)' <=> CleanupPending(d)
      BY <2>2, <3>2 DEF CleanupPending
    <3> QED
      BY <2>2, <2>4, <3>1, <3>3, KeepConn
  <2> QED
    BY <2>6, <2>7
<1> QED
  BY <1>1, <1>2, <1>3, <1>4, <1>5, <1>6, <1>7 DEF Work

\* Of the tasks that go on with a connection only the one for a refused request is
\* a cleanup, and it is that connection's.
LEMMA ResumeCleanup ==
  ASSUME NEW c \in Conns, NEW x \in Context, NEW pops \in BOOLEAN,
         pops => x.pending # <<>>, NEW d \in Conns
  PROVE  HasCleanup(ResumeTasks(c, x, pops), d) <=> pops /\ stopping /\ d = c
<1>0. ASSUME NEW t PROVE HasCleanup(<<t>>, d) <=> IsCleanup(t, d)
  BY DEF HasCleanup
<1>1. CASE ~pops
  BY <1>1, OtherTasks DEF ResumeTasks
<1>2. CASE pops /\ stopping
  <2>1. ResumeTasks(c, x, pops) = <<Cleanup(c)>>
    BY <1>2 DEF ResumeTasks
  <2>2. IsCleanup(Cleanup(c), d) <=> c = d
    BY OtherTasks
  <2>3. HasCleanup(<<Cleanup(c)>>, d) <=> IsCleanup(Cleanup(c), d)
    BY <1>0
  <2> QED
    BY <1>2, <2>1, <2>2, <2>3
<1>3. CASE pops /\ ~stopping
  <2>1. Head(x.pending) \in Nat
    BY <1>3, PopContext
  <2>2. ResumeTasks(c, x, pops) = <<Request(c, Head(x.pending))>>
    BY <1>3 DEF ResumeTasks
  <2>3. ~IsCleanup(Request(c, Head(x.pending)), d)
    BY <2>1, OtherTasks
  <2> QED
    BY <1>0, <1>3, <2>2, <2>3
<1> QED
  BY <1>1, <1>2, <1>3
\* Which cleanups ApplyResponse submits: those of the connections it closes.
LEMMA ApplyResponseCleanup ==
  ASSUME TypeOK, NEW bad \in Conns \cup {None}, ApplyResponse(bad), NEW d \in Conns
  PROVE  LET t    == Head(readyTasks)
             x    == Delivered(t, bad, t.conn)
             pops == FinishPops(x) /\ ~Deferred(t, bad)
         IN  HasCleanup(pool', d) <=>
               \/ HasCleanup(pool, d)
               \/ d \in Broken(t, bad)
               \/ d = t.conn /\ pops /\ stopping
<1> DEFINE t == Head(readyTasks)
           x == Delivered(t, bad, t.conn)
           pops == FinishPops(x) /\ ~Deferred(t, bad)
<1>1. t \in ResponseTask /\ pool \in Seq(Task)
  <2>1. t \in ResponseTask
    BY NextReady DEF ApplyResponse
  <2>2. pool \in Seq(Task)
    BY DEF TypeOK
  <2> QED
    BY <2>1, <2>2
<1>2. t.conn \in Conns /\ t.pushes \in SUBSET Conns
  BY <1>1 DEF ResponseTask
<1>3. x \in Context
  BY <1>1, <1>2, DeliveredContext
<1>4. Broken(t, bad) \in SUBSET Conns
  BY <1>2 DEF Broken, Targets
<1>5. PICK a, b, e \in Seq(Task) :
        /\ pool' = pool \o a \o b \o e
        /\ a = IF Broken(t, bad) = {} THEN <<>> ELSE <<Cleanup(bad)>>
        /\ \A i \in DOMAIN b : b[i].type = "markCross"
        /\ e = IF Deferred(t, bad) THEN <<MarkSame(t.conn)>> ELSE ResumeTasks(t.conn, x, pops)
  BY ApplyResponseTasks
<1>6. ASSUME NEW k PROVE HasCleanup(<<k>>, d) <=> IsCleanup(k, d)
  BY DEF HasCleanup
<1>7. HasCleanup(a, d) <=> d \in Broken(t, bad)
  <2>1. CASE Broken(t, bad) = {}
    <3>1. a = <<>>
      BY <1>5, <2>1
    <3> QED
      BY <2>1, <3>1 DEF HasCleanup
  <2>2. CASE Broken(t, bad) # {}
    <3>1. bad \in Conns /\ Broken(t, bad) = {bad}
      BY <2>2, <1>4 DEF Broken
    <3>2. a = <<Cleanup(bad)>>
      BY <1>5, <2>2
    <3>3. IsCleanup(Cleanup(bad), d) <=> bad = d
      BY <3>1, OtherTasks
    <3>4. HasCleanup(<<Cleanup(bad)>>, d) <=> IsCleanup(Cleanup(bad), d)
      BY <1>6
    <3> QED
      BY <3>1, <3>2, <3>3, <3>4
  <2> QED
    BY <2>1, <2>2
<1>8. ~HasCleanup(b, d)
  BY <1>5 DEF HasCleanup, IsCleanup
<1>9. HasCleanup(e, d) <=> d = t.conn /\ pops /\ stopping
  <2>1. CASE Deferred(t, bad)
    <3>1. e = <<MarkSame(t.conn)>>
      BY <1>5, <2>1
    <3>2. ~IsCleanup(MarkSame(t.conn), d)
      BY <1>2 DEF IsCleanup, MarkSame
    <3>3. HasCleanup(<<MarkSame(t.conn)>>, d) <=> IsCleanup(MarkSame(t.conn), d)
      BY <1>6
    <3> QED
      BY <2>1, <3>1, <3>2, <3>3
  <2>2. CASE ~Deferred(t, bad)
    <3>1. pops \in BOOLEAN /\ (pops => x.pending # <<>>)
      BY DEF FinishPops
    <3>2. e = ResumeTasks(t.conn, x, pops)
      BY <1>5, <2>2
    <3> HIDE DEF x, pops, t
    <3>3. HasCleanup(ResumeTasks(t.conn, x, pops), d) <=> pops /\ stopping /\ d = t.conn
      BY <1>2, <1>3, <3>1, ResumeCleanup
    <3> QED
      BY <3>2, <3>3
  <2> QED
    BY <2>1, <2>2
<1> DEFINE A == HasCleanup(a, d)
           B == HasCleanup(b, d)
           E == HasCleanup(e, d)
<1>10. HasCleanup(pool \o a \o b \o e, d) <=> HasCleanup(pool, d) \/ A \/ B \/ E
  <2>1. pool \o a \in Seq(Task) /\ pool \o a \o b \in Seq(Task)
    BY <1>1
  <2>2. HasCleanup(pool \o a, d) <=> HasCleanup(pool, d) \/ A
    BY <1>1, ConcatCleanup
  <2>3. HasCleanup(pool \o a \o b, d) <=> HasCleanup(pool \o a, d) \/ B
    BY <2>1, ConcatCleanup
  <2>4. HasCleanup(pool \o a \o b \o e, d) <=> HasCleanup(pool \o a \o b, d) \/ E
    BY <2>1, ConcatCleanup
  <2> QED
    BY <2>2, <2>3, <2>4
<1> HIDE DEF t, x, pops
<1>11. pool' = pool \o a \o b \o e
  BY <1>5
<1>12. HasCleanup(pool', d) <=>
         HasCleanup(pool, d) \/ d \in Broken(t, bad) \/ (d = t.conn /\ pops /\ stopping)
  BY <1>7, <1>8, <1>9, <1>10, <1>11
<1> QED
  BY <1>12 DEF t, x, pops

\* ApplyResponse keeps the invariant of every connection.
LEMMA ApplyResponseConnInv ==
  ASSUME TypeOK, ConnInv, NEW bad \in Conns \cup {None}, ApplyResponse(bad)
  PROVE  ConnInv'
<1> SUFFICES ASSUME NEW d \in Conns PROVE ConnOk(d)'
  BY DEF ConnInv
<1> DEFINE t    == Head(readyTasks)
           x    == Delivered(t, bad, t.conn)
           pops == FinishPops(x) /\ ~Deferred(t, bad)
           gone == d \in Broken(t, bad) \/ (d = t.conn /\ pops /\ stopping)
<1>1. t \in ResponseTask
  BY NextReady DEF ApplyResponse
<1>2. t.conn \in Conns /\ t.user \in Users \cup {None} /\ (t.kind = "login" => t.user \in Users)
  BY <1>1 DEF ResponseTask
<1>3. /\ gone => ctx'[d].state = "CLOSED"
      /\ ~gone =>
           /\ ctx'[d].state = ctx[d].state
           /\ ctx'[d].user = IF d = t.conn THEN UserAfter(t) ELSE ctx[d].user
           /\ (ctx[d].armed <=> ctx[d].unsent > 0) => (ctx'[d].armed <=> ctx'[d].unsent > 0)
  BY ApplyResponseContext
<1>4. HasCleanup(pool', d) <=> HasCleanup(pool, d) \/ gone
  BY ApplyResponseCleanup
<1>5. /\ Open(t.conn) /\ session' = SessionAfter(t) /\ UNCHANGED running
      /\ authenticated' = {p \in AuthenticatedAfter(t) :
                             p[2] \notin Broken(t, bad) /\ (pops /\ stopping => p[2] # t.conn)}
  BY DEF ApplyResponse
<1> HIDE DEF t, x, pops
<1>6. CASE gone
  <2>1. CleanupPending(d)'
    BY <1>4, <1>6 DEF CleanupPending
  <2>2. \A u \in Users : <<u, d>> \notin authenticated'
    BY <1>5, <1>6
  <2> QED
    BY <1>3, <1>6, <2>1, <2>2, CloseConn
<1>7. CASE ~gone
  <2>1. CleanupPending(d)' <=> CleanupPending(d)
    BY <1>4, <1>5, <1>7 DEF CleanupPending
  <2>2. \A u \in Users : <<u, d>> \in authenticated' <=> <<u, d>> \in AuthenticatedAfter(t)
    BY <1>5, <1>7
  <2>3. ConnOk(d) /\ session \in [Conns -> Users \cup {None}]
    BY DEF ConnInv, TypeOK
  <2>4. CASE d = t.conn
    <3>1. ctx[d].state = "CONNECTED"
      BY <1>5, <2>4 DEF Open
    <3>2. UserAfter(t) = SessionAfter(t)[d]
      BY <1>2, <2>3, <2>4, <3>1 DEF UserAfter, SessionAfter, ConnOk
    <3>3. \A u \in Users : <<u, d>> \in AuthenticatedAfter(t) <=> SessionAfter(t)[d] = u
      <4>1. CASE t.kind = "login"
        BY <1>2, <2>3, <2>4, <4>1 DEF AuthenticatedAfter, SessionAfter, Unregistered
      <4>2. CASE t.kind = "logout"
        BY <1>2, <2>3, <2>4, <4>2, NoneAssumption DEF AuthenticatedAfter, SessionAfter, Unregistered
      <4>3. CASE t.kind \notin {"login", "logout"}
        BY <2>3, <3>1, <4>3 DEF AuthenticatedAfter, SessionAfter, ConnOk
      <4> QED
        BY <4>1, <4>2, <4>3
    <3>4. ctx'[d].state = "CONNECTED" /\ ctx'[d].user = session'[d]
      BY <1>3, <1>5, <1>7, <2>4, <3>1, <3>2
    <3>5. \A u \in Users : <<u, d>> \in authenticated' <=> session'[d] = u
      BY <1>5, <2>2, <3>3
    <3>6. ~CleanupPending(d)' /\ (ctx'[d].armed <=> ctx'[d].unsent > 0)
      BY <1>3, <1>7, <2>1, <2>3, <3>1 DEF ConnOk
    <3> QED
      BY <3>4, <3>5, <3>6 DEF ConnOk
  <2>5. CASE d # t.conn
    <3>1. session'[d] = session[d]
      BY <1>2, <1>5, <2>3, <2>5 DEF SessionAfter
    <3>2. \A u \in Users : <<u, d>> \in authenticated' <=> <<u, d>> \in authenticated
      BY <2>2, <2>5 DEF AuthenticatedAfter, Unregistered
    <3>3. /\ ctx'[d].state = ctx[d].state /\ ctx'[d].user = ctx[d].user
          /\ (ctx[d].armed <=> ctx[d].unsent > 0) => (ctx'[d].armed <=> ctx'[d].unsent > 0)
      BY <1>3, <1>7, <2>5
    <3> QED
      BY <2>1, <2>3, <3>1, <3>2, <3>3, KeepConn
  <2> QED
    BY <2>4, <2>5
<1> QED
  BY <1>6, <1>7
\* The steps of onWorkerResultReadable keep the invariant of every connection.
LEMMA WorkerResultConnInv ==
  ASSUME TypeOK, ConnInv, WorkerResult
  PROVE  ConnInv'
<1>1. CASE DrainEventFd \/ SwapTasks \/ DropResponse \/ SwapEvents \/ EventsDone
  <2>1. UNCHANGED <<ctx, session, authenticated, pool, running>>
    BY <1>1 DEF DrainEventFd, SwapTasks, DropResponse, SwapEvents, EventsDone, netVars, poolVars
  <2>2. \A d \in Conns : CleanupPending(d)' <=> CleanupPending(d)
    BY <2>1, SamePool
  <2> QED
    BY <2>1, <2>2, KeepAll
<1>2. CASE FailResponse
  <2> DEFINE c == Head(readyTasks).conn
  <2>1. Head(readyTasks) \in ResponseTask
    BY <1>2 DEF FailResponse, TypeOK
  <2>2. c \in Conns
    BY <2>1 DEF ResponseTask
  <2>3. CloseClientFd(c) /\ UNCHANGED <<session, running>>
    BY <1>2 DEF FailResponse
  <2> QED
    BY <2>2, <2>3, CloseClientConns
<1>3. CASE \E bad \in Conns \cup {None} : ApplyResponse(bad)
  BY <1>3, ApplyResponseConnInv
<1>4. CASE ApplyEvent
  <2> DEFINE c == Head(readyEvents).conn
  <2>1. Head(readyEvents) \in PostDeliveryEvent
    BY <1>4, NextReady DEF ApplyEvent
  <2>2. c \in Conns
    BY <2>1 DEF PostDeliveryEvent
  <2>3. UNCHANGED <<session, running>>
    BY <1>4 DEF ApplyEvent
  <2>4. CASE ~Open(c)
    <3>1. UNCHANGED <<ctx, authenticated, pool>>
      BY <1>4, <2>4 DEF ApplyEvent
    <3>2. \A d \in Conns : CleanupPending(d)' <=> CleanupPending(d)
      BY <2>3, <3>1, SamePool
    <3> QED
      BY <2>3, <3>1, <3>2, KeepAll
  <2>5. CASE Open(c)
    <3> HIDE DEF c
    <3>0. ctx[c] \in Context /\ pool \in Seq(Task)
      BY <2>2 DEF TypeOK
    <3>1. PICK y \in Context, pops \in BOOLEAN :
            /\ SameLogin(ctx[c], y)
            /\ pops => ctx[c].pending # <<>>
            /\ ctx' = [ctx EXCEPT ![c] = Resumed(pops, y)]
            /\ authenticated' =
                 IF pops /\ stopping THEN Unregistered(authenticated, c) ELSE authenticated
            /\ pool' = pool \o ResumeTasks(c, ctx[c], pops)
      BY <1>4, <2>5, ApplyEventFacts DEF c
    <3>2. CASE pops /\ stopping
      <4>1. ctx' = [ctx EXCEPT ![c] = Closed(y)] /\ authenticated' = Unregistered(authenticated, c)
        BY <3>1, <3>2 DEF Resumed
      <4>2. pool' = pool \o <<Cleanup(c)>>
        BY <3>1, <3>2 DEF ResumeTasks
      <4>3. Cleanup(c) \in Task
        BY <2>2, TaskTypes
      <4>4. pool' = Append(pool, Cleanup(c))
        BY <3>0, <4>2, <4>3
      <4> QED
        BY <2>2, <2>3, <4>1, <4>4, CloseConns
    <3>3. CASE ~(pops /\ stopping)
      <4>1. ctx' = [ctx EXCEPT ![c] = y] /\ UNCHANGED authenticated
        BY <3>1, <3>3 DEF Resumed
      <4>2. ResumeTasks(c, ctx[c], pops) \in Seq(Task)
        BY <2>2, <3>0, <3>1, ResumeTasksType
      <4>3. \A d \in Conns : CleanupPending(d)' <=> CleanupPending(d)
        <5> TAKE d \in Conns
        <5>1. ~HasCleanup(ResumeTasks(c, ctx[c], pops), d)
          BY <2>2, <3>0, <3>1, <3>3, ResumeCleanup
        <5>2. HasCleanup(pool', d) <=> HasCleanup(pool, d)
          BY <3>0, <3>1, <4>2, <5>1, ConcatCleanup
        <5> QED
          BY <2>3, <5>2 DEF CleanupPending
      <4>4. /\ y.state = ctx[c].state /\ y.user = ctx[c].user
            /\ (ctx[c].armed <=> ctx[c].unsent > 0) => (y.armed <=> y.unsent > 0)
        BY <3>1 DEF SameLogin
      <4> QED
        BY <2>2, <2>3, <4>1, <4>3, <4>4, KeepConns
    <3> QED
      BY <3>2, <3>3
  <2> QED
    BY <2>4, <2>5
<1> QED
  BY <1>1, <1>2, <1>3, <1>4 DEF WorkerResult

\* The invariant of every connection is inductive.
LEMMA NextConnInv ==
  ASSUME TypeInv, ConnInv, [Next]_vars
  PROVE  ConnInv'
<1>0. TypeOK
  BY DEF TypeInv
<1>1. CASE UNCHANGED vars \/ Stop \/ LeaveLoop \/ StopPool \/ Joined \/ Terminated
  <2>1. UNCHANGED <<ctx, session, authenticated, pool, running>>
    BY <1>1 DEF vars, Stop, LeaveLoop, StopPool, Joined, Terminated, netVars, poolVars
  <2>2. \A d \in Conns : CleanupPending(d)' <=> CleanupPending(d)
    BY <1>0, <2>1, SamePool
  <2> QED
    BY <2>1, <2>2, KeepAll
<1>2. ASSUME NEW c \in Conns, CloseClient(c)
      PROVE  ConnInv'
  BY <1>0, <1>2, CloseClientConns DEF CloseClient
<1> QED
  BY <1>0, <1>1, <1>2, SocketConnInv, WorkConnInv, WorkerResultConnInv DEF Next, Shutdown

\* It holds initially.
LEMMA InitConnInv == Init => ConnInv
<1> SUFFICES ASSUME Init, NEW c \in Conns PROVE ConnOk(c)
  BY DEF ConnInv
<1>1. /\ ctx[c].state = "NEW" /\ ctx[c].user = None
      /\ ctx[c].unsent = 0 /\ ctx[c].armed = FALSE
  BY DEF Init, NewContext
<1>2. session[c] = None /\ authenticated = {}
  BY DEF Init
<1>3. ~CleanupPending(c)
  BY DEF Init, CleanupPending, HasCleanup, IsCleanup
<1>4. ctx[c].armed <=> ctx[c].unsent > 0
  BY <1>1
<1> QED
  BY <1>1, <1>2, <1>3, <1>4, NoneAssumption DEF ConnOk

-----------------------------------------------------------------------------
(* The I/O thread *)

\* The inductive invariant of the loop and the shutdown: wakeups are not lost; once
\* the clients are closed none is accepted; a stopped server has joined its pool.
IoInv ==
  /\ HandoverWakesIo
  /\ io \in {"joining", "stopped"} => \A c \in Conns : ~Open(c)
  /\ io = "stopped" => pool = <<>> /\ completed = <<>> /\ \A w \in Workers : running[w] = None

\* A task that is running or queued keeps the server from being stopped, so the
\* steps of a worker keep the invariant.
LEMMA WorkIoInv ==
  ASSUME TypeInv, IoInv, NEW w \in Workers, Work(w)
  PROVE  IoInv'
<1>1. io # "stopped"
  BY DEF IoInv, Work, TakeTask, HandleRequest, EnqueueResponse, MarkSameDone, MarkCrossDone,
         EnqueueEvent, RunCleanup, At
<1>2. UNCHANGED <<io, stopping>>
  BY DEF Work, TakeTask, HandleRequest, EnqueueResponse, MarkSameDone, MarkCrossDone,
         EnqueueEvent, RunCleanup, ioVars
<1>3. \/ UNCHANGED <<completed, postEvents, eventFd>>
      \/ eventFd' = TRUE
  BY DEF Work, TakeTask, HandleRequest, EnqueueResponse, MarkSameDone, MarkCrossDone,
         EnqueueEvent, RunCleanup, handVars
<1>4. HandoverWakesIo'
  BY <1>2, <1>3 DEF IoInv, HandoverWakesIo
<1>5. ASSUME NEW c \in Conns
      PROVE  ctx'[c].state = ctx[c].state
  <2>0. ctx \in [Conns -> Context] /\ ctx[c] \in Context
    BY DEF TypeInv, TypeOK
  <2>1. CASE ctx' = ctx
    BY <2>1
  <2>2. CASE EnqueueResponse(w) /\ ctx' # ctx
    <3>1. ctx' = [ctx EXCEPT ![outbox[w].conn] = ClearPendingRequests(ctx[outbox[w].conn])]
      BY <2>2 DEF EnqueueResponse
    <3>2. SameLogin(ctx[c], ClearPendingRequests(ctx[c]))
      BY <2>0, ClearContext
    <3>3. ctx'[c] = ctx[c] \/ ctx'[c] = ClearPendingRequests(ctx[c])
      BY <2>0, <3>1
    <3> QED
      BY <3>2, <3>3 DEF SameLogin
  <2>3. CASE MarkCrossDone(w) /\ ctx' # ctx
    <3>1. ctx' = [ctx EXCEPT ![running[w].conn] = LowerFence(ctx[running[w].conn])]
      BY <2>3 DEF MarkCrossDone
    <3>2. SameLogin(ctx[c], LowerFence(ctx[c]))
      BY <2>0, FenceContext
    <3>3. ctx'[c] = ctx[c] \/ ctx'[c] = LowerFence(ctx[c])
      BY <2>0, <3>1
    <3> QED
      BY <3>2, <3>3 DEF SameLogin
  <2> QED
    BY <2>1, <2>2, <2>3 DEF Work, TakeTask, HandleRequest, MarkSameDone, EnqueueEvent, RunCleanup, netVars
<1>6. io' \in {"joining", "stopped"} => \A c \in Conns : ~Open(c)'
  BY <1>2, <1>5 DEF IoInv, Open
<1> QED
  BY <1>1, <1>2, <1>4, <1>6 DEF IoInv

\* The invariant of the loop is inductive.
LEMMA NextIoInv ==
  ASSUME TypeInv, IoInv, [Next]_vars
  PROVE  IoInv'
<1>1. CASE UNCHANGED vars \/ Terminated
  BY <1>1 DEF IoInv, HandoverWakesIo, Open, Terminated, vars, netVars, handVars, poolVars, ioVars
<1>2. ASSUME NEW c \in Conns, Socket(c)
      PROVE  IoInv'
  <2>1. io \in {"poll", "lastBatch"} /\ UNCHANGED <<io, completed, postEvents, eventFd>>
    BY <1>2 DEF Socket, Accept, Readable, Writable, HalfClose, PeerError, Timeout, AtSockets,
                ioVars, handVars
  <2> QED
    BY <2>1 DEF IoInv, HandoverWakesIo
<1>3. CASE WorkerResult
  <2>1. CASE DrainEventFd
    BY <2>1 DEF DrainEventFd, IoInv, HandoverWakesIo
  <2>2. CASE SwapTasks
    BY <2>2 DEF SwapTasks, IoInv, HandoverWakesIo
  <2>3. CASE DropResponse \/ FailResponse \/ \E bad \in Conns \cup {None} : ApplyResponse(bad)
    <3>1. io = "tasks" /\ UNCHANGED <<io, completed, postEvents, eventFd>>
      BY <2>3 DEF DropResponse, FailResponse, ApplyResponse, handVars
    <3> QED
      BY <3>1 DEF IoInv, HandoverWakesIo
  <2>4. CASE SwapEvents
    BY <2>4 DEF SwapEvents, IoInv, HandoverWakesIo
  <2>5. CASE ApplyEvent
    <3>1. io = "events" /\ UNCHANGED <<io, completed, postEvents, eventFd>>
      BY <2>5 DEF ApplyEvent, handVars
    <3> QED
      BY <3>1 DEF IoInv, HandoverWakesIo
  <2>6. CASE EventsDone
    BY <2>6 DEF EventsDone, IoInv, HandoverWakesIo, handVars
  <2> QED
    BY <1>3, <2>1, <2>2, <2>3, <2>4, <2>5, <2>6 DEF WorkerResult
<1>4. CASE Stop
  BY <1>4 DEF Stop, IoInv, HandoverWakesIo, Open, netVars, poolVars, ioVars
<1>5. CASE LeaveLoop
  BY <1>5 DEF LeaveLoop, IoInv, HandoverWakesIo
<1>6. ASSUME NEW c \in Conns, CloseClient(c)
      PROVE  IoInv'
  <2>1. io = "closing" /\ UNCHANGED <<io, completed, postEvents, eventFd>>
    BY <1>6 DEF CloseClient, ioVars, handVars
  <2> QED
    BY <2>1 DEF IoInv, HandoverWakesIo
<1>7. CASE StopPool
  BY <1>7 DEF StopPool, IoInv, HandoverWakesIo, Open, netVars
<1>8. CASE Joined
  BY <1>8 DEF Joined, IoInv, HandoverWakesIo, Open, netVars, poolVars
<1> QED
  BY <1>1, <1>2, <1>3, <1>4, <1>5, <1>6, <1>7, <1>8, WorkIoInv DEF Next, Shutdown
-----------------------------------------------------------------------------
(* Theorems *)

\* The inductive invariant of the pipeline.
ServerInv == TypeInv /\ ConnInv /\ IoInv

\* The inductive invariant holds in every state.
LEMMA ServerInvariant == Spec => []ServerInv
<1>1. Init => IoInv
  BY DEF Init, IoInv, HandoverWakesIo
<1>2. Init => ServerInv
  BY <1>1, InitTypeInv, InitConnInv DEF ServerInv
<1>3. ServerInv /\ [Next]_vars => ServerInv'
  BY NextTypeInv, NextConnInv, NextIoInv DEF ServerInv
<1> QED
  BY <1>2, <1>3, PTL DEF Spec

\* onConnectionClosed: a session belongs to an open connection, or the cleanup that
\* clears it is queued or running, whatever logins and closes interleave.
THEOREM SessionsAreCleaned == Spec => []NoOrphanSession
<1>1. ServerInv => NoOrphanSession
  <2> SUFFICES ASSUME ServerInv, NEW c \in Conns, session[c] # None
               PROVE  Open(c) \/ CleanupPending(c)
    BY DEF NoOrphanSession
  <2>1. ConnOk(c) /\ ctx[c] \in Context
    BY DEF ServerInv, ConnInv, TypeInv, TypeOK
  <2>2. ctx[c].state \in {"NEW", "CONNECTED", "CLOSED"}
    BY <2>1 DEF Context
  <2> QED
    BY <2>1, <2>2 DEF ConnOk, Open
<1> QED
  BY <1>1, ServerInvariant, PTL

\* applyBindSession, applyUnbindSession, closeClientFd: the metadata of an open
\* connection, the session manager and authenticated_connections_ name the same
\* user, and authenticated_connections_ holds open connections only.
THEOREM LoginsAgree == Spec => []LoginRecordsAgree
<1>1. ServerInv => LoginRecordsAgree
  <2> SUFFICES ASSUME ServerInv PROVE LoginRecordsAgree
    OBVIOUS
  <2>1. ASSUME NEW c \in Conns, Open(c)
        PROVE  /\ ctx[c].user = session[c]
               /\ \A u \in Users : <<u, c>> \in authenticated <=> session[c] = u
    <3>1. ConnOk(c)
      BY DEF ServerInv, ConnInv
    <3> QED
      BY <2>1, <3>1 DEF ConnOk, Open
  <2>2. ASSUME NEW p \in authenticated
        PROVE  Open(p[2])
    <3>1. PICK u \in Users, c \in Conns : p = <<u, c>>
      BY DEF ServerInv, TypeInv, TypeOK
    <3>2. ConnOk(c) /\ ctx[c] \in Context
      BY DEF ServerInv, ConnInv, TypeInv, TypeOK
    <3>3. ctx[c].state \in {"NEW", "CONNECTED", "CLOSED"}
      BY <3>2 DEF Context
    <3>4. ctx[c].state # "CLOSED"
      BY <3>1, <3>2 DEF ConnOk
    <3>5. session[c] = u
      BY <3>1, <3>2, <3>4 DEF ConnOk
    <3>6. ctx[c].state # "NEW"
      BY <3>2, <3>5, NoneAssumption DEF ConnOk
    <3> QED
      BY <3>1, <3>3, <3>4, <3>6 DEF Open
  <2> QED
    BY <2>1, <2>2 DEF LoginRecordsAgree
<1> QED
  BY <1>1, ServerInvariant, PTL

\* enableWritableEvent and onWritable: EPOLLOUT is armed on an open connection
\* exactly while it has unsent output.
THEOREM OutputIsArmed == Spec => []OutputArmed
<1>1. ServerInv => OutputArmed
  <2> SUFFICES ASSUME ServerInv, NEW c \in Conns, Open(c)
               PROVE  ctx[c].armed <=> ctx[c].unsent > 0
    BY DEF OutputArmed
  <2>1. ConnOk(c)
    BY DEF ServerInv, ConnInv
  <2> QED
    BY <2>1 DEF ConnOk, Open
<1> QED
  BY <1>1, ServerInvariant, PTL

\* enqueueResponseTask, enqueuePostDeliveryEvent, onWorkerResultReadable: no result
\* or event is left in a queue with the eventfd drained and the I/O thread waiting.
THEOREM HandoverIsSeen == Spec => []HandoverWakesIo
<1>1. ServerInv => HandoverWakesIo
  BY DEF ServerInv, IoInv
<1> QED
  BY <1>1, ServerInvariant, PTL

\* cleanup_resources of start(): when start() returns every connection is closed,
\* every session is cleared and no task or result is left.
THEOREM StoppedIsClean == Spec => []StoppedClean
<1>1. ServerInv => StoppedClean
  <2> SUFFICES ASSUME ServerInv, io = "stopped"
               PROVE  /\ \A c \in Conns : ~Open(c) /\ session[c] = None
                      /\ pool = <<>> /\ completed = <<>> /\ authenticated = {}
    BY DEF StoppedClean
  <2>1. /\ pool = <<>> /\ completed = <<>> /\ \A w \in Workers : running[w] = None
        /\ \A c \in Conns : ~Open(c)
    BY DEF ServerInv, IoInv
  <2>2. ASSUME NEW c \in Conns
        PROVE  session[c] = None /\ \A u \in Users : <<u, c>> \notin authenticated
    <3>1. ConnOk(c) /\ ctx[c] \in Context
      BY DEF ServerInv, ConnInv, TypeInv, TypeOK
    <3>2. ctx[c].state \in {"NEW", "CLOSED"}
      BY <2>1, <3>1 DEF Context, Open
    <3>3. ~CleanupPending(c)
      BY <2>1 DEF CleanupPending, HasCleanup, IsCleanup
    <3>4. session[c] = None
      BY <3>1, <3>2, <3>3 DEF ConnOk
    <3> QED
      BY <3>1, <3>2, <3>4, NoneAssumption DEF ConnOk
  <2>3. authenticated \subseteq Users \X Conns
    BY DEF ServerInv, TypeInv, TypeOK
  <2> QED
    BY <2>1, <2>2, <2>3
<1> QED
  BY <1>1, ServerInvariant, PTL
\* A response task appends output to another connection only for its push targets.
LEMMA OnlyTargetsReceive ==
  ASSUME TypeOK, NEW t \in ResponseTask, NEW bad, NEW d \in Conns,
         d # t.conn, d \notin Targets(t)
  PROVE  Delivered(t, bad, d).unsent = ctx[d].unsent
<1>1. ctx[d] \in Context
  BY DEF TypeOK
<1>2. d \notin Broken(t, bad) /\ d \notin Fenced(t, bad) /\ Sent(t, bad, d) = 0
  BY DEF Broken, Fenced, Sent
<1>3. Delivered(t, bad, d) = [ctx[d] EXCEPT !.user = ctx[d].user]
  BY <1>2 DEF Delivered, AppendPendingSend
<1> QED
  BY <1>1, <1>3 DEF Context

\* distributePushes: output appended to another connection belongs to the user that
\* is logged in there at that moment, however old the push's address is.
THEOREM PushesAreAddressed == Spec => PushesReachTheirUser
<1> DEFINE Addressed(c) ==
      readyTasks # <<>> /\ readyTasks' = Tail(readyTasks) =>
        LET t == Head(readyTasks) IN
          (c # t.conn /\ ctx'[c].unsent > ctx[c].unsent) => session[c] = t.user
<1>1. TypeInv /\ [Next]_vars => [\A c \in Conns : Addressed(c)]_vars
  <2> DEFINE t == Head(readyTasks)
  <2> SUFFICES ASSUME TypeInv, Next, NEW c \in Conns, readyTasks # <<>>,
                      readyTasks' = Tail(readyTasks), c # t.conn,
                      ctx'[c].unsent > ctx[c].unsent
               PROVE  session[c] = t.user
    BY Zenon
  <2>0. /\ TypeOK /\ readyTasks \in Seq(ResponseTask) /\ ctx \in [Conns -> Context]
        /\ session \in [Conns -> Users \cup {None}] /\ ctx[c] \in Context
    BY DEF TypeInv, TypeOK
  <2>1. t \in ResponseTask /\ readyTasks' # readyTasks
    BY <2>0
  <2>2. t.conn \in Conns
    BY <2>1 DEF ResponseTask
  <2>3. ctx'[c] # ctx[c]
    BY <2>0 DEF Context
  <2>4. PICK bad \in Conns \cup {None} : ApplyResponse(bad)
    <3>1. ~FailResponse
      BY <2>0, <2>2, <2>3 DEF FailResponse, CloseClientFd
    <3>2. ~DropResponse /\ ~SwapTasks
      BY <2>3 DEF DropResponse, SwapTasks, netVars
    <3>3. ~DrainEventFd /\ ~SwapEvents /\ ~ApplyEvent /\ ~EventsDone
      BY <2>1 DEF DrainEventFd, SwapEvents, ApplyEvent, EventsDone
    <3>4. ~Socket(c) /\ \A d \in Conns : ~Socket(d)
      BY <2>1 DEF Socket, Accept, Readable, Writable, HalfClose, PeerError, Timeout, ioVars
    <3>5. \A w \in Workers : ~Work(w)
      BY <2>1 DEF Work, TakeTask, HandleRequest, EnqueueResponse, MarkSameDone, MarkCrossDone,
                  EnqueueEvent, RunCleanup, ioVars
    <3>6. ~Stop /\ ~Shutdown /\ ~Terminated
      BY <2>1 DEF Stop, Shutdown, LeaveLoop, CloseClient, StopPool, Joined, Terminated, vars, ioVars
    <3> QED
      BY <3>1, <3>2, <3>3, <3>4, <3>5, <3>6 DEF Next, WorkerResult
  <2>5. ctx'[c] = Delivered(t, bad, c)
    BY <2>4 DEF ApplyResponse
  <2>6. c \in Targets(t)
    <3>1. c \notin Targets(t) => Delivered(t, bad, c).unsent = ctx[c].unsent
      BY <2>0, <2>1, OnlyTargetsReceive
    <3>2. ctx[c].unsent \in Nat
      BY <2>0 DEF Context
    <3>3. ctx'[c].unsent # ctx[c].unsent
      <4> DEFINE m == ctx'[c].unsent
                 n == ctx[c].unsent
      <4>1. m > n /\ n \in Nat
        BY <3>2
      <4> HIDE DEF m, n
      <4>2. m # n
        BY <4>1
      <4> QED
        BY <4>2 DEF m, n
    <3> QED
      BY <2>5, <3>1, <3>3
  <2>7. SessionAfter(t)[c] = t.user
    BY <2>6 DEF Targets
  <2>8. SessionAfter(t)[c] = session[c]
    BY <2>0, <2>2 DEF SessionAfter
  <2> QED
    BY <2>7, <2>8
<1>2. Spec => []TypeInv
  BY InitTypeInv, NextTypeInv, PTL DEF Spec
<1> QED
  BY <1>1, <1>2, PTL DEF Spec, PushesReachTheirUser
=============================================================================
