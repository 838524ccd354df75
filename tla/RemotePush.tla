----------------------------- MODULE RemotePush -----------------------------
(***************************************************************************)
(* Pushes from other servers: the consumer thread of                       *)
(* src/src/stream/redis_push_stream.cc, and the hand-over of an event to   *)
(* the I/O thread in TcpServer::deliverRemotePush.                         *)
(*                                                                         *)
(* Other servers append events to this server's Redis stream.  The         *)
(* consumer reads them, takes a dedup key per message, and asks the I/O    *)
(* thread to write the body to the target connection.  The call has a      *)
(* timeout: whoever first moves the shared task state away from 0 decides. *)
(* An event that could not be delivered stays pending in the group and is  *)
(* claimed again later; the others are acknowledged.                       *)
(*                                                                         *)
(* Redis is external: a command runs atomically; it may also fail without  *)
(* effect, or run while its reply is lost.  Dedup keys live for a day and  *)
(* are taken not to expire.                                                *)
(***************************************************************************)
EXTENDS Integers, Sequences, FiniteSets, Functions

CONSTANTS
  Messages,    \* message ids of the events
  Malformed,   \* the body of an entry that does not decode
  None,
  Target,      \* target_connection_id of each message
  TaskIds,     \* bound: shared task states alive at once
  MaxEntries,  \* bound: entries added to the streams
  Faults       \* bound: what may go wrong

FaultKinds ==
  { "error",   \* a Redis command fails without effect
    "lost",    \* a Redis command runs, its reply is lost
    "write",   \* the eventfd write fails
    "arm",     \* enableWritableEvent fails
    "move",    \* target connections are rebound or closed
    "mark",    \* markDelivered fails
    "stop",    \* stop() is called
    "crash" }  \* the process is killed and started again

Outcome == {"kDelivered", "kInvalidTarget", "kRetry"}

Conns == {Target[m] : m \in Messages}

ASSUME FaultsAssumption   == Faults \subseteq FaultKinds
ASSUME MessagesAssumption == Malformed \notin Messages /\ None \notin Messages
ASSUME BoundAssumption    == MaxEntries \in Nat /\ None \notin TaskIds /\ None \notin Outcome

VARIABLES
  \* Redis
  entries,    \* the entries of both streams of this server, oldest first
  dedup,      \* messages whose delivery dedup key is set
  dlq,        \* entries copied to the dead letter stream
  \* the consumer thread
  pc,         \* where it is
  phase,      \* the stream PollOnce works on
  batch,      \* entries it still has to process
  task,       \* the task of its deliverRemotePush call
  runningFlag,\* running_
  \* shared with the I/O thread
  tasks,      \* remote_push_tasks_: a task id and its event
  state,      \* the atomic of each task: 0 free to claim, 1 claimed, 2 given up
  result,     \* the promise of each task
  eventFd,    \* worker_event_fd_: "closed", or whether its counter is not zero
  stopping,   \* stopping_
  stopper,    \* where the caller of stop() is
  \* the I/O thread
  io,         \* where it is
  ioTasks,    \* remote_push_tasks of onWorkerResultReadable
  conn,       \* each target connection: "bound" to the addressed user, "other" or "none"
  \* history
  delivered,  \* bodies queued on an armed connection, per message
  rejected,   \* messages whose delivery ended with kInvalidTarget
  marked,     \* messages marked delivered through the retry stream
  orphans     \* messages with a dedup key left behind by a failure before the delivery

redisVars  == <<entries, dedup, dlq>>
workerVars == <<pc, phase, batch, task, runningFlag>>
sharedVars == <<tasks, state, result, eventFd, stopping, stopper>>
ioVars     == <<io, ioTasks, conn>>
history    == <<delivered, rejected, marked, orphans>>
vars       == <<redisVars, workerVars, sharedVars, ioVars, history>>

Entry == [stream : {"push", "retry"}, body : Messages \cup {Malformed},
          status : {"new", "pending", "acked"}]

\* What a Redis command may do.
Replies == {"ok"} \cup (Faults \cap {"error", "lost"})
Runs(r) == r # "error"

Init ==
  /\ entries = <<>> /\ dedup = {} /\ dlq = {}
  /\ pc = "claim" /\ phase = "push" /\ batch = <<>> /\ task = None /\ runningFlag = TRUE
  /\ tasks = <<>>
  /\ state = [t \in TaskIds |-> 0]
  /\ result = [t \in TaskIds |-> None]
  /\ eventFd = "closed" /\ stopping = FALSE /\ stopper = "idle"
  /\ io = "starting" /\ ioTasks = <<>>
  /\ conn = [c \in Conns |-> "none"]
  /\ delivered = [m \in Messages |-> 0] /\ rejected = {} /\ marked = {} /\ orphans = {}

-----------------------------------------------------------------------------
(* Redis, and the servers that publish.  A sender that retries publishes   *)
(* the same message again.                                                 *)

Add(s, b) ==
  /\ Len(entries) < MaxEntries
  /\ entries' = Append(entries, [stream |-> s, body |-> b, status |-> "new"])
  /\ UNCHANGED <<dedup, dlq, workerVars, sharedVars, ioVars, history>>

Publish(m) == Add("push", m)

\* No caller in this release: such entries are left by earlier ones.
PublishDeliveryRetry(m) == Add("retry", m)

AddMalformed(s) == Add(s, Malformed)

OfStream(s, st) == {i \in DOMAIN entries : entries[i].stream = s /\ entries[i].status = st}

\* The replies that hold some entries of S, oldest first.
Ordered(S) ==
  {b \in UNION {[1..n -> S] : n \in 0..Cardinality(S)} :
     \A i, j \in DOMAIN b : i < j => b[i] < b[j]}

-----------------------------------------------------------------------------
(* The consumer: Run and PollOnce. *)

Goto(l) == pc' = l

\* ClaimPending: the entries pending for 30 seconds, any of the pending ones.
Claim ==
  /\ pc = "claim"
  /\ \E r \in Replies, claimed \in Ordered(OfStream(phase, "pending")) :
       batch' = IF r = "ok" THEN claimed ELSE <<>>
  /\ Goto("read")
  /\ UNCHANGED <<redisVars, phase, task, runningFlag, sharedVars, ioVars, history>>

\* ReadNew: the new entries become pending.
ReadNew ==
  /\ pc = "read"
  /\ \E r \in Replies, read \in Ordered(OfStream(phase, "new")) :
       /\ Range(read) = OfStream(phase, "new")
       /\ entries' = [i \in DOMAIN entries |->
                        IF Runs(r) /\ i \in OfStream(phase, "new")
                          THEN [entries[i] EXCEPT !.status = "pending"] ELSE entries[i]]
       /\ batch' = IF r = "ok" THEN batch \o read ELSE batch
  /\ Goto("process")
  /\ UNCHANGED <<dedup, dlq, phase, task, runningFlag, sharedVars, ioVars, history>>

\* The loops over the batch; after the retry stream, Run tests running_.
NextEntry ==
  /\ pc = "process"
  /\ \/ /\ batch # <<>>
        /\ Goto(IF entries[Head(batch)].body = Malformed THEN "deadLetter"
                ELSE IF phase = "retry" THEN "mark" ELSE "setNx")
        /\ UNCHANGED phase
     \/ /\ batch = <<>> /\ phase = "push"
        /\ phase' = "retry" /\ Goto("claim")
     \/ /\ batch = <<>> /\ phase = "retry"
        /\ phase' = "push" /\ Goto(IF runningFlag THEN "claim" ELSE "exit")
  /\ UNCHANGED <<redisVars, batch, task, runningFlag, sharedVars, ioVars, history>>

\* The entry is done with, acknowledged or left pending.
Leave == batch' = Tail(batch) /\ Goto("process")

Current == entries[Head(batch)].body

MoveToDeadLetter ==
  /\ pc = "deadLetter"
  /\ \E r \in Replies :
       /\ dlq' = IF Runs(r) THEN dlq \cup {Head(batch)} ELSE dlq
       /\ IF r = "ok" THEN Goto("ack") /\ UNCHANGED batch ELSE Leave
  /\ UNCHANGED <<entries, dedup, phase, task, runningFlag, sharedVars, ioVars, history>>

Ack ==
  /\ pc = "ack"
  /\ \E r \in Replies :
       entries' = IF Runs(r) THEN [entries EXCEPT ![Head(batch)].status = "acked"] ELSE entries
  /\ Leave
  /\ UNCHANGED <<dedup, dlq, phase, task, runningFlag, sharedVars, ioVars, history>>

\* ProcessRetryEntry: the callback is MessageRepository::markDelivered.
MarkDelivered ==
  /\ pc = "mark"
  /\ \/ marked' = marked \cup {Current} /\ Goto("ack") /\ UNCHANGED batch
     \/ "mark" \in Faults /\ Leave /\ UNCHANGED marked
  /\ UNCHANGED <<redisVars, phase, task, runningFlag, sharedVars, ioVars, delivered, rejected, orphans>>

\* A key set without NX: it never says that the message was delivered before.
Bug_SetNx ==
  /\ pc = "setNx"
  /\ dedup' = dedup \cup {Current}
  /\ Goto("deliver")
  /\ UNCHANGED <<entries, dlq, phase, task, batch, runningFlag, sharedVars, ioVars, history>>

\* SET NX of the dedup key of the message.
SetNx ==
  /\ pc = "setNx"
  /\ \E r \in Replies :
       /\ dedup' = IF Runs(r) THEN dedup \cup {Current} ELSE dedup
       /\ IF r # "ok" THEN Leave
          ELSE Goto(IF Current \in dedup THEN "ack" ELSE "deliver") /\ UNCHANGED batch
       /\ orphans' = IF r = "lost" THEN orphans \cup {Current} ELSE orphans
  /\ UNCHANGED <<entries, dlq, phase, task, runningFlag, sharedVars, ioVars, delivered, rejected, marked>>

\* The outcome of deliverRemotePush: kRetry gives the key back.
Return(o) ==
  /\ Goto(IF o = "kRetry" THEN "del" ELSE "ack")
  /\ rejected' = IF o = "kInvalidTarget" THEN rejected \cup {Current} ELSE rejected
  /\ task' = None
  /\ UNCHANGED <<redisVars, phase, batch, runningFlag, delivered, marked, orphans>>

\* The key of an event that could not be delivered is kept.
Bug_DelDedup ==
  /\ pc = "del"
  /\ Leave
  /\ UNCHANGED <<redisVars, phase, task, runningFlag, sharedVars, ioVars, history>>

DelDedup ==
  /\ pc = "del"
  /\ \E r \in Replies :
       /\ dedup' = IF Runs(r) THEN dedup \ {Current} ELSE dedup
       /\ orphans' = IF Runs(r) THEN orphans ELSE orphans \cup {Current}
  /\ Leave
  /\ UNCHANGED <<entries, dlq, phase, task, runningFlag, sharedVars, ioVars, delivered, rejected, marked>>

-----------------------------------------------------------------------------
(* deliverRemotePush, on the consumer thread. *)

\* The first test of stopping_; a valid event passes the others.
DeliverBegin ==
  /\ pc = "deliver"
  /\ IF stopping THEN Return("kInvalidTarget")
     ELSE Goto("lockFd") /\ UNCHANGED <<redisVars, phase, batch, task, runningFlag, history>>
  /\ UNCHANGED <<sharedVars, ioVars>>

\* worker_event_fd_mutex_ is held from the second test to the notification.
HoldsFd == pc \in {"pushBack", "notify"}

LiveTasks == {task} \cup {q.id : q \in Range(tasks) \cup Range(ioTasks)}

\* The second test, then a fresh promise and task state.
DeliverCheck ==
  /\ pc = "lockFd"
  /\ \/ /\ stopping \/ eventFd = "closed"
        /\ Return("kRetry") /\ UNCHANGED <<state, result>>
     \/ /\ ~stopping /\ eventFd # "closed"
        /\ TaskIds \ LiveTasks # {}
        /\ task' = CHOOSE t \in TaskIds \ LiveTasks : TRUE
        /\ state' = [state EXCEPT ![task'] = 0]
        /\ result' = [result EXCEPT ![task'] = None]
        /\ Goto("pushBack")
        /\ UNCHANGED <<redisVars, phase, batch, runningFlag, history>>
  /\ UNCHANGED <<tasks, eventFd, stopping, stopper, ioVars>>

DeliverPushBack ==
  /\ pc = "pushBack"
  /\ tasks' = Append(tasks, [id |-> task, event |-> Current])
  /\ Goto("notify")
  /\ UNCHANGED <<redisVars, phase, batch, task, runningFlag, state, result, eventFd, stopping,
                 stopper, ioVars, history>>

\* compare_exchange_strong(0, 2) by the caller, which then returns kRetry;
\* if the task is already claimed it waits on as the label l says.
GiveUp(l) ==
  \/ /\ state[task] = 0
     /\ state' = [state EXCEPT ![task] = 2]
     /\ Return("kRetry")
  \/ /\ state[task] # 0
     /\ Goto(l)
     /\ UNCHANGED <<state, redisVars, phase, batch, task, runningFlag, history>>

DeliverNotify ==
  /\ pc = "notify"
  /\ \/ /\ eventFd' = "set"
        /\ Goto("wait")
        /\ UNCHANGED <<state, redisVars, phase, batch, task, runningFlag, history>>
     \/ "write" \in Faults /\ GiveUp("wait") /\ UNCHANGED eventFd
  /\ UNCHANGED <<tasks, result, stopping, stopper, ioVars>>

DeliverReady ==
  /\ pc \in {"wait", "waitOn"}
  /\ result[task] # None
  /\ Return(result[task])
  /\ UNCHANGED <<sharedVars, ioVars>>

DeliverTimeout ==
  /\ pc = "wait"
  /\ result[task] = None
  /\ GiveUp("waitOn")
  /\ UNCHANGED <<tasks, result, eventFd, stopping, stopper, ioVars>>

Consumer ==
  \/ Claim \/ ReadNew \/ NextEntry \/ MoveToDeadLetter \/ Ack \/ MarkDelivered
  \/ SetNx \/ DelDedup
  \/ DeliverBegin \/ DeliverCheck \/ DeliverPushBack \/ DeliverNotify
  \/ DeliverReady \/ DeliverTimeout

-----------------------------------------------------------------------------
(* The I/O thread. *)

\* start(): the eventfd exists; connections are accepted and log in.
IoStart ==
  /\ io = "starting"
  /\ io' = "poll" /\ eventFd' = "zero"
  /\ conn' = [c \in Conns |-> "bound"]
  /\ UNCHANGED <<redisVars, workerVars, tasks, state, result, stopping, stopper, ioTasks, history>>

\* epoll_wait reports the eventfd; the loop goes on only if not stopping.
IoWake ==
  /\ io = "poll" /\ ~stopping /\ eventFd = "set"
  /\ io' = "drain"
  /\ UNCHANGED <<redisVars, workerVars, sharedVars, ioTasks, conn, history>>

\* onWorkerResultReadable drains the counter under the mutex, ...
IoDrain ==
  /\ io = "drain" /\ ~HoldsFd
  /\ eventFd' = "zero" /\ io' = "swap"
  /\ UNCHANGED <<redisVars, workerVars, tasks, state, result, stopping, stopper, ioTasks, conn,
                 history>>

\* ... then takes the queue, ...
IoSwap ==
  /\ io = "swap"
  /\ ioTasks' = tasks /\ tasks' = <<>> /\ io' = "apply"
  /\ UNCHANGED <<redisVars, workerVars, state, result, eventFd, stopping, stopper, conn, history>>

\* ... and claims each task in turn with compare_exchange_strong(0, 1).
IoClaim ==
  /\ io = "apply" /\ ioTasks # <<>>
  /\ LET t == Head(ioTasks).id IN
       \/ /\ state[t] = 0
          /\ state' = [state EXCEPT ![t] = 1]
          /\ io' = "claimed" /\ UNCHANGED ioTasks
       \/ /\ state[t] # 0
          /\ ioTasks' = Tail(ioTasks) /\ UNCHANGED <<state, io>>
  /\ UNCHANGED <<redisVars, workerVars, tasks, result, eventFd, stopping, stopper, conn, history>>

\* The claimed task is carried out and its promise fulfilled.
IoComplete ==
  /\ io = "claimed"
  /\ LET t == Head(ioTasks).id
         m == Head(ioTasks).event
         c == Target[m] IN
       \/ /\ conn[c] # "bound"
          /\ result' = [result EXCEPT ![t] = "kInvalidTarget"]
          /\ UNCHANGED <<conn, delivered>>
       \/ /\ conn[c] = "bound"
          /\ result' = [result EXCEPT ![t] = "kDelivered"]
          /\ delivered' = [delivered EXCEPT ![m] = @ + 1]
          /\ UNCHANGED conn
       \/ /\ conn[c] = "bound" /\ "arm" \in Faults
          /\ result' = [result EXCEPT ![t] = "kRetry"]
          /\ conn' = [conn EXCEPT ![c] = "none"]
          /\ UNCHANGED delivered
  /\ ioTasks' = Tail(ioTasks) /\ io' = "apply"
  /\ UNCHANGED <<redisVars, workerVars, tasks, state, eventFd, stopping, stopper, rejected,
                 marked, orphans>>

IoNextPoll ==
  /\ io = "apply" /\ ioTasks = <<>>
  /\ io' = "poll"
  /\ UNCHANGED <<redisVars, workerVars, sharedVars, ioTasks, conn, history>>

\* The loop ends, woken by the eventfd or by the timer, and the shutdown
\* hook clears running_ and joins the consumer, ...
IoHook ==
  /\ io = "poll" /\ stopping
  /\ io' = "join" /\ runningFlag' = FALSE
  /\ UNCHANGED <<redisVars, pc, phase, batch, task, sharedVars, ioTasks, conn, history>>

\* ... then connections and the eventfd are closed.
IoClose ==
  /\ io = "join" /\ pc = "exit"
  /\ io' = "done" /\ eventFd' = "closed"
  /\ conn' = [c \in Conns |-> "none"]
  /\ UNCHANGED <<redisVars, workerVars, tasks, state, result, stopping, stopper, ioTasks, history>>

Io == \/ IoStart \/ IoWake \/ IoDrain \/ IoSwap \/ IoClaim \/ IoComplete \/ IoNextPoll
      \/ IoHook \/ IoClose

-----------------------------------------------------------------------------
(* stop(), called by a thread that is not the I/O thread. *)

StopBegin ==
  /\ "stop" \in Faults /\ io # "starting"
  /\ stopper = "idle"
  /\ stopping' = TRUE /\ stopper' = "swap"
  /\ UNCHANGED <<redisVars, workerVars, tasks, state, result, eventFd, ioVars, history>>

\* The tasks are given up without an answer.
Bug_StopTasks ==
  /\ stopper = "swap"
  /\ LET free == {q.id : q \in Range(tasks)} \cap {t \in TaskIds : state[t] = 0} IN
       state' = [t \in TaskIds |-> IF t \in free THEN 2 ELSE state[t]]
  /\ tasks' = <<>> /\ stopper' = "wake"
  /\ UNCHANGED <<redisVars, workerVars, result, eventFd, stopping, ioVars, history>>

\* The queue is taken and every unclaimed task in it answered kRetry.
StopTasks ==
  /\ stopper = "swap"
  /\ LET free == {q.id : q \in Range(tasks)} \cap {t \in TaskIds : state[t] = 0} IN
       /\ state' = [t \in TaskIds |-> IF t \in free THEN 2 ELSE state[t]]
       /\ result' = [t \in TaskIds |-> IF t \in free THEN "kRetry" ELSE result[t]]
  /\ tasks' = <<>> /\ stopper' = "wake"
  /\ UNCHANGED <<redisVars, workerVars, eventFd, stopping, ioVars, history>>

StopWake ==
  /\ stopper = "wake" /\ ~HoldsFd
  /\ eventFd' = IF eventFd = "closed" THEN "closed" ELSE "set"
  /\ stopper' = "done"
  /\ UNCHANGED <<redisVars, workerVars, tasks, state, result, stopping, ioVars, history>>

Stopper == StopTasks \/ StopWake

-----------------------------------------------------------------------------
(* The environment. *)

\* A target logs out or in as someone else, comes back, or disconnects.
Move(c) ==
  /\ "move" \in Faults /\ io = "poll" /\ conn[c] # "none"
  /\ \E s \in {"bound", "other", "none"} \ {conn[c]} :
       /\ conn' = [conn EXCEPT ![c] = s]
  /\ UNCHANGED <<redisVars, workerVars, sharedVars, io, ioTasks, history>>

\* The consumer has taken a dedup key and the outcome is open.
HoldsKey == pc \in {"deliver", "lockFd", "pushBack", "notify", "wait", "waitOn", "del"}

\* The process is killed and started again; Redis keeps what it has.
Crash ==
  /\ "crash" \in Faults
  /\ pc' = "claim" /\ phase' = "push" /\ batch' = <<>> /\ task' = None /\ runningFlag' = TRUE
  /\ tasks' = <<>>
  /\ state' = [t \in TaskIds |-> 0]
  /\ result' = [t \in TaskIds |-> None]
  /\ eventFd' = "closed" /\ stopping' = FALSE /\ stopper' = "idle"
  /\ io' = "starting" /\ ioTasks' = <<>>
  /\ conn' = [c \in Conns |-> "none"]
  /\ orphans' = IF HoldsKey THEN orphans \cup {Current} ELSE orphans
  /\ UNCHANGED <<redisVars, delivered, rejected, marked>>

Environment ==
  \/ \E m \in Messages : Publish(m) \/ PublishDeliveryRetry(m)
  \/ \E s \in {"push", "retry"} : AddMalformed(s)
  \/ \E c \in Conns : Move(c)
  \/ StopBegin \/ Crash

Next == Consumer \/ Io \/ Stopper \/ Environment

Spec == Init /\ [][Next]_vars

\* The consumer, the I/O thread and the caller of stop() keep running.
FairSpec == Spec /\ WF_vars(Consumer) /\ WF_vars(Io) /\ WF_vars(Stopper)
-----------------------------------------------------------------------------
(* Properties. *)

\* A body is queued on a connection at most once, whatever is published
\* twice, times out, fails in Redis or is lost in a crash: the dedup key is
\* taken before the delivery and given back only when the I/O thread can no
\* longer carry it out (ProcessPushEntry, deliverRemotePush).
AtMostOnce == \A m \in Messages : delivered[m] <= 1

\* The key of a message whose body was queued is never given back: kRetry
\* is returned only for a task the I/O thread did not or will not deliver.
DeliveredKeepsKey == \A m \in Messages : delivered[m] > 0 => m \in dedup

\* An entry that does not decode leaves the group only with a copy in the
\* dead letter stream (MoveToDeadLetter before Ack).
NoMalformedLost ==
  \A i \in DOMAIN entries :
    entries[i].body = Malformed /\ entries[i].status = "acked" => i \in dlq

\* A push is acknowledged only after its body was queued or its target was
\* found gone, whatever times out, is stopped, moves or fails to be armed.
\* The one way to lose it is a dedup key left behind: by a crash between SET
\* NX and the outcome, by a SET NX whose reply was lost, or by a failed DEL.
AckedIsSettled ==
  \A i \in DOMAIN entries :
    LET e == entries[i] IN
    e.stream = "push" /\ e.body \in Messages /\ e.status = "acked"
      => delivered[e.body] > 0 \/ e.body \in rejected \cup orphans

\* An entry leaves the group only when it is dealt with, decoded or not.
AcksAreRight == AckedIsSettled /\ NoMalformedLost

\* stop() ends the server although the consumer may be anywhere in
\* deliverRemotePush: the shutdown hook joins it before the I/O thread closes.
StopCompletes == stopping ~> io = "done"

\* An entry that does not decode never blocks the stream: it is read, copied
\* and acknowledged.
MalformedIsAcked ==
  \A i \in 1..MaxEntries :
    (i \in DOMAIN entries /\ entries[i].body = Malformed)
      ~> (pc = "exit" \/ (i \in DOMAIN entries /\ entries[i].status = "acked"))

\* The consumer blocks neither the shutdown nor the stream.
ConsumerProgress == StopCompletes /\ MalformedIsAcked
=============================================================================
