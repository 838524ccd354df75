-------------------------------- MODULE Logger --------------------------------
(***************************************************************************)
(* The logger (src/src/common/logger.cc): threads that write and flush, a  *)
(* bounded queue, the worker that empties it into the sinks, and Shutdown. *)
(* Messages below the minimum level return at once and are left out; a     *)
(* sink's own failures do not change the logger's state.  Critical         *)
(* sections of queue_mutex_ are single steps; accepting_ and async_mode_   *)
(* are atomics that are read outside them.                                 *)
(***************************************************************************)
EXTENDS Integers, FiniteSets, Sequences, SequencesExt

CONSTANTS
  Threads,
  Capacity,  \* options.queue_capacity
  MaxLogs,   \* bound: messages submitted
  MaxFlushes,  \* bound: calls of Flush
  None

\* ValidateOptions.
LoggerAssumption ==
  /\ Capacity \in Nat \ {0} /\ MaxLogs \in Nat /\ MaxFlushes \in Nat
  /\ None \notin Threads

VARIABLES
  accepting, async, stopRequested, workerRunning,
  queue,       \* queue_: logs and flush items
  queuedLogs,  \* queued_logs_
  dropped,     \* dropped_logs_
  worker,      \* where the worker is
  item, taken, \* its local item and count of dropped messages
  pc, level,   \* of each thread
  done,        \* the barriers, one per thread, that are done
  shut,        \* where Shutdown is
  flushes,     \* history: calls of Flush
  next,        \* history: numbers of messages, in the order they are queued
  by,          \* history: the thread of each message
  written,     \* the messages in the sinks
  lost,        \* history: the messages dropped
  reported     \* the sum of the dropped counts in the sinks

threadVars == <<pc, level, flushes>>
workerVars == <<worker, item, taken>>
flags == <<accepting, async, stopRequested, workerRunning>>
vars == <<flags, queue, queuedLogs, dropped, workerVars, threadVars, done, shut,
          next, by, written, lost, reported>>

\* InitializeWithSinks, with options.async or without.
Init ==
  /\ accepting = TRUE /\ stopRequested = FALSE
  /\ async \in BOOLEAN /\ workerRunning = async
  /\ queue = <<>> /\ queuedLogs = 0 /\ dropped = 0
  /\ worker = (IF async THEN "check" ELSE "exited") /\ item = None /\ taken = 0
  /\ pc = [t \in Threads |-> "idle"] /\ level = [t \in Threads |-> "low"] /\ flushes = 0
  /\ done = {} /\ shut = "no"
  /\ next = 1 /\ by = <<>> /\ written = <<>> /\ lost = {} /\ reported = 0

Goto(t, l) == pc' = [pc EXCEPT ![t] = l]
Notify == worker' = IF worker = "asleep" THEN "check" ELSE worker

LogItem(n, l) == [type |-> "log", number |-> n, level |-> l]
FlushItem(t) == [type |-> "flush", barrier |-> t]
Logs == {i \in DOMAIN queue : queue[i].type = "log"}
IsLowPriority(i) == queue[i].type = "log" /\ queue[i].level = "low"

-----------------------------------------------------------------------------
(* Write *)

WriteBegin(t, l) ==
  /\ pc[t] = "idle" /\ accepting /\ next + Cardinality({u \in Threads : pc[u] = "mode"}) <= MaxLogs
  /\ level' = [level EXCEPT ![t] = l]
  /\ Goto(t, "mode")
  /\ UNCHANGED <<flags, queue, queuedLogs, dropped, workerVars, flushes, done, shut,
                 next, by, written, lost, reported>>

\* Without the asynchronous mode the thread writes itself.
WriteMode(t) ==
  /\ pc[t] = "mode"
  /\ IF async
       THEN Goto(t, "enqueue") /\ UNCHANGED <<next, by, written>>
       ELSE /\ written' = Append(written, next)
            /\ next' = next + 1 /\ by' = Append(by, t)
            /\ Goto(t, "idle")
  /\ UNCHANGED <<flags, queue, queuedLogs, dropped, workerVars, level, flushes, done, shut, lost, reported>>

\* Under the lock: nothing once the logger stops; a full queue drops a
\* message of low priority, the first queued one in favour of one of high
\* priority.
Enqueue(t) ==
  /\ pc[t] = "enqueue"
  /\ IF ~accepting \/ stopRequested
       THEN Goto(t, "idle") /\ UNCHANGED <<next, by, queue, queuedLogs, dropped, lost>>
       ELSE
         /\ next' = next + 1 /\ by' = Append(by, t)
         /\ LET low == {i \in DOMAIN queue : IsLowPriority(i)}
                first == CHOOSE i \in low : \A j \in low : i <= j
            IN \/ /\ queuedLogs < Capacity
                  /\ queue' = Append(queue, LogItem(next, level[t]))
                  /\ queuedLogs' = queuedLogs + 1
                  /\ Goto(t, "notify") /\ UNCHANGED <<dropped, lost>>
               \/ /\ queuedLogs >= Capacity /\ (level[t] = "low" \/ low = {})
                  /\ dropped' = dropped + 1 /\ lost' = lost \cup {next}
                  /\ Goto(t, "idle") /\ UNCHANGED <<queue, queuedLogs>>
               \/ /\ queuedLogs >= Capacity /\ level[t] # "low" /\ low # {}
                  /\ queue' = Append(RemoveAt(queue, first), LogItem(next, level[t]))
                  /\ dropped' = dropped + 1 /\ lost' = lost \cup {queue[first].number}
                  /\ Goto(t, "notify") /\ UNCHANGED queuedLogs
  /\ UNCHANGED <<flags, workerVars, level, flushes, done, shut, written, reported>>

\* Flush does not wake the worker.
Bug_NotifyOne(t) ==
  /\ pc[t] \in {"notify", "flushNotify"}
  /\ IF pc[t] = "notify" THEN Notify ELSE UNCHANGED worker
  /\ Goto(t, IF pc[t] = "notify" THEN "idle" ELSE "wait")
  /\ UNCHANGED <<flags, queue, queuedLogs, dropped, item, taken, level, flushes, done, shut,
                 next, by, written, lost, reported>>

\* queue_cv_.notify_one, after Write and Flush have released the lock.
NotifyOne(t) ==
  /\ pc[t] \in {"notify", "flushNotify"}
  /\ Notify
  /\ Goto(t, IF pc[t] = "notify" THEN "idle" ELSE "wait")
  /\ UNCHANGED <<flags, queue, queuedLogs, dropped, item, taken, level, flushes, done, shut,
                 next, by, written, lost, reported>>

-----------------------------------------------------------------------------
(* Flush *)

\* The barrier is put in front, so the logs before it are not waited for.
Bug_FlushPush(t) ==
  /\ pc[t] = "flush"
  /\ IF workerRunning
       THEN queue' = <<FlushItem(t)>> \o queue /\ done' = done \ {t} /\ Goto(t, "flushNotify")
       ELSE Goto(t, "flushed") /\ UNCHANGED <<queue, done>>
  /\ UNCHANGED <<flags, queuedLogs, dropped, workerVars, level, flushes, shut,
                 next, by, written, lost, reported>>

FlushBegin(t) ==
  /\ pc[t] = "idle" /\ flushes < MaxFlushes /\ flushes' = flushes + 1
  /\ Goto(t, IF async THEN "flush" ELSE "flushed")
  /\ UNCHANGED <<flags, queue, queuedLogs, dropped, workerVars, level, done, shut,
                 next, by, written, lost, reported>>

\* A barrier is queued; if the worker has ended the thread flushes itself.
FlushPush(t) ==
  /\ pc[t] = "flush"
  /\ IF workerRunning
       THEN queue' = Append(queue, FlushItem(t)) /\ done' = done \ {t} /\ Goto(t, "flushNotify")
       ELSE Goto(t, "flushed") /\ UNCHANGED <<queue, done>>
  /\ UNCHANGED <<flags, queuedLogs, dropped, workerVars, level, flushes, shut,
                 next, by, written, lost, reported>>

FlushWait(t) ==
  /\ pc[t] = "wait" /\ t \in done
  /\ Goto(t, "flushed")
  /\ UNCHANGED <<flags, queue, queuedLogs, dropped, workerVars, level, flushes, done, shut,
                 next, by, written, lost, reported>>

FlushReturn(t) ==
  /\ pc[t] = "flushed"
  /\ Goto(t, "idle")
  /\ UNCHANGED <<flags, queue, queuedLogs, dropped, workerVars, level, flushes, done, shut,
                 next, by, written, lost, reported>>

-----------------------------------------------------------------------------
(* WorkerLoop *)

\* Under the lock: wait for work, take the dropped count and the first item;
\* stop only when the queue is empty.
WorkerTake ==
  /\ worker = "check"
  /\ taken' = dropped /\ dropped' = 0
  /\ \/ /\ queue # <<>>
        /\ item' = Head(queue) /\ queue' = Tail(queue)
        /\ queuedLogs' = queuedLogs - (IF Head(queue).type = "log" THEN 1 ELSE 0)
        /\ worker' = "report" /\ UNCHANGED workerRunning
     \/ /\ queue = <<>> /\ stopRequested
        /\ workerRunning' = FALSE /\ worker' = "stopping" /\ item' = None
        /\ UNCHANGED <<queue, queuedLogs>>
     \/ /\ queue = <<>> /\ ~stopRequested
        /\ worker' = (IF dropped > 0 THEN "report" ELSE "asleep") /\ item' = None
        /\ UNCHANGED <<queue, queuedLogs, workerRunning>>
  /\ UNCHANGED <<accepting, async, stopRequested, threadVars, done, shut,
                 next, by, written, lost, reported>>

\* WriteDroppedSummary.
WorkerReport ==
  /\ worker \in {"report", "stopping"}
  /\ reported' = reported + taken /\ taken' = 0
  /\ worker' = (IF worker = "stopping" THEN "exited" ELSE IF item = None THEN "check" ELSE "write")
  /\ UNCHANGED <<flags, queue, queuedLogs, dropped, item, threadVars, done, shut,
                 next, by, written, lost>>

\* WriteToSinks, or FlushSinks and the barrier.
WorkerWrite ==
  /\ worker = "write"
  /\ IF item.type = "log"
       THEN written' = Append(written, item.number) /\ UNCHANGED done
       ELSE done' = done \cup {item.barrier} /\ UNCHANGED written
  /\ item' = None /\ worker' = "check"
  /\ UNCHANGED <<flags, queue, queuedLogs, dropped, taken, threadVars, shut,
                 next, by, lost, reported>>

Worker == WorkerTake \/ WorkerReport \/ WorkerWrite

-----------------------------------------------------------------------------
(* Shutdown *)

ShutdownBegin ==
  /\ shut = "no" /\ shut' = "stop"
  /\ accepting' = FALSE
  /\ UNCHANGED <<async, stopRequested, workerRunning, queue, queuedLogs, dropped, workerVars,
                 threadVars, done, next, by, written, lost, reported>>

ShutdownStop ==
  /\ shut = "stop" /\ shut' = "notify"
  /\ stopRequested' = (stopRequested \/ workerRunning)
  /\ UNCHANGED <<accepting, async, workerRunning, queue, queuedLogs, dropped, workerVars,
                 threadVars, done, next, by, written, lost, reported>>

ShutdownNotify ==
  /\ shut = "notify" /\ shut' = "join"
  /\ Notify
  /\ UNCHANGED <<flags, queue, queuedLogs, dropped, item, taken, threadVars, done,
                 next, by, written, lost, reported>>

ShutdownJoin ==
  /\ shut = "join" /\ worker = "exited" /\ shut' = "done"
  /\ async' = FALSE
  /\ UNCHANGED <<accepting, stopRequested, workerRunning, queue, queuedLogs, dropped, workerVars,
                 threadVars, done, next, by, written, lost, reported>>

Shutdown == ShutdownBegin \/ ShutdownStop \/ ShutdownNotify \/ ShutdownJoin

Thread(t) ==
  \/ WriteMode(t) \/ Enqueue(t) \/ NotifyOne(t)
  \/ FlushPush(t) \/ FlushWait(t) \/ FlushReturn(t)

Next ==
  \/ \E t \in Threads : Thread(t) \/ FlushBegin(t) \/ \E l \in {"low", "high"} : WriteBegin(t, l)
  \/ Worker \/ Shutdown

Spec == Init /\ [][Next]_vars

\* Threads run on, and Shutdown goes on once it is called.
FairSpec ==
  /\ Spec /\ WF_vars(Worker) /\ \A t \in Threads : WF_vars(Thread(t))
  /\ WF_vars(ShutdownStop \/ ShutdownNotify \/ ShutdownJoin)

-----------------------------------------------------------------------------
QueuedNumbers == {queue[i].number : i \in Logs}
InHand == IF item # None /\ item.type = "log" THEN {item.number} ELSE {}

\* Every message is accounted for: it is in the sinks once, waits in the
\* queue or the worker's hands, or is part of a count that the sinks have
\* or will get; and queued_logs_ counts the queue, which keeps its capacity.
Accounted ==
  /\ 1..(next - 1) = ToSet(written) \cup QueuedNumbers \cup InHand \cup lost
  /\ Len(written) + Cardinality(Logs) + Cardinality(InHand) + Cardinality(lost) = next - 1
  /\ Cardinality(lost) = dropped + taken + reported
  /\ queuedLogs = Cardinality(Logs) /\ queuedLogs <= Capacity

\* When Flush returns, what its thread had logged is in the sinks, unless
\* it was dropped.
FlushCovers ==
  \A t \in Threads : pc[t] = "flushed" =>
    \A n \in 1..(next - 1) : by[n] = t => n \in ToSet(written) \cup lost

\* After Shutdown nothing is left behind: all messages are in the sinks or
\* counted there as dropped.
ShutdownDrains == shut = "done" => queue = <<>> /\ item = None /\ reported = Cardinality(lost)

\* No line gets lost unseen, by a full queue, a flush or a shutdown.
LinesAreKept == Accounted /\ FlushCovers /\ ShutdownDrains

\* Flush returns, also when Shutdown runs at the same time.
FlushReturns == \A t \in Threads : pc[t] = "flush" ~> pc[t] = "flushed"

\* Shutdown ends.
ShutdownEnds == shut # "no" ~> shut = "done"

\* Whoever calls Flush or Shutdown gets back.
CallersReturn == FlushReturns /\ ShutdownEnds
=============================================================================
