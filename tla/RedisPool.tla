------------------------------ MODULE RedisPool ------------------------------
(***************************************************************************)
(* The pool of Redis connections (src/src/redis/redis_pool.cc) and the     *)
(* commands that borrow from it (redis_client.cc, redis_connection.cc).    *)
(*                                                                         *)
(* A method of the pool runs under mutex_, so it is one step, except       *)
(* Borrow, which releases the mutex while it connects and while it waits.  *)
(* A connection is "clean", or "err" once hiredis has recorded an error:   *)
(* the reply to a command that timed out may still arrive on it and would  *)
(* be taken for the answer to the next command.                            *)
(***************************************************************************)
EXTENDS Integers, Sequences, FiniteSets, SequencesExt

CONSTANTS
  Threads,    \* threads that run Redis commands
  PoolSize,   \* config_.pool_size
  SizeMod,    \* 2 to the width of size_t, scaled down
  MayStop     \* whether Stop is called

PoolAssumption == PoolSize \in 1..(SizeMod - 1) /\ MayStop \in BOOLEAN

VARIABLES
  idle,        \* idle_
  total,       \* total_
  initialized, stopping,
  pc,          \* where each thread is in RedisClient::Command
  lent,        \* the connection a thread has borrowed
  notified     \* threads in condition_.wait_for that were notified

vars == <<idle, total, initialized, stopping, pc, lent, notified>>

Waiting == {t \in Threads : pc[t] = "waiting"}
Creating == {t \in Threads : pc[t] = "creating"}
Owning == {t \in Threads : pc[t] \in {"owns", "executed"}}

Init ==
  /\ idle = <<>> /\ total = 0
  /\ initialized = FALSE /\ stopping = FALSE
  /\ pc = [t \in Threads |-> "out"]
  /\ lent = [t \in Threads |-> "clean"]
  /\ notified = {}

\* Init connects pool_size times before it takes the mutex; one failure
\* leaves the pool as it was and the program does not start.
PoolInit ==
  /\ ~initialized /\ ~stopping
  /\ idle' = [i \in 1..PoolSize |-> "clean"]
  /\ total' = PoolSize /\ initialized' = TRUE
  /\ UNCHANGED <<stopping, pc, lent, notified>>

NotifyOne ==
  IF Waiting \subseteq notified THEN UNCHANGED notified
  ELSE \E t \in Waiting \ notified : notified' = notified \cup {t}

\* One turn of Borrow's loop, entered with the mutex held.
BorrowTurn(t) ==
  \/ /\ ~initialized \/ stopping
     /\ pc' = [pc EXCEPT ![t] = "out"]
     /\ UNCHANGED <<idle, total, lent>>
  \/ /\ initialized /\ ~stopping /\ idle # <<>>
     /\ pc' = [pc EXCEPT ![t] = "owns"]
     /\ lent' = [lent EXCEPT ![t] = Head(idle)]
     /\ idle' = Tail(idle)
     /\ UNCHANGED total
  \/ /\ initialized /\ ~stopping /\ idle = <<>> /\ total < PoolSize
     /\ pc' = [pc EXCEPT ![t] = "creating"]
     /\ total' = (total + 1) % SizeMod
     /\ UNCHANGED <<idle, lent>>
  \/ /\ initialized /\ ~stopping /\ idle = <<>> /\ total >= PoolSize
     /\ pc' = [pc EXCEPT ![t] = "waiting"]
     /\ UNCHANGED <<idle, total, lent>>

Borrow(t) ==
  /\ pc[t] = "out"
  /\ BorrowTurn(t)
  /\ UNCHANGED <<initialized, stopping, notified>>

\* The place is given back without a notification.
Bug_CreateConnected(t, ok) ==
  /\ pc[t] = "creating"
  /\ pc' = [pc EXCEPT ![t] = IF ok THEN "owns" ELSE "out"]
  /\ lent' = [lent EXCEPT ![t] = "clean"]
  /\ total' = IF ok THEN total ELSE (total - 1) % SizeMod
  /\ UNCHANGED <<idle, initialized, stopping, notified>>

\* CreateConnected: connecting, AUTH or SELECT may fail.
CreateConnected(t, ok) ==
  /\ pc[t] = "creating"
  /\ pc' = [pc EXCEPT ![t] = IF ok THEN "owns" ELSE "out"]
  /\ lent' = [lent EXCEPT ![t] = "clean"]
  /\ total' = IF ok THEN total ELSE (total - 1) % SizeMod
  /\ IF ok THEN UNCHANGED notified ELSE NotifyOne
  /\ UNCHANGED <<idle, initialized, stopping>>

Ready == stopping \/ idle # <<>> \/ total < PoolSize

\* The waiter has the mutex again, notified or timed out.  If the predicate
\* holds it goes on with the loop; if it was notified for nothing it sleeps.
Wake(t) ==
  /\ pc[t] = "waiting" /\ Ready
  /\ notified' = notified \ {t}
  /\ BorrowTurn(t)
  /\ UNCHANGED <<initialized, stopping>>

SleepAgain(t) ==
  /\ t \in notified /\ ~Ready
  /\ notified' = notified \ {t}
  /\ UNCHANGED <<idle, total, initialized, stopping, pc, lent>>

TimeOut(t) ==
  /\ pc[t] = "waiting" /\ ~Ready
  /\ notified' = notified \ {t}
  /\ pc' = [pc EXCEPT ![t] = "out"]
  /\ UNCHANGED <<idle, total, initialized, stopping, lent>>

\* Execute: a reply of any kind, or no reply, which sets the error.
Execute(t) ==
  /\ pc[t] = "owns"
  /\ \E h \in {lent[t], "err"} : lent' = [lent EXCEPT ![t] = h]
  /\ pc' = [pc EXCEPT ![t] = "executed"]
  /\ UNCHANGED <<idle, total, initialized, stopping, notified>>

\* The handle goes out of scope: Return.
Return(t) ==
  /\ pc[t] = "executed"
  /\ pc' = [pc EXCEPT ![t] = "out"]
  /\ \/ /\ ~stopping /\ initialized /\ lent[t] = "clean"
        /\ idle' = Append(idle, lent[t]) /\ UNCHANGED total
     \/ /\ stopping \/ ~initialized \/ lent[t] = "err"
        /\ total' = IF total > 0 THEN total - 1 ELSE total
        /\ UNCHANGED idle
  /\ NotifyOne
  /\ UNCHANGED <<initialized, stopping, lent>>

Stop ==
  /\ MayStop /\ ~stopping
  /\ stopping' = TRUE /\ initialized' = FALSE
  /\ idle' = <<>> /\ total' = 0
  /\ notified' = Waiting
  /\ UNCHANGED <<pc, lent>>

Step(t) ==
  \/ Borrow(t) \/ Wake(t) \/ SleepAgain(t) \/ TimeOut(t) \/ Execute(t) \/ Return(t)
  \/ \E ok \in BOOLEAN : CreateConnected(t, ok)

Next == PoolInit \/ Stop \/ \E t \in Threads : Step(t)

Spec == Init /\ [][Next]_vars

-----------------------------------------------------------------------------
\* Until Stop, total_ counts the idle connections, those on loan and those
\* being created, through every failure of Borrow, Execute and Return; so
\* the pool never has more than pool_size of them.
TotalCounts ==
  ~stopping => /\ total = Len(idle) + Cardinality(Owning) + Cardinality(Creating)
               /\ total <= PoolSize

\* A connection on which a reply may still be outstanding is never lent
\* again: the next command would read the answer to an earlier one (MarkBad
\* in RedisClient::Command, IsConnected in Return).
IdleIsClean == \A i \in DOMAIN idle : idle[i] = "clean"

\* No thread sleeps in Borrow while a connection or a place is free that no
\* notified thread is on its way to: every Return and every failed creation
\* notifies one.
NoLostWakeup ==
  ~stopping /\ ~(Waiting \subseteq notified)
    => Len(idle) + (PoolSize - total) <= Cardinality(notified)

\* After Stop the pool keeps no connection, also not one that was on loan.
StoppedIsEmpty == stopping => idle = <<>>

\* The pool counts its connections, lends only clean ones, lets nobody wait
\* beside a free one and keeps none once it is stopped.
PoolIsSound == TotalCounts /\ IdleIsClean /\ NoLostWakeup /\ StoppedIsEmpty

\* Not an invariant: GetStats reports at most PoolSize connections, as
\* docs/test.md asks of the statistics.  Stop sets total_ to zero while a
\* thread connects, and the failed connect then wraps the count around.
TotalWithinPool == total <= PoolSize
=============================================================================
