------------------------------- MODULE DbPool -------------------------------
(***************************************************************************)
(* The MySQL connection pool, class DbPool of src/src/db/db_pool.cc.       *)
(*                                                                         *)
(* Every critical section of mutex_ is one step.  What the code does with  *)
(* the mutex released (ping, connect, close) lies between two steps, and   *)
(* pc[t] records where thread t is in the meantime.  A connection is not   *)
(* named: the code moves it by unique_ptr, so only the number of idle ones *)
(* and the threads that own one are kept.  Statistics and the error code   *)
(* of a failed borrow are left out.                                        *)
(***************************************************************************)
EXTENDS Integers, FiniteSets

CONSTANTS
  Threads,          \* threads that call borrow()
  MinConnections,   \* pool_config_.min_connections
  MaxConnections,   \* pool_config_.max_connections
  MaxFaults         \* bound: idle connections found expired or dead

ASSUME ThreadsAssumption == IsFiniteSet(Threads)
\* init() refuses every other configuration.
ASSUME ConfigAssumption ==
  /\ MaxConnections \in Nat \ {0}
  /\ MinConnections \in 0 .. MaxConnections
ASSUME FaultsAssumption == MaxFaults \in Nat

VARIABLES
  initialized,      \* initialized_
  stopping,         \* stopping_
  idle,             \* idle_connections_.size()
  total,            \* total_connections_
  pc,               \* where each thread is in borrow() and with its connection
  faults            \* faults spent so far

vars == <<initialized, stopping, idle, total, pc, faults>>

\* "out": in no call and without a connection; "using": owns a PooledConnection;
\* "waiting"/"woken": inside cv_.wait_for, before and after a notification.
Location == {"out", "checking", "pingfailed", "creating", "waiting", "woken", "using"}

\* Threads whose connection, or reserved place for one, total_connections_ counts.
Holders(p) == {t \in Threads : p[t] \in {"checking", "creating", "using"}}
Waiting(p) == {t \in Threads : p[t] = "waiting"}
Woken(p) == {t \in Threads : p[t] = "woken"}

Init ==
  /\ initialized = FALSE
  /\ stopping = FALSE
  /\ idle = 0
  /\ total = 0
  /\ pc = [t \in Threads |-> "out"]
  /\ faults = 0

-----------------------------------------------------------------------------
(* The condition variable. *)

\* cv_.notify_one(): the locations that can follow p.
NotifyOne(p) ==
  IF Waiting(p) = {} THEN {p} ELSE {[p EXCEPT ![w] = "woken"] : w \in Waiting(p)}

\* cv_.notify_all()
NotifyAll(p) == [t \in Threads |-> IF p[t] = "waiting" THEN "woken" ELSE p[t]]

\* The predicate of cv_.wait_for.
CanProceed == stopping \/ idle > 0 \/ total < MaxConnections

-----------------------------------------------------------------------------
(* borrow() *)

\* One pass of the loop from its head to the next unlock, mutex held: n and p are
\* total_connections_ and the locations left by what the same critical section did.
BorrowLoop(t, n, p) ==
  \/ /\ ~initialized \/ stopping
     /\ pc' = [p EXCEPT ![t] = "out"]
     /\ total' = n
     /\ idle' = idle
  \/ /\ initialized /\ ~stopping
     /\ \/ /\ idle > 0
           /\ pc' = [p EXCEPT ![t] = "checking"]
           /\ total' = n
           /\ idle' = idle - 1
        \/ /\ idle = 0 /\ n < MaxConnections
           /\ pc' = [p EXCEPT ![t] = "creating"]
           /\ total' = n + 1
           /\ idle' = idle
        \/ /\ idle = 0 /\ n >= MaxConnections
           /\ pc' = [p EXCEPT ![t] = "waiting"]
           /\ total' = n
           /\ idle' = idle

Borrow(t) ==
  /\ pc[t] = "out"
  /\ BorrowLoop(t, total, pc)
  /\ UNCHANGED <<initialized, stopping, faults>>

\* The thread found stopping_ set when it locked the mutex again: it gives its place
\* back, wakes every waiter and returns kStopping.
AbandonStopping(t) ==
  /\ stopping
  /\ total' = total - 1
  /\ pc' = NotifyAll([pc EXCEPT ![t] = "out"])
  /\ idle' = idle

\* The idle connection was expired: closed unlocked, then the loop goes on in the
\* critical section that gave its place back.
CheckExpired(t) ==
  /\ pc[t] = "checking"
  /\ faults < MaxFaults
  /\ faults' = faults + 1
  /\ \E p \in NotifyOne(pc) : BorrowLoop(t, total - 1, p)
  /\ UNCHANGED <<initialized, stopping>>

\* The ping answered.
CheckHealthy(t) ==
  /\ pc[t] = "checking"
  /\ \/ AbandonStopping(t)
     \/ /\ ~stopping
        /\ pc' = [pc EXCEPT ![t] = "using"]
        /\ UNCHANGED <<idle, total>>
  /\ UNCHANGED <<initialized, stopping, faults>>

\* The ping failed: the place is given back before the mutex is released to close it.
CheckFailed(t) ==
  /\ pc[t] = "checking"
  /\ faults < MaxFaults
  /\ faults' = faults + 1
  /\ \/ AbandonStopping(t)
     \/ /\ ~stopping
        /\ total' = total - 1
        /\ pc' \in NotifyOne([pc EXCEPT ![t] = "pingfailed"])
        /\ idle' = idle
  /\ UNCHANGED <<initialized, stopping>>

\* The dead connection is closed; the mutex is taken again and the loop goes on.
RetryAfterPing(t) ==
  /\ pc[t] = "pingfailed"
  /\ BorrowLoop(t, total, pc)
  /\ UNCHANGED <<initialized, stopping, faults>>

\* createConnection() came back, after its bounded retries, with or without a connection.
CreateDone(t, connected) ==
  /\ pc[t] = "creating"
  /\ \/ AbandonStopping(t)
     \/ /\ ~stopping /\ connected
        /\ pc' = [pc EXCEPT ![t] = "using"]
        /\ UNCHANGED <<idle, total>>
     \/ /\ ~stopping /\ ~connected
        /\ total' = total - 1
        /\ pc' \in NotifyOne([pc EXCEPT ![t] = "out"])
        /\ idle' = idle
  /\ UNCHANGED <<initialized, stopping, faults>>

\* wait_for woke up before its deadline.
WaitWoken(t) ==
  /\ pc[t] = "woken"
  /\ \/ CanProceed /\ BorrowLoop(t, total, pc)
     \/ ~CanProceed /\ pc' = [pc EXCEPT ![t] = "waiting"] /\ UNCHANGED <<idle, total>>
  /\ UNCHANGED <<initialized, stopping, faults>>

\* A waiter that starts its wait again when the deadline passes.
Bug_WaitTimeout(t) ==
  /\ pc[t] \in {"waiting", "woken"}
  /\ \/ CanProceed /\ BorrowLoop(t, total, pc)
     \/ ~CanProceed /\ pc' = [pc EXCEPT ![t] = "waiting"] /\ UNCHANGED <<idle, total>>
  /\ UNCHANGED <<initialized, stopping, faults>>

\* The deadline passed, whether or not a notification is on its way: wait_for returns
\* the predicate, and false makes borrow() give up.
WaitTimeout(t) ==
  /\ pc[t] \in {"waiting", "woken"}
  /\ \/ CanProceed /\ BorrowLoop(t, total, pc)
     \/ ~CanProceed /\ pc' = [pc EXCEPT ![t] = "out"] /\ UNCHANGED <<idle, total>>
  /\ UNCHANGED <<initialized, stopping, faults>>

-----------------------------------------------------------------------------
(* The other operations *)

\* init() with every pre-created connection made; a failed init() changes nothing.
\* The program calls it once, before it hands the pool to anybody.
InitPool ==
  /\ ~initialized /\ ~stopping
  /\ initialized' = TRUE
  /\ idle' = idle + MinConnections
  /\ total' = total + MinConnections
  /\ UNCHANGED <<stopping, pc, faults>>

\* A return of a bad connection that frees its place without waking a waiter.
Bug_ReturnSilent(t, healthy) ==
  /\ pc[t] = "using"
  /\ \/ /\ stopping \/ ~healthy
        /\ pc' = [pc EXCEPT ![t] = "out"]
        /\ total' = total - 1
        /\ idle' = idle
     \/ /\ ~stopping /\ healthy
        /\ pc' \in NotifyOne([pc EXCEPT ![t] = "out"])
        /\ total' = total
        /\ idle' = idle + 1
  /\ UNCHANGED <<initialized, stopping, faults>>

\* ~PooledConnection: returnConnection() after the ping; a connection marked bad is
\* unhealthy without one.
ReturnConnection(t, healthy) ==
  /\ pc[t] = "using"
  /\ pc' \in NotifyOne([pc EXCEPT ![t] = "out"])
  /\ \/ (stopping \/ ~healthy) /\ total' = total - 1 /\ idle' = idle
     \/ ~stopping /\ healthy /\ total' = total /\ idle' = idle + 1
  /\ UNCHANGED <<initialized, stopping, faults>>

\* A stop that drops the idle connections and keeps counting them.
Bug_Stop ==
  /\ ~stopping
  /\ stopping' = TRUE
  /\ pc' = NotifyAll(pc)
  /\ idle' = 0
  /\ UNCHANGED <<initialized, total, faults>>

\* stop(); a second call returns at once.
Stop ==
  /\ ~stopping
  /\ stopping' = TRUE
  /\ pc' = NotifyAll(pc)
  /\ total' = total - idle
  /\ idle' = 0
  /\ UNCHANGED <<initialized, faults>>

-----------------------------------------------------------------------------

\* What a thread inside borrow(), or with a connection, does next.
Progress(t) ==
  \/ CheckExpired(t) \/ CheckHealthy(t) \/ CheckFailed(t) \/ RetryAfterPing(t)
  \/ WaitWoken(t)
  \/ \E ok \in BOOLEAN : CreateDone(t, ok) \/ ReturnConnection(t, ok)

Next ==
  \/ InitPool
  \/ Stop
  \/ \E t \in Threads : Borrow(t) \/ Progress(t) \/ WaitTimeout(t)

Spec == Init /\ [][Next]_vars

\* Threads are scheduled, pings and connects return, a caller destroys what it
\* borrowed, and a deadline passes.
FairSpec ==
  /\ Spec
  /\ \A t \in Threads : WF_vars(Progress(t)) /\ WF_vars(WaitTimeout(t))

-----------------------------------------------------------------------------
(* Properties *)

\* The counters never underflow their size_t and the locations are those above.
TypeOK ==
  /\ initialized \in BOOLEAN
  /\ stopping \in BOOLEAN
  /\ idle \in Nat
  /\ total \in Nat
  /\ pc \in [Threads -> Location]
  /\ faults \in 0 .. MaxFaults

\* total_connections_ is what exists or is being made: the idle connections and one
\* for every thread that owns, checks or creates one, whichever path a thread takes.
SlotAccounting == total = idle + Cardinality(Holders(pc))

\* The reservation made before the mutex is released for a connect keeps the pool
\* within max_connections, however many threads find it empty at once.
CapacityRespected == total <= MaxConnections

\* No wakeup is lost: while a thread sleeps in wait_for, every connection and every
\* free place it could have has a notified thread on its way to it.
NoLostWakeup ==
  Waiting(pc) # {} => /\ ~stopping
                      /\ idle + (MaxConnections - total) <= Cardinality(Woken(pc))

\* borrow() comes back, with a connection or an error, if only finitely many idle
\* connections turn out dead.
BorrowCompletes ==
  \A t \in Threads : pc[t] \notin {"out", "using"} ~> pc[t] \in {"out", "using"}

\* After stop() every connection is given up: those on loan when they come back.
StopDrains == stopping ~> total = 0

\* Borrowers get back, and a stopped pool ends empty.
PoolProgress == BorrowCompletes /\ StopDrains

\* db_pool.cc, at the ping failure: "若队列已空，下一次循环必然进入第三阶段尝试
\* createConnection()": with the queue empty the next pass creates a connection.
PingFailureThenCreates ==
  [][\A t \in Threads :
       pc[t] = "pingfailed" /\ pc'[t] # "pingfailed" /\ ~stopping /\ idle = 0
         => pc'[t] = "creating"]_vars
=============================================================================
