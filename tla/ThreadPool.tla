------------------------------ MODULE ThreadPool ------------------------------
(***************************************************************************)
(* ThreadPool (src/src/concurrency/thread_pool.cc, the submit template in  *)
(* src/include/concurrency/thread_pool.h).  Each step is one critical      *)
(* section of queue_mutex_, or one step outside it: the wait releases the  *)
(* mutex and blocks in the same step, a notification comes after the       *)
(* mutex is released.  A wait may also wake on its own.                    *)
(***************************************************************************)
EXTENDS Integers, FiniteSets, Sequences

CONSTANTS
  Workers,     \* workers_
  Submitters,  \* threads that call submit
  MaxTasks     \* bound: tasks submitted

PoolAssumption == Workers # {} /\ IsFiniteSet(Workers) /\ MaxTasks \in Nat

VARIABLES
  tasks,      \* tasks_
  stop_flag,  \* stop_flag_
  worker,     \* where each worker is: "take", "wait", "woken", "run", "exited"
  running,    \* the task each worker runs, 0 for none
  submitter,  \* where each submitter is: "idle", "notify"
  stopper,    \* where the caller of stop is: "none", "notify", "join", "done"
  submitted,  \* history: tasks accepted so far
  refused,    \* history: submit has thrown
  ran         \* history: how often each task ran

vars == <<tasks, stop_flag, worker, running, submitter, stopper, submitted, refused, ran>>

Init ==
  /\ tasks = <<>> /\ stop_flag = FALSE
  /\ worker = [w \in Workers |-> "take"]
  /\ running = [w \in Workers |-> 0]
  /\ submitter = [s \in Submitters |-> "idle"]
  /\ stopper = "none" /\ submitted = 0 /\ refused = FALSE
  /\ ran = [k \in 1..MaxTasks |-> 0]

Waiting == {w \in Workers : worker[w] = "wait"}

\* submit: a stopped pool throws, otherwise the task is queued.
Submit(s) ==
  /\ submitter[s] = "idle" /\ submitted < MaxTasks
  /\ IF stop_flag
       THEN refused' = TRUE /\ UNCHANGED <<tasks, submitted, submitter>>
       ELSE /\ submitted' = submitted + 1
            /\ tasks' = Append(tasks, submitted + 1)
            /\ submitter' = [submitter EXCEPT ![s] = "notify"]
            /\ UNCHANGED refused
  /\ UNCHANGED <<stop_flag, worker, running, stopper, ran>>

\* A submit that notifies only for the first task of an empty queue.
Bug_SubmitNotify(s) ==
  /\ submitter[s] = "notify"
  /\ submitter' = [submitter EXCEPT ![s] = "idle"]
  /\ IF Waiting = {} \/ Len(tasks) # 1 THEN UNCHANGED worker
     ELSE \E w \in Waiting : worker' = [worker EXCEPT ![w] = "woken"]
  /\ UNCHANGED <<tasks, stop_flag, running, stopper, submitted, refused, ran>>

\* condition_.notify_one().
SubmitNotify(s) ==
  /\ submitter[s] = "notify"
  /\ submitter' = [submitter EXCEPT ![s] = "idle"]
  /\ IF Waiting = {} THEN UNCHANGED worker
     ELSE \E w \in Waiting : worker' = [worker EXCEPT ![w] = "woken"]
  /\ UNCHANGED <<tasks, stop_flag, running, stopper, submitted, refused, ran>>

\* A worker that leaves on the flag alone.
Bug_TakeTask(w) ==
  /\ worker[w] \in {"take", "woken"}
  /\ IF tasks = <<>> /\ ~stop_flag
       THEN worker' = [worker EXCEPT ![w] = "wait"] /\ UNCHANGED <<tasks, running>>
     ELSE IF stop_flag
       THEN worker' = [worker EXCEPT ![w] = "exited"] /\ UNCHANGED <<tasks, running>>
     ELSE /\ worker' = [worker EXCEPT ![w] = "run"]
          /\ running' = [running EXCEPT ![w] = Head(tasks)]
          /\ tasks' = Tail(tasks)
  /\ UNCHANGED <<stop_flag, submitter, stopper, submitted, refused, ran>>

\* Taketask: the predicate of the wait, and what follows it.
TakeTask(w) ==
  /\ worker[w] \in {"take", "woken"}
  /\ IF tasks = <<>> /\ ~stop_flag
       THEN worker' = [worker EXCEPT ![w] = "wait"] /\ UNCHANGED <<tasks, running>>
     ELSE IF tasks = <<>>
       THEN worker' = [worker EXCEPT ![w] = "exited"] /\ UNCHANGED <<tasks, running>>
     ELSE /\ worker' = [worker EXCEPT ![w] = "run"]
          /\ running' = [running EXCEPT ![w] = Head(tasks)]
          /\ tasks' = Tail(tasks)
  /\ UNCHANGED <<stop_flag, submitter, stopper, submitted, refused, ran>>

SpuriousWake(w) ==
  /\ worker[w] = "wait"
  /\ worker' = [worker EXCEPT ![w] = "woken"]
  /\ UNCHANGED <<tasks, stop_flag, running, submitter, stopper, submitted, refused, ran>>

\* The task ends; the packaged task keeps what it throws.
RunTask(w) ==
  /\ worker[w] = "run"
  /\ ran' = [ran EXCEPT ![running[w]] = @ + 1]
  /\ running' = [running EXCEPT ![w] = 0]
  /\ worker' = [worker EXCEPT ![w] = "take"]
  /\ UNCHANGED <<tasks, stop_flag, submitter, stopper, submitted, refused>>

Stop ==
  /\ stopper = "none"
  /\ stop_flag' = TRUE /\ stopper' = "notify"
  /\ UNCHANGED <<tasks, worker, running, submitter, submitted, refused, ran>>

\* condition_.notify_all().
StopNotify ==
  /\ stopper = "notify" /\ stopper' = "join"
  /\ worker' = [w \in Workers |-> IF w \in Waiting THEN "woken" ELSE worker[w]]
  /\ UNCHANGED <<tasks, stop_flag, running, submitter, submitted, refused, ran>>

\* The caller of stop joins every worker.
Join ==
  /\ stopper = "join" /\ \A w \in Workers : worker[w] = "exited"
  /\ stopper' = "done"
  /\ UNCHANGED <<tasks, stop_flag, worker, running, submitter, submitted, refused, ran>>

Next ==
  \/ \E s \in Submitters : Submit(s) \/ SubmitNotify(s)
  \/ \E w \in Workers : TakeTask(w) \/ SpuriousWake(w) \/ RunTask(w)
  \/ Stop \/ StopNotify \/ Join

Spec == Init /\ [][Next]_vars

\* Threads that can take a step do; nobody has to call submit or stop, and
\* no wait has to wake on its own.
Fairness ==
  /\ \A s \in Submitters : WF_vars(SubmitNotify(s))
  /\ \A w \in Workers : WF_vars(TakeTask(w)) /\ WF_vars(RunTask(w))
  /\ WF_vars(StopNotify) /\ WF_vars(Join)

FairSpec == Spec /\ Fairness

-----------------------------------------------------------------------------
\* When stop returns, every task that submit accepted has run exactly once:
\* the workers drain the queue before they leave, and submit throws from
\* the moment the flag is set.
StopDrains == stopper = "done" => tasks = <<>> /\ \A k \in 1..submitted : ran[k] = 1

\* No lost wake-up: while a task is queued, the workers do not all wait,
\* unless the notification of a submit is still to come (submit notifies
\* after it has released the mutex).
NobodySleepsOnWork ==
  (tasks # <<>> /\ Waiting = Workers) => \E s \in Submitters : submitter[s] = "notify"

\* The pool forgets no task and no worker.
PoolIsSafe == StopDrains /\ NobodySleepsOnWork

\* A task that submit accepted is run in the end, whether or not the pool
\* is stopped.
AcceptedRuns == \A k \in 1..MaxTasks : submitted >= k ~> ran[k] = 1

\* stop returns once it is called.
StopReturns == stop_flag ~> stopper = "done"

\* Tasks run and stop returns.
PoolProgress == AcceptedRuns /\ StopReturns
=============================================================================
