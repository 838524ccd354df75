--------------------------- MODULE ThreadPoolProofs ---------------------------
(***************************************************************************)
(* The safety properties of ThreadPool for any set of workers and          *)
(* submitters.  Tasks are numbered as submit accepts them, so the queue is *)
(* always the last Len(tasks) of the numbers 1..submitted; what was taken  *)
(* from it has run once or is run by exactly one worker.                   *)
(***************************************************************************)
EXTENDS ThreadPool, TLAPS

Places == {"take", "wait", "woken", "run", "exited"}

Types ==
  /\ Workers # {} /\ MaxTasks \in Nat
  /\ tasks \in Seq(Nat) /\ stop_flag \in BOOLEAN
  /\ worker \in [Workers -> Places]
  /\ running \in [Workers -> Nat]
  /\ submitter \in [Submitters -> {"idle", "notify"}]
  /\ stopper \in {"none", "notify", "join", "done"}
  /\ submitted \in 0..MaxTasks
  /\ ran \in [1..MaxTasks -> Nat]

\* The number of tasks taken from the queue.
Taken == submitted - Len(tasks)

QueueIsLast ==
  /\ Taken \in Nat
  /\ \A i \in 1..Len(tasks) : tasks[i] = Taken + i

Runs(w, k) == worker[w] = "run" /\ running[w] = k

\* A running task was taken and has not run.
RunningIsTaken ==
  \A w \in Workers : worker[w] = "run" => running[w] \in 1..Taken /\ ran[running[w]] = 0

OneRunner ==
  \A v, w \in Workers : worker[v] = "run" /\ worker[w] = "run" /\ running[v] = running[w] => v = w

TakenRuns ==
  \A k \in 1..Taken : ran[k] = 1 \/ (ran[k] = 0 /\ \E w \in Workers : Runs(w, k))

QueuedHasNotRun ==
  \A k \in 1..MaxTasks : k > Taken => ran[k] = 0

\* A worker leaves only a stopped pool with an empty queue.
ExitedIsEmpty ==
  \A w \in Workers : worker[w] = "exited" => stop_flag /\ tasks = <<>>

JoinedAll ==
  stopper = "done" => \A w \in Workers : worker[w] = "exited"

IInv ==
  /\ Types /\ QueueIsLast /\ RunningIsTaken /\ OneRunner /\ TakenRuns /\ QueuedHasNotRun
  /\ ExitedIsEmpty /\ JoinedAll /\ NobodySleepsOnWork

\* The initial state satisfies the invariant.
LEMMA InitHolds ==
  ASSUME PoolAssumption, Init
  PROVE  IInv
<1>1. Types
  <2>1. stop_flag \in BOOLEAN
    BY DEF Init
  <2>2. worker \in [Workers -> Places] /\ running \in [Workers -> Nat]
    BY DEF Init, Places
  <2>3. tasks \in Seq(Nat) /\ submitted \in 0..MaxTasks /\ ran \in [1..MaxTasks -> Nat]
    BY DEF Init, PoolAssumption
  <2> QED
    BY <2>1, <2>2, <2>3 DEF Init, PoolAssumption, Types
<1>2. Taken = 0 /\ Len(tasks) = 0
  <2>1. tasks = <<>>
    BY DEF Init
  <2>2. Len(tasks) = 0
    BY <2>1
  <2>3. submitted = 0
    BY DEF Init
  <2> QED
    BY <2>2, <2>3 DEF Taken
<1>3. \A w \in Workers : worker[w] = "take"
  BY DEF Init
<1>4. QueueIsLast
  BY <1>2 DEF QueueIsLast
<1>5. RunningIsTaken /\ OneRunner /\ TakenRuns /\ ExitedIsEmpty
  BY <1>2, <1>3 DEF RunningIsTaken, OneRunner, TakenRuns, ExitedIsEmpty
<1>6. QueuedHasNotRun
  BY DEF Init, QueuedHasNotRun
<1>7. JoinedAll /\ NobodySleepsOnWork
  BY DEF Init, JoinedAll, NobodySleepsOnWork
<1> QED
  BY <1>1, <1>4, <1>5, <1>6, <1>7 DEF IInv

\* A step that leaves the queue and the running of tasks alone leaves what
\* is said about them.
LEMMA QuietStep ==
  ASSUME IInv, UNCHANGED <<tasks, submitted, ran, running>>,
         \A w \in Workers : worker[w] = "run" <=> worker'[w] = "run"
  PROVE  (QueueIsLast /\ RunningIsTaken /\ OneRunner /\ TakenRuns /\ QueuedHasNotRun)'
<1>1. Taken' = Taken
  BY DEF Taken
<1>2. QueueIsLast' /\ QueuedHasNotRun'
  BY <1>1 DEF IInv, QueueIsLast, QueuedHasNotRun
<1>3. RunningIsTaken' /\ OneRunner'
  BY <1>1 DEF IInv, RunningIsTaken, OneRunner
<1>4. TakenRuns'
  BY <1>1 DEF IInv, TakenRuns, Runs
<1> QED
  BY <1>2, <1>3, <1>4

\* submit appends the next number, and owes a notification.
LEMMA SubmitStep ==
  ASSUME IInv, NEW s \in Submitters, Submit(s)
  PROVE  IInv'
<1>1. CASE stop_flag
  <2>1. UNCHANGED <<tasks, submitted, submitter, stop_flag, worker, running, stopper, ran>>
    BY <1>1 DEF Submit
  <2>2. Types'
    BY <2>1 DEF IInv, Types
  <2>3. (QueueIsLast /\ RunningIsTaken /\ OneRunner /\ TakenRuns /\ QueuedHasNotRun)'
    BY <2>1, QuietStep
  <2> QED
    BY <2>1, <2>2, <2>3 DEF IInv, ExitedIsEmpty, JoinedAll, NobodySleepsOnWork, Waiting
<1>2. CASE ~stop_flag
  <2>1. /\ submitted' = submitted + 1 /\ tasks' = Append(tasks, submitted + 1)
        /\ submitter' = [submitter EXCEPT ![s] = "notify"] /\ submitted < MaxTasks
        /\ UNCHANGED <<stop_flag, worker, running, stopper, ran>>
    BY <1>2 DEF Submit
  <2>2. Types /\ QueueIsLast
    BY DEF IInv
  <2>3. /\ tasks' \in Seq(Nat) /\ Len(tasks') = Len(tasks) + 1
        /\ \A i \in 1..Len(tasks) : tasks'[i] = tasks[i]
        /\ tasks'[Len(tasks) + 1] = submitted + 1
    BY <2>1, <2>2 DEF Types
  <2>4. submitted' \in 0..MaxTasks
    BY <2>1, <2>2 DEF Types
  <2>5. Types'
    BY <2>1, <2>2, <2>3, <2>4 DEF Types
  <2>6. Taken' = Taken
    BY <2>1, <2>2, <2>3 DEF Types, Taken
  <2>7. QueueIsLast'
    <3>1. Taken + Len(tasks) = submitted /\ Taken \in Nat /\ Len(tasks) \in Nat
      BY <2>2 DEF Types, QueueIsLast, Taken
    <3>2. ASSUME NEW i \in 1..Len(tasks') PROVE tasks'[i] = Taken' + i
      <4>1. i \in 1..Len(tasks) \/ i = Len(tasks) + 1
        BY <2>3, <3>1
      <4>2. CASE i \in 1..Len(tasks)
        BY <2>2, <2>3, <2>6, <4>2 DEF QueueIsLast
      <4>3. CASE i = Len(tasks) + 1
        BY <2>3, <2>6, <3>1, <4>3
      <4> QED
        BY <4>1, <4>2, <4>3
    <3> QED
      BY <2>6, <3>1, <3>2 DEF QueueIsLast
  <2>8. (RunningIsTaken /\ OneRunner /\ TakenRuns /\ QueuedHasNotRun)'
    BY <2>1, <2>6 DEF IInv, RunningIsTaken, OneRunner, TakenRuns, QueuedHasNotRun, Runs
  <2>9. ExitedIsEmpty' /\ JoinedAll'
    BY <1>2, <2>1 DEF IInv, ExitedIsEmpty, JoinedAll
  <2>10. NobodySleepsOnWork'
    BY <2>1, <2>2 DEF Types, NobodySleepsOnWork
  <2> QED
    BY <2>5, <2>7, <2>8, <2>9, <2>10 DEF IInv
<1> QED
  BY <1>1, <1>2

\* notify_one wakes a waiting worker if there is one, so not all wait.
LEMMA SubmitNotifyStep ==
  ASSUME IInv, NEW s \in Submitters, SubmitNotify(s)
  PROVE  IInv'
<1>1. /\ submitter' = [submitter EXCEPT ![s] = "idle"]
      /\ UNCHANGED <<tasks, stop_flag, running, stopper, submitted, ran>>
  BY DEF SubmitNotify
<1>2. Types
  BY DEF IInv
<1>3. /\ worker' \in [Workers -> Places]
      /\ \A w \in Workers : \/ worker'[w] = worker[w]
                            \/ worker[w] = "wait" /\ worker'[w] = "woken"
      /\ \E w \in Workers : worker'[w] # "wait"
  <2>1. CASE Waiting = {}
    BY <1>2, <2>1 DEF SubmitNotify, Types, Waiting
  <2>2. CASE Waiting # {}
    <3>1. PICK v \in Waiting : worker' = [worker EXCEPT ![v] = "woken"]
      BY <2>2 DEF SubmitNotify
    <3> QED
      BY <1>2, <3>1 DEF Types, Waiting, Places
  <2> QED
    BY <2>1, <2>2
<1>4. Types'
  BY <1>1, <1>2, <1>3 DEF Types
<1>5. (QueueIsLast /\ RunningIsTaken /\ OneRunner /\ TakenRuns /\ QueuedHasNotRun)'
  <2>1. \A w \in Workers : worker[w] = "run" <=> worker'[w] = "run"
    BY <1>3
  <2> QED
    BY <1>1, <2>1, QuietStep
<1>6. ExitedIsEmpty' /\ JoinedAll'
  BY <1>1, <1>3 DEF IInv, ExitedIsEmpty, JoinedAll
<1>7. NobodySleepsOnWork'
  BY <1>3 DEF NobodySleepsOnWork, Waiting
<1> QED
  BY <1>4, <1>5, <1>6, <1>7 DEF IInv

\* Taketask: the first of the queue is the task after those taken.
LEMMA TakeTaskStep ==
  ASSUME IInv, NEW w \in Workers, TakeTask(w)
  PROVE  IInv'
<1>1. Types /\ QueueIsLast /\ worker[w] \in {"take", "woken"}
  BY DEF IInv, TakeTask
<1>2. UNCHANGED <<stop_flag, submitter, stopper, submitted, ran>>
  BY DEF TakeTask
<1>3. stopper # "done"
  BY <1>1 DEF IInv, JoinedAll
<1>4. CASE tasks = <<>>
  <2>1. UNCHANGED <<tasks, running>>
    BY <1>4 DEF TakeTask
  <2>2. PICK l \in {"wait", "exited"} :
          worker' = [worker EXCEPT ![w] = l] /\ (l = "exited" => stop_flag)
    BY <1>4 DEF TakeTask
  <2>3. worker' \in [Workers -> Places]
    BY <1>1, <2>2 DEF Types, Places
  <2>4. Types'
    BY <1>1, <1>2, <2>1, <2>3 DEF Types
  <2>5. \A v \in Workers : worker[v] = "run" <=> worker'[v] = "run"
    BY <1>1, <2>2 DEF Types
  <2>6. (QueueIsLast /\ RunningIsTaken /\ OneRunner /\ TakenRuns /\ QueuedHasNotRun)'
    BY <1>2, <2>1, <2>5, QuietStep
  <2>7. ExitedIsEmpty'
    BY <1>1, <1>2, <1>4, <2>1, <2>2 DEF IInv, Types, ExitedIsEmpty
  <2>8. JoinedAll' /\ NobodySleepsOnWork'
    BY <1>2, <1>3, <1>4, <2>1 DEF JoinedAll, NobodySleepsOnWork
  <2> QED
    BY <2>4, <2>6, <2>7, <2>8 DEF IInv
<1>5. CASE tasks # <<>>
  <2>1. /\ worker' = [worker EXCEPT ![w] = "run"]
        /\ running' = [running EXCEPT ![w] = Head(tasks)]
        /\ tasks' = Tail(tasks)
    BY <1>5 DEF TakeTask
  <2>2. /\ Len(tasks) \in Nat /\ Len(tasks) > 0
        /\ Head(tasks) = tasks[1] /\ Head(tasks) \in Nat
        /\ tasks' \in Seq(Nat) /\ Len(tasks') = Len(tasks) - 1
        /\ \A i \in 1..(Len(tasks) - 1) : tasks'[i] = tasks[i + 1]
    BY <1>1, <1>5, <2>1 DEF Types
  <2>3. Taken \in Nat /\ Taken' = Taken + 1 /\ Taken + Len(tasks) = submitted
    BY <1>1, <1>2, <2>2 DEF Types, Taken, QueueIsLast
  <2>4. Head(tasks) = Taken + 1
    BY <1>1, <2>2 DEF QueueIsLast
  <2>5. /\ worker' \in [Workers -> Places] /\ running' \in [Workers -> Nat]
        /\ worker'[w] = "run" /\ running'[w] = Taken + 1
        /\ \A v \in Workers \ {w} : worker'[v] = worker[v] /\ running'[v] = running[v]
    BY <1>1, <2>1, <2>2, <2>4 DEF Types, Places
  <2>6. Types'
    BY <1>1, <1>2, <2>2, <2>5 DEF Types
  <2>7. QueueIsLast'
    <3>1. ASSUME NEW i \in 1..(Len(tasks) - 1) PROVE tasks'[i] = Taken' + i
      <4>1. i + 1 \in 1..Len(tasks)
        BY <2>2
      <4>2. tasks[i + 1] = Taken + (i + 1)
        BY <1>1, <4>1 DEF QueueIsLast
      <4> QED
        BY <2>2, <2>3, <4>2
    <3> QED
      BY <2>2, <2>3, <3>1 DEF QueueIsLast
  <2>8. Taken + 1 \in 1..MaxTasks
    BY <1>1, <2>2, <2>3 DEF Types
  <2>9. ran[Taken + 1] = 0
    BY <2>3, <2>8 DEF IInv, QueuedHasNotRun
  <2>10. \A v \in Workers \ {w} : worker[v] = "run" => running[v] \in 1..Taken /\ ran[running[v]] = 0
    BY DEF IInv, RunningIsTaken
  <2>11. RunningIsTaken'
    <3>1. ASSUME NEW v \in Workers, worker'[v] = "run"
          PROVE  running'[v] \in 1..Taken' /\ ran[running'[v]] = 0
      <4>1. CASE v = w
        BY <2>3, <2>5, <2>9, <4>1
      <4>2. CASE v # w
        BY <2>3, <2>5, <2>10, <3>1, <4>2
      <4> QED
        BY <4>1, <4>2
    <3> QED
      BY <1>2, <3>1 DEF RunningIsTaken
  <2>12. OneRunner'
    <3>1. ASSUME NEW u \in Workers, NEW v \in Workers,
                 worker'[u] = "run", worker'[v] = "run", running'[u] = running'[v]
          PROVE  u = v
      <4>1. CASE u # w /\ v # w
        BY <2>5, <3>1, <4>1 DEF IInv, OneRunner
      <4>2. CASE u = w \/ v = w
        BY <2>3, <2>5, <2>10, <3>1, <4>2
      <4> QED
        BY <4>1, <4>2
    <3> QED
      BY <3>1 DEF OneRunner
  <2>13. TakenRuns'
    <3>1. ASSUME NEW k \in 1..Taken', ~(ran[k] = 1)
          PROVE  ran[k] = 0 /\ \E v \in Workers : worker'[v] = "run" /\ running'[v] = k
      <4>1. CASE k = Taken + 1
        BY <2>5, <2>9, <4>1
      <4>2. CASE k # Taken + 1
        <5>1. k \in 1..Taken
          BY <2>3, <4>2
        <5>2. ran[k] = 0 /\ \E v \in Workers : worker[v] = "run" /\ running[v] = k
          BY <3>1, <5>1 DEF IInv, TakenRuns, Runs
        <5>3. PICK v \in Workers : worker[v] = "run" /\ running[v] = k
          BY <5>2
        <5>4. v # w
          BY <1>1, <5>3
        <5> QED
          BY <2>5, <5>2, <5>3, <5>4
      <4> QED
        BY <4>1, <4>2
    <3> QED
      BY <1>2, <3>1 DEF TakenRuns, Runs
  <2>14. QueuedHasNotRun'
    BY <1>2, <2>3 DEF IInv, QueuedHasNotRun
  <2>15. ExitedIsEmpty' /\ JoinedAll' /\ NobodySleepsOnWork'
    BY <1>2, <1>3, <1>5, <2>5 DEF IInv, ExitedIsEmpty, JoinedAll, NobodySleepsOnWork, Waiting
  <2> QED
    BY <2>6, <2>7, <2>11, <2>12, <2>13, <2>14, <2>15 DEF IInv
<1> QED
  BY <1>4, <1>5

\* A task that ends has run once.
LEMMA RunTaskStep ==
  ASSUME IInv, NEW w \in Workers, RunTask(w)
  PROVE  IInv'
<1> DEFINE k == running[w]
<1>1. Types /\ QueueIsLast /\ worker[w] = "run"
  BY DEF IInv, RunTask
<1>2. UNCHANGED <<tasks, stop_flag, submitter, stopper, submitted>>
  BY DEF RunTask
<1>3. Taken' = Taken /\ Taken \in Nat /\ Taken <= MaxTasks
  BY <1>1, <1>2 DEF Taken, QueueIsLast, Types
<1>4. k \in 1..Taken /\ ran[k] = 0 /\ k \in 1..MaxTasks
  <2>1. k \in 1..Taken /\ ran[k] = 0
    BY <1>1 DEF IInv, RunningIsTaken
  <2> QED
    BY <1>1, <1>3, <2>1 DEF Types
<1>5. /\ ran' \in [1..MaxTasks -> Nat] /\ ran'[k] = 1
      /\ \A j \in 1..MaxTasks : j # k => ran'[j] = ran[j]
  BY <1>1, <1>4 DEF RunTask, Types
<1>6. /\ worker' \in [Workers -> Places] /\ running' \in [Workers -> Nat]
      /\ worker'[w] = "take"
      /\ \A v \in Workers \ {w} : worker'[v] = worker[v] /\ running'[v] = running[v]
  BY <1>1 DEF RunTask, Types, Places
<1>7. \A v \in Workers \ {w} : worker[v] = "run" => running[v] \in 1..Taken /\ running[v] # k /\ ran[running[v]] = 0
  BY <1>1 DEF IInv, RunningIsTaken, OneRunner
<1> HIDE DEF k
<1>8. Types'
  BY <1>1, <1>2, <1>5, <1>6 DEF Types
<1>9. QueueIsLast'
  BY <1>1, <1>2, <1>3 DEF QueueIsLast
<1>10. RunningIsTaken'
  <2>1. ASSUME NEW v \in Workers, worker'[v] = "run"
        PROVE  running'[v] \in 1..Taken /\ ran'[running'[v]] = 0
    <3>1. v # w
      BY <1>6, <2>1
    <3>2. running'[v] = running[v] /\ worker[v] = "run"
      BY <1>6, <2>1, <3>1
    <3>3. running[v] \in 1..Taken /\ running[v] # k /\ ran[running[v]] = 0
      BY <1>7, <3>1, <3>2
    <3>4. running[v] \in 1..MaxTasks
      BY <1>1, <1>3, <3>3 DEF Types
    <3> QED
      BY <1>5, <3>2, <3>3, <3>4
  <2> QED
    BY <1>3, <2>1 DEF RunningIsTaken
<1>11. OneRunner'
  <2>1. ASSUME NEW u \in Workers, NEW v \in Workers,
               worker'[u] = "run", worker'[v] = "run", running'[u] = running'[v]
        PROVE  u = v
    BY <1>6, <2>1 DEF IInv, OneRunner
  <2> QED
    BY <2>1 DEF OneRunner
<1>12. TakenRuns'
  <2>1. ASSUME NEW j \in 1..Taken, ~(ran'[j] = 1)
        PROVE  ran'[j] = 0 /\ \E v \in Workers : worker'[v] = "run" /\ running'[v] = j
    <3>1. j # k /\ j \in 1..MaxTasks
      BY <1>1, <1>3, <1>5, <2>1 DEF Types
    <3>2. ran'[j] = ran[j]
      BY <1>5, <3>1
    <3>3. ran[j] = 0 /\ \E v \in Workers : worker[v] = "run" /\ running[v] = j
      BY <2>1, <3>2 DEF IInv, TakenRuns, Runs
    <3>4. PICK v \in Workers : worker[v] = "run" /\ running[v] = j
      BY <3>3
    <3>5. v # w
      BY <3>1, <3>4 DEF k
    <3> QED
      BY <1>6, <3>2, <3>3, <3>4, <3>5
  <2> QED
    BY <1>3, <2>1 DEF TakenRuns, Runs
<1>13. QueuedHasNotRun'
  <2>1. ASSUME NEW j \in 1..MaxTasks, j > Taken PROVE ran'[j] = 0
    <3>1. j # k
      BY <1>3, <1>4, <2>1
    <3> QED
      BY <1>5, <2>1, <3>1 DEF IInv, QueuedHasNotRun
  <2> QED
    BY <1>3, <2>1 DEF QueuedHasNotRun
<1>14. ExitedIsEmpty' /\ JoinedAll'
  BY <1>1, <1>2, <1>6 DEF IInv, ExitedIsEmpty, JoinedAll
<1>15. NobodySleepsOnWork'
  BY <1>6 DEF NobodySleepsOnWork, Waiting
<1> QED
  BY <1>8, <1>9, <1>10, <1>11, <1>12, <1>13, <1>14, <1>15 DEF IInv

\* A wait that wakes on its own, and the steps of stop.
LEMMA OtherStep ==
  ASSUME IInv, (\E w \in Workers : SpuriousWake(w)) \/ Stop \/ StopNotify \/ Join
  PROVE  IInv'
<1>1. Types
  BY DEF IInv
<1>2. CASE \E w \in Workers : SpuriousWake(w)
  <2>1. PICK w \in Workers : SpuriousWake(w)
    BY <1>2
  <2>2. /\ worker' \in [Workers -> Places] /\ worker[w] = "wait" /\ worker'[w] = "woken"
        /\ \A v \in Workers \ {w} : worker'[v] = worker[v]
        /\ UNCHANGED <<tasks, stop_flag, running, submitter, stopper, submitted, ran>>
    BY <1>1, <2>1 DEF SpuriousWake, Types, Places
  <2>3. Types'
    BY <1>1, <2>2 DEF Types
  <2>4. \A v \in Workers : worker[v] = "run" <=> worker'[v] = "run"
    BY <2>2
  <2>5. (QueueIsLast /\ RunningIsTaken /\ OneRunner /\ TakenRuns /\ QueuedHasNotRun)'
    BY <2>2, <2>4, QuietStep
  <2>6. ExitedIsEmpty' /\ JoinedAll' /\ NobodySleepsOnWork'
    BY <2>2 DEF IInv, ExitedIsEmpty, JoinedAll, NobodySleepsOnWork, Waiting
  <2> QED
    BY <2>3, <2>5, <2>6 DEF IInv
<1>3. CASE Stop \/ Join
  <2>1. UNCHANGED <<tasks, worker, running, submitter, submitted, ran>>
    BY <1>3 DEF Stop, Join
  <2>2. stop_flag' \in BOOLEAN /\ (stop_flag => stop_flag') /\ stopper' \in {"notify", "done"}
    BY <1>1, <1>3 DEF Stop, Join, Types
  <2>3. stopper' = "done" => \A w \in Workers : worker[w] = "exited"
    BY <1>3 DEF Stop, Join
  <2>4. Types'
    BY <1>1, <2>1, <2>2 DEF Types
  <2>5. (QueueIsLast /\ RunningIsTaken /\ OneRunner /\ TakenRuns /\ QueuedHasNotRun)'
    BY <2>1, QuietStep
  <2>6. ExitedIsEmpty' /\ JoinedAll' /\ NobodySleepsOnWork'
    BY <2>1, <2>2, <2>3 DEF IInv, ExitedIsEmpty, JoinedAll, NobodySleepsOnWork, Waiting
  <2> QED
    BY <2>4, <2>5, <2>6 DEF IInv
<1>4. CASE StopNotify
  <2>1. UNCHANGED <<tasks, stop_flag, running, submitter, submitted, ran>> /\ stopper' = "join"
    BY <1>4 DEF StopNotify
  <2>2. /\ worker' \in [Workers -> Places]
        /\ \A w \in Workers : worker'[w] = IF worker[w] = "wait" THEN "woken" ELSE worker[w]
    BY <1>1, <1>4 DEF StopNotify, Types, Waiting, Places
  <2>3. Types'
    BY <1>1, <2>1, <2>2 DEF Types
  <2>4. \A v \in Workers : worker[v] = "run" <=> worker'[v] = "run"
    BY <2>2
  <2>5. (QueueIsLast /\ RunningIsTaken /\ OneRunner /\ TakenRuns /\ QueuedHasNotRun)'
    BY <2>1, <2>4, QuietStep
  <2>6. ExitedIsEmpty' /\ JoinedAll'
    BY <2>1, <2>2 DEF IInv, ExitedIsEmpty, JoinedAll
  <2>7. NobodySleepsOnWork'
    BY <1>1, <2>2 DEF Types, NobodySleepsOnWork, Waiting
  <2> QED
    BY <2>3, <2>5, <2>6, <2>7 DEF IInv
<1> QED
  BY <1>2, <1>3, <1>4

\* The invariant is inductive.
THEOREM PoolInvariant ==
  ASSUME PoolAssumption
  PROVE  Spec => []IInv
<1>1. IInv /\ [Next]_vars => IInv'
  <2> SUFFICES ASSUME IInv, [Next]_vars PROVE IInv'
    OBVIOUS
  <2>1. CASE \E s \in Submitters : Submit(s)
    BY <2>1, SubmitStep
  <2>2. CASE \E s \in Submitters : SubmitNotify(s)
    BY <2>2, SubmitNotifyStep
  <2>3. CASE \E w \in Workers : TakeTask(w)
    BY <2>3, TakeTaskStep
  <2>4. CASE \E w \in Workers : RunTask(w)
    BY <2>4, RunTaskStep
  <2>5. CASE (\E w \in Workers : SpuriousWake(w)) \/ Stop \/ StopNotify \/ Join
    BY <2>5, OtherStep
  <2>6. CASE UNCHANGED vars
    <3>1. UNCHANGED <<tasks, stop_flag, worker, running, submitter, stopper, submitted, ran>>
      BY <2>6 DEF vars
    <3>2. Types'
      BY <3>1 DEF IInv, Types
    <3>3. (QueueIsLast /\ RunningIsTaken /\ OneRunner /\ TakenRuns /\ QueuedHasNotRun)'
      BY <3>1, QuietStep
    <3> QED
      BY <3>1, <3>2, <3>3 DEF IInv, ExitedIsEmpty, JoinedAll, NobodySleepsOnWork, Waiting
  <2> QED
    BY <2>1, <2>2, <2>3, <2>4, <2>5, <2>6 DEF Next
<1>2. Init => IInv
  BY InitHolds
<1> QED
  BY <1>1, <1>2, PTL DEF Spec

\* When stop returns every accepted task has run exactly once: the workers
\* that stop joins leave only an empty queue, and none of them runs a task.
THEOREM StopRunsAll ==
  ASSUME PoolAssumption
  PROVE  Spec => []StopDrains
<1>1. IInv => StopDrains
  <2> SUFFICES ASSUME IInv, stopper = "done"
               PROVE  tasks = <<>> /\ \A k \in 1..submitted : ran[k] = 1
    BY DEF StopDrains
  <2>1. \A w \in Workers : worker[w] = "exited"
    BY DEF IInv, JoinedAll
  <2>2. tasks = <<>>
    BY <2>1 DEF IInv, Types, ExitedIsEmpty
  <2>3. Taken = submitted
    <3>1. Len(tasks) = 0
      BY <2>2
    <3> QED
      BY <3>1 DEF IInv, Types, Taken
  <2> QED
    BY <2>1, <2>2, <2>3 DEF IInv, TakenRuns, Runs
<1> QED
  BY <1>1, PoolInvariant, PTL

\* No wake-up is lost: with a task queued the workers do not all wait unless
\* a submit has still to notify.
THEOREM NoLostWakeups ==
  ASSUME PoolAssumption
  PROVE  Spec => []NobodySleepsOnWork
<1>1. IInv => NobodySleepsOnWork
  BY DEF IInv
<1> QED
  BY <1>1, PoolInvariant, PTL

\* The pool is safe as a whole: stop drains it and no wake-up is lost.
THEOREM PoolSafety ==
  ASSUME PoolAssumption
  PROVE  Spec => []PoolIsSafe
<1>1. StopDrains /\ NobodySleepsOnWork => PoolIsSafe
  BY DEF PoolIsSafe
<1> QED
  BY <1>1, StopRunsAll, NoLostWakeups, PTL
=============================================================================
