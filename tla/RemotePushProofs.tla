--------------------------- MODULE RemotePushProofs ---------------------------
(***************************************************************************)
(* Pushes from other servers, for any number of messages, entries and      *)
(* tasks and with every fault.  The argument: a task that the I/O thread   *)
(* may still carry out is the one its caller waits for, so a body is       *)
(* queued only while the consumer holds the dedup key of the message; and  *)
(* the consumer gives the key back only once the task is out of reach.     *)
(***************************************************************************)
EXTENDS RemotePush, TLAPS

Waiting == pc \in {"notify", "wait", "waitOn"}

Processing == HoldsKey \/ pc \in {"setNx", "mark", "deadLetter", "ack"}

Queued == Range(tasks) \cup Range(ioTasks)

Tasks == [id : TaskIds, event : Messages]

Settled(m) == delivered[m] > 0 \/ m \in rejected \cup orphans

Types ==
  /\ entries \in Seq(Entry) /\ batch \in Seq(Nat) /\ dedup \subseteq Messages
  /\ delivered \in [Messages -> Nat]
  /\ tasks \in Seq(Tasks)
  /\ ioTasks \in Seq(Tasks)
  /\ state \in [TaskIds -> 0..2]
  /\ result \in [TaskIds -> Outcome \cup {None}]

\* What the consumer works on: entries of the stream it is at, and the one at
\* the head is such that acknowledging it is right.
BatchInv ==
  /\ \A j \in DOMAIN batch : batch[j] \in DOMAIN entries /\ entries[batch[j]].stream = phase
  /\ Processing => batch # <<>>
  /\ HoldsKey \/ pc = "setNx" => phase = "push"
  /\ HoldsKey \/ pc \in {"setNx", "mark"} => Current \in Messages
  /\ pc = "mark" => phase = "retry"
  /\ pc = "deadLetter" => Current = Malformed
  /\ pc = "ack" /\ Current = Malformed => Head(batch) \in dlq
  /\ pc = "ack" /\ phase = "push" /\ Current \in Messages => Settled(Current)

\* A task that can still be claimed, or is claimed, is the one waited for.
TaskInv ==
  /\ \A q \in Queued : state[q.id] = 0 => Waiting /\ q.id = task /\ q.event = Current
  /\ pc = "pushBack" => state[task] = 0 /\ \A q \in Queued : q.id # task
  /\ io = "claimed" =>
       /\ ioTasks # <<>> /\ Waiting /\ Head(ioTasks) = [id |-> task, event |-> Current]
       /\ state[task] = 1 /\ result[task] = None /\ delivered[Current] = 0

\* What holding a key means.
KeyInv ==
  /\ HoldsKey => Current \in dedup
  /\ pc \in {"deliver", "lockFd", "del"} => delivered[Current] = 0
  /\ Waiting \/ pc = "pushBack" =>
       /\ task \in TaskIds
       /\ state[task] = 0 => result[task] = None /\ delivered[Current] = 0
  /\ Waiting => (delivered[Current] > 0 <=> result[task] = "kDelivered")
  /\ \A m \in dedup : Settled(m) \/ (HoldsKey /\ m = Current)

IInv ==
  /\ Types /\ BatchInv /\ TaskInv /\ KeyInv
  /\ AtMostOnce /\ DeliveredKeepsKey /\ NoMalformedLost /\ AckedIsSettled

-----------------------------------------------------------------------------
\* What the queues hold.
LEMMA QueueFacts ==
  ASSUME NEW S, NEW s \in Seq(S)
  PROVE  /\ Range(s) \subseteq S
         /\ s # <<>> => Head(s) \in Range(s) /\ Tail(s) \in Seq(S) /\ Range(Tail(s)) \subseteq Range(s)
         /\ \A x \in S : Append(s, x) \in Seq(S) /\ Range(Append(s, x)) = Range(s) \cup {x}
         /\ Range(<<>>) = {}
<1>1. Range(s) \subseteq S /\ Range(<<>>) = {}
  BY DEF Range
<1>2. s # <<>> => Head(s) \in Range(s) /\ Tail(s) \in Seq(S) /\ Range(Tail(s)) \subseteq Range(s)
  <2> SUFFICES ASSUME s # <<>>
               PROVE  Head(s) \in Range(s) /\ Tail(s) \in Seq(S) /\ Range(Tail(s)) \subseteq Range(s)
    OBVIOUS
  <2>1. Len(s) >= 1 /\ Head(s) = s[1] /\ DOMAIN s = 1..Len(s)
    OBVIOUS
  <2>2. Tail(s) \in Seq(S) /\ \A i \in DOMAIN Tail(s) : i + 1 \in DOMAIN s /\ Tail(s)[i] = s[i + 1]
    OBVIOUS
  <2>3. Range(Tail(s)) \subseteq Range(s)
    BY <2>2 DEF Range
  <2>4. Head(s) \in Range(s)
    BY <2>1 DEF Range
  <2> QED
    BY <2>2, <2>3, <2>4
<1>3. ASSUME NEW x \in S PROVE Append(s, x) \in Seq(S) /\ Range(Append(s, x)) = Range(s) \cup {x}
  <2>1. /\ Append(s, x) \in Seq(S) /\ DOMAIN Append(s, x) = DOMAIN s \cup {Len(s) + 1}
        /\ Append(s, x)[Len(s) + 1] = x /\ \A i \in DOMAIN s : Append(s, x)[i] = s[i]
    OBVIOUS
  <2> QED
    BY <2>1 DEF Range
<1> QED
  BY <1>1, <1>2, <1>3

\* The queues hold tasks.
LEMMA QueuedTypes ==
  ASSUME IInv
  PROVE  Queued \subseteq Tasks
  BY QueueFacts DEF IInv, Types, Queued

\* The initial state satisfies the invariant.
LEMMA InitHolds ==
  ASSUME Init
  PROVE  IInv
<1>1. Types
  BY DEF Init, Types
<1>2. BatchInv
  BY DEF Init, BatchInv, Processing, HoldsKey
<1>3. Queued = {}
  BY DEF Init, Queued, Range
<1>4. TaskInv
  BY <1>3 DEF Init, TaskInv
<1>5. KeyInv
  BY DEF Init, KeyInv, Waiting, HoldsKey
<1>6. AtMostOnce /\ DeliveredKeepsKey /\ NoMalformedLost /\ AckedIsSettled
  BY DEF Init, AtMostOnce, DeliveredKeepsKey, NoMalformedLost, AckedIsSettled
<1> QED
  BY <1>1, <1>2, <1>4, <1>5, <1>6 DEF IInv

\* A consumer that waits for no task leaves the tasks alone.
LEMMA TaskFrame ==
  ASSUME TaskInv, UNCHANGED <<tasks, ioTasks, state, result, io>>,
         ~Waiting, ~Waiting', pc' # "pushBack"
  PROVE  TaskInv'
  BY DEF TaskInv, Queued

\* What the I/O thread and stop() do beside the tasks.
LEMMA QuietStep ==
  ASSUME IInv, UNCHANGED <<entries, dedup, dlq, pc, phase, batch, task, tasks, state, result,
                           ioTasks, delivered, rejected, orphans>>,
         io' # "claimed" \/ io' = io
  PROVE  IInv'
<1>1. Current' = Current /\ Queued' = Queued /\ HoldsKey' = HoldsKey /\ Waiting' = Waiting
        /\ \A m : Settled(m)' = Settled(m)
  BY DEF Current, Queued, HoldsKey, Waiting, Settled
<1>2. Types' /\ BatchInv' /\ KeyInv'
  BY <1>1 DEF IInv, Types, BatchInv, Processing, KeyInv
<1>3. TaskInv'
  BY <1>1 DEF IInv, TaskInv
<1> QED
  BY <1>2, <1>3 DEF IInv, AtMostOnce, DeliveredKeepsKey, NoMalformedLost, AckedIsSettled

\* The consumer without a key changes no promise about keys and tasks; a key
\* it adds is an orphan.
LEMMA KeylessStep ==
  ASSUME IInv, ~HoldsKey, ~HoldsKey', dedup' \subseteq Messages,
         UNCHANGED <<tasks, ioTasks, state, result, io, delivered, rejected>>,
         dedup \subseteq dedup', orphans \subseteq orphans',
         \A m \in dedup' : m \in dedup \/ m \in orphans'
  PROVE  TaskInv' /\ KeyInv' /\ AtMostOnce' /\ DeliveredKeepsKey' /\ \A m : Settled(m) => Settled(m)'
<1>1. ~Waiting /\ ~Waiting' /\ pc' # "pushBack" /\ pc' \notin {"deliver", "lockFd", "del"}
  BY DEF HoldsKey, Waiting
<1>2. TaskInv'
  BY <1>1, TaskFrame DEF IInv
<1>3. \A m : Settled(m) => Settled(m)'
  BY DEF Settled
<1>4. \A m \in dedup' : Settled(m)'
  <2> SUFFICES ASSUME NEW m \in dedup' PROVE Settled(m)'
    OBVIOUS
  <2>1. CASE m \in dedup
    BY <1>3, <2>1 DEF IInv, KeyInv
  <2>2. CASE m \in orphans'
    BY <2>2 DEF Settled
  <2> QED
    BY <2>1, <2>2
<1>5. KeyInv'
  BY <1>1, <1>4 DEF KeyInv
<1>6. AtMostOnce' /\ DeliveredKeepsKey'
  BY DEF IInv, AtMostOnce, DeliveredKeepsKey
<1> QED
  BY <1>2, <1>3, <1>5, <1>6

\* A reply is a sequence of the entries asked for.
LEMMA OrderedFacts ==
  ASSUME IInv, NEW st, NEW b \in Ordered(OfStream(phase, st))
  PROVE  /\ b \in Seq(Nat)
         /\ \A j \in DOMAIN b : b[j] \in DOMAIN entries /\ entries[b[j]].stream = phase
<1>1. PICK n \in Nat : b \in [1..n -> OfStream(phase, st)]
  BY DEF Ordered
<1>2. DOMAIN entries = 1..Len(entries) /\ Len(entries) \in Nat
  BY DEF IInv, Types
<1>3. OfStream(phase, st) \subseteq Nat
  BY <1>2 DEF OfStream
<1> QED
  BY <1>1, <1>3 DEF OfStream

\* The entry the consumer works on, and those behind it.
LEMMA HeadFacts ==
  ASSUME IInv, batch # <<>>
  PROVE  /\ Head(batch) \in DOMAIN entries /\ entries[Head(batch)] \in Entry
         /\ Current \in Messages \cup {Malformed} /\ phase \in {"push", "retry"}
         /\ entries[Head(batch)].stream = phase
         /\ Tail(batch) \in Seq(Nat)
         /\ \A j \in DOMAIN Tail(batch) :
              Tail(batch)[j] \in DOMAIN entries /\ entries[Tail(batch)[j]].stream = phase
<1>1. entries \in Seq(Entry) /\ batch \in Seq(Nat)
  BY DEF IInv, Types
<1>2. 1 \in DOMAIN batch /\ Head(batch) = batch[1]
  BY <1>1
<1>3. Head(batch) \in DOMAIN entries /\ entries[Head(batch)].stream = phase
  BY <1>2 DEF IInv, BatchInv
<1>4. entries[Head(batch)] \in Entry
  BY <1>1, <1>3
<1>5. Current \in Messages \cup {Malformed} /\ phase \in {"push", "retry"}
  BY <1>3, <1>4 DEF Entry, Current
<1>6. /\ Tail(batch) \in Seq(Nat)
      /\ \A j \in DOMAIN Tail(batch) : j + 1 \in DOMAIN batch /\ Tail(batch)[j] = batch[j + 1]
  BY <1>1
<1> QED
  BY <1>3, <1>4, <1>5, <1>6 DEF IInv, BatchInv

\* Reading a stream.
LEMMA ClaimStep ==
  ASSUME IInv, Claim
  PROVE  IInv'
<1>1. /\ pc = "claim" /\ pc' = "read"
      /\ UNCHANGED <<entries, dedup, dlq, phase, tasks, state, result, io, ioTasks, delivered,
                     rejected, orphans>>
  BY DEF Claim, Goto, redisVars, sharedVars, ioVars, history
<1>2. ~HoldsKey /\ ~HoldsKey' /\ ~Processing' /\ dedup' \subseteq Messages
  BY <1>1 DEF HoldsKey, Processing, IInv, Types
<1>3. TaskInv' /\ KeyInv' /\ AtMostOnce' /\ DeliveredKeepsKey'
  BY <1>1, <1>2, KeylessStep
<1>4. /\ batch' \in Seq(Nat)
      /\ \A j \in DOMAIN batch' : batch'[j] \in DOMAIN entries /\ entries[batch'[j]].stream = phase
  <2>1. batch' = <<>> \/ batch' \in Ordered(OfStream(phase, "pending"))
    BY DEF Claim
  <2>2. CASE batch' = <<>>
    BY <2>2
  <2>3. CASE batch' \in Ordered(OfStream(phase, "pending"))
    BY <2>3, OrderedFacts
  <2> QED
    BY <2>1, <2>2, <2>3
<1>5. Types'
  BY <1>1, <1>4 DEF IInv, Types
<1>6. BatchInv'
  BY <1>1, <1>2, <1>4 DEF BatchInv, Processing
<1> QED
  BY <1>1, <1>3, <1>5, <1>6 DEF IInv, NoMalformedLost, AckedIsSettled

\* Entries that become pending keep stream and body.
LEMMA ReadNewStep ==
  ASSUME IInv, ReadNew
  PROVE  IInv'
<1>1. /\ pc = "read" /\ pc' = "process"
      /\ UNCHANGED <<dedup, dlq, phase, tasks, state, result, io, ioTasks, delivered,
                     rejected, orphans>>
  BY DEF ReadNew, Goto, sharedVars, ioVars, history
<1>2. ~HoldsKey /\ ~HoldsKey' /\ ~Processing' /\ dedup' \subseteq Messages
  BY <1>1 DEF HoldsKey, Processing, IInv, Types
<1>3. TaskInv' /\ KeyInv' /\ AtMostOnce' /\ DeliveredKeepsKey'
  BY <1>1, <1>2, KeylessStep
<1>4. PICK r \in Replies, read \in Ordered(OfStream(phase, "new")) :
        /\ entries' = [i \in DOMAIN entries |->
                         IF Runs(r) /\ i \in OfStream(phase, "new")
                           THEN [entries[i] EXCEPT !.status = "pending"] ELSE entries[i]]
        /\ batch' = IF r = "ok" THEN batch \o read ELSE batch
  BY DEF ReadNew
<1>5. entries \in Seq(Entry) /\ DOMAIN entries' = DOMAIN entries
  BY <1>4 DEF IInv, Types
<1>6. ASSUME NEW i \in DOMAIN entries
      PROVE  /\ entries'[i] \in Entry
             /\ entries'[i].body = entries[i].body /\ entries'[i].stream = entries[i].stream
             /\ entries'[i].status = "acked" => entries[i].status = "acked"
  <2>1. entries'[i] = entries[i] \/ entries'[i] = [entries[i] EXCEPT !.status = "pending"]
    BY <1>4
  <2>2. entries[i] \in Entry
    BY <1>5
  <2> QED
    BY <2>1, <2>2 DEF Entry
<1>7. entries' \in Seq(Entry)
  <2>1. entries' \in [1..Len(entries) -> Entry] /\ Len(entries) \in Nat
    BY <1>4, <1>5, <1>6
  <2> QED
    BY <2>1
<1>8. /\ batch' \in Seq(Nat)
      /\ \A j \in DOMAIN batch' : batch'[j] \in DOMAIN entries /\ entries[batch'[j]].stream = phase
  <2>1. /\ batch \in Seq(Nat) /\ read \in Seq(Nat)
        /\ \A j \in DOMAIN batch : batch[j] \in DOMAIN entries /\ entries[batch[j]].stream = phase
        /\ \A j \in DOMAIN read : read[j] \in DOMAIN entries /\ entries[read[j]].stream = phase
    BY OrderedFacts DEF IInv, Types, BatchInv
  <2>2. \A j \in DOMAIN (batch \o read) :
          (j \in DOMAIN batch /\ (batch \o read)[j] = batch[j])
            \/ (j - Len(batch) \in DOMAIN read /\ (batch \o read)[j] = read[j - Len(batch)])
    BY <2>1
  <2>3. batch \o read \in Seq(Nat)
    BY <2>1
  <2> QED
    BY <1>4, <2>1, <2>2, <2>3
<1>9. Types'
  BY <1>1, <1>7, <1>8 DEF IInv, Types
<1>10. BatchInv'
  BY <1>1, <1>2, <1>5, <1>6, <1>8 DEF BatchInv, Processing
<1>11. NoMalformedLost' /\ AckedIsSettled'
  BY <1>1, <1>5, <1>6 DEF IInv, NoMalformedLost, AckedIsSettled
<1> QED
  BY <1>3, <1>9, <1>10, <1>11 DEF IInv

\* The consumer turns to the next entry or to the next stream.
LEMMA NextEntryStep ==
  ASSUME IInv, NextEntry
  PROVE  IInv'
<1>1. /\ pc = "process" /\ pc' \in {"deadLetter", "mark", "setNx", "claim", "exit"}
      /\ UNCHANGED <<entries, dedup, dlq, batch, tasks, state, result, io, ioTasks, delivered,
                     rejected, orphans>>
  BY DEF NextEntry, Goto, redisVars, sharedVars, ioVars, history
<1>2. ~HoldsKey /\ ~HoldsKey' /\ dedup' \subseteq Messages
  BY <1>1 DEF HoldsKey, IInv, Types
<1>3. TaskInv' /\ KeyInv' /\ AtMostOnce' /\ DeliveredKeepsKey'
  BY <1>1, <1>2, KeylessStep
<1>4. Types'
  BY <1>1 DEF IInv, Types
<1>5. Current' = Current
  BY <1>1 DEF Current
<1>6. CASE batch = <<>>
  <2>1. pc' \in {"claim", "exit"}
    BY <1>6 DEF NextEntry, Goto
  <2>2. ~Processing' /\ DOMAIN batch' = {}
    BY <1>1, <1>2, <1>6, <2>1 DEF Processing
  <2>3. BatchInv'
    BY <1>2, <2>1, <2>2 DEF BatchInv
  <2> QED
    BY <1>1, <1>3, <1>4, <2>3 DEF IInv, NoMalformedLost, AckedIsSettled
<1>7. CASE batch # <<>>
  <2>1. Current \in Messages \cup {Malformed} /\ phase \in {"push", "retry"}
    BY <1>7, HeadFacts
  <2>2. /\ phase' = phase
        /\ pc' \in {"setNx", "mark"} => Current # Malformed
        /\ pc' = "setNx" => phase # "retry"
        /\ pc' = "mark" => phase = "retry"
        /\ pc' = "deadLetter" => Current = Malformed
        /\ pc' \in {"deadLetter", "mark", "setNx"}
    BY <1>7, <2>1 DEF NextEntry, Goto, Current
  <2>3. BatchInv'
    <3>1. pc' \in {"setNx", "mark"} => Current' \in Messages
      BY <1>5, <2>1, <2>2
    <3>2. pc' = "setNx" => phase' = "push"
      BY <2>1, <2>2
    <3> QED
      BY <1>1, <1>2, <1>5, <1>7, <2>2, <3>1, <3>2 DEF IInv, BatchInv
  <2> QED
    BY <1>1, <1>3, <1>4, <2>3 DEF IInv, NoMalformedLost, AckedIsSettled
<1> QED
  BY <1>6, <1>7

\* The consumer drops the entry at the head.
LEMMA LeaveFacts ==
  ASSUME IInv, batch # <<>>, Leave, phase' = phase, DOMAIN entries' = DOMAIN entries,
         \A i \in DOMAIN entries : entries'[i].stream = entries[i].stream
  PROVE  pc' = "process" /\ ~HoldsKey' /\ batch' \in Seq(Nat) /\ BatchInv'
<1>1. pc' = "process" /\ batch' = Tail(batch)
  BY DEF Leave, Goto
<1>2. ~HoldsKey' /\ ~Processing'
  BY <1>1 DEF HoldsKey, Processing
<1>3. /\ batch' \in Seq(Nat)
      /\ \A j \in DOMAIN batch' : batch'[j] \in DOMAIN entries' /\ entries'[batch'[j]].stream = phase'
  BY <1>1, HeadFacts
<1> QED
  BY <1>1, <1>2, <1>3 DEF BatchInv, Processing

\* The entries that need no delivery.
LEMMA SortStep ==
  ASSUME IInv, MoveToDeadLetter \/ MarkDelivered
  PROVE  IInv'
<1>1. /\ pc \in {"deadLetter", "mark"} /\ dlq \subseteq dlq'
      /\ UNCHANGED <<entries, dedup, phase, tasks, state, result, io, ioTasks, delivered,
                     rejected, orphans>>
      /\ (pc' = "ack" /\ UNCHANGED batch) \/ Leave
  BY DEF MoveToDeadLetter, MarkDelivered, Goto, redisVars, sharedVars, ioVars, history
<1>2. batch # <<>> /\ ~HoldsKey
  BY <1>1 DEF IInv, BatchInv, Processing, HoldsKey
<1>3. dedup' \subseteq Messages
  BY <1>1 DEF IInv, Types
<1>4. NoMalformedLost' /\ AckedIsSettled'
  BY <1>1 DEF IInv, NoMalformedLost, AckedIsSettled
<1>5. CASE Leave
  <2>1. ~HoldsKey' /\ batch' \in Seq(Nat) /\ BatchInv'
    BY <1>1, <1>2, <1>5, LeaveFacts
  <2>2. Types'
    BY <1>1, <2>1 DEF IInv, Types
  <2> QED
    BY <1>1, <1>2, <1>3, <1>4, <2>1, <2>2, KeylessStep DEF IInv
<1>6. CASE pc' = "ack" /\ UNCHANGED batch
  <2>1. ~HoldsKey' /\ Current' = Current
    BY <1>1, <1>6 DEF HoldsKey, Current
  <2>2. Types'
    BY <1>1, <1>6 DEF IInv, Types
  <2>3. Current = Malformed => Head(batch) \in dlq'
    <3>1. CASE MoveToDeadLetter
      BY <1>6, <3>1 DEF MoveToDeadLetter, Leave, Goto, Runs
    <3>2. CASE MarkDelivered
      <4>1. Current \in Messages
        BY <3>2 DEF MarkDelivered, IInv, BatchInv
      <4> QED
        BY <4>1, MessagesAssumption
    <3> QED
      BY <3>1, <3>2
  <2>4. ~(phase = "push" /\ Current \in Messages)
    BY <1>1, MessagesAssumption DEF IInv, BatchInv
  <2>5. BatchInv'
    BY <1>1, <1>2, <1>6, <2>1, <2>3, <2>4 DEF IInv, BatchInv
  <2> QED
    BY <1>1, <1>2, <1>3, <1>4, <2>1, <2>2, <2>5, KeylessStep DEF IInv
<1> QED
  BY <1>1, <1>5, <1>6

\* Acknowledging the entry at the head is right: it was copied, or settled.
LEMMA AckStep ==
  ASSUME IInv, Ack
  PROVE  IInv'
<1>1. /\ pc = "ack" /\ Leave
      /\ UNCHANGED <<dedup, dlq, phase, tasks, state, result, io, ioTasks, delivered,
                     rejected, orphans>>
      /\ entries' = entries \/ entries' = [entries EXCEPT ![Head(batch)].status = "acked"]
  BY DEF Ack, sharedVars, ioVars, history
<1>2. batch # <<>> /\ ~HoldsKey /\ dedup' \subseteq Messages
  BY <1>1 DEF IInv, BatchInv, Processing, HoldsKey, Types
<1>3. /\ Head(batch) \in DOMAIN entries /\ entries[Head(batch)] \in Entry
      /\ entries[Head(batch)].stream = phase
  BY <1>2, HeadFacts
<1>4. entries \in Seq(Entry)
  BY DEF IInv, Types
<1>5. entries' \in Seq(Entry) /\ DOMAIN entries' = DOMAIN entries
  <2>1. [entries[Head(batch)] EXCEPT !.status = "acked"] \in Entry
    BY <1>3 DEF Entry
  <2> QED
    BY <1>1, <1>3, <1>4, <2>1
<1>6. ASSUME NEW i \in DOMAIN entries
      PROVE  /\ entries'[i].body = entries[i].body /\ entries'[i].stream = entries[i].stream
             /\ i # Head(batch) => entries'[i].status = entries[i].status
  <2>1. entries[i] \in Entry
    BY <1>4
  <2>2. entries'[i] = entries[i] \/ (i = Head(batch) /\ entries'[i] = [entries[i] EXCEPT !.status = "acked"])
    BY <1>1, <1>3, <1>4
  <2> QED
    BY <2>1, <2>2 DEF Entry
<1>7. ~HoldsKey' /\ batch' \in Seq(Nat) /\ BatchInv'
  BY <1>1, <1>2, <1>5, <1>6, LeaveFacts
<1>8. Types'
  BY <1>1, <1>5, <1>7 DEF IInv, Types
<1>9. TaskInv' /\ KeyInv' /\ AtMostOnce' /\ DeliveredKeepsKey'
  BY <1>1, <1>2, <1>7, KeylessStep
<1>10. NoMalformedLost'
  <2>1. entries[Head(batch)].body = Malformed => Head(batch) \in dlq
    BY <1>1 DEF IInv, BatchInv, Current
  <2> QED
    BY <1>1, <1>5, <1>6, <2>1 DEF IInv, NoMalformedLost
<1>11. AckedIsSettled'
  <2>1. phase = "push" /\ entries[Head(batch)].body \in Messages => Settled(entries[Head(batch)].body)
    BY <1>1 DEF IInv, BatchInv, Current
  <2> QED
    BY <1>1, <1>3, <1>5, <1>6, <2>1 DEF IInv, AckedIsSettled, Settled
<1> QED
  BY <1>7, <1>8, <1>9, <1>10, <1>11 DEF IInv

\* Taking the key of a message.
LEMMA SetNxStep ==
  ASSUME IInv, SetNx
  PROVE  IInv'
<1>1. PICK r \in Replies :
        /\ dedup' = IF Runs(r) THEN dedup \cup {Current} ELSE dedup
        /\ IF r # "ok" THEN Leave
           ELSE pc' = (IF Current \in dedup THEN "ack" ELSE "deliver") /\ UNCHANGED batch
        /\ orphans' = IF r = "lost" THEN orphans \cup {Current} ELSE orphans
  BY DEF SetNx, Goto
<1>2. /\ pc = "setNx" /\ UNCHANGED <<entries, dlq, phase, tasks, state, result, io, ioTasks,
                                     delivered, rejected>>
  BY DEF SetNx, sharedVars, ioVars
<1>3. batch # <<>> /\ ~HoldsKey /\ ~Waiting /\ phase = "push" /\ Current \in Messages
  BY <1>2 DEF IInv, BatchInv, Processing, HoldsKey, Waiting
<1>4. dedup \subseteq dedup' /\ dedup' \subseteq dedup \cup {Current} /\ orphans \subseteq orphans'
        /\ dedup' \subseteq Messages
  BY <1>1, <1>3 DEF IInv, Types
<1>5. NoMalformedLost' /\ AckedIsSettled'
  BY <1>2, <1>4 DEF IInv, NoMalformedLost, AckedIsSettled
<1>6. CASE r # "ok"
  <2>1. ~HoldsKey' /\ batch' \in Seq(Nat) /\ BatchInv'
    BY <1>1, <1>2, <1>3, <1>6, LeaveFacts
  <2>2. Types'
    BY <1>2, <1>4, <2>1 DEF IInv, Types
  <2>3. \A m \in dedup' : m \in dedup \/ m \in orphans'
    BY <1>1, <1>6 DEF Replies, Runs
  <2> QED
    BY <1>2, <1>3, <1>4, <1>5, <2>1, <2>2, <2>3, KeylessStep DEF IInv
<1>7. CASE r = "ok"
  <2>1. /\ pc' = (IF Current \in dedup THEN "ack" ELSE "deliver") /\ UNCHANGED batch
        /\ dedup' = dedup \cup {Current} /\ orphans' = orphans
    BY <1>1, <1>7 DEF Runs
  <2>2. Current' = Current /\ \A m : Settled(m)' = Settled(m)
    BY <1>2, <2>1 DEF Current, Settled
  <2>3. Types'
    BY <1>2, <1>4, <2>1 DEF IInv, Types
  <2>4. CASE Current \in dedup
    <3>1. pc' = "ack" /\ ~HoldsKey' /\ dedup' = dedup
      BY <2>1, <2>4 DEF HoldsKey
    <3>2. Settled(Current)
      BY <1>3, <2>4 DEF IInv, KeyInv
    <3>3. Current # Malformed
      BY <1>3, MessagesAssumption
    <3>4. BatchInv'
      BY <1>2, <1>3, <2>1, <2>2, <3>1, <3>2, <3>3 DEF IInv, BatchInv
    <3> QED
      BY <1>2, <1>3, <1>4, <1>5, <2>1, <2>3, <3>1, <3>4, KeylessStep DEF IInv
  <2>5. CASE Current \notin dedup
    <3>1. pc' = "deliver" /\ HoldsKey' /\ ~Waiting'
      BY <2>1, <2>5 DEF HoldsKey, Waiting
    <3>2. delivered[Current] = 0
      BY <1>3, <2>5 DEF IInv, Types, DeliveredKeepsKey
    <3>3. BatchInv'
      BY <1>2, <1>3, <2>1, <2>2, <3>1 DEF IInv, BatchInv
    <3>4. TaskInv'
      BY <1>2, <1>3, <3>1, TaskFrame DEF IInv
    <3>5. \A m \in dedup' : Settled(m)' \/ m = Current'
      BY <1>3, <2>1, <2>2 DEF IInv, KeyInv
    <3>6. KeyInv'
      BY <1>2, <2>1, <2>2, <3>1, <3>2, <3>5 DEF KeyInv
    <3>7. AtMostOnce' /\ DeliveredKeepsKey'
      BY <1>2, <1>4 DEF IInv, AtMostOnce, DeliveredKeepsKey
    <3> QED
      BY <1>5, <2>3, <3>3, <3>4, <3>6, <3>7 DEF IInv
  <2> QED
    BY <2>4, <2>5
<1> QED
  BY <1>6, <1>7

\* Giving it back: the body was not queued and will not be.
LEMMA DelStep ==
  ASSUME IInv, DelDedup
  PROVE  IInv'
<1>1. PICK r \in Replies :
        /\ dedup' = IF Runs(r) THEN dedup \ {Current} ELSE dedup
        /\ orphans' = IF Runs(r) THEN orphans ELSE orphans \cup {Current}
  BY DEF DelDedup
<1>2. /\ pc = "del" /\ Leave
      /\ UNCHANGED <<entries, dlq, phase, tasks, state, result, io, ioTasks, delivered, rejected>>
  BY DEF DelDedup, sharedVars, ioVars
<1>3. batch # <<>> /\ HoldsKey /\ ~Waiting /\ delivered[Current] = 0 /\ Current \in Messages
  BY <1>2 DEF IInv, BatchInv, KeyInv, Processing, HoldsKey, Waiting
<1>4. pc' = "process" /\ ~HoldsKey' /\ batch' \in Seq(Nat) /\ BatchInv'
  BY <1>2, <1>3, LeaveFacts
<1>5. Types'
  BY <1>1, <1>2, <1>4 DEF IInv, Types
<1>6. ~Waiting' /\ TaskInv'
  BY <1>2, <1>3, <1>4, TaskFrame DEF IInv, Waiting
<1>7. \A m \in dedup' : Settled(m)'
  <2> SUFFICES ASSUME NEW m \in dedup' PROVE Settled(m)'
    OBVIOUS
  <2>1. m \in dedup /\ (m = Current => m \in orphans') /\ orphans \subseteq orphans'
    BY <1>1
  <2>2. m # Current => Settled(m)
    BY <2>1 DEF IInv, KeyInv
  <2> QED
    BY <1>2, <2>1, <2>2 DEF Settled
<1>8. KeyInv'
  BY <1>4, <1>6, <1>7 DEF KeyInv
<1>9. AtMostOnce' /\ DeliveredKeepsKey'
  BY <1>1, <1>2, <1>3 DEF IInv, AtMostOnce, DeliveredKeepsKey
<1>10. NoMalformedLost' /\ AckedIsSettled'
  BY <1>1, <1>2 DEF IInv, NoMalformedLost, AckedIsSettled
<1> QED
  BY <1>4, <1>5, <1>6, <1>8, <1>9, <1>10 DEF IInv

\* deliverRemotePush returns o, and no task of its is left to carry out.
LEMMA ReturnStep ==
  ASSUME IInv, HoldsKey, NEW o \in Outcome, Return(o),
         UNCHANGED <<tasks, ioTasks, result, io>>, state' \in [TaskIds -> 0..2],
         \A q \in Queued : state'[q.id] # 0, io # "claimed",
         o = "kRetry" => delivered[Current] = 0,
         o = "kDelivered" => delivered[Current] > 0
  PROVE  IInv'
<1>1. /\ pc' = (IF o = "kRetry" THEN "del" ELSE "ack")
      /\ rejected' = (IF o = "kInvalidTarget" THEN rejected \cup {Current} ELSE rejected)
      /\ UNCHANGED <<entries, dedup, dlq, phase, batch, delivered, orphans>>
  BY DEF Return, Goto, redisVars
<1>2. batch # <<>> /\ phase = "push" /\ Current \in Messages /\ Current \in dedup
  BY DEF IInv, BatchInv, KeyInv, Processing
<1>3. Current' = Current /\ ~Waiting' /\ Queued' = Queued /\ \A m : Settled(m) => Settled(m)'
  BY <1>1 DEF Current, Waiting, Queued, Settled
<1>4. o # "kRetry" => Settled(Current)'
  BY <1>1, <1>3 DEF Settled, Outcome
<1>5. Types'
  BY <1>1 DEF IInv, Types
<1>6. BatchInv'
  <2>1. Current # Malformed
    BY <1>2, MessagesAssumption
  <2>2. HoldsKey' => o = "kRetry"
    BY <1>1 DEF HoldsKey
  <2> QED
    BY <1>1, <1>2, <1>3, <1>4, <2>1, <2>2 DEF IInv, BatchInv, HoldsKey
<1>7. TaskInv'
  BY <1>1, <1>3 DEF TaskInv
<1>8. KeyInv'
  <2>1. \A m \in dedup' : Settled(m)' \/ (HoldsKey' /\ m = Current')
    <3> SUFFICES ASSUME NEW m \in dedup PROVE Settled(m)' \/ (HoldsKey' /\ m = Current')
      BY <1>1
    <3>1. CASE Settled(m)
      BY <1>3, <3>1
    <3>2. CASE m = Current
      BY <1>1, <1>3, <1>4, <3>2 DEF HoldsKey
    <3> QED
      BY <3>1, <3>2 DEF IInv, KeyInv
  <2> QED
    BY <1>1, <1>2, <1>3, <2>1 DEF KeyInv
<1>9. AtMostOnce' /\ DeliveredKeepsKey' /\ NoMalformedLost' /\ AckedIsSettled'
  BY <1>1 DEF IInv, AtMostOnce, DeliveredKeepsKey, NoMalformedLost, AckedIsSettled
<1> QED
  BY <1>5, <1>6, <1>7, <1>8, <1>9 DEF IInv

\* The two tests before a task is made.
LEMMA DeliverBeginStep ==
  ASSUME IInv, DeliverBegin
  PROVE  IInv'
<1>1. /\ pc = "deliver" /\ HoldsKey /\ ~Waiting /\ delivered[Current] = 0
      /\ UNCHANGED <<tasks, state, result, ioTasks, io>>
  BY DEF DeliverBegin, IInv, KeyInv, HoldsKey, Waiting, sharedVars, ioVars
<1>2. CASE Return("kInvalidTarget")
  <2>1. (\A q \in Queued : state'[q.id] # 0) /\ io # "claimed"
    BY <1>1 DEF IInv, TaskInv
  <2>2. state' \in [TaskIds -> 0..2]
    BY <1>1 DEF IInv, Types
  <2> QED
    BY <1>1, <1>2, <2>1, <2>2, ReturnStep DEF Outcome
<1>3. CASE /\ pc' = "lockFd"
           /\ UNCHANGED <<entries, dedup, dlq, phase, batch, task, delivered, rejected, orphans>>
  <2>1. /\ HoldsKey' /\ ~Waiting' /\ Current' = Current /\ \A m : Settled(m)' = Settled(m)
    BY <1>3 DEF HoldsKey, Waiting, Current, Settled
  <2>2. Types'
    BY <1>1, <1>3 DEF IInv, Types
  <2>3. BatchInv'
    BY <1>1, <1>3, <2>1 DEF IInv, BatchInv, Processing
  <2>4. TaskInv'
    BY <1>1, <1>3, <2>1, TaskFrame DEF IInv
  <2>5. KeyInv'
    BY <1>1, <1>3, <2>1 DEF IInv, KeyInv
  <2> QED
    BY <1>3, <2>2, <2>3, <2>4, <2>5
    DEF IInv, AtMostOnce, DeliveredKeepsKey, NoMalformedLost, AckedIsSettled
<1> QED
  BY <1>2, <1>3 DEF DeliverBegin, Goto, redisVars, history

\* A fresh task has an id that no queued task has.
LEMMA DeliverCheckStep ==
  ASSUME IInv, DeliverCheck
  PROVE  IInv'
<1>1. /\ pc = "lockFd" /\ HoldsKey /\ ~Waiting /\ delivered[Current] = 0
      /\ UNCHANGED <<tasks, ioTasks, io>>
  BY DEF DeliverCheck, IInv, KeyInv, HoldsKey, Waiting, ioVars
<1>2. (\A q \in Queued : state[q.id] # 0) /\ io # "claimed"
  BY <1>1 DEF IInv, TaskInv
<1>3. state \in [TaskIds -> 0..2] /\ result \in [TaskIds -> Outcome \cup {None}]
  BY DEF IInv, Types
<1>4. CASE Return("kRetry") /\ UNCHANGED <<state, result>>
  BY <1>1, <1>2, <1>3, <1>4, ReturnStep DEF Outcome
<1>5. CASE /\ TaskIds \ LiveTasks # {} /\ task' = CHOOSE t \in TaskIds \ LiveTasks : TRUE
           /\ state' = [state EXCEPT ![task'] = 0] /\ result' = [result EXCEPT ![task'] = None]
           /\ pc' = "pushBack"
           /\ UNCHANGED <<entries, dedup, dlq, phase, batch, delivered, rejected, orphans>>
  <2>1. task' \in TaskIds \ LiveTasks
    BY <1>5
  <2>2. \A q \in Queued : q.id # task'
    BY <2>1 DEF LiveTasks, Queued
  <2>3. /\ HoldsKey' /\ ~Waiting' /\ Current' = Current /\ Queued' = Queued
        /\ \A m : Settled(m)' = Settled(m)
    BY <1>1, <1>5 DEF HoldsKey, Waiting, Current, Queued, Settled
  <2>4. /\ state' \in [TaskIds -> 0..2] /\ result' \in [TaskIds -> Outcome \cup {None}]
        /\ state'[task'] = 0 /\ result'[task'] = None
    BY <1>3, <1>5, <2>1
  <2>5. Types'
    BY <1>1, <1>5, <2>4 DEF IInv, Types
  <2>6. BatchInv'
    BY <1>1, <1>5, <2>3 DEF IInv, BatchInv, Processing
  <2>7. \A q \in Queued : state'[q.id] # 0
    <3> SUFFICES ASSUME NEW q \in Queued PROVE state'[q.id] # 0
      OBVIOUS
    <3>1. q.id \in TaskIds
      BY QueuedTypes DEF Tasks
    <3> QED
      BY <1>2, <1>3, <1>5, <2>1, <2>2, <3>1
  <2>8. TaskInv'
    BY <1>1, <1>2, <2>2, <2>3, <2>4, <2>7 DEF TaskInv
  <2>9. KeyInv'
    BY <1>1, <1>5, <2>1, <2>3, <2>4 DEF IInv, KeyInv
  <2> QED
    BY <1>5, <2>5, <2>6, <2>8, <2>9
    DEF IInv, AtMostOnce, DeliveredKeepsKey, NoMalformedLost, AckedIsSettled
<1> QED
  BY <1>4, <1>5 DEF DeliverCheck, Goto, redisVars, history

\* The task is queued; its caller goes on to wait for it.
LEMMA DeliverPushBackStep ==
  ASSUME IInv, DeliverPushBack
  PROVE  IInv'
<1> DEFINE new == [id |-> task, event |-> Current]
<1>1. /\ pc = "pushBack" /\ pc' = "notify" /\ HoldsKey /\ ~Waiting
      /\ tasks' = Append(tasks, new)
      /\ UNCHANGED <<entries, dedup, dlq, phase, batch, task, state, result, io, ioTasks,
                     delivered, rejected, orphans>>
  BY DEF DeliverPushBack, Goto, HoldsKey, Waiting, redisVars, ioVars, history
<1>2. /\ HoldsKey' /\ Waiting' /\ Current' = Current /\ \A m : Settled(m)' = Settled(m)
  BY <1>1 DEF HoldsKey, Waiting, Current, Settled
<1>3. task \in TaskIds /\ state[task] = 0 /\ result[task] = None /\ delivered[Current] = 0
  BY <1>1 DEF IInv, KeyInv, TaskInv
<1>4. new \in Tasks
  BY <1>1, <1>3 DEF IInv, BatchInv, Tasks
<1>5. tasks' \in Seq(Tasks) /\ Queued' = Queued \cup {new}
  <2>1. tasks \in Seq(Tasks)
    BY DEF IInv, Types
  <2>2. tasks' \in Seq(Tasks) /\ Range(tasks') = Range(tasks) \cup {new}
    <3> HIDE DEF new
    <3> QED
      BY <1>1, <1>4, <2>1, QueueFacts
  <2> QED
    BY <1>1, <2>2 DEF Queued
<1>6. new.id = task /\ new.event = Current
  OBVIOUS
<1> HIDE DEF new
<1>7. Types'
  BY <1>1, <1>5 DEF IInv, Types
<1>8. BatchInv'
  BY <1>1, <1>2 DEF IInv, BatchInv, Processing
<1>9. TaskInv'
  BY <1>1, <1>2, <1>5, <1>6 DEF IInv, TaskInv
<1>10. result[task] # "kDelivered" /\ ~(delivered[Current] > 0)
  BY <1>3, BoundAssumption DEF Outcome
<1>11. KeyInv'
  BY <1>1, <1>2, <1>3, <1>10 DEF IInv, KeyInv
<1> QED
  BY <1>1, <1>7, <1>8, <1>9, <1>11
  DEF IInv, AtMostOnce, DeliveredKeepsKey, NoMalformedLost, AckedIsSettled

\* The caller goes on waiting.
LEMMA WaitStep ==
  ASSUME IInv, Waiting, pc' \in {"wait", "waitOn"},
         UNCHANGED <<state, entries, dedup, dlq, phase, batch, task, delivered, rejected, orphans,
                     tasks, ioTasks, result, io>>
  PROVE  IInv'
<1>1. /\ HoldsKey /\ HoldsKey' /\ Waiting' /\ Current' = Current /\ Queued' = Queued
      /\ \A m : Settled(m)' = Settled(m)
  BY DEF HoldsKey, Waiting, Current, Queued, Settled
<1>2. Types'
  BY DEF IInv, Types
<1>3. BatchInv'
  BY <1>1 DEF IInv, BatchInv, Processing
<1>4. TaskInv'
  BY <1>1 DEF IInv, TaskInv
<1>5. KeyInv'
  BY <1>1 DEF IInv, KeyInv
<1> QED
  BY <1>2, <1>3, <1>4, <1>5
  DEF IInv, AtMostOnce, DeliveredKeepsKey, NoMalformedLost, AckedIsSettled

\* The caller gives up only a task nobody has claimed; else it waits on.
LEMMA GiveUpStep ==
  ASSUME IInv, Waiting, NEW l \in {"wait", "waitOn"}, GiveUp(l),
         UNCHANGED <<tasks, ioTasks, result, io>>
  PROVE  IInv'
<1>1. /\ HoldsKey /\ task \in TaskIds /\ state \in [TaskIds -> 0..2]
  BY DEF Waiting, HoldsKey, IInv, KeyInv, Types
<1>2. CASE /\ state[task] = 0 /\ state' = [state EXCEPT ![task] = 2] /\ Return("kRetry")
  <2>1. state' \in [TaskIds -> 0..2] /\ delivered[Current] = 0 /\ io # "claimed"
    <3>1. state' \in [TaskIds -> 0..2]
      BY <1>1, <1>2
    <3>2. delivered[Current] = 0
      BY <1>2 DEF IInv, KeyInv
    <3>3. io = "claimed" => state[task] = 1
      BY Zenon DEF IInv, TaskInv
    <3> QED
      BY <1>2, <3>1, <3>2, <3>3
  <2>2. \A q \in Queued : state'[q.id] # 0
    <3> SUFFICES ASSUME NEW q \in Queued PROVE state'[q.id] # 0
      OBVIOUS
    <3>1. q.id \in TaskIds /\ (state[q.id] = 0 => q.id = task)
      BY QueuedTypes DEF Tasks, IInv, TaskInv
    <3> QED
      BY <1>1, <1>2, <3>1
  <2> QED
    BY <1>1, <1>2, <2>1, <2>2, ReturnStep DEF Outcome
<1>3. CASE /\ pc' = l /\ UNCHANGED <<state, entries, dedup, dlq, phase, batch, task, delivered,
                                    rejected, orphans>>
  BY <1>3, WaitStep
<1> QED
  BY <1>2, <1>3 DEF GiveUp, Goto, redisVars, history

\* Waiting for the task ends with its result, or by giving it up unclaimed.
LEMMA DeliverWaitSteps ==
  ASSUME IInv, DeliverNotify \/ DeliverReady \/ DeliverTimeout
  PROVE  IInv'
<1>1. Waiting /\ HoldsKey /\ UNCHANGED <<tasks, ioTasks, result, io>>
  BY DEF DeliverNotify, DeliverReady, DeliverTimeout, Waiting, HoldsKey, sharedVars, ioVars
<1>2. CASE DeliverNotify
  <2>1. CASE GiveUp("wait")
    BY <1>1, <2>1, GiveUpStep
  <2>2. CASE /\ pc' = "wait" /\ UNCHANGED <<state, entries, dedup, dlq, phase, batch, task,
                                            delivered, rejected, orphans>>
    BY <1>1, <2>2, WaitStep
  <2> QED
    BY <1>2, <2>1, <2>2 DEF DeliverNotify, Goto, redisVars, history
<1>3. CASE DeliverTimeout
  BY <1>1, <1>3, GiveUpStep DEF DeliverTimeout
<1>4. CASE DeliverReady
  <2>1. /\ result[task] # None /\ Return(result[task]) /\ UNCHANGED state
    BY <1>4 DEF DeliverReady, sharedVars
  <2>2. /\ task \in TaskIds /\ result \in [TaskIds -> Outcome \cup {None}]
        /\ state \in [TaskIds -> 0..2] /\ delivered \in [Messages -> Nat] /\ Current \in Messages
    BY <1>1 DEF IInv, KeyInv, Types, BatchInv
  <2>3. result[task] \in Outcome
    BY <2>1, <2>2
  <2>4. state[task] # 0 /\ (delivered[Current] > 0 <=> result[task] = "kDelivered")
    BY <1>1, <2>1 DEF IInv, KeyInv
  <2>5. (\A q \in Queued : state'[q.id] # 0) /\ io # "claimed"
    BY <2>1, <2>4 DEF IInv, TaskInv
  <2>6. result[task] = "kRetry" => delivered[Current] = 0
    BY <2>2, <2>4
  <2> QED
    BY <1>1, <2>1, <2>2, <2>3, <2>4, <2>5, <2>6, ReturnStep
<1> QED
  BY <1>2, <1>3, <1>4

\* The I/O thread takes the queue.
LEMMA IoSwapStep ==
  ASSUME IInv, IoSwap
  PROVE  IInv'
<1>1. /\ io = "swap" /\ io' = "apply" /\ ioTasks' = tasks /\ tasks' = <<>>
      /\ UNCHANGED <<entries, dedup, dlq, pc, phase, batch, task, state, result, delivered,
                     rejected, orphans>>
  BY DEF IoSwap, redisVars, workerVars, history
<1>2. /\ Current' = Current /\ HoldsKey' = HoldsKey /\ Waiting' = Waiting
      /\ \A m : Settled(m)' = Settled(m)
  BY <1>1 DEF Current, HoldsKey, Waiting, Settled
<1>3. Queued' \subseteq Queued
  BY <1>1 DEF Queued, Range
<1>4. Types'
  BY <1>1 DEF IInv, Types
<1>5. BatchInv' /\ KeyInv'
  BY <1>1, <1>2 DEF IInv, BatchInv, Processing, KeyInv
<1>6. TaskInv'
  BY <1>1, <1>2, <1>3 DEF IInv, TaskInv
<1> QED
  BY <1>1, <1>4, <1>5, <1>6
  DEF IInv, AtMostOnce, DeliveredKeepsKey, NoMalformedLost, AckedIsSettled

\* The task it claims is the one its caller waits for.
LEMMA IoClaimStep ==
  ASSUME IInv, IoClaim
  PROVE  IInv'
<1> DEFINE q == Head(ioTasks)
<1>1. /\ io = "apply" /\ ioTasks # <<>>
      /\ UNCHANGED <<entries, dedup, dlq, pc, phase, batch, task, tasks, result, delivered,
                     rejected, orphans>>
      /\ \/ /\ state[q.id] = 0 /\ state' = [state EXCEPT ![q.id] = 1]
            /\ io' = "claimed" /\ UNCHANGED ioTasks
         \/ ioTasks' = Tail(ioTasks) /\ UNCHANGED <<state, io>>
  BY DEF IoClaim, redisVars, workerVars, history
<1>2. /\ q \in Queued /\ q \in Tasks /\ Tail(ioTasks) \in Seq(Tasks)
      /\ Range(Tail(ioTasks)) \subseteq Range(ioTasks)
  BY <1>1, QueueFacts DEF IInv, Types, Queued
<1>3. /\ Current' = Current /\ HoldsKey' = HoldsKey /\ Waiting' = Waiting
      /\ \A m : Settled(m)' = Settled(m)
  BY <1>1 DEF Current, HoldsKey, Waiting, Settled
<1>4. state \in [TaskIds -> 0..2] /\ q.id \in TaskIds
  BY <1>2 DEF IInv, Types, Tasks
<1>5. BatchInv'
  BY <1>1, <1>3 DEF IInv, BatchInv, Processing
<1>6. CASE state[q.id] = 0 /\ state' = [state EXCEPT ![q.id] = 1] /\ io' = "claimed" /\ UNCHANGED ioTasks
  <2>1. Waiting /\ q.id = task /\ q.event = Current /\ state[task] = 0
    BY <1>2, <1>6 DEF IInv, TaskInv
  <2>2. result[task] = None /\ delivered[Current] = 0 /\ pc # "pushBack"
    BY <2>1 DEF IInv, KeyInv, Waiting
  <2>3. q = [id |-> task, event |-> Current]
    BY <1>2, <2>1 DEF Tasks
  <2>4. /\ state' \in [TaskIds -> 0..2] /\ state'[task] = 1
        /\ \A t \in TaskIds : state'[t] = 0 => state[t] = 0
    <3>1. state' = [state EXCEPT ![task] = 1] /\ task \in TaskIds
      BY <1>4, <1>6, <2>1
    <3> QED
      BY <1>4, <3>1
  <2> HIDE DEF q
  <2>5. Types'
    BY <1>1, <1>6, <2>4 DEF IInv, Types
  <2>6. \A p \in Queued : state'[p.id] # 0
    <3> SUFFICES ASSUME NEW p \in Queued PROVE state'[p.id] # 0
      OBVIOUS
    <3>1. p.id \in TaskIds /\ (state[p.id] = 0 => p.id = task)
      BY QueuedTypes DEF Tasks, IInv, TaskInv
    <3> QED
      BY <2>4, <3>1
  <2>7. Queued' = Queued
    BY <1>1, <1>6 DEF Queued
  <2>8. TaskInv'
    BY <1>1, <1>3, <1>6, <2>1, <2>2, <2>3, <2>4, <2>6, <2>7 DEF TaskInv, q
  <2>9. KeyInv'
    BY <1>1, <1>3, <2>1, <2>2, <2>4 DEF IInv, KeyInv
  <2> QED
    BY <1>1, <1>5, <2>5, <2>8, <2>9
    DEF IInv, AtMostOnce, DeliveredKeepsKey, NoMalformedLost, AckedIsSettled
<1>7. CASE ioTasks' = Tail(ioTasks) /\ UNCHANGED <<state, io>>
  <2>1. Queued' \subseteq Queued
    BY <1>1, <1>2, <1>7 DEF Queued
  <2>2. Types'
    BY <1>1, <1>2, <1>7 DEF IInv, Types
  <2>3. TaskInv'
    BY <1>1, <1>3, <1>7, <2>1 DEF IInv, TaskInv
  <2>4. KeyInv'
    BY <1>1, <1>3, <1>7 DEF IInv, KeyInv
  <2> QED
    BY <1>1, <1>5, <2>2, <2>3, <2>4
    DEF IInv, AtMostOnce, DeliveredKeepsKey, NoMalformedLost, AckedIsSettled
<1> QED
  BY <1>1, <1>6, <1>7

\* Carrying it out queues a body that was never queued, while its key is held.
LEMMA IoCompleteStep ==
  ASSUME IInv, IoComplete
  PROVE  IInv'
<1> DEFINE q == Head(ioTasks)
<1>1. /\ io = "claimed" /\ io' = "apply" /\ ioTasks' = Tail(ioTasks)
      /\ UNCHANGED <<entries, dedup, dlq, pc, phase, batch, task, tasks, state, rejected, orphans>>
      /\ \/ /\ result' = [result EXCEPT ![q.id] = "kDelivered"]
            /\ delivered' = [delivered EXCEPT ![q.event] = @ + 1]
         \/ /\ \E o \in {"kInvalidTarget", "kRetry"} : result' = [result EXCEPT ![q.id] = o]
            /\ UNCHANGED delivered
  BY DEF IoComplete, redisVars, workerVars
<1>2. /\ ioTasks # <<>> /\ Waiting /\ q.id = task /\ q.event = Current /\ state[task] = 1
      /\ delivered[Current] = 0
  <2>1. /\ ioTasks # <<>> /\ Waiting /\ q = [id |-> task, event |-> Current]
        /\ state[task] = 1 /\ delivered[Current] = 0
    BY <1>1 DEF IInv, TaskInv
  <2> HIDE DEF q
  <2> QED
    BY <2>1
<1>3. /\ HoldsKey /\ pc # "pushBack" /\ pc \notin {"deliver", "lockFd", "del", "ack"}
      /\ Current \in Messages /\ Current \in dedup /\ task \in TaskIds
  BY <1>2 DEF IInv, BatchInv, KeyInv, HoldsKey, Waiting
<1> HIDE DEF q
<1>4. /\ delivered \in [Messages -> Nat] /\ result \in [TaskIds -> Outcome \cup {None}]
  BY DEF IInv, Types
<1>5. /\ delivered' \in [Messages -> Nat] /\ result' \in [TaskIds -> Outcome \cup {None}]
      /\ \A m \in Messages \ {Current} : delivered'[m] = delivered[m]
      /\ \/ delivered'[Current] = 1 /\ result'[task] = "kDelivered"
         \/ delivered'[Current] = 0 /\ result'[task] \in {"kInvalidTarget", "kRetry"}
  <2>1. ASSUME NEW o \in Outcome, result' = [result EXCEPT ![task] = o]
        PROVE  result' \in [TaskIds -> Outcome \cup {None}] /\ result'[task] = o
    BY <1>3, <1>4, <2>1
  <2>2. CASE /\ result' = [result EXCEPT ![task] = "kDelivered"]
             /\ delivered' = [delivered EXCEPT ![Current] = @ + 1]
    <3>1. /\ delivered' \in [Messages -> Nat] /\ delivered'[Current] = 1
          /\ \A m \in Messages \ {Current} : delivered'[m] = delivered[m]
      BY <1>2, <1>3, <1>4, <2>2
    <3> QED
      BY <2>1, <2>2, <3>1 DEF Outcome
  <2>3. ASSUME NEW o \in {"kInvalidTarget", "kRetry"}, result' = [result EXCEPT ![task] = o],
               UNCHANGED delivered
        PROVE  /\ delivered' \in [Messages -> Nat] /\ result' \in [TaskIds -> Outcome \cup {None}]
               /\ \A m \in Messages \ {Current} : delivered'[m] = delivered[m]
               /\ delivered'[Current] = 0 /\ result'[task] \in {"kInvalidTarget", "kRetry"}
    BY <1>2, <1>4, <2>1, <2>3 DEF Outcome
  <2> QED
    BY <1>1, <1>2, <2>2, <2>3
<1>6. /\ Current' = Current /\ HoldsKey' = HoldsKey /\ Waiting' = Waiting
  BY <1>1 DEF Current, HoldsKey, Waiting
<1>7. ioTasks' \in Seq(Tasks) /\ Queued' \subseteq Queued
  <2>1. ioTasks \in Seq(Tasks)
    BY DEF IInv, Types
  <2>2. Tail(ioTasks) \in Seq(Tasks) /\ Range(Tail(ioTasks)) \subseteq Range(ioTasks)
    BY <1>2, <2>1, QueueFacts
  <2> QED
    BY <1>1, <2>2 DEF Queued
<1>8. Types'
  BY <1>1, <1>5, <1>7 DEF IInv, Types
<1>9. BatchInv'
  BY <1>1, <1>3, <1>6 DEF IInv, BatchInv, Processing
<1>10. TaskInv'
  BY <1>1, <1>3, <1>6, <1>7 DEF IInv, TaskInv
<1>11. \A m \in Messages : Settled(m) => Settled(m)'
  <2> SUFFICES ASSUME NEW m \in Messages, Settled(m) PROVE Settled(m)'
    OBVIOUS
  <2>1. CASE m \in rejected \cup orphans
    BY <1>1, <2>1 DEF Settled
  <2>2. CASE delivered[m] > 0
    <3>1. m # Current
      BY <1>2, <2>2
    <3> QED
      BY <1>5, <2>2, <3>1 DEF Settled
  <2> QED
    BY <2>1, <2>2 DEF Settled
<1>12. KeyInv'
  <2>1. delivered'[Current] > 0 <=> result'[task] = "kDelivered"
    BY <1>5
  <2>2. \A m \in dedup : Settled(m)' \/ (HoldsKey /\ m = Current)
    <3>1. dedup \subseteq Messages /\ \A m \in dedup : Settled(m) \/ (HoldsKey /\ m = Current)
      BY DEF IInv, KeyInv, Types
    <3> QED
      BY <1>11, <3>1
  <2>3. UNCHANGED <<pc, task, state, dedup>> /\ state[task] # 0
    BY <1>1, <1>2
  <2> QED
    BY <1>3, <1>6, <2>1, <2>2, <2>3 DEF KeyInv
<1>13. AtMostOnce' /\ DeliveredKeepsKey'
  BY <1>1, <1>3, <1>5 DEF IInv, AtMostOnce, DeliveredKeepsKey
<1>14. NoMalformedLost' /\ AckedIsSettled'
  <2>1. AckedIsSettled'
    BY <1>1, <1>11 DEF IInv, AckedIsSettled, Settled
  <2> QED
    BY <1>1, <2>1 DEF IInv, NoMalformedLost
<1> QED
  BY <1>8, <1>9, <1>10, <1>12, <1>13, <1>14 DEF IInv

\* stop() answers the tasks that are queued and not claimed.
LEMMA StopTasksStep ==
  ASSUME IInv, StopTasks
  PROVE  IInv'
<1> DEFINE free == {q.id : q \in Range(tasks)} \cap {t \in TaskIds : state[t] = 0}
<1>1. /\ state' = [t \in TaskIds |-> IF t \in free THEN 2 ELSE state[t]]
      /\ result' = [t \in TaskIds |-> IF t \in free THEN "kRetry" ELSE result[t]]
      /\ tasks' = <<>>
      /\ UNCHANGED <<entries, dedup, dlq, pc, phase, batch, task, ioTasks, io, delivered,
                     rejected, orphans>>
  BY DEF StopTasks, redisVars, workerVars, ioVars, history
<1>2. /\ Current' = Current /\ HoldsKey' = HoldsKey /\ Waiting' = Waiting
      /\ \A m : Settled(m)' = Settled(m)
  BY <1>1 DEF Current, HoldsKey, Waiting, Settled
<1>3. state \in [TaskIds -> 0..2] /\ result \in [TaskIds -> Outcome \cup {None}]
  BY DEF IInv, Types
<1>4. /\ \A t \in free : t \in TaskIds /\ state[t] = 0
      /\ \A t \in free : \E q \in Queued : q.id = t
  BY DEF Queued
<1> HIDE DEF free
<1>5. /\ state' \in [TaskIds -> 0..2] /\ result' \in [TaskIds -> Outcome \cup {None}]
      /\ \A t \in TaskIds : state'[t] = 0 => state[t] = 0
      /\ \A t \in TaskIds \ free : state'[t] = state[t] /\ result'[t] = result[t]
      /\ \A t \in free : state'[t] = 2 /\ result'[t] = "kRetry"
  <2>1. \A t \in TaskIds : /\ state'[t] = IF t \in free THEN 2 ELSE state[t]
                           /\ result'[t] = IF t \in free THEN "kRetry" ELSE result[t]
    BY <1>1
  <2>2. state' \in [TaskIds -> 0..2]
    BY <1>1, <1>3
  <2>3. result' \in [TaskIds -> Outcome \cup {None}]
    BY <1>1, <1>3 DEF Outcome
  <2> QED
    BY <1>4, <2>1, <2>2, <2>3
<1>6. Queued' \subseteq Queued
  <2>1. Range(tasks') = {}
    BY <1>1 DEF Range
  <2> QED
    BY <1>1, <2>1 DEF Queued
<1>7. Types'
  <2>1. tasks' \in Seq(Tasks)
    BY <1>1
  <2> QED
    BY <1>1, <1>5, <2>1 DEF IInv, Types
<1>8. BatchInv'
  BY <1>1, <1>2 DEF IInv, BatchInv, Processing
<1>9. (pc = "pushBack" \/ io = "claimed") => task \in TaskIds \ free
  <2>1. pc = "pushBack" \/ Waiting => task \in TaskIds
    BY DEF IInv, KeyInv
  <2>2. pc = "pushBack" => \A q \in Queued : q.id # task
    BY DEF IInv, TaskInv
  <2>3. io = "claimed" => Waiting /\ state[task] = 1
    BY Zenon DEF IInv, TaskInv
  <2> QED
    BY <1>4, <2>1, <2>2, <2>3
<1>10. TaskInv'
  <2>1. \A q \in Queued' : state'[q.id] = 0 => Waiting' /\ q.id = task' /\ q.event = Current'
    <3> SUFFICES ASSUME NEW q \in Queued, state'[q.id] = 0
                 PROVE  Waiting /\ q.id = task /\ q.event = Current
      BY <1>1, <1>2, <1>6
    <3>1. q.id \in TaskIds
      BY QueuedTypes DEF Tasks
    <3> QED
      BY <1>5, <3>1 DEF IInv, TaskInv
  <2> QED
    BY <1>1, <1>2, <1>5, <1>6, <1>9, <2>1 DEF IInv, TaskInv
<1>11. KeyInv'
  <2>1. CASE task \in free
    <3>1. Waiting \/ pc = "pushBack" => delivered[Current] = 0
      BY <1>4, <2>1 DEF IInv, KeyInv
    <3>2. state'[task] # 0 /\ result'[task] # "kDelivered"
      BY <1>5, <2>1
    <3>3. Waiting => ~(delivered[Current] > 0)
      BY <3>1
    <3> QED
      BY <1>1, <1>2, <3>2, <3>3 DEF IInv, KeyInv
  <2>2. CASE task \notin free
    BY <1>1, <1>2, <1>5, <2>2 DEF IInv, KeyInv
  <2> QED
    BY <2>1, <2>2
<1> QED
  BY <1>1, <1>7, <1>8, <1>10, <1>11
  DEF IInv, AtMostOnce, DeliveredKeepsKey, NoMalformedLost, AckedIsSettled

\* A new entry is not acknowledged.
LEMMA AddStep ==
  ASSUME IInv, NEW st \in {"push", "retry"}, NEW b \in Messages \cup {Malformed}, Add(st, b)
  PROVE  IInv'
<1> DEFINE e == [stream |-> st, body |-> b, status |-> "new"]
<1>1. /\ entries' = Append(entries, e)
      /\ UNCHANGED <<dedup, dlq, pc, phase, batch, task, tasks, state, result, ioTasks, io,
                     delivered, rejected, orphans>>
  BY DEF Add, workerVars, sharedVars, ioVars, history
<1>2. e \in Entry /\ e.status = "new"
  BY DEF Entry
<1> HIDE DEF e
<1>3. /\ entries' \in Seq(Entry) /\ DOMAIN entries' = DOMAIN entries \cup {Len(entries) + 1}
      /\ entries'[Len(entries) + 1] = e
      /\ \A i \in DOMAIN entries : entries'[i] = entries[i]
  <2>1. entries \in Seq(Entry)
    BY DEF IInv, Types
  <2>2. entries' \in Seq(Entry) /\ Len(entries') = Len(entries) + 1
    BY <1>1, <1>2, <2>1
  <2>3. /\ Len(entries) \in Nat /\ DOMAIN entries = 1..Len(entries)
        /\ DOMAIN entries' = 1..Len(entries')
    BY <2>1, <2>2
  <2>4. DOMAIN entries' = DOMAIN entries \cup {Len(entries) + 1}
    BY <2>2, <2>3
  <2>5. entries'[Len(entries) + 1] = e
    BY <1>1, <1>2, <2>1
  <2>6. \A i \in DOMAIN entries : entries'[i] = entries[i]
    BY <1>1, <1>2, <2>1
  <2> QED
    BY <2>2, <2>4, <2>5, <2>6
<1>4. /\ HoldsKey' = HoldsKey /\ Waiting' = Waiting /\ Processing' = Processing
      /\ Queued' = Queued /\ \A m : Settled(m)' = Settled(m)
  BY <1>1 DEF HoldsKey, Waiting, Processing, Queued, Settled
<1>5. Processing => Current' = Current
  <2> SUFFICES ASSUME Processing PROVE Current' = Current
    OBVIOUS
  <2>1. Head(batch) \in DOMAIN entries
    BY HeadFacts DEF IInv, BatchInv
  <2> QED
    BY <1>1, <1>3, <2>1 DEF Current
<1>6. (HoldsKey => Processing) /\ (Waiting => Processing)
        /\ (pc \in {"setNx", "mark", "deadLetter", "ack", "pushBack", "deliver", "lockFd", "del"}
              => Processing)
  BY DEF Processing, HoldsKey, Waiting
<1>7. Types'
  BY <1>1, <1>3 DEF IInv, Types
<1>8. BatchInv'
  BY <1>1, <1>3, <1>4, <1>5, <1>6 DEF IInv, BatchInv
<1>9. TaskInv'
  BY <1>1, <1>4, <1>5, <1>6 DEF IInv, TaskInv
<1>10. KeyInv'
  BY <1>1, <1>4, <1>5, <1>6 DEF IInv, KeyInv
<1>11. AtMostOnce' /\ DeliveredKeepsKey'
  BY <1>1 DEF IInv, AtMostOnce, DeliveredKeepsKey
<1>12. NoMalformedLost' /\ AckedIsSettled'
  BY <1>1, <1>2, <1>3 DEF IInv, NoMalformedLost, AckedIsSettled
<1> QED
  BY <1>7, <1>8, <1>9, <1>10, <1>11, <1>12 DEF IInv

\* A crash leaves the key of the message at hand behind.
LEMMA CrashStep ==
  ASSUME IInv, Crash
  PROVE  IInv'
<1>1. /\ pc' = "claim" /\ batch' = <<>> /\ tasks' = <<>> /\ ioTasks' = <<>> /\ io' = "starting"
      /\ state' = [t \in TaskIds |-> 0] /\ result' = [t \in TaskIds |-> None]
      /\ orphans' = IF HoldsKey THEN orphans \cup {Current} ELSE orphans
      /\ UNCHANGED <<entries, dedup, dlq, delivered, rejected>>
  BY DEF Crash, redisVars
<1>2. Queued' = {} /\ ~HoldsKey' /\ ~Waiting' /\ ~Processing'
  BY <1>1 DEF Queued, Range, HoldsKey, Waiting, Processing
<1>3. Types'
  <2>1. state' \in [TaskIds -> 0..2] /\ result' \in [TaskIds -> Outcome \cup {None}]
    BY <1>1
  <2>2. batch' \in Seq(Nat) /\ tasks' \in Seq(Tasks) /\ ioTasks' \in Seq(Tasks)
    BY <1>1
  <2> QED
    BY <1>1, <2>1, <2>2 DEF IInv, Types
<1>4. BatchInv'
  <2>1. DOMAIN batch' = {}
    BY <1>1
  <2>2. pc' = "claim"
    BY <1>1
  <2> QED
    BY <1>2, <2>1, <2>2 DEF BatchInv
<1>5. TaskInv'
  BY <1>1, <1>2 DEF TaskInv
<1>6. \A m \in dedup' : Settled(m)'
  BY <1>1 DEF IInv, KeyInv, Settled
<1>7. KeyInv'
  BY <1>1, <1>2, <1>6 DEF KeyInv
<1>8. NoMalformedLost' /\ AckedIsSettled'
  BY <1>1 DEF IInv, NoMalformedLost, AckedIsSettled
<1> QED
  BY <1>1, <1>3, <1>4, <1>5, <1>7, <1>8 DEF IInv, AtMostOnce, DeliveredKeepsKey

\* The invariant is inductive.
THEOREM PushInvariant == Spec => []IInv
<1>1. IInv /\ [Next]_vars => IInv'
  <2> SUFFICES ASSUME IInv, [Next]_vars PROVE IInv'
    OBVIOUS
  <2>1. CASE Consumer
    BY <2>1, ClaimStep, ReadNewStep, NextEntryStep, SortStep, AckStep, SetNxStep, DelStep,
       DeliverBeginStep, DeliverCheckStep, DeliverPushBackStep, DeliverWaitSteps DEF Consumer
  <2>2. CASE IoSwap \/ IoClaim \/ IoComplete \/ StopTasks
    BY <2>2, IoSwapStep, IoClaimStep, IoCompleteStep, StopTasksStep
  <2>3. CASE \/ IoStart \/ IoWake \/ IoDrain \/ IoNextPoll \/ IoHook \/ IoClose
             \/ StopWake \/ StopBegin \/ \E c \in Conns : Move(c)
    <3>1. UNCHANGED <<entries, dedup, dlq, pc, phase, batch, task, tasks, state, result, ioTasks,
                      delivered, rejected, orphans>>
      BY <2>3 DEF IoStart, IoWake, IoDrain, IoNextPoll, IoHook, IoClose, StopWake, StopBegin, Move,
                  redisVars, workerVars, sharedVars, ioVars, history
    <3>2. io' # "claimed" \/ io' = io
      BY <2>3 DEF IoStart, IoWake, IoDrain, IoNextPoll, IoHook, IoClose, StopWake, StopBegin, Move,
                  ioVars
    <3> QED
      BY <3>1, <3>2, QuietStep
  <2>4. CASE \/ \E m \in Messages : Publish(m) \/ PublishDeliveryRetry(m)
             \/ \E st \in {"push", "retry"} : AddMalformed(st)
    BY <2>4, AddStep DEF Publish, PublishDeliveryRetry, AddMalformed
  <2>5. CASE Crash
    BY <2>5, CrashStep
  <2>6. CASE UNCHANGED vars
    BY <2>6, QuietStep DEF vars, redisVars, workerVars, sharedVars, ioVars, history
  <2> QED
    BY <2>1, <2>2, <2>3, <2>4, <2>5, <2>6 DEF Next, Io, Stopper, Environment
<1>2. Init => IInv
  BY InitHolds
<1> QED
  BY <1>1, <1>2, PTL DEF Spec

\* No body is queued twice, whatever is published twice, times out, fails in
\* Redis, is stopped or crashes between any two steps.
THEOREM QueuedAtMostOnce == Spec => []AtMostOnce
<1>1. IInv => AtMostOnce
  BY DEF IInv
<1> QED
  BY <1>1, PushInvariant, PTL

\* The dedup key of a message whose body was queued is never given back.
THEOREM KeyIsKept == Spec => []DeliveredKeepsKey
<1>1. IInv => DeliveredKeepsKey
  BY DEF IInv
<1> QED
  BY <1>1, PushInvariant, PTL

\* An entry that does not decode is acknowledged only after it was copied.
THEOREM MalformedIsCopied == Spec => []NoMalformedLost
<1>1. IInv => NoMalformedLost
  BY DEF IInv
<1> QED
  BY <1>1, PushInvariant, PTL

\* A push is acknowledged only when it was queued or refused, or when its
\* dedup key was left behind by a failure.
THEOREM AcksAreSettled == Spec => []AckedIsSettled
<1>1. IInv => AckedIsSettled
  BY DEF IInv
<1> QED
  BY <1>1, PushInvariant, PTL

\* XACK is right for both kinds of entry: a push is settled and a malformed entry
\* is copied before it is acknowledged.
THEOREM AcknowledgedRightly == Spec => []AcksAreRight
<1>1. AckedIsSettled /\ NoMalformedLost => AcksAreRight
  BY DEF AcksAreRight
<1> QED
  BY <1>1, AcksAreSettled, MalformedIsCopied, PTL
=============================================================================
