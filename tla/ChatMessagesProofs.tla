-------------------------- MODULE ChatMessagesProofs --------------------------
(***************************************************************************)
(* The idempotence of sendMessage for any number of threads, users and     *)
(* attempts and with every failure.  At most one stored row has a given    *)
(* (sender, client_msg_id): a thread about to commit has seen none, and no *)
(* other thread is about to commit the same key.  Rows are never removed,  *)
(* and only their status changes; so what a thread found, cached or        *)
(* answered stays true.                                                    *)
(***************************************************************************)
EXTENDS ChatMessages, FiniteSetTheorems, TLAPS

\* Before the commit the id of the attempt is not in the table.
Early == {"lookup", "verify", "read", "begin", "insert", "commit"}
Labels == Early \cup {"idle", "reread", "check", "save"}

Rows ==
  [from : Users, to : Users, cid : ClientIds, content : Contents, seq : Nat,
   status : {"stored", "delivered", "read"}]

TableTypes ==
  /\ MaxIds \in Nat /\ None \notin Ids
  /\ DOMAIN messages \subseteq Ids
  /\ \A i \in DOMAIN messages : messages[i] \in Rows
  /\ lastSeq \in [Conversations -> Nat]
  /\ dedup \in [DedupKeys -> Ids \cup {None}]
  /\ nextId \in Nat \ {0}

ThreadTypes ==
  /\ pc \in [Threads -> Labels]
  /\ req \in [Threads -> Requests \cup {None}]
  /\ id \in [Threads -> Ids \cup {None}]
  /\ found \in [Threads -> Ids \cup {None}]

\* What a thread knows.
ThreadInv(t) ==
  /\ pc[t] # "idle" => req[t] \in Requests /\ id[t] \in Ids /\ id[t] < nextId
  /\ pc[t] \in Early => id[t] \notin DOMAIN messages
  /\ pc[t] = "commit" => Stored(DedupKey(req[t])) = {}
  /\ pc[t] \in {"check", "save"} => found[t] \in Stored(DedupKey(req[t]))
  /\ pc[t] = "save" => IsSameIdempotentMessage(req[t], messages[found[t]])

PairInv(t, u) ==
  /\ pc[t] # "idle" /\ pc[u] # "idle" => id[t] # id[u]
  /\ pc[t] = "commit" /\ pc[u] = "commit" => DedupKey(req[t]) # DedupKey(req[u])

UniqueKey ==
  \A i, j \in DOMAIN messages : DedupKey(messages[i]) = DedupKey(messages[j]) => i = j

IdsAreUsed == \A i \in DOMAIN messages : i < nextId

AnswerTypes == answers \subseteq [req : Requests, id : Ids, seq : Nat]

IInv ==
  /\ TableTypes /\ ThreadTypes /\ AnswerTypes
  /\ \A t \in Threads : ThreadInv(t)
  /\ \A t, u \in Threads : t # u => PairInv(t, u)
  /\ UniqueKey /\ IdsAreUsed /\ CacheNamesStored /\ AnsweredIsStored

\* The initial state satisfies the invariant.
LEMMA InitHolds ==
  ASSUME ChatAssumption, Init
  PROVE  IInv
<1>1. DOMAIN messages = {}
  BY DEF Init
<1>2. MaxIds \in Nat /\ None \notin Ids
  BY DEF ChatAssumption, Ids
<1>3. TableTypes
  BY <1>1, <1>2 DEF Init, TableTypes
<1>4. ThreadTypes
  BY DEF Init, ThreadTypes, Labels
<1>5. \A t \in Threads : pc[t] = "idle"
  BY DEF Init
<1>6. (\A t \in Threads : ThreadInv(t)) /\ (\A t, u \in Threads : t # u => PairInv(t, u))
  BY <1>5 DEF ThreadInv, PairInv, Early
<1>7. UniqueKey /\ IdsAreUsed
  BY <1>1 DEF UniqueKey, IdsAreUsed
<1>8. CacheNamesStored
  BY DEF Init, CacheNamesStored
<1>9. AnswerTypes /\ AnsweredIsStored
  BY DEF Init, AnswerTypes, AnsweredIsStored
<1> QED
  BY <1>3, <1>4, <1>6, <1>7, <1>8, <1>9 DEF IInv

\* A request's key and a row's fields have their types.
LEMMA RequestFields ==
  ASSUME NEW r \in Requests
  PROVE  /\ r \in [from : Users, to : Users, cid : ClientIds, content : Contents]
         /\ DedupKey(r) \in DedupKeys /\ Conversation(r) \in Conversations
  BY DEF Requests, DedupKey, DedupKeys, Conversations

\* A step of one thread that leaves the table alone.
LEMMA LocalStep ==
  ASSUME IInv, NEW t \in Threads,
         UNCHANGED <<messages, lastSeq, nextId>>,
         ThreadTypes', dedup' \in [DedupKeys -> Ids \cup {None}], AnswerTypes',
         \A u \in Threads : u # t =>
           pc'[u] = pc[u] /\ req'[u] = req[u] /\ id'[u] = id[u] /\ found'[u] = found[u],
         pc'[t] # "idle" => pc[t] # "idle" /\ req'[t] = req[t] /\ id'[t] = id[t],
         pc'[t] \in Early => pc[t] \in Early,
         pc'[t] = "commit" =>
           /\ Stored(DedupKey(req[t])) = {}
           /\ \A u \in Threads : u # t /\ pc[u] = "commit" => DedupKey(req[u]) # DedupKey(req[t]),
         pc'[t] \in {"check", "save"} => found'[t] \in Stored(DedupKey(req[t])),
         pc'[t] = "save" => IsSameIdempotentMessage(req[t], messages[found'[t]]),
         CacheNamesStored', AnsweredIsStored'
  PROVE  IInv'
<1>1. \A k : Stored(k)' = Stored(k)
  BY DEF Stored
<1>2. TableTypes' /\ UniqueKey' /\ IdsAreUsed'
  BY DEF IInv, TableTypes, UniqueKey, IdsAreUsed
<1>3. ASSUME NEW u \in Threads PROVE ThreadInv(u)'
  <2>1. ThreadInv(u)
    BY DEF IInv
  <2>2. CASE u = t
    <3>1. pc'[t] # "idle" => req'[t] \in Requests /\ id'[t] \in Ids /\ id'[t] < nextId'
      BY <2>1, <2>2 DEF ThreadInv
    <3>2. pc'[t] \in Early => id'[t] \notin DOMAIN messages'
      <4>1. pc'[t] \in Early => pc'[t] # "idle"
        BY DEF Early
      <4> QED
        BY <2>1, <2>2, <4>1 DEF ThreadInv
    <3>3. pc'[t] \in {"commit", "check", "save"} => req'[t] = req[t]
      OBVIOUS
    <3> QED
      BY <1>1, <2>2, <3>1, <3>2, <3>3 DEF ThreadInv
  <2>3. CASE u # t
    BY <1>1, <2>1, <2>3 DEF ThreadInv
  <2> QED
    BY <2>2, <2>3
<1>4. ASSUME NEW u \in Threads, NEW v \in Threads, u # v PROVE PairInv(u, v)'
  <2>1. PairInv(u, v) /\ PairInv(v, u)
    BY <1>4 DEF IInv
  <2>2. CASE u # t /\ v # t
    BY <2>1, <2>2 DEF PairInv
  <2>3. CASE u = t
    BY <1>4, <2>1, <2>3 DEF PairInv
  <2>4. CASE v = t
    BY <1>4, <2>1, <2>4 DEF PairInv
  <2> QED
    BY <2>2, <2>3, <2>4
<1> QED
  BY <1>2, <1>3, <1>4 DEF IInv

\* The steps of a thread that goes on with its request.
LEMMA GotoStep ==
  ASSUME IInv, NEW t \in Threads, NEW l \in Labels \ {"idle"}, pc[t] # "idle", Goto(t, l),
         UNCHANGED <<messages, lastSeq, nextId, answers>>,
         found' \in [Threads -> Ids \cup {None}],
         \A u \in Threads : u # t => found'[u] = found[u],
         dedup' \in [DedupKeys -> Ids \cup {None}], CacheNamesStored',
         l \in Early => pc[t] \in Early,
         l = "commit" =>
           /\ Stored(DedupKey(req[t])) = {}
           /\ \A u \in Threads : u # t /\ pc[u] = "commit" => DedupKey(req[u]) # DedupKey(req[t]),
         l \in {"check", "save"} => found'[t] \in Stored(DedupKey(req[t])),
         l = "save" => IsSameIdempotentMessage(req[t], messages[found'[t]])
  PROVE  IInv'
<1>1. pc \in [Threads -> Labels] /\ req' = req /\ id' = id /\ pc' = [pc EXCEPT ![t] = l]
  BY DEF IInv, ThreadTypes, Goto
<1>2. pc' \in [Threads -> Labels] /\ pc'[t] = l /\ \A u \in Threads : u # t => pc'[u] = pc[u]
  BY <1>1
<1>3. ThreadTypes'
  BY <1>1, <1>2 DEF IInv, ThreadTypes
<1>4. AnswerTypes' /\ AnsweredIsStored'
  BY DEF IInv, AnswerTypes, AnsweredIsStored
<1> QED
  BY <1>1, <1>2, <1>3, <1>4, LocalStep

\* A request that ends forgets everything.
LEMMA FinishFacts ==
  ASSUME ThreadTypes, NEW t \in Threads, Finish(t)
  PROVE  /\ ThreadTypes' /\ pc'[t] = "idle"
         /\ \A u \in Threads : u # t =>
              pc'[u] = pc[u] /\ req'[u] = req[u] /\ id'[u] = id[u] /\ found'[u] = found[u]
<1>1. pc' \in [Threads -> Labels] /\ pc'[t] = "idle"
  BY DEF ThreadTypes, Finish, Labels
<1> QED
  BY <1>1 DEF ThreadTypes, Finish

\* A request that ends, answered or not.
LEMMA FinishStep ==
  ASSUME IInv, NEW t \in Threads, Finish(t),
         UNCHANGED <<messages, lastSeq, nextId>>,
         dedup' \in [DedupKeys -> Ids \cup {None}], CacheNamesStored',
         AnswerTypes', AnsweredIsStored'
  PROVE  IInv'
<1>1. ThreadTypes
  BY DEF IInv
<1>2. "idle" \notin Early /\ "idle" \notin {"commit", "check", "save"}
  BY DEF Early
<1> QED
  BY <1>1, <1>2, FinishFacts, LocalStep

\* What stays true while the table, the cache and the answers do.
LEMMA Unchanged ==
  ASSUME IInv, UNCHANGED messages
  PROVE  /\ UNCHANGED dedup => dedup' \in [DedupKeys -> Ids \cup {None}] /\ CacheNamesStored'
         /\ UNCHANGED answers => AnswerTypes' /\ AnsweredIsStored'
  BY DEF IInv, TableTypes, CacheNamesStored, Stored, AnswerTypes, AnsweredIsStored

\* The cache entries that are removed.
LEMMA Removed ==
  ASSUME IInv, UNCHANGED messages, NEW k \in DedupKeys, dedup' = [dedup EXCEPT ![k] = None]
  PROVE  dedup' \in [DedupKeys -> Ids \cup {None}] /\ CacheNamesStored'
  BY DEF IInv, TableTypes, CacheNamesStored, Stored

\* A new request takes an id nobody has.
LEMMA SendStep ==
  ASSUME IInv, NEW t \in Threads, NEW r \in Requests, SendMessage(t, r)
  PROVE  IInv'
<1>1. /\ pc[t] = "idle" /\ nextId \in Nat /\ MaxIds \in Nat /\ nextId <= MaxIds
      /\ nextId' = nextId + 1
      /\ UNCHANGED <<messages, lastSeq, dedup, found, answers>>
  BY DEF IInv, TableTypes, SendMessage
<1>2. /\ pc'[t] = "lookup" /\ req'[t] = r /\ id'[t] = nextId
      /\ \A u \in Threads : u # t => pc'[u] = pc[u] /\ req'[u] = req[u] /\ id'[u] = id[u]
  BY DEF IInv, ThreadTypes, SendMessage
<1>3. nextId \in Ids
  <2>1. nextId # 0
    BY DEF IInv, TableTypes
  <2> QED
    BY <1>1, <2>1 DEF Ids
<1>4. TableTypes' /\ UniqueKey' /\ CacheNamesStored' /\ AnswerTypes' /\ AnsweredIsStored'
  <2>1. TableTypes' /\ UniqueKey'
    BY <1>1 DEF IInv, TableTypes, UniqueKey
  <2> QED
    BY <1>1, <2>1, Unchanged
<1>5. ThreadTypes'
  <2>1. "lookup" \in Labels
    BY DEF Labels, Early
  <2> QED
    BY <1>1, <1>3, <2>1 DEF IInv, ThreadTypes, SendMessage
<1>6. \A i \in Ids : i \in Int
  BY <1>1 DEF Ids
<1>7. IdsAreUsed'
  BY <1>1, <1>6 DEF IInv, IdsAreUsed, TableTypes
<1>8. \A k : Stored(k)' = Stored(k)
  BY <1>1 DEF Stored
<1>9. ASSUME NEW u \in Threads PROVE ThreadInv(u)'
  <2>1. CASE u = t
    <3>1. nextId \notin DOMAIN messages
      BY <1>1, <1>6 DEF IInv, TableTypes, IdsAreUsed
    <3>2. nextId < nextId'
      BY <1>1
    <3> QED
      BY <1>1, <1>2, <1>3, <2>1, <3>1, <3>2 DEF ThreadInv
  <2>2. CASE u # t
    <3>1. ThreadInv(u)
      BY DEF IInv
    <3>2. pc[u] # "idle" => id[u] < nextId'
      BY <1>1, <1>6, <3>1 DEF ThreadInv
    <3>3. pc'[u] = pc[u] /\ req'[u] = req[u] /\ id'[u] = id[u] /\ found'[u] = found[u]
      BY <1>1, <1>2, <2>2
    <3> QED
      BY <1>1, <1>8, <3>1, <3>2, <3>3 DEF ThreadInv
  <2> QED
    BY <2>1, <2>2
<1>10. ASSUME NEW u \in Threads, NEW v \in Threads, u # v PROVE PairInv(u, v)'
  <2>1. \A w \in Threads : w # t /\ pc[w] # "idle" => id[w] # nextId
    BY <1>1, <1>6 DEF IInv, ThreadInv
  <2>2. PairInv(u, v)
    BY <1>10 DEF IInv
  <2>3. CASE u = t
    BY <1>2, <1>10, <2>1, <2>3 DEF PairInv
  <2>4. CASE v = t
    BY <1>2, <1>10, <2>1, <2>4 DEF PairInv
  <2>5. CASE u # t /\ v # t
    BY <1>2, <2>2, <2>5 DEF PairInv
  <2> QED
    BY <2>3, <2>4, <2>5
<1> QED
  BY <1>4, <1>5, <1>7, <1>9, <1>10 DEF IInv

\* A thread with a request has a key for it.
LEMMA BusyKey ==
  ASSUME IInv, NEW t \in Threads, pc[t] # "idle"
  PROVE  req[t] \in Requests /\ DedupKey(req[t]) \in DedupKeys /\ id[t] \in Ids
  BY RequestFields DEF IInv, ThreadInv

\* Asking the cache, verifying its answer and reading the table.
LEMMA ReadSteps ==
  ASSUME IInv, NEW t \in Threads, Lookup(t) \/ VerifyCached(t) \/ ReadExisting(t)
                                    \/ RereadExisting(t)
  PROVE  IInv'
<1>1. pc[t] # "idle" /\ UNCHANGED <<messages, lastSeq, nextId, answers>>
  BY DEF Lookup, VerifyCached, ReadExisting, RereadExisting
<1>2. DedupKey(req[t]) \in DedupKeys
  BY <1>1, BusyKey
<1>3. /\ found \in [Threads -> Ids \cup {None}] /\ dedup \in [DedupKeys -> Ids \cup {None}]
      /\ \A k : Stored(k) \subseteq Ids
  BY DEF IInv, ThreadTypes, TableTypes, Stored
<1>4. AnswerTypes' /\ AnsweredIsStored'
  BY <1>1, Unchanged
<1>5. {"read", "verify", "begin"} \subseteq (Labels \ {"idle", "commit", "check", "save"})
        /\ "check" \in Labels \ (Early \cup {"idle", "commit", "save"})
        /\ {"lookup", "verify", "read"} \subseteq Early
  BY DEF Labels, Early
<1>6. ASSUME UNCHANGED dedup, Finish(t) PROVE IInv'
  BY <1>1, <1>4, <1>6, Unchanged, FinishStep
<1>7. ASSUME UNCHANGED dedup, NEW i \in Stored(DedupKey(req[t])), Goto(t, "check"),
             found' = [found EXCEPT ![t] = i]
      PROVE  IInv'
  BY <1>1, <1>3, <1>5, <1>7, Unchanged, GotoStep
<1>8. CASE Lookup(t)
  <2>1. pc[t] \in Early /\ UNCHANGED dedup
    BY <1>5, <1>8 DEF Lookup
  <2>2. CASE Goto(t, "read") /\ UNCHANGED found
    BY <1>1, <1>3, <1>5, <2>1, <2>2, Unchanged, GotoStep
  <2>3. CASE Goto(t, "verify") /\ found' = [found EXCEPT ![t] = dedup[DedupKey(req[t])]]
    BY <1>1, <1>2, <1>3, <1>5, <2>1, <2>3, Unchanged, GotoStep
  <2> QED
    BY <1>8, <2>2, <2>3 DEF Lookup
<1>9. CASE VerifyCached(t)
  <2>1. pc[t] \in Early
    BY <1>5, <1>9 DEF VerifyCached
  <2>2. CASE /\ found[t] \in Stored(DedupKey(req[t]))
             /\ Goto(t, "check") /\ UNCHANGED <<found, dedup>>
    BY <1>1, <1>3, <1>5, <2>2, Unchanged, GotoStep
  <2>3. CASE /\ dedup' = [dedup EXCEPT ![DedupKey(req[t])] = None] \/ UNCHANGED dedup
             /\ found' = [found EXCEPT ![t] = None] /\ Goto(t, "read")
    <3>1. dedup' \in [DedupKeys -> Ids \cup {None}] /\ CacheNamesStored'
      BY <1>1, <1>2, <2>3, Unchanged, Removed
    <3> QED
      BY <1>1, <1>3, <1>5, <2>1, <2>3, <3>1, GotoStep
  <2> QED
    BY <1>9, <2>2, <2>3 DEF VerifyCached
<1>10. CASE ReadExisting(t)
  <2>1. pc[t] \in Early /\ UNCHANGED dedup
    BY <1>5, <1>10 DEF ReadExisting
  <2>2. CASE Goto(t, "begin") /\ UNCHANGED found
    BY <1>1, <1>3, <1>5, <2>1, <2>2, Unchanged, GotoStep
  <2> QED
    BY <1>6, <1>7, <1>10, <2>1, <2>2 DEF ReadExisting
<1>11. CASE RereadExisting(t)
  BY <1>6, <1>7, <1>11 DEF RereadExisting
<1> QED
  BY <1>8, <1>9, <1>10, <1>11

\* The transaction before its commit, and the comparison with the stored row.
LEMMA TransactionSteps ==
  ASSUME IInv, NEW t \in Threads, BeginTransaction(t) \/ InsertMessage(t) \/ CheckConflict(t)
  PROVE  IInv'
<1>1. pc[t] # "idle" /\ UNCHANGED <<messages, lastSeq, nextId, answers, dedup>>
  BY DEF BeginTransaction, InsertMessage, CheckConflict
<1>2. found \in [Threads -> Ids \cup {None}]
  BY DEF IInv, ThreadTypes
<1>3. /\ dedup' \in [DedupKeys -> Ids \cup {None}] /\ CacheNamesStored'
      /\ AnswerTypes' /\ AnsweredIsStored'
  BY <1>1, Unchanged
<1>4. /\ "insert" \in Labels \ {"idle", "commit", "check", "save"}
      /\ "commit" \in Labels \ {"idle", "check", "save"}
      /\ "reread" \in Labels \ (Early \cup {"idle", "commit", "check", "save"})
      /\ "save" \in Labels \ (Early \cup {"idle", "commit", "check"})
      /\ {"begin", "insert"} \subseteq Early
  BY DEF Labels, Early
<1>5. ASSUME Finish(t) PROVE IInv'
  BY <1>1, <1>3, <1>5, FinishStep
<1>6. CASE BeginTransaction(t)
  <2>1. pc[t] \in Early /\ Goto(t, "insert") /\ UNCHANGED found
    BY <1>4, <1>6 DEF BeginTransaction
  <2> QED
    BY <1>1, <1>2, <1>3, <1>4, <2>1, GotoStep
<1>7. CASE InsertMessage(t)
  <2>1. /\ pc[t] \in Early
        /\ \A u \in Threads : u # t /\ pc[u] = "commit" => DedupKey(req[u]) # DedupKey(req[t])
    BY <1>4, <1>7 DEF InsertMessage
  <2>2. CASE Stored(DedupKey(req[t])) = {} /\ Goto(t, "commit") /\ UNCHANGED found
    BY <1>1, <1>2, <1>3, <1>4, <2>1, <2>2, GotoStep
  <2>3. CASE Goto(t, "reread") /\ UNCHANGED found
    BY <1>1, <1>2, <1>3, <1>4, <2>3, GotoStep
  <2> QED
    BY <1>5, <1>7, <2>2, <2>3 DEF InsertMessage
<1>8. CASE CheckConflict(t)
  <2>1. found[t] \in Stored(DedupKey(req[t]))
    BY <1>8 DEF CheckConflict, IInv, ThreadInv
  <2>2. CASE /\ IsSameIdempotentMessage(req[t], messages[found[t]])
             /\ Goto(t, "save") /\ UNCHANGED found
    BY <1>1, <1>2, <1>3, <1>4, <2>1, <2>2, GotoStep
  <2> QED
    BY <1>5, <1>8, <2>2 DEF CheckConflict
<1> QED
  BY <1>6, <1>7, <1>8

\* What is cached and answered is the row that was found.
LEMMA SaveStep ==
  ASSUME IInv, NEW t \in Threads, SaveAndAnswer(t)
  PROVE  IInv'
<1> DEFINE x == [req |-> req[t], id |-> found[t], seq |-> messages[found[t]].seq]
           k == DedupKey(req[t])
<1>1. /\ pc[t] = "save" /\ Finish(t) /\ UNCHANGED <<messages, lastSeq, nextId>>
      /\ answers' = answers \cup {x}
      /\ dedup' = [dedup EXCEPT ![k] = found[t]] \/ UNCHANGED dedup
  BY DEF SaveAndAnswer
<1>2. found[t] \in Stored(k) /\ IsSameIdempotentMessage(req[t], messages[found[t]])
  BY <1>1 DEF IInv, ThreadInv
<1>3. req[t] \in Requests /\ k \in DedupKeys
  BY <1>1, BusyKey
<1>4. found[t] \in DOMAIN messages /\ found[t] \in Ids /\ messages[found[t]].seq \in Nat
  BY <1>2 DEF Stored, IInv, TableTypes, Rows
<1>5. dedup' \in [DedupKeys -> Ids \cup {None}] /\ CacheNamesStored'
  <2>1. CASE UNCHANGED dedup
    BY <1>1, <2>1, Unchanged
  <2>2. CASE dedup' = [dedup EXCEPT ![k] = found[t]]
    <3> HIDE DEF k
    <3>1. dedup \in [DedupKeys -> Ids \cup {None}] /\ CacheNamesStored
      BY DEF IInv, TableTypes
    <3>2. \A j : Stored(j)' = Stored(j)
      BY <1>1 DEF Stored
    <3> QED
      BY <1>2, <1>3, <1>4, <2>2, <3>1, <3>2 DEF CacheNamesStored
  <2> QED
    BY <1>1, <2>1, <2>2
<1>6. AnswerTypes'
  <2>1. x \in [req : Requests, id : Ids, seq : Nat]
    BY <1>3, <1>4
  <2> QED
    BY <1>1, <2>1 DEF IInv, AnswerTypes
<1>7. AnsweredIsStored'
  <2>1. /\ x.id \in DOMAIN messages /\ IsSameIdempotentMessage(x.req, messages[x.id])
        /\ messages[x.id].seq = x.seq
    BY <1>2, <1>4
  <2> HIDE DEF x
  <2> QED
    BY <1>1, <2>1 DEF IInv, AnsweredIsStored
<1> QED
  BY <1>1, <1>5, <1>6, <1>7, FinishStep

\* The row of a commit is the only one with its key: the table had none when
\* the insert passed, and nobody else was about to commit one.
LEMMA CommitStep ==
  ASSUME IInv, NEW t \in Threads, Commit(t)
  PROVE  IInv'
<1> DEFINE n == id[t]
           k == DedupKey(req[t])
           c == Conversation(req[t])
<1>1. pc[t] = "commit" /\ UNCHANGED <<dedup, nextId, answers>>
  BY DEF Commit
<1>2. req[t] \in Requests /\ k \in DedupKeys /\ c \in Conversations /\ n \in Ids /\ n < nextId
  BY <1>1, RequestFields DEF IInv, ThreadInv
<1>3. n \notin DOMAIN messages /\ Stored(k) = {}
  BY <1>1 DEF IInv, ThreadInv, Early
<1>4. CASE Finish(t) /\ UNCHANGED <<messages, lastSeq>>
  BY <1>1, <1>4, Unchanged, FinishStep
<1>5. CASE /\ messages' = [i \in DOMAIN messages \cup {n} |->
                             IF i = n THEN Inserted(t) ELSE messages[i]]
           /\ lastSeq' = [lastSeq EXCEPT ![c] = @ + 1]
           /\ (Goto(t, "check") /\ found' = [found EXCEPT ![t] = n]) \/ Finish(t)
  <2>1. DOMAIN messages' = DOMAIN messages \cup {n}
    BY <1>5
  <2>2. messages'[n] = Inserted(t) /\ \A i \in DOMAIN messages : messages'[i] = messages[i]
    BY <1>3, <1>5
  <2>3. Inserted(t) \in Rows /\ DedupKey(Inserted(t)) = k
    <3>1. lastSeq[c] + 1 \in Nat
      BY <1>2 DEF IInv, TableTypes
    <3>2. req[t] \in [from : Users, to : Users, cid : ClientIds, content : Contents]
      BY <1>2, RequestFields
    <3> QED
      BY <3>1, <3>2 DEF Inserted, Rows, DedupKey
  <2>4. lastSeq' \in [Conversations -> Nat]
    <3>1. lastSeq \in [Conversations -> Nat]
      BY DEF IInv, TableTypes
    <3> HIDE DEF c
    <3> QED
      BY <1>2, <1>5, <3>1
  <2> HIDE DEF n, k, c
  <2>5. TableTypes'
    BY <1>1, <1>2, <2>1, <2>2, <2>3, <2>4 DEF IInv, TableTypes
  <2>6. \A j : Stored(j)' = IF j = k THEN Stored(j) \cup {n} ELSE Stored(j)
    <3> SUFFICES ASSUME NEW j PROVE Stored(j)' = IF j = k THEN Stored(j) \cup {n} ELSE Stored(j)
      OBVIOUS
    <3>1. Stored(j)' = {i \in DOMAIN messages' : DedupKey(messages'[i]) = j}
      BY DEF Stored, DedupKey
    <3>2. DedupKey(messages'[n]) = k
      BY <2>2, <2>3
    <3>3. \A i \in DOMAIN messages : DedupKey(messages'[i]) = DedupKey(messages[i])
      BY <2>2
    <3> HIDE DEF DedupKey
    <3> QED
      BY <2>1, <3>1, <3>2, <3>3 DEF Stored
  <2>7. UniqueKey'
    <3> SUFFICES ASSUME NEW i \in DOMAIN messages', NEW j \in DOMAIN messages',
                        DedupKey(messages'[i]) = DedupKey(messages'[j])
                 PROVE  i = j
      BY DEF UniqueKey, DedupKey
    <3>1. \A v \in DOMAIN messages : DedupKey(messages'[v]) # k
      BY <1>3, <2>2 DEF Stored
    <3>2. DedupKey(messages'[n]) = k
      BY <2>2, <2>3
    <3>3. CASE i = n \/ j = n
      BY <2>1, <3>1, <3>2, <3>3
    <3>4. CASE i # n /\ j # n
      <4>1. i \in DOMAIN messages /\ j \in DOMAIN messages
        BY <2>1, <3>4
      <4>2. messages'[i] = messages[i] /\ messages'[j] = messages[j]
        BY <2>2, <4>1
      <4> QED
        BY <4>1, <4>2 DEF IInv, UniqueKey
    <3> QED
      BY <3>3, <3>4
  <2>8. IdsAreUsed'
    BY <1>1, <1>2, <2>1 DEF IInv, IdsAreUsed
  <2>9. CacheNamesStored'
    BY <1>1, <2>6 DEF IInv, CacheNamesStored
  <2>10. AnswerTypes' /\ AnsweredIsStored'
    BY <1>1, <2>1, <2>2 DEF IInv, AnswerTypes, AnsweredIsStored
  <2>11. /\ ThreadTypes'
         /\ \A u \in Threads : u # t =>
              pc'[u] = pc[u] /\ req'[u] = req[u] /\ id'[u] = id[u] /\ found'[u] = found[u]
         /\ \/ pc'[t] = "check" /\ req'[t] = req[t] /\ id'[t] = n /\ found'[t] = n
            \/ pc'[t] = "idle"
    <3>1. ThreadTypes
      BY DEF IInv
    <3>2. CASE Finish(t)
      BY <3>1, <3>2, FinishFacts
    <3>3. CASE Goto(t, "check") /\ found' = [found EXCEPT ![t] = n]
      <4>1. "check" \in Labels
        BY DEF Labels
      <4> QED
        BY <1>2, <3>1, <3>3, <4>1 DEF ThreadTypes, Goto, n
    <3> QED
      BY <1>5, <3>2, <3>3
  <2>12. ASSUME NEW u \in Threads PROVE ThreadInv(u)'
    <3>1. CASE u = t
      <4>1. pc'[t] \in {"check", "idle"} /\ "check" \notin Early /\ "idle" \notin Early
        BY <2>11 DEF Early
      <4>2. pc'[t] = "check" => DedupKey(req[t])' = k
        BY <2>11 DEF k, DedupKey
      <4>3. pc'[t] = "check" => found'[t] \in Stored(DedupKey(req[t]))'
        BY <2>6, <2>11, <4>2
      <4> QED
        BY <1>1, <1>2, <2>11, <3>1, <4>1, <4>3 DEF ThreadInv
    <3>2. CASE u # t
      <4>1. ThreadInv(u) /\ PairInv(u, t)
        BY <3>2 DEF IInv
      <4>2. pc'[u] = pc[u] /\ req'[u] = req[u] /\ id'[u] = id[u] /\ found'[u] = found[u]
        BY <2>11, <3>2
      <4>3. pc[u] \in Early => id[u] \notin DOMAIN messages'
        BY <1>1, <2>1, <4>1 DEF ThreadInv, PairInv, Early, n
      <4>4. pc[u] = "commit" => Stored(DedupKey(req[u]))' = {}
        <5>1. pc[u] = "commit" => DedupKey(req[u]) # k /\ Stored(DedupKey(req[u])) = {}
          BY <1>1, <4>1 DEF ThreadInv, PairInv, k
        <5> QED
          BY <2>6, <4>2, <5>1
      <4>5. pc[u] \in {"check", "save"} => found[u] \in Stored(DedupKey(req[u]))'
        BY <2>6, <4>1, <4>2 DEF ThreadInv
      <4>6. pc[u] = "save" => IsSameIdempotentMessage(req[u], messages'[found[u]])
        BY <2>2, <4>1 DEF ThreadInv, Stored
      <4> QED
        BY <1>1, <4>1, <4>2, <4>3, <4>4, <4>5, <4>6 DEF ThreadInv
    <3> QED
      BY <3>1, <3>2
  <2>13. ASSUME NEW u \in Threads, NEW v \in Threads, u # v PROVE PairInv(u, v)'
    <3>1. PairInv(u, v)
      BY <2>13 DEF IInv
    <3> QED
      BY <1>1, <2>11, <2>13, <3>1 DEF PairInv, n
  <2> QED
    BY <2>5, <2>7, <2>8, <2>9, <2>10, <2>11, <2>12, <2>13 DEF IInv
<1> QED
  BY <1>4, <1>5 DEF Commit

\* Marking changes the status of rows only.
LEMMA MarkStep ==
  ASSUME IInv, NEW u, NEW ids, NEW from, NEW s \in {"delivered", "read"}, SetStatus(u, ids, from, s)
  PROVE  IInv'
<1>1. /\ messages' = [i \in DOMAIN messages |->
                        IF i \in ids /\ messages[i].to = u /\ messages[i].status \in from
                          THEN [messages[i] EXCEPT !.status = s] ELSE messages[i]]
      /\ UNCHANGED <<lastSeq, dedup, nextId, pc, req, id, found, answers>>
  BY DEF SetStatus, thread
<1>2. DOMAIN messages' = DOMAIN messages
  BY <1>1
<1>3. ASSUME NEW i \in DOMAIN messages
      PROVE  /\ messages'[i] \in Rows
             /\ messages'[i].from = messages[i].from /\ messages'[i].to = messages[i].to
             /\ messages'[i].cid = messages[i].cid /\ messages'[i].content = messages[i].content
             /\ messages'[i].seq = messages[i].seq
  <2>1. messages[i] \in Rows
    BY DEF IInv, TableTypes
  <2>2. messages'[i] = messages[i] \/ messages'[i] = [messages[i] EXCEPT !.status = s]
    BY <1>1
  <2> QED
    BY <2>1, <2>2 DEF Rows
<1>4. \A i \in DOMAIN messages : DedupKey(messages'[i]) = DedupKey(messages[i])
  BY <1>3 DEF DedupKey
<1>5. \A k : Stored(k)' = Stored(k)
  <2> SUFFICES ASSUME NEW k PROVE Stored(k)' = Stored(k)
    OBVIOUS
  <2>1. Stored(k)' = {i \in DOMAIN messages' : DedupKey(messages'[i]) = k}
    BY DEF Stored, DedupKey
  <2> QED
    BY <1>2, <1>4, <2>1 DEF Stored
<1>6. \A r : \A i \in DOMAIN messages :
        IsSameIdempotentMessage(r, messages[i]) => IsSameIdempotentMessage(r, messages'[i])
  BY <1>3 DEF IsSameIdempotentMessage, Conversation
<1>7. TableTypes' /\ ThreadTypes' /\ AnswerTypes'
  BY <1>1, <1>2, <1>3 DEF IInv, TableTypes, ThreadTypes, AnswerTypes
<1>8. UniqueKey' /\ IdsAreUsed'
  <2>1. UniqueKey'
    <3> SUFFICES ASSUME NEW i \in DOMAIN messages', NEW j \in DOMAIN messages',
                        DedupKey(messages'[i]) = DedupKey(messages'[j])
                 PROVE  i = j
      BY DEF UniqueKey, DedupKey
    <3> QED
      BY <1>2, <1>4 DEF IInv, UniqueKey
  <2> QED
    BY <1>1, <1>2, <2>1 DEF IInv, IdsAreUsed
<1>9. CacheNamesStored'
  BY <1>1, <1>5 DEF IInv, CacheNamesStored
<1>10. AnsweredIsStored'
  BY <1>1, <1>2, <1>3, <1>6 DEF IInv, AnsweredIsStored
<1>11. ASSUME NEW t \in Threads PROVE ThreadInv(t)'
  <2>1. ThreadInv(t)
    BY DEF IInv
  <2>2. pc[t] = "save" => IsSameIdempotentMessage(req[t], messages'[found[t]])
    BY <1>6, <2>1 DEF ThreadInv, Stored
  <2> QED
    BY <1>1, <1>2, <1>5, <2>1, <2>2 DEF ThreadInv
<1>12. ASSUME NEW t \in Threads, NEW v \in Threads, t # v PROVE PairInv(t, v)'
  BY <1>1, <1>12 DEF IInv, PairInv
<1> QED
  BY <1>7, <1>8, <1>9, <1>10, <1>11, <1>12 DEF IInv

\* A step that changes nothing but the cache.
LEMMA CacheStep ==
  ASSUME IInv, UNCHANGED <<messages, lastSeq, nextId, thread, answers>>,
         dedup' \in [DedupKeys -> Ids \cup {None}], CacheNamesStored'
  PROVE  IInv'
<1>1. TableTypes' /\ ThreadTypes' /\ UniqueKey' /\ IdsAreUsed'
  BY DEF thread, IInv, TableTypes, ThreadTypes, UniqueKey, IdsAreUsed
<1>2. AnswerTypes' /\ AnsweredIsStored'
  BY Unchanged
<1>3. (\A t \in Threads : ThreadInv(t)') /\ (\A t, u \in Threads : t # u => PairInv(t, u)')
  BY DEF thread, IInv, ThreadInv, PairInv, Stored
<1> QED
  BY <1>1, <1>2, <1>3 DEF IInv

\* The invariant is inductive.
THEOREM ChatInvariant ==
  ASSUME ChatAssumption
  PROVE  Spec => []IInv
<1>1. IInv /\ [Next]_vars => IInv'
  <2> SUFFICES ASSUME IInv, [Next]_vars PROVE IInv'
    OBVIOUS
  <2>1. ASSUME NEW t \in Threads, Step(t) PROVE IInv'
    BY <2>1, ReadSteps, TransactionSteps, CommitStep, SaveStep DEF Step
  <2>2. ASSUME NEW t \in Threads, NEW r \in Requests, SendMessage(t, r) PROVE IInv'
    BY <2>2, SendStep
  <2>3. ASSUME NEW k \in DedupKeys, Expire(k) PROVE IInv'
    BY <2>3, Removed, CacheStep DEF Expire
  <2>4. ASSUME NEW u, NEW ids, MarkDelivered(u, ids) \/ MarkRead(u, ids) PROVE IInv'
    BY <2>4, MarkStep DEF MarkDelivered, MarkRead
  <2>5. CASE UNCHANGED vars
    BY <2>5, Unchanged, CacheStep DEF vars
  <2> QED
    BY <2>1, <2>2, <2>3, <2>4, <2>5 DEF Next
<1>2. Init => IInv
  BY InitHolds
<1> QED
  BY <1>1, <1>2, PTL DEF Spec

\* Repeated requests are answered alike, whatever fails: two OK answers for
\* one (sender, client_msg_id) name the one row with this key, and each was
\* compared with that row before it was given.
THEOREM RepeatsAgree ==
  ASSUME ChatAssumption
  PROVE  Spec => []AnswersAgree
<1>1. IInv => AnswersAgree
  <2> SUFFICES ASSUME IInv, NEW x \in answers, NEW y \in answers, DedupKey(x.req) = DedupKey(y.req)
               PROVE  x = y
    BY DEF AnswersAgree
  <2>1. /\ x \in [req : Requests, id : Ids, seq : Nat] /\ y \in [req : Requests, id : Ids, seq : Nat]
    BY DEF IInv, AnswerTypes
  <2>2. /\ x.id \in DOMAIN messages /\ IsSameIdempotentMessage(x.req, messages[x.id])
        /\ y.id \in DOMAIN messages /\ IsSameIdempotentMessage(y.req, messages[y.id])
        /\ messages[x.id].seq = x.seq /\ messages[y.id].seq = y.seq
    BY DEF IInv, AnsweredIsStored
  <2>3. x.id = y.id
    BY <2>2 DEF IInv, UniqueKey, IsSameIdempotentMessage, DedupKey
  <2>4. x.req = y.req
    <3>1. /\ x.req \in [from : Users, to : Users, cid : ClientIds, content : Contents]
          /\ y.req \in [from : Users, to : Users, cid : ClientIds, content : Contents]
      BY <2>1, RequestFields
    <3> DEFINE a == x.req
               b == y.req
    <3>2. a.from = b.from /\ a.to = b.to
      BY <2>2, <2>3 DEF IsSameIdempotentMessage
    <3>3. a.cid = b.cid /\ a.content = b.content
      BY <2>2, <2>3 DEF IsSameIdempotentMessage
    <3>4. /\ a \in [from : Users, to : Users, cid : ClientIds, content : Contents]
          /\ b \in [from : Users, to : Users, cid : ClientIds, content : Contents]
      BY <3>1
    <3> HIDE DEF a, b
    <3>5. a = b
      BY <3>2, <3>3, <3>4
    <3> QED
      BY <3>5 DEF a, b
  <2> QED
    BY <2>1, <2>2, <2>3, <2>4
<1> QED
  BY <1>1, ChatInvariant, PTL

\* An OK answer is about a committed row with the content that was sent.
THEOREM AnswersAreStored ==
  ASSUME ChatAssumption
  PROVE  Spec => []AnsweredIsStored
<1>1. IInv => AnsweredIsStored
  BY DEF IInv
<1> QED
  BY <1>1, ChatInvariant, PTL

\* The dedup cache never names a message that is not stored under its key,
\* although it is written after the commit and outside the transaction.
THEOREM CacheIsSound ==
  ASSUME ChatAssumption
  PROVE  Spec => []CacheNamesStored
<1>1. IInv => CacheNamesStored
  BY DEF IInv
<1> QED
  BY <1>1, ChatInvariant, PTL

\* sendMessage is idempotent, whatever fails between the lookups, the transaction
\* and the cache: the three promises above hold together.
THEOREM SendIsIdempotent ==
  ASSUME ChatAssumption
  PROVE  Spec => []Idempotence
<1>1. AnswersAgree /\ AnsweredIsStored /\ CacheNamesStored => Idempotence
  BY DEF Idempotence
<1> QED
  BY <1>1, RepeatsAgree, AnswersAreStored, CacheIsSound, PTL

\* What a step does to the table: nothing, one status update, or one new row with
\* the next sequence number of its conversation.
LEMMA TableSteps ==
  ASSUME IInv, [Next]_vars
  PROVE  \/ UNCHANGED <<messages, lastSeq>>
         \/ \E u, ids : MarkDelivered(u, ids) \/ MarkRead(u, ids)
         \/ \E t \in Threads :
              /\ pc[t] = "commit"
              /\ messages' = [i \in DOMAIN messages \cup {id[t]} |->
                                IF i = id[t] THEN Inserted(t) ELSE messages[i]]
              /\ lastSeq' = [lastSeq EXCEPT ![Conversation(req[t])] = @ + 1]
<1>1. ASSUME NEW t \in Threads, Step(t), ~Commit(t)
      PROVE  UNCHANGED <<messages, lastSeq>>
  BY <1>1 DEF Step, Lookup, VerifyCached, ReadExisting, BeginTransaction, InsertMessage,
              RereadExisting, CheckConflict, SaveAndAnswer
<1>2. ASSUME NEW t \in Threads, Commit(t)
      PROVE  \/ UNCHANGED <<messages, lastSeq>>
             \/ /\ pc[t] = "commit"
                /\ messages' = [i \in DOMAIN messages \cup {id[t]} |->
                                  IF i = id[t] THEN Inserted(t) ELSE messages[i]]
                /\ lastSeq' = [lastSeq EXCEPT ![Conversation(req[t])] = @ + 1]
  BY <1>2, Zenon DEF Commit
<1>3. ASSUME NEW t \in Threads, NEW r \in Requests, SendMessage(t, r)
      PROVE  UNCHANGED <<messages, lastSeq>>
  BY <1>3 DEF SendMessage
<1>4. ASSUME NEW k \in DedupKeys, Expire(k)
      PROVE  UNCHANGED <<messages, lastSeq>>
  BY <1>4 DEF Expire
<1>5. CASE UNCHANGED vars
  BY <1>5 DEF vars
<1> QED
  BY <1>1, <1>2, <1>3, <1>4, <1>5, Zenon DEF Next

\* Delivery marks, acknowledgements and read marks may come in any order and more
\* than once: a row stays in the table and its status never goes back.
THEOREM StatusNeverGoesBack ==
  ASSUME ChatAssumption
  PROVE  Spec => StatusAdvances
<1> DEFINE Advances == \A i \in DOMAIN messages :
             i \in DOMAIN messages' /\ Rank(messages[i].status) <= Rank(messages'[i].status)
<1>1. IInv /\ [Next]_vars => [Advances]_vars
  <2> SUFFICES ASSUME IInv, [Next]_vars, NEW i \in DOMAIN messages
               PROVE  i \in DOMAIN messages' /\ Rank(messages[i].status) <= Rank(messages'[i].status)
    BY Zenon
  <2>0. messages[i] \in Rows
    BY DEF IInv, TableTypes
  <2>1. \A s \in {"stored", "delivered", "read"} : Rank(s) \in {0, 1, 2} /\ Rank(s) <= Rank(s)
    BY DEF Rank
  <2>2. messages[i].status \in {"stored", "delivered", "read"}
    BY <2>0 DEF Rows
  <2>3. CASE i \in DOMAIN messages' /\ messages'[i] = messages[i]
    BY <2>1, <2>2, <2>3
  <2>4. ASSUME NEW u, NEW ids, MarkDelivered(u, ids) \/ MarkRead(u, ids)
        PROVE  i \in DOMAIN messages' /\ Rank(messages[i].status) <= Rank(messages'[i].status)
    <3> DEFINE y(s) == [messages[i] EXCEPT !.status = s]
    <3>1. i \in DOMAIN messages'
      BY <2>4 DEF MarkDelivered, MarkRead, SetStatus
    <3>2. \/ messages'[i] = messages[i]
          \/ messages[i].status = "stored" /\ messages'[i] = y("delivered")
          \/ messages'[i] = y("read")
      BY <2>4 DEF MarkDelivered, MarkRead, SetStatus
    <3>3. y("delivered").status = "delivered" /\ y("read").status = "read"
      BY <2>0 DEF Rows
    <3> HIDE DEF y
    <3>4. Rank("stored") <= Rank("delivered")
          /\ \A s \in {"stored", "delivered", "read"} : Rank(s) <= Rank("read")
      BY DEF Rank
    <3>5. CASE messages'[i] = messages[i]
      BY <2>3, <3>1, <3>5
    <3>6. CASE messages[i].status = "stored" /\ messages'[i].status = "delivered"
      BY <3>1, <3>4, <3>6
    <3>7. CASE messages'[i].status = "read"
      BY <2>2, <3>1, <3>4, <3>7
    <3> QED
      BY <3>2, <3>3, <3>5, <3>6, <3>7
  <2>5. ASSUME NEW t \in Threads, pc[t] = "commit",
               messages' = [j \in DOMAIN messages \cup {id[t]} |->
                              IF j = id[t] THEN Inserted(t) ELSE messages[j]]
        PROVE  i \in DOMAIN messages' /\ messages'[i] = messages[i]
    <3>1. i # id[t]
      BY <2>5 DEF IInv, ThreadInv, Early
    <3> QED
      BY <2>5, <3>1
  <2>6. CASE \E u, ids : MarkDelivered(u, ids) \/ MarkRead(u, ids)
    BY <2>4, <2>6
  <2>7. CASE UNCHANGED messages
    BY <2>3, <2>7
  <2>8. CASE ~(\E u, ids : MarkDelivered(u, ids) \/ MarkRead(u, ids)) /\ ~UNCHANGED messages
    <3>1. i \in DOMAIN messages' /\ messages'[i] = messages[i]
      BY <2>5, <2>8, TableSteps, Zenon
    <3> QED
      BY <2>3, <3>1
  <2> QED
    BY <2>6, <2>7, <2>8
<1> QED
  BY <1>1, ChatInvariant, PTL DEF Spec, StatusAdvances

\* Updates of the status keep every row's conversation and number.
LEMMA MarkKeepsNumbers ==
  ASSUME IInv, NEW u, NEW ids, MarkDelivered(u, ids) \/ MarkRead(u, ids)
  PROVE  /\ DOMAIN messages' = DOMAIN messages /\ lastSeq' = lastSeq
         /\ \A i \in DOMAIN messages : Conversation(messages'[i]) = Conversation(messages[i])
                                         /\ messages'[i].seq = messages[i].seq
<1>1. DOMAIN messages' = DOMAIN messages /\ lastSeq' = lastSeq
  BY DEF MarkDelivered, MarkRead, SetStatus
<1>2. ASSUME NEW i \in DOMAIN messages
      PROVE  Conversation(messages'[i]) = Conversation(messages[i]) /\ messages'[i].seq = messages[i].seq
  <2>1. messages[i] \in Rows
    BY DEF IInv, TableTypes
  <2> DEFINE y(s) == [messages[i] EXCEPT !.status = s]
  <2>2. messages'[i] \in {messages[i], y("delivered"), y("read")}
    BY DEF MarkDelivered, MarkRead, SetStatus
  <2>3. ASSUME NEW s
        PROVE  y(s).from = messages[i].from /\ y(s).to = messages[i].to /\ y(s).seq = messages[i].seq
    BY <2>1 DEF Rows
  <2> HIDE DEF y
  <2>4. /\ messages'[i].from = messages[i].from /\ messages'[i].to = messages[i].to
        /\ messages'[i].seq = messages[i].seq
    BY <2>2, <2>3
  <2> QED
    BY <2>4 DEF Conversation
<1> QED
  BY <1>1, <1>2

\* The transaction of createMessage: the sequence numbers of a conversation have
\* neither gaps nor repetitions, for any number of senders and failures.
THEOREM SequencesStayDense ==
  ASSUME ChatAssumption
  PROVE  Spec => []SequencesAreDense
<1> DEFINE rows(c) == {i \in DOMAIN messages : Conversation(messages[i]) = c}
           seqs(c) == {messages[i].seq : i \in rows(c)}
           Dense(c) == /\ seqs(c) = 1..lastSeq[c]
                       /\ Cardinality(rows(c)) = lastSeq[c]
<1>0. SequencesAreDense <=> \A c \in Conversations : Dense(c)
  BY DEF SequencesAreDense
<1>1. Init => SequencesAreDense
  <2> SUFFICES ASSUME Init, NEW c \in Conversations PROVE Dense(c)
    BY <1>0
  <2>1. rows(c) = {} /\ lastSeq[c] = 0
    BY DEF Init
  <2> QED
    BY <2>1, FS_EmptySet
<1>2. IInv /\ SequencesAreDense /\ [Next]_vars => SequencesAreDense'
  <2> SUFFICES ASSUME IInv, SequencesAreDense, [Next]_vars, NEW c \in Conversations
               PROVE  Dense(c)'
    BY DEF SequencesAreDense
  <2>0. Dense(c) /\ lastSeq \in [Conversations -> Nat] /\ lastSeq[c] \in Nat
    BY <1>0 DEF IInv, TableTypes
  <2>1. CASE UNCHANGED <<messages, lastSeq>>
    BY <2>0, <2>1
  <2>2. ASSUME NEW u, NEW ids, MarkDelivered(u, ids) \/ MarkRead(u, ids)
        PROVE  Dense(c)'
    <3>1. /\ DOMAIN messages' = DOMAIN messages /\ lastSeq' = lastSeq
          /\ \A i \in DOMAIN messages : Conversation(messages'[i]) = Conversation(messages[i])
                                          /\ messages'[i].seq = messages[i].seq
      BY <2>2, MarkKeepsNumbers
    <3>2. rows(c)' = rows(c)
      BY <3>1
    <3>3. seqs(c)' = seqs(c)
      BY <3>1
    <3> HIDE DEF rows, seqs
    <3> QED
      BY <2>0, <3>1, <3>2, <3>3
  <2>3. ASSUME NEW t \in Threads, pc[t] = "commit",
               messages' = [i \in DOMAIN messages \cup {id[t]} |->
                              IF i = id[t] THEN Inserted(t) ELSE messages[i]],
               lastSeq' = [lastSeq EXCEPT ![Conversation(req[t])] = @ + 1]
        PROVE  Dense(c)'
    <3> DEFINE n == id[t]
               m == Inserted(t)
    <3>1. req[t] \in Requests /\ n \notin DOMAIN messages
      BY <2>3 DEF IInv, ThreadInv, Early
    <3>2. Conversation(m) = Conversation(req[t]) /\ m.seq = lastSeq[Conversation(req[t])] + 1
      BY <3>1, RequestFields DEF Inserted, Conversation
    <3>3. DOMAIN messages' = DOMAIN messages \cup {n} /\ messages'[n] = m
          /\ \A i \in DOMAIN messages : messages'[i] = messages[i]
      BY <2>3, <3>1
    <3> HIDE DEF m, n
    <3>4. IsFiniteSet(rows(c))
      <4>1. rows(c) \in SUBSET (1..MaxIds) /\ MaxIds \in Nat
        BY DEF IInv, TableTypes, Ids
      <4>2. IsFiniteSet(1..MaxIds)
        BY <4>1, FS_Interval
      <4> QED
        BY <4>1, <4>2, FS_Subset
    <3>5. CASE c # Conversation(req[t])
      <4>1. rows(c)' = rows(c) /\ lastSeq'[c] = lastSeq[c]
        BY <2>0, <2>3, <3>2, <3>3, <3>5
      <4>2. seqs(c)' = seqs(c)
        BY <3>2, <3>3, <3>5
      <4> HIDE DEF rows, seqs
      <4> QED
        BY <2>0, <4>1, <4>2
    <3>6. CASE c = Conversation(req[t])
      <4>1. rows(c)' = rows(c) \cup {n}
        BY <3>2, <3>3, <3>6
      <4>2. lastSeq'[c] = lastSeq[c] + 1
        BY <2>0, <2>3, <3>6
      <4>3. seqs(c)' = seqs(c) \cup {lastSeq[c] + 1}
        BY <3>1, <3>2, <3>3, <3>6 DEF n
      <4>4. 1..(lastSeq[c] + 1) = (1..lastSeq[c]) \cup {lastSeq[c] + 1}
        BY <2>0
      <4>5. Cardinality(rows(c) \cup {n}) = Cardinality(rows(c)) + 1
        <5>1. n \notin rows(c)
          BY <3>1
        <5> QED
          BY <3>4, <5>1, FS_AddElement
      <4> HIDE DEF rows, seqs
      <4> QED
        BY <2>0, <4>1, <4>2, <4>3, <4>4, <4>5
    <3> QED
      BY <3>5, <3>6
  <2> HIDE DEF Dense
  <2> QED
    BY <2>1, <2>2, <2>3, TableSteps, Zenon
<1> QED
  BY <1>1, <1>2, ChatInvariant, PTL DEF Spec
=============================================================================
