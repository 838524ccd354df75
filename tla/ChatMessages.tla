----------------------------- MODULE ChatMessages -----------------------------
(***************************************************************************)
(* Sending single-chat messages and recording their state: ChatService     *)
(* (src/src/service/chat_service.cc), MessageRepository                    *)
(* (src/src/db/message_repository.cc) and MessageDedupCache                *)
(* (src/src/cache/message_dedup_cache.cc).                                 *)
(*                                                                         *)
(* Clients repeat a request with the same client_msg_id when they hear     *)
(* nothing, from any of their connections, so requests with one id run on  *)
(* several threads at once.  MySQL is external: a transaction holds the    *)
(* row lock of its conversation from the first upsert to its end, and an   *)
(* insert waits for an uncommitted row with the same unique key.  The      *)
(* recipient is taken to exist and the session and rate limit to pass.     *)
(***************************************************************************)
EXTENDS Integers, FiniteSets

CONSTANTS
  Threads, Users, ClientIds, Contents, None,
  MaxIds,   \* bound: message ids generated, one per attempt
  Faults    \* bound: among "redis" and "mysql", which may fail

ChatAssumption ==
  /\ MaxIds \in Nat /\ None \notin Threads \cup (1..MaxIds)
  /\ Faults \subseteq {"redis", "mysql"}

Ids == 1..MaxIds
Requests == {r \in [from : Users, to : Users, cid : ClientIds, content : Contents] : r.from # r.to}

\* BuildConversationId: the same for both directions.
Conversation(r) == {r.from, r.to}
Conversations == {Conversation(r) : r \in Requests}
DedupKeys == Users \X ClientIds
DedupKey(r) == <<r.from, r.cid>>

VARIABLES
  messages,  \* the messages table: committed rows by id
  lastSeq,   \* conversations.last_seq, committed
  lock,      \* the thread whose transaction holds a conversation's row
  dedup,     \* the dedup cache
  nextId,
  pc, req,
  id,        \* pending_message.id of each thread
  found,     \* create_result.message: the id of the row a thread works on
  answers    \* history: requests answered OK, with what they were told

thread == <<pc, req, id, found>>
vars == <<messages, lastSeq, lock, dedup, nextId, thread, answers>>

Init ==
  /\ messages = [i \in {} |-> None]
  /\ lastSeq = [c \in Conversations |-> 0]
  /\ lock = [c \in Conversations |-> None]
  /\ dedup = [k \in DedupKeys |-> None]
  /\ nextId = 1
  /\ pc = [t \in Threads |-> "idle"]
  /\ req = [t \in Threads |-> None]
  /\ id = [t \in Threads |-> None]
  /\ found = [t \in Threads |-> None]
  /\ answers = {}

Goto(t, l) == pc' = [pc EXCEPT ![t] = l] /\ UNCHANGED <<req, id>>

\* The request ends, and its locals with it.
Finish(t) ==
  /\ pc' = [pc EXCEPT ![t] = "idle"] /\ req' = [req EXCEPT ![t] = None]
  /\ id' = [id EXCEPT ![t] = None] /\ found' = [found EXCEPT ![t] = None]

\* ReadMessageByClientId.
Stored(k) == {i \in DOMAIN messages : DedupKey(messages[i]) = k}

IsSameIdempotentMessage(r, m) ==
  Conversation(r) = Conversation(m) /\ r.cid = m.cid /\ r.from = m.from /\ r.to = m.to
    /\ r.content = m.content

-----------------------------------------------------------------------------
(* sendMessage, on a worker. *)

SendMessage(t, r) ==
  /\ pc[t] = "idle" /\ nextId <= MaxIds
  /\ req' = [req EXCEPT ![t] = r]
  /\ id' = [id EXCEPT ![t] = nextId]
  /\ nextId' = nextId + 1
  /\ pc' = [pc EXCEPT ![t] = "lookup"]
  /\ UNCHANGED <<messages, lastSeq, lock, dedup, found, answers>>

\* The cache is asked first; a failing Redis counts as a miss.
Lookup(t) ==
  /\ pc[t] = "lookup"
  /\ LET c == dedup[DedupKey(req[t])] IN
       \/ c = None /\ Goto(t, "read") /\ UNCHANGED found
       \/ c # None /\ Goto(t, "verify") /\ found' = [found EXCEPT ![t] = c]
       \/ "redis" \in Faults /\ Goto(t, "read") /\ UNCHANGED found
  /\ UNCHANGED <<messages, lastSeq, lock, dedup, nextId, answers>>

\* A cached id counts only if MySQL has the message under this id; if it
\* does not, or the query fails, the entry is removed.
VerifyCached(t) ==
  /\ pc[t] = "verify"
  /\ \/ /\ found[t] \in Stored(DedupKey(req[t]))
        /\ Goto(t, "check") /\ UNCHANGED <<found, dedup>>
     \/ /\ found[t] \notin Stored(DedupKey(req[t])) \/ "mysql" \in Faults
        /\ \/ dedup' = [dedup EXCEPT ![DedupKey(req[t])] = None]
           \/ "redis" \in Faults /\ UNCHANGED dedup
        /\ found' = [found EXCEPT ![t] = None]
        /\ Goto(t, "read")
  /\ UNCHANGED <<messages, lastSeq, lock, nextId, answers>>

\* createMessage: an existing row is returned, ...
ReadExisting(t) ==
  /\ pc[t] = "read"
  /\ \/ \E i \in Stored(DedupKey(req[t])) : Goto(t, "check") /\ found' = [found EXCEPT ![t] = i]
     \/ Stored(DedupKey(req[t])) = {} /\ Goto(t, "begin") /\ UNCHANGED found
     \/ "mysql" \in Faults /\ Finish(t)
  /\ UNCHANGED <<messages, lastSeq, lock, dedup, nextId, answers>>

\* last_seq is raised in a transaction of its own.
Bug_BeginTransaction(t) ==
  /\ pc[t] = "begin"
  /\ lock[Conversation(req[t])] = None
  /\ lock' = [lock EXCEPT ![Conversation(req[t])] = t]
  /\ lastSeq' = [lastSeq EXCEPT ![Conversation(req[t])] = @ + 1]
  /\ Goto(t, "insert")
  /\ UNCHANGED <<messages, dedup, nextId, found, answers>>

\* ... otherwise a transaction upserts the conversation and its members,
\* which takes the row lock, and raises last_seq.
BeginTransaction(t) ==
  /\ pc[t] = "begin"
  /\ lock[Conversation(req[t])] = None
  /\ lock' = [lock EXCEPT ![Conversation(req[t])] = t]
  /\ Goto(t, "insert")
  /\ UNCHANGED <<messages, lastSeq, dedup, nextId, found, answers>>

Unlock(t) == lock' = [lock EXCEPT ![Conversation(req[t])] = None]

\* After a failure the transaction is left open.
Bug_InsertMessage(t) ==
  /\ pc[t] = "insert"
  /\ \/ Stored(DedupKey(req[t])) = {} /\ Goto(t, "commit") /\ UNCHANGED <<lock, found>>
     \/ Stored(DedupKey(req[t])) # {} /\ Goto(t, "reread") /\ Unlock(t) /\ UNCHANGED found
     \/ "mysql" \in Faults /\ Finish(t) /\ UNCHANGED lock
  /\ UNCHANGED <<messages, lastSeq, dedup, nextId, answers>>

\* The insert of the row; a duplicate key or a failure rolls back.
InsertMessage(t) ==
  /\ pc[t] = "insert"
  /\ \A u \in Threads \ {t} : pc[u] = "commit" => DedupKey(req[u]) # DedupKey(req[t])
  /\ \/ Stored(DedupKey(req[t])) = {} /\ Goto(t, "commit") /\ UNCHANGED <<lock, found>>
     \/ Stored(DedupKey(req[t])) # {} /\ Goto(t, "reread") /\ Unlock(t) /\ UNCHANGED found
     \/ "mysql" \in Faults /\ Finish(t) /\ Unlock(t)
  /\ UNCHANGED <<messages, lastSeq, dedup, nextId, answers>>

\* After a duplicate key the existing row is read again.
RereadExisting(t) ==
  /\ pc[t] = "reread"
  /\ \/ \E i \in Stored(DedupKey(req[t])) : Goto(t, "check") /\ found' = [found EXCEPT ![t] = i]
     \/ "mysql" \in Faults /\ Finish(t)
  /\ UNCHANGED <<messages, lastSeq, lock, dedup, nextId, answers>>

Inserted(t) ==
  LET r == req[t] IN
  [from |-> r.from, to |-> r.to, cid |-> r.cid, content |-> r.content,
   seq |-> lastSeq[Conversation(r)] + 1, status |-> "stored"]

\* The commit; when it fails the transaction may be committed or not.
Commit(t) ==
  /\ pc[t] = "commit"
  /\ Unlock(t)
  /\ \/ /\ messages' = [i \in DOMAIN messages \cup {id[t]} |->
                          IF i = id[t] THEN Inserted(t) ELSE messages[i]]
        /\ lastSeq' = [lastSeq EXCEPT ![Conversation(req[t])] = @ + 1]
        /\ \/ Goto(t, "check") /\ found' = [found EXCEPT ![t] = id[t]]
           \/ "mysql" \in Faults /\ Finish(t)
     \/ "mysql" \in Faults /\ Finish(t) /\ UNCHANGED <<messages, lastSeq>>
  /\ UNCHANGED <<dedup, nextId, answers>>

\* Requests with a known client_msg_id are all taken for repetitions.
Bug_CheckConflict(t) ==
  /\ pc[t] = "check"
  /\ Goto(t, "save")
  /\ UNCHANGED <<messages, lastSeq, lock, dedup, nextId, found, answers>>

\* A request whose content differs from the stored message is refused.
CheckConflict(t) ==
  /\ pc[t] = "check"
  /\ IF IsSameIdempotentMessage(req[t], messages[found[t]])
       THEN Goto(t, "save") /\ UNCHANGED found
       ELSE Finish(t)
  /\ UNCHANGED <<messages, lastSeq, lock, dedup, nextId, answers>>

SaveAndAnswer(t) ==
  /\ pc[t] = "save"
  /\ \/ dedup' = [dedup EXCEPT ![DedupKey(req[t])] = found[t]]
     \/ "redis" \in Faults /\ UNCHANGED dedup
  /\ answers' = answers \cup {[req |-> req[t], id |-> found[t], seq |-> messages[found[t]].seq]}
  /\ Finish(t)
  /\ UNCHANGED <<messages, lastSeq, lock, nextId>>

\* The life time of a cache entry ends.
Expire(k) ==
  /\ dedup[k] # None
  /\ dedup' = [dedup EXCEPT ![k] = None]
  /\ UNCHANGED <<messages, lastSeq, lock, nextId, thread, answers>>

-----------------------------------------------------------------------------
(* The recipient, and the delivery marks of TcpServer. *)

\* One UPDATE for the rows to u among ids whose status is in from; a u to
\* whom none of them went changes nothing and is left out of Next.
SetStatus(u, ids, from, s) ==
  /\ messages' = [i \in DOMAIN messages |->
                    IF i \in ids /\ messages[i].to = u /\ messages[i].status \in from
                      THEN [messages[i] EXCEPT !.status = s] ELSE messages[i]]
  /\ UNCHANGED <<lastSeq, lock, dedup, nextId, thread, answers>>

MarkDelivered(u, ids) == SetStatus(u, ids, {"stored"}, "delivered")

MarkRead(u, ids) == SetStatus(u, ids, {"stored", "delivered"}, "read")

Step(t) ==
  \/ Lookup(t) \/ VerifyCached(t) \/ ReadExisting(t) \/ BeginTransaction(t) \/ InsertMessage(t)
  \/ RereadExisting(t) \/ Commit(t) \/ CheckConflict(t) \/ SaveAndAnswer(t)

Next ==
  \/ \E t \in Threads : Step(t) \/ \E r \in Requests : SendMessage(t, r)
  \/ \E k \in DedupKeys : Expire(k)
  \/ \E ids \in SUBSET DOMAIN messages : \E u \in {messages[i].to : i \in ids} :
       MarkDelivered(u, ids) \/ MarkRead(u, ids)

Spec == Init /\ [][Next]_vars

\* A worker goes on with its request; MySQL wakes the waiters of a lock.
FairSpec == Spec /\ \A t \in Threads : WF_vars(Step(t))

-----------------------------------------------------------------------------
\* A repeated request is answered like the first: all requests of a user
\* with one client_msg_id that are answered OK asked for the same message
\* and were told one id and one sequence number, although any of their
\* statements, commits and cache accesses may have failed.
AnswersAgree ==
  \A x, y \in answers : DedupKey(x.req) = DedupKey(y.req) => x = y

\* What was answered is stored: the row has the content that was sent.
AnsweredIsStored ==
  \A x \in answers :
    x.id \in DOMAIN messages /\ IsSameIdempotentMessage(x.req, messages[x.id])
      /\ messages[x.id].seq = x.seq

\* The sequence numbers of a conversation are 1, 2, 3, ... without gap or
\* repetition: a transaction that is rolled back gives its number back.
SequencesAreDense ==
  \A c \in Conversations :
    LET rows == {i \in DOMAIN messages : Conversation(messages[i]) = c} IN
    /\ {messages[i].seq : i \in rows} = 1..lastSeq[c]
    /\ Cardinality(rows) = lastSeq[c]

\* The dedup cache names only stored messages.
CacheNamesStored ==
  \A k \in DedupKeys : dedup[k] # None => dedup[k] \in Stored(k)

\* The promise of a client_msg_id: repetitions of a request are answered
\* alike, with what the messages table holds, and the dedup cache leads
\* nowhere else.
Idempotence == AnswersAgree /\ AnsweredIsStored /\ CacheNamesStored

\* Every request is answered: transactions do not wait for each other in a
\* circle, and none is left open.
RequestsFinish == \A t \in Threads : pc[t] # "idle" ~> pc[t] = "idle"

\* A message is never marked back: stored, delivered, read.
Rank(s) == CASE s = "stored" -> 0 [] s = "delivered" -> 1 [] s = "read" -> 2

StatusAdvances ==
  [][\A i \in DOMAIN messages :
       i \in DOMAIN messages' /\ Rank(messages[i].status) <= Rank(messages'[i].status)]_vars
=============================================================================
