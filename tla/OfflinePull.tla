----------------------------- MODULE OfflinePull -----------------------------
(***************************************************************************)
(* Pulling offline messages page by page: ChatService.pullOfflineMessages  *)
(* (src/src/service/chat_service.cc) and                                   *)
(* MessageRepository.listOfflineMessages (src/src/db/message_repository.cc).*)
(* One recipient pulls with the last id of a page as the cursor of the     *)
(* next, while messages arrive and its devices acknowledge some.           *)
(*                                                                         *)
(* A message is its position in send order.  Rows are ordered by           *)
(* (created_at, id), and an id begins with the hexadecimal digits of       *)
(* (now << 32) ^ (pid << 16) ^ from_user_id ^ ++msg_seq, padded to a fixed *)
(* width, and ends in a random part.  One server process is modelled, so   *)
(* the process id does not order ids.                                      *)
(***************************************************************************)
EXTENDS Integers, FiniteSets, Sequences, SequencesExt, Bitwise

CONSTANTS
  Senders,      \* user ids
  Limits,       \* page sizes, 1 to 100 in the code
  MaxMessages,  \* bound: messages sent
  MaxNow,       \* bound: the clock, in seconds
  Delays,       \* bound: seconds from reading created_at to the commit
  Randoms       \* bound: random parts of ids

VARIABLES
  now,
  messages,  \* the rows to the recipient, in send order
  pulling,   \* the client has got a page with has_more
  cursor,    \* since_message_id, 0 for none
  got,       \* the ids of this pull's pages
  wanted     \* history: the rows stored when the pull began

vars == <<now, messages, pulling, cursor, got, wanted>>

Init ==
  /\ now = 1 /\ messages = <<>>
  /\ pulling = FALSE /\ cursor = 0 /\ got = <<>> /\ wanted = {}

Tick == now < MaxNow /\ now' = now + 1 /\ UNCHANGED <<messages, pulling, cursor, got, wanted>>

\* BuildMessageId: msg_seq counts the messages of the process.
BuildMessageId(from, n, random) == <<from ^^ n, random>>

\* sendMessage: created_at is read before the transaction, which may end
\* seconds later.
SendMessage(from, at, random) ==
  /\ Len(messages) < MaxMessages
  /\ LET n == Len(messages) + 1
         id == BuildMessageId(from, n, random)
     IN /\ \A m \in DOMAIN messages : messages[m].id # id
        /\ messages' = Append(messages, [from |-> from, at |-> at, id |-> id, stored |-> TRUE])
  /\ UNCHANGED <<now, pulling, cursor, got, wanted>>

\* The order of (created_at, id).
Before(m, n) ==
  LET a == messages[m]  b == messages[n] IN
  \/ a.at < b.at
  \/ a.at = b.at /\ a.id[1] < b.id[1]
  \/ a.at = b.at /\ a.id[1] = b.id[1] /\ a.id[2] < b.id[2]

Rows == DOMAIN messages
StoredRows == {m \in Rows : messages[m].stored}

\* The cursor's row is sought among the stored ones; without it the
\* comparison with NULL selects nothing.
Bug_After(c) ==
  IF c = 0 THEN StoredRows ELSE {m \in StoredRows : c \in StoredRows /\ Before(c, m)}

\* The rows behind the cursor; its own row may be acknowledged already.
After(c) == IF c = 0 THEN StoredRows ELSE {m \in StoredRows : Before(c, m)}

\* listOfflineMessages reads one row more than the page to see has_more.
ListOfflineMessages(c, limit) ==
  LET rows == SetToSortSeq(After(c), Before) IN
  [hasMore |-> Len(rows) > limit,
   page |-> IF Len(rows) > limit THEN SubSeq(rows, 1, limit) ELSE rows]

PullOfflineMessages(limit) ==
  LET c == IF pulling THEN cursor ELSE 0
      r == ListOfflineMessages(c, limit)
  IN /\ pulling' = r.hasMore
     /\ cursor' = IF r.page = <<>> THEN c ELSE Last(r.page)
     /\ got' = (IF pulling THEN got ELSE <<>>) \o r.page
     /\ wanted' = IF pulling THEN wanted ELSE StoredRows
     /\ UNCHANGED <<now, messages>>

\* markDelivered and markRead, for any of the recipient's messages.
AcknowledgeMessages(ids) ==
  /\ messages' = [m \in Rows |-> [messages[m] EXCEPT !.stored = @ /\ m \notin ids]]
  /\ UNCHANGED <<now, pulling, cursor, got, wanted>>

Next ==
  \/ Tick
  \/ \E f \in Senders, d \in Delays, r \in Randoms : SendMessage(f, now - d, r)
  \/ \E l \in Limits : PullOfflineMessages(l)
  \/ \E ids \in SUBSET StoredRows : AcknowledgeMessages(ids)

Spec == Init /\ [][Next]_vars

-----------------------------------------------------------------------------
\* When a page says that there is no more, the pages have shown every
\* message that was stored when the pull began and still is, although
\* pages, cursors included, were acknowledged and messages arrived
\* between them.
PullIsComplete == ~pulling => \A m \in wanted : messages[m].stored => m \in ToSet(got)

\* A pull never shows a message twice.
NoRepeat == \A i, j \in DOMAIN got : got[i] = got[j] => i = j

\* The pages of a pull, together, show each waiting message once.
PullIsExact == PullIsComplete /\ NoRepeat

\* Not an invariant: the pages show the messages of one sender in the order
\* of sending.  Within a second rows are ordered by ids that mix the sender
\* into the counter.
InSendOrder ==
  \A i, j \in DOMAIN got :
    i < j /\ messages[got[i]].from = messages[got[j]].from => got[i] < got[j]
=============================================================================
