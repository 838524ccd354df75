----------------------------- MODULE TimeoutScan -----------------------------
(***************************************************************************)
(* The idle and heartbeat timeouts of TcpServer (src/src/TcpServer.cc):    *)
(* the timer's scan looks at the first connections of a queue of           *)
(* connection ids, closes the ones whose time is over and puts the others  *)
(* back.  All of it runs on the I/O thread.  Instead of moments the model  *)
(* keeps ages, which stop growing at the timeout.                          *)
(***************************************************************************)
EXTENDS Integers, Sequences, FiniteSets, SequencesExt

CONSTANTS
  MaxConns,   \* bound: connections accepted
  Batch,      \* kMaxTimeoutScanBatch
  Idle,       \* idle_timeout_ms
  Heartbeat   \* heartbeat_timeout_ms

ScanAssumption == MaxConns \in Nat /\ Batch \in Nat \ {0} /\ Idle \in Nat \ {0} /\ Heartbeat \in Nat \ {0}

VARIABLES
  queue,     \* timeout_scan_queue_
  accepted,  \* ids given out: next_conn_id_
  open,      \* connections_
  io,        \* time since last_recv_at and last_send_at
  active,    \* time since last_active_at
  user,      \* connections with an authenticated_user_id
  deferred   \* connections for which shouldDeferTimeout() holds

vars == <<queue, accepted, open, io, active, user, deferred>>
Conns == 1..MaxConns

Init ==
  /\ queue = <<>> /\ accepted = 0 /\ open = {}
  /\ io = [c \in Conns |-> 0] /\ active = [c \in Conns |-> 0]
  /\ user = {} /\ deferred = {}

Register ==
  LET c == accepted + 1 IN
  /\ accepted < MaxConns /\ accepted' = c
  /\ open' = open \cup {c}
  /\ queue' = Append(queue, c)
  /\ UNCHANGED <<io, active, user, deferred>>

\* onReadable: bytes arrive; a packet among them starts or queues a request.
Receive(c, packet) ==
  /\ c \in open
  /\ io' = [io EXCEPT ![c] = 0]
  /\ active' = IF packet THEN [active EXCEPT ![c] = 0] ELSE active
  /\ deferred' = IF packet THEN deferred \cup {c} ELSE deferred
  /\ UNCHANGED <<queue, accepted, open, user>>

\* The last response is sent and nothing is left to do; a request may have
\* logged the user in or out.
Respond(c, in) ==
  /\ c \in open \cap deferred
  /\ io' = [io EXCEPT ![c] = 0]
  /\ deferred' = deferred \ {c}
  /\ user' = IF in THEN user \cup {c} ELSE user \ {c}
  /\ UNCHANGED <<queue, accepted, open, active>>

\* A push is queued for a user's connection; it is sent like a response.
Push(c) ==
  /\ c \in open \cap user
  /\ deferred' = deferred \cup {c}
  /\ UNCHANGED <<queue, accepted, open, io, active, user>>

\* closeClientFd for a reason other than a timeout; the id stays queued.
Close(c) ==
  /\ c \in open
  /\ open' = open \ {c} /\ user' = user \ {c} /\ deferred' = deferred \ {c}
  /\ UNCHANGED <<queue, accepted, io, active>>

Tick ==
  /\ io' = [c \in Conns |-> IF c \in open /\ io[c] < Idle THEN io[c] + 1 ELSE io[c]]
  /\ active' = [c \in Conns |-> IF c \in open /\ active[c] < Heartbeat THEN active[c] + 1 ELSE active[c]]
  /\ UNCHANGED <<queue, accepted, open, user, deferred>>

\* What the scan looks at, for one connection.
TimedOut(c) == c \notin deferred /\ (io[c] >= Idle \/ (c \in user /\ active[c] >= Heartbeat))

\* Connections that are kept go back to where they were.
Bug_Rotate(scanned, rest) == SelectSeq(scanned, LAMBDA c : c \in open /\ ~TimedOut(c)) \o rest

\* Every connection that is kept goes to the back of the queue.
Rotate(scanned, rest) == rest \o SelectSeq(scanned, LAMBDA c : c \in open /\ ~TimedOut(c))

\* scanConnectionTimeouts.
Scan ==
  LET n == IF Len(queue) < Batch THEN Len(queue) ELSE Batch
      scanned == SubSeq(queue, 1, n)
      closed == {scanned[i] : i \in {j \in 1..n : TimedOut(scanned[j])}}
  IN /\ queue' = Rotate(scanned, SubSeq(queue, n + 1, Len(queue)))
     /\ open' = open \ closed /\ user' = user \ closed
     /\ UNCHANGED <<accepted, io, active, deferred>>

Next ==
  \/ Register \/ Tick \/ Scan
  \/ \E c \in Conns : Receive(c, TRUE) \/ Receive(c, FALSE) \/ Respond(c, TRUE) \/ Respond(c, FALSE) \/ Push(c) \/ Close(c)

Spec == Init /\ [][Next]_vars

\* The timer fires forever and time passes; peers owe nothing.
FairSpec == Spec /\ WF_vars(Tick) /\ WF_vars(Scan)

-----------------------------------------------------------------------------
\* A connection without requests and without traffic for the idle timeout
\* does not stay open: the scans, each limited to a batch, get to every
\* connection.
IdleIsClosed == \A c \in Conns : []<>(c \notin open \/ c \in deferred \/ io[c] < Idle)

\* A logged-in connection that sends bytes but no packets any more, and has
\* no request left, is closed too: receiving holds back the idle timeout only.
SilentUserIsClosed == \A c \in Conns : []<>(c \notin open \cap user \/ c \in deferred \/ active[c] < Heartbeat)

\* Both timeouts take effect.
TimeoutsHappen == IdleIsClosed /\ SilentUserIsClosed
=============================================================================
