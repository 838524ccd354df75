------------------------------- MODULE SendPath -------------------------------
(***************************************************************************)
(* One connection's way out through an edge-triggered epoll                *)
(* (src/src/TcpServer.cc): responses are appended to pending_send_ and     *)
(* EPOLLOUT is enabled; onWritable sends until nothing is left or the      *)
(* socket's buffer is full.  epoll reports a socket only after an event,   *)
(* or after epoll_ctl finds it ready, with the conditions that hold when   *)
(* it is reported.  The kernel's part is external and modelled as epoll(7) *)
(* describes it: that a full buffer gets room is an event, that it has     *)
(* room is not.  Bytes are counted, not told apart.                        *)
(***************************************************************************)
EXTENDS Integers

CONSTANTS
  Capacity,    \* bytes the socket's send buffer holds
  Sizes,       \* sizes of responses
  MaxPending,  \* bound: bytes waiting in pending_send_
  MaxBytes     \* bound: bytes sent in all

SendAssumption == Capacity \in Nat \ {0} /\ Sizes \subseteq Nat \ {0}

VARIABLES
  pending,   \* pending_send_
  interest,  \* EPOLLOUT is registered
  ready,     \* the socket is on epoll's ready list
  buffered,  \* bytes in the socket's send buffer
  peer,      \* "open", or "closed" once the peer shut down its side
  conn,      \* "open", "ended" after a half-close, or "failed"
  appended,  \* history: bytes appended
  arrived    \* history: bytes the peer has read

vars == <<pending, interest, ready, buffered, peer, conn, appended, arrived>>

Init ==
  /\ pending = 0 /\ interest = FALSE /\ ready = FALSE /\ buffered = 0
  /\ peer = "open" /\ conn = "open" /\ appended = 0 /\ arrived = 0

Room == buffered < Capacity

\* External: epoll_ctl with EPOLL_CTL_MOD looks whether the socket is ready.
Modify(out, room) == ready' = (ready \/ peer = "closed" \/ (out /\ room)) /\ interest' = out

\* Pending bytes are taken for a sign that EPOLLOUT is enabled.
Bug_AppendPendingSend(n) ==
  /\ conn = "open" /\ pending + n <= MaxPending /\ appended + n <= MaxBytes
  /\ pending' = pending + n /\ appended' = appended + n
  /\ UNCHANGED <<interest, ready, buffered, peer, conn, arrived>>

\* A response or a push is appended and EPOLLOUT enabled.
AppendPendingSend(n) ==
  /\ conn = "open" /\ pending + n <= MaxPending /\ appended + n <= MaxBytes
  /\ pending' = pending + n /\ appended' = appended + n
  /\ Modify(TRUE, Room)
  /\ UNCHANGED <<buffered, peer, conn, arrived>>

\* closeClientFd.
Closed(how) == conn' = how /\ pending' = 0 /\ ready' = FALSE /\ interest' = FALSE

\* consumePendingSend.
Left(n) == pending - n

\* onWritable sends until nothing is left or the socket takes no more.
SendLoop == IF pending <= Capacity - buffered THEN pending ELSE Capacity - buffered

\* It then disables EPOLLOUT if nothing is left.
OnWritable(n) == pending' = Left(n) /\ interest' = (Left(n) > 0)

\* recv is expected to report the end of the stream.
Bug_ClosesNever(left) == FALSE

\* The peer has closed and no data remains to send.
ClosesNow(left) == peer = "closed" /\ left = 0

\* The event loop takes the socket from the ready list and handles what
\* holds now: first EPOLLOUT, then EPOLLRDHUP.
HandleEvent ==
  LET out == interest /\ Room
      n == IF out THEN SendLoop ELSE 0
  IN /\ conn = "open" /\ ready
     /\ buffered' = buffered + n
     /\ IF ClosesNow(Left(n)) THEN Closed("ended")
        ELSE /\ IF out THEN OnWritable(n) ELSE UNCHANGED <<pending, interest>>
             /\ ready' = (out /\ Left(n) = 0 /\ peer = "closed")
             /\ UNCHANGED conn
     /\ UNCHANGED <<peer, appended, arrived>>

\* External: the peer reads; a full buffer that gets room is an event.
PeerReads ==
  /\ buffered > 0
  /\ buffered' = buffered - 1 /\ arrived' = arrived + 1
  /\ ready' = (ready \/ (conn = "open" /\ interest /\ ~Room))
  /\ UNCHANGED <<pending, interest, peer, conn, appended>>

\* External: the peer shuts down its sending side (EPOLLRDHUP).
PeerCloses ==
  /\ peer = "open" /\ peer' = "closed"
  /\ ready' = (conn = "open")
  /\ UNCHANGED <<pending, interest, buffered, conn, appended, arrived>>

\* EPOLLERR, a failed epoll_ctl or a failed send closes the connection.
Fail == conn = "open" /\ Closed("failed") /\ UNCHANGED <<buffered, peer, appended, arrived>>

Next == (\E n \in Sizes : AppendPendingSend(n)) \/ HandleEvent \/ PeerReads \/ PeerCloses \/ Fail

Spec == Init /\ [][Next]_vars

\* The event loop runs and the peer goes on reading.
FairSpec == Spec /\ WF_vars(HandleEvent) /\ WF_vars(PeerReads)

-----------------------------------------------------------------------------
\* No lost edge: bytes that wait to be sent have the socket on the ready
\* list, or a full buffer before them, whose first room is an event.
PendingIsArmed == pending > 0 => interest /\ (ready \/ ~Room)

\* While the connection lives, no byte is lost or sent twice.
BytesAddUp == conn = "open" => appended = pending + buffered + arrived

\* Everything appended reaches the peer that keeps reading, unless the
\* connection fails.
AllIsSent == pending > 0 ~> pending = 0

\* A peer that shut down its side gets what was queued for it, and then the
\* connection is closed: the one EPOLLRDHUP edge is not lost to a full buffer.
HalfClosedEnds == peer = "closed" ~> conn # "open"

\* A connection that ends by a half-close has handed every byte to the
\* socket.
HalfCloseDrains == conn = "ended" => appended = buffered + arrived

\* No byte is stuck, lost, repeated or cut off by a half-close.
OutputIsSafe == PendingIsArmed /\ BytesAddUp /\ HalfCloseDrains

\* All output is sent, and half-closed connections end.
OutputEnds == AllIsSent /\ HalfClosedEnds
=============================================================================
