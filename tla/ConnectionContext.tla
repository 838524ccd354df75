-------------------------- MODULE ConnectionContext --------------------------
(***************************************************************************)
(* The state of one client connection, class ConnectionContext of          *)
(* src/src/ConnectionContext.cc, and the operations TcpServer calls on it. *)
(* Each operation runs under request_mutex_ and is a function from a       *)
(* context to a context.  A request is the number of its packet on the     *)
(* connection; of pending_send_ only the number of encoded packets is kept.*)
(***************************************************************************)
EXTENDS Integers, Sequences

CONSTANTS
  Users,        \* authenticated users
  None          \* stands for user id 0 and for "nothing"

Context ==
  [ state      : {"NEW", "CONNECTED", "CLOSED"},  \* NEW: not accepted yet
    received   : Nat,               \* packets read so far
    inFlight   : BOOLEAN,           \* request_in_flight_
    pending    : Seq(Nat),          \* pending_requests_
    marks      : Int,               \* pending_delivery_marks_
    unsent     : Nat,               \* pending_send_
    armed      : BOOLEAN,           \* EPOLLOUT is in the epoll interest of the fd
    peerClosed : BOOLEAN,           \* the peer has shut down its sending side
    user       : Users \cup {None} ]  \* meta_.authenticated_user_id

NewContext ==
  [ state |-> "NEW", received |-> 0, inFlight |-> FALSE, pending |-> <<>>, marks |-> 0,
    unsent |-> 0, armed |-> FALSE, peerClosed |-> FALSE, user |-> None ]

\* A request starts beside the running one.
Bug_CanStartBusy(x) == x.pending = <<>> /\ x.marks = 0

\* startRequestOrQueue: whether the request starts at once, and the context it leaves.
CanStart(x) == ~x.inFlight /\ x.pending = <<>> /\ x.marks = 0

StartRequestOrQueue(x, r) ==
  IF CanStart(x)
    THEN [x EXCEPT !.inFlight = TRUE, !.received = r]
    ELSE [x EXCEPT !.pending = Append(@, r), !.received = r]

\* finishRequestAndPopNext: whether a request is handed out, and the context it leaves.
FinishPops(x) == x.pending # <<>> /\ x.marks = 0

FinishRequestAndPopNext(x) ==
  IF FinishPops(x)
    THEN [x EXCEPT !.inFlight = TRUE, !.pending = Tail(@)]
    ELSE [x EXCEPT !.inFlight = FALSE]

\* popNextRequestIfIdle: whether a request is handed out, and the context it leaves.
IdlePops(x) == ~x.inFlight /\ x.pending # <<>> /\ x.marks = 0

PopNextRequestIfIdle(x) ==
  IF IdlePops(x) THEN [x EXCEPT !.inFlight = TRUE, !.pending = Tail(@)] ELSE x

ClearPendingRequests(x) == [x EXCEPT !.inFlight = FALSE, !.pending = <<>>]

\* A timeout that looks at what is queued and unsent only.
Bug_ShouldDeferTimeout(x) == x.pending # <<>> \/ x.marks > 0 \/ x.unsent > 0

\* shouldDeferTimeout.
ShouldDeferTimeout(x) == x.inFlight \/ x.pending # <<>> \/ x.marks > 0 \/ x.unsent > 0

\* appendPendingSend of n packets followed by a successful enableWritableEvent.
AppendPendingSend(x, n) ==
  IF n = 0 THEN x ELSE [x EXCEPT !.unsent = @ + n, !.armed = TRUE]

\* The call is left out.
Bug_RaiseFence(x) == x

\* incrementPendingDeliveryMarks and decrementPendingDeliveryMarks.
RaiseFence(x) == [x EXCEPT !.marks = @ + 1]

LowerFence(x) == [x EXCEPT !.marks = @ - 1]
=============================================================================
