-------------------------- MODULE SerialConnections --------------------------
(***************************************************************************)
(* What the server promises the client of each connection: its requests    *)
(* are handed to the message handler one at a time, in the order they were *)
(* received and each at most once, and the response to a request is queued *)
(* before the next request is handled.  Connections are independent: a     *)
(* step of the server may move several of them.                            *)
(***************************************************************************)
EXTENDS Naturals

CONSTANT Conns

VARIABLES state, received, handled, answered

vars == <<state, received, handled, answered>>

Init ==
  /\ state = [c \in Conns |-> "NEW"]
  /\ received = [c \in Conns |-> 0]
  /\ handled = [c \in Conns |-> 0]
  /\ answered = [c \in Conns |-> 0]

Open(c) ==
  /\ state[c] = "NEW" /\ state'[c] = "CONNECTED"
  /\ received'[c] = received[c] /\ handled'[c] = handled[c] /\ answered'[c] = answered[c]

\* The next packet arrives; a stopping server closes the connection with it.
Receive(c) ==
  /\ state[c] = "CONNECTED" /\ state'[c] \in {"CONNECTED", "CLOSED"}
  /\ received'[c] = received[c] + 1
  /\ handled'[c] = handled[c] /\ answered'[c] = answered[c]

\* The oldest request not handled yet goes to the handler.
Handle(c) ==
  /\ handled[c] < received[c] /\ handled'[c] = handled[c] + 1
  /\ state'[c] = state[c] /\ received'[c] = received[c] /\ answered'[c] = answered[c]

\* The response of the request handled last is queued for sending, once.
Answer(c) ==
  /\ state[c] = "CONNECTED" /\ state'[c] \in {"CONNECTED", "CLOSED"}
  /\ answered[c] < handled[c] /\ answered'[c] = handled[c]
  /\ received'[c] = received[c] /\ handled'[c] = handled[c]

Close(c) ==
  /\ state[c] = "CONNECTED" /\ state'[c] = "CLOSED"
  /\ received'[c] = received[c] /\ handled'[c] = handled[c] /\ answered'[c] = answered[c]

Same(c) ==
  /\ state'[c] = state[c] /\ received'[c] = received[c]
  /\ handled'[c] = handled[c] /\ answered'[c] = answered[c]

Next ==
  \A c \in Conns : Open(c) \/ Receive(c) \/ Handle(c) \/ Answer(c) \/ Close(c) \/ Same(c)

Spec == Init /\ [][Next]_vars
=============================================================================
