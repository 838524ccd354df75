----------------------------- MODULE MCTcpServer -----------------------------
(* Instances of TcpServer for TLC. *)
EXTENDS TcpServer, TLC

CONSTANTS c1, c2, w1, w2, u1, u2

MCConns   == {c1, c2}
MCConn    == {c1}
MCWorker  == {w1}
MCWorkers == {w1, w2}
MCUser    == {u1}
MCUsers   == {u1, u2}

MCTwo   == [c \in Conns |-> 2]
MCThree == [c \in Conns |-> 3]
MCThreeOne == c1 :> 3 @@ c2 :> 1

MCSessions == {"login", "logout", "send", "throw"}
MCAll      == ResultKinds
MCFence    == {"login", "notify"}
MCPlain    == {"reply", "silent", "throw"}

MCSymmetry == Permutations(MCWorkers)
=============================================================================
