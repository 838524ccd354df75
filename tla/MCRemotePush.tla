---------------------------- MODULE MCRemotePush ----------------------------
(* RemotePush for TLC: one message, published up to twice, and every fault. *)
EXTENDS RemotePush, TLC

CONSTANTS m1

OneTarget   == m1 :> 1
TwoTasks    == {1, 2}
EveryFault  == FaultKinds
=============================================================================
