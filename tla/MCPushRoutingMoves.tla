------------------------- MODULE MCPushRoutingMoves -------------------------
(* Instances of PushRouting for TLC: two places, on two servers or on one.  *)
EXTENDS PushRouting
CONSTANTS a, b, a1, b1, u1, u2
VARIABLE together  \* whether both places are on server a
Apart == a1 :> a @@ b1 :> b
OneServer == INSTANCE PushRouting WITH ServerOf <- a1 :> a @@ b1 :> a
UserSymmetry == Permutations(Users)
MInit == RInit /\ together \in BOOLEAN
MNext ==
  \/ ~together /\ RNext /\ UNCHANGED together
  \/ together /\ OneServer!RNext /\ UNCHANGED together
MSpec == MInit /\ [][MNext]_<<allVars, together>>
=============================================================================
