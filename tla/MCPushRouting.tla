--------------------------- MODULE MCPushRouting ---------------------------
(* Instances of PushRouting for TLC: two servers, the first with two places. *)
EXTENDS PushRouting
CONSTANTS a, b, a1, a2, b1, u1, u2
TwoServers == a1 :> a @@ a2 :> a @@ b1 :> b
UserSymmetry == Permutations(Users)
=============================================================================
