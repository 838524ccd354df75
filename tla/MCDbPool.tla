------------------------------ MODULE MCDbPool ------------------------------
(* Threads compete for a pool of two connections, one of them made by init().
   Four of them leave two waiters behind two holders. *)
EXTENDS DbPool, TLC

CONSTANTS t1, t2, t3, t4

MCThreads == {t1, t2, t3, t4}
MCThreads3 == {t1, t2, t3}
=============================================================================
