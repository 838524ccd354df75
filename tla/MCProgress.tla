------------------------------ MODULE MCProgress ------------------------------
(***************************************************************************)
(* The parts of the server that must make progress, for TLC.  As in        *)
(* MCServices they share no variable, and each behaviour moves one of      *)
(* them; fairness is that of the part's own FairSpec.  ThreadPool is       *)
(* extended, the other parts are instances.                                *)
(***************************************************************************)
EXTENDS ThreadPool, TLC

CONSTANTS t1, t2, u1, u2, u3, k1, x, s1, s2, m1, Malformed, None

VARIABLES
  part,
  pending, interest, ready, buffered, peer, sConn, appended, arrived,
  qQueue, accepted, qOpen, qIo, active, user, deferred,
  accepting, async, stopRequested, workerRunning, wQueue, queuedLogs, dropped, wWorker,
  item, taken, wPc, level, done, shut, flushes, next, by, written, lost, reported,
  entries, rDedup, dlq, rPc, phase, batch, task, runningFlag, rTasks, state, rResult, eventFd,
  stopping, rStopper, rIo, ioTasks, rConn, delivered, rejected, marked, orphans,
  oOpen, session, connections, oResult, script, cleanup, tokenKey, userToken, presence,
  connPresence, due, issued, revoked, last,
  messages, lastSeq, lock, cDedup, nextId, cPc, req, id, found, answers

sVars == <<pending, interest, ready, buffered, peer, sConn, appended, arrived>>
qVars == <<qQueue, accepted, qOpen, qIo, active, user, deferred>>
wVars == <<accepting, async, stopRequested, workerRunning, wQueue, queuedLogs, dropped, wWorker,
           item, taken, wPc, level, done, shut, flushes, next, by, written, lost, reported>>
rVars == <<entries, rDedup, dlq, rPc, phase, batch, task, runningFlag, rTasks, state, rResult,
           eventFd, stopping, rStopper, rIo, ioTasks, rConn, delivered, rejected, marked, orphans>>
oVars == <<oOpen, session, connections, oResult, script, cleanup, tokenKey, userToken, presence,
           connPresence, due, issued, revoked, last>>
cVars == <<messages, lastSeq, lock, cDedup, nextId, cPc, req, id, found, answers>>

-----------------------------------------------------------------------------
(* The instances. *)

\* Responses smaller and larger than the socket's buffer.
Send == INSTANCE SendPath WITH
  conn <- sConn, Capacity <- 3, Sizes <- {1, 2, 4}, MaxPending <- 6, MaxBytes <- 12

\* A batch smaller than the number of connections.
Scanner == INSTANCE TimeoutScan WITH
  queue <- qQueue, open <- qOpen, io <- qIo, MaxConns <- 2, Batch <- 1, Idle <- 2, Heartbeat <- 2

\* Flush and Shutdown at any moment of a thread that logs.
Log == INSTANCE Logger WITH
  pc <- wPc, queue <- wQueue, worker <- wWorker, Threads <- {t1},
  Capacity <- 1, MaxLogs <- 2, MaxFlushes <- 1

Remote == INSTANCE RemotePush WITH
  pc <- rPc, dedup <- rDedup, tasks <- rTasks, result <- rResult, stopper <- rStopper, io <- rIo,
  conn <- rConn, Messages <- {m1}, Target <- (m1 :> 1), TaskIds <- {1, 2}, MaxEntries <- 1,
  Faults <- {"stop"}

Places == {t1, t2}
Login == INSTANCE Sessions WITH
  open <- oOpen, result <- oResult, Servers <- {s1, s2}, ServerOf <- (t1 :> s1 @@ t2 :> s2),
  Users <- {u1}, MaxTokens <- 1, Faults <- {"crash", "expire", "error"}

Users == {u1, u2, u3}
Chat == INSTANCE ChatMessages WITH
  pc <- cPc, dedup <- cDedup, Threads <- {t1, t2}, ClientIds <- {k1}, Contents <- {x},
  MaxIds <- 2, Faults <- {"mysql"}

ASSUME
  /\ PoolAssumption /\ Send!SendAssumption /\ Scanner!ScanAssumption /\ Log!LoggerAssumption
  /\ Login!SessionsAssumption /\ Chat!ChatAssumption

-----------------------------------------------------------------------------
(* The specification. *)

Parts == {"pool", "send", "scan", "logger", "remote", "login", "chat"}

PartInit ==
  /\ part \in Parts
  /\ Init /\ Send!Init /\ Scanner!Init /\ Log!Init
  /\ Remote!Init /\ Login!Init /\ Chat!Init
  /\ part # "logger" => async

threads == <<vars, sVars, qVars, wVars>>
services == <<rVars, oVars, cVars>>
all == <<part, threads, services>>

Thread ==
  \/ part = "pool" /\ Next /\ UNCHANGED <<sVars, qVars, wVars>>
  \/ part = "send" /\ Send!Next /\ UNCHANGED <<vars, qVars, wVars>>
  \/ part = "scan" /\ Scanner!Next /\ UNCHANGED <<vars, sVars, wVars>>
  \/ part = "logger" /\ Log!Next /\ UNCHANGED <<vars, sVars, qVars>>

Service ==
  \/ part = "remote" /\ Remote!Next /\ UNCHANGED <<oVars, cVars>>
  \/ part = "login" /\ Login!Next /\ UNCHANGED <<rVars, cVars>>
  \/ part = "chat" /\ Chat!Next /\ UNCHANGED <<rVars, oVars>>

PartNext ==
  /\ UNCHANGED part
  /\ \/ Thread /\ UNCHANGED services
     \/ Service /\ UNCHANGED threads

PartSpec == PartInit /\ [][PartNext]_all

\* The fairness of each part, while it is the one that moves.
FairPartSpec ==
  /\ PartSpec
  /\ \A s \in Submitters : WF_vars(part = "pool" /\ SubmitNotify(s))
  /\ \A w \in Workers : /\ WF_vars(part = "pool" /\ TakeTask(w))
                        /\ WF_vars(part = "pool" /\ RunTask(w))
  /\ WF_vars(part = "pool" /\ StopNotify) /\ WF_vars(part = "pool" /\ Join)
  /\ WF_sVars(part = "send" /\ Send!HandleEvent) /\ WF_sVars(part = "send" /\ Send!PeerReads)
  /\ WF_qVars(part = "scan" /\ Scanner!Tick) /\ WF_qVars(part = "scan" /\ Scanner!Scan)
  /\ WF_wVars(part = "logger" /\ Log!Worker)
  /\ WF_wVars(part = "logger" /\ Log!Thread(t1))
  /\ WF_wVars(part = "logger" /\ (Log!ShutdownStop \/ Log!ShutdownNotify \/ Log!ShutdownJoin))
  /\ WF_rVars(part = "remote" /\ Remote!Consumer) /\ WF_rVars(part = "remote" /\ Remote!Io)
  /\ WF_rVars(part = "remote" /\ Remote!Stopper)
  /\ WF_oVars(part = "login" /\ Login!Due(u1)) /\ WF_oVars(part = "login" /\ Login!Expire(u1))
  /\ \A c \in Places : /\ WF_oVars(part = "login" /\ Login!Cleanup(c))
                       /\ WF_oVars(part = "login" /\ Login!RunScript(c))
  /\ \A t \in {t1, t2} : WF_cVars(part = "chat" /\ Chat!Step(t))

-----------------------------------------------------------------------------
(* The properties of the parts, explained in their modules.  A part that
   does not move stays in its initial state.  PoolIsSafe and PoolProgress
   come with ThreadPool. *)

\* onWritable: unsent bytes have an event to come, none is lost or repeated,
\* and a half-closed peer gets them before the end; ...
OutputIsSafe == part = "send" => Send!OutputIsSafe
\* ... all are sent, and the half-closed connection ends.
OutputEnds == Send!OutputEnds

\* The timeout scan closes idle connections, and silent ones of users.
TimeoutsHappen == Scanner!TimeoutsHappen

\* Logger::Flush and Shutdown return.
CallersReturn == Log!CallersReturn

\* stop() ends the server wherever the push consumer is, and a malformed
\* stream entry is acknowledged in the end.
ConsumerProgress == Remote!ConsumerProgress

\* The presence of a crashed server expires.
DeadPresenceExpires == Login!DeadPresenceExpires

\* sendMessage is answered: transactions do not wait in a circle.
RequestsFinish == Chat!RequestsFinish
=============================================================================
