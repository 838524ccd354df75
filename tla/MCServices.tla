------------------------------ MODULE MCServices ------------------------------
(***************************************************************************)
(* The services and the libraries below them, for TLC.  They share no      *)
(* variable, so a property of one holds in all their interleavings as soon *)
(* as it holds in the behaviours in which only that one moves: each        *)
(* behaviour moves one part, chosen at the start.  ChatMessages is         *)
(* extended, the other parts are instances.                                *)
(***************************************************************************)
EXTENDS ChatMessages, Sequences, TLC

CONSTANTS t1, t2, t3, u1, u2, n1, k1, x, y

VARIABLES
  part,
  idOf, legacy, negative, aPc, op, key, status, answer, known, confirmed, wins,
  friendships, nextRow, fPc, user, peer, row, fAnswers, consent,
  gNow, joined, stored, gPc, cid, content, todo, target, began, gAnswers,
  oNow, oMessages, pulling, cursor, got, wanted,
  lNow, calls, pending, count, expires, allowed, late, retry,
  files, opened, current, rolling, size, accepted, faults,
  buffer, stream, packets, failed,
  idle, total, initialized, stopping, rPc, lent, notified,
  accepting, async, stopRequested, workerRunning, wQueue, queuedLogs, dropped, worker,
  item, taken, wPc, level, done, shut, flushes, next, by, written, lost, reported

-----------------------------------------------------------------------------
(* The instances. *)

\* Two requests on one name, with a second id that is only looked up.
Acc == INSTANCE Accounts WITH pc <- aPc, Names <- {n1}, Ids <- 1..2

\* Three requests on one pair, with a second row after a deletion.
Friends == INSTANCE Friendships WITH
  pc <- fPc, answers <- fAnswers, Threads <- {t1, t2, t3}, MaxRows <- 2

\* Three recipients, who join before, between and after the two requests.
Group == INSTANCE Groups WITH
  pc <- gPc, now <- gNow, answers <- gAnswers, Owner <- 2, Users <- 1..4,
  MaxNow <- 3

Pull == INSTANCE OfflinePull WITH
  now <- oNow, messages <- oMessages, Senders <- {3}, Limits <- {1, 2}, MaxMessages <- 4,
  MaxNow <- 2, Delays <- {0, 1}, Randoms <- {0}

\* Windows of three seconds, scripts late by up to two.
Limiter == INSTANCE RateLimiter WITH
  now <- lNow, Callers <- {t1, t2}, Limit <- 2, Window <- 3, MaxDelay <- 2, MaxNow <- 8, MaxCalls <- 4

\* Lines smaller and larger than a file, and two failures.
Sink == INSTANCE RollingFiles WITH
  MaxSize <- 3, MaxFiles <- 3, Sizes <- {1, 2, 4}, MaxLines <- 5, MaxFaults <- 2

Codec == INSTANCE PacketCodec WITH MaxPacket <- 2, MaxChunk <- 4, MaxStream <- 9

\* Two connections for four borrowers; a counter that wraps at 16.
Redis == INSTANCE RedisPool WITH
  pc <- rPc, Threads <- {t1, t2, t3, n1}, PoolSize <- 2, SizeMod <- 16, MayStop <- TRUE

\* A queue of one, full with the second message.
Log == INSTANCE Logger WITH
  pc <- wPc, queue <- wQueue, Capacity <- 1, MaxLogs <- 2, MaxFlushes <- 1

ASSUME
  /\ Acc!AccountsAssumption /\ ChatAssumption /\ Friends!FriendsAssumption
  /\ Group!GroupsAssumption /\ Limiter!LimiterAssumption
  /\ Sink!FilesAssumption /\ Codec!CodecAssumption /\ Redis!PoolAssumption
  /\ Log!LoggerAssumption

-----------------------------------------------------------------------------
(* The specification. *)

Parts ==
  {"accounts", "chat", "friends", "groups", "pull",
   "limiter", "sink", "codec", "redis", "logger"}

PartInit ==
  /\ part \in Parts
  /\ Acc!Init /\ Init /\ Friends!Init /\ Group!Init /\ Pull!Init
  /\ Limiter!Init /\ Sink!Init /\ Codec!Init /\ Redis!Init /\ Log!Init
  /\ part # "logger" => async

aVars == <<idOf, legacy, negative, aPc, op, key, status, answer, known, confirmed, wins>>
fVars == <<friendships, nextRow, fPc, user, peer, row, fAnswers, consent>>
gVars == <<gNow, joined, stored, gPc, cid, content, todo, target, began, gAnswers>>
oVars == <<oNow, oMessages, pulling, cursor, got, wanted>>
lVars == <<lNow, calls, pending, count, expires, allowed, late, retry>>
sVars == <<files, opened, current, rolling, size, accepted, faults>>
kVars == <<buffer, stream, packets, failed>>
rVars == <<idle, total, initialized, stopping, rPc, lent, notified>>
wVars == <<accepting, async, stopRequested, workerRunning, wQueue, queuedLogs, dropped, worker,
           item, taken, wPc, level, done, shut, flushes, next, by, written, lost, reported>>

services == <<aVars, vars, fVars, gVars, oVars>>
libraries == <<lVars, sVars, kVars, rVars, wVars>>
all == <<part, services, libraries>>

Service ==
  \/ /\ part = "accounts" /\ Acc!Next
     /\ UNCHANGED <<vars, fVars, gVars, oVars>>
  \/ /\ part = "chat" /\ Next
     /\ UNCHANGED <<aVars, fVars, gVars, oVars>>
  \/ /\ part = "friends" /\ Friends!Next
     /\ UNCHANGED <<aVars, vars, gVars, oVars>>
  \/ /\ part = "groups" /\ Group!Next
     /\ UNCHANGED <<aVars, vars, fVars, oVars>>
  \/ /\ part = "pull" /\ Pull!Next
     /\ UNCHANGED <<aVars, vars, fVars, gVars>>

Library ==
  \/ /\ part = "limiter" /\ Limiter!Next
     /\ UNCHANGED <<sVars, kVars, rVars, wVars>>
  \/ /\ part = "sink" /\ Sink!Next
     /\ UNCHANGED <<lVars, kVars, rVars, wVars>>
  \/ /\ part = "codec" /\ Codec!Next
     /\ UNCHANGED <<lVars, sVars, rVars, wVars>>
  \/ /\ part = "redis" /\ Redis!Next
     /\ UNCHANGED <<lVars, sVars, kVars, wVars>>
  \/ /\ part = "logger" /\ Log!Next
     /\ UNCHANGED <<lVars, sVars, kVars, rVars>>

\* Four parts stop when the inputs of their bounds are used up; the others
\* always have a step.
PartNext ==
  /\ UNCHANGED part
  /\ \/ Service /\ UNCHANGED libraries
     \/ Library /\ UNCHANGED services
     \/ part \in {"chat", "limiter", "codec", "logger"} /\ UNCHANGED <<services, libraries>>

PartSpec == PartInit /\ [][PartNext]_all

Symmetry == Permutations({t1, t2}) \cup Permutations({x, y})

-----------------------------------------------------------------------------
(* The properties of the parts, explained in their modules.  A part that
   does not move stays in its initial state.  Idempotence and
   SequencesAreDense come with ChatMessages. *)

\* registerUser, login, findById: what a client is told of a user is so.
AnswersAreTrue == part = "accounts" => Acc!AnswersAreTrue

\* addFriend, acceptFriend: both users of a friendship agreed to the row.
FriendsAgreed == part = "friends" => Friends!FriendsAgreed

\* sendGroupMessage: answered OK it is stored for all members, and the
\* members get one content per client id.
GroupMessageIsOne == part = "groups" => Group!GroupMessageIsOne

\* pullOfflineMessages: the pages show each stored message once.
PullIsExact == part = "pull" => Pull!PullIsExact

\* RedisRateLimiter: a window allows the limit, or twice for late scripts,
\* and retry_after_seconds leads into another window.
LimiterContract == part = "limiter" => Limiter!LimiterContract

\* RollingFileSink keeps the newest lines in files of bounded number and size.
NewestLinesKept == part = "sink" => Sink!NewestLinesKept

\* PacketCodec::feed returns the lines of the stream, however it is cut, and
\* fails on a line that is too long.
FeedSplitsStream == part = "codec" => Codec!FeedSplitsStream

\* RedisPool counts its connections, keeps only clean ones, lets no borrower
\* sleep beside a free one, and is empty once it is stopped.
PoolIsSound == part = "redis" => Redis!PoolIsSound

\* The logger accounts for every message, has written what was logged before
\* Flush returns, and leaves nothing behind at Shutdown.
LinesAreKept == part = "logger" => Log!LinesAreKept
=============================================================================
