------------------------------ MODULE RateLimiter ------------------------------
(***************************************************************************)
(* RedisRateLimiter::Allow (src/src/cache/redis_rate_limiter.cc) for one   *)
(* type and identity, called by several threads.  A caller reads the clock *)
(* and chooses the bucket; Redis runs the script later, in one step; the   *)
(* answer may be lost, and then the call is allowed.  Time is in seconds,  *)
(* and a key goes at some moment of the second in which it expires.        *)
(***************************************************************************)
EXTENDS Integers, FiniteSets

CONSTANTS
  Callers,   \* threads that ask
  Limit,     \* limit
  Window,    \* window_seconds
  MaxDelay,  \* bound: seconds between the choice of the bucket and the script
  MaxNow,    \* bound: seconds
  MaxCalls   \* bound: calls

LimiterAssumption == Limit \in Nat \ {0} /\ Window \in Nat \ {0} /\ MaxDelay \in 0..(Window - 1)

VARIABLES
  now,
  calls,    \* calls made, for the bound
  pending,  \* the moment each caller read the clock, -1 when it does not call
  count,    \* the counters Redis holds, by bucket
  expires,  \* when each counter expires
  allowed,  \* history: by bucket, the calls that were counted and allowed
  late,     \* history: the buckets with a script that ran after their end
  retry     \* history: what the last refused call of each caller was told

vars == <<now, calls, pending, count, expires, allowed, late, retry>>

Idle == -1
Buckets == 0..(MaxNow \div Window)
Bucket(t) == t \div Window

Init ==
  /\ now = 0 /\ calls = 0 /\ pending = [c \in Callers |-> Idle]
  /\ count = [b \in {} |-> 0] /\ expires = [b \in {} |-> 0]
  /\ allowed = [b \in Buckets |-> 0] /\ late = {}
  /\ retry = [c \in Callers |-> [bucket |-> Idle, at |-> 0]]

\* Allow: the bucket is chosen and the command is sent.
Allow(c) ==
  /\ pending[c] = Idle
  /\ calls < MaxCalls /\ calls' = calls + 1
  /\ pending' = [pending EXCEPT ![c] = now]
  /\ retry' = [retry EXCEPT ![c] = [bucket |-> Idle, at |-> 0]]
  /\ UNCHANGED <<now, count, expires, allowed, late>>

\* A counter lives for one second from its last count.
Bug_Script(b) ==
  /\ count' = [d \in DOMAIN count \cup {b} |-> IF d # b THEN count[d] ELSE IF b \in DOMAIN count THEN count[b] + 1 ELSE 1]
  /\ expires' = [d \in DOMAIN expires \cup {b} |-> IF d = b THEN now + 1 ELSE expires[d]]

\* kRateLimitScript: count, and let the first count start the time to live.
Script(b) ==
  /\ count' = [d \in DOMAIN count \cup {b} |-> IF d # b THEN count[d] ELSE IF b \in DOMAIN count THEN count[b] + 1 ELSE 1]
  /\ expires' = [d \in DOMAIN expires \cup {b} |-> IF d = b /\ b \notin DOMAIN count THEN now + Window ELSE expires[d]]

\* A refused call is told the time to live, or the window if that is 0.
RetryAfter(b) ==
  LET ttl == (IF b \in DOMAIN expires THEN expires[b] ELSE now + Window) - now
  IN IF ttl > 0 THEN ttl ELSE Window

\* Redis runs the script and the caller gets the answer, or an error, which
\* allows the call.
Answer(c) ==
  LET b == Bucket(pending[c]) IN
  /\ pending[c] # Idle
  /\ Script(b)
  /\ late' = IF Bucket(now) > b THEN late \cup {b} ELSE late
  /\ \/ UNCHANGED <<allowed, retry>>
     \/ count'[b] <= Limit /\ allowed' = [allowed EXCEPT ![b] = @ + 1] /\ UNCHANGED retry
     \/ count'[b] > Limit /\ retry' = [retry EXCEPT ![c] = [bucket |-> b, at |-> now + RetryAfter(b)]] /\ UNCHANGED allowed
  /\ pending' = [pending EXCEPT ![c] = Idle]
  /\ UNCHANGED <<now, calls>>

\* The command does not reach Redis: the call is allowed, uncounted.
Fail(c) ==
  /\ pending[c] # Idle
  /\ pending' = [pending EXCEPT ![c] = Idle]
  /\ UNCHANGED <<now, calls, count, expires, allowed, late, retry>>

Expire(b) ==
  /\ b \in DOMAIN expires /\ expires[b] <= now
  /\ count' = [d \in DOMAIN count \ {b} |-> count[d]]
  /\ expires' = [d \in DOMAIN expires \ {b} |-> expires[d]]
  /\ UNCHANGED <<now, calls, pending, allowed, late, retry>>

Tick ==
  /\ now < MaxNow
  /\ \A c \in Callers : pending[c] = Idle \/ now - pending[c] < MaxDelay
  /\ \A b \in DOMAIN expires : expires[b] > now
  /\ now' = now + 1
  /\ UNCHANGED <<calls, pending, count, expires, allowed, late, retry>>

Next == (\E c \in Callers : Allow(c) \/ Answer(c) \/ Fail(c)) \/ (\E b \in Buckets : Expire(b)) \/ Tick

Spec == Init /\ [][Next]_vars

-----------------------------------------------------------------------------
\* Of the calls of one window that Redis counts, limit are allowed.  A
\* script that runs after its window ended may find the counter gone, and
\* the counter then starts anew, once: the window gets the limit twice.
WindowHasLimit ==
  \A b \in Buckets : allowed[b] <= (IF b \in late THEN 2 * Limit ELSE Limit)

\* retry_after_seconds is long enough: after that time the call falls into
\* another bucket than the one that refused it.
RetryIsLater == \A c \in Callers : retry[c].bucket # Idle => Bucket(retry[c].at) > retry[c].bucket

\* What Allow promises: the limit of a window, and to whom it refuses a
\* time in a later one.
LimiterContract == WindowHasLimit /\ RetryIsLater
=============================================================================
