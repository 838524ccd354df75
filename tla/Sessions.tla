------------------------------- MODULE Sessions -------------------------------
(***************************************************************************)
(* Logins across servers: UserService (src/src/service/user_service.cc),   *)
(* SessionManager (src/src/server/session_manager.cc) and                  *)
(* RedisSessionStore (src/src/server/redis_session_store.cc).              *)
(*                                                                         *)
(* A worker computes the result of login, resume or logout; the I/O thread *)
(* of the server applies it later, first to the local SessionManager, then *)
(* with one script to Redis.  A closed connection is cleaned up by a       *)
(* worker.  The scripts of all servers interleave; each is atomic.         *)
(*                                                                         *)
(* A place is a server and a connection id.  A server that is restarted    *)
(* counts its connection ids from one again, so a place can come back.     *)
(***************************************************************************)
EXTENDS Integers, Sequences, FiniteSets, SequencesExt

CONSTANTS
  Servers, Places, Users, None,
  ServerOf,    \* the server of each place
  MaxTokens,   \* bound: tokens generated
  Faults       \* bound: among "error" (Redis fails), "crash" (of a server),
               \* "expire" (a presence that is not refreshed)

Tokens  == 1..MaxTokens
Session == [user : Users, token : Tokens]

ASSUME SessionsAssumption ==
  /\ ServerOf \in [Places -> Servers]
  /\ MaxTokens \in Nat
  /\ None \notin Users \cup Tokens \cup Places
  /\ Faults \subseteq {"error", "crash", "expire"}

VARIABLES
  open,         \* places with an open connection
  session,      \* SessionManager::connection_to_session_
  connections,  \* SessionManager::user_to_connections_, per server and user
  result,       \* the worker's result for a place, not yet applied
  script,       \* the Redis script an I/O thread or a cleanup still has to run
  cleanup,      \* closed places whose cleanup task has not started
  \* Redis
  tokenKey,     \* session:token: the user of each valid token
  userToken,    \* session:user: the token of each user
  presence,     \* presence:user: the place and token of each user
  connPresence, \* presence:conn: the session of each place
  due,          \* users whose presence is about to expire
  \* history
  issued,       \* tokens generated so far
  revoked,      \* tokens deleted by a logout or a newer login
  last          \* the place and token last bound for each user

localVars == <<open, session, connections, result, cleanup>>
redisVars == <<tokenKey, userToken, presence, connPresence, due>>
vars == <<localVars, script, redisVars, issued, revoked, last>>

Init ==
  /\ open = Places
  /\ session = [c \in Places |-> None]
  /\ connections = [s \in Servers |-> [u \in Users |-> <<>>]]
  /\ result = [c \in Places |-> None]
  /\ script = [c \in Places |-> None]
  /\ cleanup = {}
  /\ tokenKey = [t \in Tokens |-> None]
  /\ userToken = [u \in Users |-> None]
  /\ presence = [u \in Users |-> None]
  /\ connPresence = [c \in Places |-> None]
  /\ due = {} /\ issued = 0 /\ revoked = {}
  /\ last = [u \in Users |-> None]

\* The I/O thread of a server does one thing at a time.
IoFree(s) == \A c \in open : ServerOf[c] = s => script[c] = None

Idle(c) == c \in open /\ result[c] = None /\ script[c] = None

-----------------------------------------------------------------------------
(* Requests, on a worker. *)

\* login with the right password: a fresh token.
Login(c, u) ==
  /\ Idle(c) /\ issued < MaxTokens
  /\ issued' = issued + 1
  /\ result' = [result EXCEPT ![c] = [op |-> "bind", user |-> u, token |-> issued + 1]]
  /\ UNCHANGED <<open, session, connections, cleanup, script, redisVars, revoked, last>>

\* The user a token is stored for, if any; also nothing when Redis fails.
GetToken(t) == tokenKey[t]

\* resumeSession with a token somebody was given; a token that is not
\* stored is refused.
ResumeSession(c, t) ==
  /\ Idle(c) /\ t <= issued /\ GetToken(t) # None
  /\ result' = [result EXCEPT ![c] = [op |-> "bind", user |-> GetToken(t), token |-> t]]
  /\ UNCHANGED <<open, session, connections, cleanup, script, redisVars, issued, revoked, last>>

Logout(c) ==
  /\ Idle(c) /\ session[c] # None
  /\ result' = [result EXCEPT ![c] = [op |-> "unbind"]]
  /\ UNCHANGED <<open, session, connections, cleanup, script, redisVars, issued, revoked, last>>

\* The presence of the user is renewed whoever holds it.
Bug_Refresh(c) ==
  /\ session[c] # None
  /\ due' = due \ {session[c].user}
  /\ UNCHANGED <<localVars, script, tokenKey, userToken, presence, connPresence, issued, revoked, last>>

\* Every request renews the presence of its connection, unless a later
\* login has replaced it.
Refresh(c) ==
  /\ session[c] # None
  /\ LET m == session[c] IN
       due' = IF /\ presence[m.user] = [place |-> c, token |-> m.token]
                 /\ connPresence[c] = m
              THEN due \ {m.user} ELSE due
  /\ UNCHANGED <<localVars, script, tokenKey, userToken, presence, connPresence, issued, revoked, last>>

-----------------------------------------------------------------------------
(* SessionManager. *)

Unlisted(c, s) ==
  IF session[c] = None THEN connections[s]
  ELSE [connections[s] EXCEPT ![session[c].user] = SelectSeq(@, LAMBDA d : d # c)]

\* BindSession: the connection leaves its former user's list.
BindSession(c, m) ==
  LET s == ServerOf[c] IN
  /\ session' = [session EXCEPT ![c] = m]
  /\ connections' = [connections EXCEPT ![s] = [Unlisted(c, s) EXCEPT ![m.user] = Append(@, c)]]

ClearSession(c) ==
  /\ session' = [session EXCEPT ![c] = None]
  /\ connections' = [connections EXCEPT ![ServerOf[c]] = Unlisted(c, ServerOf[c])]

-----------------------------------------------------------------------------
(* The I/O thread applies results; each first half is local, the second a  *)
(* script.  A closed connection's result is dropped.                       *)

\* bindSession and logoutSession.
Apply(c) ==
  /\ c \in open /\ result[c] # None /\ IoFree(ServerOf[c])
  /\ \/ /\ result[c].op = "bind"
        /\ LET m == [user |-> result[c].user, token |-> result[c].token] IN
             /\ BindSession(c, m)
             /\ script' = [script EXCEPT ![c] = [op |-> "bind", session |-> m]]
     \/ /\ result[c].op = "unbind" /\ session[c] # None
        /\ ClearSession(c)
        /\ script' = [script EXCEPT ![c] = [op |-> "revoke", session |-> session[c]]]
  /\ result' = [result EXCEPT ![c] = None]
  /\ UNCHANGED <<open, cleanup, redisVars, issued, revoked, last>>

Close(c) ==
  /\ c \in open /\ IoFree(ServerOf[c])
  /\ open' = open \ {c} /\ cleanup' = cleanup \cup {c}
  /\ result' = [result EXCEPT ![c] = None]
  /\ UNCHANGED <<session, connections, script, redisVars, issued, revoked, last>>

\* clearSession, on a worker.
Cleanup(c) ==
  /\ c \in cleanup
  /\ cleanup' = cleanup \ {c}
  /\ ClearSession(c)
  /\ script' = IF session[c] = None THEN script
               ELSE [script EXCEPT ![c] = [op |-> "clear", session |-> session[c]]]
  /\ UNCHANGED <<open, result, redisVars, issued, revoked, last>>

-----------------------------------------------------------------------------
(* The scripts of RedisSessionStore. *)

At(c, m) == [place |-> c, token |-> m.token]

\* The presence of user u is given up if it is the one of session m at c.
Dropped(p, u, c, t) ==
  IF u # None /\ p[u] = [place |-> c, token |-> t] THEN [p EXCEPT ![u] = None] ELSE p

\* The former place of the user keeps its index entry.
Bug_BindScript(c, m) ==
  LET u    == m.user
      t0   == userToken[u]
      lost == IF t0 = None \/ t0 = m.token THEN {} ELSE {t0}
      old  == connPresence[c] IN
  /\ tokenKey' = [t \in Tokens |-> IF t = m.token THEN u ELSE IF t \in lost THEN None ELSE tokenKey[t]]
  /\ userToken' = [userToken EXCEPT ![u] = m.token]
  /\ presence' = [(IF old = None THEN presence ELSE Dropped(presence, old.user, c, old.token))
                    EXCEPT ![u] = At(c, m)]
  /\ connPresence' = [connPresence EXCEPT ![c] = m]
  /\ due' = due \ {u}
  /\ revoked' = revoked \cup lost
  /\ last' = [last EXCEPT ![u] = At(c, m)]

\* kBindScript: the user's former token and place are given up, then the
\* connection's former user.
BindScript(c, m) ==
  LET u    == m.user
      t0   == userToken[u]
      p0   == presence[u]
      lost == IF t0 = None \/ t0 = m.token THEN {} ELSE {t0}
      conn == IF p0 = None THEN connPresence ELSE [connPresence EXCEPT ![p0.place] = None]
      old  == conn[c] IN
  /\ tokenKey' = [t \in Tokens |-> IF t = m.token THEN u ELSE IF t \in lost THEN None ELSE tokenKey[t]]
  /\ userToken' = [userToken EXCEPT ![u] = m.token]
  /\ presence' = [(IF old = None THEN presence ELSE Dropped(presence, old.user, c, old.token))
                    EXCEPT ![u] = At(c, m)]
  /\ connPresence' = [conn EXCEPT ![c] = m]
  /\ due' = due \ {u}
  /\ revoked' = revoked \cup lost
  /\ last' = [last EXCEPT ![u] = At(c, m)]

\* The presence of the user goes, whoever holds it.
Bug_ClearScript(c, m) ==
  /\ connPresence' = [connPresence EXCEPT ![c] = None]
  /\ presence' = [presence EXCEPT ![m.user] = None]
  /\ due' = {u \in due : presence'[u] # None}
  /\ UNCHANGED <<tokenKey, userToken, revoked, last>>

\* kClearScript: only the presence of this very session goes.
ClearScript(c, m) ==
  /\ connPresence' = [connPresence EXCEPT ![c] = None]
  /\ presence' = Dropped(presence, m.user, c, m.token)
  /\ due' = {u \in due : presence'[u] # None}
  /\ UNCHANGED <<tokenKey, userToken, revoked, last>>

\* kRevokeScript: also the token, and the user's token if it is this one.
RevokeScript(c, m) ==
  /\ tokenKey' = [tokenKey EXCEPT ![m.token] = None]
  /\ userToken' = IF userToken[m.user] = m.token THEN [userToken EXCEPT ![m.user] = None] ELSE userToken
  /\ connPresence' = [connPresence EXCEPT ![c] = None]
  /\ presence' = Dropped(presence, m.user, c, m.token)
  /\ due' = {u \in due : presence'[u] # None}
  /\ revoked' = revoked \cup {m.token}
  /\ UNCHANGED last

\* The script of a place runs, or Redis fails and nobody retries.
RunScript(c) ==
  /\ script[c] # None
  /\ LET m == script[c].session IN
       \/ script[c].op = "bind"   /\ BindScript(c, m)
       \/ script[c].op = "clear"  /\ ClearScript(c, m)
       \/ script[c].op = "revoke" /\ RevokeScript(c, m)
       \/ "error" \in Faults      /\ UNCHANGED <<redisVars, revoked, last>>
  /\ script' = [script EXCEPT ![c] = None]
  /\ UNCHANGED <<localVars, issued>>

-----------------------------------------------------------------------------
(* Time and crashes. *)

\* Both presence keys of a user have the same life time.
Due(u) ==
  /\ "expire" \in Faults /\ presence[u] # None /\ u \notin due
  /\ due' = due \cup {u}
  /\ UNCHANGED <<localVars, script, tokenKey, userToken, presence, connPresence, issued, revoked, last>>

Expire(u) ==
  /\ u \in due
  /\ presence' = [presence EXCEPT ![u] = None]
  /\ connPresence' = [connPresence EXCEPT ![presence[u].place] = None]
  /\ due' = due \ {u}
  /\ UNCHANGED <<localVars, script, tokenKey, userToken, issued, revoked, last>>

Crash(s) ==
  LET mine == {c \in Places : ServerOf[c] = s} IN
  /\ "crash" \in Faults
  /\ open' = open \cup mine /\ cleanup' = cleanup \ mine
  /\ session' = [c \in Places |-> IF c \in mine THEN None ELSE session[c]]
  /\ connections' = [connections EXCEPT ![s] = [u \in Users |-> <<>>]]
  /\ result' = [c \in Places |-> IF c \in mine THEN None ELSE result[c]]
  /\ script' = [c \in Places |-> IF c \in mine THEN None ELSE script[c]]
  /\ UNCHANGED <<redisVars, issued, revoked, last>>

Next ==
  \/ \E c \in Places :
       \/ \E u \in Users : Login(c, u)
       \/ \E t \in Tokens : ResumeSession(c, t)
       \/ Logout(c) \/ Refresh(c) \/ Apply(c) \/ Close(c) \/ Cleanup(c) \/ RunScript(c)
  \/ \E u \in Users : Due(u) \/ Expire(u)
  \/ \E s \in Servers : Crash(s)

Spec == Init /\ [][Next]_vars

\* Keys expire; threads run what they have begun.
FairSpec ==
  /\ Spec
  /\ \A u \in Users : WF_vars(Due(u)) /\ WF_vars(Expire(u))
  /\ \A c \in Places : WF_vars(Cleanup(c)) /\ WF_vars(RunScript(c))

-----------------------------------------------------------------------------
TypeOK ==
  /\ open \subseteq Places /\ cleanup \subseteq Places \ open
  /\ session \in [Places -> Session \cup {None}]
  /\ connections \in [Servers -> [Users -> Seq(Places)]]
  /\ tokenKey \in [Tokens -> Users \cup {None}]
  /\ userToken \in [Users -> Tokens \cup {None}]
  /\ presence \in [Users -> [place : Places, token : Tokens] \cup {None}]
  /\ connPresence \in [Places -> Session \cup {None}]
  /\ due \subseteq {u \in Users : presence[u] # None}
  /\ issued \in 0..MaxTokens /\ revoked \subseteq Tokens

\* The two maps of SessionManager agree: a connection is in the list of its
\* session's user, once, and in no other.
ManagerMapsAgree ==
  \A c \in Places, u \in Users :
    Cardinality({i \in DOMAIN connections[ServerOf[c]][u] : connections[ServerOf[c]][u][i] = c})
      = IF session[c] # None /\ session[c].user = u THEN 1 ELSE 0

\* A user has at most one valid token, the one of the last bind: every
\* other was deleted by a script, whatever the scripts of several servers
\* do in between and whichever of them fail.
OneTokenPerUser == \A t \in Tokens : tokenKey[t] # None => userToken[tokenKey[t]] = t

\* The two presence indexes name each other: a place found through the user
\* leads back to the user, and the other way round.
PresenceIndexesAgree ==
  /\ \A u \in Users : presence[u] # None =>
       connPresence[presence[u].place] = [user |-> u, token |-> presence[u].token]
  /\ \A c \in Places : connPresence[c] # None =>
       presence[connPresence[c].user] = At(c, connPresence[c])

\* All records of who is logged in where agree: the two maps of the session
\* manager, tokens and users, and both presence indexes.
IndexesAgree == ManagerMapsAgree /\ OneTokenPerUser /\ PresenceIndexesAgree

\* Presence never outlives the login it stands for, and the last login of
\* a user is found as long as its connection is logged in: no older
\* connection that closes, logs out or logs in again takes it away.
PresenceIsCurrent ==
  \A u \in Users :
    /\ presence[u] # None =>
         LET c == presence[u].place IN
         session[c] = [user |-> u, token |-> presence[u].token] \/ script[c] # None
    /\ last[u] # None =>
         LET c == last[u].place IN
         session[c] = [user |-> u, token |-> last[u].token] /\ script[c] = None
           => presence[u] = last[u]

\* The presence a crashed server leaves behind goes away, even while an
\* older connection of the same user keeps sending requests: only its own
\* connection can renew it (kRefreshScript).
DeadPresenceExpires ==
  \A u \in Users, c \in Places :
    (presence[u] # None /\ presence[u].place = c /\ session[c] = None)
      ~> (presence[u] = None \/ presence[u].place # c \/ session[c] # None)

\* Not an invariant, although README.md says that a token revoked by a logout
\* or a newer login cannot restore a session: a resume that has read the
\* token before binds afterwards and stores it again.
RevokedStaysRevoked == \A t \in revoked : tokenKey[t] = None

=============================================================================
