------------------------------- MODULE Accounts -------------------------------
(***************************************************************************)
(* Registration, login and lookup of users: UserService::registerUser and  *)
(* ::login (src/src/service/user_service.cc) over CachedUserRepository     *)
(* (src/src/cache/cached_user_repository.cc) and UserRepository            *)
(* (src/src/db/user_repository.cc).                                        *)
(*                                                                         *)
(* The cache holds only negative entries: the key of a user name or of a   *)
(* user id that was not found in MySQL, for a short time.  Requests run on *)
(* many threads and servers; each Redis command and each SQL statement is  *)
(* one step.                                                               *)
(***************************************************************************)
EXTENDS Integers, Sequences, FiniteSets

CONSTANTS
  Threads, Names, None,
  Ids,         \* user ids, in the order AUTO_INCREMENT gives them: 1..n
  Faults       \* bound: among "redis" and "mysql", which may fail

Keys == Names \cup Ids

AccountsAssumption ==
  /\ Ids = 1..Cardinality(Ids) /\ Cardinality(Names) <= Cardinality(Ids)
  /\ Names \cap Ids = {} /\ None \notin Keys
  /\ Faults \subseteq {"redis", "mysql"}

VARIABLES
  idOf,      \* the users table: the id of each registered name
  legacy,    \* names whose password hash needs an upgrade
  negative,  \* cached "__not_found__" keys
  pc, op, key,
  status,    \* the RepositoryStatus a thread works on
  answer,    \* the ErrorCode a thread returned last
  known,     \* whether the key was confirmed before the request began
  confirmed, \* history: keys of registrations answered OK
  wins       \* history: registrations of each name answered OK

thread == <<pc, op, key, status, answer, known>>
vars == <<idOf, legacy, negative, thread, confirmed, wins>>

Exists(k) == \E n \in Names : idOf[n] # None /\ k \in {n, idOf[n]}

Registered == {n \in Names : idOf[n] # None}

Init ==
  /\ idOf = [n \in Names |-> None]
  /\ legacy = {} /\ negative = {}
  /\ pc = [t \in Threads |-> "idle"]
  /\ op = [t \in Threads |-> "find"]
  /\ key = [t \in Threads |-> None]
  /\ status = [t \in Threads |-> "kOk"]
  /\ answer = [t \in Threads |-> None]
  /\ known = [t \in Threads |-> FALSE]
  /\ confirmed = {} /\ wins = [n \in Names |-> 0]

\* A request arrives.  Chat, friend and group services look ids up.
Begin(t, o, k) ==
  /\ pc[t] = "idle"
  /\ k \in IF o = "find" THEN Ids ELSE Names
  /\ op' = [op EXCEPT ![t] = o] /\ key' = [key EXCEPT ![t] = k]
  /\ known' = [known EXCEPT ![t] = k \in confirmed]
  /\ answer' = [answer EXCEPT ![t] = None]
  /\ pc' = [pc EXCEPT ![t] = "get"]
  /\ UNCHANGED <<idOf, legacy, negative, status, confirmed, wins>>

Goto(t, l) == pc' = [pc EXCEPT ![t] = l] /\ UNCHANGED <<op, key, known, answer>>

\* The repository call returns to the service with a status.
Result(t, s) == status' = [status EXCEPT ![t] = s] /\ Goto(t, "service")

Answer(t, a) ==
  /\ pc' = [pc EXCEPT ![t] = "idle"]
  /\ answer' = [answer EXCEPT ![t] = a]
  /\ UNCHANGED <<op, key, known>>

-----------------------------------------------------------------------------
(* CachedUserRepository::findByUsername and ::findById. *)

GetCached(t) ==
  /\ pc[t] = "get"
  /\ \/ key[t] \in negative /\ Result(t, "kNotFound")
     \/ key[t] \notin negative /\ Goto(t, "select") /\ UNCHANGED status
     \/ "redis" \in Faults /\ Goto(t, "select") /\ UNCHANGED status
  /\ UNCHANGED <<idOf, legacy, negative, confirmed, wins>>

\* UserRepository reads MySQL.
Select(t) ==
  /\ pc[t] = "select"
  /\ \/ Exists(key[t]) /\ Result(t, "kOk")
     \/ ~Exists(key[t]) /\ Goto(t, "fill") /\ UNCHANGED status
     \/ "mysql" \in Faults /\ Result(t, "kQueryFailed")
  /\ UNCHANGED <<idOf, legacy, negative, confirmed, wins>>

CacheNotFound(t) ==
  /\ pc[t] = "fill"
  /\ \/ negative' = negative \cup {key[t]}
     \/ "redis" \in Faults /\ UNCHANGED negative
  /\ Result(t, "kNotFound")
  /\ UNCHANGED <<idOf, legacy, confirmed, wins>>

-----------------------------------------------------------------------------
(* UserService, after the lookup. *)

Find(t) ==
  /\ pc[t] = "service" /\ op[t] = "find"
  /\ Answer(t, CASE status[t] = "kOk"       -> "OK"
                 [] status[t] = "kNotFound" -> "USER_NOT_FOUND"
                 [] OTHER                   -> "DB_QUERY_FAILED")
  /\ UNCHANGED <<idOf, legacy, negative, status, confirmed, wins>>

\* registerUser: goes on only if the name was not found.
Register(t) ==
  /\ pc[t] = "service" /\ op[t] = "register"
  /\ CASE status[t] = "kOk"       -> Answer(t, "USER_ALREADY_EXISTS")
       [] status[t] = "kNotFound" -> Goto(t, "insert")
       [] OTHER                   -> Answer(t, "DB_QUERY_FAILED")
  /\ UNCHANGED <<idOf, legacy, negative, status, confirmed, wins>>

\* A duplicate key is reported as a success.
Bug_CreateUser(t) ==
  /\ pc[t] = "insert"
  /\ Goto(t, "invalidate")
  /\ idOf' = IF idOf[key[t]] # None THEN idOf
             ELSE [idOf EXCEPT ![key[t]] = Cardinality(Registered) + 1]
  /\ UNCHANGED <<legacy, negative, status, confirmed, wins>>

\* createUser: the unique key of the name decides between two inserts.  A
\* connection lost during the statement leaves it done or not done.
CreateUser(t) ==
  /\ pc[t] = "insert"
  /\ \/ /\ idOf[key[t]] # None
        /\ Answer(t, "USER_ALREADY_EXISTS") /\ UNCHANGED idOf
     \/ /\ idOf[key[t]] = None
        /\ Goto(t, "invalidate")
        /\ idOf' = [idOf EXCEPT ![key[t]] = Cardinality(Registered) + 1]
     \/ /\ "mysql" \in Faults
        /\ Answer(t, "DB_INSERT_FAILED")
        /\ \/ UNCHANGED idOf
           \/ idOf[key[t]] = None /\ idOf' = [idOf EXCEPT ![key[t]] = Cardinality(Registered) + 1]
  /\ UNCHANGED <<legacy, negative, status, confirmed, wins>>

\* The DEL of both keys; only then is the registration answered.
InvalidateCreated(t) ==
  /\ pc[t] = "invalidate"
  /\ \/ negative' = negative \ {key[t], idOf[key[t]]}
     \/ "redis" \in Faults /\ UNCHANGED negative
  /\ Answer(t, "OK")
  /\ confirmed' = confirmed \cup {key[t], idOf[key[t]]}
  /\ wins' = [wins EXCEPT ![key[t]] = @ + 1]
  /\ UNCHANGED <<idOf, legacy, status>>

\* login: the password is checked against the stored hash and an old hash
\* is replaced.
Login(t) ==
  /\ pc[t] = "service" /\ op[t] = "login"
  /\ CASE status[t] = "kOk"       -> \/ Answer(t, "INVALID_CREDENTIALS")
                                     \/ key[t] \notin legacy /\ Answer(t, "OK")
                                     \/ key[t] \in legacy /\ Goto(t, "rehash")
       [] status[t] = "kNotFound" -> Answer(t, "INVALID_CREDENTIALS")
       [] OTHER                   -> Answer(t, "DB_QUERY_FAILED")
  /\ UNCHANGED <<idOf, legacy, negative, status, confirmed, wins>>

\* updatePasswordHash, then the DEL of the id key.
UpdatePasswordHash(t) ==
  /\ pc[t] = "rehash"
  /\ \/ /\ legacy' = legacy \ {key[t]} /\ Answer(t, "OK")
        /\ \/ negative' = negative \ {idOf[key[t]]}
           \/ "redis" \in Faults /\ UNCHANGED negative
     \/ "mysql" \in Faults /\ Answer(t, "INTERNAL_ERROR") /\ UNCHANGED <<legacy, negative>>
  /\ UNCHANGED <<idOf, status, confirmed, wins>>

\* The hash of a user created by an earlier release.
Outdate(n) ==
  /\ n \in confirmed /\ n \notin legacy
  /\ legacy' = legacy \cup {n}
  /\ UNCHANGED <<idOf, negative, thread, confirmed, wins>>

\* user_not_found_ttl_seconds.
Expire(k) ==
  /\ k \in negative
  /\ negative' = negative \ {k}
  /\ UNCHANGED <<idOf, legacy, thread, confirmed, wins>>

Step(t) ==
  \/ GetCached(t) \/ Select(t) \/ CacheNotFound(t) \/ Find(t) \/ Register(t)
  \/ CreateUser(t) \/ InvalidateCreated(t) \/ Login(t) \/ UpdatePasswordHash(t)

Next ==
  \/ \E t \in Threads :
       Step(t) \/ \E o \in {"register", "login", "find"}, k \in Keys : Begin(t, o, k)
  \/ \E k \in Keys : Expire(k)
  \/ \E n \in Names : Outdate(n)

Spec == Init /\ [][Next]_vars

-----------------------------------------------------------------------------
\* What the client is told is so: of concurrent registrations of one name at
\* most one is answered OK (the duplicate key of the insert is reported as
\* an existing user), a name reported as taken is taken, and a login or
\* lookup that succeeds has found a user.  A database failure is never taken
\* for an answer.
AnswersAreTrue ==
  /\ \A n \in Names : wins[n] <= 1
  /\ \A t \in Threads :
       (op[t] = "register" /\ answer[t] = "USER_ALREADY_EXISTS") \/ (op[t] # "register" /\ answer[t] = "OK")
         => Exists(key[t])

\* Not an invariant: after createUser's invalidation every read loads from
\* MySQL, so a user whose registration was answered is found.  A lookup that
\* missed before the insert stores its negative entry after the DEL.
ConfirmedIsFound ==
  \A t \in Threads :
    known[t] /\ pc[t] = "service" => status[t] # "kNotFound"
=============================================================================
