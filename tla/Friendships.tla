----------------------------- MODULE Friendships -----------------------------
(***************************************************************************)
(* Friend requests: FriendService (src/src/service/friend_service.cc) over *)
(* FriendRepository (src/src/db/friend_repository.cc).  Every statement    *)
(* commits by itself, so what a handler checked may be gone when it        *)
(* writes: both users add, accept and delete at the same time.  The table  *)
(* has one row per pair of users (a unique key; MySQL is external).        *)
(***************************************************************************)
EXTENDS Integers, FiniteSets

CONSTANTS
  Threads, Users, None,
  MaxRows  \* bound: rows inserted (friendships.id)

FriendsAssumption == MaxRows \in Nat /\ None \notin Users

\* OrderedPair: the same for both directions.
Pair(u, v) == {u, v}
Pairs == {Pair(u, v) : u, v \in Users} \ {{u} : u \in Users}

VARIABLES
  friendships,  \* the row of each pair, or None
  nextRow,
  pc, user, peer,
  row,          \* LAST_INSERT_ID of each thread's connection
  answers,      \* history: requests of addFriend that were answered OK
  consent       \* history: who asked or accepted, for each pair's row

request == <<pc, user, peer, row>>
vars == <<friendships, nextRow, request, answers, consent>>

Init ==
  /\ friendships = [p \in Pairs |-> None] /\ nextRow = 1
  /\ pc = [t \in Threads |-> "idle"]
  /\ user = [t \in Threads |-> None] /\ peer = [t \in Threads |-> None]
  /\ row = [t \in Threads |-> 0]
  /\ answers = {} /\ consent = [p \in Pairs |-> {}]

PairOf(t) == Pair(user[t], peer[t])
Found(t) == friendships[PairOf(t)]
Goto(t, l) == pc' = [pc EXCEPT ![t] = l] /\ UNCHANGED <<user, peer>>

\* The request ends, and its locals with it.
Finish(t) ==
  /\ pc' = [pc EXCEPT ![t] = "idle"] /\ row' = [row EXCEPT ![t] = 0]
  /\ user' = [user EXCEPT ![t] = None] /\ peer' = [peer EXCEPT ![t] = None]

\* A request, past validation, session and the check that the peer exists.
Request(t, op, u, v) ==
  /\ pc[t] = "idle" /\ u # v
  /\ user' = [user EXCEPT ![t] = u]
  /\ peer' = [peer EXCEPT ![t] = v]
  /\ pc' = [pc EXCEPT ![t] = op]
  /\ UNCHANGED <<friendships, nextRow, row, answers, consent>>

-----------------------------------------------------------------------------
(* addFriend *)

AddFriendFind(t) ==
  /\ pc[t] = "add"
  /\ IF Found(t) = None THEN Goto(t, "insert") /\ UNCHANGED row ELSE Finish(t)
  /\ UNCHANGED <<friendships, nextRow, answers, consent>>

\* The insert fails on the unique key (kDuplicate) when a row has come up;
\* it may also fail, before or after taking effect.
CreateFriendRequest(t) ==
  /\ pc[t] = "insert"
  /\ \/ UNCHANGED <<friendships, nextRow, consent>> /\ Finish(t)
     \/ /\ Found(t) = None /\ nextRow <= MaxRows
        /\ friendships' = [friendships EXCEPT ![PairOf(t)] =
             [id |-> nextRow, requester |-> user[t], addressee |-> peer[t], status |-> "pending"]]
        /\ nextRow' = nextRow + 1
        /\ consent' = [consent EXCEPT ![PairOf(t)] = {user[t]}]
        /\ \/ Goto(t, "created") /\ row' = [row EXCEPT ![t] = nextRow]
           \/ Finish(t)
  /\ UNCHANGED answers

\* The new row is read back by its id; it may be deleted by now.
ReadCreated(t) ==
  /\ pc[t] = "created"
  /\ Finish(t)
  /\ \/ UNCHANGED answers
     \/ /\ Found(t) # None /\ Found(t).id = row[t]
        /\ answers' = answers \cup {[by |-> user[t], thread |-> t, row |-> row[t]]}
  /\ UNCHANGED <<friendships, nextRow, consent>>

-----------------------------------------------------------------------------
(* acceptFriend *)

AcceptFriendFind(t) ==
  /\ pc[t] = "accept"
  /\ IF Found(t) # None /\ Found(t).status = "pending" /\ Found(t).addressee = user[t]
       THEN Goto(t, "update") /\ UNCHANGED row
       ELSE Finish(t)
  /\ UNCHANGED <<friendships, nextRow, answers, consent>>

\* The pending row of the pair is accepted, whoever asked.
Bug_AcceptFriendRequest(t) ==
  /\ pc[t] = "update"
  /\ Finish(t)
  /\ IF Found(t) # None /\ Found(t).status = "pending"
       THEN /\ friendships' = [friendships EXCEPT ![PairOf(t)].status = "accepted"]
            /\ consent' = [consent EXCEPT ![PairOf(t)] = @ \cup {user[t]}]
       ELSE UNCHANGED <<friendships, consent>>
  /\ UNCHANGED <<nextRow, answers>>

\* The update names requester, addressee and status again.  The row it
\* reads back afterwards only goes into the answer.
AcceptFriendRequest(t) ==
  /\ pc[t] = "update"
  /\ Finish(t)
  /\ \/ /\ Found(t) # None /\ Found(t).status = "pending"
        /\ Found(t).requester = peer[t] /\ Found(t).addressee = user[t]
        /\ friendships' = [friendships EXCEPT ![PairOf(t)].status = "accepted"]
        /\ consent' = [consent EXCEPT ![PairOf(t)] = @ \cup {user[t]}]
     \/ UNCHANGED <<friendships, consent>>
  /\ UNCHANGED <<nextRow, answers>>

-----------------------------------------------------------------------------

\* deleteFriend: one statement, whatever the row's status.
DeleteFriend(t) ==
  /\ pc[t] = "delete"
  /\ Finish(t)
  /\ \/ /\ friendships' = [friendships EXCEPT ![PairOf(t)] = None]
        /\ consent' = [consent EXCEPT ![PairOf(t)] = {}]
     \/ UNCHANGED <<friendships, consent>>
  /\ UNCHANGED <<nextRow, answers>>

\* listFriends: what user u is shown.
ListFriendships(u) ==
  {[user |-> IF friendships[p].requester = u THEN friendships[p].addressee
                                            ELSE friendships[p].requester,
    direction |-> IF friendships[p].requester = u THEN "outgoing" ELSE "incoming",
    status |-> friendships[p].status] : p \in {q \in Pairs : u \in q /\ friendships[q] # None}}

Step(t) ==
  \/ AddFriendFind(t) \/ CreateFriendRequest(t) \/ ReadCreated(t)
  \/ AcceptFriendFind(t) \/ AcceptFriendRequest(t) \/ DeleteFriend(t)

Next ==
  \E t \in Threads :
    Step(t) \/ \E op \in {"add", "accept", "delete"}, u, v \in Users : Request(t, op, u, v)

Spec == Init /\ [][Next]_vars

-----------------------------------------------------------------------------
\* Both users of a friendship agreed to it: whom a user is shown as an
\* accepted friend has asked for, or accepted, the very row that is shown,
\* and so has the user; a pending row was asked for by the user it is
\* outgoing for.  Checks and writes of deletions and requests in both
\* directions may interleave.
FriendsAgreed ==
  \A u \in Users : \A f \in ListFriendships(u) :
    consent[Pair(u, f.user)] =
      IF f.status = "accepted" THEN Pair(u, f.user)
      ELSE {IF f.direction = "outgoing" THEN u ELSE f.user}

\* Of requests racing for a pair, in one direction or both, one is told
\* that it made the row: no row is answered to two of them.  (A thread
\* serves its requests one after the other.)
OneRequestPerRow == \A a, b \in answers : a.row = b.row => a = b
=============================================================================
