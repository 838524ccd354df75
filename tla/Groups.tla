-------------------------------- MODULE Groups --------------------------------
(***************************************************************************)
(* A group and its messages: GroupService                                  *)
(* (src/src/service/group_service.cc) over GroupRepository                 *)
(* (src/src/db/group_repository.cc).  A group message is one stored        *)
(* message per member, written one after the other in transactions of      *)
(* their own, while members join.  createMessage is taken as ChatMessages  *)
(* shows it: it stores the message or answers the one stored before for    *)
(* the same key, or fails, with or without effect.  One sender, the owner. *)
(***************************************************************************)
EXTENDS Integers, FiniteSets, Sequences, SequencesExt

CONSTANTS
  Threads,     \* workers with requests of the owner
  Owner, Users,  \* user ids
  ClientIds, Contents, None,
  MaxNow       \* bound: the clock, in seconds

GroupsAssumption == Users \subseteq Nat /\ Owner \in Users /\ MaxNow \in Nat

Others == Users \ {Owner}

VARIABLES
  now,
  joined,    \* group_members.joined_at of each user, 0 for no member
  stored,    \* the content stored for each client id and recipient
  pc, cid, content,
  todo,      \* the listed members still to be served
  target,    \* addGroupMember: the user to add
  began,     \* history: the members when the request began
  answers    \* history: group messages answered OK

request == <<pc, cid, content, todo, target, began>>
vars == <<now, joined, stored, request, answers>>

Init ==
  /\ now = 1 /\ joined = [u \in Users |-> 0]
  /\ stored = [k \in ClientIds \X Others |-> None]
  /\ pc = [t \in Threads |-> "idle"]
  /\ cid = [t \in Threads |-> None] /\ content = [t \in Threads |-> None]
  /\ todo = [t \in Threads |-> <<>>] /\ target = [t \in Threads |-> None]
  /\ began = [t \in Threads |-> {}]
  /\ answers = {}

Members == {u \in Users : joined[u] # 0}

\* listMembers: ORDER BY joined_at, user_id.
Earlier(u, v) == joined[u] < joined[v] \/ (joined[u] = joined[v] /\ u < v)
ListMembers == SetToSortSeq(Members, Earlier)

Goto(t, l) == pc' = [pc EXCEPT ![t] = l]

\* The request ends and its locals with it.
Finish(t) ==
  /\ Goto(t, "idle")
  /\ cid' = [cid EXCEPT ![t] = None] /\ content' = [content EXCEPT ![t] = None]
  /\ todo' = [todo EXCEPT ![t] = <<>>] /\ target' = [target EXCEPT ![t] = None]
  /\ began' = [began EXCEPT ![t] = {}]

Tick == now < MaxNow /\ now' = now + 1 /\ UNCHANGED <<joined, stored, request, answers>>

\* createGroup: conversation, group and members in one transaction.
CreateGroup(us) ==
  /\ joined[Owner] = 0
  /\ joined' = [u \in Users |-> IF u \in us \cup {Owner} THEN now ELSE 0]
  /\ UNCHANGED <<now, stored, request, answers>>

\* addGroupMember: the role and the target are looked up in the list ...
AddGroupMember(t, u) ==
  /\ pc[t] = "idle"
  /\ Owner \in Members /\ u \notin Members
  /\ target' = [target EXCEPT ![t] = u]
  /\ Goto(t, "insert")
  /\ UNCHANGED <<now, joined, stored, cid, content, todo, began, answers>>

\* ... and the row is inserted; a taken key is kDuplicate, and the
\* statement may fail.  Two joins are taken to happen in different seconds:
\* members who joined in one second are listed by id, whoever was first.
AddMember(t) ==
  /\ pc[t] = "insert"
  /\ Finish(t)
  /\ \/ UNCHANGED joined
     \/ /\ target[t] \notin Members
        /\ \A u \in Members : joined[u] < now
        /\ joined' = [joined EXCEPT ![target[t]] = now]
  /\ UNCHANGED <<now, stored, answers>>

-----------------------------------------------------------------------------
(* sendGroupMessage *)

SendGroupMessage(t, k, x) ==
  /\ pc[t] = "idle"
  /\ Owner \in Members
  /\ cid' = [cid EXCEPT ![t] = k]
  /\ content' = [content EXCEPT ![t] = x]
  /\ began' = [began EXCEPT ![t] = Members]
  /\ Goto(t, "list")
  /\ UNCHANGED <<now, joined, stored, todo, target, answers>>

List(t) ==
  /\ pc[t] = "list"
  /\ todo' = [todo EXCEPT ![t] = SelectSeq(ListMembers, LAMBDA u : u # Owner)]
  /\ Goto(t, "store")
  /\ UNCHANGED <<now, joined, stored, cid, content, target, began, answers>>

\* A failure for one member is skipped.
Bug_StoreFor(t) ==
  LET k == <<cid[t], Head(todo[t])>> IN
  /\ pc[t] = "store" /\ todo[t] # <<>>
  /\ todo' = [todo EXCEPT ![t] = Tail(@)]
  /\ stored' \in {stored, [stored EXCEPT ![k] = IF @ = None THEN content[t] ELSE @]}
  /\ UNCHANGED <<now, joined, pc, cid, content, target, began, answers>>

\* The message for the next member; a failure, or a stored message with
\* another content, ends the request and leaves the earlier ones stored.
StoreFor(t) ==
  LET k == <<cid[t], Head(todo[t])>> IN
  /\ pc[t] = "store" /\ todo[t] # <<>>
  /\ \/ /\ stored[k] \in {None, content[t]}
        /\ stored' = [stored EXCEPT ![k] = content[t]]
        /\ todo' = [todo EXCEPT ![t] = Tail(@)]
        /\ UNCHANGED <<pc, cid, content, target, began>>
     \/ /\ stored' \in {stored, [stored EXCEPT ![k] = IF @ = None THEN content[t] ELSE @]}
        /\ Finish(t)
  /\ UNCHANGED <<now, joined, answers>>

Answer(t) ==
  /\ pc[t] = "store" /\ todo[t] = <<>>
  /\ answers' = answers \cup {[cid |-> cid[t], content |-> content[t], to |-> began[t] \ {Owner}]}
  /\ Finish(t)
  /\ UNCHANGED <<now, joined, stored>>

Next ==
  \/ Tick
  \/ \E us \in SUBSET Others : CreateGroup(us)
  \/ \E t \in Threads :
       \/ AddMember(t) \/ List(t) \/ StoreFor(t) \/ Answer(t)
       \/ \E u \in Others : AddGroupMember(t, u)
       \/ \E k \in ClientIds, x \in Contents : SendGroupMessage(t, k, x)

Spec == Init /\ [][Next]_vars

-----------------------------------------------------------------------------
\* A group message answered OK is stored, with the content sent, for every
\* member the group had when the request came, also when it completes an
\* attempt that failed half way.
AnsweredReachesAll ==
  \A a \in answers : \A u \in a.to : stored[<<a.cid, u>>] = a.content

\* All members get one message under a client id: different contents,
\* sent at once or as a retry, are not mixed among the members, because
\* every request begins with the member who joined first.
OneContent ==
  \A k \in ClientIds : \A u, v \in Others :
    None \notin {stored[<<k, u>>], stored[<<k, v>>]} => stored[<<k, u>>] = stored[<<k, v>>]

\* A group message is one message: whole once it is answered OK, and the
\* same for all.
GroupMessageIsOne == AnsweredReachesAll /\ OneContent
=============================================================================
