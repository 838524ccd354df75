----------------------------- MODULE PushRouting -----------------------------
(***************************************************************************)
(* Where a new message is pushed to: ChatService.sendMessage and           *)
(* publishRemotePush (src/src/service/chat_service.cc), the deliveries of  *)
(* GroupService.sendGroupMessage (src/src/service/group_service.cc) and    *)
(* MessageHandler (src/src/handler/message_handler.cc), composed with the  *)
(* logins of Sessions.  A worker reads Redis' presence, then the local     *)
(* connections; the I/O thread, or the consumer of another server, checks  *)
(* the binding again when it delivers.  Logins, logouts, closes and        *)
(* crashes happen in between.                                              *)
(*                                                                         *)
(* Sends do not change logins, so one send at a time, from any place, is   *)
(* enough; it is an attempt on a message that is stored and not yet        *)
(* delivered (can_attempt_push).                                           *)
(***************************************************************************)
EXTENDS Sessions

VARIABLES
  send,    \* the send a worker is in: sender's place, recipient, presence read
  pushes,  \* its pushes, when it is with the I/O thread
  event,   \* the event in another server's stream
  pushed   \* history: for whom, and to whose connection, the last step wrote pushes

routingVars == <<send, pushes, event, pushed>>
allVars == <<vars, routingVars>>

RInit == Init /\ send = None /\ pushes = {} /\ event = None /\ pushed = {}

Local(s, u) == connections[s][u]

\* MessageHandler.handle: a protected request that carries a token needs
\* the connection's own, and Redis must still have it.
TokenMatches(c, t) ==
  t = None \/ (session[c].token = t /\ GetToken(t) = session[c].user)

\* What GetPresence may return: nothing when Redis fails.
GetPresence(u) == {presence[u]} \cup (IF "error" \in Faults THEN {None} ELSE {})

\* sendMessage up to GetPresence.
HandleSendMessage(c, u, t) ==
  /\ send = None /\ pushes = {} /\ event = None /\ Idle(c) /\ session[c] # None
  /\ TokenMatches(c, t)
  /\ u # session[c].user
  /\ send' \in {[from |-> c, user |-> session[c].user, to |-> u, seen |-> p] :
                  p \in GetPresence(u)}
  /\ pushed' = {}
  /\ UNCHANGED <<vars, pushes, event>>

\* Only the connection that presence names is pushed to.
Bug_LocalTargets(s, u, seen) ==
  IF seen = None THEN ToSet(Local(s, u)) ELSE ToSet(Local(s, u)) \cap {seen.place}

\* The local connections: all of them when presence names one of them or
\* names nothing, none when it names another one.
LocalTargets(s, u, seen) ==
  IF seen = None \/ seen.place \in ToSet(Local(s, u)) THEN ToSet(Local(s, u)) ELSE {}

\* remote_server_id, remote_conn_id.
RemoteTarget(s, seen) == IF seen # None /\ ServerOf[seen.place] # s THEN seen.place ELSE None

\* The sender's other connections get a copy.
SenderSync(s, c, u) == ToSet(Local(s, u)) \ {c}

\* The rest of sendMessage and handleSendMessage: pushes for the I/O
\* thread, or an event for the other server; XADD may fail.
RouteMessage ==
  /\ send # None
  /\ LET s == ServerOf[send.from]
         targets == LocalTargets(s, send.to, send.seen)
         remote == RemoteTarget(s, send.seen)
     IN /\ pushes' = {[to |-> send.to, place |-> p] : p \in targets} \cup
                     {[to |-> send.user, place |-> p] : p \in SenderSync(s, send.from, send.user)}
        /\ \/ /\ targets = {} /\ remote # None
              /\ event' = [to |-> send.to, place |-> remote]
           \/ /\ targets # {} \/ remote = None \/ "error" \in Faults
              /\ UNCHANGED event
  /\ send' = None /\ pushed' = {}
  /\ UNCHANGED vars

\* GetConnectionId: the last connection that was bound.
GroupTarget(s, u) == IF Local(s, u) = <<>> THEN None ELSE Last(Local(s, u))

\* One delivery of a group message.
HandleSendGroupMessage(c, u, t) ==
  /\ send = None /\ pushes = {} /\ event = None /\ Idle(c) /\ session[c] # None
  /\ TokenMatches(c, t)
  /\ u # session[c].user
  /\ GroupTarget(ServerOf[c], u) # None
  /\ pushes' = {[to |-> u, place |-> GroupTarget(ServerOf[c], u)]}
  /\ pushed' = {}
  /\ UNCHANGED <<vars, send, event>>

\* The connection is looked up, not its user.
Bug_Deliverable(p) == p.place \in open /\ session[p.place] # None

\* isConnectionBoundToUser, and the connection is still registered.
Deliverable(p) == p.place \in open /\ session[p.place] # None /\ session[p.place].user = p.to

Written(ps) == pushed' = {[to |-> p.to, at |-> session[p.place].user] : p \in ps}

\* onWorkerResultReadable, for the pushes of one result.
DeliverPushes ==
  /\ pushes # {}
  /\ Written({p \in pushes : Deliverable(p)})
  /\ pushes' = {}
  /\ UNCHANGED <<vars, send, event>>

\* The consumer and I/O thread of the other server (module RemotePush).
DeliverRemote ==
  /\ event # None
  /\ Written({p \in {event} : Deliverable(p)})
  /\ event' = None
  /\ UNCHANGED <<vars, send, pushes>>

RNext ==
  \/ Next /\ pushed' = {} /\ UNCHANGED <<send, pushes, event>>
  \/ \E c \in Places, u \in Users, t \in Tokens \cup {None} :
       HandleSendMessage(c, u, t) \/ HandleSendGroupMessage(c, u, t)
  \/ RouteMessage \/ DeliverPushes \/ DeliverRemote

RSpec == RInit /\ [][RNext]_allVars

\* The logins alone, for properties of the routing functions.
LoginSpec == RInit /\ [][Next /\ UNCHANGED routingVars]_allVars

-----------------------------------------------------------------------------
LoggedIn(u) ==
  last[u] # None /\ script[last[u].place] = None
    /\ session[last[u].place] = [user |-> u, token |-> last[u].token]

\* A push reaches only connections of the user it is for, also when the
\* place has changed hands, or its server restarted, after it was chosen.
PushReachesRecipient == \A x \in pushed : x.to = x.at

\* As long as Redis answers, a message to a logged-in user is routed to
\* the connection of the last login, from whichever server it is sent,
\* and on that server to all of the user's connections.
LastLoginIsRouted ==
  \A u \in Users, s \in Servers : LoggedIn(u) =>
    LET p == last[u].place IN
    IF ServerOf[p] = s THEN LocalTargets(s, u, presence[u]) = ToSet(Local(s, u)) /\ p \in ToSet(Local(s, u))
    ELSE LocalTargets(s, u, presence[u]) = {} /\ RemoteTarget(s, presence[u]) = p

\* Not an invariant: a group message is pushed to every member who is logged
\* in, as README.md says.  sendGroupMessage looks on its own server only.
OnlineMemberIsRouted ==
  \A u \in Users, s \in Servers : LoggedIn(u) => GroupTarget(s, u) # None
=============================================================================
