-------------------------- MODULE FriendshipsProofs --------------------------
(***************************************************************************)
(* FriendsAgreed and OneRequestPerRow for any number of users, threads and *)
(* rows.  A row tells who has consented: its requester, and once accepted  *)
(* also its addressee.  Every statement names enough of the row to keep    *)
(* this true, so the checks made before it do not matter.                  *)
(***************************************************************************)
EXTENDS Friendships, TLAPS

Rows ==
  [id : Nat, requester : Users, addressee : Users, status : {"pending", "accepted"}]

\* A row and the consents for it.
RowInv(p) ==
  LET f == friendships[p] IN
  f # None =>
    /\ f \in Rows /\ p = {f.requester, f.addressee}
    /\ consent[p] = IF f.status = "accepted" THEN p ELSE {f.requester}

ThreadInv(t) ==
  /\ pc[t] # "idle" => user[t] \in Users /\ peer[t] \in Users /\ user[t] # peer[t]
  /\ pc[t] = "created" => row[t] < nextRow /\ \A a \in answers : a.row # row[t]

Types ==
  /\ DOMAIN friendships = Pairs /\ friendships = [p \in Pairs |-> friendships[p]]
  /\ nextRow \in Nat /\ consent \in [Pairs -> SUBSET Users]
  /\ DOMAIN pc = Threads /\ pc = [t \in Threads |-> pc[t]]
  /\ user \in [Threads -> Users \cup {None}] /\ peer \in [Threads -> Users \cup {None}]
  /\ row \in [Threads -> Nat]

AnswersInv == \A a \in answers : a.row \in Nat /\ a.row < nextRow

CreatedInv == \A t, u \in Threads : t # u /\ pc[t] = "created" /\ pc[u] = "created" => row[t] # row[u]

IInv ==
  /\ Types /\ AnswersInv /\ CreatedInv /\ OneRequestPerRow
  /\ (\A p \in Pairs : RowInv(p)) /\ (\A t \in Threads : ThreadInv(t))

\* Two users make a pair.
LEMMA PairFacts ==
  ASSUME NEW u \in Users, NEW v \in Users, u # v
  PROVE  Pair(u, v) \in Pairs
<1>1. Pair(u, v) \in {Pair(x, y) : x, y \in Users}
  OBVIOUS
<1>2. \A w \in Users : Pair(u, v) # {w}
  BY DEF Pair
<1> QED
  BY <1>1, <1>2 DEF Pairs

\* The initial state satisfies the invariant.
LEMMA InitHolds ==
  ASSUME Init
  PROVE  IInv
<1>1. Types
  BY DEF Init, Types
<1> QED
  BY <1>1 DEF Init, IInv, AnswersInv, CreatedInv, OneRequestPerRow, RowInv, ThreadInv

\* A thread's step that leaves table and answers alone, and creates no row.
LEMMA ThreadStep ==
  ASSUME IInv, NEW t \in Threads, UNCHANGED <<friendships, nextRow, consent, answers>>, Types',
         \A u \in Threads : u # t =>
           pc'[u] = pc[u] /\ user'[u] = user[u] /\ peer'[u] = peer[u] /\ row'[u] = row[u],
         pc'[t] # "created",
         pc'[t] # "idle" => user'[t] \in Users /\ peer'[t] \in Users /\ user'[t] # peer'[t]
  PROVE  IInv'
<1>1. AnswersInv' /\ OneRequestPerRow' /\ \A p \in Pairs : RowInv(p)'
  BY DEF IInv, AnswersInv, OneRequestPerRow, RowInv
<1>2. CreatedInv'
  BY DEF IInv, CreatedInv
<1>3. \A u \in Threads : ThreadInv(u)'
  BY DEF IInv, ThreadInv
<1> QED
  BY <1>1, <1>2, <1>3 DEF IInv

\* What ends with a request.
LEMMA FinishFacts ==
  ASSUME Types, NEW t \in Threads, Finish(t)
  PROVE  /\ DOMAIN pc' = Threads /\ pc' = [u \in Threads |-> pc'[u]] /\ pc'[t] = "idle"
         /\ user' \in [Threads -> Users \cup {None}] /\ peer' \in [Threads -> Users \cup {None}]
         /\ row' \in [Threads -> Nat]
         /\ \A u \in Threads : u # t =>
              pc'[u] = pc[u] /\ user'[u] = user[u] /\ peer'[u] = peer[u] /\ row'[u] = row[u]
  BY DEF Types, Finish

\* A request that ends, whatever it did to the rows.
LEMMA FinishStep ==
  ASSUME IInv, NEW t \in Threads, Finish(t),
         DOMAIN friendships' = Pairs, friendships' = [p \in Pairs |-> friendships'[p]],
         consent' \in [Pairs -> SUBSET Users], \A p \in Pairs : RowInv(p)',
         nextRow' \in Nat, nextRow' >= nextRow, UNCHANGED answers
  PROVE  IInv'
<1>1. Types /\ nextRow \in Nat
  BY DEF IInv, Types
<1>2. Types'
  BY <1>1, FinishFacts DEF Types
<1>3. AnswersInv' /\ OneRequestPerRow'
  BY <1>1 DEF IInv, AnswersInv, OneRequestPerRow
<1>4. CreatedInv'
  BY <1>1, FinishFacts DEF IInv, CreatedInv
<1>5. ASSUME NEW u \in Threads PROVE ThreadInv(u)'
  <2>1. CASE u = t
    BY <1>1, <2>1, FinishFacts DEF ThreadInv
  <2>2. CASE u # t
    <3>1. pc'[u] = pc[u] /\ user'[u] = user[u] /\ peer'[u] = peer[u] /\ row'[u] = row[u]
      BY <1>1, <2>2, FinishFacts
    <3>2. ThreadInv(u) /\ row[u] \in Nat
      BY <1>1 DEF IInv, Types
    <3>3. row[u] < nextRow => row[u] < nextRow'
      BY <1>1, <3>2
    <3> QED
      BY <3>1, <3>2, <3>3 DEF ThreadInv
  <2> QED
    BY <2>1, <2>2
<1> QED
  BY <1>2, <1>3, <1>4, <1>5 DEF IInv

\* The rows of other pairs, when one pair's row changes.
LEMMA RowStep ==
  ASSUME IInv, NEW p \in Pairs, NEW f, NEW c \in SUBSET Users,
         friendships' = [friendships EXCEPT ![p] = f], consent' = [consent EXCEPT ![p] = c],
         f # None =>
           /\ f \in Rows /\ p = {f.requester, f.addressee}
           /\ c = IF f.status = "accepted" THEN p ELSE {f.requester}
  PROVE  /\ DOMAIN friendships' = Pairs /\ friendships' = [q \in Pairs |-> friendships'[q]]
         /\ consent' \in [Pairs -> SUBSET Users] /\ \A q \in Pairs : RowInv(q)'
<1>1. /\ DOMAIN friendships = Pairs /\ friendships = [q \in Pairs |-> friendships[q]]
      /\ consent \in [Pairs -> SUBSET Users]
  BY DEF IInv, Types
<1>2. /\ DOMAIN friendships' = Pairs /\ friendships' = [q \in Pairs |-> friendships'[q]]
      /\ consent' \in [Pairs -> SUBSET Users]
      /\ friendships'[p] = f /\ consent'[p] = c
      /\ \A q \in Pairs : q # p => friendships'[q] = friendships[q] /\ consent'[q] = consent[q]
  BY <1>1
<1>3. RowInv(p)'
  BY <1>2 DEF RowInv
<1>4. ASSUME NEW q \in Pairs, q # p PROVE RowInv(q)'
  BY <1>2, <1>4 DEF IInv, RowInv
<1> QED
  BY <1>2, <1>3, <1>4

\* The steps that only read, and the beginning of a request.
LEMMA GotoStep ==
  ASSUME IInv, NEW t \in Threads, NEW l, l # "created", pc[t] # "idle", Goto(t, l),
         UNCHANGED <<friendships, nextRow, consent, answers, row>>
  PROVE  IInv'
<1>1. Types
  BY DEF IInv
<1>2. /\ DOMAIN pc' = Threads /\ pc' = [u \in Threads |-> pc'[u]] /\ pc'[t] = l
      /\ (\A u \in Threads : u # t => pc'[u] = pc[u]) /\ UNCHANGED <<user, peer>>
  BY <1>1 DEF Types, Goto
<1>3. Types'
  BY <1>1, <1>2 DEF Types
<1>4. user[t] \in Users /\ peer[t] \in Users /\ user[t] # peer[t]
  BY DEF IInv, ThreadInv
<1> QED
  BY <1>2, <1>3, <1>4, ThreadStep

\* A request names two different users.
LEMMA RequestStep ==
  ASSUME IInv, NEW t \in Threads, NEW op \in {"add", "accept", "delete"},
         NEW u \in Users, NEW v \in Users, Request(t, op, u, v)
  PROVE  IInv'
<1>1. Types
  BY DEF IInv
<1>2. /\ DOMAIN pc' = Threads /\ pc' = [w \in Threads |-> pc'[w]] /\ pc'[t] = op
      /\ user' \in [Threads -> Users \cup {None}] /\ peer' \in [Threads -> Users \cup {None}]
      /\ user'[t] = u /\ peer'[t] = v /\ u # v
      /\ \A w \in Threads : w # t => pc'[w] = pc[w] /\ user'[w] = user[w] /\ peer'[w] = peer[w]
      /\ UNCHANGED <<friendships, nextRow, consent, answers, row>>
  BY <1>1 DEF Types, Request
<1>3. Types'
  BY <1>1, <1>2 DEF Types
<1> QED
  BY <1>2, <1>3, ThreadStep

\* A request that ends and leaves the rows alone.
LEMMA QuietFinish ==
  ASSUME IInv, NEW t \in Threads, Finish(t), UNCHANGED <<friendships, nextRow, consent, answers>>
  PROVE  IInv'
<1>1. \A p \in Pairs : RowInv(p)'
  BY DEF IInv, RowInv
<1>2. /\ DOMAIN friendships' = Pairs /\ friendships' = [p \in Pairs |-> friendships'[p]]
      /\ consent' \in [Pairs -> SUBSET Users] /\ nextRow' \in Nat /\ nextRow' >= nextRow
  BY DEF IInv, Types
<1> QED
  BY <1>1, <1>2, FinishStep

\* The pair of a request.
LEMMA PairOfFacts ==
  ASSUME IInv, NEW t \in Threads, pc[t] # "idle"
  PROVE  /\ user[t] \in Users /\ peer[t] \in Users
         /\ PairOf(t) = {user[t], peer[t]} /\ PairOf(t) \in Pairs
<1>1. user[t] \in Users /\ peer[t] \in Users /\ user[t] # peer[t]
  BY DEF IInv, ThreadInv
<1> QED
  BY <1>1, PairFacts DEF PairOf, Pair

\* The insert makes a row its requester consented to, with a new id.
LEMMA CreateStep ==
  ASSUME IInv, NEW t \in Threads, CreateFriendRequest(t)
  PROVE  IInv'
<1> DEFINE f == [id |-> nextRow, requester |-> user[t], addressee |-> peer[t], status |-> "pending"]
           p == PairOf(t)
<1>1. pc[t] = "insert" /\ UNCHANGED answers
  BY DEF CreateFriendRequest
<1>2. CASE UNCHANGED <<friendships, nextRow, consent>> /\ Finish(t)
  BY <1>1, <1>2, QuietFinish
<1>3. CASE /\ friendships' = [friendships EXCEPT ![p] = f] /\ nextRow' = nextRow + 1
           /\ consent' = [consent EXCEPT ![p] = {user[t]}]
           /\ (Goto(t, "created") /\ row' = [row EXCEPT ![t] = nextRow]) \/ Finish(t)
  <2>1. /\ user[t] \in Users /\ peer[t] \in Users /\ p = {user[t], peer[t]} /\ p \in Pairs
        /\ nextRow \in Nat /\ nextRow' \in Nat /\ nextRow' >= nextRow
    BY <1>1, <1>3, PairOfFacts DEF IInv, Types
  <2>2. f \in Rows /\ f.requester = user[t] /\ f.addressee = peer[t] /\ f.status # "accepted"
    BY <2>1 DEF Rows
  <2> HIDE DEF f, p
  <2>3. /\ DOMAIN friendships' = Pairs /\ friendships' = [q \in Pairs |-> friendships'[q]]
        /\ consent' \in [Pairs -> SUBSET Users] /\ \A q \in Pairs : RowInv(q)'
    <3> DEFINE c == {user[t]}
    <3>1. /\ c \in SUBSET Users /\ p = {f.requester, f.addressee}
          /\ c = IF f.status = "accepted" THEN p ELSE {f.requester}
      BY <2>1, <2>2
    <3> HIDE DEF c
    <3>2. friendships' = [friendships EXCEPT ![p] = f] /\ consent' = [consent EXCEPT ![p] = c]
      BY <1>3 DEF c
    <3> QED
      BY <2>1, <2>2, <3>1, <3>2, RowStep
  <2>4. CASE Finish(t)
    BY <1>1, <2>1, <2>3, <2>4, FinishStep
  <2>5. CASE Goto(t, "created") /\ row' = [row EXCEPT ![t] = nextRow]
    <3>1. Types /\ nextRow' = nextRow + 1
      BY <1>3 DEF IInv
    <3>2. /\ DOMAIN pc' = Threads /\ pc' = [u \in Threads |-> pc'[u]] /\ pc'[t] = "created"
          /\ row' \in [Threads -> Nat] /\ row'[t] = nextRow /\ UNCHANGED <<user, peer>>
          /\ \A u \in Threads : u # t => pc'[u] = pc[u] /\ row'[u] = row[u]
      BY <2>1, <2>5, <3>1 DEF Types, Goto
    <3>3. Types'
      BY <2>1, <2>3, <3>1, <3>2 DEF Types
    <3>4. AnswersInv' /\ OneRequestPerRow'
      BY <1>1, <2>1, <3>1 DEF IInv, AnswersInv, OneRequestPerRow
    <3>5. CreatedInv'
      <4>1. \A u \in Threads : pc[u] = "created" => row[u] # nextRow
        BY <2>1 DEF IInv, ThreadInv
      <4> QED
        BY <3>2, <4>1 DEF IInv, CreatedInv
    <3>6. ASSUME NEW u \in Threads PROVE ThreadInv(u)'
      <4>1. ThreadInv(u) /\ row[u] \in Nat
        BY <3>1 DEF IInv, Types
      <4>2. CASE u = t
        <5>1. row'[t] < nextRow' /\ \A a \in answers : a.row # nextRow
          BY <2>1, <3>1, <3>2 DEF IInv, AnswersInv
        <5> QED
          BY <1>1, <3>2, <4>1, <4>2, <5>1 DEF ThreadInv
      <4>3. CASE u # t
        <5>1. row[u] < nextRow => row[u] < nextRow'
          BY <2>1, <3>1, <4>1
        <5> QED
          BY <1>1, <3>2, <4>1, <4>3, <5>1 DEF ThreadInv
      <4> QED
        BY <4>2, <4>3
    <3> QED
      BY <2>3, <3>3, <3>4, <3>5, <3>6 DEF IInv
  <2> QED
    BY <1>3, <2>4, <2>5
<1> QED
  BY <1>2, <1>3 DEF CreateFriendRequest

\* The answer names the row of the thread, which no other has.
LEMMA ReadCreatedStep ==
  ASSUME IInv, NEW t \in Threads, ReadCreated(t)
  PROVE  IInv'
<1> DEFINE x == [by |-> user[t], thread |-> t, row |-> row[t]]
<1>1. pc[t] = "created" /\ Finish(t) /\ UNCHANGED <<friendships, nextRow, consent>>
  BY DEF ReadCreated
<1>2. CASE UNCHANGED answers
  BY <1>1, <1>2, QuietFinish
<1>3. CASE answers' = answers \cup {x}
  <2>1. Types
    BY DEF IInv
  <2>2. /\ row[t] \in Nat /\ row[t] < nextRow /\ \A a \in answers : a.row # row[t]
    BY <1>1 DEF IInv, Types, ThreadInv
  <2>3. x.row = row[t]
    OBVIOUS
  <2> HIDE DEF x
  <2>4. Types'
    BY <1>1, <2>1, FinishFacts DEF Types
  <2>5. AnswersInv' /\ OneRequestPerRow'
    BY <1>1, <1>3, <2>2, <2>3 DEF IInv, AnswersInv, OneRequestPerRow
  <2>6. CreatedInv'
    BY <1>1, <2>1, FinishFacts DEF IInv, CreatedInv
  <2>7. \A p \in Pairs : RowInv(p)'
    BY <1>1 DEF IInv, RowInv
  <2>8. ASSUME NEW u \in Threads PROVE ThreadInv(u)'
    <3>1. CASE u = t
      BY <1>1, <2>1, <3>1, FinishFacts DEF ThreadInv
    <3>2. CASE u # t
      <4>1. pc'[u] = pc[u] /\ user'[u] = user[u] /\ peer'[u] = peer[u] /\ row'[u] = row[u]
        BY <1>1, <2>1, <3>2, FinishFacts
      <4>2. pc[u] = "created" => row[u] # row[t]
        BY <1>1, <3>2 DEF IInv, CreatedInv
      <4>3. ThreadInv(u)
        BY DEF IInv
      <4> QED
        BY <1>1, <1>3, <2>3, <4>1, <4>2, <4>3 DEF ThreadInv
    <3> QED
      BY <3>1, <3>2
  <2> QED
    BY <2>4, <2>5, <2>6, <2>7, <2>8 DEF IInv
<1> QED
  BY <1>2, <1>3 DEF ReadCreated

\* The addressee of the very row accepts it.
LEMMA AcceptStep ==
  ASSUME IInv, NEW t \in Threads, AcceptFriendRequest(t)
  PROVE  IInv'
<1> DEFINE p == PairOf(t)
           f == [friendships[p] EXCEPT !.status = "accepted"]
<1>1. pc[t] = "update" /\ Finish(t) /\ UNCHANGED <<nextRow, answers>>
  BY DEF AcceptFriendRequest
<1>2. CASE UNCHANGED <<friendships, consent>>
  BY <1>1, <1>2, QuietFinish
<1>3. CASE /\ friendships[p] # None /\ friendships[p].status = "pending"
           /\ friendships[p].requester = peer[t] /\ friendships[p].addressee = user[t]
           /\ friendships' = [friendships EXCEPT ![p] = f]
           /\ consent' = [consent EXCEPT ![p] = @ \cup {user[t]}]
  <2>1. user[t] \in Users /\ peer[t] \in Users /\ p = {user[t], peer[t]} /\ p \in Pairs
    BY <1>1, PairOfFacts
  <2>2. friendships[p] \in Rows /\ consent[p] = {peer[t]}
    BY <1>3, <2>1 DEF IInv, RowInv
  <2>3. f \in Rows /\ f.requester = peer[t] /\ f.addressee = user[t] /\ f.status = "accepted"
    BY <1>3, <2>2 DEF Rows
  <2> HIDE DEF f, p
  <2>4. consent' = [consent EXCEPT ![p] = {user[t], peer[t]}]
    BY <1>3, <2>1, <2>2 DEF IInv, Types
  <2>5. /\ DOMAIN friendships' = Pairs /\ friendships' = [q \in Pairs |-> friendships'[q]]
        /\ consent' \in [Pairs -> SUBSET Users] /\ \A q \in Pairs : RowInv(q)'
    <3> DEFINE c == {user[t], peer[t]}
    <3>1. /\ c \in SUBSET Users /\ p = {f.requester, f.addressee}
          /\ c = IF f.status = "accepted" THEN p ELSE {f.requester}
      BY <2>1, <2>3
    <3> HIDE DEF c
    <3>2. friendships' = [friendships EXCEPT ![p] = f] /\ consent' = [consent EXCEPT ![p] = c]
      BY <1>3, <2>4 DEF c
    <3> QED
      BY <2>1, <2>3, <3>1, <3>2, RowStep
  <2>6. nextRow' \in Nat /\ nextRow' >= nextRow
    BY <1>1 DEF IInv, Types
  <2> QED
    BY <1>1, <2>5, <2>6, FinishStep
<1> QED
  BY <1>2, <1>3 DEF AcceptFriendRequest, Found

\* A deletion takes the row and its consents.
LEMMA DeleteStep ==
  ASSUME IInv, NEW t \in Threads, DeleteFriend(t)
  PROVE  IInv'
<1>1. pc[t] = "delete" /\ Finish(t) /\ UNCHANGED <<nextRow, answers>>
  BY DEF DeleteFriend
<1>2. CASE UNCHANGED <<friendships, consent>>
  BY <1>1, <1>2, QuietFinish
<1>3. CASE /\ friendships' = [friendships EXCEPT ![PairOf(t)] = None]
           /\ consent' = [consent EXCEPT ![PairOf(t)] = {}]
  <2>1. PairOf(t) \in Pairs /\ {} \in SUBSET Users
    BY <1>1, PairOfFacts
  <2>2. /\ DOMAIN friendships' = Pairs /\ friendships' = [q \in Pairs |-> friendships'[q]]
        /\ consent' \in [Pairs -> SUBSET Users] /\ \A q \in Pairs : RowInv(q)'
    BY <1>3, <2>1, RowStep
  <2>3. nextRow' \in Nat /\ nextRow' >= nextRow
    BY <1>1 DEF IInv, Types
  <2> QED
    BY <1>1, <2>2, <2>3, FinishStep
<1> QED
  BY <1>2, <1>3 DEF DeleteFriend

\* The invariant is inductive.
THEOREM FriendshipsInvariant == Spec => []IInv
<1>1. IInv /\ [Next]_vars => IInv'
  <2> SUFFICES ASSUME IInv, [Next]_vars PROVE IInv'
    OBVIOUS
  <2>1. ASSUME NEW t \in Threads, AddFriendFind(t) \/ AcceptFriendFind(t) PROVE IInv'
    <3>1. /\ pc[t] # "idle" /\ UNCHANGED <<friendships, nextRow, answers, consent>>
          /\ \/ Finish(t)
             \/ (Goto(t, "insert") \/ Goto(t, "update")) /\ UNCHANGED row
      BY <2>1 DEF AddFriendFind, AcceptFriendFind
    <3> QED
      BY <3>1, QuietFinish, GotoStep
  <2>2. ASSUME NEW t \in Threads, Step(t) PROVE IInv'
    BY <2>1, <2>2, CreateStep, ReadCreatedStep, AcceptStep, DeleteStep DEF Step
  <2>3. CASE UNCHANGED vars
    BY <2>3 DEF vars, request, IInv, Types, AnswersInv, CreatedInv, OneRequestPerRow, RowInv,
                ThreadInv
  <2> QED
    BY <2>2, <2>3, RequestStep DEF Next
<1>2. Init => IInv
  BY InitHolds
<1> QED
  BY <1>1, <1>2, PTL DEF Spec

\* Whom listFriends shows as a friend has agreed, and so has the user: an
\* accepted row was asked for by one and accepted by the other, although the
\* row may have been deleted and asked for again, in either direction,
\* between a handler's check and its write.
THEOREM FriendsHaveAgreed == Spec => []FriendsAgreed
<1>1. IInv => FriendsAgreed
  <2> SUFFICES ASSUME IInv, NEW u \in Users, NEW f \in ListFriendships(u)
               PROVE  consent[Pair(u, f.user)] =
                        IF f.status = "accepted" THEN Pair(u, f.user)
                        ELSE {IF f.direction = "outgoing" THEN u ELSE f.user}
    BY DEF FriendsAgreed
  <2>1. PICK p \in {q \in Pairs : u \in q /\ friendships[q] # None} :
          f = [user |-> IF friendships[p].requester = u THEN friendships[p].addressee
                                                        ELSE friendships[p].requester,
               direction |-> IF friendships[p].requester = u THEN "outgoing" ELSE "incoming",
               status |-> friendships[p].status]
    BY DEF ListFriendships
  <2> DEFINE g == friendships[p]
  <2>2. /\ p = {g.requester, g.addressee}
        /\ consent[p] = IF g.status = "accepted" THEN p ELSE {g.requester}
    BY <2>1 DEF IInv, RowInv
  <2>3. /\ f.user = (IF g.requester = u THEN g.addressee ELSE g.requester)
        /\ f.direction = (IF g.requester = u THEN "outgoing" ELSE "incoming")
        /\ f.status = g.status
    BY <2>1
  <2> HIDE DEF g
  <2>4. Pair(u, f.user) = p
    BY <2>1, <2>2, <2>3 DEF Pair
  <2>5. g.requester = IF f.direction = "outgoing" THEN u ELSE f.user
    BY <2>3
  <2> QED
    BY <2>2, <2>3, <2>4, <2>5
<1> QED
  BY <1>1, FriendshipsInvariant, PTL

\* Of racing requests for a pair one is told that it made the row.
THEOREM RowsAnsweredOnce == Spec => []OneRequestPerRow
<1>1. IInv => OneRequestPerRow
  BY DEF IInv
<1> QED
  BY <1>1, FriendshipsInvariant, PTL
=============================================================================
