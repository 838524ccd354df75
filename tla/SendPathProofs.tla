---------------------------- MODULE SendPathProofs ----------------------------
(***************************************************************************)
(* The safety properties of SendPath for every size of the socket's buffer *)
(* and of the responses.  The invariant adds to the three properties the   *)
(* types and what a closed connection keeps: nothing pending, no interest. *)
(***************************************************************************)
EXTENDS SendPath, TLAPS

\* The constants are carried along, so that each step has what it needs.
Types ==
  /\ Capacity \in Nat \ {0} /\ Sizes \subseteq Nat \ {0}
  /\ pending \in Nat /\ buffered \in 0..Capacity
  /\ appended \in Nat /\ arrived \in Nat
  /\ interest \in BOOLEAN /\ ready \in BOOLEAN
  /\ peer \in {"open", "closed"} /\ conn \in {"open", "ended", "failed"}

ClosedIsQuiet == conn # "open" => pending = 0 /\ ~interest

IInv == Types /\ ClosedIsQuiet /\ PendingIsArmed /\ BytesAddUp /\ HalfCloseDrains

\* What onWritable sends is at most what is pending and what the socket
\* takes; it leaves something only before a full buffer.
LEMMA SendLoopFacts ==
  ASSUME Types
  PROVE  /\ SendLoop \in Nat /\ SendLoop <= pending /\ buffered + SendLoop <= Capacity
         /\ pending - SendLoop > 0 => buffered + SendLoop = Capacity
  BY DEF Types, SendLoop

\* The initial state satisfies the invariant.
LEMMA InitHolds ==
  ASSUME SendAssumption, Init
  PROVE  IInv
<1>1. Types
  <2>1. interest \in BOOLEAN /\ ready \in BOOLEAN
    BY DEF Init
  <2>2. buffered \in 0..Capacity
    BY DEF SendAssumption, Init
  <2> QED
    BY <2>1, <2>2 DEF SendAssumption, Init, Types
<1> QED
  BY <1>1 DEF Init, IInv, ClosedIsQuiet, PendingIsArmed, BytesAddUp, HalfCloseDrains

\* Appending arms the socket: either epoll_ctl finds room, or the buffer is
\* full.
LEMMA AppendStep ==
  ASSUME IInv, NEW n \in Sizes, AppendPendingSend(n)
  PROVE  IInv'
<1>1. n \in Nat
  BY DEF IInv, Types
<1>2. Types'
  BY <1>1 DEF IInv, Types, AppendPendingSend, Modify
<1>3. PendingIsArmed'
  BY DEF IInv, Types, PendingIsArmed, AppendPendingSend, Modify, Room
<1>4. BytesAddUp' /\ HalfCloseDrains' /\ ClosedIsQuiet'
  BY <1>1 DEF IInv, Types, BytesAddUp, HalfCloseDrains, ClosedIsQuiet, AppendPendingSend
<1> QED
  BY <1>2, <1>3, <1>4 DEF IInv

\* Handling an event sends all that fits; it leaves the ready list with
\* bytes pending only before a full buffer.
LEMMA HandleStep ==
  ASSUME IInv, HandleEvent
  PROVE  IInv'
<1> DEFINE out == interest /\ Room
           n == IF out THEN SendLoop ELSE 0
<1>1. /\ conn = "open" /\ ready /\ buffered' = buffered + n
      /\ UNCHANGED <<peer, appended, arrived>>
      /\ IF ClosesNow(Left(n)) THEN Closed("ended")
         ELSE /\ IF out THEN OnWritable(n) ELSE UNCHANGED <<pending, interest>>
              /\ ready' = (out /\ Left(n) = 0 /\ peer = "closed")
              /\ UNCHANGED conn
  BY DEF HandleEvent
<1>2. Types
  BY DEF IInv
<1>3. /\ n \in Nat /\ n <= pending /\ buffered + n <= Capacity
      /\ out /\ pending - n > 0 => buffered + n = Capacity
  BY <1>2, SendLoopFacts DEF Types
<1>4. ~out => n = 0
  OBVIOUS
<1>5. out \in BOOLEAN /\ (out <=> (interest /\ buffered < Capacity))
  BY DEF Room
<1> HIDE DEF n, out
<1>6. CASE ClosesNow(Left(n))
  <2>1. pending - n = 0
    BY <1>6 DEF ClosesNow, Left
  <2>2. conn' = "ended" /\ pending' = 0 /\ ready' = FALSE /\ interest' = FALSE
    BY <1>1, <1>6 DEF Closed
  <2>3. Types'
    <3>1. ready' \in BOOLEAN /\ interest' \in BOOLEAN
      BY <2>2
    <3>2. buffered' \in 0..Capacity
      BY <1>1, <1>2, <1>3 DEF Types
    <3> QED
      BY <1>1, <1>2, <2>2, <3>1, <3>2 DEF Types
  <2>4. appended = pending + buffered + arrived
    BY <1>1 DEF IInv, BytesAddUp
  <2>5. appended' = buffered' + arrived'
    BY <1>1, <1>2, <1>3, <2>1, <2>4 DEF Types
  <2> QED
    BY <2>2, <2>3, <2>5
    DEF IInv, ClosedIsQuiet, PendingIsArmed, BytesAddUp, HalfCloseDrains
<1>7. CASE ~ClosesNow(Left(n)) /\ out
  <2>1. pending' = pending - n /\ interest' = (pending - n > 0) /\ conn' = conn
    BY <1>1, <1>7 DEF OnWritable, Left
  <2>2. ready' \in BOOLEAN
    BY <1>1, <1>7, <1>5
  <2>3. Types'
    BY <1>1, <1>2, <1>3, <2>1, <2>2 DEF Types
  <2>4. PendingIsArmed'
    <3>1. SUFFICES ASSUME pending - n > 0 PROVE interest' /\ ~(buffered' < Capacity)
      BY <2>1 DEF PendingIsArmed, Room
    <3>2. buffered' = Capacity
      BY <1>1, <1>3, <1>7, <3>1
    <3>3. ~(buffered' < Capacity)
      BY <1>2, <3>2 DEF Types
    <3> QED
      BY <2>1, <3>1, <3>3
  <2>5. BytesAddUp'
    BY <1>1, <1>2, <1>3, <2>1 DEF IInv, BytesAddUp, Types
  <2> QED
    BY <1>1, <2>1, <2>3, <2>4, <2>5 DEF IInv, ClosedIsQuiet, HalfCloseDrains
<1>8. CASE ~ClosesNow(Left(n)) /\ ~out
  <2>1. pending' = pending /\ interest' = interest /\ conn' = conn
    BY <1>1, <1>8
  <2>2. ready' \in BOOLEAN /\ buffered' = buffered
    BY <1>1, <1>2, <1>4, <1>5, <1>8 DEF Types
  <2>3. Types'
    BY <1>1, <1>2, <2>1, <2>2 DEF Types
  <2>4. PendingIsArmed'
    BY <1>2, <1>5, <1>8, <2>1, <2>2 DEF IInv, PendingIsArmed, Room, Types
  <2>5. BytesAddUp'
    BY <1>1, <2>1, <2>2 DEF IInv, BytesAddUp
  <2> QED
    BY <1>1, <2>1, <2>3, <2>4, <2>5 DEF IInv, ClosedIsQuiet, HalfCloseDrains
<1> QED
  BY <1>6, <1>7, <1>8

\* A peer that reads from a full buffer makes room, and that is an event.
LEMMA PeerReadsStep ==
  ASSUME IInv, PeerReads
  PROVE  IInv'
<1>1. Types'
  BY DEF IInv, Types, PeerReads, Room
<1>2. PendingIsArmed'
  BY DEF IInv, Types, PendingIsArmed, ClosedIsQuiet, PeerReads, Room
<1>3. BytesAddUp' /\ HalfCloseDrains' /\ ClosedIsQuiet'
  BY DEF IInv, Types, BytesAddUp, HalfCloseDrains, ClosedIsQuiet, PeerReads
<1> QED
  BY <1>1, <1>2, <1>3 DEF IInv

\* The other steps.
LEMMA OtherStep ==
  ASSUME IInv, PeerCloses \/ Fail
  PROVE  IInv'
<1>1. CASE PeerCloses
  BY <1>1 DEF IInv, Types, ClosedIsQuiet, PendingIsArmed, BytesAddUp, HalfCloseDrains,
              PeerCloses, Room
<1>2. CASE Fail
  <2>1. /\ conn' = "failed" /\ pending' = 0 /\ ready' = FALSE /\ interest' = FALSE
        /\ UNCHANGED <<buffered, peer, appended, arrived>>
    BY <1>2 DEF Fail, Closed
  <2>2. Types'
    BY <2>1 DEF IInv, Types
  <2> QED
    BY <2>1, <2>2 DEF IInv, ClosedIsQuiet, PendingIsArmed, BytesAddUp, HalfCloseDrains
<1> QED
  BY <1>1, <1>2

\* The invariant is inductive.
THEOREM SendPathInvariant ==
  ASSUME SendAssumption
  PROVE  Spec => []IInv
<1>1. IInv /\ [Next]_vars => IInv'
  <2> SUFFICES ASSUME IInv, [Next]_vars PROVE IInv'
    OBVIOUS
  <2>1. CASE \E n \in Sizes : AppendPendingSend(n)
    BY <2>1, AppendStep
  <2>2. CASE HandleEvent
    BY <2>2, HandleStep
  <2>3. CASE PeerReads
    BY <2>3, PeerReadsStep
  <2>4. CASE PeerCloses \/ Fail
    BY <2>4, OtherStep
  <2>5. CASE UNCHANGED vars
    BY <2>5 DEF vars, IInv, Types, ClosedIsQuiet, PendingIsArmed, BytesAddUp,
                HalfCloseDrains, Room
  <2> QED
    BY <2>1, <2>2, <2>3, <2>4, <2>5 DEF Next
<1>2. Init => IInv
  BY InitHolds
<1> QED
  BY <1>1, <1>2, PTL DEF Spec

\* Pending output always has an event to come, whatever the sizes: onWritable
\* stops only before a full buffer, and appending always modifies the
\* registration.
THEOREM NoLostEdge ==
  ASSUME SendAssumption
  PROVE  Spec => []PendingIsArmed
<1>1. IInv => PendingIsArmed
  BY DEF IInv
<1> QED
  BY <1>1, SendPathInvariant, PTL

\* consumePendingSend and the buffer lose and repeat no byte.
THEOREM NoByteLost ==
  ASSUME SendAssumption
  PROVE  Spec => []BytesAddUp
<1>1. IInv => BytesAddUp
  BY DEF IInv
<1> QED
  BY <1>1, SendPathInvariant, PTL

\* A connection ended by a half-close has sent all its output.
THEOREM HalfCloseSendsAll ==
  ASSUME SendAssumption
  PROVE  Spec => []HalfCloseDrains
<1>1. IInv => HalfCloseDrains
  BY DEF IInv
<1> QED
  BY <1>1, SendPathInvariant, PTL

\* The output path is safe as a whole: pending bytes have an event to come, none
\* is lost, and a half-close ends the connection only after the last one.
THEOREM OutputSafety ==
  ASSUME SendAssumption
  PROVE  Spec => []OutputIsSafe
<1>1. PendingIsArmed /\ BytesAddUp /\ HalfCloseDrains => OutputIsSafe
  BY DEF OutputIsSafe
<1> QED
  BY <1>1, NoLostEdge, NoByteLost, HalfCloseSendsAll, PTL
=============================================================================
