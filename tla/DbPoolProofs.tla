---------------------------- MODULE DbPoolProofs ----------------------------
(***************************************************************************)
(* Proofs that the connection pool keeps its count, its capacity and its   *)
(* wakeups, for every set of threads and every configuration.              *)
(***************************************************************************)
EXTENDS DbPool, FiniteSetTheorems, TLAPS

\* How much a thread at location l adds to the two counts of the invariants.
HolderWeight(l) == IF l \in {"checking", "creating", "using"} THEN 1 ELSE 0
WokenWeight(l) == IF l = "woken" THEN 1 ELSE 0

\* The inductive invariant: before init() nothing is counted and nobody is inside the
\* pool, and the three safety invariants support each other.
PoolInv ==
  /\ TypeOK
  /\ ~initialized => idle = 0 /\ total = 0 /\ \A t \in Threads : pc[t] = "out"
  /\ SlotAccounting
  /\ CapacityRespected
  /\ NoLostWakeup

-----------------------------------------------------------------------------
(* The counts *)

\* The threads are finitely many, so both counts are natural numbers.
LEMMA CountsAreNat ==
  ASSUME NEW p
  PROVE  /\ IsFiniteSet(Holders(p)) /\ Cardinality(Holders(p)) \in Nat
         /\ IsFiniteSet(Woken(p)) /\ Cardinality(Woken(p)) \in Nat
<1>1. Holders(p) \in SUBSET Threads /\ Woken(p) \in SUBSET Threads
  BY DEF Holders, Woken
<1>2. IsFiniteSet(Holders(p)) /\ IsFiniteSet(Woken(p))
  BY <1>1, FS_Subset, ThreadsAssumption
<1> QED
  BY <1>2, FS_CardinalityType

\* One element more, one element less.
LEMMA AddOne ==
  ASSUME NEW S, IsFiniteSet(S), NEW x, x \notin S, NEW T, T = S \cup {x}
  PROVE  Cardinality(T) = Cardinality(S) + 1
BY FS_AddElement, Zenon

LEMMA RemoveOne ==
  ASSUME NEW S, IsFiniteSet(S), NEW x, x \in S, NEW T, T = S \ {x}
  PROVE  Cardinality(T) = Cardinality(S) - 1
BY FS_RemoveElement, Zenon

\* A thread that moves from one location to another changes each count by the
\* difference of the weights, and only a move to "waiting" adds a waiter.
LEMMA MoveCounts ==
  ASSUME NEW p \in [Threads -> Location], NEW t \in Threads, NEW l \in Location,
         NEW q, q = [p EXCEPT ![t] = l]
  PROVE  /\ q \in [Threads -> Location]
         /\ Cardinality(Holders(q)) =
              Cardinality(Holders(p)) - HolderWeight(p[t]) + HolderWeight(l)
         /\ Cardinality(Woken(q)) =
              Cardinality(Woken(p)) - WokenWeight(p[t]) + WokenWeight(l)
         /\ l # "waiting" => Waiting(q) \subseteq Waiting(p)
<1>1. q \in [Threads -> Location]
  OBVIOUS
<1>2. l # "waiting" => Waiting(q) \subseteq Waiting(p)
  BY DEF Waiting
<1>3. Cardinality(Holders(q)) = Cardinality(Holders(p)) - HolderWeight(p[t]) + HolderWeight(l)
  <2>1. IsFiniteSet(Holders(p)) /\ Cardinality(Holders(p)) \in Nat
    BY CountsAreNat
  <2>2. CASE HolderWeight(p[t]) = HolderWeight(l)
    <3>1. Holders(q) = Holders(p)
      BY <2>2 DEF Holders, HolderWeight
    <3> QED
      BY <2>1, <2>2, <3>1 DEF HolderWeight
  <2>3. CASE HolderWeight(p[t]) = 0 /\ HolderWeight(l) = 1
    <3>1. Holders(q) = Holders(p) \cup {t} /\ t \notin Holders(p)
      BY <2>3 DEF Holders, HolderWeight
    <3>2. Cardinality(Holders(q)) = Cardinality(Holders(p)) + 1
      BY <2>1, <3>1, AddOne
    <3> QED
      BY <2>1, <2>3, <3>2
  <2>4. CASE HolderWeight(p[t]) = 1 /\ HolderWeight(l) = 0
    <3>1. Holders(q) = Holders(p) \ {t} /\ t \in Holders(p)
      BY <2>4 DEF Holders, HolderWeight
    <3>2. Cardinality(Holders(q)) = Cardinality(Holders(p)) - 1
      BY <2>1, <3>1, RemoveOne
    <3> QED
      BY <2>1, <2>4, <3>2
  <2> QED
    BY <2>2, <2>3, <2>4 DEF HolderWeight
<1>4. Cardinality(Woken(q)) = Cardinality(Woken(p)) - WokenWeight(p[t]) + WokenWeight(l)
  <2>1. IsFiniteSet(Woken(p)) /\ Cardinality(Woken(p)) \in Nat
    BY CountsAreNat
  <2>2. CASE WokenWeight(p[t]) = WokenWeight(l)
    <3>1. Woken(q) = Woken(p)
      BY <2>2 DEF Woken, WokenWeight
    <3> QED
      BY <2>1, <2>2, <3>1 DEF WokenWeight
  <2>3. CASE WokenWeight(p[t]) = 0 /\ WokenWeight(l) = 1
    <3>1. Woken(q) = Woken(p) \cup {t} /\ t \notin Woken(p)
      BY <2>3 DEF Woken, WokenWeight
    <3>2. Cardinality(Woken(q)) = Cardinality(Woken(p)) + 1
      BY <2>1, <3>1, AddOne
    <3> QED
      BY <2>1, <2>3, <3>2
  <2>4. CASE WokenWeight(p[t]) = 1 /\ WokenWeight(l) = 0
    <3>1. Woken(q) = Woken(p) \ {t} /\ t \in Woken(p)
      BY <2>4 DEF Woken, WokenWeight
    <3>2. Cardinality(Woken(q)) = Cardinality(Woken(p)) - 1
      BY <2>1, <3>1, RemoveOne
    <3> QED
      BY <2>1, <2>4, <3>2
  <2> QED
    BY <2>2, <2>3, <2>4 DEF WokenWeight
<1> QED
  BY <1>1, <1>2, <1>3, <1>4

\* notify_one() adds one woken thread if anybody waits, and touches nobody else.
LEMMA NotifyOneCounts ==
  ASSUME NEW q \in [Threads -> Location], NEW p \in NotifyOne(q)
  PROVE  /\ p \in [Threads -> Location]
         /\ Cardinality(Holders(p)) = Cardinality(Holders(q))
         /\ Waiting(p) \subseteq Waiting(q)
         /\ \/ Waiting(q) = {} /\ p = q
            \/ Cardinality(Woken(p)) = Cardinality(Woken(q)) + 1
         /\ \A t \in Threads : q[t] # "waiting" => p[t] = q[t]
<1>1. CASE Waiting(q) = {}
  BY <1>1 DEF NotifyOne
<1>2. CASE Waiting(q) # {}
  <2>1. PICK w \in Waiting(q) : p = [q EXCEPT ![w] = "woken"]
    BY <1>2 DEF NotifyOne
  <2>2. w \in Threads /\ q[w] = "waiting" /\ "woken" \in Location
    BY DEF Waiting, Location
  <2>3. /\ p \in [Threads -> Location]
        /\ Cardinality(Holders(p)) =
             Cardinality(Holders(q)) - HolderWeight(q[w]) + HolderWeight("woken")
        /\ Cardinality(Woken(p)) =
             Cardinality(Woken(q)) - WokenWeight(q[w]) + WokenWeight("woken")
        /\ "woken" # "waiting" => Waiting(p) \subseteq Waiting(q)
    BY <2>1, <2>2, MoveCounts, ZenonT(60)
  <2>4. \A t \in Threads : q[t] # "waiting" => p[t] = q[t]
    BY <2>1, <2>2
  <2> QED
    BY <2>2, <2>3, <2>4, CountsAreNat DEF HolderWeight, WokenWeight
<1> QED
  BY <1>1, <1>2

\* notify_all() leaves nobody waiting and the holders alone.
LEMMA NotifyAllCounts ==
  ASSUME NEW q \in [Threads -> Location]
  PROVE  /\ NotifyAll(q) \in [Threads -> Location]
         /\ Holders(NotifyAll(q)) = Holders(q)
         /\ Waiting(NotifyAll(q)) = {}
BY DEF NotifyAll, Holders, Waiting, Location

-----------------------------------------------------------------------------
(* The loop of borrow() *)

\* One pass of the loop keeps the counts, whatever its critical section did before:
\* n counts the idle connections and the holders other than t, who gave up its own.
LEMMA BorrowLoopCounts ==
  ASSUME TypeOK, NEW t \in Threads, NEW n \in Nat, NEW p \in [Threads -> Location],
         n = idle + Cardinality(Holders(p)) - HolderWeight(p[t]),
         n <= MaxConnections,
         Waiting(p) # {} => /\ initialized /\ ~stopping
                            /\ idle + (MaxConnections - n) <= Cardinality(Woken(p)),
         p[t] = "woken" => CanProceed /\ n = total,
         BorrowLoop(t, n, p), UNCHANGED <<initialized, stopping>>
  PROVE  /\ idle' \in Nat /\ total' \in Nat /\ pc' \in [Threads -> Location]
         /\ SlotAccounting' /\ CapacityRespected' /\ NoLostWakeup'
<1> USE ConfigAssumption
<1>1. Cardinality(Holders(p)) \in Nat /\ Cardinality(Woken(p)) \in Nat
  BY CountsAreNat
<1>2. idle \in Nat /\ total \in Nat
  BY DEF TypeOK
<1>4. HolderWeight(p[t]) \in {0, 1} /\ WokenWeight(p[t]) \in {0, 1}
      /\ (WokenWeight(p[t]) = 1 => p[t] = "woken")
  BY DEF HolderWeight, WokenWeight
<1>5. CASE ~initialized \/ stopping
  <2>1. pc' = [p EXCEPT ![t] = "out"] /\ total' = n /\ idle' = idle
    BY <1>5 DEF BorrowLoop
  <2>2. "out" \in Location /\ HolderWeight("out") = 0 /\ "out" # "waiting"
    BY DEF Location, HolderWeight
  <2>3. /\ pc' \in [Threads -> Location]
        /\ Cardinality(Holders(pc')) =
             Cardinality(Holders(p)) - HolderWeight(p[t]) + HolderWeight("out")
        /\ Cardinality(Woken(pc')) =
             Cardinality(Woken(p)) - WokenWeight(p[t]) + WokenWeight("out")
        /\ "out" # "waiting" => Waiting(pc') \subseteq Waiting(p)
    BY <2>1, <2>2, MoveCounts, ZenonT(60)
  <2>4. Waiting(pc') = {}
    BY <1>5, <2>2, <2>3
  <2>5. SlotAccounting' /\ CapacityRespected'
    BY <1>1, <1>2, <1>4, <2>1, <2>2, <2>3 DEF SlotAccounting, CapacityRespected
  <2> QED
    BY <1>2, <2>1, <2>3, <2>4, <2>5 DEF NoLostWakeup
<1>6. CASE initialized /\ ~stopping /\ idle > 0
  <2>1. pc' = [p EXCEPT ![t] = "checking"] /\ total' = n /\ idle' = idle - 1
    BY <1>6, <1>2 DEF BorrowLoop
  <2>2. "checking" \in Location /\ HolderWeight("checking") = 1
        /\ WokenWeight("checking") = 0 /\ "checking" # "waiting"
    BY DEF Location, HolderWeight, WokenWeight
  <2>3. /\ pc' \in [Threads -> Location]
        /\ Cardinality(Holders(pc')) =
             Cardinality(Holders(p)) - HolderWeight(p[t]) + HolderWeight("checking")
        /\ Cardinality(Woken(pc')) =
             Cardinality(Woken(p)) - WokenWeight(p[t]) + WokenWeight("checking")
        /\ "checking" # "waiting" => Waiting(pc') \subseteq Waiting(p)
    BY <2>1, <2>2, MoveCounts, ZenonT(60)
  <2>4. total' \in Nat /\ idle' \in Nat
    BY <1>1, <1>2, <1>6, <2>1
  <2>5. SlotAccounting' /\ CapacityRespected'
    BY <1>1, <1>2, <1>4, <1>6, <2>1, <2>2, <2>3 DEF SlotAccounting, CapacityRespected
  <2>6. ASSUME Waiting(pc') # {}
        PROVE  ~stopping' /\ idle' + (MaxConnections - total') <= Cardinality(Woken(pc'))
    <3>1. Waiting(p) # {}
      BY <2>2, <2>3, <2>6
    <3>2. idle + (MaxConnections - n) <= Cardinality(Woken(p)) /\ ~stopping
      BY <3>1
    <3> QED
      BY <1>1, <1>2, <1>4, <2>1, <2>2, <2>3, <3>2
  <2> QED
    BY <2>3, <2>4, <2>5, <2>6 DEF NoLostWakeup
<1>7. CASE initialized /\ ~stopping /\ idle = 0 /\ n < MaxConnections
  <2>1. pc' = [p EXCEPT ![t] = "creating"] /\ total' = n + 1 /\ idle' = idle
    BY <1>7 DEF BorrowLoop
  <2>2. "creating" \in Location /\ HolderWeight("creating") = 1
        /\ WokenWeight("creating") = 0 /\ "creating" # "waiting"
    BY DEF Location, HolderWeight, WokenWeight
  <2>3. /\ pc' \in [Threads -> Location]
        /\ Cardinality(Holders(pc')) =
             Cardinality(Holders(p)) - HolderWeight(p[t]) + HolderWeight("creating")
        /\ Cardinality(Woken(pc')) =
             Cardinality(Woken(p)) - WokenWeight(p[t]) + WokenWeight("creating")
        /\ "creating" # "waiting" => Waiting(pc') \subseteq Waiting(p)
    BY <2>1, <2>2, MoveCounts, ZenonT(60)
  <2>4. total' \in Nat /\ idle' \in Nat
    BY <1>1, <1>2, <1>7, <2>1
  <2>5. SlotAccounting' /\ CapacityRespected'
    BY <1>1, <1>2, <1>4, <1>7, <2>1, <2>2, <2>3 DEF SlotAccounting, CapacityRespected
  <2>6. ASSUME Waiting(pc') # {}
        PROVE  ~stopping' /\ idle' + (MaxConnections - total') <= Cardinality(Woken(pc'))
    <3>1. Waiting(p) # {}
      BY <2>2, <2>3, <2>6
    <3>2. idle + (MaxConnections - n) <= Cardinality(Woken(p)) /\ ~stopping
      BY <3>1
    <3> QED
      BY <1>1, <1>2, <1>4, <2>1, <2>2, <2>3, <3>2
  <2> QED
    BY <2>3, <2>4, <2>5, <2>6 DEF NoLostWakeup
<1>8. CASE initialized /\ ~stopping /\ idle = 0 /\ n >= MaxConnections
  <2>1. pc' = [p EXCEPT ![t] = "waiting"] /\ total' = n /\ idle' = idle
    BY <1>8 DEF BorrowLoop
  <2>2. "waiting" \in Location /\ HolderWeight("waiting") = 0
    BY DEF Location, HolderWeight
  <2>3. /\ pc' \in [Threads -> Location]
        /\ Cardinality(Holders(pc')) =
             Cardinality(Holders(p)) - HolderWeight(p[t]) + HolderWeight("waiting")
        /\ Cardinality(Woken(pc')) =
             Cardinality(Woken(p)) - WokenWeight(p[t]) + WokenWeight("waiting")
        /\ "waiting" # "waiting" => Waiting(pc') \subseteq Waiting(p)
    BY <2>1, <2>2, MoveCounts, ZenonT(60)
  <2>4. Cardinality(Woken(pc')) \in Nat
    BY CountsAreNat
  <2>5. SlotAccounting' /\ CapacityRespected'
    BY <1>1, <1>2, <1>4, <1>8, <2>1, <2>2, <2>3 DEF SlotAccounting, CapacityRespected
  <2>6. NoLostWakeup'
    BY <1>1, <1>2, <1>8, <2>1, <2>4 DEF NoLostWakeup
  <2> QED
    BY <1>2, <2>1, <2>3, <2>5, <2>6
<1> QED
  BY <1>2, <1>5, <1>6, <1>7, <1>8

-----------------------------------------------------------------------------
(* The other steps *)

\* A holder that leaves and wakes one waiter either takes its place with it or hands
\* its connection to the idle queue; both keep the counts.
LEMMA LeaveCounts ==
  ASSUME PoolInv, NEW t \in Threads, HolderWeight(pc[t]) = 1,
         NEW l \in {"out", "pingfailed"},
         pc' \in NotifyOne([pc EXCEPT ![t] = l]),
         \/ total' = total - 1 /\ idle' = idle
         \/ total' = total /\ idle' = idle + 1,
         UNCHANGED <<initialized, stopping>>
  PROVE  /\ idle' \in Nat /\ total' \in Nat /\ pc' \in [Threads -> Location]
         /\ SlotAccounting' /\ CapacityRespected' /\ NoLostWakeup'
<1> USE ConfigAssumption
<1> DEFINE q == [pc EXCEPT ![t] = l]
<1>1. /\ Cardinality(Holders(pc)) \in Nat /\ Cardinality(Woken(pc)) \in Nat
      /\ Cardinality(Woken(pc')) \in Nat
  BY CountsAreNat
<1>2. /\ idle \in Nat /\ total \in Nat /\ pc \in [Threads -> Location]
      /\ SlotAccounting /\ CapacityRespected /\ NoLostWakeup
  BY DEF TypeOK, PoolInv
<1>3. /\ l \in Location /\ l # "waiting" /\ HolderWeight(l) = 0 /\ WokenWeight(l) = 0
      /\ WokenWeight(pc[t]) = 0
  BY DEF Location, HolderWeight, WokenWeight
<1>4. /\ q \in [Threads -> Location]
      /\ Cardinality(Holders(q)) =
           Cardinality(Holders(pc)) - HolderWeight(pc[t]) + HolderWeight(l)
      /\ Cardinality(Woken(q)) =
           Cardinality(Woken(pc)) - WokenWeight(pc[t]) + WokenWeight(l)
      /\ l # "waiting" => Waiting(q) \subseteq Waiting(pc)
  BY <1>2, <1>3, MoveCounts, ZenonT(60)
<1> HIDE DEF q
<1>5. pc' \in NotifyOne(q)
  BY DEF q
<1>6. /\ pc' \in [Threads -> Location]
      /\ Cardinality(Holders(pc')) = Cardinality(Holders(q))
      /\ Waiting(pc') \subseteq Waiting(q)
      /\ \/ Waiting(q) = {} /\ pc' = q
         \/ Cardinality(Woken(pc')) = Cardinality(Woken(q)) + 1
  BY <1>4, <1>5, NotifyOneCounts, Zenon
<1>7. idle' \in Nat /\ total' \in Nat /\ SlotAccounting' /\ CapacityRespected'
  <2>1. Cardinality(Holders(pc')) = Cardinality(Holders(pc)) - 1
    BY <1>1, <1>3, <1>4, <1>6
  <2>2. total = idle + Cardinality(Holders(pc)) /\ total <= MaxConnections
    BY <1>2 DEF SlotAccounting, CapacityRespected
  <2>3. Cardinality(Holders(pc')) \in Nat
    BY CountsAreNat
  <2>4. /\ idle' \in Nat /\ total' \in Nat
        /\ total' = idle' + Cardinality(Holders(pc')) /\ total' <= MaxConnections
    BY <1>1, <1>2, <2>1, <2>2, <2>3
  <2> QED
    BY <2>4 DEF SlotAccounting, CapacityRespected
<1>8. ASSUME Waiting(pc') # {}
      PROVE  ~stopping' /\ idle' + (MaxConnections - total') <= Cardinality(Woken(pc'))
  <2>1. Waiting(pc) # {} /\ Waiting(q) # {}
    BY <1>3, <1>4, <1>6, <1>8
  <2>2. ~stopping /\ idle + (MaxConnections - total) <= Cardinality(Woken(pc))
    BY <1>2, <2>1 DEF NoLostWakeup
  <2>3. Cardinality(Woken(pc')) = Cardinality(Woken(pc)) + 1
    BY <1>1, <1>3, <1>4, <1>6, <2>1
  <2> QED
    BY <1>1, <1>2, <2>2, <2>3
<1> QED
  BY <1>6, <1>7, <1>8 DEF NoLostWakeup

\* A holder that finds the pool stopping leaves nobody waiting.
LEMMA AbandonCounts ==
  ASSUME PoolInv, NEW t \in Threads, HolderWeight(pc[t]) = 1,
         AbandonStopping(t), UNCHANGED <<initialized, stopping>>
  PROVE  /\ idle' \in Nat /\ total' \in Nat /\ pc' \in [Threads -> Location]
         /\ SlotAccounting' /\ CapacityRespected' /\ NoLostWakeup'
<1> USE ConfigAssumption
<1> DEFINE q == [pc EXCEPT ![t] = "out"]
<1>1. Cardinality(Holders(pc)) \in Nat
  BY CountsAreNat
<1>2. /\ idle \in Nat /\ total \in Nat /\ pc \in [Threads -> Location]
      /\ SlotAccounting /\ CapacityRespected
  BY DEF TypeOK, PoolInv
<1>3. "out" \in Location /\ HolderWeight("out") = 0
  BY DEF Location, HolderWeight
<1>4. /\ q \in [Threads -> Location]
      /\ Cardinality(Holders(q)) =
           Cardinality(Holders(pc)) - HolderWeight(pc[t]) + HolderWeight("out")
  BY <1>2, <1>3, MoveCounts, ZenonT(60)
<1>5. total' = total - 1 /\ idle' = idle /\ pc' = NotifyAll(q)
  BY DEF AbandonStopping
<1> HIDE DEF q
<1>6. pc' \in [Threads -> Location] /\ Holders(pc') = Holders(q) /\ Waiting(pc') = {}
  BY <1>4, <1>5, NotifyAllCounts, Zenon
<1>7. Cardinality(Holders(pc')) = Cardinality(Holders(pc)) - 1
  BY <1>1, <1>3, <1>4, <1>6
<1>8. total = idle + Cardinality(Holders(pc)) /\ total <= MaxConnections
  BY <1>2 DEF SlotAccounting, CapacityRespected
<1>9. Cardinality(Holders(pc')) \in Nat
  BY CountsAreNat
<1>10. /\ idle' \in Nat /\ total' \in Nat
       /\ total' = idle' + Cardinality(Holders(pc')) /\ total' <= MaxConnections
  BY <1>1, <1>2, <1>5, <1>7, <1>8, <1>9
<1> QED
  BY <1>6, <1>10 DEF SlotAccounting, CapacityRespected, NoLostWakeup

\* A waiter that finds nothing goes back to sleep or gives up: nothing was free.
LEMMA WaitCounts ==
  ASSUME PoolInv, NEW t \in Threads, pc[t] \in {"waiting", "woken"}, ~CanProceed,
         NEW l \in {"waiting", "out"}, pc' = [pc EXCEPT ![t] = l],
         UNCHANGED <<idle, total, initialized, stopping>>
  PROVE  /\ idle' \in Nat /\ total' \in Nat /\ pc' \in [Threads -> Location]
         /\ SlotAccounting' /\ CapacityRespected' /\ NoLostWakeup'
<1>1. /\ idle \in Nat /\ total \in Nat /\ pc \in [Threads -> Location]
      /\ total = idle + Cardinality(Holders(pc)) /\ total <= MaxConnections
  BY DEF PoolInv, TypeOK, SlotAccounting, CapacityRespected
<1>2. /\ HolderWeight(pc[t]) = 0 /\ HolderWeight(l) = 0 /\ l \in Location
      /\ idle = 0 /\ total = MaxConnections /\ ~stopping
  BY <1>1, ConfigAssumption DEF HolderWeight, Location, CanProceed
<1>3. /\ pc' \in [Threads -> Location]
      /\ Cardinality(Holders(pc')) =
           Cardinality(Holders(pc)) - HolderWeight(pc[t]) + HolderWeight(l)
  BY <1>1, <1>2, MoveCounts, ZenonT(60)
<1>4. /\ Cardinality(Holders(pc)) \in Nat /\ Cardinality(Woken(pc')) \in Nat
  BY CountsAreNat
<1>5. SlotAccounting' /\ CapacityRespected'
  BY <1>1, <1>2, <1>3, <1>4 DEF SlotAccounting, CapacityRespected
<1>6. NoLostWakeup'
  BY <1>2, <1>4, ConfigAssumption DEF NoLostWakeup
<1> QED
  BY <1>1, <1>3, <1>5, <1>6

\* A holder that becomes the user of its connection changes no count.
LEMMA AcquireCounts ==
  ASSUME PoolInv, NEW t \in Threads, HolderWeight(pc[t]) = 1,
         pc' = [pc EXCEPT ![t] = "using"],
         UNCHANGED <<idle, total, initialized, stopping>>
  PROVE  /\ idle' \in Nat /\ total' \in Nat /\ pc' \in [Threads -> Location]
         /\ SlotAccounting' /\ CapacityRespected' /\ NoLostWakeup'
<1>1. /\ idle \in Nat /\ total \in Nat /\ pc \in [Threads -> Location]
      /\ total = idle + Cardinality(Holders(pc)) /\ total <= MaxConnections
  BY DEF PoolInv, TypeOK, SlotAccounting, CapacityRespected
<1>2. /\ HolderWeight("using") = 1 /\ WokenWeight(pc[t]) = 0
      /\ WokenWeight("using") = 0 /\ "using" \in Location
  BY DEF HolderWeight, WokenWeight, Location
<1>3. /\ pc' \in [Threads -> Location]
      /\ Cardinality(Holders(pc')) = Cardinality(Holders(pc))
      /\ Cardinality(Woken(pc')) = Cardinality(Woken(pc))
  <2>1. pc' \in [Threads -> Location] /\ Holders(pc') = Holders(pc)
    BY <1>1, <1>2 DEF Holders, HolderWeight
  <2>2. Woken(pc') = Woken(pc)
    BY <1>1, <1>2 DEF Woken, WokenWeight
  <2> QED
    BY <2>1, <2>2
<1>4. /\ Cardinality(Holders(pc)) \in Nat /\ Cardinality(Woken(pc)) \in Nat
  BY CountsAreNat
<1>5. SlotAccounting' /\ CapacityRespected'
  BY <1>1, <1>2, <1>3, <1>4 DEF SlotAccounting, CapacityRespected
<1>6. ASSUME Waiting(pc') # {}
      PROVE  ~stopping' /\ idle' + (MaxConnections - total') <= Cardinality(Woken(pc'))
  <2>1. Waiting(pc) # {}
    BY <1>1, <1>6 DEF Waiting
  <2>2. ~stopping /\ idle + (MaxConnections - total) <= Cardinality(Woken(pc))
    BY <2>1 DEF PoolInv, NoLostWakeup
  <2>3. Cardinality(Woken(pc')) = Cardinality(Woken(pc))
    BY <1>2, <1>3, <1>4
  <2> QED
    BY <2>2, <2>3
<1> QED
  BY <1>1, <1>3, <1>5, <1>6 DEF NoLostWakeup

-----------------------------------------------------------------------------
(* The invariant *)

\* Every step of the pool preserves the inductive invariant.
LEMMA NextKeepsPoolInv == PoolInv /\ [Next]_vars => PoolInv'
<1> SUFFICES ASSUME PoolInv, [Next]_vars PROVE PoolInv'
  OBVIOUS
<1> USE ConfigAssumption, FaultsAssumption
<1> DEFINE Counts == /\ idle' \in Nat /\ total' \in Nat /\ pc' \in [Threads -> Location]
                     /\ SlotAccounting' /\ CapacityRespected' /\ NoLostWakeup'
<1>1. /\ TypeOK /\ SlotAccounting /\ CapacityRespected /\ NoLostWakeup
      /\ Cardinality(Holders(pc)) \in Nat /\ Cardinality(Woken(pc)) \in Nat
  BY CountsAreNat DEF PoolInv
<1>2. CASE UNCHANGED vars
  BY <1>1, <1>2 DEF vars, PoolInv, TypeOK, SlotAccounting, CapacityRespected, NoLostWakeup
<1>3. CASE InitPool
  <2>1. idle = 0 /\ total = 0
    BY <1>3 DEF InitPool, PoolInv
  <2> QED
    BY <1>1, <1>3, <2>1
    DEF InitPool, PoolInv, TypeOK, SlotAccounting, CapacityRespected, NoLostWakeup
<1>4. CASE Stop
  <2>1. /\ NotifyAll(pc) \in [Threads -> Location]
        /\ Holders(NotifyAll(pc)) = Holders(pc) /\ Waiting(NotifyAll(pc)) = {}
    BY <1>1, NotifyAllCounts DEF TypeOK
  <2>2. ~initialized => \A t \in Threads : pc'[t] = "out"
    BY <1>4 DEF Stop, PoolInv, NotifyAll
  <2> QED
    BY <1>1, <1>4, <2>1, <2>2
    DEF Stop, PoolInv, TypeOK, SlotAccounting, CapacityRespected, NoLostWakeup
<1>5. ASSUME NEW t \in Threads, Borrow(t) \/ Progress(t) \/ WaitTimeout(t)
      PROVE  PoolInv'
  <2>1. UNCHANGED <<initialized, stopping>> /\ faults' \in 0 .. MaxFaults
    BY <1>1, <1>5
    DEF TypeOK, Borrow, Progress, WaitTimeout, CheckExpired, CheckHealthy, CheckFailed,
        RetryAfterPing, WaitWoken, CreateDone, ReturnConnection
  <2>2. /\ idle \in Nat /\ total \in Nat /\ pc \in [Threads -> Location]
        /\ total = idle + Cardinality(Holders(pc)) /\ total <= MaxConnections
        /\ Waiting(pc) # {} => /\ initialized /\ ~stopping
                               /\ idle + (MaxConnections - total) <= Cardinality(Woken(pc))
    BY <1>1 DEF PoolInv, TypeOK, SlotAccounting, CapacityRespected, NoLostWakeup, Waiting
  <2>3. ~initialized => idle' = 0 /\ total' = 0 /\ \A u \in Threads : pc'[u] = "out"
    <3> SUFFICES ASSUME ~initialized
                 PROVE  idle' = 0 /\ total' = 0 /\ \A u \in Threads : pc'[u] = "out"
      OBVIOUS
    <3>1. idle = 0 /\ total = 0 /\ \A u \in Threads : pc[u] = "out"
      BY DEF PoolInv
    <3>2. Borrow(t)
      BY <1>5, <3>1
      DEF Progress, WaitTimeout, CheckExpired, CheckHealthy, CheckFailed,
          RetryAfterPing, WaitWoken, CreateDone, ReturnConnection
    <3>3. pc' = [pc EXCEPT ![t] = "out"] /\ total' = total /\ idle' = idle
      BY <3>2 DEF Borrow, BorrowLoop
    <3> QED
      BY <2>2, <3>1, <3>3
  <2> SUFFICES Counts
    BY <1>1, <2>1, <2>3 DEF PoolInv, TypeOK
  <2>4. ASSUME pc[t] \in {"out", "pingfailed", "waiting", "woken"},
               BorrowLoop(t, total, pc), pc[t] = "woken" => CanProceed
        PROVE  Counts
    <3>1. HolderWeight(pc[t]) = 0
      BY <2>4 DEF HolderWeight
    <3>2. total = idle + Cardinality(Holders(pc)) - HolderWeight(pc[t])
      BY <1>1, <2>2, <3>1
    <3> QED
      BY <1>1, <2>1, <2>2, <2>4, <3>2, BorrowLoopCounts
  <2>5. CASE Borrow(t) \/ RetryAfterPing(t)
    BY <2>4, <2>5 DEF Borrow, RetryAfterPing
  <2>6. CASE WaitWoken(t) \/ WaitTimeout(t)
    BY <2>1, <2>4, <2>6, WaitCounts DEF WaitWoken, WaitTimeout
  <2>7. CASE CheckExpired(t)
    <3>1. PICK p \in NotifyOne(pc) : BorrowLoop(t, total - 1, p)
      BY <2>7 DEF CheckExpired
    <3>2. /\ p \in [Threads -> Location]
          /\ Cardinality(Holders(p)) = Cardinality(Holders(pc))
          /\ Waiting(p) \subseteq Waiting(pc)
          /\ \/ Waiting(pc) = {} /\ p = pc
             \/ Cardinality(Woken(p)) = Cardinality(Woken(pc)) + 1
          /\ \A u \in Threads : pc[u] # "waiting" => p[u] = pc[u]
      BY <2>2, <3>1, NotifyOneCounts, Zenon
    <3>3. pc[t] = "checking" /\ p[t] = "checking" /\ HolderWeight(p[t]) = 1
      BY <2>7, <3>2 DEF CheckExpired, HolderWeight
    <3>4. t \in Holders(pc) /\ IsFiniteSet(Holders(pc))
      BY <3>3, CountsAreNat DEF Holders
    <3>5. Cardinality(Holders(pc)) # 0
      BY <3>4, FS_EmptySet
    <3>6. /\ total - 1 \in Nat /\ total - 1 <= MaxConnections
          /\ total - 1 = idle + Cardinality(Holders(p)) - HolderWeight(p[t])
      BY <1>1, <2>2, <3>2, <3>3, <3>5
    <3>7. ASSUME Waiting(p) # {}
          PROVE  /\ initialized /\ ~stopping
                 /\ idle + (MaxConnections - (total - 1)) <= Cardinality(Woken(p))
      <4>1. Waiting(pc) # {}
        BY <3>2, <3>7
      <4> QED
        BY <1>1, <2>2, <3>2, <4>1
    <3> QED
      BY <1>1, <2>1, <3>1, <3>2, <3>3, <3>6, <3>7, BorrowLoopCounts
  <2>8. CASE CheckHealthy(t)
    <3>1. HolderWeight(pc[t]) = 1 /\ pc[t] = "checking"
      BY <2>8 DEF CheckHealthy, HolderWeight
    <3>2. CASE AbandonStopping(t)
      BY <2>1, <3>1, <3>2, AbandonCounts
    <3>3. CASE pc' = [pc EXCEPT ![t] = "using"] /\ UNCHANGED <<idle, total>>
      BY <2>1, <3>1, <3>3, AcquireCounts
    <3> QED
      BY <2>8, <3>2, <3>3 DEF CheckHealthy
  <2>9. CASE CheckFailed(t)
    <3>1. HolderWeight(pc[t]) = 1
      BY <2>9 DEF CheckFailed, HolderWeight
    <3>2. CASE AbandonStopping(t)
      BY <2>1, <3>1, <3>2, AbandonCounts
    <3>3. CASE /\ total' = total - 1 /\ idle' = idle
               /\ pc' \in NotifyOne([pc EXCEPT ![t] = "pingfailed"])
      BY <2>1, <3>1, <3>3, LeaveCounts
    <3> QED
      BY <2>9, <3>2, <3>3 DEF CheckFailed
  <2>10. ASSUME NEW ok \in BOOLEAN, CreateDone(t, ok)
         PROVE  Counts
    <3>1. HolderWeight(pc[t]) = 1 /\ pc[t] = "creating"
      BY <2>10 DEF CreateDone, HolderWeight
    <3>2. CASE AbandonStopping(t)
      BY <2>1, <3>1, <3>2, AbandonCounts
    <3>3. CASE pc' = [pc EXCEPT ![t] = "using"] /\ UNCHANGED <<idle, total>>
      BY <2>1, <3>1, <3>3, AcquireCounts
    <3>4. CASE /\ total' = total - 1 /\ idle' = idle
               /\ pc' \in NotifyOne([pc EXCEPT ![t] = "out"])
      BY <2>1, <3>1, <3>4, LeaveCounts
    <3> QED
      BY <2>10, <3>2, <3>3, <3>4 DEF CreateDone
  <2>11. ASSUME NEW ok \in BOOLEAN, ReturnConnection(t, ok)
         PROVE  Counts
    <3>1. HolderWeight(pc[t]) = 1
      BY <2>11 DEF ReturnConnection, HolderWeight
    <3> QED
      BY <2>1, <2>11, <3>1, LeaveCounts DEF ReturnConnection
  <2> QED
    BY <1>5, <2>5, <2>6, <2>7, <2>8, <2>9, <2>10, <2>11 DEF Progress
<1> QED
  BY <1>2, <1>3, <1>4, <1>5 DEF Next

\* The pool starts in the invariant.
LEMMA InitPoolInv == Init => PoolInv
<1> SUFFICES ASSUME Init PROVE PoolInv
  OBVIOUS
<1>1. Holders(pc) = {} /\ Waiting(pc) = {}
  BY DEF Init, Holders, Waiting
<1>2. Cardinality(Holders(pc)) = 0
  BY <1>1, FS_EmptySet
<1>3. TypeOK
  <2>1. pc \in [Threads -> Location]
    BY DEF Init, Location
  <2>2. initialized \in BOOLEAN /\ stopping \in BOOLEAN
    BY Zenon DEF Init
  <2> QED
    BY <2>1, <2>2, FaultsAssumption DEF Init, TypeOK
<1>4. \A t \in Threads : pc[t] = "out"
  BY DEF Init
<1> QED
  BY <1>1, <1>2, <1>3, <1>4, ConfigAssumption
  DEF Init, PoolInv, SlotAccounting, CapacityRespected, NoLostWakeup

\* Types: in particular neither size_t counter of DbPool ever goes below zero.
THEOREM PoolTypeCorrect == Spec => []TypeOK
<1>1. PoolInv => TypeOK
  BY DEF PoolInv
<1> QED
  BY InitPoolInv, NextKeepsPoolInv, <1>1, PTL DEF Spec

\* total_connections_ always counts the idle connections and the threads that own,
\* check or create one, for any number of threads.
THEOREM PoolAccounting == Spec => []SlotAccounting
<1>1. PoolInv => SlotAccounting
  BY DEF PoolInv
<1> QED
  BY InitPoolInv, NextKeepsPoolInv, <1>1, PTL DEF Spec

\* The pool never exceeds max_connections.
THEOREM PoolCapacity == Spec => []CapacityRespected
<1>1. PoolInv => CapacityRespected
  BY DEF PoolInv
<1> QED
  BY InitPoolInv, NextKeepsPoolInv, <1>1, PTL DEF Spec

\* No thread sleeps on the condition variable while a connection or a place is free
\* that no notified thread is about to take.
THEOREM PoolWakeups == Spec => []NoLostWakeup
<1>1. PoolInv => NoLostWakeup
  BY DEF PoolInv
<1> QED
  BY InitPoolInv, NextKeepsPoolInv, <1>1, PTL DEF Spec
=============================================================================
