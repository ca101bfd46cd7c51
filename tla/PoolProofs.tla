------------------------------- MODULE PoolProofs -------------------------------
(***************************************************************************)
(* Proofs about Pool for every number of claims, slots, queue places and   *)
(* sessions.  PoolInv is inductive; the promises of the pool follow.  The  *)
(* second part shows that Pool implements SessionLife: each step of a      *)
(* claim, of the replenisher, of a teardown or of the calibration is a     *)
(* step of a session's life or leaves all lives as they are.  It needs     *)
(* PoolInv: a session is in one place, and the slots say how many are      *)
(* occupied.                                                               *)
(***************************************************************************)
EXTENDS PoolLife, FiniteSetTheorems, TLAPS

(* The claims at a set of points are a finite set: a claim's counters are   *)
(* cardinalities of such sets.                                              *)
LEMMA WhereFinite ==
    ASSUME NEW f, NEW P
    PROVE  /\ IsFiniteSet(Where(f, P))
           /\ Cardinality(Where(f, P)) \in Nat
<1>1. Where(f, P) \in SUBSET Claimers
    BY DEF Where
<1>2. IsFiniteSet(Where(f, P))
    BY <1>1, FS_Subset, PoolAssumption
<1> QED BY <1>2, FS_CardinalityType

(* Moving one claim from a point outside P into P adds one to their number, *)
(* moving it out takes one away, any other move leaves it.                  *)
LEMMA WhereMove ==
    ASSUME NEW f, NEW g, NEW P, NEW c \in Claimers,
           \A d \in Claimers : d # c => g[d] = f[d]
    PROVE  Cardinality(Where(g, P)) = Cardinality(Where(f, P))
               + (IF g[c] \in P THEN 1 ELSE 0) - (IF f[c] \in P THEN 1 ELSE 0)
<1> DEFINE S == Where(f, P)
           T == Where(g, P)
<1>0. IsFiniteSet(S) /\ Cardinality(S) \in Nat
    BY WhereFinite
<1>1. CASE g[c] \in P
    <2>1. T = S \cup {c}
        BY <1>1 DEF Where
    <2>2. c \in S <=> f[c] \in P
        BY DEF Where
    <2>3. Cardinality(T) = IF c \in S THEN Cardinality(S) ELSE Cardinality(S) + 1
        BY <1>0, <2>1, FS_AddElement
    <2> HIDE DEF S, T
    <2>4. Cardinality(T) = Cardinality(S) + 1 - (IF f[c] \in P THEN 1 ELSE 0)
        BY <1>0, <2>2, <2>3
    <2> QED BY <1>1, <2>4 DEF S, T
<1>2. CASE g[c] \notin P
    <2>1. T = S \ {c}
        BY <1>2 DEF Where
    <2>2. c \in S <=> f[c] \in P
        BY DEF Where
    <2>3. Cardinality(T) = IF c \in S THEN Cardinality(S) - 1 ELSE Cardinality(S)
        BY <1>0, <2>1, FS_RemoveElement
    <2> HIDE DEF S, T
    <2>4. Cardinality(T) = Cardinality(S) + 0 - (IF f[c] \in P THEN 1 ELSE 0)
        BY <1>0, <2>2, <2>3
    <2> QED BY <1>2, <2>4 DEF S, T
<1> QED BY <1>1, <1>2

(* Which points of a claim count as holding a slot, as waiting, and as      *)
(* accepted into the queue.                                                 *)
LEMMA PCFacts ==
    /\ {"granted", "slot", "launching", "claimed", "destroying"} \subseteq HolderPC
    /\ \A x \in {"idle", "missed", "full", "counted", "queued"} : x \notin HolderPC
    /\ {"full", "counted", "queued", "granted"} \subseteq WaiterPC
    /\ \A x \in {"idle", "missed", "slot", "launching", "claimed", "destroying"} :
          x \notin WaiterPC
    /\ {"counted", "queued", "granted"} \subseteq AcceptedPC
    /\ \A x \in {"idle", "missed", "full", "slot", "launching", "claimed", "destroying"} :
          x \notin AcceptedPC
    /\ {"idle", "missed", "full", "counted", "queued", "granted", "slot", "launching",
        "claimed", "destroying"} \subseteq ClaimPC
BY DEF HolderPC, WaiterPC, AcceptedPC, ClaimPC

(* One claim that is not in the semaphore's list moves: the list stays      *)
(* right and the three counts change by that claim alone.                   *)
LEMMA MoveLemma ==
    ASSUME TypeOK, QueueInv, NEW c \in Claimers, pc[c] # "queued",
           \A d \in Claimers : d # c => pc'[d] = pc[d],
           queue' = queue
    PROVE  /\ QueueInv'
           /\ Cardinality(Where(pc, HolderPC)) \in Nat
           /\ Cardinality(Where(pc, WaiterPC)) \in Nat
           /\ Cardinality(Where(pc, AcceptedPC)) \in Nat
           /\ Cardinality(Where(pc', HolderPC)) = Cardinality(Where(pc, HolderPC))
                + (IF pc'[c] \in HolderPC THEN 1 ELSE 0) - (IF pc[c] \in HolderPC THEN 1 ELSE 0)
           /\ Cardinality(Where(pc', WaiterPC)) = Cardinality(Where(pc, WaiterPC))
                + (IF pc'[c] \in WaiterPC THEN 1 ELSE 0) - (IF pc[c] \in WaiterPC THEN 1 ELSE 0)
           /\ Cardinality(Where(pc', AcceptedPC)) = Cardinality(Where(pc, AcceptedPC))
                + (IF pc'[c] \in AcceptedPC THEN 1 ELSE 0) - (IF pc[c] \in AcceptedPC THEN 1 ELSE 0)
<1>1. QueueInv'
    <2>1. \A k \in 1..Len(queue) : queue[k] \in Claimers
        BY DEF TypeOK
    <2> QED BY <2>1 DEF QueueInv
<1>2. Cardinality(Where(pc', HolderPC)) = Cardinality(Where(pc, HolderPC))
        + (IF pc'[c] \in HolderPC THEN 1 ELSE 0) - (IF pc[c] \in HolderPC THEN 1 ELSE 0)
    BY WhereMove, Zenon
<1>3. Cardinality(Where(pc', WaiterPC)) = Cardinality(Where(pc, WaiterPC))
        + (IF pc'[c] \in WaiterPC THEN 1 ELSE 0) - (IF pc[c] \in WaiterPC THEN 1 ELSE 0)
    BY WhereMove, Zenon
<1>4. Cardinality(Where(pc', AcceptedPC)) = Cardinality(Where(pc, AcceptedPC))
        + (IF pc'[c] \in AcceptedPC THEN 1 ELSE 0) - (IF pc[c] \in AcceptedPC THEN 1 ELSE 0)
    BY WhereMove, Zenon
<1> QED BY <1>1, <1>2, <1>3, <1>4, WhereFinite

(* What add_permits does: one slot more is free or with a waiter, the       *)
(* claims counted as waiting stay the same, and the list stays a list of    *)
(* distinct waiting claims.                                                 *)
LEMMA AddPermitLemma ==
    ASSUME permits \in Nat, queue \in Seq(Claimers),
           NEW moved \in [Claimers -> ClaimPC],
           \A k \in 1..Len(queue) : moved[queue[k]] = "queued",
           \A k, l \in 1..Len(queue) : queue[k] = queue[l] => k = l,
           AddPermit(moved)
    PROVE  /\ permits' \in Nat
           /\ queue' \in Seq(Claimers)
           /\ pc' \in [Claimers -> ClaimPC]
           /\ QueueInv'
           /\ permits' + Cardinality(Where(pc', HolderPC))
                = permits + Cardinality(Where(moved, HolderPC)) + 1
           /\ Cardinality(Where(pc', WaiterPC)) = Cardinality(Where(moved, WaiterPC))
           /\ Cardinality(Where(pc', AcceptedPC)) = Cardinality(Where(moved, AcceptedPC))
           /\ \A c \in Claimers : moved[c] # "queued" => pc'[c] = moved[c]
           /\ \A c \in Claimers : moved[c] = "queued" => pc'[c] \in {"queued", "granted"}
<1>1. CASE queue = <<>>
    BY <1>1, WhereFinite DEF AddPermit, QueueInv
<1>2. CASE queue # <<>>
    <2> DEFINE h == Head(queue)
    <2>1. /\ h \in Claimers
          /\ h = queue[1]
          /\ 1 \in 1..Len(queue)
          /\ moved[h] = "queued"
        BY <1>2
    <2>2. /\ pc' = [moved EXCEPT ![h] = "granted"]
          /\ queue' = Tail(queue)
          /\ permits' = permits
        BY <1>2 DEF AddPermit
    <2>3. pc' \in [Claimers -> ClaimPC]
        BY <2>1, <2>2 DEF ClaimPC, HolderPC, WaiterPC
    <2>4. /\ Len(queue') = Len(queue) - 1
          /\ queue' \in Seq(Claimers)
          /\ \A k \in 1..Len(queue') : queue'[k] = queue[k + 1] /\ k + 1 \in 1..Len(queue)
        BY <1>2, <2>2
    <2>5. QueueInv'
        <3>1. ASSUME NEW k \in 1..Len(queue')
              PROVE  pc'[queue'[k]] = "queued"
            <4>1. queue'[k] # h
                BY <2>1, <2>4
            <4> QED BY <4>1, <2>1, <2>2, <2>4
        <3>2. ASSUME NEW k \in 1..Len(queue'), NEW l \in 1..Len(queue'),
                     queue'[k] = queue'[l]
              PROVE  k = l
            <4>1. queue[k + 1] = queue[l + 1] /\ k + 1 \in 1..Len(queue) /\ l + 1 \in 1..Len(queue)
                BY <2>4, <3>2
            <4> QED BY <4>1
        <3> QED BY <3>1, <3>2 DEF QueueInv
    <2>6. /\ \A d \in Claimers : d # h => pc'[d] = moved[d]
          /\ pc'[h] = "granted"
        BY <2>1, <2>2
    <2>1a. h \in Claimers
        BY <2>1
    <2>6a. \A d \in Claimers : d # h => pc'[d] = moved[d]
        BY <2>6
    <2> HIDE DEF h
    <2>7. Cardinality(Where(pc', HolderPC)) = Cardinality(Where(moved, HolderPC)) + 1
        <3>1. Cardinality(Where(pc', HolderPC)) = Cardinality(Where(moved, HolderPC))
                 + (IF pc'[h] \in HolderPC THEN 1 ELSE 0) - (IF moved[h] \in HolderPC THEN 1 ELSE 0)
            BY <2>1a, <2>6a, WhereMove, Zenon
        <3> QED BY <3>1, <2>1, <2>6, WhereFinite, PCFacts
    <2>8. Cardinality(Where(pc', WaiterPC)) = Cardinality(Where(moved, WaiterPC))
        <3>1. Cardinality(Where(pc', WaiterPC)) = Cardinality(Where(moved, WaiterPC))
                 + (IF pc'[h] \in WaiterPC THEN 1 ELSE 0) - (IF moved[h] \in WaiterPC THEN 1 ELSE 0)
            BY <2>1a, <2>6a, WhereMove, Zenon
        <3> QED BY <3>1, <2>1, <2>6, WhereFinite, PCFacts
    <2>9. Cardinality(Where(pc', AcceptedPC)) = Cardinality(Where(moved, AcceptedPC))
        <3>1. Cardinality(Where(pc', AcceptedPC)) = Cardinality(Where(moved, AcceptedPC))
                 + (IF pc'[h] \in AcceptedPC THEN 1 ELSE 0) - (IF moved[h] \in AcceptedPC THEN 1 ELSE 0)
            BY <2>1a, <2>6a, WhereMove, Zenon
        <3> QED BY <3>1, <2>1, <2>6, WhereFinite, PCFacts
    <2> QED BY <2>1, <2>2, <2>3, <2>4, <2>5, <2>6, <2>7, <2>8, <2>9, WhereFinite
<1> QED BY <1>1, <1>2

(* A claim outside the list ends and gives a permit back. *)
LEMMA ReleaseLemma ==
    ASSUME TypeOK, QueueInv, NEW c \in Claimers, pc[c] # "queued",
           AddPermit([pc EXCEPT ![c] = "idle"])
    PROVE  /\ permits' \in Nat
           /\ queue' \in Seq(Claimers)
           /\ pc' \in [Claimers -> ClaimPC]
           /\ QueueInv'
           /\ pc'[c] = "idle"
           /\ \A d \in Claimers : d # c =>
                 pc'[d] = pc[d] \/ (pc[d] = "queued" /\ pc'[d] = "granted")
           /\ Cardinality(Where(pc, HolderPC)) \in Nat
           /\ Cardinality(Where(pc', HolderPC)) \in Nat
           /\ Cardinality(Where(pc, WaiterPC)) \in Nat
           /\ Cardinality(Where(pc, AcceptedPC)) \in Nat
           /\ permits' + Cardinality(Where(pc', HolderPC))
                = permits + Cardinality(Where(pc, HolderPC)) + 1
                    - (IF pc[c] \in HolderPC THEN 1 ELSE 0)
           /\ Cardinality(Where(pc', WaiterPC)) = Cardinality(Where(pc, WaiterPC))
                - (IF pc[c] \in WaiterPC THEN 1 ELSE 0)
           /\ Cardinality(Where(pc', AcceptedPC)) = Cardinality(Where(pc, AcceptedPC))
                - (IF pc[c] \in AcceptedPC THEN 1 ELSE 0)
<1> DEFINE m == [pc EXCEPT ![c] = "idle"]
<1>1. /\ m \in [Claimers -> ClaimPC]
      /\ m[c] = "idle"
      /\ \A d \in Claimers : d # c => m[d] = pc[d]
    BY PCFacts DEF TypeOK
<1>2. /\ \A k \in 1..Len(queue) : queue[k] \in Claimers
      /\ \A k \in 1..Len(queue) : pc[queue[k]] = "queued"
    BY DEF TypeOK, QueueInv
<1>3. permits \in Nat /\ queue \in Seq(Claimers)
    BY DEF TypeOK
<1>4. AddPermit(m)
    OBVIOUS
<1> HIDE DEF m
<1>5. /\ \A k \in 1..Len(queue) : m[queue[k]] = "queued"
      /\ \A k, l \in 1..Len(queue) : queue[k] = queue[l] => k = l
    BY <1>1, <1>2 DEF QueueInv
<1>6. /\ permits' \in Nat
      /\ queue' \in Seq(Claimers)
      /\ pc' \in [Claimers -> ClaimPC]
      /\ QueueInv'
      /\ permits' + Cardinality(Where(pc', HolderPC))
           = permits + Cardinality(Where(m, HolderPC)) + 1
      /\ Cardinality(Where(pc', WaiterPC)) = Cardinality(Where(m, WaiterPC))
      /\ Cardinality(Where(pc', AcceptedPC)) = Cardinality(Where(m, AcceptedPC))
      /\ \A d \in Claimers : m[d] # "queued" => pc'[d] = m[d]
      /\ \A d \in Claimers : m[d] = "queued" => pc'[d] \in {"queued", "granted"}
    BY <1>1, <1>3, <1>4, <1>5, AddPermitLemma
<1>7. Cardinality(Where(m, HolderPC)) = Cardinality(Where(pc, HolderPC))
         - (IF pc[c] \in HolderPC THEN 1 ELSE 0)
    <2>1. Cardinality(Where(m, HolderPC)) = Cardinality(Where(pc, HolderPC))
            + (IF m[c] \in HolderPC THEN 1 ELSE 0) - (IF pc[c] \in HolderPC THEN 1 ELSE 0)
        BY <1>1, WhereMove, Zenon
    <2> QED BY <2>1, <1>1, WhereFinite, PCFacts
<1>8. Cardinality(Where(m, WaiterPC)) = Cardinality(Where(pc, WaiterPC))
         - (IF pc[c] \in WaiterPC THEN 1 ELSE 0)
    <2>1. Cardinality(Where(m, WaiterPC)) = Cardinality(Where(pc, WaiterPC))
            + (IF m[c] \in WaiterPC THEN 1 ELSE 0) - (IF pc[c] \in WaiterPC THEN 1 ELSE 0)
        BY <1>1, WhereMove, Zenon
    <2> QED BY <2>1, <1>1, WhereFinite, PCFacts
<1>9. Cardinality(Where(m, AcceptedPC)) = Cardinality(Where(pc, AcceptedPC))
         - (IF pc[c] \in AcceptedPC THEN 1 ELSE 0)
    <2>1. Cardinality(Where(m, AcceptedPC)) = Cardinality(Where(pc, AcceptedPC))
            + (IF m[c] \in AcceptedPC THEN 1 ELSE 0) - (IF pc[c] \in AcceptedPC THEN 1 ELSE 0)
        BY <1>1, WhereMove, Zenon
    <2> QED BY <2>1, <1>1, WhereFinite, PCFacts
<1>10. /\ pc'[c] = "idle"
       /\ \A d \in Claimers : d # c =>
             pc'[d] = pc[d] \/ (pc[d] = "queued" /\ pc'[d] = "granted")
    BY <1>1, <1>6
<1>11. /\ Cardinality(Where(pc, HolderPC)) \in Nat
       /\ Cardinality(Where(pc', HolderPC)) \in Nat
       /\ Cardinality(Where(pc, WaiterPC)) \in Nat
       /\ Cardinality(Where(pc, AcceptedPC)) \in Nat
    BY WhereFinite
<1> QED BY SMTT(30), <1>3, <1>6, <1>7, <1>8, <1>9, <1>10, <1>11

(* Sets of sessions are finite. *)
LEMMA IdsFinite ==
    ASSUME NEW S, S \subseteq Ids
    PROVE  IsFiniteSet(S) /\ Cardinality(S) \in Nat
<1>1. IsFiniteSet(Ids)
    BY PoolAssumption, FS_Interval DEF Ids
<1> QED BY <1>1, FS_Subset, FS_CardinalityType

(* The part of PoolInv about slots, the queue and the counters. *)
CountInv ==
    /\ QueueInv
    /\ CalibrationInv
    /\ WaitingInv
    /\ SlotsConserved
    /\ QueueBound

(* Claims in the queue are counted as waiting. *)
LEMMA AcceptedAreWaiting ==
    ASSUME NEW f
    PROVE  Cardinality(Where(f, AcceptedPC)) <= Cardinality(Where(f, WaiterPC))
<1>1. Where(f, AcceptedPC) \in SUBSET Where(f, WaiterPC)
    BY DEF Where, AcceptedPC, WaiterPC
<1> QED BY <1>1, WhereFinite, FS_Subset

(* A claim outside the list moves, taking or giving a permit and entering   *)
(* or leaving the counter as its new point demands.                         *)
LEMMA CountMove ==
    ASSUME PoolInv, NEW c \in Claimers, pc[c] # "queued",
           \A d \in Claimers : d # c => pc'[d] = pc[d],
           queue' = queue, dropped' = dropped, leaked' = leaked,
           maxSessions' = maxSessions,
           calibration = "done", calibration' = "done",
           permits' = permits - (IF pc'[c] \in HolderPC THEN 1 ELSE 0)
                              + (IF pc[c] \in HolderPC THEN 1 ELSE 0),
           waiting' = waiting + (IF pc'[c] \in WaiterPC THEN 1 ELSE 0)
                              - (IF pc[c] \in WaiterPC THEN 1 ELSE 0),
           pc'[c] \in AcceptedPC => pc[c] \in AcceptedPC \/ waiting + 1 <= MaxQueue,
           pc'[c] \in AcceptedPC => pc[c] \in AcceptedPC \/ pc[c] \notin WaiterPC
    PROVE  CountInv'
<1>1. /\ TypeOK /\ QueueInv
      /\ permits \in Nat /\ waiting \in Nat /\ leaked \in Nat /\ maxSessions \in Nat
      /\ dropped \subseteq Ids
    BY DEF PoolInv, TypeOK
<1>2. Cardinality(dropped) \in Nat
    BY <1>1, IdsFinite
<1>3. /\ QueueInv'
      /\ Cardinality(Where(pc, HolderPC)) \in Nat
      /\ Cardinality(Where(pc, WaiterPC)) \in Nat
      /\ Cardinality(Where(pc, AcceptedPC)) \in Nat
      /\ Cardinality(Where(pc', HolderPC)) = Cardinality(Where(pc, HolderPC))
           + (IF pc'[c] \in HolderPC THEN 1 ELSE 0) - (IF pc[c] \in HolderPC THEN 1 ELSE 0)
      /\ Cardinality(Where(pc', WaiterPC)) = Cardinality(Where(pc, WaiterPC))
           + (IF pc'[c] \in WaiterPC THEN 1 ELSE 0) - (IF pc[c] \in WaiterPC THEN 1 ELSE 0)
      /\ Cardinality(Where(pc', AcceptedPC)) = Cardinality(Where(pc, AcceptedPC))
           + (IF pc'[c] \in AcceptedPC THEN 1 ELSE 0) - (IF pc[c] \in AcceptedPC THEN 1 ELSE 0)
    BY <1>1, MoveLemma
<1>4. /\ permits + Cardinality(Where(pc, HolderPC)) + Cardinality(dropped) + leaked = maxSessions
      /\ waiting = Cardinality(Where(pc, WaiterPC))
      /\ Cardinality(Where(pc, AcceptedPC)) <= MaxQueue
    BY DEF PoolInv, SlotsConserved, WaitingInv, QueueBound
<1>5. SlotsConserved'
    BY <1>1, <1>2, <1>3, <1>4 DEF SlotsConserved
<1>6. WaitingInv'
    BY <1>1, <1>3, <1>4 DEF WaitingInv
<1>7. QueueBound'
    <2>1. Cardinality(Where(pc, AcceptedPC)) <= Cardinality(Where(pc, WaiterPC))
        BY AcceptedAreWaiting
    <2>2. MaxQueue \in Nat
        BY PoolAssumption
    <2> QED BY <1>3, <1>4, <2>1, <2>2 DEF QueueBound
<1>8. CalibrationInv'
    BY DEF CalibrationInv
<1> QED BY <1>3, <1>5, <1>6, <1>7, <1>8 DEF CountInv

(* A claim that holds a slot ends and gives the slot back. *)
LEMMA CountRelease ==
    ASSUME PoolInv, NEW c \in Claimers, pc[c] # "queued", pc[c] \in HolderPC,
           AddPermit([pc EXCEPT ![c] = "idle"]),
           dropped' = dropped, leaked' = leaked, maxSessions' = maxSessions,
           calibration = "done", calibration' = "done",
           waiting' = waiting - (IF pc[c] \in WaiterPC THEN 1 ELSE 0)
    PROVE  CountInv'
<1>1. /\ TypeOK /\ QueueInv
      /\ permits \in Nat /\ waiting \in Nat /\ leaked \in Nat /\ maxSessions \in Nat
      /\ dropped \subseteq Ids
    BY DEF PoolInv, TypeOK
<1>2. Cardinality(dropped) \in Nat
    BY <1>1, IdsFinite
<1>3. /\ permits' \in Nat
      /\ QueueInv'
      /\ Cardinality(Where(pc, HolderPC)) \in Nat
      /\ Cardinality(Where(pc', HolderPC)) \in Nat
      /\ Cardinality(Where(pc, WaiterPC)) \in Nat
      /\ Cardinality(Where(pc, AcceptedPC)) \in Nat
      /\ permits' + Cardinality(Where(pc', HolderPC))
           = permits + Cardinality(Where(pc, HolderPC)) + 1
               - (IF pc[c] \in HolderPC THEN 1 ELSE 0)
      /\ Cardinality(Where(pc', WaiterPC)) = Cardinality(Where(pc, WaiterPC))
           - (IF pc[c] \in WaiterPC THEN 1 ELSE 0)
      /\ Cardinality(Where(pc', AcceptedPC)) = Cardinality(Where(pc, AcceptedPC))
           - (IF pc[c] \in AcceptedPC THEN 1 ELSE 0)
    BY <1>1, ReleaseLemma
<1>4. /\ permits + Cardinality(Where(pc, HolderPC)) + Cardinality(dropped) + leaked = maxSessions
      /\ waiting = Cardinality(Where(pc, WaiterPC))
      /\ Cardinality(Where(pc, AcceptedPC)) <= MaxQueue
    BY DEF PoolInv, SlotsConserved, WaitingInv, QueueBound
<1>5. SlotsConserved'
    BY <1>1, <1>2, <1>3, <1>4 DEF SlotsConserved
<1>6. WaitingInv'
    BY <1>1, <1>3, <1>4 DEF WaitingInv
<1>7. QueueBound'
    BY <1>3, <1>4, PoolAssumption DEF QueueBound
<1>8. CalibrationInv'
    BY DEF CalibrationInv
<1> QED BY <1>3, <1>5, <1>6, <1>7, <1>8 DEF CountInv

(* Length and places of a concatenation. *)
LEMMA ConcatLemma ==
    ASSUME NEW S, NEW a \in Seq(S), NEW b \in Seq(S)
    PROVE  /\ a \o b \in Seq(S)
           /\ Len(a \o b) = Len(a) + Len(b)
           /\ \A k \in 1..(Len(a) + Len(b)) :
                 (a \o b)[k] = IF k <= Len(a) THEN a[k] ELSE b[k - Len(a)]
OBVIOUS

(* RemoveAt drops one place of the list and keeps the others in order. *)
LEMMA RemoveAtLemma ==
    ASSUME NEW S, NEW q \in Seq(S), NEW i \in 1..Len(q)
    PROVE  /\ RemoveAt(q, i) \in Seq(S)
           /\ Len(RemoveAt(q, i)) = Len(q) - 1
           /\ \A k \in 1..(Len(q) - 1) :
                 RemoveAt(q, i)[k] = IF k < i THEN q[k] ELSE q[k + 1]
<1> DEFINE a == SubSeq(q, 1, i - 1)
           b == SubSeq(q, i + 1, Len(q))
<1>1. /\ a \in Seq(S) /\ Len(a) = i - 1
      /\ \A k \in 1..(i - 1) : a[k] = q[k]
    OBVIOUS
<1>2. /\ b \in Seq(S) /\ Len(b) = Len(q) - i
      /\ \A k \in 1..(Len(q) - i) : b[k] = q[k + i]
    OBVIOUS
<1>3. RemoveAt(q, i) = a \o b
    BY DEF RemoveAt
<1> HIDE DEF a, b
<1>4. /\ a \o b \in Seq(S) /\ Len(a \o b) = Len(q) - 1
      /\ \A k \in 1..(Len(q) - 1) : (a \o b)[k] = IF k <= i - 1 THEN a[k] ELSE b[k - (i - 1)]
    <2>1. /\ a \o b \in Seq(S)
          /\ Len(a \o b) = Len(a) + Len(b)
          /\ \A k \in 1..(Len(a) + Len(b)) :
                (a \o b)[k] = IF k <= Len(a) THEN a[k] ELSE b[k - Len(a)]
        BY <1>1, <1>2, ConcatLemma
    <2>2. Len(a) + Len(b) = Len(q) - 1 /\ Len(a) = i - 1
        BY <1>1, <1>2
    <2> QED BY <2>1, <2>2
<1>5. ASSUME NEW k \in 1..(Len(q) - 1)
      PROVE  (a \o b)[k] = IF k < i THEN q[k] ELSE q[k + 1]
    <2>1. CASE k < i
        BY <1>1, <1>4, <2>1
    <2>2. CASE ~(k < i)
        <3>1. k - (i - 1) \in 1..(Len(q) - i) /\ (k - (i - 1)) + i = k + 1
            BY <2>2
        <3> QED BY <1>2, <1>4, <2>2, <3>1
    <2> QED BY <2>1, <2>2
<1> QED BY <1>3, <1>4, <1>5

(* A waiter leaves the line without a permit. *)
LEMMA LeaveQueueLemma ==
    ASSUME PoolInv, NEW c \in Claimers, LeaveQueue(c)
    PROVE  /\ CountInv'
           /\ queue' \in Seq(Claimers)
<1>1. /\ TypeOK /\ QueueInv
      /\ permits \in Nat /\ waiting \in Nat /\ leaked \in Nat /\ maxSessions \in Nat
      /\ dropped \subseteq Ids
      /\ queue \in Seq(Claimers)
      /\ pc \in [Claimers -> ClaimPC]
    BY DEF PoolInv, TypeOK
<1>2. /\ pc[c] = "queued" /\ pc'[c] = "idle"
      /\ \A d \in Claimers : d # c => pc'[d] = pc[d]
      /\ permits' = permits /\ waiting' = waiting - 1 /\ maxSessions' = maxSessions
      /\ dropped' = dropped /\ leaked' = leaked /\ calibration' = calibration
    BY <1>1 DEF LeaveQueue, Step, sessions, server
<1>3. calibration = "done"
    BY <1>2 DEF PoolInv, CalibrationInv
<1>4. /\ queue' \in Seq(Claimers)
      /\ QueueInv'
    <2>1. CASE \E i \in 1..Len(queue) : queue[i] = c /\ queue' = RemoveAt(queue, i)
        <3>1. PICK i \in 1..Len(queue) : queue[i] = c /\ queue' = RemoveAt(queue, i)
            BY <2>1
        <3>2. /\ queue' \in Seq(Claimers)
              /\ Len(queue') = Len(queue) - 1
              /\ \A k \in 1..(Len(queue) - 1) :
                    queue'[k] = IF k < i THEN queue[k] ELSE queue[k + 1]
            BY <1>1, <3>1, RemoveAtLemma
        <3>3. ASSUME NEW k \in 1..Len(queue')
              PROVE  \E j \in 1..Len(queue) :
                        /\ queue'[k] = queue[j]
                        /\ j # i
                        /\ j = IF k < i THEN k ELSE k + 1
            BY <1>1, <3>2
        <3>4. ASSUME NEW k \in 1..Len(queue')
              PROVE  pc'[queue'[k]] = "queued"
            <4>1. PICK j \in 1..Len(queue) : queue'[k] = queue[j] /\ j # i
                BY <3>3
            <4>2. queue[j] # c /\ pc[queue[j]] = "queued" /\ queue[j] \in Claimers
                BY <1>1, <3>1, <4>1 DEF QueueInv
            <4> QED BY <1>2, <4>1, <4>2
        <3>5. ASSUME NEW k \in 1..Len(queue'), NEW l \in 1..Len(queue'),
                     queue'[k] = queue'[l]
              PROVE  k = l
            <4>1. PICK j \in 1..Len(queue) : queue'[k] = queue[j] /\ j = IF k < i THEN k ELSE k + 1
                BY <3>3
            <4>2. PICK h \in 1..Len(queue) : queue'[l] = queue[h] /\ h = IF l < i THEN l ELSE l + 1
                BY <3>3
            <4>3. j = h
                BY <1>1, <3>5, <4>1, <4>2 DEF QueueInv
            <4> QED BY <4>1, <4>2, <4>3, <1>1, <3>2
        <3> QED BY <3>2, <3>4, <3>5 DEF QueueInv
    <2>2. CASE (\A i \in 1..Len(queue) : queue[i] # c) /\ UNCHANGED queue
        <3>1. \A k \in 1..Len(queue) : queue[k] \in Claimers
            BY <1>1
        <3> QED BY <1>1, <1>2, <2>2, <3>1 DEF QueueInv
    <2> QED BY <2>1, <2>2 DEF LeaveQueue
<1>5. /\ Cardinality(Where(pc', HolderPC)) = Cardinality(Where(pc, HolderPC))
           + (IF pc'[c] \in HolderPC THEN 1 ELSE 0) - (IF pc[c] \in HolderPC THEN 1 ELSE 0)
      /\ Cardinality(Where(pc', WaiterPC)) = Cardinality(Where(pc, WaiterPC))
           + (IF pc'[c] \in WaiterPC THEN 1 ELSE 0) - (IF pc[c] \in WaiterPC THEN 1 ELSE 0)
      /\ Cardinality(Where(pc', AcceptedPC)) = Cardinality(Where(pc, AcceptedPC))
           + (IF pc'[c] \in AcceptedPC THEN 1 ELSE 0) - (IF pc[c] \in AcceptedPC THEN 1 ELSE 0)
    BY <1>2, WhereMove, Zenon
<1>6. /\ Cardinality(Where(pc, HolderPC)) \in Nat
      /\ Cardinality(Where(pc, WaiterPC)) \in Nat
      /\ Cardinality(Where(pc, AcceptedPC)) \in Nat
      /\ Cardinality(dropped) \in Nat
    BY <1>1, WhereFinite, IdsFinite
<1>7. /\ Cardinality(Where(pc', HolderPC)) = Cardinality(Where(pc, HolderPC))
      /\ Cardinality(Where(pc', WaiterPC)) = Cardinality(Where(pc, WaiterPC)) - 1
      /\ Cardinality(Where(pc', AcceptedPC)) = Cardinality(Where(pc, AcceptedPC)) - 1
    BY <1>2, <1>5, <1>6, PCFacts
<1>8. SlotsConserved' /\ WaitingInv' /\ QueueBound'
    BY <1>1, <1>2, <1>6, <1>7, PoolAssumption
       DEF PoolInv, SlotsConserved, WaitingInv, QueueBound
<1>9. CalibrationInv'
    BY <1>2, <1>3 DEF CalibrationInv
<1> QED BY <1>4, <1>8, <1>9 DEF CountInv

(* The variables CountInv is about. *)
countVars == <<permits, queue, maxSessions, waiting, pc, dropped, leaked, calibration>>

(* Every step of the pool keeps the slots, the queue and the counters right. *)
LEMMA CountStep ==
    ASSUME PoolInv, [Next]_vars
    PROVE  CountInv'
<1>t. /\ TypeOK
      /\ permits \in Nat /\ waiting \in Nat /\ leaked \in Nat /\ maxSessions \in Nat
      /\ dropped \subseteq Ids /\ queue \in Seq(Claimers) /\ pc \in [Claimers -> ClaimPC]
      /\ created \in Nat
    BY PoolAssumption DEF PoolInv, TypeOK
<1>q. ASSUME NEW c \in Claimers, pc[c] # "idle"
      PROVE  calibration = "done"
    BY <1>q DEF PoolInv, CalibrationInv
<1>u. ASSUME UNCHANGED countVars
      PROVE  CountInv'
    BY <1>u DEF countVars, PoolInv, CountInv, QueueInv, CalibrationInv, WaitingInv,
                SlotsConserved, QueueBound
<1>1. ASSUME NEW c \in Claimers, TryAcquire(c)
      PROVE  CountInv'
    <2>1. /\ pc[c] = "idle" /\ pc'[c] = "slot"
          /\ \A d \in Claimers : d # c => pc'[d] = pc[d]
          /\ queue' = queue /\ dropped' = dropped /\ leaked' = leaked
          /\ maxSessions' = maxSessions /\ calibration' = calibration
          /\ permits' = permits - 1 /\ waiting' = waiting
        BY <1>t, <1>1 DEF TryAcquire, Step, semaphore, sessions, server
    <2>2. calibration = "done"
        BY <1>1, <1>q, <2>1 DEF TryAcquire
    <2> QED BY <1>t, <2>1, <2>2, CountMove, PCFacts
<1>2. ASSUME NEW c \in Claimers, TryAcquireNoPermits(c)
      PROVE  CountInv'
    <2>1. /\ pc[c] = "idle" /\ pc'[c] = "missed"
          /\ \A d \in Claimers : d # c => pc'[d] = pc[d]
          /\ queue' = queue /\ dropped' = dropped /\ leaked' = leaked
          /\ maxSessions' = maxSessions /\ calibration' = calibration
          /\ permits' = permits /\ waiting' = waiting
        BY <1>t, <1>2 DEF TryAcquireNoPermits, Step, semaphore, sessions, server
    <2>2. calibration = "done"
        BY <1>2, <1>q, <2>1 DEF TryAcquireNoPermits
    <2> QED BY <1>t, <2>1, <2>2, CountMove, PCFacts
<1>3. ASSUME NEW c \in Claimers, CountIn(c)
      PROVE  CountInv'
    <2>1. /\ pc[c] = "missed"
          /\ pc'[c] = IF waiting + 1 > MaxQueue THEN "full" ELSE "counted"
          /\ \A d \in Claimers : d # c => pc'[d] = pc[d]
          /\ queue' = queue /\ dropped' = dropped /\ leaked' = leaked
          /\ maxSessions' = maxSessions /\ calibration' = calibration
          /\ permits' = permits /\ waiting' = waiting + 1
        BY <1>t, <1>3 DEF CountIn, Step, semaphore, sessions, server
    <2>2. calibration = "done"
        BY <1>q, <2>1
    <2>3. CASE waiting + 1 > MaxQueue
        BY <1>t, <2>1, <2>2, <2>3, CountMove, PCFacts
    <2>4. CASE ~(waiting + 1 > MaxQueue)
        <3>1. pc'[c] = "counted" /\ waiting + 1 <= MaxQueue
            BY <1>t, <2>1, <2>4, PoolAssumption
        <3> QED BY <1>t, <2>1, <2>2, <3>1, CountMove, PCFacts
    <2> QED BY <2>3, <2>4
<1>4. ASSUME NEW c \in Claimers, QueueFull(c)
      PROVE  CountInv'
    <2>1. /\ pc[c] = "full" /\ pc'[c] = "idle"
          /\ \A d \in Claimers : d # c => pc'[d] = pc[d]
          /\ queue' = queue /\ dropped' = dropped /\ leaked' = leaked
          /\ maxSessions' = maxSessions /\ calibration' = calibration
          /\ permits' = permits /\ waiting' = waiting - 1
        BY <1>t, <1>4 DEF QueueFull, Step, semaphore, sessions, server
    <2>2. calibration = "done"
        BY <1>4, <1>q, <2>1 DEF QueueFull
    <2> QED BY <1>t, <2>1, <2>2, CountMove, PCFacts
<1>5. ASSUME NEW c \in Claimers, Enqueue(c)
      PROVE  CountInv'
    <2>0. /\ dropped' = dropped /\ leaked' = leaked
          /\ maxSessions' = maxSessions /\ calibration' = calibration
          /\ pc[c] = "counted"
        BY <1>5 DEF Enqueue, Step, sessions, server
    <2>1. calibration = "done"
        BY <1>q, <2>0
    <2>2. CASE /\ closed
               /\ Step(c, "counted", "idle")
               /\ waiting' = waiting - 1
               /\ UNCHANGED <<permits, queue>>
        <3>1. /\ pc'[c] = "idle" /\ queue' = queue /\ permits' = permits
              /\ \A d \in Claimers : d # c => pc'[d] = pc[d]
            BY <1>t, <2>2 DEF Step
        <3> QED BY <1>t, <2>0, <2>1, <2>2, <3>1, CountMove, PCFacts
    <2>3. CASE /\ Step(c, "counted", "slot")
               /\ permits' = permits - 1
               /\ waiting' = waiting - 1
               /\ UNCHANGED queue
        <3>1. /\ pc'[c] = "slot" /\ queue' = queue
              /\ \A d \in Claimers : d # c => pc'[d] = pc[d]
            BY <1>t, <2>3 DEF Step
        <3> QED BY <1>t, <2>0, <2>1, <2>3, <3>1, CountMove, PCFacts
    <2>4. CASE /\ Step(c, "counted", "queued")
               /\ queue' = Append(queue, c)
               /\ UNCHANGED <<permits, waiting>>
        <3>1. /\ pc'[c] = "queued"
              /\ \A d \in Claimers : d # c => pc'[d] = pc[d]
            BY <1>t, <2>4 DEF Step
        <3>2. QueueInv'
            <4>1. /\ Len(queue') = Len(queue) + 1
                  /\ \A k \in 1..Len(queue) :
                        queue'[k] = queue[k] /\ queue[k] \in Claimers
                  /\ queue'[Len(queue) + 1] = c
                BY <1>t, <2>4
            <4>2. \A k \in 1..Len(queue) : pc[queue[k]] = "queued" /\ queue[k] # c
                BY <2>0 DEF PoolInv, QueueInv
            <4>3. ASSUME NEW k \in 1..Len(queue')
                  PROVE  pc'[queue'[k]] = "queued"
                BY <1>t, <3>1, <4>1, <4>2
            <4>4. ASSUME NEW k \in 1..Len(queue'), NEW l \in 1..Len(queue'),
                         queue'[k] = queue'[l]
                  PROVE  k = l
                <5>1. \A i, j \in 1..Len(queue) : queue[i] = queue[j] => i = j
                    BY DEF PoolInv, QueueInv
                <5>2. /\ k \in 1..Len(queue) \/ k = Len(queue) + 1
                      /\ l \in 1..Len(queue) \/ l = Len(queue) + 1
                    BY <1>t, <4>1
                <5>3. CASE k \in 1..Len(queue) /\ l \in 1..Len(queue)
                    BY <4>1, <4>4, <5>1, <5>3
                <5>4. CASE k \in 1..Len(queue) /\ l = Len(queue) + 1
                    BY <4>1, <4>2, <4>4, <5>4
                <5>5. CASE k = Len(queue) + 1 /\ l \in 1..Len(queue)
                    BY <4>1, <4>2, <4>4, <5>5
                <5> QED BY <5>2, <5>3, <5>4, <5>5
            <4> QED BY <4>3, <4>4 DEF QueueInv
        <3>3. /\ Cardinality(Where(pc', HolderPC)) = Cardinality(Where(pc, HolderPC))
                   + (IF pc'[c] \in HolderPC THEN 1 ELSE 0) - (IF pc[c] \in HolderPC THEN 1 ELSE 0)
              /\ Cardinality(Where(pc', WaiterPC)) = Cardinality(Where(pc, WaiterPC))
                   + (IF pc'[c] \in WaiterPC THEN 1 ELSE 0) - (IF pc[c] \in WaiterPC THEN 1 ELSE 0)
              /\ Cardinality(Where(pc', AcceptedPC)) = Cardinality(Where(pc, AcceptedPC))
                   + (IF pc'[c] \in AcceptedPC THEN 1 ELSE 0) - (IF pc[c] \in AcceptedPC THEN 1 ELSE 0)
            BY <3>1, WhereMove, Zenon
        <3>4. /\ Cardinality(Where(pc, HolderPC)) \in Nat
              /\ Cardinality(Where(pc, WaiterPC)) \in Nat
              /\ Cardinality(Where(pc, AcceptedPC)) \in Nat
              /\ Cardinality(dropped) \in Nat
            BY <1>t, WhereFinite, IdsFinite
        <3>5. /\ Cardinality(Where(pc', HolderPC)) = Cardinality(Where(pc, HolderPC))
              /\ Cardinality(Where(pc', WaiterPC)) = Cardinality(Where(pc, WaiterPC))
              /\ Cardinality(Where(pc', AcceptedPC)) = Cardinality(Where(pc, AcceptedPC))
            BY <2>0, <3>1, <3>3, <3>4, PCFacts
        <3>6. SlotsConserved' /\ WaitingInv' /\ QueueBound'
            BY <2>0, <2>4, <3>5 DEF PoolInv, SlotsConserved, WaitingInv, QueueBound
        <3>7. CalibrationInv'
            BY <2>0, <2>1 DEF CalibrationInv
        <3> QED BY <3>2, <3>6, <3>7 DEF CountInv
    <2> QED BY <1>5, <2>2, <2>3, <2>4 DEF Enqueue
<1>6. ASSUME NEW c \in Claimers, QueueTimeout(c)
      PROVE  CountInv'
    BY <1>6, LeaveQueueLemma DEF QueueTimeout
<1>7. ASSUME NEW c \in Claimers, CancelQueued(c)
      PROVE  CountInv'
    BY <1>7, LeaveQueueLemma DEF CancelQueued
<1>8. ASSUME NEW c \in Claimers, SeeClosed(c)
      PROVE  CountInv'
    BY <1>8, LeaveQueueLemma DEF SeeClosed
<1>9. ASSUME NEW c \in Claimers, PollGranted(c)
      PROVE  CountInv'
    <2>0. /\ dropped' = dropped /\ leaked' = leaked
          /\ maxSessions' = maxSessions /\ calibration' = calibration
          /\ pc[c] = "granted" /\ waiting' = waiting - 1
        BY <1>9 DEF PollGranted, Step, sessions, server
    <2>1. calibration = "done"
        BY <1>q, <2>0
    <2>2. CASE Step(c, "granted", "slot") /\ UNCHANGED <<permits, queue>>
        <3>1. /\ pc'[c] = "slot" /\ queue' = queue /\ permits' = permits
              /\ \A d \in Claimers : d # c => pc'[d] = pc[d]
            BY <1>t, <2>2 DEF Step
        <3> QED BY <1>t, <2>0, <2>1, <3>1, CountMove, PCFacts
    <2>3. CASE AddPermit([pc EXCEPT ![c] = "idle"])
        BY <2>0, <2>1, <2>3, CountRelease, PCFacts
    <2> QED BY <1>9, <2>2, <2>3 DEF PollGranted
<1>10. ASSUME NEW c \in Claimers, CancelGranted(c)
      PROVE  CountInv'
    <2>1. /\ dropped' = dropped /\ leaked' = leaked
          /\ maxSessions' = maxSessions /\ calibration' = calibration
          /\ pc[c] = "granted" /\ waiting' = waiting - 1
          /\ AddPermit([pc EXCEPT ![c] = "idle"])
        BY <1>10 DEF CancelGranted, sessions, server
    <2>2. calibration = "done"
        BY <1>q, <2>1
    <2>3. /\ pc[c] # "queued" /\ pc[c] \in HolderPC
          /\ waiting' = waiting - (IF pc[c] \in WaiterPC THEN 1 ELSE 0)
        BY <1>t, <2>1, PCFacts
    <2> QED BY <2>1, <2>2, <2>3, CountRelease
<1>11. ASSUME NEW c \in Claimers, PopWarm(c)
      PROVE  CountInv'
    <2>1. /\ queue' = queue /\ dropped' = dropped /\ leaked' = leaked
          /\ maxSessions' = maxSessions /\ calibration' = calibration
          /\ permits' = permits /\ waiting' = waiting /\ pc[c] = "slot"
        BY <1>11 DEF PopWarm, semaphore, server
    <2>2. calibration = "done"
        BY <1>q, <2>1
    <2>3. CASE pc' = pc
        BY <1>u, <2>1, <2>3 DEF countVars
    <2>4. CASE pc' = [pc EXCEPT ![c] = "claimed"]
        <3>1. pc'[c] = "claimed" /\ \A d \in Claimers : d # c => pc'[d] = pc[d]
            BY <1>t, <2>4
        <3> QED BY <1>t, <2>1, <2>2, <3>1, CountMove, PCFacts
    <2> QED BY <1>11, <2>3, <2>4 DEF PopWarm
<1>12. ASSUME NEW c \in Claimers, LaunchInline(c)
      PROVE  CountInv'
    <2>1. /\ pc[c] = "slot" /\ pc'[c] = "launching"
          /\ \A d \in Claimers : d # c => pc'[d] = pc[d]
          /\ queue' = queue /\ dropped' = dropped /\ leaked' = leaked
          /\ maxSessions' = maxSessions /\ calibration' = calibration
          /\ permits' = permits /\ waiting' = waiting
        BY <1>t, <1>12 DEF LaunchInline, Step, semaphore, sessions, server
    <2>2. calibration = "done"
        BY <1>12, <1>q, <2>1 DEF LaunchInline
    <2> QED BY <1>t, <2>1, <2>2, CountMove, PCFacts
<1>13. ASSUME NEW c \in Claimers, LaunchOwn(c)
      PROVE  CountInv'
    <2>1. /\ pc[c] = "slot" /\ pc'[c] = "launching"
          /\ \A d \in Claimers : d # c => pc'[d] = pc[d]
          /\ queue' = queue /\ dropped' = dropped /\ leaked' = leaked
          /\ maxSessions' = maxSessions /\ calibration' = calibration
          /\ permits' = permits /\ waiting' = waiting
        BY <1>t, <1>13 DEF LaunchOwn, Step, semaphore, sessions, server
    <2>2. calibration = "done"
        BY <1>13, <1>q, <2>1 DEF LaunchOwn
    <2> QED BY <1>t, <2>1, <2>2, CountMove, PCFacts
<1>14. ASSUME NEW c \in Claimers, HandOut(c)
      PROVE  CountInv'
    <2>1. /\ pc[c] = "launching" /\ pc'[c] = "claimed"
          /\ \A d \in Claimers : d # c => pc'[d] = pc[d]
          /\ queue' = queue /\ dropped' = dropped /\ leaked' = leaked
          /\ maxSessions' = maxSessions /\ calibration' = calibration
          /\ permits' = permits /\ waiting' = waiting
        BY <1>t, <1>14 DEF HandOut, Step, semaphore, sessions, server
    <2>2. calibration = "done"
        BY <1>14, <1>q, <2>1 DEF HandOut
    <2> QED BY <1>t, <2>1, <2>2, CountMove, PCFacts
<1>15. ASSUME NEW c \in Claimers, LaunchFailed(c)
      PROVE  CountInv'
    <2>1. /\ dropped' = dropped /\ leaked' = leaked
          /\ maxSessions' = maxSessions /\ calibration' = calibration
          /\ pc[c] = "launching" /\ waiting' = waiting
          /\ AddPermit([pc EXCEPT ![c] = "idle"])
        BY <1>15 DEF LaunchFailed, sessions, server
    <2>2. calibration = "done"
        BY <1>q, <2>1
    <2>3. /\ pc[c] # "queued" /\ pc[c] \in HolderPC
          /\ waiting' = waiting - (IF pc[c] \in WaiterPC THEN 1 ELSE 0)
        BY <1>t, <2>1, PCFacts
    <2> QED BY <2>1, <2>2, <2>3, CountRelease
<1>16. ASSUME NEW c \in Claimers, CancelLaunch(c)
      PROVE  CountInv'
    <2>1. /\ pc[c] = "launching" /\ pc'[c] = "idle"
          /\ \A d \in Claimers : d # c => pc'[d] = pc[d]
          /\ queue' = queue /\ maxSessions' = maxSessions
          /\ calibration' = calibration
          /\ permits' = permits /\ waiting' = waiting
        BY <1>t, <1>16 DEF CancelLaunch, Step, semaphore, sessions, server
    <2>2. calibration = "done"
        BY <1>q, <2>1
    <2>3. /\ QueueInv'
          /\ Cardinality(Where(pc', HolderPC)) = Cardinality(Where(pc, HolderPC)) - 1
          /\ Cardinality(Where(pc', WaiterPC)) = Cardinality(Where(pc, WaiterPC))
          /\ Cardinality(Where(pc', AcceptedPC)) = Cardinality(Where(pc, AcceptedPC))
        <3>1. QueueInv
            BY DEF PoolInv
        <3> QED BY <1>t, <2>1, <3>1, MoveLemma, PCFacts
    <2>4. Cardinality(dropped') + leaked' = Cardinality(dropped) + leaked + 1
        <3>1. Cardinality(dropped) \in Nat
            BY <1>t, IdsFinite
        <3> QED BY <1>t, <1>16, <3>1 DEF CancelLaunch, sessions
    <2>5. Cardinality(dropped) \in Nat /\ Cardinality(dropped') \in Nat /\ leaked' \in Nat
        BY <1>t, <1>16, IdsFinite DEF CancelLaunch, sessions
    <2>6. SlotsConserved' /\ WaitingInv' /\ QueueBound'
        <3>1. /\ permits + Cardinality(Where(pc, HolderPC)) + Cardinality(dropped) + leaked
                   = maxSessions
              /\ waiting = Cardinality(Where(pc, WaiterPC))
              /\ Cardinality(Where(pc, AcceptedPC)) <= MaxQueue
            BY DEF PoolInv, SlotsConserved, WaitingInv, QueueBound
        <3>2. Cardinality(Where(pc, HolderPC)) \in Nat /\ Cardinality(Where(pc', HolderPC)) \in Nat
            BY WhereFinite
        <3>3. ASSUME NEW h \in Nat, NEW g \in Nat, NEW d \in Nat, NEW e \in Nat, NEW x \in Nat,
                     g = h - 1, e + x = d + leaked + 1, permits + h + d + leaked = maxSessions
              PROVE  permits + g + e + x = maxSessions
            BY <1>t, <3>3
        <3>4. permits + Cardinality(Where(pc', HolderPC)) + Cardinality(dropped') + leaked'
                = maxSessions
            BY <2>3, <2>4, <2>5, <3>1, <3>2, <3>3
        <3>5. SlotsConserved'
            BY <2>1, <3>4 DEF SlotsConserved
        <3> QED BY <2>1, <2>3, <3>1, <3>5 DEF WaitingInv, QueueBound
    <2>7. CalibrationInv'
        BY <2>1, <2>2 DEF CalibrationInv
    <2> QED BY <2>3, <2>6, <2>7 DEF CountInv
<1>17. ASSUME NEW c \in Claimers, Destroy(c)
      PROVE  CountInv'
    <2>1. /\ pc[c] = "claimed" /\ pc'[c] = "destroying"
          /\ \A d \in Claimers : d # c => pc'[d] = pc[d]
          /\ queue' = queue /\ dropped' = dropped /\ leaked' = leaked
          /\ maxSessions' = maxSessions /\ calibration' = calibration
          /\ permits' = permits /\ waiting' = waiting
        BY <1>t, <1>17 DEF Destroy, Step, semaphore, sessions, server
    <2>2. calibration = "done"
        BY <1>17, <1>q, <2>1 DEF Destroy
    <2> QED BY <1>t, <2>1, <2>2, CountMove, PCFacts
<1>18. ASSUME NEW c \in Claimers, DestroySession(c)
      PROVE  CountInv'
    <2>1. /\ dropped' = dropped /\ leaked' = leaked
          /\ maxSessions' = maxSessions /\ calibration' = calibration
          /\ pc[c] = "destroying" /\ waiting' = waiting
          /\ AddPermit([pc EXCEPT ![c] = "idle"])
        BY <1>18 DEF DestroySession, sessions, server
    <2>2. calibration = "done"
        BY <1>q, <2>1
    <2>3. /\ pc[c] # "queued" /\ pc[c] \in HolderPC
          /\ waiting' = waiting - (IF pc[c] \in WaiterPC THEN 1 ELSE 0)
        BY <1>t, <2>1, PCFacts
    <2> QED BY <2>1, <2>2, <2>3, CountRelease
<1>19. ASSUME NEW c \in Claimers, DropClaimed(c)
      PROVE  CountInv'
    <2>1. /\ pc[c] = "claimed" /\ pc'[c] = "idle"
          /\ \A d \in Claimers : d # c => pc'[d] = pc[d]
          /\ queue' = queue /\ maxSessions' = maxSessions
          /\ calibration' = calibration
          /\ permits' = permits /\ waiting' = waiting
        BY <1>t, <1>19 DEF DropClaimed, Step, semaphore, sessions, server
    <2>2. calibration = "done"
        BY <1>q, <2>1
    <2>3. /\ QueueInv'
          /\ Cardinality(Where(pc', HolderPC)) = Cardinality(Where(pc, HolderPC)) - 1
          /\ Cardinality(Where(pc', WaiterPC)) = Cardinality(Where(pc, WaiterPC))
          /\ Cardinality(Where(pc', AcceptedPC)) = Cardinality(Where(pc, AcceptedPC))
        <3>1. QueueInv
            BY DEF PoolInv
        <3> QED BY <1>t, <2>1, <3>1, MoveLemma, PCFacts
    <2>4. Cardinality(dropped') + leaked' = Cardinality(dropped) + leaked + 1
        <3>1. IsFiniteSet(dropped) /\ Cardinality(dropped) \in Nat
            BY <1>t, IdsFinite
        <3>2. held[c] # 0 /\ held[c] \in Handed
            BY <2>1 DEF PoolInv, OwnerInv, Handed
        <3>3. held[c] \notin dropped
            BY <3>2 DEF PoolInv, SessionsPartitioned
        <3>4. dropped' = dropped \cup {held[c]} /\ leaked' = leaked
            BY <1>19 DEF DropClaimed, server
        <3>5. Cardinality(dropped \cup {held[c]}) = Cardinality(dropped) + 1
            BY <3>1, <3>3, FS_AddElement
        <3> QED BY <1>t, <3>1, <3>4, <3>5
    <2>5. Cardinality(dropped) \in Nat /\ Cardinality(dropped') \in Nat /\ leaked' \in Nat
        <3>1. dropped' = dropped \cup {held[c]} /\ leaked' = leaked
            BY <1>19 DEF DropClaimed, server
        <3>2. IsFiniteSet(dropped) /\ Cardinality(dropped) \in Nat
            BY <1>t, IdsFinite
        <3>3. IsFiniteSet(dropped \cup {held[c]})
            BY <3>2, FS_AddElement
        <3>4. Cardinality(dropped \cup {held[c]}) \in Nat
            BY <3>3, FS_CardinalityType
        <3> QED BY <1>t, <3>1, <3>2, <3>4
    <2>6. SlotsConserved' /\ WaitingInv' /\ QueueBound'
        <3>1. /\ permits + Cardinality(Where(pc, HolderPC)) + Cardinality(dropped) + leaked
                   = maxSessions
              /\ waiting = Cardinality(Where(pc, WaiterPC))
              /\ Cardinality(Where(pc, AcceptedPC)) <= MaxQueue
            BY DEF PoolInv, SlotsConserved, WaitingInv, QueueBound
        <3>2. Cardinality(Where(pc, HolderPC)) \in Nat /\ Cardinality(Where(pc', HolderPC)) \in Nat
            BY WhereFinite
        <3>3. ASSUME NEW h \in Nat, NEW g \in Nat, NEW d \in Nat, NEW e \in Nat, NEW x \in Nat,
                     g = h - 1, e + x = d + leaked + 1, permits + h + d + leaked = maxSessions
              PROVE  permits + g + e + x = maxSessions
            BY <1>t, <3>3
        <3>4. permits + Cardinality(Where(pc', HolderPC)) + Cardinality(dropped') + leaked'
                = maxSessions
            BY <2>3, <2>4, <2>5, <3>1, <3>2, <3>3
        <3>5. SlotsConserved'
            BY <2>1, <3>4 DEF SlotsConserved
        <3> QED BY <2>1, <2>3, <3>1, <3>5 DEF WaitingInv, QueueBound
    <2>7. CalibrationInv'
        BY <2>1, <2>2 DEF CalibrationInv
    <2> QED BY <2>3, <2>6, <2>7 DEF CountInv
<1>20. ASSUME NEW i \in Ids, DestroyDropped(i)
      PROVE  CountInv'
    <2>1. /\ i \in dropped /\ dropped' = dropped \ {i} /\ AddPermit(pc)
          /\ leaked' = leaked /\ maxSessions' = maxSessions /\ waiting' = waiting
          /\ calibration' = calibration
        BY <1>20 DEF DestroyDropped, server
    <2>2. calibration = "done"
        BY <2>1 DEF PoolInv, CalibrationInv
    <2>3. /\ permits' \in Nat
          /\ QueueInv'
          /\ permits' + Cardinality(Where(pc', HolderPC))
               = permits + Cardinality(Where(pc, HolderPC)) + 1
          /\ Cardinality(Where(pc', WaiterPC)) = Cardinality(Where(pc, WaiterPC))
          /\ Cardinality(Where(pc', AcceptedPC)) = Cardinality(Where(pc, AcceptedPC))
        <3>1. /\ \A k \in 1..Len(queue) : pc[queue[k]] = "queued"
              /\ \A k, l \in 1..Len(queue) : queue[k] = queue[l] => k = l
            BY DEF PoolInv, QueueInv
        <3> QED BY <1>t, <2>1, <3>1, AddPermitLemma
    <2>4. /\ Cardinality(dropped) \in Nat
          /\ Cardinality(dropped') = Cardinality(dropped) - 1
        BY <1>t, <2>1, IdsFinite, FS_RemoveElement
    <2>5. SlotsConserved' /\ WaitingInv' /\ QueueBound'
        BY <1>t, <2>1, <2>3, <2>4, WhereFinite
           DEF PoolInv, SlotsConserved, WaitingInv, QueueBound
    <2>6. CalibrationInv'
        BY <2>1, <2>2 DEF CalibrationInv
    <2> QED BY <2>3, <2>5, <2>6 DEF CountInv
<1>21. ASSUME CloseSemaphore
      PROVE  CountInv'
    <2>1. /\ queue' = <<>> /\ permits' = permits /\ maxSessions' = maxSessions
          /\ waiting' = waiting /\ pc' = pc /\ dropped' = dropped /\ leaked' = leaked
          /\ calibration' = calibration
        BY <1>21 DEF CloseSemaphore, claims, sessions
    <2>2. QueueInv'
        BY <2>1 DEF QueueInv
    <2> QED BY <2>1, <2>2 DEF PoolInv, CountInv, CalibrationInv, WaitingInv,
                              SlotsConserved, QueueBound
<1>22. ASSUME NEW t \in Targets, SetMaxSessions(t)
      PROVE  CountInv'
    <2>1. /\ queue' = queue /\ waiting' = waiting /\ pc' = pc /\ dropped' = dropped
          /\ leaked' = leaked /\ calibration = "running" /\ calibration' = "resized"
        BY <1>22 DEF SetMaxSessions, claims, sessions
    <2>2. /\ \A c \in Claimers : pc[c] = "idle"
          /\ dropped = {} /\ leaked = 0
        BY <2>1 DEF PoolInv, CalibrationInv
    <2>3. Cardinality(Where(pc, HolderPC)) = 0 /\ Cardinality(dropped) = 0
        <3>1. Where(pc, HolderPC) = {}
            BY <2>2, PCFacts DEF Where
        <3> QED BY <2>2, <3>1, FS_EmptySet
    <2>4. permits = maxSessions
        BY <1>t, <2>2, <2>3 DEF PoolInv, SlotsConserved
    <2>5. t \in Nat
        BY PoolAssumption
    <2>6. permits' = maxSessions' /\ maxSessions' \in Nat
        BY <1>t, <1>22, <2>4, <2>5 DEF SetMaxSessions, SaturatingSub
    <2>7. SlotsConserved'
        BY <2>1, <2>2, <2>3, <2>6 DEF SlotsConserved
    <2>8. QueueInv' /\ WaitingInv' /\ QueueBound'
        BY <2>1 DEF PoolInv, QueueInv, WaitingInv, QueueBound
    <2>9. CalibrationInv'
        BY <2>1, <2>2 DEF CalibrationInv
    <2> QED BY <2>7, <2>8, <2>9 DEF CountInv
<1>23. ASSUME EndCalibration
      PROVE  CountInv'
    BY <1>23 DEF EndCalibration, semaphore, claims, sessions, PoolInv, CountInv, QueueInv,
                CalibrationInv, WaitingInv, SlotsConserved, QueueBound
<1>24. ASSUME Replenisher
      PROVE  CountInv'
    BY <1>24, <1>u DEF countVars, Replenisher, RepCheck, RepCull, RepDestroyCulled, RepMeasure,
        RepDecide, RepWake, RepCreated, RepCreateFailed, RepBackoff, RepRecheck, RepPush,
        RepDiscard, semaphore, claims, sessions, server
<1>25. ASSUME \/ \E i \in Ids : DestroyStale(i) \/ BrowserDies(i)
              \/ DrainWarm \/ Drained \/ UNCHANGED vars
      PROVE  CountInv'
    BY <1>25, <1>u DEF countVars, DestroyStale, BrowserDies, DrainWarm, Drained, vars,
        semaphore, claims, sessions, server
<1> QED
    BY <1>1, <1>2, <1>3, <1>4, <1>5, <1>6, <1>7, <1>8, <1>9, <1>10, <1>11, <1>12, <1>13, <1>14, <1>15, <1>16, <1>17, <1>18, <1>19, <1>20, <1>21, <1>22, <1>23, <1>24, <1>25
       DEF Next, Claim

-----------------------------------------------------------------------------
(* The part of PoolInv about sessions and their owners. *)
PlaceInv == OwnerInv /\ SessionsPartitioned

(* A claim without a session gets one. *)
LEMMA HandedGain ==
    ASSUME NEW c \in Claimers, held \in [Claimers -> 0..MaxCreated], held[c] = 0,
           NEW x \in Ids, held' = [held EXCEPT ![c] = x]
    PROVE  Handed' = Handed \cup {x}
<1>1. x # 0
    BY PoolAssumption DEF Ids
<1>2. ASSUME NEW y \in Handed'
      PROVE  y \in Handed \cup {x}
    BY <1>2 DEF Handed
<1>3. ASSUME NEW y \in Handed \cup {x}
      PROVE  y \in Handed'
    <2>1. CASE y = x
        BY <1>1, <2>1 DEF Handed
    <2>2. CASE y \in Handed
        <3>1. PICK d \in Claimers : y = held[d] /\ y # 0
            BY <2>2 DEF Handed
        <3> QED BY <3>1 DEF Handed
    <2> QED BY <1>3, <2>1, <2>2
<1> QED BY <1>2, <1>3

(* A claim loses its session, which no other claim has. *)
LEMMA HandedLose ==
    ASSUME NEW c \in Claimers, held \in [Claimers -> 0..MaxCreated], held[c] # 0,
           \A a, b \in Claimers : a # b /\ held[a] # 0 => held[a] # held[b],
           held' = [held EXCEPT ![c] = 0]
    PROVE  Handed' = Handed \ {held[c]}
<1>2. ASSUME NEW y \in Handed'
      PROVE  y \in Handed \ {held[c]}
    <2>1. PICK d \in Claimers : y = held'[d] /\ y # 0
        BY <1>2 DEF Handed
    <2>2. d # c /\ y = held[d]
        BY <2>1
    <2> QED BY <2>1, <2>2 DEF Handed
<1>3. ASSUME NEW y \in Handed \ {held[c]}
      PROVE  y \in Handed'
    <2>1. PICK d \in Claimers : y = held[d] /\ y # 0
        BY <1>3 DEF Handed
    <2>2. d # c
        BY <1>3, <2>1
    <2> QED BY <2>1, <2>2 DEF Handed
<1> QED BY <1>2, <1>3

(* Moves of claims that neither give nor take a session. *)
LEMMA PlaceSame ==
    ASSUME PoolInv,
           \A d \in Claimers : pc'[d] \in {"claimed", "destroying"}
                                 <=> pc[d] \in {"claimed", "destroying"},
           UNCHANGED <<held, warm, rep, repSession, culled, stale, dropped, gone, created>>
    PROVE  PlaceInv'
BY DEF PoolInv, PlaceInv, OwnerInv, SessionsPartitioned, Handed

(* Every step of the pool keeps each session in exactly one place. *)
LEMMA PlaceStep ==
    ASSUME PoolInv, [Next]_vars
    PROVE  PlaceInv'
<1>t. /\ TypeOK /\ QueueInv
      /\ pc \in [Claimers -> ClaimPC] /\ held \in [Claimers -> 0..MaxCreated]
      /\ created \in Nat /\ MaxCreated \in Nat
      /\ warm \subseteq Ids /\ culled \subseteq Ids /\ dropped \subseteq Ids
      /\ repSession \in 0..MaxCreated
    BY PoolAssumption DEF PoolInv, TypeOK
<1>o. /\ \A c \in Claimers : held[c] # 0 <=> pc[c] \in {"claimed", "destroying"}
      /\ repSession # 0 <=> rep \in {"created", "push", "discard"}
      /\ culled # {} => rep = "culling"
      /\ \A c, d \in Claimers : c # d /\ held[c] # 0 => held[c] # held[d]
    BY DEF PoolInv, OwnerInv, SessionsPartitioned
<1>1. ASSUME NEW c \in Claimers, TryAcquire(c)
      PROVE  PlaceInv'
    BY <1>t, <1>1, PlaceSame DEF TryAcquire, Step, repVars, sessions
<1>2. ASSUME NEW c \in Claimers, TryAcquireNoPermits(c)
      PROVE  PlaceInv'
    BY <1>t, <1>2, PlaceSame DEF TryAcquireNoPermits, Step, repVars, sessions
<1>3. ASSUME NEW c \in Claimers, QueueFull(c)
      PROVE  PlaceInv'
    BY <1>t, <1>3, PlaceSame DEF QueueFull, Step, repVars, sessions
<1>4. ASSUME NEW c \in Claimers, LaunchInline(c)
      PROVE  PlaceInv'
    BY <1>t, <1>4, PlaceSame DEF LaunchInline, Step, repVars, sessions
<1>5. ASSUME NEW c \in Claimers, LaunchOwn(c)
      PROVE  PlaceInv'
    BY <1>t, <1>5, PlaceSame DEF LaunchOwn, Step, repVars, sessions
<1>6. ASSUME NEW c \in Claimers, CancelLaunch(c)
      PROVE  PlaceInv'
    BY <1>t, <1>6, PlaceSame DEF CancelLaunch, Step, repVars, sessions
<1>7. ASSUME NEW c \in Claimers, Destroy(c)
      PROVE  PlaceInv'
    BY <1>t, <1>7, PlaceSame DEF Destroy, Step, repVars, sessions
<1>8. ASSUME NEW c \in Claimers, CountIn(c)
      PROVE  PlaceInv'
    BY <1>t, <1>8, PlaceSame DEF CountIn, Step, repVars, sessions
<1>9. ASSUME NEW c \in Claimers, Enqueue(c)
      PROVE  PlaceInv'
    BY <1>t, <1>9, PlaceSame DEF Enqueue, Step, repVars, sessions
<1>10. ASSUME NEW c \in Claimers, LeaveQueue(c)
      PROVE  PlaceInv'
    BY <1>t, <1>10, PlaceSame DEF LeaveQueue, Step, repVars, sessions
<1>11. ASSUME NEW c \in Claimers, PollGranted(c)
      PROVE  PlaceInv'
    <2>1. /\ pc[c] = "granted"
          /\ UNCHANGED <<held, warm, rep, repSession, culled, stale, dropped, gone, created>>
        BY <1>11 DEF PollGranted, Step, repVars, sessions
    <2>2. CASE Step(c, "granted", "slot")
        BY <1>t, <2>1, <2>2, PlaceSame DEF Step
    <2>3. CASE AddPermit([pc EXCEPT ![c] = "idle"])
        <3>1. /\ pc'[c] = "idle"
              /\ \A d \in Claimers : d # c =>
                    pc'[d] = pc[d] \/ (pc[d] = "queued" /\ pc'[d] = "granted")
            BY <1>t, <2>1, <2>3, ReleaseLemma
        <3> QED BY <2>1, <3>1, PlaceSame
    <2> QED BY <1>11, <2>2, <2>3 DEF PollGranted
<1>12. ASSUME NEW c \in Claimers, CancelGranted(c)
      PROVE  PlaceInv'
    <2>1. /\ pc[c] = "granted" /\ AddPermit([pc EXCEPT ![c] = "idle"])
          /\ UNCHANGED <<held, warm, rep, repSession, culled, stale, dropped, gone, created>>
        BY <1>12 DEF CancelGranted, repVars, sessions
    <2>2. /\ pc'[c] = "idle"
          /\ \A d \in Claimers : d # c =>
                pc'[d] = pc[d] \/ (pc[d] = "queued" /\ pc'[d] = "granted")
        BY <1>t, <2>1, ReleaseLemma
    <2> QED BY <2>1, <2>2, PlaceSame
<1>13. ASSUME NEW c \in Claimers, LaunchFailed(c)
      PROVE  PlaceInv'
    <2>1. /\ pc[c] = "launching" /\ AddPermit([pc EXCEPT ![c] = "idle"])
          /\ UNCHANGED <<held, warm, rep, repSession, culled, stale, dropped, gone, created>>
        BY <1>13 DEF LaunchFailed, repVars, sessions
    <2>2. /\ pc'[c] = "idle"
          /\ \A d \in Claimers : d # c =>
                pc'[d] = pc[d] \/ (pc[d] = "queued" /\ pc'[d] = "granted")
        BY <1>t, <2>1, ReleaseLemma
    <2> QED BY <2>1, <2>2, PlaceSame
<1>14. ASSUME NEW c \in Claimers, PopWarm(c)
      PROVE  PlaceInv'
    <2>1. /\ pc[c] = "slot" /\ held[c] = 0
          /\ UNCHANGED <<rep, repSession, culled, dropped, gone, created>>
        BY <1>o, <1>14 DEF PopWarm, repVars
    <2>2. PICK i \in warm :
             /\ warm' = warm \ {i}
             /\ \/ /\ pc' = [pc EXCEPT ![c] = "claimed"]
                   /\ held' = [held EXCEPT ![c] = i]
                   /\ UNCHANGED stale
                \/ /\ stale' = stale \cup {i}
                   /\ UNCHANGED <<pc, held>>
        BY <1>14 DEF PopWarm
    <2>3. i \in Ids /\ i # 0
        BY <1>t DEF Ids
    <2>4. CASE /\ pc' = [pc EXCEPT ![c] = "claimed"]
               /\ held' = [held EXCEPT ![c] = i]
               /\ UNCHANGED stale
        <3>1. Handed' = Handed \cup {i}
            BY <1>t, <2>1, <2>3, <2>4, HandedGain
        <3>2. OwnerInv'
            BY <1>t, <1>o, <2>1, <2>3, <2>4 DEF OwnerInv
        <3>3. i \notin Handed
            BY <2>2 DEF PoolInv, SessionsPartitioned
        <3>4. \A a, b \in Claimers : a # b /\ held'[a] # 0 => held'[a] # held'[b]
            BY <1>t, <1>o, <2>3, <2>4, <3>3 DEF Handed
        <3>5. SessionsPartitioned'
            BY <2>1, <2>2, <2>4, <3>1, <3>4 DEF PoolInv, SessionsPartitioned
        <3> QED BY <3>2, <3>5 DEF PlaceInv
    <2>5. CASE stale' = stale \cup {i} /\ UNCHANGED <<pc, held>>
        <3>1. Handed' = Handed
            BY <2>5 DEF Handed
        <3>2. OwnerInv'
            BY <1>o, <2>1, <2>5 DEF OwnerInv
        <3>3. SessionsPartitioned'
            BY <2>1, <2>2, <2>5, <3>1 DEF PoolInv, SessionsPartitioned
        <3> QED BY <3>2, <3>3 DEF PlaceInv
    <2> QED BY <2>2, <2>4, <2>5
<1>15. ASSUME NEW c \in Claimers, HandOut(c)
      PROVE  PlaceInv'
    <2>1. /\ pc[c] = "launching" /\ held[c] = 0 /\ created < MaxCreated
          /\ pc' = [pc EXCEPT ![c] = "claimed"]
          /\ held' = [held EXCEPT ![c] = created + 1]
          /\ created' = created + 1
          /\ UNCHANGED <<warm, rep, repSession, culled, stale, dropped, gone>>
        BY <1>o, <1>15 DEF HandOut, Step, repVars
    <2>2. created + 1 \in Ids /\ created + 1 # 0 /\ created + 1 \notin 1..created
          /\ 1..created' = (1..created) \cup {created + 1}
        BY <1>t, <2>1 DEF Ids
    <2>3. Handed' = Handed \cup {created + 1}
        BY <1>t, <2>1, <2>2, HandedGain
    <2>4. OwnerInv'
        BY <1>t, <1>o, <2>1, <2>2 DEF OwnerInv
    <2>5. Handed \subseteq 1..created
        BY DEF PoolInv, SessionsPartitioned
    <2>6. \A a, b \in Claimers : a # b /\ held'[a] # 0 => held'[a] # held'[b]
        <3>1. \A a \in Claimers : held[a] # created + 1
            BY <2>2, <2>5 DEF Handed
        <3> QED BY <1>t, <1>o, <2>1, <2>2, <3>1
    <2>7. SessionsPartitioned'
        BY <2>1, <2>2, <2>3, <2>6 DEF PoolInv, SessionsPartitioned
    <2> QED BY <2>4, <2>7 DEF PlaceInv
<1>16. ASSUME NEW c \in Claimers, DestroySession(c)
      PROVE  PlaceInv'
    <2>1. /\ pc[c] = "destroying" /\ held[c] # 0
          /\ AddPermit([pc EXCEPT ![c] = "idle"])
          /\ held' = [held EXCEPT ![c] = 0]
          /\ gone' = gone \cup {held[c]}
          /\ UNCHANGED <<warm, rep, repSession, culled, stale, dropped, created>>
        BY <1>o, <1>16 DEF DestroySession, repVars
    <2>2. /\ pc'[c] = "idle"
          /\ \A d \in Claimers : d # c =>
                pc'[d] = pc[d] \/ (pc[d] = "queued" /\ pc'[d] = "granted")
        BY <1>t, <2>1, ReleaseLemma
    <2>3. OwnerInv'
        <3>1. \A d \in Claimers : held'[d] # 0 <=> pc'[d] \in {"claimed", "destroying"}
            BY <1>t, <1>o, <2>1, <2>2
        <3> QED BY <1>o, <2>1, <3>1 DEF OwnerInv
    <2>4. Handed' = Handed \ {held[c]} /\ held[c] \in Handed
        BY <1>t, <1>o, <2>1, HandedLose DEF Handed
    <2>5. \A a, b \in Claimers : a # b /\ held'[a] # 0 => held'[a] # held'[b]
        BY <1>t, <1>o, <2>1
    <2>6. SessionsPartitioned'
        BY <2>1, <2>4, <2>5 DEF PoolInv, SessionsPartitioned
    <2> QED BY <2>3, <2>6 DEF PlaceInv
<1>17. ASSUME NEW c \in Claimers, DropClaimed(c)
      PROVE  PlaceInv'
    <2>1. /\ pc[c] = "claimed" /\ held[c] # 0
          /\ pc' = [pc EXCEPT ![c] = "idle"]
          /\ held' = [held EXCEPT ![c] = 0]
          /\ dropped' = dropped \cup {held[c]}
          /\ UNCHANGED <<warm, rep, repSession, culled, stale, gone, created>>
        BY <1>o, <1>17 DEF DropClaimed, Step, repVars
    <2>2. OwnerInv'
        BY <1>t, <1>o, <2>1 DEF OwnerInv
    <2>3. Handed' = Handed \ {held[c]} /\ held[c] \in Handed
        BY <1>t, <1>o, <2>1, HandedLose DEF Handed
    <2>4. \A a, b \in Claimers : a # b /\ held'[a] # 0 => held'[a] # held'[b]
        BY <1>t, <1>o, <2>1
    <2>5. SessionsPartitioned'
        BY <2>1, <2>3, <2>4 DEF PoolInv, SessionsPartitioned
    <2> QED BY <2>2, <2>5 DEF PlaceInv
<1>18. ASSUME NEW i \in Ids, DestroyDropped(i)
      PROVE  PlaceInv'
    <2>1. /\ i \in dropped /\ dropped' = dropped \ {i} /\ gone' = gone \cup {i}
          /\ AddPermit(pc)
          /\ UNCHANGED <<held, warm, rep, repSession, culled, stale, created>>
        BY <1>18 DEF DestroyDropped, repVars
    <2>2. /\ \A d \in Claimers : pc[d] # "queued" => pc'[d] = pc[d]
          /\ \A d \in Claimers : pc[d] = "queued" => pc'[d] \in {"queued", "granted"}
        <3>1. /\ permits \in Nat /\ queue \in Seq(Claimers)
              /\ \A k \in 1..Len(queue) : pc[queue[k]] = "queued"
              /\ \A k, l \in 1..Len(queue) : queue[k] = queue[l] => k = l
            BY <1>t DEF TypeOK, QueueInv
        <3> QED BY <1>t, <2>1, <3>1, AddPermitLemma
    <2>3. OwnerInv'
        BY <1>o, <2>1, <2>2 DEF OwnerInv
    <2>4. Handed' = Handed
        BY <2>1 DEF Handed
    <2>5. SessionsPartitioned'
        BY <2>1, <2>4 DEF PoolInv, SessionsPartitioned
    <2> QED BY <2>3, <2>5 DEF PlaceInv
<1>19. ASSUME NEW i \in Ids, DestroyStale(i)
      PROVE  PlaceInv'
    <2>1. /\ i \in stale /\ stale' = stale \ {i} /\ gone' = gone \cup {i}
          /\ UNCHANGED <<pc, held, warm, rep, repSession, culled, dropped, created>>
        BY <1>t, <1>o, <1>19 DEF DestroyStale, claims, repVars
    <2>2. OwnerInv'
        BY <1>o, <2>1 DEF OwnerInv
    <2>3. Handed' = Handed
        BY <2>1 DEF Handed
    <2>4. SessionsPartitioned'
        BY <1>o, <2>1, <2>3 DEF PoolInv, SessionsPartitioned
    <2> QED BY <2>2, <2>4 DEF PlaceInv
<1>20. ASSUME RepCull
      PROVE  PlaceInv'
    <2>1. /\ rep = "cull" /\ rep' = "culling" /\ culled = {}
          /\ culled' \subseteq warm /\ warm' = warm \ culled'
          /\ UNCHANGED <<pc, held, repSession, stale, dropped, gone, created>>
        BY <1>t, <1>o, <1>20 DEF RepCull, RepGoto, Expired, claims, sessions
    <2>2. OwnerInv'
        BY <1>o, <2>1 DEF OwnerInv
    <2>3. Handed' = Handed
        BY <2>1 DEF Handed
    <2>4. SessionsPartitioned'
        BY <1>o, <2>1, <2>3 DEF PoolInv, SessionsPartitioned
    <2> QED BY <2>2, <2>4 DEF PlaceInv
<1>21. ASSUME RepDestroyCulled
      PROVE  PlaceInv'
    <2>1. \E i \in culled : /\ rep = "culling" /\ culled' = culled \ {i} /\ gone' = gone \cup {i}
                           /\ UNCHANGED <<pc, held, warm, rep, repSession, stale, dropped, created>>
        BY <1>t, <1>o, <1>21 DEF RepDestroyCulled, claims
    <2>2. OwnerInv'
        BY <1>o, <2>1 DEF OwnerInv
    <2>3. Handed' = Handed
        BY <2>1 DEF Handed
    <2>4. SessionsPartitioned'
        BY <1>o, <2>1, <2>3 DEF PoolInv, SessionsPartitioned
    <2> QED BY <2>2, <2>4 DEF PlaceInv
<1>22. ASSUME RepCreated
      PROVE  PlaceInv'
    <2>1. /\ rep = "create" /\ rep' = "created" /\ repSession = 0 /\ culled = {}
          /\ repSession' = created + 1 /\ created' = created + 1
          /\ 1..created' = (1..created) \cup {created + 1}
          /\ created + 1 # 0 /\ created + 1 \notin 1..created
          /\ UNCHANGED <<pc, held, warm, culled, stale, dropped, gone>>
        BY <1>t, <1>o, <1>22 DEF RepCreated, RepGoto, claims
    <2>2. OwnerInv'
        BY <1>o, <2>1 DEF OwnerInv
    <2>3. Handed' = Handed
        BY <2>1 DEF Handed
    <2>4. SessionsPartitioned'
        BY <1>o, <2>1, <2>3 DEF PoolInv, SessionsPartitioned
    <2> QED BY <2>2, <2>4 DEF PlaceInv
<1>23. ASSUME RepPush
      PROVE  PlaceInv'
    <2>1. /\ rep = "push" /\ rep' = "check" /\ repSession # 0 /\ culled = {}
          /\ warm' = warm \cup {repSession} /\ repSession' = 0
          /\ UNCHANGED <<pc, held, culled, stale, dropped, gone, created>>
        BY <1>t, <1>o, <1>23 DEF RepPush, RepGoto, claims, sessions
    <2>2. OwnerInv'
        BY <1>o, <2>1 DEF OwnerInv
    <2>3. Handed' = Handed
        BY <2>1 DEF Handed
    <2>4. SessionsPartitioned'
        BY <1>o, <2>1, <2>3 DEF PoolInv, SessionsPartitioned
    <2> QED BY <2>2, <2>4 DEF PlaceInv
<1>24. ASSUME RepDiscard
      PROVE  PlaceInv'
    <2>1. /\ rep = "discard" /\ rep' = "done" /\ repSession # 0 /\ culled = {}
          /\ gone' = gone \cup {repSession} /\ repSession' = 0
          /\ UNCHANGED <<pc, held, warm, culled, stale, dropped, created>>
        BY <1>t, <1>o, <1>24 DEF RepDiscard, RepGoto, claims
    <2>2. OwnerInv'
        BY <1>o, <2>1 DEF OwnerInv
    <2>3. Handed' = Handed
        BY <2>1 DEF Handed
    <2>4. SessionsPartitioned'
        BY <1>o, <2>1, <2>3 DEF PoolInv, SessionsPartitioned
    <2> QED BY <2>2, <2>4 DEF PlaceInv
<1>25. ASSUME RepCheck \/ RepMeasure \/ RepDecide \/ RepWake \/ RepCreateFailed \/ RepBackoff \/ RepRecheck
      PROVE  PlaceInv'
    <2>1. /\ repSession' # 0 <=> rep' \in {"created", "push", "discard"}
          /\ culled' # {} => rep' = "culling"
          /\ UNCHANGED <<pc, held, warm, repSession, culled, stale, dropped, gone, created>>
        BY <1>t, <1>o, <1>25 DEF RepCheck, RepMeasure, RepDecide, RepWake, RepCreateFailed, RepBackoff,
           RepRecheck, RepGoto, claims, sessions
    <2>2. OwnerInv'
        BY <1>o, <2>1 DEF OwnerInv
    <2>3. Handed' = Handed
        BY <2>1 DEF Handed
    <2>4. SessionsPartitioned'
        BY <1>o, <2>1, <2>3 DEF PoolInv, SessionsPartitioned
    <2> QED BY <2>2, <2>4 DEF PlaceInv
<1>26. ASSUME DrainWarm
      PROVE  PlaceInv'
    <2>1. /\ stale' = stale \cup warm /\ warm' = {}
          /\ UNCHANGED <<pc, held, rep, repSession, culled, dropped, gone, created>>
        BY <1>t, <1>o, <1>26 DEF DrainWarm, claims, repVars
    <2>2. OwnerInv'
        BY <1>o, <2>1 DEF OwnerInv
    <2>3. Handed' = Handed
        BY <2>1 DEF Handed
    <2>4. SessionsPartitioned'
        BY <1>o, <2>1, <2>3 DEF PoolInv, SessionsPartitioned
    <2> QED BY <2>2, <2>4 DEF PlaceInv
<1>27. ASSUME \/ \E t \in Targets : SetMaxSessions(t)
              \/ \E i \in Ids : BrowserDies(i)
              \/ CloseSemaphore \/ EndCalibration \/ Drained \/ UNCHANGED vars
      PROVE  PlaceInv'
    <2>1. UNCHANGED <<pc, held, warm, rep, repSession, culled, stale, dropped, gone, created>>
        BY <1>27 DEF SetMaxSessions, BrowserDies, CloseSemaphore, EndCalibration, Drained, vars,
                    claims, repVars, sessions
    <2> QED BY <2>1, PlaceSame
<1>28. ASSUME NEW c \in Claimers, Claim(c)
       PROVE  PlaceInv'
    BY <1>28, <1>1, <1>2, <1>3, <1>4, <1>5, <1>6, <1>7, <1>8, <1>9, <1>10, <1>11, <1>12,
       <1>13, <1>14, <1>15, <1>16, <1>17
       DEF Claim, QueueTimeout, CancelQueued, SeeClosed
<1>29. ASSUME Replenisher
       PROVE  PlaceInv'
    BY <1>29, <1>20, <1>21, <1>22, <1>23, <1>24, <1>25 DEF Replenisher
<1>30. \/ \E c \in Claimers : Claim(c)
       \/ \E i \in Ids : DestroyDropped(i)
       \/ \E i \in Ids : DestroyStale(i)
       \/ Replenisher
       \/ DrainWarm
       \/ (\/ \E t \in Targets : SetMaxSessions(t)
           \/ \E i \in Ids : BrowserDies(i)
           \/ CloseSemaphore \/ EndCalibration \/ Drained \/ UNCHANGED vars)
    BY DEF Next
<1> QED BY <1>18, <1>19, <1>26, <1>27, <1>28, <1>29, <1>30

-----------------------------------------------------------------------------
(* The part of PoolInv about the warm stock. *)
FillInv == StockInv /\ WarmBound

(* A stock that does not grow under a replenisher that does not move, or    *)
(* moves away from its decision and its launches, stays within its bound.   *)
LEMMA StockShrinks ==
    ASSUME PoolInv, warm' \subseteq warm,
           \/ rep' = rep /\ repWarm' = repWarm
           \/ rep' \notin {"decide", "create", "created", "push"}
    PROVE  FillInv'
<1>1. /\ MinReady \in Nat /\ warm \subseteq Ids /\ repWarm \in Nat
    BY PoolAssumption DEF PoolInv, TypeOK
<1>2. /\ IsFiniteSet(warm) /\ Cardinality(warm) \in Nat
      /\ Cardinality(warm') \in Nat
      /\ Cardinality(warm') <= Cardinality(warm)
    BY <1>1, IdsFinite, FS_Subset
<1>3. /\ rep = "decide" => Cardinality(warm) <= repWarm
      /\ Cardinality(warm) + (IF rep \in {"create", "created", "push"} THEN 1 ELSE 0) <= MinReady
    BY DEF PoolInv, StockInv, WarmBound
<1>4. StockInv'
    BY <1>1, <1>2, <1>3 DEF StockInv
<1>5. WarmBound'
    BY <1>1, <1>2, <1>3 DEF WarmBound
<1> QED BY <1>4, <1>5 DEF FillInv

(* Every step keeps the stock within its floor: the replenisher's reads are *)
(* stale only in the safe direction.                                        *)
LEMMA StockStep ==
    ASSUME PoolInv, [Next]_vars
    PROVE  FillInv'
<1>1. /\ MinReady \in Nat /\ warm \subseteq Ids /\ repWarm \in Nat
      /\ IsFiniteSet(warm) /\ Cardinality(warm) \in Nat
      /\ permits \in Nat /\ maxSessions \in Nat
    BY PoolAssumption, IdsFinite DEF PoolInv, TypeOK
<1>2. /\ rep = "decide" => Cardinality(warm) <= repWarm
      /\ Cardinality(warm) + (IF rep \in {"create", "created", "push"} THEN 1 ELSE 0) <= MinReady
    BY DEF PoolInv, StockInv, WarmBound
<1>3. ASSUME NEW c \in Claimers, Claim(c)
      PROVE  FillInv'
    <2>1. warm' \subseteq warm /\ rep' = rep /\ repWarm' = repWarm
        BY <1>3 DEF Claim, TryAcquire, TryAcquireNoPermits, CountIn, QueueFull, Enqueue,
            QueueTimeout, CancelQueued, SeeClosed, LeaveQueue, PollGranted, CancelGranted,
            PopWarm, LaunchInline, LaunchOwn, HandOut, LaunchFailed, CancelLaunch, Destroy,
            DestroySession, DropClaimed, repVars
    <2> QED BY <2>1, StockShrinks
<1>4. ASSUME RepMeasure
      PROVE  FillInv'
    <2>1. rep' = "decide" /\ repWarm' = Cardinality(warm) /\ warm' = warm
        BY <1>4 DEF RepMeasure, RepGoto
    <2>2. StockInv'
        BY <1>1, <2>1 DEF StockInv
    <2>3. WarmBound'
        BY <1>1, <1>2, <2>1 DEF WarmBound
    <2> QED BY <2>2, <2>3 DEF FillInv
<1>5. ASSUME RepDecide
      PROVE  FillInv'
    <2>1. rep = "decide" /\ rep' = (IF Wanted = 0 THEN "wait" ELSE "create") /\ warm' = warm
        BY <1>5 DEF RepDecide, RepGoto
    <2>2. CASE Wanted = 0
        BY <2>1, <2>2, StockShrinks
    <2>3. CASE Wanted # 0
        <3>1. repWarm < MinReady
            BY <1>1, <2>3 DEF Wanted, SaturatingSub
        <3>2. rep' = "create"
            BY <2>1, <2>3
        <3>3. StockInv'
            BY <3>2 DEF StockInv
        <3>4. WarmBound'
            BY <1>1, <1>2, <2>1, <3>1, <3>2 DEF WarmBound
        <3> QED BY <3>3, <3>4 DEF FillInv
    <2> QED BY <2>2, <2>3
<1>6. ASSUME RepCreated \/ RepRecheck
      PROVE  FillInv'
    <2>1. /\ rep \in {"create", "created", "push"} /\ rep' # "decide" /\ warm' = warm
        BY <1>6 DEF RepCreated, RepRecheck, RepGoto
    <2>2. StockInv'
        BY <2>1 DEF StockInv
    <2>3. WarmBound'
        BY <1>1, <1>2, <2>1 DEF WarmBound
    <2> QED BY <2>2, <2>3 DEF FillInv
<1>7. ASSUME RepPush
      PROVE  FillInv'
    <2>1. rep = "push" /\ rep' = "check" /\ warm' = warm \cup {repSession}
        BY <1>7 DEF RepPush, RepGoto
    <2>2. Cardinality(warm') = Cardinality(warm) \/ Cardinality(warm') = Cardinality(warm) + 1
        <3>1. Cardinality(warm \cup {repSession})
                 = IF repSession \in warm THEN Cardinality(warm) ELSE Cardinality(warm) + 1
            BY <1>1, FS_AddElement
        <3> QED BY <2>1, <3>1
    <2>3. StockInv'
        BY <2>1 DEF StockInv
    <2>4. WarmBound'
        BY <1>1, <1>2, <2>1, <2>2 DEF WarmBound
    <2> QED BY <2>3, <2>4 DEF FillInv
<1>8. ASSUME \/ RepCheck \/ RepCull \/ RepDestroyCulled \/ RepWake \/ RepCreateFailed
             \/ RepBackoff \/ RepDiscard
      PROVE  FillInv'
    <2>1. /\ warm' \subseteq warm
          /\ \/ rep' = rep /\ repWarm' = repWarm
             \/ rep' \notin {"decide", "create", "created", "push"}
        BY <1>8 DEF RepCheck, RepCull, RepDestroyCulled, RepWake, RepCreateFailed, RepBackoff,
            RepDiscard, RepGoto
    <2> QED BY <2>1, StockShrinks
<1>9. ASSUME Replenisher
      PROVE  FillInv'
    BY <1>4, <1>5, <1>6, <1>7, <1>8, <1>9 DEF Replenisher
<1>10. ASSUME ~Replenisher, ~\E c \in Claimers : Claim(c)
       PROVE  FillInv'
    <2>1. warm' \subseteq warm /\ rep' = rep /\ repWarm' = repWarm
        BY <1>10 DEF Next, DestroyDropped, DestroyStale, BrowserDies, CloseSemaphore, DrainWarm,
            SetMaxSessions, EndCalibration, Drained, vars, repVars
    <2> QED BY <2>1, StockShrinks
<1> QED BY <1>3, <1>9, <1>10

-----------------------------------------------------------------------------
(* Every step keeps the types: the counters do not go below zero. *)
LEMMA TypeStep ==
    ASSUME PoolInv, [Next]_vars
    PROVE  TypeOK'
<1>t. /\ TypeOK /\ QueueInv
      /\ MaxCreated \in Nat /\ Targets \subseteq Nat
    BY PoolAssumption DEF PoolInv
<1>o. /\ \A c \in Claimers : held[c] # 0 <=> pc[c] \in {"claimed", "destroying"}
      /\ repSession # 0 <=> rep \in {"created", "push", "discard"}
    BY DEF PoolInv, OwnerInv
<1>1. waiting' \in Nat
    BY CountStep, WhereFinite DEF CountInv, WaitingInv
<1>b. notified' \in BOOLEAN /\ closed' \in BOOLEAN
    <2>1. notified \in BOOLEAN /\ closed \in BOOLEAN
        BY <1>t DEF TypeOK
    <2>2. /\ notified' = notified \/ notified' = TRUE \/ notified' = FALSE
          /\ closed' = closed \/ closed' = TRUE
        BY DEF Next, Claim, TryAcquire, TryAcquireNoPermits, CountIn, QueueFull, Enqueue,
            QueueTimeout, CancelQueued, SeeClosed, LeaveQueue, PollGranted, CancelGranted,
            PopWarm, LaunchInline, LaunchOwn, HandOut, LaunchFailed, CancelLaunch, Destroy,
            DestroySession, DropClaimed, DestroyDropped, DestroyStale, BrowserDies, Replenisher,
            RepCheck, RepCull, RepDestroyCulled, RepMeasure, RepDecide, RepWake, RepCreated,
            RepCreateFailed, RepBackoff, RepRecheck, RepPush, RepDiscard, CloseSemaphore,
            DrainWarm, SetMaxSessions, EndCalibration, Drained, semaphore, vars
    <2> QED BY <2>1, <2>2
<1>2. ASSUME NEW c \in Claimers, Claim(c)
      PROVE  TypeOK'
    <2>1. /\ maxSessions' = maxSessions
          /\ rep' = rep /\ repSession' = repSession /\ repWarm' = repWarm /\ culled' = culled
          /\ closer' = closer /\ calibration' = calibration
        BY <1>2 DEF Claim, TryAcquire, TryAcquireNoPermits, CountIn, QueueFull, Enqueue,
            QueueTimeout, CancelQueued, SeeClosed, LeaveQueue, PollGranted, CancelGranted,
            PopWarm, LaunchInline, LaunchOwn, HandOut, LaunchFailed, CancelLaunch, Destroy,
            DestroySession, DropClaimed, repVars, server, semaphore
    <2>2. /\ created' \in 0..MaxCreated /\ alive' \subseteq Ids /\ dropped' \subseteq Ids
          /\ stale' \subseteq Ids /\ gone' \subseteq Ids /\ warm' \subseteq Ids
          /\ held' \in [Claimers -> 0..MaxCreated]
          /\ leaked' \in Nat
        <3>1. CASE PopWarm(c)
            <4>1. PICK i \in warm :
                     /\ warm' = warm \ {i}
                     /\ \/ held' = [held EXCEPT ![c] = i] /\ stale' = stale
                        \/ held' = held /\ stale' = stale \cup {i}
                BY <3>1 DEF PopWarm
            <4>2. i \in 0..MaxCreated /\ i \in Ids
                BY <1>t DEF TypeOK, Ids
            <4>3. /\ created' = created /\ alive' = alive
                  /\ dropped' = dropped /\ gone' = gone /\ leaked' = leaked
                BY <3>1 DEF PopWarm, server
            <4> QED BY <1>t, <4>1, <4>2, <4>3 DEF TypeOK
        <3>2. CASE HandOut(c)
            <4>1. created' \in 0..MaxCreated /\ created' \in Ids
                BY <1>t, <3>2 DEF HandOut, TypeOK, Ids
            <4> QED BY <1>t, <3>2, <4>1 DEF HandOut, TypeOK, server
        <3>3. CASE DestroySession(c) \/ DropClaimed(c)
            <4>1. held[c] \in Ids /\ 0 \in 0..MaxCreated
                BY <1>t, <1>o, <3>3 DEF DestroySession, DropClaimed, Step, TypeOK, Ids
            <4> QED BY <1>t, <3>3, <4>1 DEF DestroySession, DropClaimed, TypeOK, server
        <3>4. CASE /\ UNCHANGED <<sessions, warm, held>>
                   /\ leaked' \in {leaked, leaked + 1}
            BY <1>t, <3>4 DEF TypeOK, sessions
        <3> QED BY <1>2, <3>1, <3>2, <3>3, <3>4 DEF Claim, TryAcquire, TryAcquireNoPermits,
                CountIn, QueueFull, Enqueue, QueueTimeout, CancelQueued, SeeClosed, LeaveQueue,
                PollGranted, CancelGranted, LaunchInline, LaunchOwn, LaunchFailed, CancelLaunch,
                Destroy, server
    <2>3. permits' \in Nat /\ queue' \in Seq(Claimers) /\ pc' \in [Claimers -> ClaimPC]
        <3>0. /\ permits \in Nat /\ queue \in Seq(Claimers) /\ pc \in [Claimers -> ClaimPC]
            BY <1>t DEF TypeOK
        <3>1. CASE AddPermit([pc EXCEPT ![c] = "idle"]) /\ pc[c] # "queued"
            BY <1>t, <3>1, ReleaseLemma
        <3>2. CASE LeaveQueue(c)
            BY <3>0, <3>2, LeaveQueueLemma, PCFacts DEF LeaveQueue, Step
        <3>3. CASE Enqueue(c)
            BY SMTT(30), <3>0, <3>3, PCFacts DEF Enqueue, Step
        <3>4. CASE TryAcquire(c)
            BY <3>0, <3>4, PCFacts DEF TryAcquire, Step
        <3>5. CASE PollGranted(c)
            BY <3>0, <3>1, <3>5, PCFacts DEF PollGranted, Step
        <3>6. CASE CancelGranted(c) \/ LaunchFailed(c) \/ DestroySession(c)
            BY <3>1, <3>6 DEF CancelGranted, LaunchFailed, DestroySession
        <3>7. CASE CountIn(c)
            BY <3>0, <3>7, PCFacts DEF CountIn, Step, semaphore
        <3>8. CASE PopWarm(c)
            BY <3>0, <3>8, PCFacts DEF PopWarm, semaphore
        <3>9. CASE \/ TryAcquireNoPermits(c) \/ QueueFull(c) \/ LaunchInline(c) \/ LaunchOwn(c)
                   \/ HandOut(c) \/ CancelLaunch(c) \/ Destroy(c) \/ DropClaimed(c)
            BY <3>0, <3>9, PCFacts DEF TryAcquireNoPermits, QueueFull, LaunchInline, LaunchOwn,
                HandOut, CancelLaunch, Destroy, DropClaimed, Step, semaphore
        <3> QED BY <1>2, <3>2, <3>3, <3>4, <3>5, <3>6, <3>7, <3>8, <3>9
                DEF Claim, QueueTimeout, CancelQueued, SeeClosed
    <2> QED BY <1>1, <1>b, <1>t, <2>1, <2>2, <2>3 DEF TypeOK
<1>3. ASSUME NEW i \in Ids, DestroyDropped(i)
      PROVE  TypeOK'
    <2>1. permits' \in Nat /\ queue' \in Seq(Claimers) /\ pc' \in [Claimers -> ClaimPC]
        <3>1. /\ permits \in Nat /\ queue \in Seq(Claimers) /\ pc \in [Claimers -> ClaimPC]
              /\ \A k \in 1..Len(queue) : pc[queue[k]] = "queued"
              /\ \A k, l \in 1..Len(queue) : queue[k] = queue[l] => k = l
              /\ AddPermit(pc)
            BY <1>t, <1>3 DEF TypeOK, QueueInv, DestroyDropped
        <3> QED BY <3>1, AddPermitLemma
    <2> QED BY <1>1, <1>b, <1>t, <1>3, <2>1 DEF TypeOK, DestroyDropped, repVars, server
<1>4. ASSUME Replenisher
      PROVE  TypeOK'
    <2>1. /\ permits' = permits /\ queue' = queue
          /\ maxSessions' = maxSessions /\ pc' = pc /\ held' = held
          /\ closer' = closer /\ calibration' = calibration /\ leaked' = leaked
        BY <1>4 DEF Replenisher, RepCheck, RepCull, RepDestroyCulled, RepMeasure, RepDecide,
            RepWake, RepCreated, RepCreateFailed, RepBackoff, RepRecheck, RepPush, RepDiscard,
            semaphore, claims, server
    <2>2. rep' \in RepPC
        BY <1>t, <1>4 DEF Replenisher, RepCheck, RepCull, RepDestroyCulled, RepMeasure,
            RepDecide, RepWake, RepCreated, RepCreateFailed, RepBackoff, RepRecheck, RepPush,
            RepDiscard, RepGoto, RepPC, TypeOK
    <2>3. /\ warm' \subseteq Ids /\ repSession' \in 0..MaxCreated
          /\ repWarm' \in Nat /\ culled' \subseteq Ids /\ created' \in 0..MaxCreated
          /\ alive' \subseteq Ids /\ dropped' \subseteq Ids /\ stale' \subseteq Ids
          /\ gone' \subseteq Ids
        <3>1. CASE RepCull
            BY <1>t, <3>1 DEF RepCull, Expired, TypeOK, sessions
        <3>2. CASE RepMeasure
            BY <1>t, <3>2, IdsFinite DEF RepMeasure, TypeOK, sessions
        <3>3. CASE RepCreated
            BY <1>t, <3>3 DEF RepCreated, TypeOK, Ids
        <3>4. CASE RepPush \/ RepDiscard
            <4>1. repSession \in Ids
                BY <1>t, <1>o, <3>4 DEF RepPush, RepDiscard, RepGoto, TypeOK, Ids
            <4>2. repSession' = 0 /\ 0 \in 0..MaxCreated
                BY <1>t, <3>4 DEF RepPush, RepDiscard
            <4>3. CASE RepPush
                BY <1>t, <4>1, <4>2, <4>3 DEF RepPush, TypeOK, sessions
            <4>4. CASE RepDiscard
                BY <1>t, <4>1, <4>2, <4>4 DEF RepDiscard, TypeOK
            <4> QED BY <3>4, <4>3, <4>4
        <3>5. CASE RepDestroyCulled
            BY <1>t, <3>5 DEF RepDestroyCulled, TypeOK
        <3>6. CASE RepCheck \/ RepDecide \/ RepWake \/ RepCreateFailed \/ RepBackoff \/ RepRecheck
            BY <1>t, <3>6 DEF RepCheck, RepDecide, RepWake, RepCreateFailed, RepBackoff,
                RepRecheck, TypeOK, sessions
        <3> QED BY <1>4, <3>1, <3>2, <3>3, <3>4, <3>5, <3>6 DEF Replenisher
    <2> QED BY <1>1, <1>b, <1>t, <2>1, <2>2, <2>3 DEF TypeOK
<1>5. ASSUME NEW i \in Ids, DestroyStale(i) \/ BrowserDies(i)
      PROVE  TypeOK'
    BY <1>1, <1>b, <1>t, <1>5 DEF TypeOK, DestroyStale, BrowserDies, semaphore, claims, repVars, server
<1>6. ASSUME CloseSemaphore \/ DrainWarm \/ EndCalibration
      PROVE  TypeOK'
    <2>1. CASE CloseSemaphore
        <3>1. queue' \in Seq(Claimers)
            BY <2>1 DEF CloseSemaphore
        <3> QED BY <1>1, <1>b, <1>t, <2>1, <3>1 DEF TypeOK, CloseSemaphore, claims, repVars,
                sessions
    <2>2. CASE DrainWarm
        BY <1>1, <1>b, <1>t, <2>2 DEF TypeOK, DrainWarm, semaphore, claims, repVars
    <2>3. CASE EndCalibration
        BY <1>1, <1>b, <1>t, <2>3 DEF TypeOK, EndCalibration, semaphore, claims, repVars,
            sessions
    <2> QED BY <1>6, <2>1, <2>2, <2>3
<1>7. ASSUME NEW t \in Targets, SetMaxSessions(t)
      PROVE  TypeOK'
    <2>1. permits \in Nat /\ maxSessions \in Nat \ {0} /\ t \in Nat
        BY <1>t DEF TypeOK
    <2>2. permits' \in Nat /\ maxSessions' \in Nat \ {0} /\ calibration' = "resized"
        BY <1>7, <2>1 DEF SetMaxSessions, SaturatingSub
    <2>3. UNCHANGED <<queue, closed, waiting, warm, notified, pc, held, rep, repSession, repWarm,
                      culled, created, alive, dropped, stale, gone, closer, leaked>>
        BY <1>7 DEF SetMaxSessions, claims, repVars, sessions
    <2> QED BY <1>1, <1>b, <1>t, <2>2, <2>3 DEF TypeOK
<1>8. ASSUME Drained \/ UNCHANGED vars
      PROVE  TypeOK'
    BY <1>1, <1>b, <1>t, <1>8 DEF TypeOK, Drained, vars
<1> QED BY <1>2, <1>3, <1>4, <1>5, <1>6, <1>7, <1>8 DEF Next

-----------------------------------------------------------------------------
(* The pool starts in its invariant: all slots free, nothing launched.      *)
LEMMA PoolInit == Init => PoolInv
<1> SUFFICES ASSUME Init PROVE PoolInv
    OBVIOUS
<1>1. TypeOK
    <2>1. closed \in BOOLEAN /\ notified \in BOOLEAN
        BY DEF Init
    <2>2. pc \in [Claimers -> ClaimPC] /\ rep \in RepPC
        BY PCFacts DEF Init, RepPC
    <2>3. queue \in Seq(Claimers)
        BY DEF Init
    <2> QED BY <2>1, <2>2, <2>3, PoolAssumption DEF Init, TypeOK
<1>2. ASSUME NEW P, "idle" \notin P
      PROVE  Cardinality(Where(pc, P)) = 0
    <2>1. Where(pc, P) = {}
        BY <1>2 DEF Where, Init
    <2> QED BY <2>1, FS_EmptySet
<1>3. /\ Cardinality(Where(pc, HolderPC)) = 0
      /\ Cardinality(Where(pc, WaiterPC)) = 0
      /\ Cardinality(Where(pc, AcceptedPC)) = 0
    BY <1>2, PCFacts
<1>4. Cardinality({}) = 0
    BY FS_EmptySet
<1>5. QueueInv /\ OwnerInv /\ StockInv /\ CalibrationInv
    BY DEF Init, QueueInv, OwnerInv, StockInv, CalibrationInv
<1>6. WaitingInv /\ SlotsConserved /\ QueueBound /\ WarmBound
    BY <1>3, <1>4, PoolAssumption DEF Init, WaitingInv, SlotsConserved, QueueBound, WarmBound
<1>7. Handed = {}
    BY DEF Init, Handed
<1>8. SessionsPartitioned
    BY <1>7 DEF Init, SessionsPartitioned
<1> QED BY <1>1, <1>5, <1>6, <1>8 DEF PoolInv

(* PoolInv is inductive, so every state the pool reaches satisfies it,      *)
(* however many claims, slots, queue places and sessions there are.         *)
THEOREM PoolInvariant == Spec => []PoolInv
<1>1. PoolInv /\ [Next]_vars => PoolInv'
    BY CountStep, PlaceStep, StockStep, TypeStep DEF PoolInv, CountInv, PlaceInv, FillInv
<1> QED BY <1>1, PoolInit, PTL DEF Spec

(* The types hold throughout; in particular the counter behind CounterGuard *)
(* (an unsigned integer in the code) and the permits never go below zero.   *)
THEOREM TypeCorrect == Spec => []TypeOK
<1>1. PoolInv => TypeOK
    BY DEF PoolInv
<1> QED BY <1>1, PoolInvariant, PTL

(* acquire_slot, hand_out, destroy, Claimed::drop, close and                *)
(* set_max_sessions together neither lose nor invent a slot, except for the *)
(* one a claim dropped during its launch takes with it.                     *)
THEOREM SlotAccounting == Spec => []SlotsConserved
<1>1. PoolInv => SlotsConserved
    BY DEF PoolInv
<1> QED BY <1>1, PoolInvariant, PTL

(* There are never more claimed sessions, or sessions of dropped claims     *)
(* still being destroyed, than the live ceiling allows.                     *)
THEOREM Capacity == Spec => []CapacityBound
<1>1. PoolInv => CapacityBound
    <2> SUFFICES ASSUME PoolInv PROVE CapacityBound
        OBVIOUS
    <2>1. /\ permits \in Nat /\ leaked \in Nat /\ maxSessions \in Nat /\ dropped \subseteq Ids
          /\ permits + Cardinality(Where(pc, HolderPC)) + Cardinality(dropped) + leaked
               = maxSessions
        BY DEF PoolInv, TypeOK, SlotsConserved
    <2>2. Where(pc, {"claimed", "destroying"}) \in SUBSET Where(pc, HolderPC)
        BY DEF Where, HolderPC
    <2>3. /\ Cardinality(Where(pc, {"claimed", "destroying"})) <= Cardinality(Where(pc, HolderPC))
          /\ Cardinality(Where(pc, {"claimed", "destroying"})) \in Nat
          /\ Cardinality(Where(pc, HolderPC)) \in Nat
        BY <2>2, WhereFinite, FS_Subset
    <2>4. Cardinality(dropped) \in Nat
        BY <2>1, IdsFinite
    <2> QED BY <2>1, <2>3, <2>4 DEF CapacityBound
<1> QED BY <1>1, PoolInvariant, PTL

(* No session is ever in two places or in none: pop_warm, hand_out, cull,   *)
(* close and the destroys pass each browser on exactly once.                *)
THEOREM OneOwner == Spec => []SessionsPartitioned
<1>1. PoolInv => SessionsPartitioned
    BY DEF PoolInv
<1> QED BY <1>1, PoolInvariant, PTL

(* The check-then-count of acquire_slot never lets more than max_queue      *)
(* claims wait.                                                             *)
THEOREM BoundedQueue == Spec => []QueueBound
<1>1. PoolInv => QueueBound
    BY DEF PoolInv
<1> QED BY <1>1, PoolInvariant, PTL

(* The replenisher never fills the stock beyond min_ready. *)
THEOREM BoundedStock == Spec => []WarmBound
<1>1. PoolInv => WarmBound
    BY DEF PoolInv
<1> QED BY <1>1, PoolInvariant, PTL

-----------------------------------------------------------------------------
(* Session by session, where the mapping finds it. *)
Serves(i)  == \E c \in Claimers : pc[c] = "claimed" /\ held[c] = i
Ends(i)    == i \in dropped \/ \E c \in Claimers : pc[c] = "destroying" /\ held[c] = i
Retires(i) == i \in stale \/ i \in culled \/ (rep = "discard" /\ i = repSession)

StageOf(i) ==
    IF i > created     THEN "unborn"
    ELSE IF i \in gone THEN "dead"
    ELSE IF Serves(i)  THEN "serving"
    ELSE IF Ends(i)    THEN "ending"
    ELSE IF Retires(i) THEN "retired"
    ELSE "ready"

(* The mapping, read session by session, before and after a step. *)
LEMMA StageReading ==
    /\ StageNow = [i \in Ids |-> StageOf(i)]
    /\ StageNow' = [i \in Ids |-> StageOf(i)']
<1>1. ASSUME NEW i \in Ids
      PROVE  /\ i \in ServingNow <=> Serves(i)
             /\ i \in EndingNow <=> Ends(i)
             /\ i \in RetiredNow <=> Retires(i)
    BY DEF ServingNow, EndingNow, RetiredNow, Serves, Ends, Retires
<1>2. ASSUME NEW i \in Ids
      PROVE  /\ i \in ServingNow' <=> Serves(i)'
             /\ i \in EndingNow' <=> Ends(i)'
             /\ i \in RetiredNow' <=> Retires(i)'
    BY DEF ServingNow, EndingNow, RetiredNow, Serves, Ends, Retires
<1>3. StageNow = [i \in Ids |-> StageOf(i)]
    BY <1>1 DEF StageNow, StageOf
<1>4. StageNow' = [i \in Ids |-> StageOf(i)']
    BY <1>2 DEF StageNow, StageOf
<1> QED BY <1>3, <1>4

(* What a session in each of the pool's places maps to. *)
LEMMA PlaceStage ==
    ASSUME PoolInv, NEW i \in Ids
    PROVE  /\ i > created => StageOf(i) = "unborn"
           /\ i \in warm => StageOf(i) = "ready"
           /\ i = repSession /\ rep # "discard" => StageOf(i) = "ready"
           /\ i = repSession /\ rep = "discard" => StageOf(i) = "retired"
           /\ Serves(i) => StageOf(i) = "serving"
           /\ Ends(i) => StageOf(i) = "ending"
           /\ i \in stale \cup culled => StageOf(i) = "retired"
           /\ i \in gone => StageOf(i) = "dead"
<1>1. /\ created \in Nat /\ MaxCreated \in Nat /\ repSession \in Nat
      /\ held \in [Claimers -> 0..MaxCreated]
    BY PoolAssumption DEF PoolInv, TypeOK
<1>2. i \in Nat /\ i # 0
    BY <1>1 DEF Ids
<1>3. \A c \in Claimers : held[c] = i => i \in Handed
    BY <1>2 DEF Handed
<1>4. Serves(i) => i \in Handed
    BY <1>3 DEF Serves
<1>5. Ends(i) => i \in Handed \/ i \in dropped
    BY <1>3 DEF Ends
<1>6. ~(Serves(i) /\ Ends(i))
    BY <1>2, <1>4 DEF Serves, Ends, PoolInv, SessionsPartitioned
<1>7. \A S \in {warm, Handed, {repSession} \ {0}, culled, stale, dropped, gone} :
          i \in S => ~(i > created)
    BY <1>1, <1>2 DEF PoolInv, SessionsPartitioned
<1> DEFINE inHand == {repSession} \ {0}
<1>8. /\ warm \cap (Handed \cup inHand \cup culled \cup stale \cup dropped \cup gone) = {}
      /\ Handed \cap (inHand \cup culled \cup stale \cup dropped \cup gone) = {}
      /\ inHand \cap (culled \cup stale \cup dropped \cup gone) = {}
      /\ culled \cap (stale \cup dropped \cup gone) = {}
      /\ stale \cap (dropped \cup gone) = {}
      /\ dropped \cap gone = {}
    BY DEF PoolInv, SessionsPartitioned
<1>9. i \in inHand <=> i = repSession
    BY <1>2
<1>10. i > created => StageOf(i) = "unborn"
    BY DEF StageOf
<1>11. i \in warm => StageOf(i) = "ready"
    BY <1>4, <1>5, <1>7, <1>8, <1>9 DEF StageOf, Retires
<1>12. i = repSession => StageOf(i) = IF rep = "discard" THEN "retired" ELSE "ready"
    BY <1>4, <1>5, <1>7, <1>8, <1>9 DEF StageOf, Retires
<1>13. Serves(i) => StageOf(i) = "serving"
    BY <1>4, <1>7, <1>8 DEF StageOf
<1>14. Ends(i) => StageOf(i) = "ending"
    BY <1>5, <1>6, <1>7, <1>8 DEF StageOf
<1>15. i \in stale \cup culled => StageOf(i) = "retired"
    BY <1>4, <1>5, <1>7, <1>8 DEF StageOf, Retires
<1>16. i \in gone => StageOf(i) = "dead"
    BY <1>7 DEF StageOf
<1> QED BY <1>10, <1>11, <1>12, <1>13, <1>14, <1>15, <1>16

(* A step that moves the sessions of S to one stage and leaves the others.  *)
LEMMA StageMove ==
    ASSUME NEW S, NEW to,
           \A i \in Ids : StageOf(i)' = IF i \in S THEN to ELSE StageOf(i)
    PROVE  Life!Move(S, to)
BY StageReading DEF Life!Move

(* A step that leaves every session where it is. *)
LEMMA StageSame ==
    ASSUME \A d \in Claimers : pc'[d] = "claimed" <=> pc[d] = "claimed",
           \A d \in Claimers : pc'[d] = "destroying" <=> pc[d] = "destroying",
           rep' = "discard" <=> rep = "discard",
           rep = "discard" => repSession' = repSession,
           UNCHANGED <<held, culled, stale, dropped, gone, created, maxSessions>>
    PROVE  UNCHANGED Life!lifeVars
<1>1. ASSUME NEW i
      PROVE  /\ Serves(i)' <=> Serves(i)
             /\ Ends(i)' <=> Ends(i)
             /\ Retires(i)' <=> Retires(i)
    BY DEF Serves, Ends, Retires
<1>2. \A i \in Ids : StageOf(i)' = StageOf(i)
    BY <1>1 DEF StageOf
<1> QED BY <1>2, StageReading DEF Life!lifeVars
(* SessionLife counts with the Cardinality of its own instance. *)
LEMMA SameCardinality ==
    ASSUME NEW S
    PROVE  Life!Cardinality(S) = Cardinality(S)
BY DEF Life!Cardinality, Cardinality

(* A claim that holds a slot and no session yet finds room: what serves or  *)
(* is being torn down occupies slots of its own.                            *)
LEMMA RoomForOne ==
    ASSUME PoolInv, NEW c \in Claimers, pc[c] \in {"slot", "launching"}
    PROVE  Cardinality(Life!Occupied) < maxSessions
<1> DEFINE owners == Where(pc, {"claimed", "destroying"})
           theirs == {held[d] : d \in owners}
<1>1. /\ permits \in Nat /\ leaked \in Nat /\ maxSessions \in Nat /\ dropped \subseteq Ids
      /\ permits + Cardinality(Where(pc, HolderPC)) + Cardinality(dropped) + leaked
           = maxSessions
    BY DEF PoolInv, TypeOK, SlotsConserved
<1>2. Life!Occupied \in SUBSET (theirs \cup dropped)
    <2>1. ASSUME NEW i \in Ids, StageOf(i) \in {"serving", "ending"}
          PROVE  i \in theirs \cup dropped
        BY <2>1 DEF StageOf, Serves, Ends, Where
    <2> QED BY <2>1, StageReading DEF Life!Occupied, Life!In
<1>3. IsFiniteSet(owners) /\ Cardinality(owners) \in Nat
    BY WhereFinite
<1>4. IsFiniteSet(theirs) /\ Cardinality(theirs) <= Cardinality(owners)
    <2> DEFINE f == [d \in owners |-> held[d]]
    <2>1. f \in Surjection(owners, theirs)
        BY DEF Surjection
    <2> HIDE DEF owners, theirs, f
    <2> QED BY <2>1, <1>3, FS_Surjection
<1>5. /\ IsFiniteSet(dropped) /\ Cardinality(dropped) \in Nat
      /\ Cardinality(theirs) \in Nat
    BY <1>1, <1>4, IdsFinite, FS_CardinalityType
<1>6. /\ IsFiniteSet(theirs \cup dropped) /\ Cardinality(theirs \cup dropped) \in Nat
      /\ Cardinality(theirs \cup dropped) <= Cardinality(theirs) + Cardinality(dropped)
    <2>1. IsFiniteSet(theirs \cap dropped) /\ Cardinality(theirs \cap dropped) \in Nat
        BY <1>4, FS_Subset, FS_CardinalityType
    <2> HIDE DEF theirs
    <2>2. /\ IsFiniteSet(theirs \cup dropped)
          /\ Cardinality(theirs \cup dropped)
               = Cardinality(theirs) + Cardinality(dropped) - Cardinality(theirs \cap dropped)
        BY <1>4, <1>5, FS_Union
    <2>3. Cardinality(theirs \cup dropped) \in Nat
        BY <2>2, FS_CardinalityType
    <2> QED BY <2>1, <2>2, <2>3, <1>5
<1>7. /\ IsFiniteSet(Life!Occupied) /\ Cardinality(Life!Occupied) \in Nat
      /\ Cardinality(Life!Occupied) <= Cardinality(theirs \cup dropped)
    <2> HIDE DEF theirs
    <2> QED BY <1>2, <1>6, FS_Subset, FS_CardinalityType
<1>8. Cardinality(owners) + 1 <= Cardinality(Where(pc, HolderPC))
    <2>1. c \notin owners
        BY DEF Where
    <2>2. owners \cup {c} \in SUBSET Where(pc, HolderPC)
        BY DEF Where, HolderPC
    <2>3. Cardinality(owners \cup {c}) = Cardinality(owners) + 1
        BY <2>1, <1>3, FS_AddElement
    <2>4. Cardinality(owners \cup {c}) <= Cardinality(Where(pc, HolderPC))
        BY <2>2, WhereFinite, FS_Subset
    <2> QED BY <2>3, <2>4
<1>9. Cardinality(Where(pc, HolderPC)) \in Nat
    BY WhereFinite
<1> HIDE DEF owners, theirs
<1> QED BY <1>1, <1>3, <1>4, <1>5, <1>6, <1>7, <1>8, <1>9

(* Before any claim is let in, no session is occupied. *)
LEMMA NoneOccupied ==
    ASSUME PoolInv, calibration # "done"
    PROVE  Life!Occupied = {}
<1>1. dropped = {} /\ \A c \in Claimers : pc[c] = "idle"
    BY DEF PoolInv, CalibrationInv
<1>2. ASSUME NEW i \in Ids
      PROVE  StageOf(i) \notin {"serving", "ending"}
    BY <1>1 DEF StageOf, Serves, Ends
<1> QED BY <1>2, StageReading DEF Life!Occupied, Life!In

(* The steps of claims that hand out or take back a session. *)
LEMMA ClaimLife ==
    ASSUME PoolInv, NEW c \in Claimers, Claim(c)
    PROVE  [Life!Next]_(Life!lifeVars)
<1>t. /\ TypeOK /\ QueueInv
      /\ pc \in [Claimers -> ClaimPC] /\ held \in [Claimers -> 0..MaxCreated]
      /\ created \in Nat /\ MaxCreated \in Nat
      /\ warm \subseteq Ids /\ dropped \subseteq Ids /\ gone \subseteq Ids
    BY PoolAssumption DEF PoolInv, TypeOK
<1>o. /\ \A d \in Claimers : held[d] # 0 <=> pc[d] \in {"claimed", "destroying"}
      /\ \A d, e \in Claimers : d # e /\ held[d] # 0 => held[d] # held[e]
    BY DEF PoolInv, OwnerInv, SessionsPartitioned
<1>h. ASSUME NEW d \in Claimers, held[d] # 0
      PROVE  held[d] \in Ids /\ held[d] <= created
    <2>1. held[d] \in Handed
        BY <1>h DEF Handed
    <2>2. held[d] \in 1..created
        BY <2>1 DEF PoolInv, SessionsPartitioned
    <2> QED BY <2>2, <1>t, <1>h DEF Ids
<1>s. ASSUME \A d \in Claimers : pc'[d] = pc[d] \/
                 (/\ pc[d] \notin {"claimed", "destroying"}
                  /\ pc'[d] \notin {"claimed", "destroying"}),
             UNCHANGED <<held, rep, repSession, culled, stale, dropped, gone, created,
                         maxSessions>>
      PROVE  UNCHANGED Life!lifeVars
    BY <1>s, StageSame
<1>1. CASE TryAcquire(c) \/ TryAcquireNoPermits(c) \/ CountIn(c) \/ QueueFull(c) \/ Enqueue(c)
    <2>1. /\ \A d \in Claimers : d # c => pc'[d] = pc[d]
          /\ pc[c] \in {"idle", "missed", "full", "counted"}
          /\ pc'[c] \in {"slot", "missed", "full", "counted", "idle", "queued"}
        BY <1>1, <1>t DEF TryAcquire, TryAcquireNoPermits, CountIn, QueueFull, Enqueue, Step
    <2>2. UNCHANGED <<held, rep, repSession, culled, stale, dropped, gone, created, maxSessions>>
        BY <1>1 DEF TryAcquire, TryAcquireNoPermits, CountIn, QueueFull, Enqueue, repVars,
            sessions, server
    <2> QED BY <2>1, <2>2, <1>s
<1>2. CASE LeaveQueue(c) \/ LaunchInline(c) \/ LaunchOwn(c) \/ CancelLaunch(c)
    <2>1. /\ \A d \in Claimers : d # c => pc'[d] = pc[d]
          /\ pc[c] \in {"queued", "slot", "launching"} /\ pc'[c] \in {"idle", "launching"}
        BY <1>2, <1>t DEF LeaveQueue, LaunchInline, LaunchOwn, CancelLaunch, Step
    <2>2. UNCHANGED <<held, rep, repSession, culled, stale, dropped, gone, created, maxSessions>>
        BY <1>2 DEF LeaveQueue, LaunchInline, LaunchOwn, CancelLaunch, repVars, sessions, server
    <2> QED BY <2>1, <2>2, <1>s
<1>3. CASE PollGranted(c) \/ CancelGranted(c) \/ LaunchFailed(c)
    <2>1. /\ pc[c] \in {"granted", "launching"}
          /\ \/ pc' = [pc EXCEPT ![c] = "slot"]
             \/ AddPermit([pc EXCEPT ![c] = "idle"])
        BY <1>3 DEF PollGranted, CancelGranted, LaunchFailed, Step
    <2>2. \A d \in Claimers : pc'[d] = pc[d] \/
                 (/\ pc[d] \notin {"claimed", "destroying"}
                  /\ pc'[d] \notin {"claimed", "destroying"})
        BY <2>1, <1>t, ReleaseLemma
    <2>3. UNCHANGED <<held, rep, repSession, culled, stale, dropped, gone, created, maxSessions>>
        BY <1>3 DEF PollGranted, CancelGranted, LaunchFailed, repVars, sessions, server
    <2> QED BY <2>2, <2>3, <1>s
<1>4. CASE PopWarm(c)
    <2>1. PICK i \in warm :
              \/ /\ pc' = [pc EXCEPT ![c] = "claimed"]
                 /\ held' = [held EXCEPT ![c] = i]
                 /\ UNCHANGED stale
              \/ /\ stale' = stale \cup {i}
                 /\ UNCHANGED <<pc, held>>
        BY <1>4 DEF PopWarm
    <2>2. /\ pc[c] = "slot" /\ held[c] = 0 /\ i \in Ids /\ StageOf(i) = "ready"
          /\ UNCHANGED <<rep, repSession, culled, dropped, gone, created, maxSessions>>
        BY <1>4, <1>t, <1>o, PlaceStage DEF PopWarm, repVars, server
    <2>3. i <= created /\ i \notin gone /\ i \notin dropped
          /\ \A d \in Claimers : held[d] # i
        <3>1. i # 0 /\ i \in Nat
            BY <2>2, <1>t DEF Ids
        <3>2. warm \cap (Handed \cup dropped \cup gone) = {} /\ warm \subseteq 1..created
            BY DEF PoolInv, SessionsPartitioned
        <3> QED BY <3>1, <3>2, <1>t DEF Handed
    <2>4. CASE pc' = [pc EXCEPT ![c] = "claimed"] /\ held' = [held EXCEPT ![c] = i] /\ UNCHANGED stale
        <3>1. ASSUME NEW j \in Ids
              PROVE  /\ Serves(j)' <=> Serves(j) \/ j = i
                     /\ Ends(j)' <=> Ends(j)
                     /\ Retires(j)' <=> Retires(j)
            BY <2>4, <2>2, <2>3, <1>t DEF Serves, Ends, Retires
        <3>2. \A j \in Ids : StageOf(j)' = IF j \in {i} THEN "serving" ELSE StageOf(j)
            BY <3>1, <2>2, <2>3, <1>t DEF StageOf, Ids
        <3>3. StageNow[i] = "ready"
            BY <2>2, StageReading
        <3>4. Life!Move({i}, "serving")
            BY <3>2, StageMove
        <3>5. Cardinality(Life!Occupied) < maxSessions
            BY <2>2, RoomForOne
        <3>6. Life!Serve(i)
            BY <3>3, <3>4, <3>5, <2>2, SameCardinality DEF Life!Serve
        <3> QED BY <3>6, <2>2 DEF Life!Next
    <2>5. CASE stale' = stale \cup {i} /\ UNCHANGED <<pc, held>>
        <3>1. ASSUME NEW j \in Ids
              PROVE  /\ Serves(j)' <=> Serves(j)
                     /\ Ends(j)' <=> Ends(j)
                     /\ Retires(j)' <=> Retires(j) \/ j = i
            BY <2>5, <2>2 DEF Serves, Ends, Retires
        <3>2. \A j \in Ids : StageOf(j)' = IF j \in {i} THEN "retired" ELSE StageOf(j)
            BY <3>1, <2>2, <2>3, <1>t DEF StageOf, Ids
        <3>3. Life!Retire({i})
            BY <3>2, <2>2, StageMove, StageReading DEF Life!Retire, Life!In
        <3> QED BY <3>3, <2>2 DEF Life!Next
    <2> QED BY <2>1, <2>4, <2>5
<1>5. CASE HandOut(c)
    <2> DEFINE i == created + 1
    <2>1. /\ pc[c] = "launching" /\ pc' = [pc EXCEPT ![c] = "claimed"]
          /\ held[c] = 0 /\ held' = [held EXCEPT ![c] = i]
          /\ created < MaxCreated /\ created' = i
          /\ UNCHANGED <<rep, repSession, culled, stale, dropped, gone, maxSessions>>
        BY <1>5, <1>o DEF HandOut, Step, repVars, server
    <2>2. i \in Ids /\ i \in Nat /\ i > created
        BY <2>1, <1>t DEF Ids
    <2>3. i \notin gone /\ i \notin dropped /\ \A d \in Claimers : held[d] # i
        <3>1. i \notin 1..created /\ i # 0
            BY <2>2, <1>t
        <3> QED BY <3>1 DEF PoolInv, SessionsPartitioned, Handed
    <2>4. ASSUME NEW j \in Ids
          PROVE  /\ Serves(j)' <=> Serves(j) \/ j = i
                 /\ Ends(j)' <=> Ends(j)
                 /\ Retires(j)' <=> Retires(j)
        BY <2>1, <2>3, <1>t DEF Serves, Ends, Retires
    <2>5. \A j \in Ids : StageOf(j)' = IF j \in {i} THEN "serving" ELSE StageOf(j)
        BY <2>1, <2>2, <2>3, <2>4, <1>t DEF StageOf, Ids
    <2>6. StageNow[i] = "unborn"
        BY <2>2, PlaceStage, StageReading
    <2>7. Life!Move({i}, "serving")
        BY <2>5, StageMove
    <2>8. Cardinality(Life!Occupied) < maxSessions
        BY <2>1, RoomForOne
    <2>9. Life!Serve(i)
        BY <2>1, <2>6, <2>7, <2>8, SameCardinality DEF Life!Serve
    <2> QED BY <2>2, <2>9 DEF Life!Next
<1>6. CASE Destroy(c) \/ DropClaimed(c)
    <2> DEFINE i == held[c]
    <2>1. /\ pc[c] = "claimed" /\ i # 0 /\ i \in Ids /\ i <= created
          /\ UNCHANGED <<rep, repSession, culled, stale, gone, created, maxSessions>>
        BY <1>6, <1>o, <1>h DEF Destroy, DropClaimed, Step, repVars, sessions, server
    <2>2. \/ pc' = [pc EXCEPT ![c] = "destroying"] /\ UNCHANGED <<held, dropped>>
          \/ /\ pc' = [pc EXCEPT ![c] = "idle"]
             /\ held' = [held EXCEPT ![c] = 0] /\ dropped' = dropped \cup {i}
        BY <1>6 DEF Destroy, DropClaimed, Step, sessions
    <2>3. Serves(i) /\ StageOf(i) = "serving"
        BY <2>1, PlaceStage DEF Serves
    <2>4. i \notin gone
        <3>1. i \in Handed
            BY <2>1 DEF Handed
        <3> QED BY <3>1 DEF PoolInv, SessionsPartitioned
    <2>5. ASSUME NEW j \in Ids
          PROVE  /\ Serves(j)' <=> Serves(j) /\ j # i
                 /\ Ends(j)' <=> Ends(j) \/ j = i
                 /\ Retires(j)' <=> Retires(j)
        <3>1. j # 0 /\ j \in Nat
            BY <1>t DEF Ids
        <3>2. CASE pc' = [pc EXCEPT ![c] = "destroying"] /\ UNCHANGED <<held, dropped>>
            BY <3>1, <3>2, <2>1, <1>t, <1>o DEF Serves, Ends, Retires
        <3>3. CASE /\ pc' = [pc EXCEPT ![c] = "idle"]
                   /\ held' = [held EXCEPT ![c] = 0] /\ dropped' = dropped \cup {i}
            BY <3>1, <3>3, <2>1, <1>t, <1>o DEF Serves, Ends, Retires
        <3> QED BY <3>2, <3>3, <2>2
    <2>6. \A j \in Ids : StageOf(j)' = IF j \in {i} THEN "ending" ELSE StageOf(j)
        BY <2>1, <2>4, <2>5, <1>t DEF StageOf, Ids
    <2>7. Life!End(i)
        BY <2>1, <2>3, <2>6, StageMove, StageReading DEF Life!End
    <2> QED BY <2>1, <2>7 DEF Life!Next
<1>7. CASE DestroySession(c)
    <2> DEFINE i == held[c]
    <2>1. /\ pc[c] = "destroying" /\ i # 0 /\ i \in Ids /\ i <= created
          /\ held' = [held EXCEPT ![c] = 0] /\ gone' = gone \cup {i}
          /\ AddPermit([pc EXCEPT ![c] = "idle"])
          /\ UNCHANGED <<rep, repSession, culled, stale, dropped, created, maxSessions>>
        BY <1>7, <1>o, <1>h DEF DestroySession, repVars, server
    <2>2. /\ pc'[c] = "idle"
          /\ \A d \in Claimers : d # c =>
                pc'[d] = pc[d] \/ (pc[d] = "queued" /\ pc'[d] = "granted")
        BY <2>1, <1>t, ReleaseLemma
    <2>3. Ends(i) /\ StageOf(i) = "ending"
        BY <2>1, PlaceStage DEF Ends
    <2>4. ASSUME NEW j \in Ids, j # i
          PROVE  /\ Serves(j)' <=> Serves(j)
                 /\ Ends(j)' <=> Ends(j)
                 /\ Retires(j)' <=> Retires(j)
        <3>1. j # 0 /\ j \in Nat
            BY <1>t DEF Ids
        <3> QED BY <3>1, <2>1, <2>2, <2>4, <1>t DEF Serves, Ends, Retires
    <2>5. \A j \in Ids : StageOf(j)' = IF j \in {i} THEN "dead" ELSE StageOf(j)
        BY <2>1, <2>4, <1>t DEF StageOf, Ids
    <2>6. Life!Die(i)
        BY <2>1, <2>3, <2>5, StageMove, StageReading DEF Life!Die
    <2> QED BY <2>1, <2>6 DEF Life!Next
<1> QED BY <1>1, <1>2, <1>3, <1>4, <1>5, <1>6, <1>7
        DEF Claim, QueueTimeout, CancelQueued, SeeClosed
(* A session that is being torn down, in whichever place, is gone: nothing  *)
(* else changes for any session.                                            *)
LEMMA TornDown ==
    ASSUME PoolInv, NEW i \in Ids,
           i \in dropped \cup stale \cup culled \/ (rep = "discard" /\ i = repSession),
           gone' = gone \cup {i},
           dropped' = dropped \ {i}, stale' = stale \ {i}, culled' = culled \ {i},
           \/ rep' = rep /\ repSession' = repSession
           \/ rep = "discard" /\ i = repSession /\ rep' = "done",
           \A d \in Claimers : pc'[d] = pc[d] \/
                 (/\ pc[d] \notin {"claimed", "destroying"}
                  /\ pc'[d] \notin {"claimed", "destroying"}),
           UNCHANGED <<held, created, maxSessions>>
    PROVE  Life!Next
<1>1. created \in Nat /\ MaxCreated \in Nat
    BY PoolAssumption DEF PoolInv, TypeOK
<1>2. i <= created
    <2>1. i # 0 /\ i \in Nat
        BY <1>1 DEF Ids
    <2>2. i \in 1..created
        BY <2>1 DEF PoolInv, SessionsPartitioned
    <2> QED BY <2>2
<1>3. StageOf(i) \in {"ending", "retired"}
    BY PlaceStage DEF Ends
<1>4. ASSUME NEW j \in Ids, j # i
      PROVE  /\ Serves(j)' <=> Serves(j)
             /\ Ends(j)' <=> Ends(j)
             /\ Retires(j)' <=> Retires(j)
    BY <1>4 DEF Serves, Ends, Retires
<1>5. \A j \in Ids : StageOf(j)' = IF j \in {i} THEN "dead" ELSE StageOf(j)
    BY <1>1, <1>2, <1>4 DEF StageOf, Ids
<1>6. Life!Die(i)
    BY <1>3, <1>5, StageMove, StageReading DEF Life!Die
<1> QED BY <1>6 DEF Life!Next

(* Sessions leave the stock, or the replenisher's hands, for a teardown     *)
(* that owes no slot.                                                       *)
LEMMA LeaveStock ==
    ASSUME PoolInv, NEW S \in SUBSET Ids,
           \A i \in S : i \in warm \/ (i = repSession /\ rep # "discard"),
           \A i \in Ids : Retires(i)' <=> Retires(i) \/ i \in S,
           UNCHANGED <<pc, held, created, dropped, gone, maxSessions>>
    PROVE  Life!Next
<1>1. \A i \in S : StageOf(i) = "ready"
    BY PlaceStage
<1>2. ASSUME NEW i \in Ids
      PROVE  /\ Serves(i)' <=> Serves(i)
             /\ Ends(i)' <=> Ends(i)
    BY DEF Serves, Ends
<1>3. \A i \in Ids : StageOf(i)' = IF i \in S THEN "retired" ELSE StageOf(i)
    <2> SUFFICES ASSUME NEW i \in Ids
                 PROVE  StageOf(i)' = IF i \in S THEN "retired" ELSE StageOf(i)
        OBVIOUS
    <2>1. CASE i \in S
        BY <2>1, <1>1, <1>2 DEF StageOf
    <2>2. CASE i \notin S
        BY <2>2, <1>2 DEF StageOf
    <2> QED BY <2>1, <2>2
<1>4. Life!Retire(S)
    BY <1>1, <1>3, StageMove, StageReading DEF Life!Retire, Life!In
<1> QED BY <1>4 DEF Life!Next

(* The replenisher launches, culls, pushes and discards sessions. *)
LEMMA ReplenisherLife ==
    ASSUME PoolInv, Replenisher
    PROVE  [Life!Next]_(Life!lifeVars)
<1>t. /\ created \in Nat /\ MaxCreated \in Nat /\ warm \subseteq Ids /\ culled \subseteq Ids
      /\ repSession \in 0..MaxCreated
    BY PoolAssumption DEF PoolInv, TypeOK
<1>o. /\ repSession # 0 <=> rep \in {"created", "push", "discard"}
      /\ culled # {} => rep = "culling"
    BY DEF PoolInv, OwnerInv
<1>1. CASE RepCheck \/ RepMeasure \/ RepDecide \/ RepWake \/ RepCreateFailed \/ RepBackoff
    <2>1. /\ rep # "discard" /\ rep' # "discard"
          /\ UNCHANGED <<pc, held, culled, stale, dropped, gone, created, maxSessions>>
        BY <1>1 DEF RepCheck, RepMeasure, RepDecide, RepWake, RepCreateFailed, RepBackoff,
            RepGoto, claims, sessions
    <2> QED BY <2>1, StageSame
<1>2. CASE RepPush
    <2>1. /\ rep # "discard" /\ rep' # "discard"
          /\ UNCHANGED <<pc, held, culled, stale, dropped, gone, created, maxSessions>>
        BY <1>2 DEF RepPush, RepGoto, claims, sessions
    <2> QED BY <2>1, StageSame
<1>3. CASE RepCull
    <2>1. PICK idle, old \in 0..created : culled' = Expired(idle, old)
        BY <1>3 DEF RepCull
    <2>2. Expired(idle, old) \subseteq warm
        BY DEF Expired
    <2>3. /\ culled = {} /\ rep = "cull" /\ rep' = "culling"
          /\ UNCHANGED <<pc, held, stale, dropped, gone, created, maxSessions, repSession>>
        BY <1>3, <1>o DEF RepCull, RepGoto, claims, sessions
    <2>4. \A i \in Ids : Retires(i)' <=> Retires(i) \/ i \in culled'
        BY <2>3 DEF Retires
    <2>5. Life!Next
        BY <2>1, <2>2, <2>3, <2>4, <1>t, LeaveStock
    <2> QED BY <2>5
<1>4. CASE RepDestroyCulled
    <2>1. PICK i \in culled : culled' = culled \ {i} /\ gone' = gone \cup {i}
        BY <1>4 DEF RepDestroyCulled
    <2>2. UNCHANGED <<pc, held, rep, repSession, stale, dropped, created, maxSessions>>
        BY <1>4 DEF RepDestroyCulled, claims
    <2>3. i \notin stale /\ i \notin dropped
        BY DEF PoolInv, SessionsPartitioned
    <2>4. i \in Ids /\ dropped' = dropped \ {i} /\ stale' = stale \ {i}
        BY <2>2, <2>3, <1>t
    <2>5. Life!Next
        BY <2>1, <2>2, <2>4, TornDown
    <2> QED BY <2>5
<1>5. CASE RepCreated
    <2> DEFINE i == created + 1
    <2>1. /\ created < MaxCreated /\ created' = i
          /\ rep # "discard" /\ rep' # "discard"
          /\ UNCHANGED <<pc, held, culled, stale, dropped, gone, maxSessions>>
        BY <1>5 DEF RepCreated, RepGoto, claims
    <2>2. i \in Ids /\ i \in Nat /\ i > created
        BY <2>1, <1>t DEF Ids
    <2>3. i \notin gone /\ ~Serves(i) /\ ~Ends(i) /\ ~Retires(i)
        <3>1. i \notin 1..created /\ i # 0
            BY <2>2, <1>t
        <3>2. \A S \in {Handed, culled, stale, dropped, gone} : i \notin S
            BY <3>1 DEF PoolInv, SessionsPartitioned
        <3>3. \A c \in Claimers : held[c] # i
            BY <3>1, <3>2 DEF Handed
        <3> QED BY <3>2, <3>3, <2>1 DEF Serves, Ends, Retires
    <2>4. ASSUME NEW j \in Ids
          PROVE  /\ Serves(j)' <=> Serves(j)
                 /\ Ends(j)' <=> Ends(j)
                 /\ Retires(j)' <=> Retires(j)
        BY <2>1 DEF Serves, Ends, Retires
    <2>5. \A j \in Ids : StageOf(j)' = IF j \in {i} THEN "ready" ELSE StageOf(j)
        BY <2>1, <2>2, <2>3, <2>4, <1>t DEF StageOf, Ids
    <2>6. StageNow[i] = "unborn"
        BY <2>2, PlaceStage, StageReading
    <2>7. Life!Launch(i)
        BY <2>1, <2>5, <2>6, StageMove DEF Life!Launch
    <2> QED BY <2>2, <2>7 DEF Life!Next
<1>6. CASE RepRecheck
    <2>1. /\ rep = "created" /\ rep' = IF closed THEN "discard" ELSE "push"
          /\ UNCHANGED <<pc, held, repSession, culled, stale, dropped, gone, created, maxSessions>>
        BY <1>6 DEF RepRecheck, RepGoto, claims, sessions
    <2>2. CASE closed
        <3>1. repSession \in Ids
            BY <2>1, <1>o, <1>t DEF Ids
        <3>2. \A i \in Ids : Retires(i)' <=> Retires(i) \/ i \in {repSession}
            BY <2>1, <2>2 DEF Retires
        <3>3. Life!Next
            BY <2>1, <3>1, <3>2, LeaveStock
        <3> QED BY <3>3
    <2>3. CASE ~closed
        BY <2>1, <2>3, StageSame
    <2> QED BY <2>2, <2>3
<1>7. CASE RepDiscard
    <2>1. /\ rep = "discard" /\ rep' = "done" /\ gone' = gone \cup {repSession}
          /\ UNCHANGED <<pc, held, culled, stale, dropped, created, maxSessions>>
        BY <1>7 DEF RepDiscard, RepGoto, claims
    <2>2. repSession \in Ids
        BY <2>1, <1>o, <1>t DEF Ids
    <2>3. repSession \notin stale \cup dropped \cup culled
        <3>1. repSession # 0
            BY <2>1, <1>o
        <3> QED BY <3>1 DEF PoolInv, SessionsPartitioned
    <2>4. Life!Next
        BY <2>1, <2>2, <2>3, TornDown
    <2> QED BY <2>4
<1> QED BY <1>1, <1>2, <1>3, <1>4, <1>5, <1>6, <1>7 DEF Replenisher

(* Every step of the pool is a step of a session's life, or invisible. *)
LEMMA LifeStep ==
    ASSUME PoolInv, [Next]_vars
    PROVE  [Life!Next]_(Life!lifeVars)
<1>t. /\ TypeOK /\ QueueInv
      /\ pc \in [Claimers -> ClaimPC] /\ permits \in Nat /\ queue \in Seq(Claimers)
      /\ warm \subseteq Ids /\ maxSessions \in Nat \ {0} /\ Targets \subseteq Nat
      /\ dropped \subseteq Ids
    BY PoolAssumption DEF PoolInv, TypeOK
<1>1. ASSUME NEW i \in Ids, DestroyDropped(i)
      PROVE  Life!Next
    <2>1. /\ i \in dropped /\ dropped' = dropped \ {i} /\ gone' = gone \cup {i}
          /\ AddPermit(pc)
          /\ UNCHANGED <<held, rep, repSession, culled, stale, created, maxSessions>>
        BY <1>1 DEF DestroyDropped, repVars
    <2>2. \A d \in Claimers : pc'[d] = pc[d] \/ (pc[d] = "queued" /\ pc'[d] = "granted")
        <3>1. CASE queue = <<>>
            BY <3>1, <2>1 DEF AddPermit
        <3>2. CASE queue # <<>>
            <4>1. pc' = [pc EXCEPT ![Head(queue)] = "granted"]
                BY <3>2, <2>1 DEF AddPermit
            <4>2. Head(queue) \in Claimers /\ Head(queue) = queue[1] /\ 1 \in 1..Len(queue)
                BY <3>2, <1>t
            <4>3. pc[Head(queue)] = "queued"
                BY <4>2, <1>t DEF QueueInv
            <4> QED BY <4>1, <4>2, <4>3, <1>t
        <3> QED BY <3>1, <3>2
    <2>3. i \notin stale /\ i \notin culled
        BY <2>1 DEF PoolInv, SessionsPartitioned
    <2>4. stale' = stale \ {i} /\ culled' = culled \ {i}
        BY <2>1, <2>3
    <2> QED BY <2>1, <2>2, <2>4, TornDown
<1>2. ASSUME NEW i \in Ids, DestroyStale(i)
      PROVE  Life!Next
    <2>1. /\ i \in stale /\ stale' = stale \ {i} /\ gone' = gone \cup {i}
          /\ UNCHANGED <<pc, held, rep, repSession, culled, dropped, created, maxSessions>>
        BY <1>2 DEF DestroyStale, repVars, claims
    <2>2. i \notin dropped /\ i \notin culled
        BY <2>1 DEF PoolInv, SessionsPartitioned
    <2>3. dropped' = dropped \ {i} /\ culled' = culled \ {i}
        BY <2>1, <2>2
    <2> QED BY <2>1, <2>3, TornDown
<1>3. ASSUME NEW i \in Ids, BrowserDies(i)
      PROVE  UNCHANGED Life!lifeVars
    <2>1. UNCHANGED <<pc, held, rep, repSession, culled, stale, dropped, gone, created, maxSessions>>
        BY <1>3 DEF BrowserDies, repVars, claims
    <2> QED BY <2>1, StageSame
<1>4. CASE CloseSemaphore \/ EndCalibration \/ Drained \/ UNCHANGED vars
    <2>1. UNCHANGED <<pc, held, rep, repSession, culled, stale, dropped, gone, created, maxSessions>>
        BY <1>4 DEF CloseSemaphore, EndCalibration, Drained, vars, repVars, claims, sessions
    <2> QED BY <2>1, StageSame
<1>5. CASE DrainWarm
    <2>1. /\ stale' = stale \cup warm
          /\ UNCHANGED <<pc, held, rep, repSession, culled, dropped, gone, created, maxSessions>>
        BY <1>5 DEF DrainWarm, repVars, claims
    <2>2. \A i \in Ids : Retires(i)' <=> Retires(i) \/ i \in warm
        BY <2>1 DEF Retires
    <2>3. Life!Next
        BY <2>1, <2>2, <1>t, LeaveStock
    <2> QED BY <2>3
<1>6. ASSUME NEW t \in Targets, SetMaxSessions(t)
      PROVE  Life!Next
    <2>1. /\ calibration = "running" /\ maxSessions' = IF t > 1 THEN t ELSE 1
          /\ UNCHANGED <<pc, held, rep, repSession, culled, stale, dropped, gone, created>>
        BY <1>6 DEF SetMaxSessions, repVars, claims, sessions
    <2>2. maxSessions' \in Nat \ {0}
        BY <2>1, <1>t
    <2>3. ASSUME NEW i \in Ids
          PROVE  StageOf(i)' = StageOf(i)
        BY <2>1 DEF StageOf, Serves, Ends, Retires
    <2>4. UNCHANGED StageNow
        BY <2>3, StageReading
    <2>5. Life!Resize
        BY <2>1, <2>2, <2>4, NoneOccupied DEF Life!Resize
    <2> QED BY <2>5 DEF Life!Next
<1> QED BY <1>1, <1>2, <1>3, <1>4, <1>5, <1>6, ClaimLife, ReplenisherLife DEF Next

(* The pool implements the abstract specification of session lives: a       *)
(* session is launched once, serves one claim at most, is torn down once    *)
(* and never handed out again, and a claim is handed one only while fewer   *)
(* than the ceiling are serving or being torn down; for every number of     *)
(* claims and sessions, with claims dropped at any await and the pool       *)
(* closed or resized in between.                                            *)
THEOREM PoolImplementsLife == Spec => ImplementsLife
<1>1. Init => Life!Init
    <2> SUFFICES ASSUME Init PROVE Life!Init
        OBVIOUS
    <2>1. created = 0 /\ maxSessions = StartSessions
        BY DEF Init
    <2>2. \A i \in Ids : StageOf(i) = "unborn"
        BY <2>1, PoolAssumption DEF StageOf, Ids
    <2> QED BY <2>1, <2>2, StageReading, PoolAssumption DEF Life!Init
<1>2. PoolInv /\ [Next]_vars => [Life!Next]_(Life!lifeVars)
    BY LifeStep
<1> QED BY <1>1, <1>2, PoolInvariant, PTL DEF Spec, ImplementsLife, Life!Spec
=============================================================================
