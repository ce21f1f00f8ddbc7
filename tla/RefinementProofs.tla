--------------------------- MODULE RefinementProofs ---------------------------
(***************************************************************************)
(* The engine implements the exchange of the public header.  A level's     *)
(* list, followed from its head, is the line of its orders in the order of *)
(* their turns; and a line is determined by who stands in it and by the    *)
(* turns.  So it is enough to know which orders a step adds to a level or  *)
(* takes from it: the lines are then what Exchange makes of its queues.    *)
(*                                                                         *)
(* One hypothesis is needed: what rests on one side of one instrument fits *)
(* in one Quantity (SidesFit).  Otherwise the sum in can_fully_fill wraps, *)
(* and the engine refuses an order the exchange would fill.                *)
(***************************************************************************)
EXTENDS TradingProofs, EngineRefinement, SequenceTheorems

-----------------------------------------------------------------------------
(***************************************************************************)
(* The walk along the next links exists, and is the only one.              *)
(***************************************************************************)
WalkStep(records, head, at, n) ==
  IF n = 0 THEN head
  ELSE IF at[n - 1] = kInvalidSlot THEN kInvalidSlot ELSE records[at[n - 1]].next

IsWalk(records, head, at) ==
  at = [n \in 0 .. PoolCapacity |-> WalkStep(records, head, at, n)]

\* The ids met along a walk, and along any sequence of slots.
WalkIds(records, at) ==
  LET on == {n \in 0 .. PoolCapacity : at[n] # kInvalidSlot}
  IN [n \in 1 .. Cardinality(on) |-> records[at[n - 1]].id]

IdsOn(records, line) == [n \in DOMAIN line |-> records[line[n]].id]

LEMMA WalkExists ==
  ASSUME NEW records, NEW head
  PROVE  \E at : IsWalk(records, head, at)
<1> DEFINE W(f, n) == f = [k \in 0 .. n |-> WalkStep(records, head, f, k)]
           S == {n \in Nat : \E f : W(f, n)}
<1>1. 0 \in S
  <2> DEFINE f == [k \in 0 .. 0 |-> head]
  <2>1. \A k \in 0 .. 0 : WalkStep(records, head, f, k) = head
    BY DEF WalkStep
  <2>2. W(f, 0)
    BY <2>1
  <2> QED
    BY <2>2
<1>2. ASSUME NEW n \in Nat, n \in S PROVE n + 1 \in S
  <2>1. PICK f : W(f, n)
    BY <1>2
  <2> DEFINE g == [k \in 0 .. n + 1 |->
                     IF k <= n THEN f[k] ELSE WalkStep(records, head, f, k)]
  <2>2. ASSUME NEW k \in 0 .. n + 1 PROVE g[k] = WalkStep(records, head, g, k)
    <3>1. g[k] = WalkStep(records, head, f, k)
      BY <2>1
    <3>2. k # 0 => k - 1 \in 0 .. n + 1 /\ k - 1 <= n
      OBVIOUS
    <3>3. k # 0 => g[k - 1] = f[k - 1]
      BY <3>2
    <3> HIDE DEF g
    <3> QED
      BY <3>1, <3>3 DEF WalkStep
  <2>3. W(g, n + 1)
    BY <2>2
  <2>4. \E h : W(h, n + 1)
    <3> HIDE DEF W, g
    <3> QED
      BY <2>3
  <2> HIDE DEF W, g
  <2> QED
    BY <2>4
<1>3. \A n \in Nat : n \in S
  <2> HIDE DEF S
  <2> QED
    BY <1>1, <1>2, Induction
<1>4. PoolCapacity \in S
  BY <1>3, WidthAssumption
<1> QED
  BY <1>4 DEF IsWalk

LEMMA LevelIdsWalk ==
  ASSUME NEW records, NEW lvl
  PROVE  \E at : IsWalk(records, lvl.head, at) /\ LevelIds(records, lvl) = WalkIds(records, at)
<1> DEFINE at == CHOOSE f : IsWalk(records, lvl.head, f)
<1>1. IsWalk(records, lvl.head, at)
  BY WalkExists
<1>2. LevelIds(records, lvl) = WalkIds(records, at)
  BY DEF LevelIds, WalkIds, IsWalk, WalkStep
<1> QED
  BY <1>1, <1>2

-----------------------------------------------------------------------------
(***************************************************************************)
(* A line: the orders of a queue, each once, in the order of rank.         *)
(***************************************************************************)
IsLine(line, queue, rank) ==
  /\ line \in Seq(queue)
  /\ \A s \in queue : \E n \in 1 .. Len(line) : line[n] = s
  /\ \A m, n \in 1 .. Len(line) : m < n => rank[line[m]] < rank[line[n]]

LEMMA WalkStays ==
  ASSUME NEW queue \in SUBSET Slots, NEW p, NEW lvl, NEW at,
         QueueLinked(p, lvl, queue), IsWalk(p, lvl.head, at),
         NEW n \in Nat, n <= PoolCapacity
  PROVE  at[n] # kInvalidSlot => at[n] \in queue
<1> DEFINE S == {k \in Nat : k <= PoolCapacity /\ at[k] # kInvalidSlot => at[k] \in queue}
<1>1. PoolCapacity \in Nat
  BY WidthAssumption
<1>2. 0 \in S
  <2>1. at[0] = lvl.head
    BY <1>1 DEF IsWalk, WalkStep
  <2> QED
    BY <2>1 DEF QueueLinked
<1>3. ASSUME NEW k \in Nat, k \in S PROVE k + 1 \in S
  <2> SUFFICES ASSUME k + 1 <= PoolCapacity, at[k + 1] # kInvalidSlot PROVE at[k + 1] \in queue
    OBVIOUS
  <2>1. at[k + 1] = WalkStep(p, lvl.head, at, k + 1)
    BY <1>1 DEF IsWalk
  <2>2. at[k + 1] = IF at[k] = kInvalidSlot THEN kInvalidSlot ELSE p[at[k]].next
    BY <2>1 DEF WalkStep
  <2>3. at[k] # kInvalidSlot /\ at[k + 1] = p[at[k]].next
    BY <2>2
  <2>4. at[k] \in queue
    BY <1>1, <1>3, <2>3
  <2> QED
    BY <2>3, <2>4 DEF QueueLinked
<1> HIDE DEF S
<1>4. \A k \in Nat : k \in S
  BY <1>2, <1>3, Induction
<1> QED
  BY <1>4 DEF S

\* Along a walk turns ascend, so it ends.
Climbs(p, lvl, queue, rank, at) ==
  /\ \A k \in 1 .. PoolCapacity : at[k] # kInvalidSlot =>
       /\ at[k - 1] \in queue /\ at[k] \in queue
       /\ p[at[k - 1]].next = at[k]
       /\ rank[at[k - 1]] < rank[at[k]]
  /\ \A k \in 0 .. PoolCapacity : at[k] # kInvalidSlot => k <= rank[at[k]]
  /\ at[0] = lvl.head
  /\ \A k \in 1 .. PoolCapacity : at[k - 1] # kInvalidSlot => at[k] = p[at[k - 1]].next

LEMMA WalkClimbs ==
  ASSUME NEW queue \in SUBSET Slots, NEW p, NEW lvl, NEW rank \in [Slots -> Slots], NEW at,
         QueueLinked(p, lvl, queue), QueueOrdered(p, queue, rank), IsWalk(p, lvl.head, at)
  PROVE  Climbs(p, lvl, queue, rank, at)
<1>1. PoolCapacity \in Nat
  BY WidthAssumption
<1>2. at[0] = lvl.head
  BY <1>1 DEF IsWalk, WalkStep
<1>3. ASSUME NEW k \in 1 .. PoolCapacity
      PROVE  at[k] = IF at[k - 1] = kInvalidSlot THEN kInvalidSlot ELSE p[at[k - 1]].next
  <2>1. k \in 0 .. PoolCapacity /\ k # 0
    BY <1>1
  <2>2. at[k] = WalkStep(p, lvl.head, at, k)
    BY <2>1 DEF IsWalk
  <2> QED
    BY <2>1, <2>2 DEF WalkStep
<1>4. ASSUME NEW k \in 1 .. PoolCapacity, at[k] # kInvalidSlot
      PROVE  /\ at[k - 1] \in queue /\ at[k] \in queue
             /\ p[at[k - 1]].next = at[k]
             /\ rank[at[k - 1]] < rank[at[k]]
  <2>1. at[k - 1] # kInvalidSlot /\ at[k] = p[at[k - 1]].next
    BY <1>3, <1>4
  <2>2. k \in Nat /\ k <= PoolCapacity /\ k - 1 \in Nat /\ k - 1 <= PoolCapacity
    BY <1>1
  <2>3. at[k] \in queue
    BY <1>4, <2>2, WalkStays
  <2>4. at[k - 1] \in queue
    BY <2>1, <2>2, WalkStays
  <2> QED
    BY <1>4, <2>1, <2>3, <2>4 DEF QueueOrdered
<1> DEFINE S == {k \in Nat : k <= PoolCapacity /\ at[k] # kInvalidSlot => k <= rank[at[k]]}
<1>5. 0 \in S
  <2> SUFFICES ASSUME at[0] # kInvalidSlot PROVE 0 <= rank[at[0]]
    OBVIOUS
  <2>1. at[0] \in Slots
    BY <1>1, WalkStays
  <2>2. rank[at[0]] \in Slots
    BY <2>1
  <2> QED
    BY <2>2 DEF Slots
<1>6. ASSUME NEW k \in Nat, k \in S PROVE k + 1 \in S
  <2> SUFFICES ASSUME k + 1 <= PoolCapacity, at[k + 1] # kInvalidSlot
               PROVE  k + 1 <= rank[at[k + 1]]
    OBVIOUS
  <2>1. k + 1 \in 1 .. PoolCapacity /\ (k + 1) - 1 = k /\ k <= PoolCapacity
    BY <1>1
  <2>2. at[k] \in queue /\ at[k + 1] \in queue /\ rank[at[k]] < rank[at[k + 1]]
    BY <1>4, <2>1
  <2>3. rank[at[k]] \in Nat /\ rank[at[k + 1]] \in Nat
    BY <2>2, SlotFacts
  <2>4. k <= rank[at[k]]
    BY <1>6, <2>1, <2>2, SlotFacts
  <2> QED
    BY <2>2, <2>3, <2>4
<1>7. \A k \in Nat : k \in S
  <2> HIDE DEF S
  <2> QED
    BY <1>5, <1>6, Induction
<1> QED
  BY <1>2, <1>3, <1>4, <1>7 DEF Climbs

LEMMA LevelLine ==
  ASSUME NEW queue \in SUBSET Slots, NEW p, NEW lvl, NEW rank \in [Slots -> Slots],
         QueueLinked(p, lvl, queue), QueueOrdered(p, queue, rank)
  PROVE  \E line : IsLine(line, queue, rank) /\ LevelIds(p, lvl) = IdsOn(p, line)
<1>1. PICK at : IsWalk(p, lvl.head, at) /\ LevelIds(p, lvl) = WalkIds(p, at)
  BY LevelIdsWalk
<1>2. PoolCapacity \in Nat
  BY WidthAssumption
<1>3. /\ \A k \in 1 .. PoolCapacity : at[k] # kInvalidSlot =>
           /\ at[k - 1] \in queue /\ at[k] \in queue
           /\ p[at[k - 1]].next = at[k]
           /\ rank[at[k - 1]] < rank[at[k]]
      /\ \A k \in 0 .. PoolCapacity : at[k] # kInvalidSlot => k <= rank[at[k]]
      /\ at[0] = lvl.head
      /\ \A k \in 1 .. PoolCapacity : at[k - 1] # kInvalidSlot => at[k] = p[at[k - 1]].next
  <2>1. Climbs(p, lvl, queue, rank, at)
    BY <1>1, WalkClimbs
  <2> QED
    BY <2>1 DEF Climbs
<1>4. \A k \in 0 .. PoolCapacity : at[k] # kInvalidSlot => at[k] \in queue
  BY <1>1, <1>2, WalkStays
<1>5. kInvalidSlot \notin queue /\ \A s \in queue : rank[s] \in Nat /\ rank[s] < PoolCapacity
  <2>1. \A r \in Slots : r \in Nat /\ r < PoolCapacity
    BY <1>2 DEF Slots
  <2>2. \A s \in queue : rank[s] \in Slots
    OBVIOUS
  <2> QED
    BY <2>1, <2>2, SlotFacts
<1> DEFINE D == {k \in 0 .. PoolCapacity : at[k] = kInvalidSlot}
<1>6. \E k \in D : \A j \in D : k <= j
  <2>1. PoolCapacity \in 0 .. PoolCapacity
    BY <1>2
  <2>2. at[PoolCapacity] = kInvalidSlot
    BY <1>2, <1>3, <1>4, <1>5, <2>1
  <2>3. D \subseteq Nat /\ D # {}
    BY <1>2, <2>1, <2>2
  <2> HIDE DEF D
  <2> QED
    BY <2>3, LeastNumber
<1>7. PICK N \in D : \A j \in D : N <= j
  BY <1>6
<1>8. N \in Nat /\ N <= PoolCapacity /\ at[N] = kInvalidSlot
  BY <1>2, <1>7
<1>9. ASSUME NEW k \in 0 .. PoolCapacity PROVE at[k] # kInvalidSlot <=> k < N
  <2>1. k < N => at[k] # kInvalidSlot
    BY <1>2, <1>7, <1>8
  <2> DEFINE S == {j \in Nat : N + j <= PoolCapacity => at[N + j] = kInvalidSlot}
  <2>2. 0 \in S
    BY <1>8
  <2>3. ASSUME NEW j \in Nat, j \in S PROVE j + 1 \in S
    <3> SUFFICES ASSUME N + (j + 1) <= PoolCapacity, at[N + (j + 1)] # kInvalidSlot PROVE FALSE
      OBVIOUS
    <3> DEFINE m == N + (j + 1)
    <3>1. m \in 1 .. PoolCapacity /\ m - 1 = N + j /\ N + j <= PoolCapacity
      BY <1>2, <1>8
    <3>2. at[m - 1] \in queue
      BY <1>3, <3>1
    <3> HIDE DEF m
    <3> QED
      BY <1>5, <2>3, <3>1, <3>2
  <2>4. \A j \in Nat : j \in S
    <3> HIDE DEF S
    <3> QED
      BY <2>2, <2>3, Induction
  <2>5. N <= k => at[k] = kInvalidSlot
    <3> SUFFICES ASSUME N <= k PROVE at[k] = kInvalidSlot
      OBVIOUS
    <3>1. k - N \in Nat /\ N + (k - N) = k /\ k <= PoolCapacity
      BY <1>2, <1>8
    <3> QED
      BY <2>4, <3>1
  <2> QED
    BY <1>2, <1>8, <2>1, <2>5
<1>10. Cardinality({n \in 0 .. PoolCapacity : at[n] # kInvalidSlot}) = N
  <2>1. {n \in 0 .. PoolCapacity : at[n] # kInvalidSlot} = 0 .. N - 1
    BY <1>2, <1>8, <1>9
  <2>2. Cardinality(0 .. N - 1) = N
    BY <1>8, FS_Interval
  <2> QED
    BY <2>1, <2>2
<1> DEFINE line == [n \in 1 .. N |-> at[n - 1]]
<1>11. LevelIds(p, lvl) = IdsOn(p, line)
  <2>1. WalkIds(p, at) = [n \in 1 .. N |-> p[at[n - 1]].id]
    BY <1>10 DEF WalkIds
  <2>2. IdsOn(p, line) = [n \in 1 .. N |-> p[line[n]].id]
    BY DEF IdsOn
  <2> QED
    BY <1>1, <2>1, <2>2
<1>12. ASSUME NEW n \in 1 .. N PROVE n - 1 \in 0 .. PoolCapacity /\ n - 1 < N /\ line[n] = at[n - 1]
  BY <1>2, <1>8
<1>13. line \in Seq(queue) /\ Len(line) = N
  <2>1. ASSUME NEW n \in 1 .. N PROVE line[n] \in queue
    BY <1>4, <1>9, <1>12
  <2> QED
    BY <1>8, <2>1
<1>14. \A m, n \in 1 .. N : m < n => rank[line[m]] < rank[line[n]]
  <2> DEFINE S == {k \in Nat : k < N => \A m \in 0 .. k - 1 : rank[at[m]] < rank[at[k]]}
  <2>1. 0 \in S
    OBVIOUS
  <2>2. ASSUME NEW k \in Nat, k \in S PROVE k + 1 \in S
    <3> SUFFICES ASSUME k + 1 < N, NEW m \in 0 .. k PROVE rank[at[m]] < rank[at[k + 1]]
      OBVIOUS
    <3>1. k + 1 \in 0 .. PoolCapacity /\ k + 1 \in 1 .. PoolCapacity /\ (k + 1) - 1 = k /\ k < N
      BY <1>2, <1>8
    <3>2. at[k + 1] # kInvalidSlot
      BY <1>9, <3>1
    <3>3. at[k] \in queue /\ at[k + 1] \in queue /\ rank[at[k]] < rank[at[k + 1]]
      BY <1>3, <3>1, <3>2
    <3>4. m # k => rank[at[m]] < rank[at[k]] /\ at[m] \in queue
      <4> SUFFICES ASSUME m # k PROVE rank[at[m]] < rank[at[k]] /\ at[m] \in queue
        OBVIOUS
      <4>1. m \in 0 .. k - 1 /\ m \in 0 .. PoolCapacity /\ m < N
        BY <1>2, <1>8, <3>1
      <4> QED
        BY <1>4, <1>9, <2>2, <3>1, <4>1
    <3> QED
      BY <1>5, <3>3, <3>4
  <2>3. \A k \in Nat : k \in S
    <3> HIDE DEF S
    <3> QED
      BY <2>1, <2>2, Induction
  <2> SUFFICES ASSUME NEW m \in 1 .. N, NEW n \in 1 .. N, m < n
               PROVE  rank[line[m]] < rank[line[n]]
    OBVIOUS
  <2>4. n - 1 \in Nat /\ n - 1 < N /\ m - 1 \in 0 .. (n - 1) - 1
    BY <1>8
  <2>5. rank[at[m - 1]] < rank[at[n - 1]]
    BY <2>3, <2>4
  <2> QED
    BY <1>12, <2>5
<1>15. \A s \in queue : \E n \in 1 .. N : line[n] = s
  <2> DEFINE Missing(s) == \A n \in 1 .. N : line[n] # s
             T == {r \in Nat : \E s \in queue : rank[s] = r /\ Missing(s)}
  <2>1. ASSUME T # {} PROVE FALSE
    <3>1. PICK r \in T : \A r2 \in T : r <= r2
      <4>1. T \subseteq Nat
        OBVIOUS
      <4> HIDE DEF T
      <4> QED
        BY <2>1, <4>1, LeastNumber
    <3>2. PICK s \in queue : rank[s] = r /\ Missing(s)
      BY <3>1
    <3>3. s # kInvalidSlot
      BY <1>5
    <3>4. CASE p[s].prev = kInvalidSlot
      <4>1. at[0] = s
        BY <1>3, <3>4 DEF QueueLinked
      <4>2. 0 < N
        BY <1>2, <1>9, <3>3, <4>1
      <4>3. 1 \in 1 .. N /\ 1 - 1 = 0
        BY <1>8, <4>2
      <4> QED
        BY <1>12, <3>2, <4>1, <4>3
    <3>5. CASE p[s].prev # kInvalidSlot
      <4> DEFINE t == p[s].prev
      <4>1. t \in queue /\ p[t].next = s
        BY <3>5 DEF QueueLinked
      <4>2. rank[t] < rank[s]
        BY <3>3, <4>1 DEF QueueOrdered
      <4> HIDE DEF t
      <4>3. ~Missing(t)
        <5> SUFFICES ASSUME Missing(t) PROVE FALSE
          OBVIOUS
        <5>1. rank[t] \in Nat /\ rank[s] \in Nat
          BY <1>5, <4>1
        <5>2. rank[t] \in T
          BY <4>1, <5>1
        <5>3. r <= rank[t]
          BY <3>1, <5>2
        <5> QED
          BY <3>2, <4>2, <5>1, <5>3
      <4>4. PICK n \in 1 .. N : line[n] = t
        BY <4>3
      <4>5. at[n - 1] = t /\ n \in 1 .. PoolCapacity /\ n \in 0 .. PoolCapacity
        BY <1>2, <1>8, <4>4
      <4>6. at[n] = s
        BY <1>3, <1>5, <4>1, <4>5
      <4>7. n < N
        BY <1>9, <3>3, <4>5, <4>6
      <4>8. n + 1 \in 1 .. N /\ (n + 1) - 1 = n
        BY <1>8, <4>7
      <4> QED
        BY <1>12, <3>2, <4>6, <4>8
    <3> QED
      BY <3>4, <3>5
  <2> SUFFICES ASSUME NEW s \in queue, Missing(s) PROVE FALSE
    OBVIOUS
  <2>2. rank[s] \in Nat
    BY <1>5
  <2>3. rank[s] \in T
    BY <2>2
  <2> QED
    BY <2>1, <2>3
<1>16. IsLine(line, queue, rank)
  BY <1>13, <1>14, <1>15 DEF IsLine
<1> HIDE DEF line
<1> QED
  BY <1>11, <1>16

-----------------------------------------------------------------------------
(***************************************************************************)
(* A line is determined by who stands in it and by the turns.  So a        *)
(* level's list, read from its head, gives the ids of the one line of its  *)
(* queue.                                                                  *)
(***************************************************************************)

\* A level's list runs through a queue in the order of rank.
Threads(p, lvl, queue, rank) ==
  /\ queue \in SUBSET Slots /\ rank \in [Slots -> Slots]
  /\ QueueLinked(p, lvl, queue) /\ QueueOrdered(p, queue, rank)

LEMMA LineUnique ==
  ASSUME NEW queue, NEW rank, \A s \in queue : rank[s] \in Int,
         NEW one, NEW two, IsLine(one, queue, rank), IsLine(two, queue, rank)
  PROVE  one = two
<1>1. one \in Seq(queue) /\ two \in Seq(queue)
  BY DEF IsLine
<1>2. Len(one) \in Nat /\ Len(two) \in Nat
  BY <1>1, LenProperties
<1> DEFINE Agree(n) == n <= Len(one) => n <= Len(two) /\ one[n] = two[n]
           Agree2(n) == n <= Len(two) => n <= Len(one) /\ one[n] = two[n]
           S == {n \in Nat : \A k \in 1 .. n : Agree(k) /\ Agree2(k)}
<1>3. 0 \in S
  OBVIOUS
<1>4. ASSUME NEW n \in Nat, n \in S PROVE n + 1 \in S
  <2> DEFINE k == n + 1
  <2>1. k \in Nat /\ k > 0 /\ \A j \in 1 .. k : j # k => j \in 1 .. n
    OBVIOUS
  <2>2. \A j \in 1 .. n : j < k /\ Agree(j) /\ Agree2(j)
    BY <1>4
  <2> HIDE DEF k
  <2>3. ASSUME k <= Len(one) PROVE \E j \in 1 .. Len(two) : two[j] = one[k] /\ j >= k
    <3>1. k \in 1 .. Len(one)
      BY <1>2, <2>1, <2>3
    <3>2. one[k] \in queue
      BY <1>1, <3>1, ElementOfSeq
    <3>3. PICK j \in 1 .. Len(two) : two[j] = one[k]
      BY <3>2 DEF IsLine
    <3>4. ASSUME j < k PROVE FALSE
      <4>1. j \in 1 .. n /\ j <= Len(two)
        BY <1>2, <2>1, <3>4
      <4>2. j \in 1 .. Len(one) /\ one[j] = two[j]
        BY <1>2, <2>2, <4>1
      <4>3. rank[one[j]] < rank[one[k]]
        BY <3>1, <3>4, <4>2 DEF IsLine
      <4> QED
        BY <3>2, <3>3, <4>2, <4>3
    <3> QED
      BY <1>2, <2>1, <3>3, <3>4
  <2>4. ASSUME k <= Len(two) PROVE \E j \in 1 .. Len(one) : one[j] = two[k] /\ j >= k
    <3>1. k \in 1 .. Len(two)
      BY <1>2, <2>1, <2>4
    <3>2. two[k] \in queue
      BY <1>1, <3>1, ElementOfSeq
    <3>3. PICK j \in 1 .. Len(one) : one[j] = two[k]
      BY <3>2 DEF IsLine
    <3>4. ASSUME j < k PROVE FALSE
      <4>1. j \in 1 .. n /\ j <= Len(one)
        BY <1>2, <2>1, <3>4
      <4>2. j \in 1 .. Len(two) /\ one[j] = two[j]
        BY <1>2, <2>2, <4>1
      <4>3. rank[two[j]] < rank[two[k]]
        BY <3>1, <3>4, <4>2 DEF IsLine
      <4> QED
        BY <3>2, <3>3, <4>2, <4>3
    <3> QED
      BY <1>2, <2>1, <3>3, <3>4
  <2>5. k <= Len(one) <=> k <= Len(two)
    BY <1>2, <2>1, <2>3, <2>4
  <2>6. k <= Len(one) => one[k] = two[k]
    <3> SUFFICES ASSUME k <= Len(one), k <= Len(two), one[k] # two[k] PROVE FALSE
      BY <2>5
    <3>1. k \in 1 .. Len(one) /\ k \in 1 .. Len(two)
      BY <1>2, <2>1
    <3>2. PICK j \in 1 .. Len(two) : two[j] = one[k] /\ j >= k
      BY <2>3
    <3>3. PICK m \in 1 .. Len(one) : one[m] = two[k] /\ m >= k
      BY <2>4
    <3>4. k < j /\ k < m
      BY <1>2, <2>1, <3>2, <3>3
    <3>5. rank[two[k]] < rank[one[k]]
      BY <3>1, <3>2, <3>4 DEF IsLine
    <3>6. rank[one[k]] < rank[two[k]]
      BY <3>1, <3>3, <3>4 DEF IsLine
    <3>7. one[k] \in queue /\ two[k] \in queue
      BY <1>1, <3>1, ElementOfSeq
    <3> QED
      BY <3>5, <3>6, <3>7
  <2>7. \A j \in 1 .. k : Agree(j) /\ Agree2(j)
    <3> SUFFICES ASSUME NEW j \in 1 .. k PROVE Agree(j) /\ Agree2(j)
      OBVIOUS
    <3>1. CASE j = k
      BY <2>5, <2>6, <3>1
    <3>2. CASE j # k
      BY <2>1, <2>2, <3>2
    <3> QED
      BY <3>1, <3>2
  <2> QED
    BY <2>1, <2>7 DEF k
<1>5. \A n \in Nat : n \in S
  <2> HIDE DEF S
  <2> QED
    BY <1>3, <1>4, Induction
<1>6. \A n \in Nat : n # 0 => Agree(n) /\ Agree2(n)
  <2> SUFFICES ASSUME NEW n \in Nat, n # 0 PROVE Agree(n) /\ Agree2(n)
    OBVIOUS
  <2>1. n \in 1 .. n /\ n \in S
    BY <1>5
  <2> QED
    BY <2>1
<1>7. Len(one) = Len(two)
  <2>1. Len(one) # 0 => Len(one) <= Len(two)
    BY <1>2, <1>6
  <2>2. Len(two) # 0 => Len(two) <= Len(one)
    BY <1>2, <1>6
  <2> QED
    BY <1>2, <2>1, <2>2
<1>8. \A n \in 1 .. Len(one) : one[n] = two[n]
  <2> SUFFICES ASSUME NEW n \in 1 .. Len(one) PROVE one[n] = two[n]
    OBVIOUS
  <2>1. n \in Nat /\ n # 0 /\ n <= Len(one)
    BY <1>2
  <2> QED
    BY <1>6, <2>1
<1> QED
  BY <1>1, <1>7, <1>8, SeqEqual

LEMMA RanksTyped ==
  ASSUME NEW queue \in SUBSET Slots, NEW rank \in [Slots -> Slots]
  PROVE  \A s \in queue : rank[s] \in Slots /\ rank[s] \in Int
<1> SUFFICES ASSUME NEW s \in queue PROVE rank[s] \in Slots /\ rank[s] \in Int
  OBVIOUS
<1>1. rank[s] \in Slots
  OBVIOUS
<1>2. rank[s] \in Nat
  BY <1>1, SlotFacts
<1> QED
  BY <1>1, <1>2

LEMMA ThreadsLine ==
  ASSUME NEW p, NEW lvl, NEW queue, NEW rank, Threads(p, lvl, queue, rank)
  PROVE  \E line : IsLine(line, queue, rank) /\ LevelIds(p, lvl) = IdsOn(p, line)
BY LevelLine DEF Threads

\* A line that fits is the one the list gives.
LEMMA LineIs ==
  ASSUME NEW p, NEW lvl, NEW queue, NEW rank, Threads(p, lvl, queue, rank),
         NEW line, IsLine(line, queue, rank)
  PROVE  LevelIds(p, lvl) = IdsOn(p, line)
<1>1. PICK other : IsLine(other, queue, rank) /\ LevelIds(p, lvl) = IdsOn(p, other)
  BY ThreadsLine
<1>2. \A s \in queue : rank[s] \in Int
  BY RanksTyped DEF Threads
<1>3. other = line
  BY <1>1, <1>2, LineUnique
<1> QED
  BY <1>1, <1>3

\* The ids of the orders of a queue.
IdsOf(p, queue) == {p[s].id : s \in queue}

\* A line as a sequence, and the ids along it.
LineShape(p, queue, line) ==
  /\ Len(line) \in Nat /\ DOMAIN line = 1 .. Len(line)
  /\ \A n \in 1 .. Len(line) : line[n] \in queue /\ IdsOn(p, line)[n] = p[line[n]].id
  /\ DOMAIN IdsOn(p, line) = 1 .. Len(line)
  /\ Len(IdsOn(p, line)) = Len(line)
  /\ \A s \in queue : \E n \in 1 .. Len(line) : line[n] = s
  /\ IdsOn(p, line) \in Seq(IdsOf(p, queue))

LEMMA LineFacts ==
  ASSUME NEW p, NEW queue, NEW rank, NEW line, IsLine(line, queue, rank)
  PROVE  LineShape(p, queue, line)
<1>1. line \in Seq(queue)
  BY DEF IsLine
<1>2. Len(line) \in Nat /\ DOMAIN line = 1 .. Len(line)
  BY <1>1, LenProperties
<1>3. \A n \in 1 .. Len(line) : line[n] \in queue
  BY <1>1, ElementOfSeq
<1>4. IdsOn(p, line) = [n \in 1 .. Len(line) |-> p[line[n]].id]
  BY <1>2 DEF IdsOn
<1>5. \A n \in 1 .. Len(line) : p[line[n]].id \in IdsOf(p, queue)
  BY <1>3 DEF IdsOf
<1>6. IdsOn(p, line) \in Seq(IdsOf(p, queue))
  BY <1>2, <1>4, <1>5, IsASeq
<1>7. Len(IdsOn(p, line)) = Len(line)
  BY <1>2, <1>4, <1>6, LenProperties
<1> QED
  BY <1>1, <1>2, <1>3, <1>4, <1>6, <1>7 DEF IsLine, LineShape

-----------------------------------------------------------------------------
(***************************************************************************)
(* What happens to the ids when orders join the end of a line or stay.     *)
(***************************************************************************)

LEMMA IdsKept ==
  ASSUME NEW p, NEW lvl, NEW p2, NEW lvl2, NEW queue, NEW rank, NEW rank2,
         Threads(p, lvl, queue, rank), Threads(p2, lvl2, queue, rank2),
         \A s \in queue : rank2[s] = rank[s] /\ p2[s].id = p[s].id
  PROVE  LevelIds(p2, lvl2) = LevelIds(p, lvl)
<1>1. PICK line : IsLine(line, queue, rank) /\ LevelIds(p, lvl) = IdsOn(p, line)
  BY ThreadsLine
<1>2. Len(line) \in Nat /\ DOMAIN line = 1 .. Len(line)
      /\ \A n \in 1 .. Len(line) : line[n] \in queue
  BY <1>1, LineFacts DEF LineShape
<1>3. IsLine(line, queue, rank2)
  BY <1>1, <1>2 DEF IsLine
<1>4. LevelIds(p2, lvl2) = IdsOn(p2, line)
  BY <1>3, LineIs
<1>5. \A n \in DOMAIN line : p2[line[n]].id = p[line[n]].id
  BY <1>2
<1>6. IdsOn(p2, line) = IdsOn(p, line)
  BY <1>5 DEF IdsOn
<1> QED
  BY <1>1, <1>4, <1>6

LEMMA IdsJoined ==
  ASSUME NEW p, NEW lvl, NEW p2, NEW lvl2, NEW queue, NEW rank, NEW rank2, NEW slot \in Slots,
         Threads(p, lvl, queue, rank), Threads(p2, lvl2, queue \cup {slot}, rank2),
         \A s \in queue : rank2[s] = rank[s] /\ p2[s].id = p[s].id,
         RanksLast(queue, slot, rank2)
  PROVE  LevelIds(p2, lvl2) = Append(LevelIds(p, lvl), p2[slot].id)
<1>1. PICK line : IsLine(line, queue, rank) /\ LevelIds(p, lvl) = IdsOn(p, line)
  BY ThreadsLine
<1>2. /\ Len(line) \in Nat /\ DOMAIN line = 1 .. Len(line)
      /\ \A n \in 1 .. Len(line) : line[n] \in queue /\ IdsOn(p, line)[n] = p[line[n]].id
      /\ Len(IdsOn(p, line)) = Len(line)
      /\ IdsOn(p, line) \in Seq(IdsOf(p, queue))
  <2>1. LineShape(p, queue, line)
    BY <1>1, LineFacts
  <2> QED
    BY <2>1 DEF LineShape
<1> DEFINE N == Len(line)
           more == [n \in 1 .. N + 1 |-> IF n <= N THEN line[n] ELSE slot]
<1>3. /\ \A n \in 1 .. N + 1 : n <= N => n \in 1 .. N
      /\ \A n \in 1 .. N : n \in 1 .. N + 1 /\ more[n] = line[n]
      /\ N + 1 \in 1 .. N + 1 /\ more[N + 1] = slot
      /\ \A n \in 1 .. N + 1 : n > N => n = N + 1
  BY <1>2
<1>4. \A n \in 1 .. N + 1 : more[n] \in queue \cup {slot}
  BY <1>2, <1>3
<1>5. more \in Seq(queue \cup {slot}) /\ Len(more) = N + 1
  BY <1>2, <1>4, IsASeq
<1>6. \A m, n \in 1 .. N + 1 : m < n => rank2[more[m]] < rank2[more[n]]
  <2> SUFFICES ASSUME NEW m \in 1 .. N + 1, NEW n \in 1 .. N + 1, m < n
               PROVE  rank2[more[m]] < rank2[more[n]]
    OBVIOUS
  <2>1. m \in 1 .. N /\ more[m] = line[m] /\ line[m] \in queue
    BY <1>2, <1>3
  <2>2. CASE n <= N
    <3>1. n \in 1 .. N /\ more[n] = line[n] /\ line[n] \in queue
      BY <1>2, <1>3, <2>2
    <3>2. rank[line[m]] < rank[line[n]]
      BY <1>1, <2>1, <3>1 DEF IsLine
    <3> HIDE DEF more
    <3> QED
      BY <2>1, <3>1, <3>2
  <2>3. CASE ~(n <= N)
    <3>1. more[n] = slot
      BY <1>2, <1>3, <2>3
    <3> HIDE DEF more
    <3> QED
      BY <2>1, <3>1 DEF RanksLast
  <2> QED
    BY <2>2, <2>3
<1>7. \A s \in queue \cup {slot} : \E n \in 1 .. N + 1 : more[n] = s
  <2> SUFFICES ASSUME NEW s \in queue \cup {slot} PROVE \E n \in 1 .. N + 1 : more[n] = s
    OBVIOUS
  <2>1. CASE s \in queue
    <3>1. PICK n \in 1 .. N : line[n] = s
      BY <1>1, <2>1 DEF IsLine
    <3> HIDE DEF more
    <3> QED
      BY <1>3, <3>1
  <2> HIDE DEF more
  <2> QED
    BY <1>3, <2>1
<1>8. IsLine(more, queue \cup {slot}, rank2)
  BY <1>5, <1>6, <1>7 DEF IsLine
<1>9. LevelIds(p2, lvl2) = IdsOn(p2, more)
  <2> HIDE DEF more
  <2> QED
    BY <1>8, LineIs
<1> DEFINE T == IdsOf(p, queue) \cup {p2[slot].id}
<1>10. IdsOn(p, line) \in Seq(T) /\ p2[slot].id \in T
  BY <1>2, SeqMonotonic
<1>11. /\ Append(IdsOn(p, line), p2[slot].id) \in Seq(T)
       /\ Len(Append(IdsOn(p, line), p2[slot].id)) = N + 1
       /\ \A n \in 1 .. N : Append(IdsOn(p, line), p2[slot].id)[n] = p[line[n]].id
       /\ Append(IdsOn(p, line), p2[slot].id)[N + 1] = p2[slot].id
  <2> HIDE DEF T, N
  <2> QED
    BY <1>2, <1>10, AppendProperties DEF N
<1>12. IdsOn(p2, more) = [n \in 1 .. N + 1 |-> p2[more[n]].id]
  BY DEF IdsOn
<1>13. \A n \in 1 .. N + 1 :
         p2[more[n]].id = IF n <= N THEN p[line[n]].id ELSE p2[slot].id
  <2> SUFFICES ASSUME NEW n \in 1 .. N + 1
               PROVE  p2[more[n]].id = IF n <= N THEN p[line[n]].id ELSE p2[slot].id
    OBVIOUS
  <2>1. n <= N => more[n] = line[n] /\ line[n] \in queue
    BY <1>2, <1>3
  <2>2. ~(n <= N) => more[n] = slot
    BY <1>2, <1>3
  <2> HIDE DEF more
  <2> QED
    BY <2>1, <2>2
<1>14. IdsOn(p2, more) \in Seq(T) /\ Len(IdsOn(p2, more)) = N + 1
  <2>1. \A n \in 1 .. N + 1 : p2[more[n]].id \in T
    BY <1>2, <1>3, <1>13
  <2> HIDE DEF more, T
  <2> QED
    BY <1>2, <1>12, <2>1, IsASeq
<1>15. \A n \in 1 .. N + 1 : IdsOn(p2, more)[n] = Append(IdsOn(p, line), p2[slot].id)[n]
  <2> SUFFICES ASSUME NEW n \in 1 .. N + 1
               PROVE  IdsOn(p2, more)[n] = Append(IdsOn(p, line), p2[slot].id)[n]
    OBVIOUS
  <2>1. IdsOn(p2, more)[n] = IF n <= N THEN p[line[n]].id ELSE p2[slot].id
    <3> HIDE DEF more
    <3> QED
      BY <1>12, <1>13
  <2>2. n \in 1 .. N \/ n = N + 1
    BY <1>2
  <2>3. n \in 1 .. N => n <= N
    BY <1>2
  <2>4. ~(N + 1 <= N)
    BY <1>2
  <2> HIDE DEF more, T
  <2> QED
    BY <1>11, <2>1, <2>2, <2>3, <2>4
<1>16. IdsOn(p2, more) = Append(IdsOn(p, line), p2[slot].id)
  <2> HIDE DEF more, T, N
  <2> QED
    BY <1>11, <1>14, <1>15, SeqEqual
<1> QED
  BY <1>1, <1>9, <1>16

-----------------------------------------------------------------------------
(***************************************************************************)
(* What happens to the ids when an order leaves a line, from any place     *)
(* (remove_resting from a cancel or a replace) or from its head (a filled  *)
(* maker).                                                                 *)
(***************************************************************************)

\* The line without the order at its k-th place.
Dropped(line, k) ==
  [n \in 1 .. Len(line) - 1 |-> IF n < k THEN line[n] ELSE line[n + 1]]

LEMMA LineDropped ==
  ASSUME NEW queue \in SUBSET Slots, NEW rank \in [Slots -> Slots], NEW rank2, NEW line,
         IsLine(line, queue, rank),
         \A s \in queue : rank2[s] = rank[s], NEW k \in 1 .. Len(line)
  PROVE  /\ Len(Dropped(line, k)) = Len(line) - 1
         /\ IsLine(Dropped(line, k), queue \ {line[k]}, rank2)
<1> DEFINE N == Len(line)
           less == Dropped(line, k)
<1>1. LineShape(NewRecord, queue, line)
  BY LineFacts
<1>2. /\ N \in Nat /\ k \in 1 .. N
      /\ \A n \in 1 .. N : line[n] \in queue
      /\ \A s \in queue : \E n \in 1 .. N : line[n] = s
  BY <1>1 DEF LineShape
<1>3. N - 1 \in Nat
  BY <1>2
<1>4. \A n \in 1 .. N - 1 : /\ n \in 1 .. N /\ n + 1 \in 1 .. N
                            /\ less[n] = IF n < k THEN line[n] ELSE line[n + 1]
  BY <1>2 DEF Dropped
<1>5. \A m, n \in 1 .. N : m < n => rank[line[m]] < rank[line[n]]
  BY DEF IsLine
<1>6. \A m, n \in 1 .. N : m # n => line[m] # line[n]
  <2> SUFFICES ASSUME NEW m \in 1 .. N, NEW n \in 1 .. N, m # n, line[m] = line[n] PROVE FALSE
    OBVIOUS
  <2>1. m < n \/ n < m
    BY <1>2
  <2>2. rank[line[m]] < rank[line[n]] \/ rank[line[n]] < rank[line[m]]
    BY <1>5, <2>1
  <2>3. rank[line[m]] \in Int
    BY <1>2, RanksTyped
  <2> QED
    BY <2>2, <2>3
<1> HIDE DEF N
<1>7. \A n \in 1 .. N - 1 : less[n] \in queue \ {line[k]}
  <2> SUFFICES ASSUME NEW n \in 1 .. N - 1 PROVE less[n] \in queue \ {line[k]}
    OBVIOUS
  <2>1. CASE n < k
    <3>1. less[n] = line[n] /\ n # k
      BY <1>2, <1>4, <2>1
    <3> HIDE DEF less
    <3> QED
      BY <1>2, <1>4, <1>6, <3>1
  <2>2. CASE ~(n < k)
    <3>1. less[n] = line[n + 1] /\ n + 1 # k
      BY <1>2, <1>4, <2>2
    <3> HIDE DEF less
    <3> QED
      BY <1>2, <1>4, <1>6, <3>1
  <2> QED
    BY <2>1, <2>2
<1>8. less \in Seq(queue \ {line[k]}) /\ Len(less) = N - 1
  <2>1. less = [n \in 1 .. N - 1 |-> less[n]]
    BY DEF Dropped, N
  <2> HIDE DEF less
  <2>2. \A n \in 1 .. N - 1 : less[n] \in queue \ {line[k]}
    BY <1>7
  <2>3. less \in Seq(queue \ {line[k]})
    BY <1>3, <2>1, <2>2, IsASeq
  <2>4. Len(less) = N - 1
    BY <1>3, <2>1
  <2> QED
    BY <2>3, <2>4
<1>9. \A m, n \in 1 .. N - 1 : m < n => rank2[less[m]] < rank2[less[n]]
  <2> SUFFICES ASSUME NEW m \in 1 .. N - 1, NEW n \in 1 .. N - 1, m < n
               PROVE  rank2[less[m]] < rank2[less[n]]
    OBVIOUS
  <2>1. PICK a \in 1 .. N : less[m] = line[a] /\ a = IF m < k THEN m ELSE m + 1
    <3> HIDE DEF less
    <3> QED
      BY <1>2, <1>4
  <2>2. PICK b \in 1 .. N : less[n] = line[b] /\ b = IF n < k THEN n ELSE n + 1
    <3> HIDE DEF less
    <3> QED
      BY <1>2, <1>4
  <2>3. a < b
    BY <1>2, <2>1, <2>2
  <2>4. rank[line[a]] < rank[line[b]] /\ line[a] \in queue /\ line[b] \in queue
    BY <1>2, <1>5, <2>3
  <2> HIDE DEF less
  <2> QED
    BY <2>1, <2>2, <2>4
<1>10. \A s \in queue \ {line[k]} : \E n \in 1 .. N - 1 : less[n] = s
  <2> SUFFICES ASSUME NEW s \in queue, s # line[k] PROVE \E n \in 1 .. N - 1 : less[n] = s
    OBVIOUS
  <2>1. PICK n \in 1 .. N : line[n] = s
    BY <1>2
  <2>2. n # k
    BY <2>1
  <2>3. CASE n < k
    <3>1. n \in 1 .. N - 1 /\ less[n] = s
      BY <1>2, <1>4, <2>1, <2>3
    <3> QED
      BY <3>1
  <2>4. CASE ~(n < k)
    <3>1. n - 1 \in 1 .. N - 1 /\ ~(n - 1 < k) /\ (n - 1) + 1 = n
      BY <1>2, <2>2, <2>4
    <3>2. less[n - 1] = s
      BY <1>4, <2>1, <3>1
    <3> QED
      BY <3>1, <3>2
  <2> QED
    BY <2>3, <2>4
<1> HIDE DEF less
<1>11. IsLine(less, queue \ {line[k]}, rank2)
  BY <1>8, <1>9, <1>10 DEF IsLine
<1> QED
  BY <1>8, <1>11 DEF N, less

\* An order leaves its level.
IdLeaves(p, lvl, p2, lvl2, queue, rank, rank2, slot) ==
  /\ Threads(p, lvl, queue, rank) /\ Threads(p2, lvl2, queue \ {slot}, rank2)
  /\ slot \in queue
  /\ \A s \in queue : rank2[s] = rank[s] /\ p2[s].id = p[s].id

LEMMA IdsDropped ==
  ASSUME NEW p, NEW lvl, NEW p2, NEW lvl2, NEW queue, NEW rank, NEW rank2, NEW slot,
         IdLeaves(p, lvl, p2, lvl2, queue, rank, rank2, slot)
  PROVE  \E line : \E k \in 1 .. Len(line) :
           /\ IsLine(line, queue, rank) /\ line[k] = slot
           /\ LevelIds(p, lvl) = IdsOn(p, line)
           /\ LevelIds(p2, lvl2) =
                [n \in 1 .. Len(line) - 1 |->
                   IF n < k THEN IdsOn(p, line)[n] ELSE IdsOn(p, line)[n + 1]]
<1>1. /\ Threads(p, lvl, queue, rank) /\ Threads(p2, lvl2, queue \ {slot}, rank2)
      /\ slot \in queue /\ queue \in SUBSET Slots /\ rank \in [Slots -> Slots]
      /\ \A s \in queue : rank2[s] = rank[s] /\ p2[s].id = p[s].id
  BY DEF IdLeaves, Threads
<1>2. PICK line : IsLine(line, queue, rank) /\ LevelIds(p, lvl) = IdsOn(p, line)
  BY <1>1, ThreadsLine
<1>3. LineShape(p, queue, line)
  BY <1>2, LineFacts
<1>4. /\ Len(line) \in Nat
      /\ \A n \in 1 .. Len(line) : line[n] \in queue /\ IdsOn(p, line)[n] = p[line[n]].id
      /\ \A s \in queue : \E n \in 1 .. Len(line) : line[n] = s
  BY <1>3 DEF LineShape
<1>5. PICK k \in 1 .. Len(line) : line[k] = slot
  BY <1>1, <1>4
<1> DEFINE less == Dropped(line, k)
<1>6. Len(less) = Len(line) - 1 /\ IsLine(less, queue \ {slot}, rank2)
  <2> HIDE DEF less
  <2>1. Len(Dropped(line, k)) = Len(line) - 1
        /\ IsLine(Dropped(line, k), queue \ {line[k]}, rank2)
    BY <1>1, <1>2, LineDropped
  <2> QED
    BY <1>5, <2>1 DEF less
<1>7. LevelIds(p2, lvl2) = IdsOn(p2, less)
  <2> HIDE DEF less
  <2> QED
    BY <1>1, <1>6, LineIs
<1>8. \A n \in 1 .. Len(line) - 1 :
        p2[less[n]].id = IF n < k THEN IdsOn(p, line)[n] ELSE IdsOn(p, line)[n + 1]
  <2> SUFFICES ASSUME NEW n \in 1 .. Len(line) - 1
               PROVE  p2[less[n]].id =
                        IF n < k THEN IdsOn(p, line)[n] ELSE IdsOn(p, line)[n + 1]
    OBVIOUS
  <2>1. n \in 1 .. Len(line) /\ n + 1 \in 1 .. Len(line)
    BY <1>4
  <2>2. less[n] = IF n < k THEN line[n] ELSE line[n + 1]
    BY DEF Dropped
  <2> HIDE DEF less
  <2> QED
    BY <1>1, <1>4, <2>1, <2>2
<1>9. IdsOn(p2, less) = [n \in 1 .. Len(line) - 1 |-> p2[less[n]].id]
  <2>1. DOMAIN less = 1 .. Len(line) - 1
    BY DEF Dropped
  <2> HIDE DEF less
  <2> QED
    BY <2>1 DEF IdsOn
<1>10. LevelIds(p2, lvl2) =
         [n \in 1 .. Len(line) - 1 |->
            IF n < k THEN IdsOn(p, line)[n] ELSE IdsOn(p, line)[n + 1]]
  <2> HIDE DEF less
  <2> QED
    BY <1>7, <1>8, <1>9
<1> QED
  BY <1>2, <1>5, <1>10

LEMMA IdsLeft ==
  ASSUME NEW p, NEW lvl, NEW p2, NEW lvl2, NEW queue, NEW rank, NEW rank2, NEW slot,
         IdLeaves(p, lvl, p2, lvl2, queue, rank, rank2, slot),
         \A s, t \in queue : p[s].id = p[t].id => s = t
  PROVE  LevelIds(p2, lvl2) = Promised!Without(LevelIds(p, lvl), p[slot].id)
<1>1. PICK line : \E k \in 1 .. Len(line) :
           /\ IsLine(line, queue, rank) /\ line[k] = slot
           /\ LevelIds(p, lvl) = IdsOn(p, line)
           /\ LevelIds(p2, lvl2) =
                [n \in 1 .. Len(line) - 1 |->
                   IF n < k THEN IdsOn(p, line)[n] ELSE IdsOn(p, line)[n + 1]]
  BY IdsDropped
<1>2. PICK k \in 1 .. Len(line) :
           /\ IsLine(line, queue, rank) /\ line[k] = slot
           /\ LevelIds(p, lvl) = IdsOn(p, line)
           /\ LevelIds(p2, lvl2) =
                [n \in 1 .. Len(line) - 1 |->
                   IF n < k THEN IdsOn(p, line)[n] ELSE IdsOn(p, line)[n + 1]]
  BY <1>1
<1>3. /\ Len(line) \in Nat
      /\ \A n \in 1 .. Len(line) : line[n] \in queue /\ IdsOn(p, line)[n] = p[line[n]].id
      /\ Len(IdsOn(p, line)) = Len(line)
  <2>1. LineShape(p, queue, line)
    BY <1>2, LineFacts
  <2> QED
    BY <2>1 DEF LineShape
<1>4. \A m, n \in 1 .. Len(line) : m < n => rank[line[m]] < rank[line[n]]
  BY <1>2 DEF IsLine
<1>5. \A s \in queue : rank[s] \in Int
  BY RanksTyped DEF IdLeaves, Threads
<1>6. \A m \in 1 .. Len(line) : IdsOn(p, line)[m] = p[slot].id <=> m = k
  <2> SUFFICES ASSUME NEW m \in 1 .. Len(line)
               PROVE  IdsOn(p, line)[m] = p[slot].id <=> m = k
    OBVIOUS
  <2>1. m = k => IdsOn(p, line)[m] = p[slot].id
    BY <1>2, <1>3
  <2>2. IdsOn(p, line)[m] = p[slot].id => line[m] = line[k]
    BY <1>2, <1>3
  <2>3. m # k => line[m] # line[k]
    <3> SUFFICES ASSUME m # k, line[m] = line[k] PROVE FALSE
      OBVIOUS
    <3>1. m < k \/ k < m
      BY <1>3
    <3>2. rank[line[m]] < rank[line[k]] \/ rank[line[k]] < rank[line[m]]
      BY <1>4, <3>1
    <3>3. rank[line[m]] \in Int
      BY <1>3, <1>5
    <3> QED
      BY <3>2, <3>3
  <2> QED
    BY <2>1, <2>2, <2>3
<1>7. \A n \in 1 .. Len(line) - 1 :
        (\E m \in 1 .. n : IdsOn(p, line)[m] = p[slot].id) <=> ~(n < k)
  <2> SUFFICES ASSUME NEW n \in 1 .. Len(line) - 1
               PROVE  (\E m \in 1 .. n : IdsOn(p, line)[m] = p[slot].id) <=> ~(n < k)
    OBVIOUS
  <2>1. \A m \in 1 .. n : m \in 1 .. Len(line)
    BY <1>3
  <2>2. (\E m \in 1 .. n : IdsOn(p, line)[m] = p[slot].id) <=> k \in 1 .. n
    BY <1>6, <2>1
  <2> QED
    BY <1>3, <2>2
<1>8. Promised!Without(IdsOn(p, line), p[slot].id) =
        [n \in 1 .. Len(line) - 1 |->
           IF n < k THEN IdsOn(p, line)[n] ELSE IdsOn(p, line)[n + 1]]
  BY <1>3, <1>7 DEF Promised!Without
<1> QED
  BY <1>2, <1>8

LEMMA IdsFirst ==
  ASSUME NEW p, NEW lvl, NEW queue, NEW rank, NEW slot,
         Threads(p, lvl, queue, rank), slot \in queue,
         \A s \in queue \ {slot} : rank[slot] < rank[s]
  PROVE  LevelIds(p, lvl) # <<>> /\ Head(LevelIds(p, lvl)) = p[slot].id
<1>1. PICK line : IsLine(line, queue, rank) /\ LevelIds(p, lvl) = IdsOn(p, line)
  BY ThreadsLine
<1>2. /\ Len(line) \in Nat
      /\ \A n \in 1 .. Len(line) : line[n] \in queue /\ IdsOn(p, line)[n] = p[line[n]].id
      /\ Len(IdsOn(p, line)) = Len(line)
      /\ \A s \in queue : \E n \in 1 .. Len(line) : line[n] = s
      /\ IdsOn(p, line) \in Seq(IdsOf(p, queue))
  <2>1. LineShape(p, queue, line)
    BY <1>1, LineFacts
  <2> QED
    BY <2>1 DEF LineShape
<1>3. PICK k \in 1 .. Len(line) : line[k] = slot
  BY <1>2
<1>4. 1 \in 1 .. Len(line) /\ IdsOn(p, line) # <<>>
  BY <1>2, <1>3
<1>5. k = 1
  <2> SUFFICES ASSUME k # 1 PROVE FALSE
    OBVIOUS
  <2>1. 1 < k
    BY <1>2, <1>4
  <2>2. rank[line[1]] < rank[slot]
    BY <1>1, <1>3, <1>4, <2>1 DEF IsLine
  <2>3. line[1] \in queue /\ rank[line[1]] \in Int /\ rank[slot] \in Int
    BY <1>2, <1>4, RanksTyped DEF Threads
  <2> QED
    BY <2>2, <2>3
<1>6. Head(IdsOn(p, line)) = IdsOn(p, line)[1]
  BY <1>2, <1>4
<1> QED
  BY <1>1, <1>2, <1>3, <1>4, <1>5, <1>6

LEMMA IdsTail ==
  ASSUME NEW p, NEW lvl, NEW p2, NEW lvl2, NEW queue, NEW rank, NEW rank2, NEW slot,
         IdLeaves(p, lvl, p2, lvl2, queue, rank, rank2, slot),
         \A s \in queue \ {slot} : rank[slot] < rank[s]
  PROVE  LevelIds(p2, lvl2) = Tail(LevelIds(p, lvl))
<1>1. PICK line : \E k \in 1 .. Len(line) :
           /\ IsLine(line, queue, rank) /\ line[k] = slot
           /\ LevelIds(p, lvl) = IdsOn(p, line)
           /\ LevelIds(p2, lvl2) =
                [n \in 1 .. Len(line) - 1 |->
                   IF n < k THEN IdsOn(p, line)[n] ELSE IdsOn(p, line)[n + 1]]
  BY IdsDropped
<1>2. PICK k \in 1 .. Len(line) :
           /\ IsLine(line, queue, rank) /\ line[k] = slot
           /\ LevelIds(p, lvl) = IdsOn(p, line)
           /\ LevelIds(p2, lvl2) =
                [n \in 1 .. Len(line) - 1 |->
                   IF n < k THEN IdsOn(p, line)[n] ELSE IdsOn(p, line)[n + 1]]
  BY <1>1
<1>3. /\ Len(line) \in Nat
      /\ \A n \in 1 .. Len(line) : line[n] \in queue /\ IdsOn(p, line)[n] = p[line[n]].id
      /\ Len(IdsOn(p, line)) = Len(line)
      /\ IdsOn(p, line) \in Seq(IdsOf(p, queue))
  <2>1. LineShape(p, queue, line)
    BY <1>2, LineFacts
  <2> QED
    BY <2>1 DEF LineShape
<1>4. 1 \in 1 .. Len(line) /\ IdsOn(p, line) # <<>>
  BY <1>2, <1>3
<1>5. k = 1
  <2> SUFFICES ASSUME k # 1 PROVE FALSE
    OBVIOUS
  <2>1. 1 < k
    BY <1>2, <1>4
  <2>2. rank[line[1]] < rank[slot]
    BY <1>2, <1>4, <2>1 DEF IsLine
  <2>3. line[1] \in queue /\ slot \in queue
    BY <1>3, <1>4 DEF IdLeaves
  <2>4. rank[line[1]] \in Int /\ rank[slot] \in Int
    BY <2>3, RanksTyped DEF IdLeaves, Threads
  <2> QED
    BY <2>2, <2>3, <2>4
<1>6. LevelIds(p2, lvl2) = [n \in 1 .. Len(line) - 1 |-> IdsOn(p, line)[n + 1]]
  BY <1>2, <1>3, <1>5
<1> DEFINE ids == IdsOn(p, line)
<1>7. Tail(ids) = [n \in 1 .. Len(line) - 1 |-> ids[n + 1]]
  <2>1. ids \in Seq(IdsOf(p, queue)) /\ ids # <<>> /\ Len(ids) = Len(line)
    BY <1>3, <1>4
  <2> HIDE DEF ids
  <2>2. /\ Tail(ids) \in Seq(IdsOf(p, queue)) /\ Len(Tail(ids)) = Len(line) - 1
        /\ \A n \in 1 .. Len(line) - 1 : Tail(ids)[n] = ids[n + 1]
    BY <2>1, HeadTailProperties
  <2>3. DOMAIN Tail(ids) = 1 .. Len(line) - 1
        /\ Tail(ids) = [n \in 1 .. Len(Tail(ids)) |-> Tail(ids)[n]]
    BY <2>2, LenProperties
  <2> QED
    BY <2>2, <2>3
<1> QED
  BY <1>2, <1>6, <1>7

-----------------------------------------------------------------------------
(***************************************************************************)
(* What happens to the ids when another order takes over a place           *)
(* (replace_in_place).                                                     *)
(***************************************************************************)

\* A replacement takes the place of the order it replaces.
LEMMA IdsSwapped ==
  ASSUME NEW p, NEW lvl, NEW p2, NEW lvl2, NEW queue, NEW rank, NEW rank2,
         NEW old \in queue, NEW new \in Slots, new \notin queue, NEW queue2,
         queue2 = (queue \ {old}) \cup {new},
         Threads(p, lvl, queue, rank), Threads(p2, lvl2, queue2, rank2),
         \A s \in queue : rank2[s] = rank[s] /\ p2[s].id = p[s].id,
         rank2[new] = rank[old],
         \A s, t \in queue : p[s].id = p[t].id => s = t
  PROVE  LevelIds(p2, lvl2) =
           [n \in DOMAIN LevelIds(p, lvl) |->
              IF LevelIds(p, lvl)[n] = p[old].id THEN p2[new].id ELSE LevelIds(p, lvl)[n]]
<1>1. PICK line : IsLine(line, queue, rank) /\ LevelIds(p, lvl) = IdsOn(p, line)
  BY ThreadsLine
<1>2. /\ Len(line) \in Nat /\ DOMAIN line = 1 .. Len(line)
      /\ \A n \in 1 .. Len(line) : line[n] \in queue /\ IdsOn(p, line)[n] = p[line[n]].id
      /\ DOMAIN IdsOn(p, line) = 1 .. Len(line)
      /\ \A s \in queue : \E n \in 1 .. Len(line) : line[n] = s
  <2>1. LineShape(p, queue, line)
    BY <1>1, LineFacts
  <2> QED
    BY <2>1 DEF LineShape
<1> DEFINE N == Len(line)
           swap == [n \in 1 .. N |-> IF line[n] = old THEN new ELSE line[n]]
<1>3. \A m, n \in 1 .. N : m < n => rank[line[m]] < rank[line[n]]
  BY <1>1 DEF IsLine
<1>4. \A n \in 1 .. N : /\ swap[n] \in queue2
                        /\ rank2[swap[n]] = rank[line[n]]
                        /\ p2[swap[n]].id = IF line[n] = old THEN p2[new].id ELSE p[line[n]].id
  <2> SUFFICES ASSUME NEW n \in 1 .. N
               PROVE  /\ swap[n] \in queue2
                      /\ rank2[swap[n]] = rank[line[n]]
                      /\ p2[swap[n]].id = IF line[n] = old THEN p2[new].id ELSE p[line[n]].id
    OBVIOUS
  <2>1. line[n] \in queue /\ swap[n] = IF line[n] = old THEN new ELSE line[n]
    BY <1>2
  <2> HIDE DEF swap
  <2> QED
    BY <2>1
<1>5. swap \in Seq(queue2) /\ Len(swap) = N
  <2>1. \A n \in 1 .. N : (IF line[n] = old THEN new ELSE line[n]) \in queue2
    BY <1>2
  <2>2. N \in Nat
    BY <1>2
  <2>3. swap \in Seq(queue2)
    BY <2>1, <2>2, IsASeq
  <2> QED
    BY <2>2, <2>3
<1>6. \A s \in queue2 : \E n \in 1 .. N : swap[n] = s
  <2> SUFFICES ASSUME NEW s \in queue2 PROVE \E n \in 1 .. N : swap[n] = s
    OBVIOUS
  <2> DEFINE t == IF s = new THEN old ELSE s
  <2>1. t \in queue /\ s = IF t = old THEN new ELSE t
    OBVIOUS
  <2>2. PICK n \in 1 .. N : line[n] = t
    BY <1>2, <2>1
  <2>3. swap[n] = IF line[n] = old THEN new ELSE line[n]
    OBVIOUS
  <2> HIDE DEF swap, t
  <2> QED
    BY <2>1, <2>2, <2>3
<1>7. \A m, n \in 1 .. N : m < n => rank2[swap[m]] < rank2[swap[n]]
  <2> HIDE DEF swap
  <2> QED
    BY <1>3, <1>4
<1>8. LevelIds(p2, lvl2) = IdsOn(p2, swap)
  <2> HIDE DEF swap
  <2>1. IsLine(swap, queue2, rank2)
    BY <1>5, <1>6, <1>7 DEF IsLine
  <2> QED
    BY <2>1, LineIs
<1>9. IdsOn(p2, swap) = [n \in 1 .. N |-> p2[swap[n]].id]
  BY DEF IdsOn
<1>10. \A n \in 1 .. N :
         p2[swap[n]].id = IF IdsOn(p, line)[n] = p[old].id THEN p2[new].id
                          ELSE IdsOn(p, line)[n]
  <2> SUFFICES ASSUME NEW n \in 1 .. N
               PROVE  p2[swap[n]].id = IF IdsOn(p, line)[n] = p[old].id THEN p2[new].id
                                       ELSE IdsOn(p, line)[n]
    OBVIOUS
  <2>1. line[n] \in queue /\ IdsOn(p, line)[n] = p[line[n]].id
    BY <1>2
  <2>2. p[line[n]].id = p[old].id <=> line[n] = old
    BY <2>1
  <2>3. p2[swap[n]].id = IF line[n] = old THEN p2[new].id ELSE p[line[n]].id
    BY <1>4
  <2> HIDE DEF swap
  <2> QED
    BY <2>1, <2>2, <2>3
<1> HIDE DEF swap
<1> QED
  BY <1>1, <1>2, <1>8, <1>9, <1>10

\* The line holds the queue's ids.
LEMMA IdsHold ==
  ASSUME NEW p, NEW lvl, NEW queue, NEW rank, Threads(p, lvl, queue, rank)
  PROVE  /\ Promised!ToSet(LevelIds(p, lvl)) = IdsOf(p, queue)
         /\ LevelIds(p, lvl) = <<>> <=> queue = {}
<1>1. PICK line : IsLine(line, queue, rank) /\ LevelIds(p, lvl) = IdsOn(p, line)
  BY ThreadsLine
<1>2. /\ Len(line) \in Nat
      /\ \A n \in 1 .. Len(line) : line[n] \in queue /\ IdsOn(p, line)[n] = p[line[n]].id
      /\ DOMAIN IdsOn(p, line) = 1 .. Len(line)
      /\ \A s \in queue : \E n \in 1 .. Len(line) : line[n] = s
      /\ Len(IdsOn(p, line)) = Len(line)
      /\ IdsOn(p, line) \in Seq(IdsOf(p, queue))
  <2>1. LineShape(p, queue, line)
    BY <1>1, LineFacts
  <2> QED
    BY <2>1 DEF LineShape
<1> DEFINE ids == IdsOn(p, line)
<1>3. Promised!ToSet(ids) = {ids[n] : n \in DOMAIN ids}
  BY DEF Promised!ToSet
<1>4. ASSUME NEW n \in DOMAIN ids PROVE ids[n] \in IdsOf(p, queue)
  BY <1>2 DEF IdsOf
<1>5. ASSUME NEW s \in queue PROVE \E n \in DOMAIN ids : ids[n] = p[s].id
  <2>1. PICK n \in 1 .. Len(line) : line[n] = s
    BY <1>2
  <2>2. n \in DOMAIN ids /\ ids[n] = p[s].id
    BY <1>2, <2>1
  <2> HIDE DEF ids
  <2> QED
    BY <2>2
<1>6. Promised!ToSet(ids) = IdsOf(p, queue)
  <2> HIDE DEF ids
  <2> QED
    BY <1>3, <1>4, <1>5 DEF IdsOf
<1>7. ids = <<>> <=> Len(line) = 0
  <2> HIDE DEF ids
  <2>1. ids \in Seq(IdsOf(p, queue)) /\ Len(ids) = Len(line)
    BY <1>2 DEF ids
  <2> QED
    BY <2>1, EmptySeq
<1>8. Len(line) = 0 <=> queue = {}
  <2>1. queue # {} => Len(line) # 0
    BY <1>2
  <2>2. Len(line) # 0 => 1 \in 1 .. Len(line)
    BY <1>2
  <2> QED
    BY <1>2, <2>1, <2>2
<1> QED
  BY <1>1, <1>6, <1>7, <1>8

-----------------------------------------------------------------------------
(***************************************************************************)
(* From one level to all of them: a step changes the lines only where the  *)
(* orders it opens or closes rest.                                         *)
(***************************************************************************)

LEMMA FitThreads ==
  ASSUME NEW p, NEW book, NEW i \in Instruments, NEW rank \in [Slots -> Slots],
         BookFits(p, book, i, rank), NEW side \in Side, NEW x \in Index(i)
  PROVE  Threads(p, book.levels[side][x], Queue(p, i, side, x), rank)
<1>1. Queue(p, i, side, x) \in SUBSET Slots
  BY DEF Queue
<1> QED
  BY <1>1 DEF Threads, BookFits, LevelsLinked

LEMMA PriceIndex ==
  ASSUME NEW i \in Instruments
  PROVE  /\ \A price \in PricesOf[i] : /\ price_to_index(i, price) \in Index(i)
                                       /\ Ladder[i][price_to_index(i, price)] = price
         /\ \A x \in Index(i) : /\ Ladder[i][x] \in PricesOf[i]
                                /\ price_to_index(i, Ladder[i][x]) = x
<1>1. PricesOf[i] = {Ladder[i][x] : x \in Index(i)}
  BY DEF PricesOf, index_to_price
<1>2. ASSUME NEW price, NEW x \in Index(i), Ladder[i][x] = price
      PROVE  price_to_index(i, price) \in Index(i) /\ Ladder[i][price_to_index(i, price)] = price
  BY <1>2 DEF price_to_index
<1>3. ASSUME NEW x \in Index(i) PROVE price_to_index(i, Ladder[i][x]) = x
  BY <1>2, LadderOrder
<1> QED
  BY <1>1, <1>2, <1>3

\* The line of a level, by its price.
LineAt(p, theBooks, i, side, price) ==
  LevelIds(p, theBooks[i].levels[side][price_to_index(i, price)])

LEMMA LinesExcept ==
  ASSUME NEW i \in Instruments, NEW side \in Side, NEW price \in PricesOf[i], NEW line,
         LineAt(pool', books', i, side, price) = line,
         \A j \in Instruments, s \in Side : \A q \in PricesOf[j] :
           ~(j = i /\ s = side /\ q = price) =>
             LineAt(pool', books', j, s, q) = LineAt(pool, books, j, s, q)
  PROVE  Lines' = [Lines EXCEPT ![i][side][price] = line]
<1> DEFINE L(j, s, q)  == LineAt(pool, books, j, s, q)
           L2(j, s, q) == LineAt(pool', books', j, s, q)
<1>1. Lines = [j \in Instruments |-> [s \in Side |-> [q \in PricesOf[j] |-> L(j, s, q)]]]
  BY DEF Lines, LineAt
<1>2. Lines' = [j \in Instruments |-> [s \in Side |-> [q \in PricesOf[j] |-> L2(j, s, q)]]]
  BY DEF Lines, LineAt
<1>3. /\ L2(i, side, price) = line
      /\ \A j \in Instruments, s \in Side : \A q \in PricesOf[j] :
           ~(j = i /\ s = side /\ q = price) => L2(j, s, q) = L(j, s, q)
  OBVIOUS
<1> HIDE DEF L, L2
<1>4. ASSUME NEW j \in Instruments, NEW s \in Side
      PROVE  [q \in PricesOf[j] |-> L2(j, s, q)] =
               [Lines EXCEPT ![i][side][price] = line][j][s]
  <2>1. CASE j # i
    <3>1. [Lines EXCEPT ![i][side][price] = line][j][s] = [q \in PricesOf[j] |-> L(j, s, q)]
      BY <1>1, <2>1
    <3> QED
      BY <1>3, <2>1, <3>1
  <2>2. CASE j = i /\ s # side
    <3>1. [Lines EXCEPT ![i][side][price] = line][j][s] = [q \in PricesOf[j] |-> L(j, s, q)]
      BY <1>1, <2>2
    <3> QED
      BY <1>3, <2>2, <3>1
  <2>3. CASE j = i /\ s = side
    <3>1. [Lines EXCEPT ![i][side][price] = line][j][s] =
            [[q \in PricesOf[i] |-> L(i, side, q)] EXCEPT ![price] = line]
      BY <1>1, <2>3
    <3>2. [[q \in PricesOf[i] |-> L(i, side, q)] EXCEPT ![price] = line] =
            [q \in PricesOf[i] |-> IF q = price THEN line ELSE L(i, side, q)]
      OBVIOUS
    <3>3. \A q \in PricesOf[i] :
            L2(i, side, q) = IF q = price THEN line ELSE L(i, side, q)
      BY <1>3
    <3> QED
      BY <2>3, <3>1, <3>2, <3>3
  <2> QED
    BY <2>1, <2>2, <2>3
<1>5. ASSUME NEW j \in Instruments
      PROVE  [s \in Side |-> [q \in PricesOf[j] |-> L2(j, s, q)]] =
               [Lines EXCEPT ![i][side][price] = line][j]
  <2>1. [Lines EXCEPT ![i][side][price] = line][j] =
          [s \in Side |-> [Lines EXCEPT ![i][side][price] = line][j][s]]
    BY <1>1
  <2> QED
    BY <1>4, <2>1
<1>6. [Lines EXCEPT ![i][side][price] = line] =
        [j \in Instruments |-> [Lines EXCEPT ![i][side][price] = line][j]]
  BY <1>1
<1> QED
  BY <1>2, <1>5, <1>6

LEMMA LinesSame ==
  ASSUME \A j \in Instruments, s \in Side : \A q \in PricesOf[j] :
           LineAt(pool', books', j, s, q) = LineAt(pool, books, j, s, q)
  PROVE  Lines' = Lines
BY DEF Lines, LineAt

\* The orders outside S stay where they are.
OthersStay(S) ==
  \A s \in Slots \ S :
    /\ pool'[s].is_open <=> pool[s].is_open
    /\ pool[s].is_open => /\ pool'[s].instrument_id = pool[s].instrument_id
                          /\ pool'[s].side = pool[s].side
                          /\ pool'[s].level_index = pool[s].level_index
                          /\ pool'[s].id = pool[s].id
                          /\ arrival'[s] = arrival[s]

LEMMA QueueStays ==
  ASSUME NEW S, OthersStay(S), NEW i, NEW side, NEW x, NEW s \in Slots \ S
  PROVE  s \in Queue(pool', i, side, x) <=> s \in Queue(pool, i, side, x)
BY DEF OthersStay, Queue

LEMMA StepThreads ==
  ASSUME IInv, IInv', NEW i \in Instruments, NEW side \in Side, NEW x \in Index(i)
  PROVE  /\ Threads(pool, books[i].levels[side][x], Queue(pool, i, side, x), arrival)
         /\ Threads(pool', books'[i].levels[side][x], Queue(pool', i, side, x), arrival')
<1>1. BookFits(pool, books[i], i, arrival) /\ arrival \in [Slots -> Slots]
  BY DEF IInv, BooksFit, TypeOK
<1>2. BookFits(pool', books'[i], i, arrival') /\ arrival' \in [Slots -> Slots]
  BY DEF IInv, BooksFit, TypeOK
<1> QED
  BY <1>1, <1>2, FitThreads

\* A level that nobody of S is on keeps its line.
LEMMA LineStays ==
  ASSUME IInv, IInv', NEW S, OthersStay(S),
         NEW i \in Instruments, NEW side \in Side, NEW x \in Index(i),
         \A s \in S : s \notin Queue(pool, i, side, x) /\ s \notin Queue(pool', i, side, x)
  PROVE  LevelIds(pool', books'[i].levels[side][x]) = LevelIds(pool, books[i].levels[side][x])
<1> DEFINE Q == Queue(pool, i, side, x)
<1>1. Queue(pool', i, side, x) = Q
  <2>1. \A s \in Slots : s \in Queue(pool', i, side, x) <=> s \in Q
    BY QueueStays
  <2>2. Q \subseteq Slots /\ Queue(pool', i, side, x) \subseteq Slots
    BY DEF Queue
  <2> QED
    BY <2>1, <2>2
<1>2. Threads(pool, books[i].levels[side][x], Q, arrival)
      /\ Threads(pool', books'[i].levels[side][x], Q, arrival')
  BY <1>1, StepThreads
<1>3. \A s \in Q : arrival'[s] = arrival[s] /\ pool'[s].id = pool[s].id
  BY DEF OthersStay, Queue
<1> HIDE DEF Q
<1> QED
  BY <1>2, <1>3, IdsKept

LEMMA LinesKept ==
  ASSUME IInv, IInv', OthersStay({})
  PROVE  Lines' = Lines
<1> SUFFICES ASSUME NEW j \in Instruments, NEW s \in Side, NEW q \in PricesOf[j]
             PROVE  LineAt(pool', books', j, s, q) = LineAt(pool, books, j, s, q)
  BY LinesSame
<1>1. price_to_index(j, q) \in Index(j)
  BY PriceIndex
<1> QED
  BY <1>1, LineStays DEF LineAt

-----------------------------------------------------------------------------
(***************************************************************************)
(* The four ways in which a step of the engine changes a line: an order    *)
(* leaves it, the first one leaves it, one joins its end, one takes the    *)
(* place of another.                                                       *)
(***************************************************************************)

\* Where an order of pool p rests.
RestsAt(p, slot, i, side, price, x) ==
  /\ i \in Instruments /\ side \in Side /\ price \in PricesOf[i] /\ x \in Index(i)
  /\ price_to_index(i, price) = x
  /\ p[slot].instrument_id = i /\ p[slot].side = side /\ p[slot].level_index = x
  /\ slot \in Queue(p, i, side, x)

LEMMA FitRests ==
  ASSUME NEW p \in [Slots -> OrderRecord], NEW book, NEW i \in Instruments, NEW rank,
         BookFits(p, book, i, rank), NEW slot \in Slots, p[slot].is_open,
         p[slot].instrument_id = i
  PROVE  RestsAt(p, slot, i, p[slot].side, p[slot].price, p[slot].level_index)
<1>1. p[slot].level_index \in Index(i) /\ Ladder[i][p[slot].level_index] = p[slot].price
  BY DEF BookFits, OnTheirLevels, index_to_price
<1>2. p[slot].price \in PricesOf[i] /\ price_to_index(i, p[slot].price) = p[slot].level_index
  BY <1>1, PriceIndex
<1>3. p[slot].side \in Side
  BY DEF OrderRecord
<1> QED
  BY <1>1, <1>2, <1>3 DEF RestsAt, Queue

LEMMA OpenRests ==
  ASSUME IInv, NEW slot \in OpenSlots
  PROVE  RestsAt(pool, slot, pool[slot].instrument_id, pool[slot].side, pool[slot].price,
                 pool[slot].level_index)
<1>1. slot \in Slots /\ pool[slot].is_open
  BY DEF OpenSlots
<1>2. pool \in [Slots -> OrderRecord] /\ pool[slot].instrument_id \in Instruments
  BY <1>1, StateFacts
<1>3. BookFits(pool, books[pool[slot].instrument_id], pool[slot].instrument_id, arrival)
  BY <1>2 DEF IInv, BooksFit
<1> QED
  BY <1>1, <1>2, <1>3, FitRests

\* An order is on its own level only.
LEMMA OneLevel ==
  ASSUME NEW p, NEW slot, NEW i, NEW side, NEW price, NEW x,
         RestsAt(p, slot, i, side, price, x),
         NEW j \in Instruments, NEW s \in Side, NEW q \in PricesOf[j],
         ~(j = i /\ s = side /\ q = price)
  PROVE  /\ price_to_index(j, q) \in Index(j)
         /\ slot \notin Queue(p, j, s, price_to_index(j, q))
<1>1. price_to_index(j, q) \in Index(j) /\ Ladder[j][price_to_index(j, q)] = q
  BY PriceIndex
<1>2. Ladder[i][x] = price
  BY PriceIndex DEF RestsAt
<1>3. j = i => price_to_index(j, q) # x \/ s # side
  BY <1>1, <1>2
<1> QED
  BY <1>1, <1>3 DEF RestsAt, Queue

LEMMA OwnIds ==
  ASSUME IInv, NEW i, NEW side, NEW x
  PROVE  \A s, t \in Queue(pool, i, side, x) : pool[s].id = pool[t].id => s = t
BY DEF IInv, OpenOrdersReachable, OpenSlots, Queue

\* A step after which the order in slot does not rest any more.
Leaves(slot) ==
  /\ slot \in OpenSlots /\ ~pool'[slot].is_open
  /\ OthersStay({slot})
  /\ pool'[slot].id = pool[slot].id /\ arrival'[slot] = arrival[slot]

LEMMA LevelLoses ==
  ASSUME IInv, IInv', NEW slot, Leaves(slot), NEW i, NEW side, NEW price, NEW x,
         RestsAt(pool, slot, i, side, price, x)
  PROVE  /\ IdLeaves(pool, books[i].levels[side][x], pool', books'[i].levels[side][x],
                     Queue(pool, i, side, x), arrival, arrival', slot)
         /\ \A j \in Instruments, s \in Side : \A q \in PricesOf[j] :
              ~(j = i /\ s = side /\ q = price) =>
                LineAt(pool', books', j, s, q) = LineAt(pool, books, j, s, q)
<1>1. i \in Instruments /\ side \in Side /\ x \in Index(i) /\ slot \in Queue(pool, i, side, x)
  BY DEF RestsAt
<1> DEFINE Q == Queue(pool, i, side, x)
<1>2. Queue(pool', i, side, x) = Q \ {slot}
  <2>1. \A s \in Slots \ {slot} : s \in Queue(pool', i, side, x) <=> s \in Q
    BY QueueStays DEF Leaves
  <2>2. slot \notin Queue(pool', i, side, x)
    BY DEF Leaves, Queue
  <2>3. Q \subseteq Slots /\ Queue(pool', i, side, x) \subseteq Slots
    BY DEF Queue
  <2> QED
    BY <2>1, <2>2, <2>3
<1>3. Threads(pool, books[i].levels[side][x], Q, arrival)
      /\ Threads(pool', books'[i].levels[side][x], Q \ {slot}, arrival')
  BY <1>1, <1>2, StepThreads
<1>4. \A s \in Q : arrival'[s] = arrival[s] /\ pool'[s].id = pool[s].id
  BY DEF Leaves, OthersStay, Queue
<1>5. IdLeaves(pool, books[i].levels[side][x], pool', books'[i].levels[side][x],
               Q, arrival, arrival', slot)
  <2> HIDE DEF Q
  <2>1. slot \in Q
    BY <1>1 DEF Q
  <2> QED
    BY <1>3, <1>4, <2>1 DEF IdLeaves
<1>6. ASSUME NEW j \in Instruments, NEW s \in Side, NEW q \in PricesOf[j],
             ~(j = i /\ s = side /\ q = price)
      PROVE  LineAt(pool', books', j, s, q) = LineAt(pool, books, j, s, q)
  <2> DEFINE y == price_to_index(j, q)
  <2>1. y \in Index(j) /\ slot \notin Queue(pool, j, s, y)
    BY <1>6, OneLevel
  <2>2. slot \notin Queue(pool', j, s, y)
    BY DEF Leaves, Queue
  <2>3. LevelIds(pool', books'[j].levels[s][y]) = LevelIds(pool, books[j].levels[s][y])
    <3> HIDE DEF y
    <3> QED
      BY <2>1, <2>2, LineStays DEF Leaves
  <2> QED
    BY <2>3 DEF LineAt
<1> QED
  BY <1>5, <1>6

LEMMA LinesLose ==
  ASSUME IInv, IInv', NEW slot, Leaves(slot), NEW i, NEW side, NEW price, NEW x,
         RestsAt(pool, slot, i, side, price, x)
  PROVE  Lines' = [Lines EXCEPT ![i][side][price] =
                     Promised!Without(Lines[i][side][price], pool[slot].id)]
<1>1. i \in Instruments /\ side \in Side /\ price \in PricesOf[i] /\ x \in Index(i)
      /\ price_to_index(i, price) = x
  BY DEF RestsAt
<1>2. IdLeaves(pool, books[i].levels[side][x], pool', books'[i].levels[side][x],
               Queue(pool, i, side, x), arrival, arrival', slot)
  BY LevelLoses
<1>3. LevelIds(pool', books'[i].levels[side][x]) =
        Promised!Without(LevelIds(pool, books[i].levels[side][x]), pool[slot].id)
  BY <1>2, OwnIds, IdsLeft
<1>4. Lines[i][side][price] = LevelIds(pool, books[i].levels[side][x])
  BY <1>1 DEF Lines
<1>5. LineAt(pool', books', i, side, price) =
        Promised!Without(Lines[i][side][price], pool[slot].id)
  BY <1>1, <1>3, <1>4 DEF LineAt
<1>6. \A j \in Instruments, s \in Side : \A q \in PricesOf[j] :
        ~(j = i /\ s = side /\ q = price) =>
          LineAt(pool', books', j, s, q) = LineAt(pool, books, j, s, q)
  BY LevelLoses
<1> QED
  BY <1>1, <1>5, <1>6, LinesExcept

LEMMA LinesLoseFirst ==
  ASSUME IInv, IInv', NEW slot, Leaves(slot), NEW i, NEW side, NEW price, NEW x,
         RestsAt(pool, slot, i, side, price, x),
         \A s \in Queue(pool, i, side, x) \ {slot} : arrival[slot] < arrival[s]
  PROVE  Lines' = [Lines EXCEPT ![i][side][price] = Tail(Lines[i][side][price])]
<1>1. i \in Instruments /\ side \in Side /\ price \in PricesOf[i] /\ x \in Index(i)
      /\ price_to_index(i, price) = x
  BY DEF RestsAt
<1>2. IdLeaves(pool, books[i].levels[side][x], pool', books'[i].levels[side][x],
               Queue(pool, i, side, x), arrival, arrival', slot)
  BY LevelLoses
<1>3. LevelIds(pool', books'[i].levels[side][x]) =
        Tail(LevelIds(pool, books[i].levels[side][x]))
  BY <1>2, IdsTail
<1>4. Lines[i][side][price] = LevelIds(pool, books[i].levels[side][x])
  BY <1>1 DEF Lines
<1>5. LineAt(pool', books', i, side, price) = Tail(Lines[i][side][price])
  BY <1>1, <1>3, <1>4 DEF LineAt
<1>6. \A j \in Instruments, s \in Side : \A q \in PricesOf[j] :
        ~(j = i /\ s = side /\ q = price) =>
          LineAt(pool', books', j, s, q) = LineAt(pool, books, j, s, q)
  BY LevelLoses
<1> QED
  BY <1>1, <1>5, <1>6, LinesExcept

\* A step that puts the order in slot to rest, behind all others.
Arrives(slot) ==
  /\ slot \in Slots \ OpenSlots /\ pool'[slot].is_open
  /\ OthersStay({slot})
  /\ \A s \in OpenSlots : arrival'[s] < arrival'[slot]

LEMMA LinesGain ==
  ASSUME IInv, IInv', NEW slot, Arrives(slot), NEW i, NEW side, NEW price, NEW x,
         RestsAt(pool', slot, i, side, price, x)
  PROVE  Lines' = [Lines EXCEPT ![i][side][price] =
                     Append(Lines[i][side][price], pool'[slot].id)]
<1>1. i \in Instruments /\ side \in Side /\ price \in PricesOf[i] /\ x \in Index(i)
      /\ price_to_index(i, price) = x /\ slot \in Queue(pool', i, side, x)
      /\ slot \in Slots
  BY DEF RestsAt, Arrives
<1> DEFINE Q == Queue(pool, i, side, x)
<1>2. slot \notin Q
  BY DEF Arrives, OpenSlots, Queue
<1>3. Queue(pool', i, side, x) = Q \cup {slot}
  <2>1. \A s \in Slots \ {slot} : s \in Queue(pool', i, side, x) <=> s \in Q
    BY QueueStays DEF Arrives
  <2>2. Q \subseteq Slots /\ Queue(pool', i, side, x) \subseteq Slots
    BY DEF Queue
  <2> QED
    BY <1>1, <2>1, <2>2
<1>4. Threads(pool, books[i].levels[side][x], Q, arrival)
      /\ Threads(pool', books'[i].levels[side][x], Q \cup {slot}, arrival')
  BY <1>1, <1>3, StepThreads
<1>5. \A s \in Q : /\ arrival'[s] = arrival[s] /\ pool'[s].id = pool[s].id
                   /\ arrival'[s] < arrival'[slot]
  BY <1>2 DEF Arrives, OthersStay, Queue, OpenSlots
<1>6. LevelIds(pool', books'[i].levels[side][x]) =
        Append(LevelIds(pool, books[i].levels[side][x]), pool'[slot].id)
  <2> HIDE DEF Q
  <2>1. RanksLast(Q, slot, arrival')
    BY <1>2, <1>5 DEF RanksLast
  <2> QED
    BY <1>1, <1>4, <1>5, <2>1, IdsJoined
<1>7. Lines[i][side][price] = LevelIds(pool, books[i].levels[side][x])
  BY <1>1 DEF Lines
<1>8. LineAt(pool', books', i, side, price) = Append(Lines[i][side][price], pool'[slot].id)
  BY <1>1, <1>6, <1>7 DEF LineAt
<1>9. \A j \in Instruments, s \in Side : \A q \in PricesOf[j] :
        ~(j = i /\ s = side /\ q = price) =>
          LineAt(pool', books', j, s, q) = LineAt(pool, books, j, s, q)
  <2> SUFFICES ASSUME NEW j \in Instruments, NEW s \in Side, NEW q \in PricesOf[j],
                      ~(j = i /\ s = side /\ q = price)
               PROVE  LineAt(pool', books', j, s, q) = LineAt(pool, books, j, s, q)
    OBVIOUS
  <2> DEFINE y == price_to_index(j, q)
  <2>1. y \in Index(j) /\ slot \notin Queue(pool', j, s, y)
    BY OneLevel
  <2>2. slot \notin Queue(pool, j, s, y)
    BY DEF Arrives, OpenSlots, Queue
  <2>3. LevelIds(pool', books'[j].levels[s][y]) = LevelIds(pool, books[j].levels[s][y])
    <3> HIDE DEF y
    <3> QED
      BY <2>1, <2>2, LineStays DEF Arrives
  <2> QED
    BY <2>3 DEF LineAt
<1> QED
  BY <1>1, <1>8, <1>9, LinesExcept

\* A step that gives the place and the turn of one order to another.
Replaces(old, new) ==
  /\ old \in OpenSlots /\ ~pool'[old].is_open
  /\ new \in Slots \ OpenSlots /\ pool'[new].is_open
  /\ pool'[new].instrument_id = pool[old].instrument_id
  /\ pool'[new].side = pool[old].side
  /\ pool'[new].level_index = pool[old].level_index
  /\ OthersStay({old, new})
  /\ pool'[old].id = pool[old].id /\ arrival'[old] = arrival[old]
  /\ arrival'[new] = arrival[old]

LEMMA LinesSwap ==
  ASSUME IInv, IInv', NEW old, NEW new, Replaces(old, new),
         NEW i, NEW side, NEW price, NEW x,
         RestsAt(pool, old, i, side, price, x)
  PROVE  Lines' = [Lines EXCEPT ![i][side][price] =
                     [n \in DOMAIN Lines[i][side][price] |->
                        IF Lines[i][side][price][n] = pool[old].id THEN pool'[new].id
                        ELSE Lines[i][side][price][n]]]
<1>1. i \in Instruments /\ side \in Side /\ price \in PricesOf[i] /\ x \in Index(i)
      /\ price_to_index(i, price) = x /\ old \in Queue(pool, i, side, x)
      /\ old \in Slots /\ new \in Slots
  BY DEF RestsAt, Replaces, OpenSlots
<1> DEFINE Q == Queue(pool, i, side, x)
<1>2. new \notin Q
  BY DEF Replaces, OpenSlots, Queue
<1>3. \A j, s, y :
        /\ old \notin Queue(pool', j, s, y) /\ new \notin Queue(pool, j, s, y)
        /\ new \in Queue(pool', j, s, y) <=> old \in Queue(pool, j, s, y)
  BY <1>1 DEF Replaces, OpenSlots, Queue
<1>4. Queue(pool', i, side, x) = (Q \ {old}) \cup {new}
  <2>1. \A s \in Slots \ {old, new} : s \in Queue(pool', i, side, x) <=> s \in Q
    BY QueueStays DEF Replaces
  <2>2. Q \subseteq Slots /\ Queue(pool', i, side, x) \subseteq Slots
    BY DEF Queue
  <2>3. old \notin Queue(pool', i, side, x) /\ new \in Queue(pool', i, side, x)
    BY <1>1, <1>3
  <2> QED
    BY <1>1, <1>2, <2>1, <2>2, <2>3
<1>5. Threads(pool, books[i].levels[side][x], Q, arrival)
      /\ Threads(pool', books'[i].levels[side][x], (Q \ {old}) \cup {new}, arrival')
  BY <1>1, <1>4, StepThreads
<1>6. \A s \in Q : arrival'[s] = arrival[s] /\ pool'[s].id = pool[s].id
  BY <1>2 DEF Replaces, OthersStay, Queue
<1>7. \A s, t \in Q : pool[s].id = pool[t].id => s = t
  BY OwnIds
<1>8. LevelIds(pool', books'[i].levels[side][x]) =
        [n \in DOMAIN LevelIds(pool, books[i].levels[side][x]) |->
           IF LevelIds(pool, books[i].levels[side][x])[n] = pool[old].id THEN pool'[new].id
           ELSE LevelIds(pool, books[i].levels[side][x])[n]]
  <2>1. old \in Q /\ arrival'[new] = arrival[old]
    BY <1>1 DEF Replaces
  <2> HIDE DEF Q
  <2> QED
    BY <1>1, <1>2, <1>5, <1>6, <1>7, <2>1, IdsSwapped
<1>9. Lines[i][side][price] = LevelIds(pool, books[i].levels[side][x])
  BY <1>1 DEF Lines
<1>10. LineAt(pool', books', i, side, price) =
         [n \in DOMAIN Lines[i][side][price] |->
            IF Lines[i][side][price][n] = pool[old].id THEN pool'[new].id
            ELSE Lines[i][side][price][n]]
  BY <1>1, <1>8, <1>9 DEF LineAt
<1>11. \A j \in Instruments, s \in Side : \A q \in PricesOf[j] :
        ~(j = i /\ s = side /\ q = price) =>
          LineAt(pool', books', j, s, q) = LineAt(pool, books, j, s, q)
  <2> SUFFICES ASSUME NEW j \in Instruments, NEW s \in Side, NEW q \in PricesOf[j],
                      ~(j = i /\ s = side /\ q = price)
               PROVE  LineAt(pool', books', j, s, q) = LineAt(pool, books, j, s, q)
    OBVIOUS
  <2> DEFINE y == price_to_index(j, q)
  <2>1. y \in Index(j) /\ old \notin Queue(pool, j, s, y)
    BY OneLevel
  <2>2. \A t \in {old, new} : t \notin Queue(pool, j, s, y) /\ t \notin Queue(pool', j, s, y)
    BY <1>3, <2>1
  <2>3. LevelIds(pool', books'[j].levels[s][y]) = LevelIds(pool, books[j].levels[s][y])
    <3> HIDE DEF y
    <3> QED
      BY <2>1, <2>2, LineStays DEF Replaces
  <2> QED
    BY <2>3 DEF LineAt
<1> QED
  BY <1>1, <1>10, <1>11, LinesExcept

-----------------------------------------------------------------------------
(***************************************************************************)
(* An order that rests has something open, an order whose call has just    *)
(* begun has filled nothing, and a trade takes as much as both have.       *)
(***************************************************************************)
QuantitiesInOrder ==
  /\ \A s \in OpenSlots : pool[s].open_qty > 0
  /\ pc = "on_accepted" => Agg.filled_qty = 0 /\ Agg.open_qty > 0
  /\ pc = "on_trade" => /\ Agg.open_qty > 0
                        /\ call.fill = Smaller(Agg.open_qty, pool[call.resting].open_qty)

LEMMA QuantitiesStay ==
  ASSUME QuantitiesInOrder, pc' \notin {"on_accepted", "on_trade"},
         \A s \in Slots : pool'[s].is_open =>
           pool'[s].open_qty > 0 \/ (pool[s].is_open /\ pool'[s].open_qty = pool[s].open_qty)
  PROVE  QuantitiesInOrder'
BY DEF QuantitiesInOrder, OpenSlots

LEMMA NextQuantities ==
  ASSUME IInv, QuantitiesInOrder, [Next]_vars
  PROVE  QuantitiesInOrder'
<1>0. IInv'
  BY NextInv
<1>1. ASSUME \/ StartMatching \/ PickLevel \/ LeaveLevel \/ MatchingDone \/ FullyFilled
             \/ AfterReplaced \/ \E ids \in ConfigureCalls : Configure(ids)
      PROVE  QuantitiesInOrder'
  <2>1. UNCHANGED pool /\ pc' \notin {"on_accepted", "on_trade"}
    BY <1>1 DEF StartMatching, PickLevel, LeaveLevel, MatchingDone, FullyFilled, Return,
                AfterReplaced, Configure
  <2> QED
    BY <2>1, QuantitiesStay
<1>2. CASE UNCHANGED vars
  BY <1>2 DEF vars, QuantitiesInOrder, OpenSlots, Agg
<1>3. CASE Trade
  <2>1. /\ UNCHANGED pool /\ pc' = "on_trade" /\ Agg.open_qty > 0
        /\ call' = [call EXCEPT !.resting = CurrentLevel.head,
                      !.fill = Smaller(Agg.open_qty, pool[CurrentLevel.head].open_qty)]
        /\ call \in Call
    BY <1>3 DEF Trade, IInv, TypeOK
  <2>2. /\ call'.slot = call.slot /\ call'.resting = CurrentLevel.head
        /\ call'.fill = Smaller(Agg.open_qty, pool[CurrentLevel.head].open_qty)
    BY <2>1 DEF Call
  <2>3. Agg' = Agg
    BY <2>1, <2>2 DEF Agg
  <2> QED
    BY <2>1, <2>2, <2>3 DEF QuantitiesInOrder, OpenSlots
<1>4. CASE ApplyTrade
  <2>1. pc' = "level" /\ pool' \in [Slots -> OrderRecord] /\ pool \in [Slots -> OrderRecord]
    BY <1>0, <1>4 DEF ApplyTrade, IInv, TypeOK
  <2>2. ASSUME NEW s \in Slots, pool'[s].is_open
        PROVE  pool'[s].open_qty > 0
                 \/ (pool[s].is_open /\ pool'[s].open_qty = pool[s].open_qty)
    <3>1. pool'[s].open_qty \in Nat
      BY <2>1, WidthAssumption DEF OrderRecord, Quantity
    <3>2. ~pool[call.slot].is_open
      BY <1>4, AggressorFacts DEF ApplyTrade, AggressorInOrder, Agg
    <3>3. s # call.slot
      BY <1>4, <2>2, <3>2, ApplyTradeRecords
    <3>4. CASE s = call.resting
      BY <1>4, <2>2, <3>1, <3>4, ApplyTradeRecords
    <3>5. CASE s # call.resting
      BY <1>4, <2>2, <3>3, <3>5, ApplyTradeRecords DEF SameQuantities
    <3> QED
      BY <3>4, <3>5
  <2> QED
    BY <2>1, <2>2, QuantitiesStay
<1>5. ASSUME pc # "idle", DropRemainder PROVE QuantitiesInOrder'
  <2>1. pc' = "idle"
    BY <1>5 DEF DropRemainder, Return
  <2>2. ~pool[call.slot].is_open
    BY <1>5, AggressorFacts DEF AggressorInOrder, Agg
  <2>3. \A s \in Slots : pool'[s].is_open =>
          pool[s].is_open /\ pool'[s].open_qty = pool[s].open_qty
    BY <1>5, <2>2, DropRecords DEF SameQuantities
  <2> QED
    BY <2>1, <2>3, QuantitiesStay
<1>6. CASE RestRemainder
  <2>1. pc' = "idle" /\ pool[call.slot].open_qty > 0
    BY <1>6 DEF RestRemainder, Return, Agg
  <2>2. \A s \in Slots : pool'[s].is_open =>
          pool'[s].open_qty > 0 \/ (pool[s].is_open /\ pool'[s].open_qty = pool[s].open_qty)
    BY <1>6, <2>1, RestRemainderRecords DEF SameQuantities
  <2> QED
    BY <2>1, <2>2, QuantitiesStay
<1>7. ASSUME NEW id \in OrderIds, IsOpen(id), Withdraw(id), pc = "idle"
      PROVE  QuantitiesInOrder'
  <2>1. pc' = "idle"
    BY <1>7 DEF Withdraw
  <2>2. \A s \in Slots : pool'[s].is_open =>
          pool[s].is_open /\ pool'[s].open_qty = pool[s].open_qty
    BY <1>7, WithdrawRecords DEF SameQuantities
  <2> QED
    BY <2>1, <2>2, QuantitiesStay
<1>8. ASSUME NEW id \in OrderIds, NEW o \in Orders, Submit(id, o) \/ SubmitRefused(id, o)
      PROVE  QuantitiesInOrder'
  <2>1. /\ pool_size \in Slots /\ ~pool'[pool_size].is_open
        /\ pool'[pool_size].filled_qty = 0
        /\ \A s \in Slots \ {pool_size} : pool'[s] = pool[s]
    <3>1. pool_size \in Slots
      BY <1>8, StateFacts, WidthAssumption DEF Submit, SubmitRefused, Slots
    <3> QED
      BY <1>8, <3>1, SubmitRecords
  <2>2. \A s \in OpenSlots' : s \in OpenSlots /\ pool'[s].open_qty = pool[s].open_qty
    BY <2>1 DEF OpenSlots
  <2>3. CASE Submit(id, o)
    <3>1. pc' = "on_accepted" /\ call'.slot = pool_size
      BY <2>3 DEF Submit, NoCall
    <3>2. o.quantity \in Quantity /\ o.quantity # 0
      BY <2>3, InputAssumption DEF Submit, SubmitReject, NewOrder
    <3>3. o.quantity > 0
      BY <3>2, WidthAssumption DEF Quantity
    <3>4. pool'[pool_size].open_qty > 0
      BY <2>1, <2>3, <3>3, SubmitRecords
    <3> QED
      BY <2>1, <2>2, <3>1, <3>4 DEF QuantitiesInOrder, Agg
  <2>4. CASE SubmitRefused(id, o)
    <3>1. pc' = "idle"
      BY <2>4 DEF SubmitRefused
    <3> QED
      BY <2>2, <3>1 DEF QuantitiesInOrder
  <2> QED
    BY <1>8, <2>3, <2>4
<1>9. ASSUME NEW id \in OrderIds, NEW new_id \in OrderIds, NEW p \in ReplacePrices,
             NEW q \in ReplaceQtys,
             ReplaceLosing(id, new_id, p, q) \/ ReplaceKeeping(id, new_id, p, q)
      PROVE  QuantitiesInOrder'
  <2>1. NewOpen(id, q) > 0 /\ pc' \in {"idle", "on_replaced"}
    BY <1>9 DEF ReplaceLosing, ReplaceKeeping, ReplaceAllowed
  <2>2. \A s \in Slots : pool'[s].is_open =>
          pool'[s].open_qty > 0 \/ (pool[s].is_open /\ pool'[s].open_qty = pool[s].open_qty)
    BY <1>9, <2>1, ReplacementRecords DEF SameQuantities
  <2> QED
    BY <2>1, <2>2, QuantitiesStay
<1>10. ASSUME NEW id \in OrderIds,
              \/ Cancel(id)
              \/ \E new_id \in OrderIds, p \in ReplacePrices, q \in ReplaceQtys :
                   ReplaceToNothing(id, new_id, p, q)
       PROVE  QuantitiesInOrder'
  <2>1. IsOpen(id) /\ Withdraw(id) /\ pc = "idle"
    BY <1>10 DEF Cancel, CancelReject, ReplaceToNothing, ReplaceReject
  <2> QED
    BY <1>7, <2>1
<1>11. CASE Host
  BY <1>1, <1>2, <1>8, <1>9, <1>10, <1>11 DEF Host, Replace, RejectedCall
<1>12. CASE Proceed
  BY <1>1, <1>3, <1>4, <1>5, <1>6, <1>12 DEF Proceed, CancelUnfillable, CancelRemainder
<1> QED
  BY <1>2, <1>11, <1>12 DEF Next

-----------------------------------------------------------------------------
(***************************************************************************)
(* The invariant, and the steps that are not executions: those the         *)
(* exchange does not see, configure, and submit up to on_accepted.         *)
(***************************************************************************)

\* What the refinement needs of a state.
RefInv == KInv /\ IndexInOrder /\ QuantitiesInOrder

LEMMA RefInvParts ==
  ASSUME RefInv
  PROVE  /\ IInv /\ MInv /\ KInv /\ IndexInOrder /\ QuantitiesInOrder
         /\ order_index \in [OrderIds -> Link] /\ call \in Call
         /\ pool \in [Slots -> OrderRecord]
BY DEF RefInv, KInv, MInv, IInv, TypeOK

LEMMA FunctionIs ==
  ASSUME NEW D, NEW f, NEW g, f = [j \in D |-> f[j]], g = [j \in D |-> g[j]]
  PROVE  /\ (\A j \in D : g[j] = f[j]) => g = f
         /\ \A a \in D : \A v :
              g[a] = v /\ (\A j \in D \ {a} : g[j] = f[j]) => g = [f EXCEPT ![a] = v]
<1>1. ASSUME \A j \in D : g[j] = f[j] PROVE g = f
  <2>1. [j \in D |-> g[j]] = [j \in D |-> f[j]]
    BY <1>1
  <2> QED
    BY <2>1
<1>2. ASSUME NEW a \in D, NEW v, g[a] = v, \A j \in D \ {a} : g[j] = f[j]
      PROVE  g = [f EXCEPT ![a] = v]
  <2> DEFINE h == [f EXCEPT ![a] = v]
  <2>1. h = [j \in D |-> IF j = a THEN v ELSE f[j]]
    <3>1. DOMAIN f = D
      OBVIOUS
    <3> QED
      BY <3>1
  <2>2. \A j \in D : g[j] = IF j = a THEN v ELSE f[j]
    BY <1>2
  <2>3. [j \in D |-> g[j]] = [j \in D |-> IF j = a THEN v ELSE f[j]]
    BY <2>2
  <2> QED
    BY <2>1, <2>3
<1> QED
  BY <1>1, <1>2

LEMMA MapsAre ==
  /\ OpenOf = [j \in OrderIds |-> OpenOf[j]] /\ FilledOf = [j \in OrderIds |-> FilledOf[j]]
  /\ OpenOf' = [j \in OrderIds |-> OpenOf'[j]] /\ FilledOf' = [j \in OrderIds |-> FilledOf'[j]]
BY DEF OpenOf, FilledOf

\* What an order has left and has filled, 0 for a closed one.
LEMMA StatusOf ==
  ASSUME NEW j \in OrderIds
  PROVE  /\ LiveId(j) => /\ OpenOf[j] = pool[order_index[j]].open_qty
                         /\ FilledOf[j] = pool[order_index[j]].filled_qty
         /\ ~LiveId(j) => OpenOf[j] = 0 /\ FilledOf[j] = 0
         /\ LiveId(j)' => /\ OpenOf'[j] = pool'[order_index'[j]].open_qty
                          /\ FilledOf'[j] = pool'[order_index'[j]].filled_qty
         /\ ~LiveId(j)' => OpenOf'[j] = 0 /\ FilledOf'[j] = 0
BY DEF OpenOf, FilledOf

LEMMA StatusKept ==
  ASSUME NEW j \in OrderIds, order_index'[j] = order_index[j],
         contains(j) =>
           LET s == order_index[j]
           IN /\ pool'[s].is_open \/ s = call'.slot <=> Live(s)
              /\ Live(s) => /\ pool'[s].open_qty = pool[s].open_qty
                            /\ pool'[s].filled_qty = pool[s].filled_qty
  PROVE  OpenOf'[j] = OpenOf[j] /\ FilledOf'[j] = FilledOf[j]
<1>1. contains(j)' <=> contains(j)
  BY DEF contains
<1>2. LiveId(j)' <=> LiveId(j)
  BY <1>1 DEF LiveId, Live
<1>3. CASE LiveId(j)
  <2>1. contains(j) /\ Live(order_index[j])
    BY <1>3 DEF LiveId
  <2> QED
    BY <1>2, <1>3, <2>1, StatusOf
<1> QED
  BY <1>2, <1>3, StatusOf

LEMMA TakerFacts ==
  ASSUME RefInv
  PROVE  /\ pc # "idle" => /\ Taker.id = Agg.id /\ Taker.instrument = Instr
                           /\ Taker.side = call.side /\ Taker.is_market = call.is_market
                           /\ Taker.price = call.price /\ Taker.tif = call.tif
                           /\ ~Promised!Quiet
         /\ pc = "idle" => Promised!Quiet /\ Taker = Promised!Nobody
         /\ pc' = "idle" => Taker' = Promised!Nobody
<1>1. pc # "idle" => Agg.id \in OrderIds
  BY RefInvParts, AggressorFacts DEF AggressorInOrder
<1>2. pc # "idle" => Agg.id # Unset
  BY <1>1, InputAssumption
<1>3. pc # "idle" => Taker.id = Agg.id
  BY DEF Taker
<1>4. pc # "idle" => ~Promised!Quiet
  BY <1>2, <1>3 DEF Promised!Quiet, Promised!Nobody
<1> QED
  BY <1>4 DEF Taker, Promised!Quiet, Promised!Nobody

\* Most steps change nothing the exchange speaks of.
LEMMA QuietSteps ==
  ASSUME RefInv,
         \/ StartMatching \/ PickLevel \/ MatchingDone \/ LeaveLevel \/ Trade \/ AfterReplaced
         \/ UNCHANGED vars
  PROVE  UNCHANGED Promised!vars
<1>1. UNCHANGED <<instrument_index, order_index, pool, books>>
  BY DEF StartMatching, PickLevel, MatchingDone, LeaveLevel, Trade, AfterReplaced, vars
<1>2. /\ call'.slot = call.slot /\ call'.side = call.side /\ call'.tif = call.tif
      /\ call'.is_market = call.is_market /\ call'.price = call.price
      /\ pc' = "idle" <=> pc = "idle"
  BY RefInvParts
     DEF StartMatching, PickLevel, MatchingDone, LeaveLevel, Trade, AfterReplaced, vars, Call
<1>3. Lines' = Lines
  BY <1>1 DEF Lines
<1>4. OpenOf' = OpenOf /\ FilledOf' = FilledOf /\ SpentIds' = SpentIds
  BY <1>1, <1>2 DEF OpenOf, FilledOf, LiveId, Live, SpentIds, contains
<1>5. Taker' = Taker
  BY <1>1, <1>2 DEF Taker, Instr, Agg
<1> QED
  BY <1>1, <1>3, <1>4, <1>5 DEF Promised!vars

LEMMA ConfigureLists ==
  ASSUME RefInv, IInv', NEW ids \in ConfigureCalls, Configure(ids)
  PROVE  Promised!List
<1>1. /\ instrument_index = {} /\ ids # {} /\ instrument_index' = ids
      /\ UNCHANGED <<order_index, pool, pc, call, arrival>>
  BY DEF Configure, configured
<1>2. ids \in (SUBSET Instruments) \ {{}}
  BY <1>1, InputAssumption
<1>3. Lines' = Lines
  BY <1>1, LinesKept, RefInvParts DEF OthersStay
<1>4. OpenOf' = OpenOf /\ FilledOf' = FilledOf /\ SpentIds' = SpentIds /\ Taker' = Taker
  BY <1>1 DEF OpenOf, FilledOf, LiveId, Live, SpentIds, contains, Taker, Instr, Agg
<1> QED
  BY <1>1, <1>2, <1>3, <1>4 DEF Promised!List

\* An id that gets a slot is spent.
LEMMA IdSpent ==
  ASSUME RefInv, NEW id \in OrderIds, pool_size \in Slots,
         order_index' = [order_index EXCEPT ![id] = pool_size]
  PROVE  /\ SpentIds' = SpentIds \cup {id}
         /\ contains(id)' /\ order_index'[id] = pool_size
         /\ \A j \in OrderIds \ {id} : order_index'[j] = order_index[j]
<1>1. order_index'[id] = pool_size
      /\ \A j \in OrderIds \ {id} : order_index'[j] = order_index[j]
  BY RefInvParts
<1>2. pool_size # kInvalidSlot
  BY SlotFacts
<1> QED
  BY <1>1, <1>2 DEF SpentIds, contains

LEMMA FreshSlotOthers ==
  ASSUME RefInv, pool_size \in Slots, \A s \in Slots \ {pool_size} : pool'[s] = pool[s],
         ~pool[pool_size].is_open, ~pool'[pool_size].is_open, UNCHANGED arrival
  PROVE  OthersStay({})
BY RefInvParts DEF OthersStay, OrderRecord

LEMMA SubmitAccepts ==
  ASSUME RefInv, IInv', NEW id \in OrderIds, NEW o \in Orders, Submit(id, o)
  PROVE  Promised!Accept(id)
<1>1. /\ pc = "idle" /\ SubmitReject(id, o) = "none" /\ pool_size < PoolCapacity
      /\ pool' = [pool EXCEPT ![pool_size] = SubmittedRec(id, o.instrument_id, o.side, o.quantity)]
      /\ order_index' = [order_index EXCEPT ![id] = pool_size]
      /\ pc' = "on_accepted" /\ call'.slot = pool_size /\ call'.side = o.side
      /\ call'.tif = o.tif /\ call'.is_market = IsMarket(o)
      /\ call'.price = (IF IsMarket(o) THEN 0 ELSE o.price)
      /\ UNCHANGED <<instrument_index, arrival>>
  BY DEF Submit, SubmittedRec, NoCall
<1>2. o.instrument_id \in Instruments /\ o.side \in Side /\ o.quantity \in Quantity
      /\ o.tif \in {"kDay", "kIoc", "kFok"} /\ IsMarket(o) \in BOOLEAN
  BY InputAssumption DEF NewOrder, IsMarket
<1>3. /\ o.instrument_id \in instrument_index /\ ~contains(id) /\ o.quantity # 0
      /\ IsMarket(o) => o.tif # "kDay"
      /\ ~IsMarket(o) => price_to_index(o.instrument_id, o.price) >= 0
  BY <1>1 DEF SubmitReject, in_band
<1>4. pool_size \in Slots /\ call.slot = kInvalidSlot /\ call = NoCall
  BY <1>1, RefInvParts, StateFacts, WidthAssumption DEF Slots, IInv, CallInOrder, NoCall
<1>5. /\ ~pool[pool_size].is_open /\ ~pool'[pool_size].is_open
      /\ pool'[pool_size].id = id /\ pool'[pool_size].filled_qty = 0
      /\ pool'[pool_size].open_qty = o.quantity
      /\ \A s \in Slots \ {pool_size} : pool'[s] = pool[s]
  BY <1>4, RefInvParts, SubmitRecords
<1>6. pool'[pool_size].instrument_id = o.instrument_id
  BY <1>1, <1>2, <1>4, FreshRecords, RefInvParts
<1>7. Lines' = Lines
  BY <1>1, <1>4, <1>5, FreshSlotOthers, LinesKept, RefInvParts
<1>8. /\ SpentIds' = SpentIds \cup {id} /\ id \notin SpentIds
      /\ contains(id)' /\ order_index'[id] = pool_size
      /\ \A j \in OrderIds \ {id} : order_index'[j] = order_index[j]
  BY <1>1, <1>3, <1>4, IdSpent DEF SpentIds
<1>9. ASSUME NEW j \in OrderIds \ {id}
      PROVE  OpenOf'[j] = OpenOf[j] /\ FilledOf'[j] = FilledOf[j]
  <2>1. contains(j) => order_index[j] \in Slots \ {pool_size}
    BY RefInvParts, IdFacts
  <2>2. contains(j) => pool'[order_index[j]] = pool[order_index[j]]
    BY <1>5, <2>1
  <2>3. contains(j) => order_index[j] # call.slot /\ order_index[j] # call'.slot
    BY <1>1, <1>4, <2>1, SlotFacts
  <2> QED
    BY <1>8, <2>2, <2>3, StatusKept DEF Live
<1>10. /\ OpenOf'[id] = o.quantity
       /\ FilledOf'[id] = 0 /\ FilledOf[id] = 0
  <2>1. LiveId(id)'
    BY <1>1, <1>8 DEF LiveId, Live
  <2>2. ~LiveId(id)
    BY <1>3 DEF LiveId
  <2> QED
    BY <1>5, <1>8, <2>1, <2>2, StatusOf
<1>11. OpenOf' = [OpenOf EXCEPT ![id] = o.quantity]
  BY <1>9, <1>10, MapsAre, FunctionIs
<1>12. FilledOf' = FilledOf
  BY <1>9, <1>10, MapsAre, FunctionIs
<1> DEFINE t == [id |-> id, instrument |-> o.instrument_id, side |-> o.side,
                 is_market |-> IsMarket(o), price |-> IF IsMarket(o) THEN 0 ELSE o.price,
                 tif |-> o.tif]
<1>13. Taker' = t
  BY <1>1, <1>5, <1>6 DEF Taker, Instr, Agg
<1>14. ~IsMarket(o) => o.price \in PricesOf[o.instrument_id]
  <2> SUFFICES ASSUME ~IsMarket(o) PROVE o.price \in PricesOf[o.instrument_id]
    OBVIOUS
  <2>1. price_to_index(o.instrument_id, o.price) # -1
    BY <1>3
  <2>2. /\ price_to_index(o.instrument_id, o.price) \in Index(o.instrument_id)
        /\ Ladder[o.instrument_id][price_to_index(o.instrument_id, o.price)] = o.price
    BY <1>2, <2>1, PriceToIndex DEF index_to_price
  <2> QED
    BY <1>2, <2>2, PriceIndex
<1>15. t \in Promised!Takers
  <2>1. t.price \in {0} \cup UNION {PricesOf[i] : i \in Instruments}
    BY <1>2, <1>14
  <2> QED
    BY <1>2, <2>1 DEF Promised!Takers, Promised!Side, Side
<1>16. /\ t.id = id /\ t.instrument \in instrument_index
       /\ IF t.is_market THEN t.tif # "kDay" ELSE t.price \in PricesOf[t.instrument]
  BY <1>3, <1>14
<1>17. Promised!Quiet
  BY <1>1, TakerFacts
<1> HIDE DEF t
<1> QED
  BY <1>1, <1>2, <1>3, <1>7, <1>8, <1>10, <1>11, <1>12, <1>13, <1>15, <1>16, <1>17
     DEF Promised!Accept

LEMMA SubmitRefuses ==
  ASSUME RefInv, IInv', NEW id \in OrderIds, NEW o \in Orders, SubmitRefused(id, o)
  PROVE  Promised!Refuse(id)
<1>1. /\ pc = "idle" /\ SubmitReject(id, o) \in Spending /\ pool_size < PoolCapacity
      /\ order_index' = [order_index EXCEPT ![id] = pool_size]
      /\ UNCHANGED <<instrument_index, pc, call, arrival>>
  BY DEF SubmitRefused
<1>2. ~contains(id) /\ instrument_index # {}
  BY <1>1 DEF SubmitReject, Spending, configured
<1>3. pool_size \in Slots /\ call.slot = kInvalidSlot
  BY <1>1, RefInvParts, StateFacts, WidthAssumption DEF Slots, IInv, CallInOrder, NoCall
<1>4. /\ ~pool[pool_size].is_open /\ ~pool'[pool_size].is_open
      /\ \A s \in Slots \ {pool_size} : pool'[s] = pool[s]
  BY <1>3, RefInvParts, SubmitRecords
<1>5. Lines' = Lines
  BY <1>1, <1>3, <1>4, FreshSlotOthers, LinesKept, RefInvParts
<1>6. /\ SpentIds' = SpentIds \cup {id} /\ id \notin SpentIds
      /\ order_index'[id] = pool_size
      /\ \A j \in OrderIds \ {id} : order_index'[j] = order_index[j]
  BY <1>1, <1>2, <1>3, IdSpent DEF SpentIds
<1>7. ASSUME NEW j \in OrderIds
      PROVE  OpenOf'[j] = OpenOf[j] /\ FilledOf'[j] = FilledOf[j]
  <2>1. CASE j = id
    <3>1. ~LiveId(id) /\ ~LiveId(id)'
      BY <1>1, <1>2, <1>3, <1>4, <1>6, SlotFacts DEF LiveId, Live
    <3> QED
      BY <2>1, <3>1, StatusOf
  <2>2. CASE j # id
    <3>1. contains(j) => order_index[j] \in Slots \ {pool_size}
      BY RefInvParts, IdFacts
    <3>2. contains(j) => pool'[order_index[j]] = pool[order_index[j]]
      BY <1>4, <3>1
    <3> QED
      BY <1>1, <1>6, <2>2, <3>2, StatusKept DEF Live
  <2> QED
    BY <2>1, <2>2
<1>8. OpenOf' = OpenOf /\ FilledOf' = FilledOf
  BY <1>7, MapsAre, FunctionIs
<1>9. Promised!Quiet /\ Taker' = Taker
  BY <1>1, TakerFacts
<1> QED
  BY <1>1, <1>2, <1>5, <1>6, <1>8, <1>9 DEF Promised!Refuse

-----------------------------------------------------------------------------
(***************************************************************************)
(* The queues of the exchange that the order of the call in progress may   *)
(* reach are the occupied levels within its limit.                         *)
(***************************************************************************)

\* The exchange's sums and extremes are the engine's.
LEMMA PromisedSum ==
  ASSUME NEW f, NEW S
  PROVE  Promised!SumFunctionOnSet(f, S) = SumFunctionOnSet(f, S)
<1>1. Promised!SumFunctionOnSet(f, S) = (CHOOSE h : Sums(f, S, h))[S]
  BY DEF Promised!SumFunctionOnSet, Promised!FoldFunctionOnSet, Promised!MapThenFoldSet,
         Sums, SumStep, Chosen
<1> QED
  BY <1>1, SumDefinition

LEMMA PromisedExtremes ==
  ASSUME NEW S, NEW x \in S, S \subseteq Int
  PROVE  /\ (\A y \in S : x <= y) => Promised!Min(S) = x
         /\ (\A y \in S : x >= y) => Promised!Max(S) = x
<1>1. ASSUME \A y \in S : x <= y PROVE Promised!Min(S) = x
  <2>1. \A z \in S : (\A y \in S : z <= y) => z = x
    BY <1>1
  <2> QED
    BY <1>1, <2>1 DEF Promised!Min
<1>2. ASSUME \A y \in S : x >= y PROVE Promised!Max(S) = x
  <2>1. \A z \in S : (\A y \in S : z >= y) => z = x
    BY <1>2
  <2> QED
    BY <1>2, <2>1 DEF Promised!Max
<1> QED
  BY <1>1, <1>2

LEMMA PricesInt ==
  ASSUME NEW i \in Instruments, NEW price \in PricesOf[i]
  PROVE  price \in Int
<1>1. PICK x \in Index(i) : price = Ladder[i][x]
  BY DEF PricesOf, index_to_price
<1> QED
  BY <1>1, LadderOrder

\* The ids in line at a price are those of the orders on its level.
LEMMA LineHolds ==
  ASSUME IInv, NEW i \in Instruments, NEW side \in Side, NEW price \in PricesOf[i]
  PROVE  LET queue == Queue(pool, i, side, price_to_index(i, price))
         IN /\ Promised!ToSet(Lines[i][side][price]) = IdsOf(pool, queue)
            /\ Lines[i][side][price] = <<>> <=> queue = {}
<1>1. price_to_index(i, price) \in Index(i)
  BY PriceIndex
<1>2. Threads(pool, books[i].levels[side][price_to_index(i, price)],
              Queue(pool, i, side, price_to_index(i, price)), arrival)
  BY <1>1, FitThreads, StateFacts DEF IInv, BooksFit
<1>3. Lines[i][side][price] = LevelIds(pool, books[i].levels[side][price_to_index(i, price)])
  BY DEF Lines
<1> QED
  BY <1>2, <1>3, IdsHold

\* The order of the call in progress may trade at this price.
Within(price) == call.is_market \/ crosses(call.side, call.price, price)

\* The orders that rest at this price on the opposite side.
OppositeQueue(price) == Queue(pool, Instr, Opposite(call.side), price_to_index(Instr, price))

LEMMA MakersAre ==
  ASSUME RefInv, pc # "idle"
  PROVE  /\ Promised!Makers = Lines[Instr][Opposite(call.side)]
         /\ Promised!Reach = {p \in PricesOf[Instr] : OppositeQueue(p) # {} /\ Within(p)}
<1>1. Promised!Makers = Lines[Instr][Opposite(call.side)]
  BY TakerFacts DEF Promised!Makers, Promised!Other, Opposite
<1>2. Instr \in Instruments /\ Opposite(call.side) \in Side
  BY RefInvParts, AggressorFacts
<1>3. ASSUME NEW p \in PricesOf[Instr]
      PROVE  Lines[Instr][Opposite(call.side)][p] # <<>> <=> OppositeQueue(p) # {}
  BY <1>2, LineHolds, RefInvParts DEF OppositeQueue
<1>4. Promised!Reach =
        {p \in PricesOf[Instr] :
           /\ Lines[Instr][Opposite(call.side)][p] # <<>>
           /\ call.is_market
                \/ (IF call.side = "kBuy" THEN p <= call.price ELSE p >= call.price)}
  BY <1>1, TakerFacts DEF Promised!Reach
<1>5. ASSUME NEW p \in PricesOf[Instr]
      PROVE  Within(p) <=> \/ call.is_market
                           \/ (IF call.side = "kBuy" THEN p <= call.price ELSE p >= call.price)
  <2>1. p \in Int /\ call.price \in Int
    BY <1>2, PricesInt, RefInvParts, AggressorFacts
  <2> QED
    BY <2>1 DEF Within, crosses
<1> QED
  BY <1>1, <1>3, <1>4, <1>5

-----------------------------------------------------------------------------
(***************************************************************************)
(* The open quantities of the orders it may reach add up to what the       *)
(* exchange calls Fillable.                                                *)
(***************************************************************************)

LEMMA EligibleOrders ==
  ASSUME RefInv, pc # "idle", NEW s \in Eligible
  PROVE  /\ s \in Slots /\ pool[s].is_open /\ s \in OpenSlots
         /\ pool[s].price \in PricesOf[Instr] /\ Within(pool[s].price)
         /\ s \in OppositeQueue(pool[s].price)
<1>1. s \in OpenSlots /\ s \in Slots /\ pool[s].is_open /\ Within(pool[s].price)
      /\ pool[s].instrument_id = Instr /\ pool[s].side = Opposite(call.side)
  BY DEF Eligible, Opposing, OpenSlots, Within
<1>2. RestsAt(pool, s, Instr, Opposite(call.side), pool[s].price, pool[s].level_index)
  BY <1>1, OpenRests, RefInvParts
<1> QED
  BY <1>1, <1>2 DEF RestsAt, OppositeQueue

LEMMA QueueEligible ==
  ASSUME RefInv, pc # "idle", NEW price \in PricesOf[Instr], Within(price),
         NEW s \in OppositeQueue(price)
  PROVE  s \in Eligible /\ pool[s].price = price
<1>1. /\ s \in Slots /\ pool[s].is_open /\ pool[s].instrument_id = Instr
      /\ pool[s].side = Opposite(call.side)
      /\ pool[s].level_index = price_to_index(Instr, price)
  BY DEF OppositeQueue, Queue
<1>2. s \in Opposing
  BY <1>1 DEF Opposing, OpenSlots
<1>3. Instr \in Instruments
  BY RefInvParts, AggressorFacts
<1>4. pool[s].price = price
  BY <1>1, <1>2, <1>3, OpposingLevels, PriceIndex, RefInvParts
<1> QED
  BY <1>2, <1>4 DEF Eligible, Within

\* The ids of the orders it may trade with, as the exchange sees them.
ReachedIds == UNION {Promised!ToSet(Promised!Makers[p]) : p \in Promised!Reach}

\* The ids the taker can reach are those of the eligible orders,
LEMMA ReachedAre ==
  ASSUME RefInv, pc # "idle"
  PROVE  ReachedIds = IdsOf(pool, Eligible)
<1>1. Instr \in Instruments /\ Opposite(call.side) \in Side
  BY RefInvParts, AggressorFacts
<1>2. ASSUME NEW p \in PricesOf[Instr]
      PROVE  Promised!ToSet(Promised!Makers[p]) = IdsOf(pool, OppositeQueue(p))
  BY <1>1, LineHolds, MakersAre, RefInvParts DEF OppositeQueue
<1>3. ASSUME NEW id \in ReachedIds PROVE id \in IdsOf(pool, Eligible)
  <2>1. PICK p \in Promised!Reach : id \in Promised!ToSet(Promised!Makers[p])
    BY <1>3 DEF ReachedIds
  <2>2. p \in PricesOf[Instr] /\ Within(p)
    BY MakersAre
  <2>3. PICK s \in OppositeQueue(p) : id = pool[s].id
    BY <1>2, <2>1, <2>2 DEF IdsOf
  <2>4. s \in Eligible
    BY <2>2, <2>3, QueueEligible
  <2> QED
    BY <2>3, <2>4 DEF IdsOf
<1>4. ASSUME NEW id \in IdsOf(pool, Eligible) PROVE id \in ReachedIds
  <2>1. PICK s \in Eligible : id = pool[s].id
    BY DEF IdsOf
  <2>2. /\ pool[s].price \in PricesOf[Instr] /\ Within(pool[s].price)
        /\ s \in OppositeQueue(pool[s].price)
    BY EligibleOrders
  <2>3. pool[s].price \in Promised!Reach
    BY <2>2, MakersAre
  <2>4. id \in Promised!ToSet(Promised!Makers[pool[s].price])
    BY <1>2, <2>1, <2>2 DEF IdsOf
  <2> QED
    BY <2>3, <2>4 DEF ReachedIds
<1> QED
  BY <1>3, <1>4

\* An open order is the one its id leads to.
LEMMA OpenOwn ==
  ASSUME RefInv, NEW s \in OpenSlots
  PROVE  /\ pool[s].id \in OrderIds /\ order_index[pool[s].id] = s
         /\ contains(pool[s].id) /\ LiveId(pool[s].id)
         /\ OpenOf[pool[s].id] = pool[s].open_qty
         /\ FilledOf[pool[s].id] = pool[s].filled_qty
         /\ pool[s].open_qty \in Nat /\ pool[s].filled_qty \in Nat
<1>1. s \in Slots /\ pool[s].is_open
  BY DEF OpenSlots
<1>2. pool[s].id \in OrderIds
  BY <1>1, RefInvParts DEF IInv, SlotsInOrder
<1>3. order_index[pool[s].id] = s
  BY RefInvParts DEF IInv, OpenOrdersReachable
<1>4. contains(pool[s].id) /\ LiveId(pool[s].id)
  BY <1>1, <1>3, SlotFacts DEF contains, LiveId, Live
<1>5. OpenOf[pool[s].id] = pool[s].open_qty /\ FilledOf[pool[s].id] = pool[s].filled_qty
  BY <1>2, <1>3, <1>4, StatusOf
<1>6. pool[s].open_qty \in Quantity /\ pool[s].filled_qty \in Quantity
  BY <1>1, RefInvParts, StateFacts
<1>7. Quantity \subseteq Nat
  BY WidthAssumption DEF Quantity
<1> QED
  BY <1>2, <1>3, <1>4, <1>5, <1>6, <1>7

\* and their quantities together are the eligible orders'.
LEMMA ReachedSum ==
  ASSUME RefInv, pc # "idle"
  PROVE  SumFunctionOnSet(OpenOf, ReachedIds) = SumFunctionOnSet(OpenQuantities(pool), Eligible)
<1> DEFINE block == [s \in Eligible |-> {pool[s].id}]
<1>1. \A s \in Eligible : s \in OpenSlots /\ s \in Slots
  BY EligibleOrders
<1>2. IsFiniteSet(Eligible)
  BY <1>1, SlotsFinite
<1>3. ASSUME NEW s \in Eligible
      PROVE  /\ IsFiniteSet({pool[s].id})
             /\ SumFunctionOnSet(OpenOf, {pool[s].id}) = OpenOf[pool[s].id]
             /\ OpenOf[pool[s].id] = pool[s].open_qty
             /\ OpenOf[pool[s].id] \in Nat
  <2>1. IsFiniteSet({pool[s].id}) /\ IsFiniteSet({})
    BY FS_Singleton, FS_EmptySet
  <2>2. OpenOf[pool[s].id] = pool[s].open_qty /\ OpenOf[pool[s].id] \in Nat
    BY <1>1, OpenOwn
  <2>3. SumFunctionOnSet(OpenOf, {}) = 0
    BY <2>1, SumByChosen
  <2>4. SumFunctionOnSet(OpenOf, {pool[s].id}) =
          OpenOf[pool[s].id] + SumFunctionOnSet(OpenOf, {pool[s].id} \ {pool[s].id})
    <3> DEFINE S == {pool[s].id}
    <3>1. pool[s].id \in S /\ IsFiniteSet(S) /\ \A x \in S : OpenOf[x] \in Nat
      BY <2>1, <2>2
    <3> HIDE DEF S
    <3>2. SumFunctionOnSet(OpenOf, S) =
            OpenOf[pool[s].id] + SumFunctionOnSet(OpenOf, S \ {pool[s].id})
      BY <3>1, SumByElement
    <3> QED
      BY <3>2 DEF S
  <2>5. {pool[s].id} \ {pool[s].id} = {}
    OBVIOUS
  <2> QED
    BY <2>1, <2>2, <2>3, <2>4, <2>5
<1>4. \A s \in Eligible : /\ IsFiniteSet(block[s])
                          /\ OpenQuantities(pool)[s] = SumFunctionOnSet(OpenOf, block[s])
  BY <1>1, <1>3 DEF OpenQuantities
<1>5. \A s, t \in Eligible : s # t => block[s] \cap block[t] = {}
  <2>1. \A s \in Eligible : order_index[pool[s].id] = s
    BY <1>1, OpenOwn
  <2> QED
    BY <2>1
<1>6. \A s \in Eligible : \A x \in block[s] : OpenOf[x] \in Nat
  BY <1>3
<1>7. UNION {block[s] : s \in Eligible} = IdsOf(pool, Eligible)
  BY DEF IdsOf
<1> HIDE DEF block
<1>8. SumFunctionOnSet(OpenOf, UNION {block[s] : s \in Eligible}) =
        SumFunctionOnSet(OpenQuantities(pool), Eligible)
  BY <1>2, <1>4, <1>5, <1>6, SumOfBlocks
<1> QED
  BY <1>7, <1>8, ReachedAre

\* The order the call is about is the taker.
LEMMA TakerOpen ==
  ASSUME RefInv, pc # "idle"
  PROVE  /\ Taker.id \in OrderIds /\ Taker.id = Agg.id /\ order_index[Taker.id] = call.slot
         /\ LiveId(Taker.id) /\ contains(Taker.id)
         /\ OpenOf[Taker.id] = Agg.open_qty /\ FilledOf[Taker.id] = Agg.filled_qty
         /\ Agg.open_qty \in Nat /\ Agg.filled_qty \in Nat
<1>1. Taker.id = Agg.id
  BY TakerFacts
<1>2. /\ Agg.id \in OrderIds /\ order_index[Agg.id] = call.slot
      /\ call.slot \in Slots /\ contains(Agg.id)
  BY RefInvParts, AggressorFacts, SlotFacts DEF AggressorInOrder, contains
<1>3. LiveId(Agg.id)
  BY <1>2 DEF LiveId, Live
<1>4. OpenOf[Agg.id] = Agg.open_qty /\ FilledOf[Agg.id] = Agg.filled_qty
  BY <1>2, <1>3, StatusOf DEF Agg
<1>5. Agg.open_qty \in Quantity /\ Agg.filled_qty \in Quantity
  BY <1>2, RefInvParts, StateFacts DEF Agg
<1>6. Quantity \subseteq Nat
  BY WidthAssumption DEF Quantity
<1> QED
  BY <1>1, <1>2, <1>3, <1>4, <1>5, <1>6

LEMMA FillableIs ==
  ASSUME RefInv, pc # "idle"
  PROVE  Promised!Fillable <=> Enough
<1>1. Promised!Fillable <=>
        OpenOf[Taker.id] <= Promised!SumFunctionOnSet(OpenOf, ReachedIds)
  BY DEF Promised!Fillable, ReachedIds
<1> QED
  BY <1>1, PromisedSum, ReachedSum, TakerOpen DEF Enough

-----------------------------------------------------------------------------
(***************************************************************************)
(* A trade is made with the first order at the best price the exchange     *)
(* knows.                                                                  *)
(***************************************************************************)

\* The price of the level being matched.
BestPrice == Ladder[Instr][call.idx]

\* What a trade under way says of the order it is made with.
Making ==
  /\ call.idx \in Index(Instr) /\ BestPrice \in PricesOf[Instr]
  /\ price_to_index(Instr, BestPrice) = call.idx
  /\ RestsAt(pool, call.resting, Instr, Opposite(call.side), BestPrice, call.idx)
  /\ call.resting \in OpenSlots /\ call.resting # call.slot
  /\ \A s \in Queue(pool, Instr, Opposite(call.side), call.idx) \ {call.resting} :
       arrival[call.resting] < arrival[s]

LEMMA TradeMaking ==
  ASSUME RefInv, pc = "on_trade"
  PROVE  Making
<1>1. /\ AggressorInOrder /\ Instr \in Instruments /\ Opposite(call.side) \in Side
  BY RefInvParts, AggressorFacts
<1>2. call.idx \in Index(Instr) /\ TradeInOrder
  BY RefInvParts DEF IInv, CallInOrder
<1>3. BestPrice \in PricesOf[Instr] /\ price_to_index(Instr, BestPrice) = call.idx
  BY <1>1, <1>2, PriceIndex DEF BestPrice
<1>4. call.resting \in Queue(pool, Instr, Opposite(call.side), call.idx)
  BY <1>2 DEF TradeInOrder
<1>5. /\ call.resting \in OpenSlots /\ call.resting \in Slots
      /\ pool[call.resting].is_open /\ pool[call.resting].instrument_id = Instr
      /\ pool[call.resting].side = Opposite(call.side)
      /\ pool[call.resting].level_index = call.idx
  BY <1>4 DEF Queue, OpenSlots
<1>6. RestsAt(pool, call.resting, Instr, Opposite(call.side), BestPrice, call.idx)
  BY <1>1, <1>2, <1>3, <1>4, <1>5 DEF RestsAt
<1>7. call.resting # call.slot
  BY <1>1, <1>5 DEF AggressorInOrder, Agg
<1>8. FirstInTurn
  BY RefInvParts DEF MInv, CallMatches
<1>9. ASSUME NEW s \in Queue(pool, Instr, Opposite(call.side), call.idx) \ {call.resting}
      PROVE  arrival[call.resting] < arrival[s]
  <2>1. s \in Opposing \ {call.resting} /\ pool[s].level_index = call.idx
    BY DEF Queue, Opposing, OpenSlots
  <2> QED
    BY <1>8, <2>1 DEF FirstInTurn
<1> QED
  BY <1>2, <1>3, <1>5, <1>6, <1>7, <1>9 DEF Making

\* It rests at the best price the taker can reach, and is first in line there.
LEMMA TradesAtBest ==
  ASSUME RefInv, pc = "on_trade"
  PROVE  /\ Promised!Reach # {} /\ Promised!Best(Promised!Reach) = BestPrice
         /\ Head(Promised!Makers[BestPrice]) = pool[call.resting].id
<1>1. Making
  BY TradeMaking
<1>2. /\ Instr \in Instruments /\ Opposite(call.side) \in Side /\ call.side \in Side
      /\ call.price \in Int
  BY RefInvParts, AggressorFacts
<1>3. NoneBetter
  BY RefInvParts DEF MInv, CallMatches
<1>4. Within(BestPrice)
  BY <1>3 DEF NoneBetter, Marketable, Within, BestPrice, index_to_price
<1>5. call.resting \in OppositeQueue(BestPrice)
  BY <1>1 DEF Making, RestsAt, OppositeQueue
<1>6. BestPrice \in Promised!Reach
  BY <1>1, <1>4, <1>5, MakersAre DEF Making
<1>7. Promised!Reach \subseteq Int
  BY <1>2, MakersAre, PricesInt
<1>8. ASSUME NEW p \in Promised!Reach
      PROVE  IF call.side = "kBuy" THEN BestPrice <= p ELSE BestPrice >= p
  <2>1. p \in PricesOf[Instr] /\ OppositeQueue(p) # {} /\ Within(p)
    BY MakersAre
  <2>2. PICK s \in OppositeQueue(p) : TRUE
    BY <2>1
  <2>3. s \in Opposing /\ pool[s].level_index = price_to_index(Instr, p)
    BY DEF OppositeQueue, Queue, Opposing, OpenSlots
  <2>4. ~Better(Opposite(call.side), price_to_index(Instr, p), call.idx)
    BY <1>3, <2>3 DEF NoneBetter
  <2> DEFINE x == price_to_index(Instr, p)
  <2>5. x \in Index(Instr) /\ Ladder[Instr][x] = p
    BY <1>2, <2>1, PriceIndex
  <2>6. call.idx \in Index(Instr)
    BY <1>1 DEF Making
  <2>7. /\ x \in Nat /\ call.idx \in Nat /\ p \in Int /\ BestPrice \in Int
        /\ x < call.idx <=> p < BestPrice
        /\ call.idx < x <=> BestPrice < p
    BY <1>2, <2>5, <2>6, LadderOrder DEF BestPrice
  <2>8. IF call.side = "kBuy" THEN ~(x < call.idx) ELSE ~(x > call.idx)
    BY <1>2, <2>4 DEF Better, Opposite, Side
  <2> HIDE DEF x
  <2> QED
    BY <2>7, <2>8
<1>9. Promised!Best(Promised!Reach) = BestPrice
  <2> DEFINE S == Promised!Reach
  <2>1. BestPrice \in S /\ S \subseteq Int
    BY <1>6, <1>7
  <2>2. \A p \in S : IF call.side = "kBuy" THEN BestPrice <= p ELSE BestPrice >= p
    BY <1>8
  <2>3. Promised!Best(S) =
          IF call.side = "kBuy" THEN Promised!Min(S) ELSE Promised!Max(S)
    BY TakerFacts DEF Promised!Best
  <2> HIDE DEF S
  <2>4. /\ (\A p \in S : BestPrice <= p) => Promised!Min(S) = BestPrice
        /\ (\A p \in S : BestPrice >= p) => Promised!Max(S) = BestPrice
    BY <2>1, PromisedExtremes
  <2>5. Promised!Best(S) = BestPrice
    BY <2>2, <2>3, <2>4
  <2> QED
    BY <2>5 DEF S
<1>10. Head(Promised!Makers[BestPrice]) = pool[call.resting].id
  <2> DEFINE lvl == books[Instr].levels[Opposite(call.side)][call.idx]
             queue == Queue(pool, Instr, Opposite(call.side), call.idx)
  <2>1. Promised!Makers[BestPrice] = LevelIds(pool, lvl)
    BY <1>1, <1>2, MakersAre DEF Lines, Making
  <2>2. Threads(pool, lvl, queue, arrival)
    BY <1>1, <1>2, FitThreads, StateFacts, RefInvParts DEF IInv, BooksFit, Making
  <2>3. /\ call.resting \in queue
        /\ \A s \in queue \ {call.resting} : arrival[call.resting] < arrival[s]
    BY <1>1 DEF Making, RestsAt
  <2> HIDE DEF lvl, queue
  <2> QED
    BY <2>1, <2>2, <2>3, IdsFirst
<1> QED
  BY <1>6, <1>9, <1>10

LEMMA TwoChange ==
  ASSUME NEW D, NEW f, NEW g, f = [j \in D |-> f[j]], g = [j \in D |-> g[j]],
         NEW a \in D, NEW b \in D, a # b,
         \A j \in D \ {a, b} : g[j] = f[j]
  PROVE  g = [f EXCEPT ![a] = g[a], ![b] = g[b]]
<1> DEFINE h == [f EXCEPT ![a] = g[a], ![b] = g[b]]
<1>1. h = [j \in D |-> IF j = b THEN g[b] ELSE IF j = a THEN g[a] ELSE f[j]]
  OBVIOUS
<1>2. [j \in D |-> g[j]] = [j \in D |-> IF j = b THEN g[b] ELSE IF j = a THEN g[a] ELSE f[j]]
  OBVIOUS
<1> QED
  BY <1>1, <1>2

\* A line that stays as it is.
LEMMA LineAsIs ==
  ASSUME Lines' = Lines, NEW i \in Instruments, NEW side \in Side, NEW price \in PricesOf[i]
  PROVE  Lines' = [Lines EXCEPT ![i][side][price] = Lines[i][side][price]]
<1>1. \A j \in Instruments, s \in Side : \A q \in PricesOf[j] :
        /\ LineAt(pool', books', j, s, q) = Lines'[j][s][q]
        /\ LineAt(pool, books, j, s, q) = Lines[j][s][q]
  BY DEF Lines, LineAt
<1>2. \A j \in Instruments, s \in Side : \A q \in PricesOf[j] :
        LineAt(pool', books', j, s, q) = LineAt(pool, books, j, s, q)
  BY <1>1
<1>3. LineAt(pool', books', i, side, price) = Lines[i][side][price]
  BY <1>1
<1> QED
  BY <1>2, <1>3, LinesExcept

-----------------------------------------------------------------------------
(***************************************************************************)
(* The step after on_trade books the execution on both sides: Execute.     *)
(***************************************************************************)

Fill == call.fill
Maker == pool[call.resting].id

\* What an execution does to the two orders and to the store.
LEMMA TradeRecords ==
  ASSUME RefInv, IInv', ApplyTrade
  PROVE  /\ pc = "on_trade" /\ Instr' = Instr /\ Taker' = Taker
         /\ UNCHANGED <<instrument_index, order_index, arrival>>
         /\ call'.slot = call.slot
         /\ \A s \in Slots : /\ pool'[s].id = pool[s].id
                             /\ s # call.resting => (pool'[s].is_open <=> pool[s].is_open)
                             /\ s \notin {call.slot, call.resting} =>
                                  SameQuantities(pool[s], pool'[s])
         /\ \A s \in {call.slot, call.resting} :
              /\ pool'[s].open_qty = pool[s].open_qty - Fill
              /\ pool'[s].filled_qty = pool[s].filled_qty + Fill
         /\ pool'[call.resting].is_open <=> pool[call.resting].open_qty # Fill
         /\ OthersStay({call.resting})
<1>1. /\ pc = "on_trade" /\ pc' = "level"
      /\ UNCHANGED <<instrument_index, order_index, arrival>>
  BY DEF ApplyTrade
<1>2. /\ call'.slot = call.slot /\ call'.side = call.side /\ call'.tif = call.tif
      /\ call'.is_market = call.is_market /\ call'.price = call.price
      /\ call.resting \in Slots /\ Instr' = Instr
  BY RefInvParts, ApplyTradeSameCall
<1>3. call.slot \in Slots
  BY <1>1, RefInvParts, AggressorFacts DEF AggressorInOrder
<1>4. Making /\ call.resting # call.slot
  BY <1>1, TradeMaking DEF Making
<1>5. \A s \in Slots :
        /\ pool'[s].id = pool[s].id
        /\ s \notin {call.slot, call.resting} =>
             SameQuantities(pool[s], pool'[s]) /\ pool'[s].is_open = pool[s].is_open
        /\ s \in {call.slot, call.resting} =>
             /\ pool'[s].open_qty = pool[s].open_qty - Fill
             /\ pool'[s].filled_qty = pool[s].filled_qty + Fill
        /\ s = call.slot => pool'[s].is_open = pool[s].is_open
        /\ s = call.resting => (pool'[s].is_open <=> pool'[s].open_qty # 0)
  BY RefInvParts, ApplyTradeRecords DEF Fill
<1>6. Remaining(pool, pool')
  BY RefInvParts, ApplyTradeLeaves, RemainingFrom, <1>2
<1>7. \A s \in Slots : s # call.resting => pool'[s].is_open = pool[s].is_open
  BY <1>5
<1>8. pool[call.resting].open_qty \in Int /\ Fill \in Int
  BY <1>1, <1>2, RefInvParts, AggressorFacts, StateFacts, QuantityIsInt DEF Fill
<1>9. pool'[call.resting].is_open <=> pool[call.resting].open_qty # Fill
  <2>1. pool'[call.resting].open_qty = pool[call.resting].open_qty - Fill
    BY <1>2, <1>5
  <2>2. pool'[call.resting].is_open <=> pool'[call.resting].open_qty # 0
    BY <1>2, <1>5
  <2>3. pool[call.resting].open_qty - Fill # 0 <=> pool[call.resting].open_qty # Fill
    BY <1>8
  <2> QED
    BY <2>1, <2>2, <2>3
<1>10. OthersStay({call.resting})
  BY <1>1, <1>5, <1>6, <1>7 DEF OthersStay, Remaining
<1>11. Taker' = Taker
  <2>1. Agg'.id = Agg.id
    BY <1>2, <1>3, <1>5 DEF Agg
  <2> QED
    BY <1>1, <1>2, <2>1 DEF Taker
<1>12. \A s \in {call.slot, call.resting} :
         /\ pool'[s].open_qty = pool[s].open_qty - Fill
         /\ pool'[s].filled_qty = pool[s].filled_qty + Fill
  BY <1>2, <1>3, <1>5
<1> QED
  BY <1>1, <1>2, <1>5, <1>7, <1>9, <1>10, <1>11, <1>12

LEMMA TradeLines ==
  ASSUME RefInv, IInv', ApplyTrade
  PROVE  Lines' = [Lines EXCEPT ![Instr][Opposite(call.side)][BestPrice] =
                     IF Fill = pool[call.resting].open_qty THEN Tail(@) ELSE @]
<1>1. Making
  BY TradeRecords, TradeMaking
<1>2. OthersStay({call.resting})
      /\ (pool'[call.resting].is_open <=> pool[call.resting].open_qty # Fill)
      /\ UNCHANGED arrival
      /\ \A s \in Slots : pool'[s].id = pool[s].id
  BY TradeRecords
<1>3. /\ Instr \in Instruments /\ Opposite(call.side) \in Side /\ BestPrice \in PricesOf[Instr]
      /\ RestsAt(pool, call.resting, Instr, Opposite(call.side), BestPrice, call.idx)
      /\ call.resting \in OpenSlots /\ call.resting \in Slots
  BY <1>1 DEF Making, RestsAt, OpenSlots
<1>4. CASE Fill = pool[call.resting].open_qty
  <2>1. Leaves(call.resting)
    BY <1>2, <1>3, <1>4 DEF Leaves
  <2>2. \A s \in Queue(pool, Instr, Opposite(call.side), call.idx) \ {call.resting} :
          arrival[call.resting] < arrival[s]
    BY <1>1 DEF Making
  <2>3. Lines' = [Lines EXCEPT ![Instr][Opposite(call.side)][BestPrice] =
                    Tail(Lines[Instr][Opposite(call.side)][BestPrice])]
    <3>1. PICK slot, i, side, price, x :
            /\ slot = call.resting /\ i = Instr /\ side = Opposite(call.side)
            /\ price = BestPrice /\ x = call.idx
      OBVIOUS
    <3>2. /\ Leaves(slot) /\ RestsAt(pool, slot, i, side, price, x)
          /\ \A s \in Queue(pool, i, side, x) \ {slot} : arrival[slot] < arrival[s]
      BY <1>3, <2>1, <2>2, <3>1
    <3>3. IInv
      BY RefInvParts
    <3>4. Lines' = [Lines EXCEPT ![i][side][price] = Tail(Lines[i][side][price])]
      BY <3>2, <3>3, LinesLoseFirst
    <3> QED
      BY <3>1, <3>4
  <2> QED
    BY <1>4, <2>3
<1>5. CASE Fill # pool[call.resting].open_qty
  <2>1. pool[call.resting].is_open /\ pool'[call.resting].is_open
    BY <1>2, <1>3, <1>5 DEF OpenSlots
  <2>2. SameOrders(pool, pool')
    <3>1. SameOrders(pool, pool') \/ OneLeaves(pool, pool', call.resting)
      BY RefInvParts, ApplyTradeLeaves
    <3> QED
      BY <2>1, <3>1 DEF OneLeaves
  <2>3. OthersStay({})
    BY <1>2, <2>2 DEF OthersStay, SameOrders
  <2>4. Lines' = Lines
    BY <2>3, LinesKept, RefInvParts
  <2>5. Lines' = [Lines EXCEPT ![Instr][Opposite(call.side)][BestPrice] =
                    Lines[Instr][Opposite(call.side)][BestPrice]]
    BY <1>3, <2>4, LineAsIs
  <2> QED
    BY <1>5, <2>5
<1> QED
  BY <1>4, <1>5

LEMMA TradeMaps ==
  ASSUME RefInv, IInv', ApplyTrade, NEW t, NEW m, t = Taker.id, m = Maker
  PROVE  /\ m \in OrderIds /\ m # t
         /\ OpenOf[t] = Agg.open_qty /\ OpenOf[m] = pool[call.resting].open_qty
         /\ OpenOf' = [OpenOf EXCEPT ![t] = @ - Fill, ![m] = @ - Fill]
         /\ FilledOf' = [FilledOf EXCEPT ![t] = @ + Fill,
                           ![m] = IF Fill = pool[call.resting].open_qty THEN 0 ELSE @ + Fill]
         /\ SpentIds' = SpentIds
<1>1. Making
  BY TradeRecords, TradeMaking
<1>2. pc # "idle" /\ call.resting \in OpenSlots /\ call.resting \in Slots
      /\ call.resting # call.slot /\ UNCHANGED order_index /\ call'.slot = call.slot
  BY <1>1, TradeRecords DEF Making, OpenSlots
<1>3. /\ m \in OrderIds /\ order_index[m] = call.resting
      /\ contains(m) /\ LiveId(m)
      /\ OpenOf[m] = pool[call.resting].open_qty
      /\ FilledOf[m] = pool[call.resting].filled_qty
  BY <1>2, OpenOwn DEF Maker
<1>4. /\ t \in OrderIds /\ order_index[t] = call.slot
      /\ contains(t) /\ LiveId(t)
      /\ OpenOf[t] = Agg.open_qty /\ FilledOf[t] = Agg.filled_qty
  BY <1>2, TakerOpen
<1>5. m # t
  BY <1>2, <1>3, <1>4
<1>6. \A j \in OrderIds : contains(j)' <=> contains(j)
  BY <1>2 DEF contains
<1>7. /\ OpenOf'[t] = OpenOf[t] - Fill
      /\ FilledOf'[t] = FilledOf[t] + Fill
  <2>1. LiveId(t)'
    BY <1>2, <1>4, <1>6 DEF LiveId, Live
  <2>2. OpenOf'[t] = pool'[call.slot].open_qty
        /\ FilledOf'[t] = pool'[call.slot].filled_qty
    BY <1>2, <1>4, <2>1, StatusOf
  <2> QED
    BY <1>4, <2>2, TradeRecords DEF Agg
<1>8. /\ OpenOf'[m] = OpenOf[m] - Fill
      /\ FilledOf'[m] = IF Fill = pool[call.resting].open_qty THEN 0
                            ELSE FilledOf[m] + Fill
  <2>1. LiveId(m)' <=> Fill # pool[call.resting].open_qty
    BY <1>2, <1>3, <1>6, TradeRecords DEF LiveId, Live
  <2>2. CASE Fill = pool[call.resting].open_qty
    <3>1. OpenOf'[m] = 0 /\ FilledOf'[m] = 0
      BY <1>3, <2>1, <2>2, StatusOf
    <3>2. pool[call.resting].open_qty \in Nat
      BY <1>2, OpenOwn
    <3> QED
      BY <1>3, <2>2, <3>1, <3>2
  <2>3. CASE Fill # pool[call.resting].open_qty
    <3>1. OpenOf'[m] = pool'[call.resting].open_qty
          /\ FilledOf'[m] = pool'[call.resting].filled_qty
      BY <1>2, <1>3, <2>1, <2>3, StatusOf
    <3> QED
      BY <1>3, <2>3, <3>1, TradeRecords
  <2> QED
    BY <2>2, <2>3
<1>9. ASSUME NEW j \in OrderIds \ {t, m}
      PROVE  OpenOf'[j] = OpenOf[j] /\ FilledOf'[j] = FilledOf[j]
  <2>1. contains(j) => /\ order_index[j] \in Slots \ {call.slot, call.resting}
    <3>1. contains(j) => order_index[j] \in Slots /\ pool[order_index[j]].id = j
      BY RefInvParts, IdFacts
    <3>2. t = pool[call.slot].id /\ m = pool[call.resting].id
      BY <1>2, TakerFacts DEF Agg, Maker
    <3> QED
      BY <3>1, <3>2
  <2>2. contains(j) => /\ SameQuantities(pool[order_index[j]], pool'[order_index[j]])
                       /\ pool'[order_index[j]].is_open <=> pool[order_index[j]].is_open
    BY <2>1, TradeRecords
  <2> QED
    BY <1>2, <2>2, StatusKept DEF SameQuantities, Live
<1>10. OpenOf' = [OpenOf EXCEPT ![t] = OpenOf'[t], ![m] = OpenOf'[m]]
       /\ FilledOf' = [FilledOf EXCEPT ![t] = FilledOf'[t],
                                       ![m] = FilledOf'[m]]
  BY <1>3, <1>4, <1>5, <1>9, MapsAre, TwoChange
<1>11. SpentIds' = SpentIds
  BY <1>6 DEF SpentIds
<1>12. OpenOf' = [OpenOf EXCEPT ![t] = @ - Fill, ![m] = @ - Fill]
  BY <1>5, <1>7, <1>8, <1>10
<1>13. FilledOf' = [FilledOf EXCEPT ![t] = @ + Fill,
                      ![m] = IF Fill = pool[call.resting].open_qty THEN 0 ELSE @ + Fill]
  BY <1>5, <1>7, <1>8, <1>10
<1> QED
  BY <1>3, <1>4, <1>5, <1>11, <1>12, <1>13

LEMMA SmallerIsMin ==
  ASSUME NEW a \in Int, NEW b \in Int
  PROVE  Promised!Min({a, b}) = Smaller(a, b)
<1>1. Smaller(a, b) \in {a, b} /\ \A y \in {a, b} : Smaller(a, b) <= y
  BY DEF Smaller
<1>2. {a, b} \subseteq Int
  OBVIOUS
<1> QED
  BY <1>1, <1>2, PromisedExtremes

LEMMA TradeExecutes ==
  ASSUME RefInv, IInv', ApplyTrade
  PROVE  Promised!Execute
<1>1. pc = "on_trade" /\ pc # "idle"
  BY TradeRecords
<1>2. /\ Promised!Reach # {} /\ Promised!Best(Promised!Reach) = BestPrice
      /\ Head(Promised!Makers[BestPrice]) = Maker
  BY <1>1, TradesAtBest DEF Maker
<1>3. /\ OpenOf[Taker.id] = Agg.open_qty /\ OpenOf[Maker] = pool[call.resting].open_qty
      /\ OpenOf[Taker.id] \in Nat /\ OpenOf[Maker] \in Nat
  <2>1. call.resting \in OpenSlots
    BY <1>1, TradeMaking DEF Making
  <2> QED
    BY <1>1, <2>1, TakerOpen, OpenOwn DEF Maker
<1>4. Agg.open_qty > 0 /\ Fill = Smaller(Agg.open_qty, pool[call.resting].open_qty)
  BY <1>1, RefInvParts DEF QuantitiesInOrder, Fill
<1>5. Promised!Min({OpenOf[Taker.id], OpenOf[Maker]}) = Fill
  BY <1>3, <1>4, SmallerIsMin
<1>6. Taker.tif = "kFok" => Promised!Fillable
  BY <1>1, TakerFacts, FillableIs, RefInvParts DEF KInv, FokCovered
<1>7. /\ ~Promised!Quiet /\ Taker.instrument = Instr
      /\ Promised!Other(Taker.side) = Opposite(call.side)
  BY <1>1, TakerFacts DEF Promised!Other, Opposite
<1>8. Lines' = [Lines EXCEPT ![Taker.instrument][Promised!Other(Taker.side)][BestPrice] =
                  IF Fill = OpenOf[Maker] THEN Tail(@) ELSE @]
  BY <1>3, <1>7, TradeLines
<1>9. /\ OpenOf' = [OpenOf EXCEPT ![Taker.id] = @ - Fill, ![Maker] = @ - Fill]
      /\ FilledOf' = [FilledOf EXCEPT ![Taker.id] = @ + Fill,
                        ![Maker] = IF Fill = OpenOf[Maker] THEN 0 ELSE @ + Fill]
  BY <1>3, TradeMaps
<1>10. UNCHANGED <<instrument_index, SpentIds, Taker>>
  BY TradeRecords, TradeMaps
<1> QED
  BY <1>2, <1>3, <1>4, <1>5, <1>6, <1>7, <1>8, <1>9, <1>10 DEF Promised!Execute

-----------------------------------------------------------------------------
(***************************************************************************)
(* An order with fok that can_fully_fill refuses could not have been       *)
(* filled: under SidesFit no sum of its walk wraps.                        *)
(***************************************************************************)

(***************************************************************************)
(* What one side of one instrument has open fits in one Quantity: without  *)
(* it the walk of can_fully_fill may wrap to too little and refuse an      *)
(* order that could be filled (engine.cpp:137, the run claim_fok).         *)
(***************************************************************************)
OnSide(i, side) == {s \in OpenSlots : pool[s].instrument_id = i /\ pool[s].side = side}

SidesFit ==
  \A i \in Instruments, side \in Side :
    SumFunctionOnSet(OpenQuantities(pool), OnSide(i, side)) < QtyMod

LEMMA EligibleFit ==
  ASSUME IInv, SidesFit, pc # "idle", NEW S \in SUBSET Eligible
  PROVE  /\ IsFiniteSet(S) /\ SumFunctionOnSet(OpenQuantities(pool), S) \in Quantity
         /\ SumFunctionOnSet(OpenQuantities(pool), S) \in Nat
<1> DEFINE side == OnSide(Instr, Opposite(call.side))
           open == OpenQuantities(pool)
<1>1. Instr \in Instruments /\ Opposite(call.side) \in Side /\ pool \in [Slots -> OrderRecord]
  BY AggressorFacts, StateFacts
<1>2. side \subseteq Slots /\ S \in SUBSET side
  BY DEF OnSide, Eligible, Opposing, OpenSlots
<1>3. SumFunctionOnSet(open, side) < QtyMod
  BY <1>1 DEF SidesFit
<1> HIDE DEF side
<1>4. /\ IsFiniteSet(side) /\ \A s \in side : open[s] \in Nat
      /\ SumFunctionOnSet(open, side) \in Nat
  BY <1>1, <1>2, SumOfOrders
<1>5. /\ IsFiniteSet(S) /\ SumFunctionOnSet(open, S) \in Nat
  <2>1. S \subseteq Slots
    BY <1>2
  <2> QED
    BY <1>1, <2>1, SumOfOrders
<1> HIDE DEF open
<1>6. SumFunctionOnSet(open, S) <= SumFunctionOnSet(open, side)
  BY <1>2, <1>4, SumOfPart
<1>7. SumFunctionOnSet(open, S) \in 0 .. QtyMod - 1
  BY <1>3, <1>4, <1>5, <1>6, WidthAssumption
<1> QED
  BY <1>5, <1>7 DEF open, Quantity

\* The levels can_fully_fill adds up until it reaches x, and the orders there.
Walked(x) == LevelsThrough(books[Instr], Opposite(call.side), x)

WalkedOrders(x) == UNION {Queue(pool, Instr, Opposite(call.side), y) : y \in Walked(x)}

\* Then the totals the walk adds up are what the orders it passes have open.
LEMMA WalkIsExact ==
  ASSUME IInv, BooksAggregated, BooksTotalled, SidesFit, pc # "idle", NEW x \in Index(Instr),
         Marketable(Instr, call.side, call.is_market, call.price, x)
  PROVE  /\ WalkedOrders(x) \subseteq Eligible
         /\ AvailableThrough(books[Instr], Opposite(call.side), x) =
              SumFunctionOnSet(OpenQuantities(pool), WalkedOrders(x))
<1> DEFINE opp    == Opposite(call.side)
           book   == books[Instr]
           walked == Walked(x)
           totals == LevelTotals(book, opp)
           block  == [y \in walked |-> Queue(pool, Instr, opp, y)]
           open   == OpenQuantities(pool)
<1>1. /\ Instr \in Instruments /\ opp \in Side /\ book \in Book(Instr)
      /\ pool \in [Slots -> OrderRecord]
  BY AggressorFacts, StateFacts
<1>2. walked \subseteq Index(Instr) /\ IsFiniteSet(walked)
  <2>1. book.bitmap[opp] = Occupied(pool, Instr, opp)
    BY <1>1 DEF BooksAggregated, Aggregated
  <2>2. walked \subseteq Index(Instr)
    BY <2>1 DEF LevelsThrough, Occupied, Walked
  <2> QED
    BY <1>1, <2>2, LadderAssumption, FS_Subset DEF IsLadder
<1>3. ASSUME NEW y \in walked
      PROVE  /\ block[y] = Queue(pool, Instr, opp, y)
             /\ block[y] \in SUBSET Eligible
  <2>1. y \in Index(Instr) /\ ~Better(opp, x, y)
    BY <1>2 DEF LevelsThrough, Walked
  <2> QED
    BY <2>1, ThroughEligible
<1>4. UNION {block[y] : y \in walked} = WalkedOrders(x)
  BY <1>3 DEF WalkedOrders
<1>5. WalkedOrders(x) \subseteq Eligible
  BY <1>3, <1>4
<1>6. ASSUME NEW y \in walked
      PROVE  /\ totals[y] = SumFunctionOnSet(open, block[y])
             /\ IsFiniteSet(block[y])
             /\ \A s \in block[y] : open[s] \in Nat
  <2>1. y \in Index(Instr) /\ book.levels[opp] \in [Index(Instr) -> Level]
    BY <1>1, <1>2 DEF Book
  <2>2. totals[y] = book.levels[opp][y].total_qty
    BY <2>1 DEF LevelTotals
  <2>3. book.levels[opp][y].total_qty = LevelSum(pool, Instr, opp, y) % QtyMod
    BY <1>1, <2>1 DEF BooksTotalled, Totalled
  <2>4. LevelSum(pool, Instr, opp, y) = SumFunctionOnSet(open, block[y])
    BY <1>3 DEF LevelSum
  <2>5. SumFunctionOnSet(open, block[y]) \in Quantity /\ IsFiniteSet(block[y])
    BY <1>3, EligibleFit
  <2>6. SumFunctionOnSet(open, block[y]) % QtyMod = SumFunctionOnSet(open, block[y])
    BY <2>5, WordArithmetic
  <2>7. block[y] \subseteq Slots
    BY <1>3 DEF Eligible, Opposing, OpenSlots
  <2>8. \A s \in block[y] : open[s] \in Nat
    <3> HIDE DEF block
    <3> QED
      BY <1>1, <2>7, SumOfOrders
  <2> QED
    BY <2>2, <2>3, <2>4, <2>5, <2>6, <2>8
<1>7. ASSUME NEW y \in walked, NEW z \in walked, y # z PROVE block[y] \cap block[z] = {}
  BY <1>3, <1>7 DEF Queue
<1>8. AvailableThrough(book, opp, x) = SumFunctionOnSet(totals, walked)
  BY DEF AvailableThrough, Walked
<1>9. SumFunctionOnSet(open, UNION {block[y] : y \in walked}) = SumFunctionOnSet(totals, walked)
  <2>1. \A y \in walked : IsFiniteSet(block[y]) /\ totals[y] = SumFunctionOnSet(open, block[y])
    BY <1>6
  <2>2. \A y \in walked : \A s \in block[y] : open[s] \in Nat
    BY <1>6
  <2> HIDE DEF walked, block, totals, open
  <2> QED
    BY <1>2, <1>7, <2>1, <2>2, SumOfBlocks
<1> QED
  BY <1>4, <1>5, <1>8, <1>9

\* Of the eligible orders' levels one is the worst.
LEMMA WorstLevel ==
  ASSUME IInv, pc # "idle", Eligible # {}
  PROVE  \E t \in Eligible : \A s \in Eligible :
           ~Better(Opposite(call.side), pool[t].level_index, pool[s].level_index)
<1> DEFINE levels == {pool[s].level_index : s \in Eligible}
<1>1. Instr \in Instruments /\ call.side \in Side
  BY AggressorFacts
<1>2. \A s \in Eligible : pool[s].level_index \in Index(Instr)
  BY OpposingLevels DEF Eligible
<1>3. PICK n \in Nat : Index(Instr) = 0 .. n - 1
  BY <1>1, IndexIsInterval
<1>4. levels \subseteq Nat /\ levels # {} /\ \A y \in levels : y <= n
  BY <1>2, <1>3
<1> HIDE DEF levels
<1>5. CASE call.side = "kBuy"
  <2>1. PICK x \in levels : \A y \in levels : x >= y
    BY <1>4, GreatestExists
  <2>2. PICK t \in Eligible : x = pool[t].level_index
    BY DEF levels
  <2>3. \A s \in Eligible : pool[s].level_index \in levels /\ pool[s].level_index \in Nat
    BY <1>4 DEF levels
  <2> QED
    BY <1>4, <1>5, <2>1, <2>2, <2>3 DEF Better, Opposite
<1>6. CASE call.side = "kSell"
  <2>1. PICK x \in levels : \A y \in levels : x <= y
    BY <1>4, LeastNumber
  <2>2. PICK t \in Eligible : x = pool[t].level_index
    BY DEF levels
  <2>3. \A s \in Eligible : pool[s].level_index \in levels /\ pool[s].level_index \in Nat
    BY <1>4 DEF levels
  <2> QED
    BY <1>4, <1>6, <2>1, <2>2, <2>3 DEF Better, Opposite
<1> QED
  BY <1>1, <1>5, <1>6 DEF Side

\* So a walk that fails proves that the order cannot be filled.
LEMMA WalkFinds ==
  ASSUME KInv, SidesFit, pc # "idle", Agg.open_qty > 0, Enough
  PROVE  can_fully_fill(Instr, call.side, call.is_market, call.price, Agg.open_qty)
<1> DEFINE opp  == Opposite(call.side)
           book == books[Instr]
           open == OpenQuantities(pool)
<1>1. IInv /\ BooksAggregated /\ BooksTotalled /\ MInv
  BY DEF KInv, MInv
<1>2. /\ Instr \in Instruments /\ opp \in Side /\ Agg.open_qty \in Quantity
  BY <1>1, AggressorFacts
<1>3. /\ SumFunctionOnSet(open, Eligible) \in Quantity
      /\ SumFunctionOnSet(open, {}) = 0
  BY <1>1, EligibleFit, SumByChosen, FS_EmptySet
<1>4. Agg.open_qty <= SumFunctionOnSet(open, Eligible)
  BY DEF Enough
<1>5. Eligible # {}
  <2> SUFFICES ASSUME Eligible = {} PROVE FALSE
    OBVIOUS
  <2>1. SumFunctionOnSet(open, Eligible) = 0
    BY <1>3
  <2>2. Agg.open_qty \in Int /\ Agg.open_qty <= 0
    BY <1>2, <1>4, <2>1, QuantityIsInt
  <2> QED
    BY <2>2
<1>6. PICK t \in Eligible : \A s \in Eligible :
        ~Better(opp, pool[t].level_index, pool[s].level_index)
  BY <1>1, <1>5, WorstLevel
<1> DEFINE x == pool[t].level_index
<1>7. ASSUME NEW s \in Eligible
      PROVE  /\ pool[s].level_index \in Index(Instr)
             /\ Ladder[Instr][pool[s].level_index] = pool[s].price
             /\ s \in Queue(pool, Instr, opp, pool[s].level_index)
             /\ pool[s].level_index \in book.bitmap[opp]
             /\ has_best(book, opp) /\ ~Better(opp, pool[s].level_index, book.best[opp])
  <2>1. s \in Opposing
    BY DEF Eligible
  <2>2. /\ pool[s].level_index \in Index(Instr)
        /\ Ladder[Instr][pool[s].level_index] = pool[s].price
        /\ s \in Slots /\ pool[s].is_open /\ pool[s].instrument_id = Instr
        /\ pool[s].side = opp
    BY <1>1, <2>1, OpposingLevels
  <2>3. s \in Queue(pool, Instr, opp, pool[s].level_index)
    BY <2>2 DEF Queue
  <2>4. book.bitmap[opp] = Occupied(pool, Instr, opp)
    BY <1>1, <1>2 DEF BooksAggregated, Aggregated
  <2> QED
    BY <1>1, <2>1, <2>2, <2>3, <2>4, BestOpposing DEF Occupied
<1>8. Marketable(Instr, call.side, call.is_market, call.price, x)
  BY <1>7 DEF Marketable, Eligible, index_to_price
<1>9. /\ WalkedOrders(x) \subseteq Eligible
      /\ AvailableThrough(book, opp, x) = SumFunctionOnSet(open, WalkedOrders(x))
  BY <1>1, <1>7, <1>8, WalkIsExact
<1>10. Eligible \subseteq WalkedOrders(x)
  <2>1. ASSUME NEW s \in Eligible PROVE s \in WalkedOrders(x)
    <3>1. pool[s].level_index \in Walked(x)
      BY <1>6, <1>7 DEF Walked, LevelsThrough
    <3> QED
      BY <1>7, <3>1 DEF WalkedOrders
  <2> QED
    BY <2>1
<1>11. AvailableThrough(book, opp, x) = SumFunctionOnSet(open, Eligible)
  <2>1. WalkedOrders(x) = Eligible
    BY <1>9, <1>10
  <2> QED
    BY <1>9, <2>1
<1>12. AvailableThrough(book, opp, x) % QtyMod = SumFunctionOnSet(open, Eligible)
  BY <1>3, <1>11, WordArithmetic
<1>13. AvailableThrough(book, opp, x) % QtyMod >= Agg.open_qty
  <2> DEFINE n == SumFunctionOnSet(open, Eligible)
  <2>1. n \in Int /\ Agg.open_qty \in Int /\ Agg.open_qty <= n
    BY <1>2, <1>3, <1>4, QuantityIsInt
  <2> HIDE DEF n
  <2>2. n >= Agg.open_qty
    BY <2>1
  <2> QED
    BY <1>12, <2>2 DEF n
<1> QED
  BY <1>7, <1>8, <1>13 DEF can_fully_fill

-----------------------------------------------------------------------------
(***************************************************************************)
(* The three ways a call on a new order ends: filled, dropped, resting.    *)
(***************************************************************************)

\* A call that ends without a change to the books: its order is gone.
LEMMA CallGone ==
  ASSUME RefInv, IInv', pc # "idle", Return,
         UNCHANGED <<instrument_index, order_index, arrival, books>>,
         \A s \in Slots \ {call.slot} : pool'[s] = pool[s],
         pool'[call.slot].is_open = Agg.is_open,
         NEW t, t = Taker.id
  PROVE  /\ Lines' = Lines /\ Taker' = Promised!Nobody
         /\ UNCHANGED <<instrument_index, SpentIds>>
         /\ OpenOf' = [OpenOf EXCEPT ![t] = 0] /\ FilledOf' = [FilledOf EXCEPT ![t] = 0]
<1>1. AggressorInOrder /\ call.slot \in Slots /\ ~pool[call.slot].is_open
  BY RefInvParts, AggressorFacts DEF AggressorInOrder, Agg
<1>2. /\ pc' = "idle" /\ call'.slot = kInvalidSlot /\ ~pool'[call.slot].is_open
  BY <1>1 DEF Return, NoCall, Agg
<1>3. OthersStay({})
  BY <1>1, <1>2 DEF OthersStay
<1>4. Lines' = Lines
  BY <1>3, LinesKept, RefInvParts
<1>5. t \in OrderIds /\ order_index[t] = call.slot
  BY TakerOpen
<1>6. OpenOf'[t] = 0 /\ FilledOf'[t] = 0
  <2>1. ~LiveId(t)'
    BY <1>1, <1>2, <1>5, SlotFacts DEF LiveId, Live
  <2> QED
    BY <1>5, <2>1, StatusOf
<1>7. ASSUME NEW j \in OrderIds \ {t}
      PROVE  OpenOf'[j] = OpenOf[j] /\ FilledOf'[j] = FilledOf[j]
  <2>1. contains(j) => order_index[j] \in Slots \ {call.slot}
    <3>1. contains(j) => order_index[j] \in Slots /\ pool[order_index[j]].id = j
      BY RefInvParts, IdFacts
    <3>2. t = pool[call.slot].id
      BY TakerFacts DEF Agg
    <3> QED
      BY <3>1, <3>2
  <2>2. contains(j) => pool'[order_index[j]] = pool[order_index[j]]
    BY <2>1
  <2>3. contains(j) => order_index[j] # call'.slot
    BY <1>2, <2>1, SlotFacts
  <2> QED
    BY <2>1, <2>2, <2>3, StatusKept DEF Live
<1>8. /\ OpenOf' = [OpenOf EXCEPT ![t] = 0]
      /\ FilledOf' = [FilledOf EXCEPT ![t] = 0]
  BY <1>5, <1>6, <1>7, MapsAre, FunctionIs
<1>9. SpentIds' = SpentIds
  BY DEF SpentIds, contains
<1>10. Taker' = Promised!Nobody
  BY <1>2, TakerFacts
<1> QED
  BY <1>4, <1>8, <1>9, <1>10

LEMMA CompletedCompletes ==
  ASSUME RefInv, IInv', FullyFilled
  PROVE  Promised!Complete
<1>1. /\ pc = "finish" /\ Agg.open_qty = 0 /\ Return
      /\ UNCHANGED <<instrument_index, order_index, arrival, books, pool>>
  BY DEF FullyFilled
<1>2. PICK t : t = Taker.id
  OBVIOUS
<1>3. /\ Lines' = Lines /\ Taker' = Promised!Nobody
      /\ UNCHANGED <<instrument_index, SpentIds>>
      /\ OpenOf' = [OpenOf EXCEPT ![t] = 0] /\ FilledOf' = [FilledOf EXCEPT ![t] = 0]
  BY <1>1, <1>2, CallGone DEF Agg
<1>4. OpenOf[t] = 0 /\ t \in OrderIds
  BY <1>1, <1>2, TakerOpen
<1>5. OpenOf' = OpenOf
  BY <1>3, <1>4, MapsAre
<1>6. ~Promised!Quiet
  BY <1>1, TakerFacts
<1> QED
  BY <1>2, <1>3, <1>4, <1>5, <1>6 DEF Promised!Complete, Promised!Finished

LEMMA NothingReached ==
  ASSUME RefInv, pc # "idle", NothingToMatch
  PROVE  Promised!Reach = {} /\ Eligible = {}
<1>1. Eligible = {}
  BY DEF Eligible, NothingToMatch
<1>2. ASSUME NEW p \in Promised!Reach PROVE FALSE
  <2>1. p \in PricesOf[Instr] /\ OppositeQueue(p) # {} /\ Within(p)
    BY MakersAre
  <2> QED
    BY <1>1, <2>1, QueueEligible
<1> QED
  BY <1>1, <1>2

LEMMA DropDrops ==
  ASSUME RefInv, IInv', pc # "idle", DropRemainder, Agg.open_qty > 0,
         \/ call.tif = "kIoc" /\ Promised!Reach = {}
         \/ call.tif = "kFok" /\ Agg.filled_qty = 0 /\ ~Promised!Fillable
  PROVE  Promised!Drop
<1>1. /\ Return /\ UNCHANGED <<instrument_index, order_index, arrival, books>>
      /\ pool' = [pool EXCEPT ![call.slot].open_qty = 0]
  BY DEF DropRemainder
<1>2. /\ \A s \in Slots \ {call.slot} : pool'[s] = pool[s]
      /\ pool'[call.slot].is_open = Agg.is_open
  <2>1. call.slot \in Slots /\ pool \in [Slots -> OrderRecord]
    BY RefInvParts, AggressorFacts DEF AggressorInOrder
  <2> QED
    BY <1>1, <2>1 DEF Agg, OrderRecord
<1>3. PICK t : t = Taker.id
  OBVIOUS
<1>4. /\ Lines' = Lines /\ Taker' = Promised!Nobody
      /\ UNCHANGED <<instrument_index, SpentIds>>
      /\ OpenOf' = [OpenOf EXCEPT ![t] = 0] /\ FilledOf' = [FilledOf EXCEPT ![t] = 0]
  BY <1>1, <1>2, <1>3, CallGone
<1>5. ~Promised!Quiet /\ Taker.tif = call.tif
  BY TakerFacts
<1>6. OpenOf[Taker.id] = Agg.open_qty /\ FilledOf[Taker.id] = Agg.filled_qty
  BY TakerOpen
<1> QED
  BY <1>3, <1>4, <1>5, <1>6 DEF Promised!Drop, Promised!Finished

LEMMA UnfillableDrops ==
  ASSUME RefInv, IInv', SidesFit, CancelUnfillable
  PROVE  Promised!Drop
<1>1. /\ pc = "on_accepted" /\ DropRemainder /\ call.tif = "kFok"
      /\ ~can_fully_fill(Instr, call.side, call.is_market, call.price, Agg.open_qty)
  BY DEF CancelUnfillable, Unfillable
<1>2. Agg.filled_qty = 0 /\ Agg.open_qty > 0
  BY <1>1, RefInvParts DEF QuantitiesInOrder
<1>3. ~Enough
  BY <1>1, <1>2, RefInvParts, WalkFinds
<1>4. ~Promised!Fillable
  BY <1>1, <1>3, FillableIs
<1> QED
  BY <1>1, <1>2, <1>4, DropDrops

LEMMA FinishedFacts ==
  ASSUME RefInv, pc = "finish", Agg.open_qty > 0
  PROVE  Promised!Reach = {} /\ call.tif # "kFok"
<1>1. NothingToMatch
  BY RefInvParts DEF MInv, CallMatches, Settled
<1>2. Promised!Reach = {} /\ Eligible = {}
  BY <1>1, NothingReached
<1>3. ASSUME call.tif = "kFok" PROVE FALSE
  <2>1. Enough
    BY <1>3, RefInvParts DEF KInv, FokCovered
  <2>2. SumFunctionOnSet(OpenQuantities(pool), Eligible) = 0
    BY <1>2, SumByChosen, FS_EmptySet
  <2>3. Agg.open_qty \in Nat
    BY TakerOpen
  <2> QED
    BY <2>1, <2>2, <2>3 DEF Enough
<1> QED
  BY <1>2, <1>3

LEMMA RemainderDrops ==
  ASSUME RefInv, IInv', CancelRemainder
  PROVE  Promised!Drop
<1>1. pc = "finish" /\ Agg.open_qty > 0 /\ call.tif # "kDay" /\ DropRemainder
  BY DEF CancelRemainder
<1>2. Promised!Reach = {} /\ call.tif # "kFok"
  BY <1>1, FinishedFacts
<1>3. call.tif = "kIoc"
  BY <1>1, <1>2, RefInvParts DEF Call
<1> QED
  BY <1>1, <1>2, <1>3, DropDrops

LEMMA RemainderRests ==
  ASSUME RefInv, IInv', RestRemainder
  PROVE  Promised!Rest
<1> DEFINE after == add_resting(pool, books[Instr], Instr, call.slot, call.side, call.price)
<1>1. /\ pc = "finish" /\ Agg.open_qty > 0 /\ call.tif = "kDay" /\ Return
      /\ pool' = after.pool
      /\ UNCHANGED <<instrument_index, order_index, pool_size, arrival>>
  BY DEF RestRemainder
<1>2. /\ AggressorInOrder /\ Instr \in Instruments /\ call.side \in Side /\ call.price \in Int
      /\ call.slot \in Slots
  BY <1>1, RefInvParts, AggressorFacts DEF AggressorInOrder
<1>3. /\ ~pool[call.slot].is_open /\ pool_size = call.slot + 1
      /\ arrival[call.slot] = call.slot
      /\ price_to_index(Instr, call.price) \in Index(Instr)
  BY <1>1, <1>2 DEF AggressorInOrder, Agg
<1> DEFINE x == price_to_index(Instr, call.price)
<1>4. AddRestingEffect(pool, books[Instr], Instr, call.slot, call.side, call.price, after)
  BY <1>2, <1>3, AddRestingFields, RefInvParts, StateFacts
<1>5. /\ pool'[call.slot].is_open /\ pool'[call.slot].side = call.side
      /\ pool'[call.slot].level_index = x
      /\ pool'[call.slot].instrument_id = Instr /\ pool'[call.slot].id = Agg.id
      /\ \A s \in Slots \ {call.slot} :
           /\ pool'[s].id = pool[s].id /\ pool'[s].is_open = pool[s].is_open
           /\ pool'[s].instrument_id = pool[s].instrument_id
           /\ pool'[s].side = pool[s].side
           /\ pool'[s].level_index = pool[s].level_index
  BY ZenonT(40), <1>1, <1>2, <1>4 DEF AddRestingEffect, Agg, Instr
<1>6. /\ call.price \in PricesOf[Instr] /\ x \in Index(Instr)
  <2>1. Ladder[Instr][x] = call.price
    BY <1>2, <1>3, PriceToIndex, IndexFacts DEF index_to_price
  <2> QED
    BY <1>2, <1>3, <2>1, PriceIndex
<1>7. OthersStay({call.slot})
  BY <1>1, <1>5 DEF OthersStay
<1>8. Arrives(call.slot)
  <2>1. ASSUME NEW s \in OpenSlots PROVE arrival[s] < arrival[call.slot]
    <3>1. /\ s \in Slots /\ pool[s].is_open /\ arrival[s] <= s /\ s < pool_size
      BY RefInvParts DEF OpenSlots, IInv, SlotsInOrder
    <3>2. s # call.slot /\ s \in Nat /\ call.slot \in Nat
      BY <1>2, <1>3, <3>1, SlotFacts
    <3>3. arrival[s] \in Nat
      BY <3>1, RefInvParts, StateFacts, SlotFacts
    <3> QED
      BY <1>3, <3>1, <3>2, <3>3
  <2> QED
    BY <1>1, <1>2, <1>3, <1>5, <1>7, <2>1 DEF Arrives, OpenSlots
<1>9. RestsAt(pool', call.slot, Instr, call.side, call.price, x)
  BY <1>2, <1>5, <1>6 DEF RestsAt, Queue
<1>10. Lines' = [Lines EXCEPT ![Instr][call.side][call.price] =
                   Append(Lines[Instr][call.side][call.price], Agg.id)]
  <2>1. PICK slot, i, side, price, y :
          /\ slot = call.slot /\ i = Instr /\ side = call.side /\ price = call.price /\ y = x
    OBVIOUS
  <2> HIDE DEF x
  <2>2. Arrives(slot) /\ RestsAt(pool', slot, i, side, price, y)
    BY <1>8, <1>9, <2>1
  <2>3. Lines' = [Lines EXCEPT ![i][side][price] =
                    Append(Lines[i][side][price], pool'[slot].id)]
    BY <2>2, LinesGain, RefInvParts
  <2> QED
    BY <1>5, <2>1, <2>3
<1>11. pc' = "idle" /\ call'.slot = kInvalidSlot
  BY <1>1 DEF Return, NoCall
<1>12. ASSUME NEW j \in OrderIds
       PROVE  OpenOf'[j] = OpenOf[j] /\ FilledOf'[j] = FilledOf[j]
  <2>1. contains(j) => order_index[j] \in Slots /\ order_index[j] # kInvalidSlot
    BY RefInvParts, IdFacts
  <2>2. contains(j) => /\ SameQuantities(pool[order_index[j]], pool'[order_index[j]])
                       /\ pool'[order_index[j]].is_open <=> Live(order_index[j])
    BY <1>1, <2>1, RestRemainderRecords, RefInvParts DEF Live
  <2> QED
    BY <1>1, <1>11, <2>1, <2>2, StatusKept DEF SameQuantities
<1>13. OpenOf' = OpenOf /\ FilledOf' = FilledOf /\ SpentIds' = SpentIds
  <2>1. OpenOf' = OpenOf /\ FilledOf' = FilledOf
    BY <1>12, MapsAre, FunctionIs
  <2> QED
    BY <1>1, <2>1 DEF SpentIds, contains
<1>14. Promised!Reach = {}
  BY <1>1, FinishedFacts
<1>15. /\ ~Promised!Quiet /\ Taker.tif = "kDay" /\ Taker.instrument = Instr
       /\ Taker.side = call.side /\ Taker.price = call.price /\ Taker.id = Agg.id
       /\ Taker' = Promised!Nobody /\ OpenOf[Taker.id] = Agg.open_qty
  BY <1>1, <1>11, TakerFacts, TakerOpen
<1>16. Lines' = [Lines EXCEPT ![Taker.instrument][Taker.side][Taker.price] =
                   Append(@, Taker.id)]
  BY <1>10, <1>15
<1> QED
  BY <1>1, <1>13, <1>14, <1>15, <1>16 DEF Promised!Rest, Promised!Finished

-----------------------------------------------------------------------------
(***************************************************************************)
(* Cancel, and what the two kinds of replace have in common.               *)
(***************************************************************************)

\* A resting order stands in the line of its price, where it may be amended.
Standing(id, i, side, price, x) ==
  /\ order_index[id] \in OpenSlots /\ order_index[id] \in Slots /\ pool[order_index[id]].id = id
  /\ i = pool[order_index[id]].instrument_id /\ side = pool[order_index[id]].side
  /\ price = pool[order_index[id]].price /\ x = pool[order_index[id]].level_index
  /\ RestsAt(pool, order_index[id], i, side, price, x)
  /\ Promised!Quiet /\ call.slot = kInvalidSlot
  /\ OpenOf[id] = pool[order_index[id]].open_qty /\ OpenOf[id] > 0
  /\ FilledOf[id] = pool[order_index[id]].filled_qty
  /\ id \in Promised!ToSet(Lines[i][side][price])

LEMMA OpenStanding ==
  ASSUME RefInv, pc = "idle", NEW id \in OrderIds, IsOpen(id)
  PROVE  \E i, side, price, x : Standing(id, i, side, price, x)
<1> DEFINE slot == order_index[id]
<1>1. contains(id) /\ slot \in Slots /\ pool[slot].is_open /\ pool[slot].id = id
      /\ call.slot = kInvalidSlot
  BY RefInvParts, IdFacts DEF IsOpen
<1>2. slot \in OpenSlots
  BY <1>1 DEF OpenSlots
<1> HIDE DEF slot
<1>3. PICK i, side, price, x :
        /\ i = pool[slot].instrument_id /\ side = pool[slot].side
        /\ price = pool[slot].price /\ x = pool[slot].level_index
  OBVIOUS
<1>4. RestsAt(pool, slot, i, side, price, x)
  BY <1>2, <1>3, OpenRests, RefInvParts
<1>5. /\ OpenOf[id] = pool[slot].open_qty /\ FilledOf[id] = pool[slot].filled_qty
      /\ OpenOf[id] > 0
  BY <1>1, <1>2, OpenOwn, RefInvParts DEF QuantitiesInOrder
<1>6. id \in Promised!ToSet(Lines[i][side][price])
  <2>1. slot \in Queue(pool, i, side, price_to_index(i, price))
        /\ i \in Instruments /\ side \in Side /\ price \in PricesOf[i]
    BY <1>4 DEF RestsAt
  <2>2. Promised!ToSet(Lines[i][side][price]) =
          IdsOf(pool, Queue(pool, i, side, price_to_index(i, price)))
    BY <2>1, LineHolds, RefInvParts
  <2> QED
    BY <1>1, <2>1, <2>2 DEF IdsOf
<1>7. Promised!Quiet
  BY TakerFacts
<1>8. Standing(id, i, side, price, x)
  BY <1>1, <1>2, <1>3, <1>4, <1>5, <1>6, <1>7 DEF Standing, slot
<1> QED
  BY <1>8

LEMMA WithdrawAmends ==
  ASSUME RefInv, IInv', pc = "idle", NEW id \in OrderIds, IsOpen(id), Withdraw(id)
  PROVE  Promised!Amend(id)
<1> DEFINE slot == order_index[id]
<1>1. PICK i, side, price, x : Standing(id, i, side, price, x)
  BY OpenStanding
<1>2. UNCHANGED <<instrument_index, order_index, pc, call, arrival>>
  BY DEF Withdraw
<1>3. /\ slot \in Slots /\ OneLeaves(pool, pool', slot)
      /\ \A s \in Slots : /\ SameQuantities(pool[s], pool'[s])
                          /\ pool'[s].is_open <=> (pool[s].is_open /\ s # slot)
  BY WithdrawLeaves, WithdrawRecords, RefInvParts
<1>4. /\ slot \in OpenSlots /\ RestsAt(pool, slot, i, side, price, x)
      /\ pool[slot].id = id
      /\ i \in Instruments /\ side \in Side /\ price \in PricesOf[i]
      /\ call.slot = kInvalidSlot
  BY <1>1 DEF Standing, RestsAt
<1>5. Leaves(slot)
  BY <1>2, <1>3, <1>4 DEF Leaves, OthersStay, OneLeaves, SameQuantities
<1>6. Lines' = [Lines EXCEPT ![i][side][price] =
                  Promised!Without(Lines[i][side][price], id)]
  <2>1. PICK old : old = slot
    OBVIOUS
  <2>2. Leaves(old) /\ RestsAt(pool, old, i, side, price, x)
    BY <1>4, <1>5, <2>1
  <2>3. Lines' = [Lines EXCEPT ![i][side][price] =
                    Promised!Without(Lines[i][side][price], pool[old].id)]
    BY <2>2, LinesLose, RefInvParts
  <2> QED
    BY <1>4, <2>1, <2>3
<1>7. OpenOf'[id] = 0 /\ FilledOf'[id] = 0
  <2>1. ~LiveId(id)'
    BY <1>2, <1>3, <1>4, SlotFacts DEF LiveId, Live
  <2> QED
    BY <2>1, StatusOf
<1>8. ASSUME NEW j \in OrderIds \ {id}
      PROVE  OpenOf'[j] = OpenOf[j] /\ FilledOf'[j] = FilledOf[j]
  <2>1. contains(j) => order_index[j] \in Slots \ {slot}
    BY <1>4, RefInvParts, IdFacts
  <2>2. contains(j) => /\ SameQuantities(pool[order_index[j]], pool'[order_index[j]])
                       /\ pool'[order_index[j]].is_open <=> pool[order_index[j]].is_open
    BY <1>3, <2>1
  <2> QED
    BY <1>2, <2>2, StatusKept DEF SameQuantities, Live
<1>9. /\ OpenOf' = Promised!Closed(OpenOf, id)
      /\ FilledOf' = Promised!Closed(FilledOf, id)
  BY <1>7, <1>8, MapsAre, FunctionIs DEF Promised!Closed
<1>10. UNCHANGED <<instrument_index, SpentIds, Taker>>
  <2>1. pc = "idle" /\ pc' = "idle"
    BY <1>2
  <2> QED
    BY <1>2, <2>1, TakerFacts DEF SpentIds, contains
<1>11. Promised!Cancel(id, i, side, price)
  BY <1>6, <1>9, <1>10 DEF Promised!Cancel, Promised!Changed
<1>12. Promised!Quiet /\ OpenOf[id] > 0 /\ id \in Promised!ToSet(Lines[i][side][price])
  BY <1>1 DEF Standing
<1>13. side \in Promised!Side
  BY <1>4 DEF Promised!Side, Side
<1> QED
  BY <1>4, <1>11, <1>12, <1>13 DEF Promised!Amend

LEMMA Moved ==
  ASSUME NEW D, NEW f, NEW g, f = [j \in D |-> f[j]], g = [j \in D |-> g[j]],
         NEW a \in D, NEW b \in D, NEW v, NEW w, g[b] = w, a # b => g[a] = v,
         \A j \in D \ {a, b} : g[j] = f[j]
  PROVE  g = [[f EXCEPT ![a] = v] EXCEPT ![b] = w]
<1> DEFINE h == [[f EXCEPT ![a] = v] EXCEPT ![b] = w]
<1>1. h = [j \in D |-> IF j = b THEN w ELSE IF j = a THEN v ELSE f[j]]
  OBVIOUS
<1>2. [j \in D |-> g[j]] = [j \in D |-> IF j = b THEN w ELSE IF j = a THEN v ELSE f[j]]
  OBVIOUS
<1> QED
  BY <1>1, <1>2

\* A replacement takes the order over under its new id.
LEMMA ReplaceRenames ==
  ASSUME RefInv, IInv', NEW id \in OrderIds, NEW new_id \in OrderIds, NEW p \in ReplacePrices,
         NEW q \in ReplaceQtys,
         ReplaceLosing(id, new_id, p, q) \/ ReplaceKeeping(id, new_id, p, q)
  PROVE  /\ Promised!Renamed(id, new_id) /\ OpenOf'[new_id] = NewOpen(id, q)
         /\ new_id \in {id} \cup (OrderIds \ SpentIds)
<1> DEFINE slot == order_index[id]
<1>1. /\ ReplaceAllowed(id, new_id, p, q)
      /\ order_index' = [order_index EXCEPT ![new_id] = pool_size]
      /\ UNCHANGED instrument_index
  BY DEF ReplaceLosing, ReplaceKeeping
<1>2. /\ pc = "idle" /\ IsOpen(id) /\ NewOpen(id, q) \in Quantity
      /\ new_id = id \/ ~contains(new_id)
  BY <1>1, ReplaceFacts, RefInvParts
<1>3. NewOpen(id, q) # 0
  BY <1>1 DEF ReplaceAllowed
<1>4. PICK i, side, price, x : Standing(id, i, side, price, x)
  BY <1>2, OpenStanding
<1>5. /\ slot \in Slots /\ pool_size \in Slots /\ slot # pool_size
      /\ pool'[pool_size].open_qty = NewOpen(id, q)
      /\ pool'[pool_size].filled_qty = pool[slot].filled_qty
      /\ \A s \in Slots \ {pool_size} : /\ SameQuantities(pool[s], pool'[s])
                                        /\ pool'[s].is_open <=> pool[s].is_open /\ s # slot
      /\ ReplaceKeeping(id, new_id, p, q) => pool'[pool_size].is_open
  BY ReplacementRecords, RefInvParts, <1>4 DEF Standing
<1>6. /\ call.slot = kInvalidSlot /\ call'.slot \in {kInvalidSlot, pool_size}
      /\ pool'[pool_size].is_open \/ call'.slot = pool_size
  <2>1. call.slot = kInvalidSlot
    BY <1>4 DEF Standing
  <2>2. CASE ReplaceLosing(id, new_id, p, q)
    BY <2>1, <2>2 DEF ReplaceLosing, NoCall
  <2>3. CASE ReplaceKeeping(id, new_id, p, q)
    BY <1>5, <2>1, <2>3 DEF ReplaceKeeping
  <2> QED
    BY <2>2, <2>3
<1>7. /\ SpentIds' = SpentIds \cup {new_id}
      /\ contains(new_id)' /\ order_index'[new_id] = pool_size
      /\ \A j \in OrderIds \ {new_id} : order_index'[j] = order_index[j]
  BY <1>1, <1>5, IdSpent
<1>8. OpenOf'[new_id] = NewOpen(id, q) /\ FilledOf'[new_id] = pool[slot].filled_qty
  <2>1. LiveId(new_id)'
    BY <1>6, <1>7 DEF LiveId, Live
  <2> QED
    BY <1>5, <1>7, <2>1, StatusOf
<1>9. id # new_id => OpenOf'[id] = 0 /\ FilledOf'[id] = 0
  <2> SUFFICES ASSUME id # new_id PROVE OpenOf'[id] = 0 /\ FilledOf'[id] = 0
    OBVIOUS
  <2>1. order_index'[id] = slot /\ ~pool'[slot].is_open /\ slot # call'.slot
    BY <1>5, <1>6, <1>7, SlotFacts
  <2>2. ~LiveId(id)'
    BY <2>1 DEF LiveId, Live
  <2> QED
    BY <2>2, StatusOf
<1>10. ASSUME NEW j \in OrderIds \ {id, new_id}
       PROVE  OpenOf'[j] = OpenOf[j] /\ FilledOf'[j] = FilledOf[j]
  <2>1. contains(j) => order_index[j] \in Slots \ {slot, pool_size}
    <3>1. contains(j) => /\ order_index[j] \in Slots /\ order_index[j] # pool_size
                         /\ pool[order_index[j]].id = j
      BY RefInvParts, IdFacts
    <3>2. pool[slot].id = id
      BY <1>4 DEF Standing
    <3> QED
      BY <3>1, <3>2
  <2>2. contains(j) => /\ SameQuantities(pool[order_index[j]], pool'[order_index[j]])
                       /\ pool'[order_index[j]].is_open <=> pool[order_index[j]].is_open
    BY <1>5, <2>1
  <2>3. contains(j) => order_index[j] # call.slot /\ order_index[j] # call'.slot
    BY <1>6, <2>1, SlotFacts
  <2> QED
    BY <1>7, <2>2, <2>3, StatusKept DEF SameQuantities, Live
<1>11. FilledOf[id] = pool[slot].filled_qty
  BY <1>4 DEF Standing
<1>12. /\ OpenOf' = [[OpenOf EXCEPT ![id] = 0] EXCEPT ![new_id] = OpenOf'[new_id]]
       /\ FilledOf' = [[FilledOf EXCEPT ![id] = 0] EXCEPT ![new_id] = FilledOf[id]]
  <2>1. /\ FilledOf'[new_id] = FilledOf[id]
        /\ \A j \in OrderIds \ {id, new_id} : OpenOf'[j] = OpenOf[j]
        /\ \A j \in OrderIds \ {id, new_id} : FilledOf'[j] = FilledOf[j]
    BY <1>8, <1>10, <1>11
  <2>2. PICK f, g, f2, g2, w, u :
          /\ f = OpenOf /\ g = OpenOf' /\ f2 = FilledOf /\ g2 = FilledOf'
          /\ w = OpenOf'[new_id] /\ u = FilledOf[id]
    OBVIOUS
  <2>3. /\ f = [j \in OrderIds |-> f[j]] /\ g = [j \in OrderIds |-> g[j]]
        /\ f2 = [j \in OrderIds |-> f2[j]] /\ g2 = [j \in OrderIds |-> g2[j]]
    BY <2>2, MapsAre
  <2>4. g = [[f EXCEPT ![id] = 0] EXCEPT ![new_id] = w]
    BY SMTT(30), <1>9, <2>1, <2>2, <2>3, Moved
  <2>5. g2 = [[f2 EXCEPT ![id] = 0] EXCEPT ![new_id] = u]
    BY <1>9, <2>1, <2>2, <2>3, Moved
  <2> QED
    BY <2>2, <2>4, <2>5
<1>13. OpenOf'[new_id] \in Quantity \ {0}
  BY <1>2, <1>3, <1>8
<1>14. Promised!Renamed(id, new_id)
  BY <1>1, <1>7, <1>12, <1>13 DEF Promised!Renamed, Promised!Closed
<1>15. new_id \in {id} \cup (OrderIds \ SpentIds)
  BY <1>2 DEF SpentIds
<1> QED
  BY <1>8, <1>14, <1>15

-----------------------------------------------------------------------------
(***************************************************************************)
(* The two kinds of replace: to the end of the line of the new price, and  *)
(* in place.                                                               *)
(***************************************************************************)

LEMMA LosingAmends ==
  ASSUME RefInv, IInv', NEW id \in OrderIds, NEW new_id \in OrderIds, NEW p \in ReplacePrices,
         NEW q \in ReplaceQtys, ReplaceLosing(id, new_id, p, q)
  PROVE  Promised!Amend(id)
<1> DEFINE slot == order_index[id]
<1>1. /\ ReplaceAllowed(id, new_id, p, q) /\ LosesPriority(id, p, q)
      /\ pc' = "on_replaced" /\ call'.slot = pool_size /\ call'.side = pool[slot].side
      /\ call'.price = p /\ call'.tif = "kDay" /\ ~call'.is_market
      /\ arrival' = [arrival EXCEPT ![pool_size] = Turn(id, p, q)]
  BY DEF ReplaceLosing, NoCall
<1>2. /\ pc = "idle" /\ IsOpen(id)
      /\ price_to_index(pool[slot].instrument_id, p) \in Index(pool[slot].instrument_id)
  BY <1>1, ReplaceFacts, RefInvParts
<1>3. PICK i, side, price, x : Standing(id, i, side, price, x)
  BY <1>2, OpenStanding
<1>4. /\ slot \in OpenSlots /\ slot \in Slots /\ RestsAt(pool, slot, i, side, price, x)
      /\ pool[slot].id = id
      /\ i = pool[slot].instrument_id /\ side = pool[slot].side /\ price = pool[slot].price
      /\ i \in Instruments /\ side \in Side /\ price \in PricesOf[i]
      /\ OpenOf[id] = pool[slot].open_qty
  BY <1>3 DEF Standing, RestsAt
<1>5. /\ pool_size \in Slots /\ slot # pool_size /\ ~pool[pool_size].is_open
      /\ ~pool'[pool_size].is_open /\ pool'[pool_size].id = new_id
      /\ \A s \in Slots \ {pool_size} : /\ SameQuantities(pool[s], pool'[s])
                                        /\ pool'[s].is_open <=> pool[s].is_open /\ s # slot
      /\ OneLeaves(pool, pool', slot)
  BY ReplacementRecords, ReplaceLosingLeaves, RefInvParts, <1>4
<1>6. pool'[pool_size].instrument_id = i
  <2> DEFINE rec == ReplacedRec(new_id, i, pool[slot].side, p, NewOpen(id, q),
                                pool[slot].filled_qty)
  <2>1. /\ rec.instrument_id = i /\ rec \in OrderRecord
        /\ WithReplacement(id, new_id, p, q) = [pool EXCEPT ![pool_size] = rec]
    BY <1>1, <1>4, ReplaceFacts, RefInvParts
  <2>2. pool' = Unlink(WithReplacement(id, new_id, p, q), slot)
    BY DEF ReplaceLosing, remove_resting
  <2> HIDE DEF rec
  <2>3. /\ WithReplacement(id, new_id, p, q) \in [Slots -> OrderRecord]
        /\ WithReplacement(id, new_id, p, q)[pool_size] = rec
    BY <1>5, <2>1, RefInvParts
  <2>4. Unlink(WithReplacement(id, new_id, p, q), slot)[pool_size].instrument_id =
          WithReplacement(id, new_id, p, q)[pool_size].instrument_id
    <3> DEFINE with == WithReplacement(id, new_id, p, q)
    <3>1. with \in [Slots -> OrderRecord] /\ slot \in Slots /\ pool_size \in Slots
      BY <1>4, <1>5, <2>3
    <3> HIDE DEF with, slot
    <3> QED
      BY <3>1, UnlinkKeepsOrders DEF with
  <2> QED
    BY <2>1, <2>2, <2>3, <2>4
<1>7. Leaves(slot)
  <2>1. \A s \in Slots \ {pool_size} : arrival'[s] = arrival[s]
    BY <1>1, <1>5, RefInvParts, StateFacts
  <2> QED
    BY <1>4, <1>5, <2>1 DEF Leaves, OthersStay, OneLeaves, SameQuantities
<1>8. Lines' = [Lines EXCEPT ![i][side][price] =
                  Promised!Without(Lines[i][side][price], id)]
  <2>1. PICK old : old = slot
    OBVIOUS
  <2>2. Leaves(old) /\ RestsAt(pool, old, i, side, price, x)
    BY <1>4, <1>7, <2>1
  <2>3. Lines' = [Lines EXCEPT ![i][side][price] =
                    Promised!Without(Lines[i][side][price], pool[old].id)]
    BY <2>2, LinesLose, RefInvParts
  <2> QED
    BY <1>4, <2>1, <2>3
<1>9. /\ Promised!Renamed(id, new_id) /\ OpenOf'[new_id] = NewOpen(id, q)
      /\ new_id \in {id} \cup (OrderIds \ SpentIds)
  BY ReplaceRenames
<1> DEFINE t == [id |-> new_id, instrument |-> i, side |-> side, is_market |-> FALSE,
                 price |-> p, tif |-> "kDay"]
<1>10. Taker' = t
  <2>1. call' \in Call
    BY DEF IInv, TypeOK
  <2>2. call'.is_market = FALSE
    BY <1>1, <2>1 DEF Call
  <2> QED
    BY <1>1, <1>4, <1>5, <1>6, <2>2 DEF Taker, Instr, Agg
<1>11. p \in PricesOf[i]
  <2>1. Ladder[i][price_to_index(i, p)] = p
    BY <1>2, <1>4, PriceToIndex, IndexFacts DEF index_to_price
  <2> QED
    BY <1>2, <1>4, <2>1, PriceIndex
<1>12. t \in Promised!Takers
  <2>1. p \in {0} \cup UNION {PricesOf[j] : j \in Instruments}
    BY <1>4, <1>11
  <2> QED
    BY <1>4, <2>1 DEF Promised!Takers, Promised!Side, Side
<1>13. p # price \/ OpenOf'[new_id] > OpenOf[id]
  BY <1>1, <1>4, <1>9 DEF LosesPriority, PriceChanged, QtyIncreased
<1>14. /\ t.id = new_id /\ t.instrument = i /\ t.side = side /\ ~t.is_market
       /\ t.tif = "kDay" /\ t.price = p
  OBVIOUS
<1> HIDE DEF t
<1>15. Promised!ReplaceLosing(id, new_id, i, side, price)
  BY <1>8, <1>9, <1>10, <1>11, <1>12, <1>13, <1>14
     DEF Promised!ReplaceLosing, Promised!Changed
<1>16. Promised!Quiet /\ OpenOf[id] > 0 /\ id \in Promised!ToSet(Lines[i][side][price])
  BY <1>3 DEF Standing
<1>17. side \in Promised!Side
  BY <1>4 DEF Promised!Side, Side
<1> QED
  BY <1>4, <1>9, <1>15, <1>16, <1>17 DEF Promised!Amend

LEMMA KeepingAmends ==
  ASSUME RefInv, IInv', NEW id \in OrderIds, NEW new_id \in OrderIds, NEW p \in ReplacePrices,
         NEW q \in ReplaceQtys, ReplaceKeeping(id, new_id, p, q)
  PROVE  Promised!Amend(id)
<1> DEFINE slot == order_index[id]
<1>1. /\ ReplaceAllowed(id, new_id, p, q) /\ ~LosesPriority(id, p, q)
      /\ UNCHANGED <<pc, call>>
      /\ arrival' = [arrival EXCEPT ![pool_size] = Turn(id, p, q)]
  BY DEF ReplaceKeeping
<1>2. pc = "idle" /\ IsOpen(id) /\ NewOpen(id, q) \in Int
  BY <1>1, ReplaceFacts, RefInvParts
<1>3. PICK i, side, price, x : Standing(id, i, side, price, x)
  BY <1>2, OpenStanding
<1>4. /\ slot \in OpenSlots /\ slot \in Slots /\ RestsAt(pool, slot, i, side, price, x)
      /\ pool[slot].is_open
      /\ pool[slot].id = id /\ i = pool[slot].instrument_id /\ side = pool[slot].side
      /\ x = pool[slot].level_index /\ x \in Index(i)
      /\ i \in Instruments /\ side \in Side /\ price \in PricesOf[i]
      /\ OpenOf[id] = pool[slot].open_qty
  BY <1>3 DEF Standing, RestsAt, OpenSlots
<1>5. /\ pool_size \in Slots /\ slot # pool_size /\ ~pool[pool_size].is_open
      /\ pool'[pool_size].is_open /\ pool'[pool_size].id = new_id
      /\ \A s \in Slots \ {pool_size} : /\ SameQuantities(pool[s], pool'[s])
                                        /\ pool'[s].is_open <=> pool[s].is_open /\ s # slot
  BY ReplacementRecords, RefInvParts, <1>4
<1> DEFINE with  == WithReplacement(id, new_id, p, q)
           after == replace_in_place(with, books[i], slot, pool_size)
<1>6. /\ with \in [Slots -> OrderRecord] /\ with[slot] = pool[slot]
      /\ with[pool_size].instrument_id = i
      /\ \A s \in Slots \ {pool_size} : with[s] = pool[s]
  <2> DEFINE rec == ReplacedRec(new_id, i, pool[slot].side, p, NewOpen(id, q),
                                pool[slot].filled_qty)
  <2>1. /\ rec.instrument_id = i /\ rec \in OrderRecord
        /\ with = [pool EXCEPT ![pool_size] = rec]
    BY <1>1, <1>4, ReplaceFacts, RefInvParts
  <2> HIDE DEF rec, with
  <2> QED
    BY <1>4, <1>5, <2>1, RefInvParts
<1>7. pool' = after.pool
  BY <1>4 DEF ReplaceKeeping
<1>8. ReplaceInPlaceEffect(with, books[i], i, slot, pool_size, after)
  <2>1. with[slot].level_index \in Index(i) /\ books[i] \in Book(i)
    BY <1>4, <1>6, RefInvParts, StateFacts
  <2> HIDE DEF with, after
  <2> QED
    BY <1>4, <1>5, <1>6, <2>1, ReplaceInPlaceFields DEF after
<1>9. /\ pool'[pool_size].instrument_id = i /\ pool'[pool_size].side = pool[slot].side
      /\ pool'[pool_size].level_index = pool[slot].level_index
      /\ \A s \in Slots \ {slot, pool_size} :
           /\ pool'[s].instrument_id = pool[s].instrument_id
           /\ pool'[s].side = pool[s].side /\ pool'[s].level_index = pool[s].level_index
  <2> HIDE DEF with, after, slot
  <2>1. /\ after.pool[pool_size].side = with[slot].side
        /\ after.pool[pool_size].level_index = with[slot].level_index
        /\ \A s \in Slots : after.pool[s].instrument_id = with[s].instrument_id
        /\ \A s \in Slots : s # pool_size => /\ after.pool[s].side = with[s].side
                                            /\ after.pool[s].level_index = with[s].level_index
    BY <1>8 DEF ReplaceInPlaceEffect
  <2> QED
    BY <1>5, <1>6, <1>7, <2>1
<1>10. /\ \A s \in Slots \ {pool_size} : arrival'[s] = arrival[s]
       /\ arrival'[pool_size] = arrival[slot]
  <2>1. p = pool[slot].price /\ ~(NewOpen(id, q) > pool[slot].open_qty)
    BY <1>1 DEF LosesPriority, PriceChanged, QtyIncreased
  <2>2. NewOpen(id, q) <= pool[slot].open_qty
    BY <1>2, <1>4, <2>1, RefInvParts, OpenOwn
  <2>3. Turn(id, p, q) = arrival[slot]
    BY <2>1, <2>2 DEF Turn
  <2> QED
    BY <1>1, <1>5, <2>3, RefInvParts, StateFacts
<1>11. Replaces(slot, pool_size)
  <2>1. OthersStay({slot, pool_size})
    BY <1>5, <1>9, <1>10 DEF OthersStay, SameQuantities
  <2> QED
    BY <1>4, <1>5, <1>9, <1>10, <2>1 DEF Replaces, OpenSlots, SameQuantities
<1>12. Lines' = [Lines EXCEPT ![i][side][price] =
                   [n \in DOMAIN Lines[i][side][price] |->
                      IF Lines[i][side][price][n] = id THEN new_id
                      ELSE Lines[i][side][price][n]]]
  <2>1. PICK old, new : old = slot /\ new = pool_size
    OBVIOUS
  <2>2. Replaces(old, new) /\ RestsAt(pool, old, i, side, price, x)
    BY <1>4, <1>11, <2>1
  <2>3. Lines' = [Lines EXCEPT ![i][side][price] =
                    [n \in DOMAIN Lines[i][side][price] |->
                       IF Lines[i][side][price][n] = pool[old].id THEN pool'[new].id
                       ELSE Lines[i][side][price][n]]]
    BY <2>2, LinesSwap, RefInvParts
  <2>4. pool[old].id = id /\ pool'[new].id = new_id
    BY <1>4, <1>5, <2>1
  <2> QED
    BY <2>3, <2>4
<1>13. /\ Promised!Renamed(id, new_id) /\ OpenOf'[new_id] = NewOpen(id, q)
       /\ new_id \in {id} \cup (OrderIds \ SpentIds)
  BY ReplaceRenames
<1>14. OpenOf'[new_id] <= OpenOf[id]
  <2>1. ~(NewOpen(id, q) > pool[slot].open_qty)
    BY <1>1 DEF LosesPriority, QtyIncreased
  <2> QED
    BY <1>2, <1>4, <1>13, <2>1, RefInvParts, OpenOwn
<1>15. Taker' = Taker
  BY <1>1, <1>2, TakerFacts
<1>16. Promised!ReplaceKeeping(id, new_id, i, side, price)
  BY <1>12, <1>13, <1>14, <1>15 DEF Promised!ReplaceKeeping, Promised!Changed
<1>17. Promised!Quiet /\ OpenOf[id] > 0 /\ id \in Promised!ToSet(Lines[i][side][price])
  BY <1>3 DEF Standing
<1>18. side \in Promised!Side
  BY <1>4 DEF Promised!Side, Side
<1> QED
  BY <1>4, <1>13, <1>16, <1>17, <1>18 DEF Promised!Amend

-----------------------------------------------------------------------------
(***************************************************************************)
(* All steps together.                                                     *)
(***************************************************************************)

LEMMA InitRefines == Init => Promised!Init
<1> SUFFICES ASSUME Init PROVE Promised!Init
  OBVIOUS
<1>1. IInv /\ pc = "idle" /\ \A s \in Slots : ~pool[s].is_open
  BY InitInv DEF Init, NewRecord
<1>2. \A id \in OrderIds : ~contains(id)
  BY DEF Init, contains
<1>3. SpentIds = {}
  BY <1>2 DEF SpentIds
<1>4. OpenOf = [id \in OrderIds |-> 0] /\ FilledOf = [id \in OrderIds |-> 0]
  BY <1>2 DEF OpenOf, FilledOf, LiveId
<1>5. ASSUME NEW i \in Instruments, NEW side \in Side, NEW p \in PricesOf[i]
      PROVE  LevelIds(pool, books[i].levels[side][price_to_index(i, p)]) = <<>>
  <2>1. Queue(pool, i, side, price_to_index(i, p)) = {}
    BY <1>1 DEF Queue
  <2>2. Lines[i][side][p] = LevelIds(pool, books[i].levels[side][price_to_index(i, p)])
    BY DEF Lines
  <2> QED
    BY <1>1, <2>1, <2>2, LineHolds
<1>6. Lines = [i \in Instruments |-> [side \in Side |-> [p \in PricesOf[i] |-> <<>>]]]
  BY <1>5 DEF Lines
<1>7. Promised!Quiet
  BY <1>1 DEF Taker, Promised!Quiet, Promised!Nobody
<1>8. instrument_index = {}
  BY DEF Init
<1> QED
  BY <1>3, <1>4, <1>6, <1>7, <1>8 DEF Promised!Init, Promised!Side, Side

\* Every step of the engine is one of the exchange, or changes nothing there.
LEMMA NextRefines ==
  ASSUME RefInv, IInv', SidesFit, [Next]_vars
  PROVE  [Promised!Next]_(Promised!vars)
<1>1. ASSUME \/ StartMatching \/ PickLevel \/ MatchingDone \/ LeaveLevel \/ Trade
             \/ AfterReplaced \/ UNCHANGED vars
      PROVE  UNCHANGED Promised!vars
  BY <1>1, QuietSteps
<1>2. ASSUME NEW ids \in ConfigureCalls, Configure(ids) PROVE Promised!Next
  BY <1>2, ConfigureLists DEF Promised!Next
<1>3. ASSUME NEW id \in OrderIds, NEW o \in Orders, Submit(id, o) \/ SubmitRefused(id, o)
      PROVE  Promised!Next
  BY <1>3, SubmitAccepts, SubmitRefuses DEF Promised!Next
<1>4. ASSUME NEW id \in OrderIds, pc = "idle", IsOpen(id), Withdraw(id) PROVE Promised!Next
  BY <1>4, WithdrawAmends DEF Promised!Next
<1>5. ASSUME NEW id \in OrderIds, Cancel(id) PROVE Promised!Next
  <2>1. pc = "idle" /\ IsOpen(id) /\ Withdraw(id)
    BY <1>5 DEF Cancel, CancelReject
  <2> QED
    BY <1>4, <2>1
<1>6. ASSUME NEW id \in OrderIds, NEW new_id \in OrderIds, NEW p \in ReplacePrices,
             NEW q \in ReplaceQtys, Replace(id, new_id, p, q)
      PROVE  Promised!Next
  <2>1. CASE ReplaceToNothing(id, new_id, p, q)
    <3>1. pc = "idle" /\ IsOpen(id) /\ Withdraw(id)
      BY <2>1 DEF ReplaceToNothing, ReplaceReject
    <3> QED
      BY <1>4, <3>1
  <2>2. CASE ReplaceLosing(id, new_id, p, q)
    BY <2>2, LosingAmends DEF Promised!Next
  <2>3. CASE ReplaceKeeping(id, new_id, p, q)
    BY <2>3, KeepingAmends DEF Promised!Next
  <2> QED
    BY <1>6, <2>1, <2>2, <2>3 DEF Replace
<1>7. ASSUME \/ ApplyTrade \/ FullyFilled \/ RestRemainder \/ CancelRemainder
             \/ CancelUnfillable
      PROVE  Promised!Next
  BY <1>7, TradeExecutes, CompletedCompletes, RemainderRests, RemainderDrops, UnfillableDrops
     DEF Promised!Next
<1>8. CASE Host
  <2>1. ASSUME RejectedCall PROVE UNCHANGED Promised!vars
    BY <1>1, <2>1 DEF RejectedCall
  <2> QED
    BY <1>2, <1>3, <1>5, <1>6, <1>8, <2>1 DEF Host
<1>9. CASE Proceed
  BY <1>1, <1>7, <1>9 DEF Proceed
<1> QED
  BY <1>1, <1>8, <1>9 DEF Next

(***************************************************************************)
(* The engine implements the exchange of the header, for every set of      *)
(* instruments, ladder, set of orders, pool and width of Quantity, while   *)
(* what each side has open fits in one Quantity: every step of submit,     *)
(* cancel, replace and configure (engine.cpp), callbacks in the middle     *)
(* included, is one step of Exchange or none.                              *)
(***************************************************************************)
THEOREM ImplementsExchangeHolds == Spec /\ []SidesFit => ImplementsExchange
<1>1. Init => Promised!Init
  BY InitRefines
<1>2. RefInv /\ IInv' /\ SidesFit /\ [Next]_vars => [Promised!Next]_(Promised!vars)
  BY NextRefines
<1>3. Spec => [](IInv /\ BooksTotalled /\ IndexInOrder /\ QuantitiesInOrder)
  <2>1. Init => IInv /\ BooksTotalled /\ IndexInOrder /\ QuantitiesInOrder
    <3>1. Init => QuantitiesInOrder
      BY DEF Init, QuantitiesInOrder, OpenSlots, NewRecord
    <3> QED
      BY <3>1, InitInv, InitTotalled, InitReports
  <2>2. /\ IInv /\ BooksTotalled /\ IndexInOrder /\ QuantitiesInOrder /\ [Next]_vars
        => (IInv /\ BooksTotalled /\ IndexInOrder /\ QuantitiesInOrder)'
    BY NextInv, NextTotalled, NextIndexed, NextQuantities
  <2> QED
    BY <2>1, <2>2, PTL DEF Spec
<1>4. Spec => []MInv
  BY MatchingInvariant, SpecIsFaultSpec, PTL
<1>5. Init => FokCovered
  BY DEF Init, FokCovered
<1>6. KInv /\ [Next]_vars => FokCovered'
  BY NextCovered
<1>7. MInv /\ BooksTotalled /\ FokCovered => KInv
  BY DEF KInv
<1>8. Spec => []KInv
  BY <1>3, <1>4, <1>5, <1>6, <1>7, PTL DEF Spec
<1>9. KInv /\ IndexInOrder /\ QuantitiesInOrder => RefInv
  BY DEF RefInv
<1>10. Spec => []RefInv
  BY <1>3, <1>8, <1>9, PTL
<1> QED
  BY <1>1, <1>2, <1>3, <1>10, PTL DEF Spec, ImplementsExchange, Promised!Spec

=============================================================================
