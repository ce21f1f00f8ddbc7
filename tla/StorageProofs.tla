----------------------------- MODULE StorageProofs -----------------------------
(***************************************************************************)
(* The id index and the order pool keep what is put into them, however     *)
(* keys collide and whatever is rehashed: OrderStorage implements          *)
(* OrderStore.  Three facts carry the argument.  A key lies where its own  *)
(* probe finds it, every slot the probe passes before being taken by       *)
(* another key (WellPlaced).  A table always has a free slot, so a probe   *)
(* ends.  And placing the entries of one array in another, one by one,     *)
(* keeps both of these and loses none.                                     *)
(***************************************************************************)
EXTENDS OrderStorage, DataProofs

-----------------------------------------------------------------------------
(***************************************************************************)
(* bit_ceil.  A recursive function is a CHOOSE: some function has to       *)
(* satisfy its equation before anything follows from it.                   *)
(***************************************************************************)
CeilsTo(f, n) ==
  \A k \in 0 .. n : f[k] = IF k <= 1 THEN 1 ELSE 2 * f[(k + 1) \div 2]

LEMMA Halves ==
  ASSUME NEW k \in Nat, k > 1
  PROVE  (k + 1) \div 2 \in 1 .. k - 1 /\ 2 * ((k + 1) \div 2) >= k
OBVIOUS

LEMMA CeilsExist == \A n \in Nat : \E f : CeilsTo(f, n)
<1> DEFINE S == {n \in Nat : \E f : CeilsTo(f, n)}
<1>1. 0 \in S
  <2>1. CeilsTo([k \in {0} |-> 1], 0)
    BY DEF CeilsTo
  <2> QED
    BY <2>1
<1>2. ASSUME NEW n \in Nat, n \in S PROVE n + 1 \in S
  <2>1. PICK f : CeilsTo(f, n)
    BY <1>2
  <2> DEFINE g == [k \in 0 .. n + 1 |->
                     IF k <= n THEN f[k] ELSE IF k <= 1 THEN 1 ELSE 2 * f[(k + 1) \div 2]]
  <2>2. ASSUME NEW k \in 0 .. n + 1
        PROVE  g[k] = IF k <= 1 THEN 1 ELSE 2 * g[(k + 1) \div 2]
    <3>1. g[k] = IF k <= 1 THEN 1 ELSE 2 * f[(k + 1) \div 2]
      BY <2>1 DEF CeilsTo
    <3>2. k > 1 => g[(k + 1) \div 2] = f[(k + 1) \div 2]
      <4>1. k > 1 => (k + 1) \div 2 \in 0 .. n
        BY Halves
      <4> QED
        BY <4>1
    <3> QED
      BY <3>1, <3>2
  <2>3. CeilsTo(g, n + 1)
    BY <2>2 DEF CeilsTo
  <2> QED
    BY <2>3
<1> HIDE DEF S
<1>3. \A n \in Nat : n \in S
  BY <1>1, <1>2, Induction
<1> QED
  BY <1>3 DEF S

LEMMA CeilsUnique ==
  ASSUME NEW f, NEW g, NEW n \in Nat, NEW m \in Nat, CeilsTo(f, n), CeilsTo(g, m),
         NEW k \in Nat, k <= n, k <= m
  PROVE  f[k] = g[k]
<1> DEFINE T == {j \in Nat : j <= n /\ j <= m /\ f[j] # g[j]}
<1>1. ASSUME T # {} PROVE FALSE
  <2>1. PICK j \in T : \A i \in T : j <= i
    <3> HIDE DEF T
    <3>1. T \subseteq Nat
      BY DEF T
    <3> QED
      BY <1>1, <3>1, LeastNumber
  <2>2. f[j] = IF j <= 1 THEN 1 ELSE 2 * f[(j + 1) \div 2]
    BY DEF CeilsTo
  <2>3. g[j] = IF j <= 1 THEN 1 ELSE 2 * g[(j + 1) \div 2]
    BY DEF CeilsTo
  <2>4. j > 1
    BY <2>2, <2>3
  <2>5. (j + 1) \div 2 \in 1 .. j - 1
    BY <2>4, Halves
  <2>6. f[(j + 1) \div 2] = g[(j + 1) \div 2]
    BY <2>1, <2>5
  <2> QED
    BY <2>2, <2>3, <2>6
<1> QED
  BY <1>1

LEMMA BitCeil ==
  \A n \in Nat : bit_ceil[n] = IF n <= 1 THEN 1 ELSE 2 * bit_ceil[(n + 1) \div 2]
<1> DEFINE upto(n) == CHOOSE f : CeilsTo(f, n)
           g == [n \in Nat |-> upto(n)[n]]
<1>1. \A n \in Nat : CeilsTo(upto(n), n)
  BY CeilsExist
<1>2. ASSUME NEW n \in Nat PROVE g[n] = IF n <= 1 THEN 1 ELSE 2 * g[(n + 1) \div 2]
  <2> DEFINE m == (n + 1) \div 2
  <2>1. upto(n)[n] = IF n <= 1 THEN 1 ELSE 2 * upto(n)[m]
    BY <1>1 DEF CeilsTo
  <2>2. n > 1 => upto(n)[m] = upto(m)[m]
    <3>1. ASSUME n > 1 PROVE m \in Nat /\ m <= n
      BY <3>1, Halves
    <3> HIDE DEF upto, m
    <3>2. ASSUME n > 1 PROVE upto(n)[m] = upto(m)[m]
      BY <1>1, <3>1, <3>2, CeilsUnique
    <3> QED
      BY <3>2
  <2>3. n > 1 => m \in Nat
    BY Halves
  <2> QED
    BY <2>1, <2>2, <2>3
<1>3. g = [n \in Nat |-> IF n <= 1 THEN 1 ELSE 2 * g[(n + 1) \div 2]]
  <2>1. g = [n \in Nat |-> g[n]]
    OBVIOUS
  <2> HIDE DEF g
  <2> QED
    BY <1>2, <2>1
<1>4. bit_ceil = [n \in Nat |-> IF n <= 1 THEN 1 ELSE 2 * bit_ceil[(n + 1) \div 2]]
  <2> HIDE DEF g
  <2> QED
    BY <1>3 DEF bit_ceil
<1> QED
  BY <1>4

\* bit_ceil reaches what it is asked for,
LEMMA BitCeilReaches ==
  ASSUME NEW n \in Nat PROVE bit_ceil[n] \in Nat \ {0} /\ bit_ceil[n] >= n
<1> DEFINE T == {k \in Nat : ~(bit_ceil[k] \in Nat \ {0} /\ bit_ceil[k] >= k)}
<1>1. ASSUME T # {} PROVE FALSE
  <2>1. PICK k \in T : \A j \in T : k <= j
    <3>1. T \subseteq Nat
      OBVIOUS
    <3> HIDE DEF T
    <3> QED
      BY <1>1, <3>1, LeastNumber
  <2>2. k > 1
    BY BitCeil
  <2> DEFINE m == (k + 1) \div 2
  <2>3. m \in 1 .. k - 1 /\ 2 * m >= k
    BY <2>2, Halves
  <2>4. bit_ceil[m] \in Nat \ {0} /\ bit_ceil[m] >= m
    BY <2>1, <2>3
  <2>5. bit_ceil[k] = 2 * bit_ceil[m]
    BY <2>2, BitCeil
  <2>6. k \in Nat /\ ~(bit_ceil[k] \in Nat \ {0} /\ bit_ceil[k] >= k)
    OBVIOUS
  <2> HIDE DEF m, T
  <2> QED
    BY <2>3, <2>4, <2>5, <2>6
<1> QED
  BY <1>1

\* and is a power of two, as is twice a power of two.
IsPower(c) == c \in Nat \ {0} /\ bit_ceil[c] = c

LEMMA PowerDoubled ==
  ASSUME NEW c, IsPower(c) PROVE IsPower(2 * c)
<1>1. c \in Nat \ {0} /\ bit_ceil[c] = c
  BY DEF IsPower
<1>2. (2 * c + 1) \div 2 = c /\ 2 * c \in Nat /\ 2 * c > 1
  BY <1>1
<1>3. bit_ceil[2 * c] = 2 * bit_ceil[(2 * c + 1) \div 2]
  BY <1>2, BitCeil
<1> QED
  BY <1>1, <1>2, <1>3 DEF IsPower

LEMMA BitCeilIsPower ==
  ASSUME NEW n \in Nat PROVE IsPower(bit_ceil[n])
<1> DEFINE T == {k \in Nat : ~IsPower(bit_ceil[k])}
<1>1. ASSUME T # {} PROVE FALSE
  <2>1. PICK k \in T : \A j \in T : k <= j
    <3>1. T \subseteq Nat
      OBVIOUS
    <3> HIDE DEF T
    <3> QED
      BY <1>1, <3>1, LeastNumber
  <2>2. k > 1
    <3>1. IsPower(1)
      BY BitCeil DEF IsPower
    <3> QED
      BY <3>1, BitCeil
  <2> DEFINE m == (k + 1) \div 2
  <2>3. m \in 1 .. k - 1
    BY <2>2, Halves
  <2>4. IsPower(bit_ceil[m])
    BY <2>1, <2>3
  <2>5. bit_ceil[k] = 2 * bit_ceil[m]
    BY <2>2, BitCeil
  <2> QED
    BY <2>4, <2>5, PowerDoubled
<1> QED
  BY <1>1

-----------------------------------------------------------------------------
(***************************************************************************)
(* Probing.                                                                *)
(***************************************************************************)
IsTable(slots, cap) ==
  cap \in Nat \ {0} /\ slots \in [0 .. cap - 1 -> Entry \cup {kEmpty}]

\* The slot a probe for a key of this hash passes first, second, ...
Passes(hash, cap, d) == (hash + d) % cap

\* A key's own probe gets to its slot, over slots that are taken.
WellPlaced(slots, hash, cap) ==
  /\ IsTable(slots, cap)
  /\ \A x \in 0 .. cap - 1 : slots[x] # kEmpty =>
       \E d \in 0 .. cap - 1 :
         /\ x = Passes(hash[slots[x].key], cap, d)
         /\ \A j \in 0 .. d - 1 : slots[Passes(hash[slots[x].key], cap, j)] # kEmpty
  /\ \A x, y \in 0 .. cap - 1 :
       slots[x] # kEmpty /\ slots[y] # kEmpty /\ slots[x].key = slots[y].key => x = y

Present(slots, k) == \E x \in DOMAIN slots : slots[x] # kEmpty /\ slots[x].key = k

HasRoom(slots) == \E x \in DOMAIN slots : slots[x] = kEmpty

\* The map as a relation.
Holds(slots, k, v) == \E x \in DOMAIN slots : slots[x] = [key |-> k, value |-> v]

LEMMA EntryFacts ==
  /\ \A e \in Entry : e # kEmpty /\ e.key \in Keys /\ e.value \in Nat
                      /\ e = [key |-> e.key, value |-> e.value]
  /\ \A k \in Keys, v \in Nat : /\ [key |-> k, value |-> v] \in Entry
                                /\ [key |-> k, value |-> v] # kEmpty
BY MapAssumption DEF Entry

LEMMA TableFacts ==
  ASSUME NEW slots, NEW cap, IsTable(slots, cap)
  PROVE  /\ DOMAIN slots = 0 .. cap - 1 /\ capacity(slots) = cap
         /\ IsFiniteSet(Occupied(slots)) /\ size(slots) \in Nat /\ size(slots) <= cap
         /\ size(slots) < cap => HasRoom(slots)
         /\ \A x \in 0 .. cap - 1 : slots[x] # kEmpty => slots[x] \in Entry
<1>1. DOMAIN slots = 0 .. cap - 1 /\ cap \in Nat \ {0}
  BY DEF IsTable
<1>2. IsFiniteSet(0 .. cap - 1) /\ Cardinality(0 .. cap - 1) = cap
  BY <1>1, FS_Interval
<1>3. Occupied(slots) \subseteq 0 .. cap - 1
  BY <1>1 DEF Occupied
<1>4. IsFiniteSet(Occupied(slots)) /\ size(slots) \in Nat /\ size(slots) <= cap
  BY <1>2, <1>3, FS_Subset, FS_CardinalityType DEF size
<1>5. ASSUME size(slots) < cap PROVE HasRoom(slots)
  <2>1. Occupied(slots) # 0 .. cap - 1
    BY <1>1, <1>2, <1>5 DEF size
  <2> QED
    BY <1>1, <1>3, <2>1 DEF Occupied, HasRoom
<1> QED
  BY <1>1, <1>2, <1>4, <1>5 DEF capacity, IsTable

LEMMA PassesTyped ==
  ASSUME NEW h \in Nat, NEW cap \in Nat \ {0}, NEW d \in Nat
  PROVE  Passes(h, cap, d) \in 0 .. cap - 1
BY Divided DEF Passes

\* A key that is there is found where it is,
LEMMA ProbeFindsKey ==
  ASSUME NEW hash \in [Keys -> Nat], NEW slots, NEW cap, WellPlaced(slots, hash, cap),
         NEW x \in 0 .. cap - 1, slots[x] # kEmpty
  PROVE  /\ Probe(slots, hash[slots[x].key], slots[x].key) = x
         /\ ProbeEnds(slots, hash[slots[x].key], slots[x].key) # {}
<1> DEFINE k    == slots[x].key
           h    == hash[k]
           ends == ProbeEnds(slots, h, k)
<1>1. /\ IsTable(slots, cap) /\ capacity(slots) = cap /\ cap \in Nat \ {0}
      /\ slots[x] \in Entry
  BY TableFacts DEF WellPlaced, IsTable
<1>2. k \in Keys /\ h \in Nat
  BY <1>1, EntryFacts
<1>3. PICK d \in 0 .. cap - 1 :
        x = Passes(h, cap, d) /\ \A j \in 0 .. d - 1 : slots[Passes(h, cap, j)] # kEmpty
  BY DEF WellPlaced
<1>4. ends = {j \in 0 .. cap - 1 : slots[Passes(h, cap, j)] = kEmpty
                                     \/ slots[Passes(h, cap, j)].key = k}
  BY <1>1 DEF ProbeEnds, Probed, Passes
<1>5. d \in ends
  BY <1>3, <1>4
<1>6. ASSUME NEW j \in 0 .. d - 1 PROVE j \notin ends
  <2>1. j \in 0 .. cap - 1 /\ j # d
    BY <1>1, <1>3
  <2>2. slots[Passes(h, cap, j)] # kEmpty
    BY <1>3
  <2>3. Passes(h, cap, j) \in 0 .. cap - 1
    <3>1. h \in Nat /\ j \in Nat
      BY <1>2, <2>1
    <3> HIDE DEF h
    <3> QED
      BY <1>1, <3>1, PassesTyped
  <2>4. Passes(h, cap, j) # x
    <3> HIDE DEF h
    <3> QED
      BY <1>1, <1>2, <1>3, <2>1, RoundDiffers DEF Passes
  <2>5. slots[Passes(h, cap, j)].key # k
    BY <2>2, <2>3, <2>4 DEF WellPlaced
  <2> QED
    BY <1>4, <2>2, <2>5
<1> HIDE DEF ends
<1>7. Min(ends) = d
  <2>1. ends \subseteq Nat /\ ends # {}
    BY <1>4, <1>5
  <2>2. Min(ends) \in ends /\ Min(ends) <= d
    BY <1>5, <2>1, MinOf
  <2>3. Min(ends) \in Nat /\ Min(ends) \notin 0 .. d - 1
    BY <1>6, <2>1, <2>2
  <2>4. d \in Nat
    BY <1>1
  <2> QED
    BY <2>2, <2>3, <2>4
<1>8. Probed(slots, h, d) = x
  BY <1>1, <1>3 DEF Probed, Passes
<1> QED
  BY <1>5, <1>7, <1>8 DEF Probe, ends

\* and one that is not is sent to the first free slot of its probe.
LEMMA ProbeFindsRoom ==
  ASSUME NEW hash \in [Keys -> Nat], NEW slots, NEW cap, WellPlaced(slots, hash, cap),
         HasRoom(slots), NEW k \in Keys, ~Present(slots, k)
  PROVE  /\ ProbeEnds(slots, hash[k], k) # {}
         /\ Probe(slots, hash[k], k) \in 0 .. cap - 1
         /\ slots[Probe(slots, hash[k], k)] = kEmpty
         /\ \E d \in 0 .. cap - 1 :
              /\ Probe(slots, hash[k], k) = Passes(hash[k], cap, d)
              /\ \A j \in 0 .. d - 1 : slots[Passes(hash[k], cap, j)] # kEmpty
<1> DEFINE h    == hash[k]
           ends == ProbeEnds(slots, h, k)
           d    == Min(ends)
<1>1. /\ IsTable(slots, cap) /\ capacity(slots) = cap /\ cap \in Nat \ {0}
      /\ DOMAIN slots = 0 .. cap - 1 /\ h \in Nat
  BY TableFacts DEF WellPlaced, IsTable
<1>2. ends = {j \in 0 .. cap - 1 : slots[Passes(h, cap, j)] = kEmpty
                                     \/ slots[Passes(h, cap, j)].key = k}
  BY <1>1 DEF ProbeEnds, Probed, Passes
<1>3. ends # {}
  <2>1. PICK x \in 0 .. cap - 1 : slots[x] = kEmpty
    BY <1>1 DEF HasRoom
  <2>2. PICK j \in 0 .. cap - 1 : (h + j) % cap = x
    <3>1. h \in Int
      BY <1>1
    <3> HIDE DEF h
    <3> QED
      BY <1>1, <3>1, RoundReaches
  <2> QED
    BY <1>2, <2>1, <2>2 DEF Passes
<1>4. d \in ends /\ \A j \in ends : d <= j
  <2>1. ends \subseteq Nat
    BY <1>2
  <2> HIDE DEF ends
  <2> QED
    BY <1>3, <2>1, MinOf
<1>5. d \in 0 .. cap - 1
  BY <1>2, <1>4
<1>6. Passes(h, cap, d) \in 0 .. cap - 1
  BY SMTT(30), <1>1, <1>5, PassesTyped
<1>7. slots[Passes(h, cap, d)] = kEmpty
  BY <1>1, <1>2, <1>4, <1>6 DEF Present
<1>8. \A j \in 0 .. d - 1 : slots[Passes(h, cap, j)] # kEmpty
  <2>1. \A j \in 0 .. d - 1 : j \in 0 .. cap - 1 /\ ~(d <= j)
    <3> HIDE DEF d
    <3> QED
      BY <1>1, <1>5
  <2> QED
    BY <1>2, <1>4, <2>1
<1>9. Probe(slots, h, k) = Passes(h, cap, d)
  BY <1>1, <1>3 DEF Probe, Probed, Passes
<1> HIDE DEF d
<1> QED
  BY <1>3, <1>5, <1>6, <1>7, <1>8, <1>9

\* So contains and find say what the table holds.
LEMMA LookupIs ==
  ASSUME NEW hash \in [Keys -> Nat], NEW slots, NEW cap, WellPlaced(slots, hash, cap),
         HasRoom(slots), NEW k \in Keys
  PROVE  /\ ProbeEnds(slots, hash[k], k) # {}
         /\ contains(slots, hash, k) <=> Present(slots, k)
         /\ \A v \in Nat : Holds(slots, k, v) =>
              contains(slots, hash, k) /\ find(slots, hash, k) = v
<1>1. /\ IsTable(slots, cap) /\ DOMAIN slots = 0 .. cap - 1 /\ cap \in Nat
  BY TableFacts DEF WellPlaced, IsTable
<1>2. ASSUME NEW x \in 0 .. cap - 1, slots[x] # kEmpty, slots[x].key = k
      PROVE  /\ ProbeEnds(slots, hash[k], k) # {} /\ contains(slots, hash, k)
             /\ find(slots, hash, k) = slots[x].value
  BY <1>1, <1>2, ProbeFindsKey DEF contains, find
<1>3. ASSUME ~Present(slots, k)
      PROVE  ProbeEnds(slots, hash[k], k) # {} /\ ~contains(slots, hash, k)
  BY <1>3, ProbeFindsRoom DEF contains
<1>4. ASSUME NEW v \in Nat, Holds(slots, k, v)
      PROVE  contains(slots, hash, k) /\ find(slots, hash, k) = v
  <2>1. PICK x \in 0 .. cap - 1 : slots[x] = [key |-> k, value |-> v]
    BY <1>1, <1>4 DEF Holds
  <2>2. slots[x] # kEmpty /\ slots[x].key = k /\ slots[x].value = v
    BY <2>1, EntryFacts
  <2> QED
    BY <1>2, <2>2
<1> QED
  BY <1>1, <1>2, <1>3, <1>4 DEF Present

-----------------------------------------------------------------------------
(***************************************************************************)
(* place, assign_existing and rehash.                                      *)
(***************************************************************************)
\* A free slot takes an entry.
LEMMA PlaceKeeps ==
  ASSUME NEW hash \in [Keys -> Nat], NEW slots, NEW cap, WellPlaced(slots, hash, cap),
         HasRoom(slots), NEW k \in Keys, NEW v \in Nat, ~Present(slots, k)
  PROVE  /\ WellPlaced(place(slots, hash, k, v), hash, cap)
         /\ \E x \in 0 .. cap - 1 :
              /\ slots[x] = kEmpty
              /\ place(slots, hash, k, v) = [slots EXCEPT ![x] = [key |-> k, value |-> v]]
<1> DEFINE x  == Probe(slots, hash[k], k)
           e  == [key |-> k, value |-> v]
           s2 == [slots EXCEPT ![x] = e]
<1>1. /\ IsTable(slots, cap) /\ DOMAIN slots = 0 .. cap - 1 /\ cap \in Nat \ {0}
      /\ slots \in [0 .. cap - 1 -> Entry \cup {kEmpty}]
  BY TableFacts DEF WellPlaced, IsTable
<1>2. /\ x \in 0 .. cap - 1 /\ slots[x] = kEmpty
      /\ \E d \in 0 .. cap - 1 :
           /\ x = Passes(hash[k], cap, d)
           /\ \A j \in 0 .. d - 1 : slots[Passes(hash[k], cap, j)] # kEmpty
  BY ProbeFindsRoom
<1>3. e \in Entry /\ e # kEmpty /\ e.key = k
  BY EntryFacts
<1>4. place(slots, hash, k, v) = s2
  BY DEF place
<1> HIDE DEF x, e
<1>5. /\ s2 \in [0 .. cap - 1 -> Entry \cup {kEmpty}]
      /\ s2[x] = e /\ \A y \in 0 .. cap - 1 : y # x => s2[y] = slots[y]
      /\ \A y : slots[y] # kEmpty /\ y \in 0 .. cap - 1 => s2[y] # kEmpty
  BY <1>1, <1>2, <1>3
<1> HIDE DEF s2
<1>6. ASSUME NEW y \in 0 .. cap - 1, s2[y] # kEmpty
      PROVE  \E d \in 0 .. cap - 1 :
               /\ y = Passes(hash[s2[y].key], cap, d)
               /\ \A j \in 0 .. d - 1 : s2[Passes(hash[s2[y].key], cap, j)] # kEmpty
  <2>1. PICK d \in 0 .. cap - 1 :
          /\ y = Passes(hash[s2[y].key], cap, d)
          /\ \A j \in 0 .. d - 1 : slots[Passes(hash[s2[y].key], cap, j)] # kEmpty
    <3>1. CASE y = x
      BY <1>2, <1>3, <1>5, <3>1
    <3>2. CASE y # x
      BY <1>5, <1>6, <3>2 DEF WellPlaced
    <3> QED
      BY <3>1, <3>2
  <2>2. hash[s2[y].key] \in Nat
    BY <1>5, <1>6, EntryFacts
  <2>3. ASSUME NEW j \in 0 .. d - 1 PROVE s2[Passes(hash[s2[y].key], cap, j)] # kEmpty
    <3>1. j \in Nat
      BY <1>1, <2>1
    <3>2. Passes(hash[s2[y].key], cap, j) \in 0 .. cap - 1
      BY <1>1, <2>2, <3>1, PassesTyped
    <3> QED
      BY <1>5, <2>1, <3>2
  <2> QED
    BY <2>1, <2>3
<1>7. ASSUME NEW y \in 0 .. cap - 1, NEW z \in 0 .. cap - 1, s2[y] # kEmpty, s2[z] # kEmpty,
             s2[y].key = s2[z].key
      PROVE  y = z
  <2>1. \A w \in 0 .. cap - 1 : w # x /\ s2[w] # kEmpty => slots[w] # kEmpty /\ s2[w].key # k
    BY <1>1, <1>5 DEF Present
  <2> QED
    BY <1>3, <1>5, <1>7, <2>1 DEF WellPlaced
<1>8. WellPlaced(s2, hash, cap)
  BY <1>1, <1>5, <1>6, <1>7 DEF WellPlaced, IsTable
<1> QED
  BY <1>2, <1>4, <1>8 DEF s2, e

\* One entry more.
LEMMA PlaceAdds ==
  ASSUME NEW slots, NEW cap, IsTable(slots, cap), NEW x \in 0 .. cap - 1, slots[x] = kEmpty,
         NEW k \in Keys, NEW v \in Nat,
         NEW s2, s2 = [slots EXCEPT ![x] = [key |-> k, value |-> v]]
  PROVE  /\ size(s2) = size(slots) + 1
         /\ \A l \in Keys, w \in Nat :
              Holds(s2, l, w) <=> Holds(slots, l, w) \/ (l = k /\ w = v)
         /\ \A l : Present(s2, l) <=> Present(slots, l) \/ l = k
<1> DEFINE e == [key |-> k, value |-> v]
<1>1. /\ DOMAIN slots = 0 .. cap - 1 /\ IsFiniteSet(Occupied(slots)) /\ size(slots) \in Nat
  BY TableFacts
<1>2. e # kEmpty /\ e.key = k /\ (\A l, w : e = [key |-> l, value |-> w] <=> l = k /\ w = v)
  BY EntryFacts
<1>3. DOMAIN s2 = 0 .. cap - 1 /\ s2[x] = e /\ \A y \in (0 .. cap - 1) \ {x} : s2[y] = slots[y]
  BY <1>1
<1> HIDE DEF e
<1>4. Occupied(s2) = Occupied(slots) \cup {x} /\ x \notin Occupied(slots)
  BY <1>1, <1>2, <1>3 DEF Occupied
<1>5. size(s2) = size(slots) + 1
  BY <1>1, <1>4, FS_AddElement DEF size
<1>6. ASSUME NEW l \in Keys, NEW w \in Nat
      PROVE  Holds(s2, l, w) <=> Holds(slots, l, w) \/ (l = k /\ w = v)
  <2>1. slots[x] # [key |-> l, value |-> w]
    BY EntryFacts
  <2> QED
    BY <1>1, <1>2, <1>3, <2>1 DEF Holds
<1>7. \A l : Present(s2, l) <=> Present(slots, l) \/ l = k
  BY <1>1, <1>2, <1>3 DEF Present
<1> QED
  BY <1>5, <1>6, <1>7

\* The two together.
PlacedIn(slots, s2, hash, cap, k, v) ==
  /\ WellPlaced(s2, hash, cap)
  /\ size(s2) = size(slots) + 1
  /\ \A l \in Keys, w \in Nat : Holds(s2, l, w) <=> Holds(slots, l, w) \/ (l = k /\ w = v)
  /\ \A l : Present(s2, l) <=> Present(slots, l) \/ l = k

LEMMA PlaceEffect ==
  ASSUME NEW hash \in [Keys -> Nat], NEW slots, NEW cap, WellPlaced(slots, hash, cap),
         HasRoom(slots), NEW k \in Keys, NEW v \in Nat, ~Present(slots, k),
         NEW s2, s2 = place(slots, hash, k, v)
  PROVE  PlacedIn(slots, s2, hash, cap, k, v)
<1>1. PICK x \in 0 .. cap - 1 :
        slots[x] = kEmpty /\ s2 = [slots EXCEPT ![x] = [key |-> k, value |-> v]]
  BY PlaceKeeps
<1>2. WellPlaced(s2, hash, cap)
  BY PlaceKeeps
<1>3. IsTable(slots, cap)
  BY DEF WellPlaced
<1>4. /\ size(s2) = size(slots) + 1
      /\ \A l \in Keys, w \in Nat :
           Holds(s2, l, w) <=> Holds(slots, l, w) \/ (l = k /\ w = v)
      /\ \A l : Present(s2, l) <=> Present(slots, l) \/ l = k
  BY ZenonT(40), <1>1, <1>3, PlaceAdds
<1> QED
  BY <1>2, <1>4 DEF PlacedIn

\* A key that is there gets another value.
LEMMA AssignKeeps ==
  ASSUME NEW hash \in [Keys -> Nat], NEW slots, NEW cap, WellPlaced(slots, hash, cap),
         NEW k \in Keys, NEW v \in Nat, Present(slots, k),
         NEW s2, s2 = assign_existing(slots, hash, k, v)
  PROVE  /\ WellPlaced(s2, hash, cap) /\ size(s2) = size(slots)
         /\ \A l \in Keys, w \in Nat :
              Holds(s2, l, w) <=> IF l = k THEN w = v ELSE Holds(slots, l, w)
<1>1. /\ IsTable(slots, cap) /\ DOMAIN slots = 0 .. cap - 1 /\ cap \in Nat \ {0}
      /\ slots \in [0 .. cap - 1 -> Entry \cup {kEmpty}]
      /\ \A y \in 0 .. cap - 1 : slots[y] # kEmpty => slots[y] \in Entry
  BY TableFacts DEF WellPlaced, IsTable
<1>2. PICK x \in 0 .. cap - 1 : slots[x] # kEmpty /\ slots[x].key = k
  BY <1>1 DEF Present
<1>3. Probe(slots, hash[k], k) = x
  BY <1>2, ProbeFindsKey
<1>4. s2 = [slots EXCEPT ![x].value = v]
  BY <1>3 DEF assign_existing
<1> DEFINE e == [key |-> k, value |-> v]
<1>5. [slots[x] EXCEPT !.value = v] = e
  BY <1>1, <1>2 DEF Entry
<1>6. /\ e \in Entry /\ e # kEmpty /\ e.key = k /\ e.value = v
      /\ \A l, w : e = [key |-> l, value |-> w] <=> l = k /\ w = v
  BY EntryFacts
<1>7. s2 = [slots EXCEPT ![x] = e]
  BY <1>4, <1>5
<1> HIDE DEF e
<1>8. /\ s2 \in [0 .. cap - 1 -> Entry \cup {kEmpty}]
      /\ s2[x] = e /\ \A y \in (0 .. cap - 1) \ {x} : s2[y] = slots[y]
      /\ DOMAIN s2 = 0 .. cap - 1
  BY <1>1, <1>6, <1>7
<1>9. \A y \in 0 .. cap - 1 : /\ s2[y] # kEmpty <=> slots[y] # kEmpty
                              /\ slots[y] # kEmpty => s2[y].key = slots[y].key
  BY <1>2, <1>6, <1>8
<1>10. ASSUME NEW y \in 0 .. cap - 1, s2[y] # kEmpty
       PROVE  \E d \in 0 .. cap - 1 :
                /\ y = Passes(hash[s2[y].key], cap, d)
                /\ \A j \in 0 .. d - 1 : s2[Passes(hash[s2[y].key], cap, j)] # kEmpty
  <2>1. PICK d \in 0 .. cap - 1 :
          /\ y = Passes(hash[s2[y].key], cap, d)
          /\ \A j \in 0 .. d - 1 : slots[Passes(hash[s2[y].key], cap, j)] # kEmpty
    BY <1>9, <1>10 DEF WellPlaced
  <2>2. hash[s2[y].key] \in Nat
    BY <1>8, <1>10, EntryFacts
  <2>3. ASSUME NEW j \in 0 .. d - 1 PROVE s2[Passes(hash[s2[y].key], cap, j)] # kEmpty
    <3>1. j \in Nat
      BY <1>1, <2>1
    <3>2. Passes(hash[s2[y].key], cap, j) \in 0 .. cap - 1
      BY <1>1, <2>2, <3>1, PassesTyped
    <3> QED
      BY <1>9, <2>1, <3>2
  <2> QED
    BY <2>1, <2>3
<1>11. WellPlaced(s2, hash, cap)
  <2>1. IsTable(s2, cap)
    BY <1>1, <1>8 DEF IsTable
  <2>2. \A y, z \in 0 .. cap - 1 :
          s2[y] # kEmpty /\ s2[z] # kEmpty /\ s2[y].key = s2[z].key => y = z
    BY <1>9 DEF WellPlaced
  <2> QED
    BY <1>10, <2>1, <2>2 DEF WellPlaced
<1>12. Occupied(s2) = Occupied(slots)
  BY <1>1, <1>8, <1>9 DEF Occupied
<1>13. ASSUME NEW l \in Keys, NEW w \in Nat
       PROVE  Holds(s2, l, w) <=> IF l = k THEN w = v ELSE Holds(slots, l, w)
  <2>1. CASE l = k
    <3>1. \A y \in 0 .. cap - 1 : s2[y] = [key |-> l, value |-> w] => y = x
      <4>1. \A y \in 0 .. cap - 1 : s2[y] = [key |-> l, value |-> w] =>
              slots[y] # kEmpty /\ slots[y].key = k
        BY <1>9, <2>1, EntryFacts
      <4> QED
        BY <1>2, <4>1 DEF WellPlaced
    <3>2. Holds(s2, l, w) <=> s2[x] = [key |-> l, value |-> w]
      BY <1>8, <3>1 DEF Holds
    <3>3. s2[x] = [key |-> l, value |-> w] <=> w = v
      BY SMTT(30), <1>6, <1>8, <2>1
    <3> QED
      BY <2>1, <3>2, <3>3
  <2>2. CASE l # k
    <3>1. slots[x] # [key |-> l, value |-> w] /\ e # [key |-> l, value |-> w]
      BY <1>2, <1>6, <2>2
    <3>2. \A y \in 0 .. cap - 1 :
            s2[y] = [key |-> l, value |-> w] <=> slots[y] = [key |-> l, value |-> w]
      BY <1>8, <3>1
    <3>3. Holds(s2, l, w) <=> Holds(slots, l, w)
      BY <1>1, <1>8, <3>2 DEF Holds
    <3> QED
      BY <2>2, <3>3
  <2> QED
    BY <2>1, <2>2
<1> QED
  BY <1>11, <1>12, <1>13 DEF size

\* The entries of the old array are placed one after the other.
Placings(f, slots, hash, cap, last) ==
  f = [n \in 0 .. last |->
         IF n = 0 THEN Vacant(cap)
         ELSE IF slots[n - 1] = kEmpty THEN f[n - 1]
         ELSE place(f[n - 1], hash, slots[n - 1].key, slots[n - 1].value)]

LEMMA PlacingsExist ==
  ASSUME NEW slots, NEW hash, NEW cap
  PROVE  \A last \in Nat : \E f : Placings(f, slots, hash, cap, last)
<1> DEFINE S == {n \in Nat : \E f : Placings(f, slots, hash, cap, n)}
           next(n, m) == IF slots[n - 1] = kEmpty THEN m
                         ELSE place(m, hash, slots[n - 1].key, slots[n - 1].value)
<1>1. 0 \in S
  <2>1. Placings([n \in 0 .. 0 |-> Vacant(cap)], slots, hash, cap, 0)
    BY DEF Placings
  <2> QED
    BY <2>1
<1>2. ASSUME NEW last \in Nat, last \in S PROVE last + 1 \in S
  <2>1. PICK f : Placings(f, slots, hash, cap, last)
    BY <1>2
  <2> DEFINE g == [n \in 0 .. last + 1 |-> IF n <= last THEN f[n] ELSE next(n, f[n - 1])]
  <2>2. f = [n \in 0 .. last |-> IF n = 0 THEN Vacant(cap) ELSE next(n, f[n - 1])]
    BY <2>1 DEF Placings
  <2> HIDE DEF next
  <2>3. ASSUME NEW n \in 0 .. last + 1
        PROVE  g[n] = IF n = 0 THEN Vacant(cap) ELSE next(n, g[n - 1])
    <3>1. CASE n <= last
      <4>1. f[n] = IF n = 0 THEN Vacant(cap) ELSE next(n, f[n - 1])
        BY <2>2, <3>1
      <4>2. g[n] = f[n] /\ (n # 0 => g[n - 1] = f[n - 1])
        BY <3>1
      <4> QED
        BY <4>1, <4>2
    <3>2. CASE n = last + 1
      BY <3>2
    <3> QED
      BY <3>1, <3>2
  <2>4. g = [n \in 0 .. last + 1 |-> IF n = 0 THEN Vacant(cap) ELSE next(n, g[n - 1])]
    <3>1. g = [n \in 0 .. last + 1 |-> g[n]]
      OBVIOUS
    <3> HIDE DEF g
    <3> QED
      BY <2>3, <3>1
  <2>5. Placings(g, slots, hash, cap, last + 1)
    <3> HIDE DEF g
    <3> QED
      BY <2>4 DEF Placings, next
  <2> QED
    BY <2>5
<1> HIDE DEF S
<1>3. \A n \in Nat : n \in S
  BY <1>1, <1>2, Induction
<1> QED
  BY <1>3 DEF S

LEMMA ReplacedIs ==
  ASSUME NEW slots, NEW hash, NEW cap, capacity(slots) \in Nat
  PROVE  \E f : /\ Placings(f, slots, hash, cap, capacity(slots))
                /\ Replaced(slots, hash, cap) = f[capacity(slots)]
<1>1. Replaced(slots, hash, cap) =
        (CHOOSE f : Placings(f, slots, hash, cap, capacity(slots)))[capacity(slots)]
  BY DEF Replaced, Placings
<1> QED
  BY <1>1, PlacingsExist

\* Placing every entry anew in a table that is large enough loses none.
LEMMA ReplacedKeeps ==
  ASSUME NEW hash \in [Keys -> Nat], NEW slots, NEW old, WellPlaced(slots, hash, old),
         NEW cap \in Nat \ {0}, size(slots) <= cap,
         NEW s2, s2 = Replaced(slots, hash, cap)
  PROVE  /\ WellPlaced(s2, hash, cap) /\ size(s2) = size(slots)
         /\ \A l \in Keys, w \in Nat : Holds(s2, l, w) <=> Holds(slots, l, w)
<1>1. /\ IsTable(slots, old) /\ DOMAIN slots = 0 .. old - 1 /\ old \in Nat \ {0}
      /\ capacity(slots) = old
      /\ \A y \in 0 .. old - 1 : slots[y] # kEmpty => slots[y] \in Entry
      /\ IsFiniteSet(Occupied(slots)) /\ size(slots) \in Nat
  BY TableFacts DEF WellPlaced, IsTable
<1>2. PICK f : Placings(f, slots, hash, cap, old) /\ s2 = f[old]
  BY <1>1, ReplacedIs
<1> DEFINE passed(n) == {x \in Occupied(slots) : x < n}
           Kept(n) == /\ WellPlaced(f[n], hash, cap)
                      /\ size(f[n]) = Cardinality(passed(n))
                      /\ \A l \in Keys, w \in Nat :
                           Holds(f[n], l, w) <=> \E x \in passed(n) :
                                                    slots[x] = [key |-> l, value |-> w]
                      /\ \A l : Present(f[n], l) <=> \E x \in passed(n) : slots[x].key = l
           S == {n \in Nat : n <= old => Kept(n)}
<1>3. 0 \in S
  <2>1. f[0] = Vacant(cap)
    BY <1>1, <1>2 DEF Placings
  <2>2. passed(0) = {}
    BY <1>1 DEF Occupied
  <2>3. IsTable(Vacant(cap), cap) /\ Occupied(Vacant(cap)) = {}
    BY DEF IsTable, Vacant, Occupied
  <2>4. WellPlaced(Vacant(cap), hash, cap)
    BY <2>3 DEF WellPlaced, Vacant
  <2>5. size(Vacant(cap)) = 0 /\ Cardinality({}) = 0
    BY <2>3, FS_EmptySet DEF size
  <2>6. \A l \in Keys, w \in Nat : ~Holds(Vacant(cap), l, w)
    BY EntryFacts DEF Holds, Vacant
  <2>7. \A l : ~Present(Vacant(cap), l)
    BY DEF Present, Vacant
  <2> HIDE DEF passed
  <2> QED
    BY <2>1, <2>2, <2>4, <2>5, <2>6, <2>7
<1>4. ASSUME NEW n \in Nat, n \in S PROVE n + 1 \in S
  <2>1. ASSUME n + 1 <= old PROVE Kept(n + 1)
    <3>1. Kept(n) /\ n \in 0 .. old - 1
      BY <1>1, <1>4, <2>1
    <3>2. f[n + 1] = IF slots[n] = kEmpty THEN f[n]
                     ELSE place(f[n], hash, slots[n].key, slots[n].value)
      <4>1. n + 1 \in 0 .. old /\ n + 1 # 0 /\ (n + 1) - 1 = n
        BY <1>1, <2>1
      <4> QED
        BY <1>2, <4>1 DEF Placings
    <3>3. CASE slots[n] = kEmpty
      <4>1. passed(n + 1) = passed(n)
        BY <1>1, <3>1, <3>3 DEF Occupied
      <4> HIDE DEF passed
      <4> QED
        BY <3>1, <3>2, <3>3, <4>1
    <3>4. CASE slots[n] # kEmpty
      <4> DEFINE k == slots[n].key
                 v == slots[n].value
      <4>1. /\ k \in Keys /\ v \in Nat /\ slots[n] = [key |-> k, value |-> v]
        BY <1>1, <3>1, <3>4, EntryFacts
      <4>2. passed(n + 1) = passed(n) \cup {n} /\ n \notin passed(n)
        BY <1>1, <3>1, <3>4 DEF Occupied
      <4>3. /\ IsFiniteSet(passed(n)) /\ Cardinality(passed(n + 1)) = Cardinality(passed(n)) + 1
            /\ Cardinality(passed(n)) \in Nat /\ Cardinality(passed(n + 1)) <= size(slots)
        <5>1. passed(n) \subseteq Occupied(slots) /\ passed(n + 1) \subseteq Occupied(slots)
          OBVIOUS
        <5> HIDE DEF passed
        <5> QED
          BY <1>1, <4>2, <5>1, FS_Subset, FS_AddElement, FS_CardinalityType DEF size
      <4>4. ~Present(f[n], k)
        <5>1. ASSUME NEW x \in passed(n), slots[x].key = k PROVE FALSE
          <6>1. x \in 0 .. old - 1 /\ slots[x] # kEmpty /\ x # n
            BY <1>1, <5>1 DEF Occupied
          <6> QED
            BY <3>1, <3>4, <5>1, <6>1 DEF WellPlaced
        <5> HIDE DEF passed
        <5> QED
          BY <3>1, <5>1
      <4>5. IsTable(f[n], cap) /\ HasRoom(f[n])
        <5>1. IsTable(f[n], cap)
          BY <3>1 DEF WellPlaced
        <5>2. size(f[n]) < cap
          <6> HIDE DEF passed
          <6> QED
            BY <1>1, <3>1, <4>3
        <5> QED
          BY <5>1, <5>2, TableFacts
      <4> HIDE DEF passed, k, v
      <4>6. WellPlaced(f[n], hash, cap)
        BY <3>1
      <4>7. f[n + 1] = place(f[n], hash, k, v)
        BY <3>2, <3>4 DEF k, v
      <4>8. PlacedIn(f[n], f[n + 1], hash, cap, k, v)
        BY <4>1, <4>4, <4>5, <4>6, <4>7, PlaceEffect
      <4>9. WellPlaced(f[n + 1], hash, cap)
        BY <4>8 DEF PlacedIn
      <4>10. /\ size(f[n + 1]) = size(f[n]) + 1
             /\ \A l \in Keys, w \in Nat :
                  Holds(f[n + 1], l, w) <=> Holds(f[n], l, w) \/ (l = k /\ w = v)
             /\ \A l : Present(f[n + 1], l) <=> Present(f[n], l) \/ l = k
        BY <4>8 DEF PlacedIn
      <4>11. size(f[n + 1]) = Cardinality(passed(n + 1))
        BY <3>1, <4>3, <4>10
      <4>12. ASSUME NEW l \in Keys, NEW w \in Nat
             PROVE  Holds(f[n + 1], l, w) <=> \E x \in passed(n + 1) :
                                                 slots[x] = [key |-> l, value |-> w]
        <5>1. Holds(f[n], l, w) <=> \E x \in passed(n) : slots[x] = [key |-> l, value |-> w]
          BY <3>1
        <5>2. slots[n] = [key |-> l, value |-> w] <=> l = k /\ w = v
          BY <4>1
        <5> QED
          BY <4>2, <4>10, <5>1, <5>2
      <4>13. ASSUME NEW l
             PROVE  Present(f[n + 1], l) <=> \E x \in passed(n + 1) : slots[x].key = l
        <5>1. Present(f[n], l) <=> \E x \in passed(n) : slots[x].key = l
          BY <3>1
        <5>2. slots[n].key = k
          BY <4>1
        <5> QED
          BY <4>2, <4>10, <5>1, <5>2
      <4> QED
        BY <4>9, <4>11, <4>12, <4>13
    <3> QED
      BY <3>3, <3>4
  <2> HIDE DEF Kept
  <2> QED
    BY <2>1
<1>5. old \in S
  <2> HIDE DEF S
  <2>1. \A n \in Nat : n \in S
    BY <1>3, <1>4, Induction
  <2> QED
    BY <1>1, <2>1
<1>6. Kept(old)
  BY <1>1, <1>5
<1>7. passed(old) = Occupied(slots)
  BY <1>1 DEF Occupied
<1>8. ASSUME NEW l \in Keys, NEW w \in Nat
      PROVE  Holds(slots, l, w) <=> \E x \in passed(old) : slots[x] = [key |-> l, value |-> w]
  BY <1>1, EntryFacts DEF Holds, Occupied
<1>9. /\ WellPlaced(f[old], hash, cap)
      /\ size(f[old]) = Cardinality(passed(old))
      /\ \A l \in Keys, w \in Nat :
           Holds(f[old], l, w) <=> \E x \in passed(old) : slots[x] = [key |-> l, value |-> w]
  BY <1>6
<1> HIDE DEF passed
<1>10. \A l \in Keys, w \in Nat : Holds(f[old], l, w) <=> Holds(slots, l, w)
  BY <1>8, <1>9, Zenon
<1> QED
  BY <1>2, <1>7, <1>9, <1>10 DEF size

-----------------------------------------------------------------------------
(***************************************************************************)
(* insert and reserve.                                                     *)
(***************************************************************************)
\* The room capacity_for makes is enough for n entries under the load factor.
Suffices(cap, n) == n <= (cap * 7) \div 10

LEMMA SufficesIs ==
  ASSUME NEW cap \in Nat, NEW n \in Nat
  PROVE  Suffices(cap, n) <=> 10 * n <= 7 * cap
BY DEF Suffices

LEMMA CapacityFor ==
  ASSUME NEW n \in Nat
  PROVE  /\ IsPower(capacity_for(n)) /\ capacity_for(n) \in Nat \ {0}
         /\ capacity_for(n) > n /\ Suffices(capacity_for(n), n)
<1> DEFINE m == (n * 10) \div 7 + 1
<1>1. m \in Nat /\ 7 * m > 10 * n /\ m > n
  OBVIOUS
<1> HIDE DEF m
<1>2. bit_ceil[m] \in Nat \ {0} /\ bit_ceil[m] >= m /\ IsPower(bit_ceil[m])
  BY <1>1, BitCeilReaches, BitCeilIsPower
<1>3. capacity_for(n) = bit_ceil[m]
  BY DEF capacity_for, m
<1>4. 10 * n <= 7 * bit_ceil[m] /\ bit_ceil[m] > n
  BY <1>1, <1>2
<1>5. Suffices(bit_ceil[m], n)
  <2>1. bit_ceil[m] \in Nat
    BY <1>2
  <2> QED
    BY <1>4, <2>1, SufficesIs
<1> QED
  BY <1>2, <1>3, <1>4, <1>5

\* The table as the engine finds it between two calls.
Sound(slots, hash, cap) ==
  WellPlaced(slots, hash, cap) /\ IsPower(cap) /\ size(slots) < cap

LEMMA SoundFacts ==
  ASSUME NEW hash, NEW slots, NEW cap, Sound(slots, hash, cap)
  PROVE  /\ WellPlaced(slots, hash, cap) /\ IsTable(slots, cap) /\ HasRoom(slots)
         /\ capacity(slots) = cap /\ cap \in Nat \ {0} /\ size(slots) \in Nat
         /\ size(slots) < cap /\ IsPower(cap)
BY TableFacts DEF Sound, WellPlaced, IsTable

SameContent(s2, slots) ==
  /\ size(s2) = size(slots)
  /\ \A l \in Keys, w \in Nat : Holds(s2, l, w) <=> Holds(slots, l, w)

\* The table grows to what is asked for, or to what its entries need.
RehashedTo(slots, s2, hash, least) ==
  /\ SameContent(s2, slots)
  /\ Sound(s2, hash, capacity(s2))
  /\ capacity(s2) >= least

LEMMA RehashKeeps ==
  ASSUME NEW hash \in [Keys -> Nat], NEW slots, NEW cap, Sound(slots, hash, cap),
         NEW c, IsPower(c),
         NEW s2, s2 = rehash(slots, hash, c)
  PROVE  RehashedTo(slots, s2, hash, c)
<1>1. WellPlaced(slots, hash, cap) /\ size(slots) \in Nat
  BY SoundFacts
<1> DEFINE n == size(slots)
           least == capacity_for(n)
           d == IF c < least THEN least ELSE c
<1>2. c \in Nat \ {0} /\ least \in Nat \ {0} /\ IsPower(least) /\ least > n
  BY <1>1, CapacityFor DEF IsPower
<1> HIDE DEF n, least
<1>3. d \in Nat \ {0} /\ IsPower(d) /\ d > n /\ d >= c
  BY <1>1, <1>2 DEF n
<1>4. s2 = Replaced(slots, hash, d)
  BY DEF rehash, n, least
<1> HIDE DEF d
<1>5. /\ WellPlaced(s2, hash, d) /\ size(s2) = n
      /\ \A l \in Keys, w \in Nat : Holds(s2, l, w) <=> Holds(slots, l, w)
  <2>1. size(slots) <= d
    BY <1>1, <1>3 DEF n
  <2> QED
    BY <1>1, <1>3, <1>4, <2>1, ReplacedKeeps DEF n
<1>6. Sound(s2, hash, d)
  BY <1>3, <1>5 DEF Sound
<1>7. capacity(s2) = d
  BY <1>6, SoundFacts
<1> QED
  BY <1>3, <1>5, <1>6, <1>7 DEF RehashedTo, SameContent, n

LEMMA PresentIs ==
  ASSUME NEW slots, NEW cap, IsTable(slots, cap), NEW k \in Keys
  PROVE  Present(slots, k) <=> \E v \in Nat : Holds(slots, k, v)
<1>1. DOMAIN slots = 0 .. cap - 1 /\ \A x \in 0 .. cap - 1 : slots[x] # kEmpty => slots[x] \in Entry
  BY TableFacts
<1>2. ASSUME Present(slots, k) PROVE \E v \in Nat : Holds(slots, k, v)
  <2>1. PICK x \in 0 .. cap - 1 : slots[x] # kEmpty /\ slots[x].key = k
    BY <1>1, <1>2 DEF Present
  <2>2. slots[x].value \in Nat /\ slots[x] = [key |-> k, value |-> slots[x].value]
    BY <1>1, <2>1, EntryFacts
  <2> QED
    BY <1>1, <2>2 DEF Holds
<1>3. ASSUME NEW v \in Nat, Holds(slots, k, v) PROVE Present(slots, k)
  <2>1. PICK x \in 0 .. cap - 1 : slots[x] = [key |-> k, value |-> v]
    BY <1>1, <1>3 DEF Holds
  <2>2. slots[x] # kEmpty /\ slots[x].key = k
    BY <2>1, EntryFacts
  <2> QED
    BY <1>1, <2>2 DEF Present
<1> QED
  BY <1>2, <1>3

\* What insert does to a table that does not hold the key.
Inserted(slots, s2, hash, k, v) ==
  /\ Sound(s2, hash, capacity(s2))
  /\ size(s2) = size(slots) + 1
  /\ \A l \in Keys, w \in Nat : Holds(s2, l, w) <=> Holds(slots, l, w) \/ (l = k /\ w = v)
  /\ capacity(s2) >= capacity(slots)
  /\ ~MustGrow(slots) => capacity(s2) = capacity(slots)

LEMMA InsertKeeps ==
  ASSUME NEW hash \in [Keys -> Nat], NEW slots, NEW cap, Sound(slots, hash, cap),
         NEW k \in Keys, NEW v \in Nat, ~Present(slots, k),
         NEW s2, s2 = insert(slots, hash, k, v)
  PROVE  Inserted(slots, s2, hash, k, v)
<1> DEFINE s1 == IF MustGrow(slots) THEN rehash(slots, hash, cap * 2) ELSE slots
           c1 == capacity(s1)
<1>1. /\ WellPlaced(slots, hash, cap) /\ IsTable(slots, cap) /\ capacity(slots) = cap
      /\ cap \in Nat \ {0} /\ size(slots) \in Nat /\ size(slots) < cap /\ IsPower(cap)
  BY SoundFacts
<1>2. s2 = place(s1, hash, k, v)
  BY <1>1 DEF insert
<1>3. /\ SameContent(s1, slots) /\ Sound(s1, hash, c1) /\ c1 \in Nat /\ c1 >= cap
      /\ size(slots) + 1 < c1
      /\ ~MustGrow(slots) => c1 = cap
  <2>1. CASE MustGrow(slots)
    <3>1. IsPower(cap * 2)
      <4>1. IsPower(2 * cap)
        BY <1>1, PowerDoubled
      <4>2. 2 * cap = cap * 2
        BY <1>1
      <4> QED
        BY <4>1, <4>2
    <3>2. s1 = rehash(slots, hash, cap * 2)
      BY <2>1
    <3> HIDE DEF s1
    <3>3. RehashedTo(slots, s1, hash, cap * 2)
      BY <3>1, <3>2, RehashKeeps
    <3>4. Sound(s1, hash, c1) /\ SameContent(s1, slots) /\ c1 >= cap * 2
      BY <3>3 DEF RehashedTo
    <3>5. c1 \in Nat
      BY <3>4, SoundFacts
    <3> QED
      BY <1>1, <2>1, <3>4, <3>5
  <2>2. CASE ~MustGrow(slots)
    <3>1. s1 = slots /\ c1 = cap
      BY <1>1, <2>2
    <3>2. size(slots) + 1 <= (cap * 7) \div 10
      BY <1>1, <2>2 DEF MustGrow
    <3>3. (cap * 7) \div 10 < cap
      BY <1>1
    <3> HIDE DEF s1, c1
    <3> QED
      BY <1>1, <2>2, <3>1, <3>2, <3>3 DEF SameContent
  <2> QED
    BY <2>1, <2>2
<1> HIDE DEF s1, c1
<1>4. /\ WellPlaced(s1, hash, c1) /\ HasRoom(s1) /\ IsTable(s1, c1) /\ IsPower(c1)
  BY <1>3, SoundFacts
<1>5. ~Present(s1, k)
  <2>1. \A w \in Nat : Holds(s1, k, w) <=> Holds(slots, k, w)
    BY <1>3 DEF SameContent
  <2> QED
    BY <1>1, <1>4, <2>1, PresentIs
<1>6. PlacedIn(s1, s2, hash, c1, k, v)
  BY <1>2, <1>4, <1>5, PlaceEffect
<1>7. /\ WellPlaced(s2, hash, c1) /\ size(s2) = size(s1) + 1
      /\ \A l \in Keys, w \in Nat : Holds(s2, l, w) <=> Holds(s1, l, w) \/ (l = k /\ w = v)
  BY <1>6 DEF PlacedIn
<1>8. size(s2) = size(slots) + 1 /\ size(s2) < c1
  BY <1>1, <1>3, <1>7 DEF SameContent
<1>9. Sound(s2, hash, c1)
  BY <1>4, <1>7, <1>8 DEF Sound
<1>10. capacity(s2) = c1
  BY <1>9, SoundFacts
<1>11. \A l \in Keys, w \in Nat : Holds(s2, l, w) <=> Holds(slots, l, w) \/ (l = k /\ w = v)
  BY <1>3, <1>7 DEF SameContent
<1> QED
  BY <1>1, <1>3, <1>8, <1>9, <1>10, <1>11 DEF Inserted

LEMMA ReserveKeeps ==
  ASSUME NEW hash \in [Keys -> Nat], NEW slots, NEW cap, Sound(slots, hash, cap),
         NEW n \in Nat,
         NEW s2, s2 = reserve(slots, hash, n)
  PROVE  /\ SameContent(s2, slots) /\ Sound(s2, hash, capacity(s2))
         /\ Suffices(capacity(s2), n)
<1> DEFINE c == capacity_for(n)
<1>1. capacity(slots) = cap /\ cap \in Nat
  BY SoundFacts
<1>2. IsPower(c) /\ c \in Nat /\ 10 * n <= 7 * c
  <2>1. IsPower(c) /\ c \in Nat /\ Suffices(c, n)
    BY CapacityFor
  <2> HIDE DEF c
  <2> QED
    BY <2>1, SufficesIs
<1> HIDE DEF c
<1>3. CASE c > cap
  <2>1. s2 = rehash(slots, hash, c)
    BY <1>1, <1>3 DEF reserve, c
  <2>2. RehashedTo(slots, s2, hash, c)
    BY <1>2, <2>1, RehashKeeps
  <2>3. SameContent(s2, slots) /\ Sound(s2, hash, capacity(s2)) /\ capacity(s2) >= c
    BY <2>2 DEF RehashedTo
  <2>4. capacity(s2) \in Nat
    BY <2>3, SoundFacts
  <2>5. 10 * n <= 7 * capacity(s2)
    BY <1>2, <2>3, <2>4
  <2> QED
    BY <2>3, <2>4, <2>5, SufficesIs
<1>4. CASE ~(c > cap)
  <2>1. s2 = slots
    BY <1>1, <1>4 DEF reserve, c
  <2>2. 10 * n <= 7 * cap
    BY <1>1, <1>2, <1>4
  <2> QED
    BY <1>1, <2>1, <2>2, SufficesIs DEF SameContent
<1> QED
  BY <1>3, <1>4

\* What the engine sees of the index: the slot of an id, -1 for none.
SlotOf(slots, hash, k) == IF contains(slots, hash, k) THEN find(slots, hash, k) ELSE -1

LEMMA SlotOfIs ==
  ASSUME NEW hash \in [Keys -> Nat], NEW slots, NEW cap, Sound(slots, hash, cap),
         NEW k \in Keys
  PROVE  /\ \A v \in Nat : SlotOf(slots, hash, k) = v <=> Holds(slots, k, v)
         /\ SlotOf(slots, hash, k) \in Nat \cup {-1}
         /\ SlotOf(slots, hash, k) = -1 <=> ~contains(slots, hash, k)
         /\ contains(slots, hash, k) <=> Present(slots, k)
<1>1. WellPlaced(slots, hash, cap) /\ HasRoom(slots) /\ IsTable(slots, cap)
  BY SoundFacts
<1>2. /\ contains(slots, hash, k) <=> Present(slots, k)
      /\ \A v \in Nat : Holds(slots, k, v) =>
           contains(slots, hash, k) /\ find(slots, hash, k) = v
  BY <1>1, LookupIs
<1>3. Present(slots, k) <=> \E v \in Nat : Holds(slots, k, v)
  BY <1>1, PresentIs
<1>4. CASE contains(slots, hash, k)
  <2>1. PICK v \in Nat : Holds(slots, k, v)
    BY <1>2, <1>3, <1>4
  <2>2. SlotOf(slots, hash, k) = v
    BY <1>2, <1>4, <2>1 DEF SlotOf
  <2> QED
    BY <1>2, <1>4, <2>1, <2>2
<1>5. CASE ~contains(slots, hash, k)
  BY <1>2, <1>5 DEF SlotOf
<1> QED
  BY <1>4, <1>5

-----------------------------------------------------------------------------
(***************************************************************************)
(* The pool.                                                               *)
(***************************************************************************)
Blocks == [0 .. kChunkSize - 1 -> Keys \cup {BlankRecord}]

\* Chunk c lies in block c, and there is room for the slots handed out.
PoolInv(p) ==
  /\ p \in [chunks : Seq(Nat), memory : Seq(Blocks), size : Nat]
  /\ Len(p.memory) = Len(p.chunks)
  /\ \A c \in 1 .. Len(p.chunks) : p.chunks[c] = c
  /\ p.size <= Len(p.chunks) * kChunkSize

\* The block a slot is in, and its place there.
BlockOf(slot)  == slot \div kChunkSize + 1
OffsetOf(slot) == slot % kChunkSize

LEMMA PlaceTyped ==
  ASSUME NEW slot \in Nat
  PROVE  /\ BlockOf(slot) \in Nat \ {0} /\ OffsetOf(slot) \in 0 .. kChunkSize - 1
         /\ \A n \in Nat : slot < n * kChunkSize <=> BlockOf(slot) <= n
<1>1. kChunkSize \in Nat \ {0}
  BY ChunkAssumption
<1>2. OffsetOf(slot) \in 0 .. kChunkSize - 1
  BY <1>1, Divided DEF OffsetOf
<1>3. slot \div kChunkSize \in Nat
  BY <1>1, QuotientBounds
<1>4. ASSUME NEW n \in Nat PROVE slot < n * kChunkSize <=> BlockOf(slot) <= n
  <2>1. slot \div kChunkSize < n <=> slot < n * kChunkSize
    BY <1>1, QuotientBounds
  <2> DEFINE q == slot \div kChunkSize
  <2>2. q \in Nat
    BY <1>3
  <2> HIDE DEF q
  <2>3. q < n <=> q + 1 <= n
    BY <2>2
  <2> QED
    BY <2>1, <2>3 DEF BlockOf, q
<1> QED
  BY <1>2, <1>3, <1>4 DEF BlockOf

LEMMA PlaceTells ==
  ASSUME NEW s \in Nat, NEW t \in Nat, BlockOf(s) = BlockOf(t), OffsetOf(s) = OffsetOf(t)
  PROVE  s = t
<1>1. kChunkSize \in Nat \ {0} /\ s \div kChunkSize \in Nat /\ t \div kChunkSize \in Nat
  BY ChunkAssumption, QuotientBounds
<1> DEFINE q == s \div kChunkSize
           r == t \div kChunkSize
<1>2. q = r
  <2>1. q + 1 = r + 1
    BY DEF BlockOf
  <2>2. q \in Nat /\ r \in Nat
    BY <1>1
  <2> HIDE DEF q, r
  <2> QED
    BY <2>1, <2>2
<1>3. s % kChunkSize = t % kChunkSize
  BY DEF OffsetOf
<1> QED
  BY <1>1, <1>2, <1>3, QuotientTells

\* A slot of an allocated chunk has an address of its own.
LEMMA AddressIs ==
  ASSUME NEW p, PoolInv(p), NEW s \in Nat, s < Len(p.chunks) * kChunkSize
  PROVE  /\ BlockOf(s) \in 1 .. Len(p.chunks) /\ OffsetOf(s) \in 0 .. kChunkSize - 1
         /\ Address(p, s) = [block |-> BlockOf(s), offset |-> OffsetOf(s)]
         /\ Record(p, s) = p.memory[BlockOf(s)][OffsetOf(s)]
<1>1. Len(p.chunks) \in Nat
  BY DEF PoolInv
<1>2. BlockOf(s) \in 1 .. Len(p.chunks) /\ OffsetOf(s) \in 0 .. kChunkSize - 1
  BY <1>1, PlaceTyped
<1>3. p.chunks[BlockOf(s)] = BlockOf(s)
  BY <1>2 DEF PoolInv
<1>4. Address(p, s) = [block |-> BlockOf(s), offset |-> OffsetOf(s)]
  BY <1>3 DEF Address, BlockOf, OffsetOf
<1> QED
  BY <1>2, <1>4 DEF Record

LEMMA OneMore ==
  ASSUME NEW n \in Nat, NEW k \in Nat
  PROVE  (n + 1) * k = n * k + k /\ n * k \in Nat
OBVIOUS

\* The pool with one chunk more.
LEMMA AddChunkKeeps ==
  ASSUME NEW p, PoolInv(p), NEW p2, p2 = add_chunk(p)
  PROVE  /\ PoolInv(p2) /\ p2.size = p.size /\ Len(p2.chunks) = Len(p.chunks) + 1
         /\ \A s \in Nat : s < Len(p.chunks) * kChunkSize =>
              Address(p2, s) = Address(p, s) /\ Record(p2, s) = Record(p, s)
<1> DEFINE n == Len(p.chunks)
<1>1. /\ p.chunks \in Seq(Nat) /\ p.memory \in Seq(Blocks) /\ p.size \in Nat /\ n \in Nat
      /\ Len(p.memory) = n /\ kChunkSize \in Nat \ {0} /\ p.size <= n * kChunkSize
      /\ p = [chunks |-> p.chunks, memory |-> p.memory, size |-> p.size]
      /\ \A c \in 1 .. n : p.chunks[c] = c
  BY ChunkAssumption DEF PoolInv
<1>2. /\ p2 = [chunks |-> Append(p.chunks, n + 1), memory |-> Append(p.memory, Block),
               size |-> p.size]
  BY <1>1 DEF add_chunk
<1>3. Block \in Blocks
  BY DEF Block, Blocks
<1>4. /\ p2.chunks \in Seq(Nat) /\ p2.memory \in Seq(Blocks) /\ p2.size = p.size
      /\ Len(p2.chunks) = n + 1 /\ Len(p2.memory) = n + 1
      /\ \A c \in 1 .. n : p2.chunks[c] = p.chunks[c] /\ p2.memory[c] = p.memory[c]
      /\ p2.chunks[n + 1] = n + 1
  BY <1>1, <1>2, <1>3
<1>5. p2 \in [chunks : Seq(Nat), memory : Seq(Blocks), size : Nat]
  BY <1>1, <1>2, <1>4
<1>6. p.size <= (n + 1) * kChunkSize
  <2>1. (n + 1) * kChunkSize = n * kChunkSize + kChunkSize /\ n * kChunkSize \in Nat
    <3>1. n \in Nat /\ kChunkSize \in Nat
      BY <1>1
    <3> HIDE DEF n
    <3> QED
      BY <3>1, OneMore
  <2> DEFINE m == n * kChunkSize
  <2> HIDE DEF m, n
  <2> QED
    BY <1>1, <2>1 DEF m
<1> HIDE DEF n
<1>7. ASSUME NEW c \in 1 .. n + 1 PROVE p2.chunks[c] = c
  <2>1. n \in Nat /\ p2.chunks[n + 1] = n + 1
    BY <1>1, <1>4
  <2>2. CASE c = n + 1
    BY <2>1, <2>2
  <2>3. CASE c # n + 1
    <3>1. c \in 1 .. n
      BY <2>1, <2>3
    <3> QED
      BY <1>1, <1>4, <3>1
  <2> QED
    BY <2>2, <2>3
<1>8. PoolInv(p2)
  BY <1>4, <1>5, <1>6, <1>7 DEF PoolInv
<1>9. ASSUME NEW s \in Nat, s < n * kChunkSize
      PROVE  Address(p2, s) = Address(p, s) /\ Record(p2, s) = Record(p, s)
  <2>1. BlockOf(s) \in 1 .. n
    BY <1>9, AddressIs DEF n
  <2>2. p2.chunks[BlockOf(s)] = p.chunks[BlockOf(s)]
    BY <1>4, <2>1
  <2>3. Address(p2, s) = Address(p, s)
    BY <2>2 DEF Address, BlockOf
  <2>4. p.chunks[BlockOf(s)] = BlockOf(s)
    BY <1>1, <2>1
  <2>5. p2.memory[BlockOf(s)] = p.memory[BlockOf(s)]
    BY <1>4, <2>1
  <2> QED
    BY <2>3, <2>4, <2>5 DEF Record, Address, BlockOf
<1> QED
  BY <1>4, <1>8, <1>9 DEF n

\* A record is written at its own address and nowhere else.
WrittenIn(p, p2, s, rec) ==
  /\ PoolInv(p2) /\ p2.size = p.size /\ p2.chunks = p.chunks
  /\ \A t \in Nat : t < Len(p.chunks) * kChunkSize =>
       /\ Address(p2, t) = Address(p, t)
       /\ Record(p2, t) = IF t = s THEN rec ELSE Record(p, t)

LEMMA WrittenKeeps ==
  ASSUME NEW p, PoolInv(p), NEW s \in Nat, s < Len(p.chunks) * kChunkSize,
         NEW rec \in Keys \cup {BlankRecord},
         NEW p2, p2 = Written(p, s, rec)
  PROVE  WrittenIn(p, p2, s, rec)
<1> DEFINE n == Len(p.chunks)
           b == BlockOf(s)
           o == OffsetOf(s)
<1>1. /\ p.chunks \in Seq(Nat) /\ p.memory \in Seq(Blocks) /\ p.size \in Nat /\ n \in Nat
      /\ Len(p.memory) = n
      /\ p = [chunks |-> p.chunks, memory |-> p.memory, size |-> p.size]
  BY DEF PoolInv
<1>2. /\ b \in 1 .. n /\ o \in 0 .. kChunkSize - 1
      /\ Address(p, s) = [block |-> b, offset |-> o]
  BY AddressIs
<1>3. p2 = [p EXCEPT !.memory[b][o] = rec]
  BY <1>2 DEF Written
<1> DEFINE mem == [p.memory EXCEPT ![b] = [p.memory[b] EXCEPT ![o] = rec]]
<1>4. p2 = [chunks |-> p.chunks, memory |-> mem, size |-> p.size]
  BY <1>1, <1>3
<1> HIDE DEF b, o
<1>5. p.memory[b] \in Blocks
  BY <1>1, <1>2
<1>6. [p.memory[b] EXCEPT ![o] = rec] \in Blocks
  BY <1>2, <1>5 DEF Blocks
<1>7. /\ mem \in Seq(Blocks) /\ Len(mem) = n
      /\ \A c \in 1 .. n : \A x \in 0 .. kChunkSize - 1 :
           mem[c][x] = IF c = b /\ x = o THEN rec ELSE p.memory[c][x]
  <2>1. \A c \in 1 .. n : p.memory[c] \in Blocks
    BY <1>1
  <2>2. mem \in Seq(Blocks) /\ Len(mem) = n
    BY <1>1, <1>2, <1>6
  <2>3. ASSUME NEW c \in 1 .. n, NEW x \in 0 .. kChunkSize - 1
        PROVE  mem[c][x] = IF c = b /\ x = o THEN rec ELSE p.memory[c][x]
    <3>1. CASE c = b
      <4>1. mem[c] = [p.memory[b] EXCEPT ![o] = rec]
        BY <1>1, <3>1
      <4> QED
        BY <1>5, <3>1, <4>1 DEF Blocks
    <3>2. CASE c # b
      <4>1. mem[c] = p.memory[c]
        BY <1>1, <3>2
      <4> QED
        BY <3>2, <4>1
    <3> QED
      BY <3>1, <3>2
  <2> QED
    BY <2>2, <2>3
<1> HIDE DEF mem
<1>8. PoolInv(p2) /\ p2.size = p.size /\ p2.chunks = p.chunks /\ p2.memory = mem
  BY <1>1, <1>4, <1>7 DEF PoolInv
<1>9. ASSUME NEW t \in Nat, t < n * kChunkSize
      PROVE  /\ Address(p2, t) = Address(p, t)
             /\ Record(p2, t) = IF t = s THEN rec ELSE Record(p, t)
  <2>1. /\ BlockOf(t) \in 1 .. n /\ OffsetOf(t) \in 0 .. kChunkSize - 1
        /\ Record(p, t) = p.memory[BlockOf(t)][OffsetOf(t)]
    BY <1>9, AddressIs
  <2>2. Record(p2, t) = mem[BlockOf(t)][OffsetOf(t)]
    BY <1>8, <1>9, AddressIs
  <2>3. (BlockOf(t) = b /\ OffsetOf(t) = o) <=> t = s
    BY PlaceTells DEF b, o
  <2>4. Address(p2, t) = Address(p, t)
    BY <1>8 DEF Address
  <2> QED
    BY <1>7, <2>1, <2>2, <2>3, <2>4
<1> QED
  BY <1>8, <1>9 DEF WrittenIn

LEMMA Joined ==
  ASSUME NEW S, NEW s \in Seq(S), NEW t \in Seq(S)
  PROVE  s \o t \in Seq(S) /\ Len(s \o t) = Len(s) + Len(t)
OBVIOUS

\* Enough chunks for n slots.
LEMMA ReserveChunksKeeps ==
  ASSUME NEW p, PoolInv(p), p.size = 0, NEW n \in Nat, NEW p2, p2 = reserve_chunks(p, n)
  PROVE  PoolInv(p2) /\ p2.size = 0 /\ n <= Len(p2.chunks) * kChunkSize
<1> DEFINE old    == Len(p.chunks)
           needed == (n + kChunkSize - 1) \div kChunkSize
           fresh  == [c \in 1 .. needed - old |-> Len(p.memory) + c]
           blank  == [c \in DOMAIN fresh |-> Block]
<1>1. /\ p.chunks \in Seq(Nat) /\ p.memory \in Seq(Blocks) /\ p.size \in Nat /\ old \in Nat
      /\ Len(p.memory) = old
      /\ p = [chunks |-> p.chunks, memory |-> p.memory, size |-> p.size]
      /\ \A c \in 1 .. old : p.chunks[c] = c
  BY DEF PoolInv
<1>2. kChunkSize \in Nat \ {0} /\ n + kChunkSize - 1 \in Nat
  BY ChunkAssumption
<1>3. needed \in Nat /\ \A m \in Nat : needed <= m => n <= m * kChunkSize
  <2> DEFINE a == n + kChunkSize - 1
  <2>1. a \in Nat
    BY <1>2
  <2> HIDE DEF a
  <2>2. a \div kChunkSize \in Nat
    BY <1>2, <2>1, QuotientBounds
  <2>3. ASSUME NEW m \in Nat, a \div kChunkSize <= m PROVE n <= m * kChunkSize
    <3>1. a \div kChunkSize < m + 1 <=> a < (m + 1) * kChunkSize
      <4>1. m + 1 \in Nat
        OBVIOUS
      <4> QED
        BY <1>2, <2>1, <4>1, QuotientBounds
    <3>2. (m + 1) * kChunkSize = m * kChunkSize + kChunkSize /\ m * kChunkSize \in Nat
      BY <1>2, OneMore
    <3>3. a < m * kChunkSize + kChunkSize
      BY <2>2, <2>3, <3>1, <3>2
    <3> DEFINE mk == m * kChunkSize
    <3>4. mk \in Nat /\ a < mk + kChunkSize
      BY <3>2, <3>3
    <3> HIDE DEF mk
    <3>5. n <= mk
      BY <1>2, <3>4 DEF a
    <3> QED
      BY <3>5 DEF mk
  <2> QED
    BY <2>2, <2>3 DEF a
<1>4. CASE old >= needed
  <2>1. p2 = p
    BY <1>4 DEF reserve_chunks
  <2> QED
    BY <1>1, <1>3, <1>4, <2>1
<1>5. CASE ~(old >= needed)
  <2>1. p2 = [p EXCEPT !.chunks = @ \o fresh, !.memory = @ \o blank]
    BY <1>5 DEF reserve_chunks
  <2>2. p2 = [chunks |-> p.chunks \o fresh, memory |-> p.memory \o blank, size |-> p.size]
    <3> HIDE DEF fresh, blank
    <3> QED
      BY <1>1, <2>1
  <2> DEFINE more == needed - old
  <2>3. more \in Nat /\ old + more = needed
    <3> HIDE DEF old, needed
    <3> QED
      BY <1>1, <1>3, <1>5
  <2> HIDE DEF needed, more
  <2>4. fresh \in Seq(Nat) /\ Len(fresh) = more /\ \A c \in 1 .. more : fresh[c] = old + c
    <3>1. fresh = [c \in 1 .. more |-> old + c]
      BY <1>1 DEF more
    <3> HIDE DEF old, fresh
    <3>2. \A c \in 1 .. more : old + c \in Nat
      BY <1>1, <2>3
    <3>3. fresh \in [1 .. more -> Nat]
      BY <3>1, <3>2
    <3>4. fresh \in Seq(Nat) /\ Len(fresh) = more
      BY <2>3, <3>3
    <3> QED
      BY <3>1, <3>4
  <2>5. Block \in Blocks
    BY DEF Block, Blocks
  <2>6. blank \in Seq(Blocks) /\ Len(blank) = more
    <3>1. blank = [c \in 1 .. more |-> Block]
      BY <1>1 DEF more
    <3> QED
      BY <2>3, <2>5, <3>1
  <2> HIDE DEF fresh, blank
  <2>7. /\ p2.chunks \in Seq(Nat) /\ Len(p2.chunks) = old + more
        /\ p2.memory \in Seq(Blocks) /\ Len(p2.memory) = old + more
        /\ p2 \in [chunks : Seq(Nat), memory : Seq(Blocks), size : Nat] /\ p2.size = p.size
    <3>1. /\ p.chunks \o fresh \in Seq(Nat) /\ p.memory \o blank \in Seq(Blocks)
          /\ Len(p.chunks \o fresh) = old + more /\ Len(p.memory \o blank) = old + more
      <4>1. /\ p.chunks \o fresh \in Seq(Nat)
            /\ Len(p.chunks \o fresh) = Len(p.chunks) + Len(fresh)
        BY <1>1, <2>4, Joined
      <4>2. /\ p.memory \o blank \in Seq(Blocks)
            /\ Len(p.memory \o blank) = Len(p.memory) + Len(blank)
        BY <1>1, <2>6, Joined
      <4> QED
        BY <1>1, <2>4, <2>6, <4>1, <4>2
    <3>2. p2.chunks = p.chunks \o fresh /\ p2.memory = p.memory \o blank /\ p2.size = p.size
      BY <2>2
    <3> QED
      BY <1>1, <2>2, <3>1, <3>2
  <2>8. ASSUME NEW c \in 1 .. old + more PROVE p2.chunks[c] = c
    <3>1. CASE c <= old
      <4>1. (p.chunks \o fresh)[c] = p.chunks[c]
        BY <1>1, <2>3, <2>4, <3>1
      <4> QED
        BY <1>1, <2>2, <2>3, <3>1, <4>1
    <3>2. CASE ~(c <= old)
      <4>1. c - old \in 1 .. more /\ old + (c - old) = c
        BY <1>1, <2>3, <3>2
      <4>2. (p.chunks \o fresh)[c] = fresh[c - old]
        BY <1>1, <2>3, <2>4, <3>2
      <4> QED
        BY <2>2, <2>4, <4>1, <4>2
    <3> QED
      BY <3>1, <3>2
  <2>9. n <= (old + more) * kChunkSize
    BY <1>3, <2>3
  <2>10. 0 <= (old + more) * kChunkSize
    <3>1. old + more \in Nat
      BY <1>1, <2>3
    <3>2. (old + more) * kChunkSize \in Nat
      BY <1>2, <3>1, OneMore
    <3> QED
      BY <3>2
  <2> QED
    BY <2>7, <2>8, <2>9, <2>10 DEF PoolInv
<1> QED
  BY <1>4, <1>5

\* A slot is taken and filled in: the slots before it keep their records.
TakenIn(p, p2, id) ==
  /\ PoolInv(p2) /\ p2.size = p.size + 1
  /\ Record(p2, p.size) = id
  /\ \A s \in 0 .. p.size - 1 : Address(p2, s) = Address(p, s) /\ Record(p2, s) = Record(p, s)
  /\ Len(p2.chunks) = IF NeedsChunk(p) THEN Len(p.chunks) + 1 ELSE Len(p.chunks)

LEMMA TakeKeeps ==
  ASSUME NEW p, PoolInv(p), NEW id \in Keys, NEW p2, p2 = Written(allocate(p), p.size, id)
  PROVE  TakenIn(p, p2, id)
<1> DEFINE n == p.size
           g == IF NeedsChunk(p) THEN add_chunk(p) ELSE p
           g2 == [g EXCEPT !.size = @ + 1]
           a == Written(g2, n, BlankRecord)
           m == Len(g.chunks)
<1>1. n \in Nat /\ kChunkSize \in Nat \ {0} /\ Len(p.chunks) \in Nat
      /\ n <= Len(p.chunks) * kChunkSize
  BY ChunkAssumption DEF PoolInv
<1>2. /\ PoolInv(g) /\ g.size = n /\ m \in Nat
      /\ m = IF NeedsChunk(p) THEN Len(p.chunks) + 1 ELSE Len(p.chunks)
      /\ \A s \in Nat : s < n => Address(g, s) = Address(p, s) /\ Record(g, s) = Record(p, s)
      /\ n < m * kChunkSize
  <2>1. NeedsChunk(p) <=> ~(n < Len(p.chunks) * kChunkSize)
    <3> DEFINE q == n \div kChunkSize
               l == Len(p.chunks)
    <3>1. q \in Nat /\ (q < l <=> n < l * kChunkSize)
      BY <1>1, QuotientBounds
    <3>2. NeedsChunk(p) <=> q >= l
      BY DEF NeedsChunk
    <3> HIDE DEF q
    <3> QED
      BY <1>1, <3>1, <3>2
  <2> DEFINE lk == Len(p.chunks) * kChunkSize
  <2>2. lk \in Nat
    BY <1>1, OneMore
  <2> HIDE DEF lk
  <2>3. \A s \in Nat : s < n => s < lk
    BY <1>1, <2>2 DEF lk
  <2>4. CASE NeedsChunk(p)
    <3>1. g = add_chunk(p)
      BY <2>4
    <3> HIDE DEF g
    <3>2. /\ PoolInv(g) /\ g.size = n /\ Len(g.chunks) = Len(p.chunks) + 1
          /\ \A s \in Nat : s < lk => Address(g, s) = Address(p, s) /\ Record(g, s) = Record(p, s)
      BY <3>1, AddChunkKeeps DEF lk
    <3>3. m * kChunkSize = lk + kChunkSize
      <4>1. (Len(p.chunks) + 1) * kChunkSize = Len(p.chunks) * kChunkSize + kChunkSize
        BY <1>1, OneMore
      <4> QED
        BY <3>2, <4>1 DEF lk
    <3>4. n < lk + kChunkSize
      BY <1>1, <2>2 DEF lk
    <3> QED
      BY <1>1, <2>3, <2>4, <3>2, <3>3, <3>4
  <2>5. CASE ~NeedsChunk(p)
    BY <1>1, <2>1, <2>5
  <2> QED
    BY <2>4, <2>5
<1> HIDE DEF g
<1>3. PoolInv(g2) /\ g2.chunks = g.chunks /\ g2.memory = g.memory /\ g2.size = n + 1
  <2>1. g = [chunks |-> g.chunks, memory |-> g.memory, size |-> n]
    BY <1>2 DEF PoolInv
  <2>2. g2 = [chunks |-> g.chunks, memory |-> g.memory, size |-> n + 1]
    BY <2>1
  <2>3. n + 1 <= m * kChunkSize
    <3>1. m * kChunkSize \in Nat
      BY <1>1, <1>2, OneMore
    <3> DEFINE mk == m * kChunkSize
    <3>2. mk \in Nat /\ n < mk
      BY <1>2, <3>1
    <3> HIDE DEF mk, m, n
    <3> QED
      BY <1>1, <3>2 DEF mk
  <2> QED
    BY <1>1, <1>2, <2>2, <2>3 DEF PoolInv
<1>4. \A s \in Nat : Address(g2, s) = Address(g, s) /\ Record(g2, s) = Record(g, s)
  BY <1>3 DEF Address, Record
<1>5. a = allocate(p)
  BY DEF allocate, g
<1> HIDE DEF g2
<1>6. /\ PoolInv(a) /\ a.size = n + 1 /\ a.chunks = g2.chunks
      /\ \A s \in Nat : s < m * kChunkSize =>
           /\ Address(a, s) = Address(g2, s)
           /\ Record(a, s) = IF s = n THEN BlankRecord ELSE Record(g2, s)
  <2>1. n < Len(g2.chunks) * kChunkSize
    BY <1>2, <1>3
  <2>2. WrittenIn(g2, a, n, BlankRecord)
    BY <1>1, <1>3, <2>1, WrittenKeeps
  <2> HIDE DEF a
  <2> QED
    BY <1>3, <2>2 DEF WrittenIn
<1> HIDE DEF a
<1>7. p2 = Written(a, n, id) /\ Len(a.chunks) = m
  BY <1>3, <1>5, <1>6
<1>8. /\ PoolInv(p2) /\ p2.size = a.size /\ p2.chunks = a.chunks
      /\ \A s \in Nat : s < m * kChunkSize =>
           /\ Address(p2, s) = Address(a, s)
           /\ Record(p2, s) = IF s = n THEN id ELSE Record(a, s)
  <2>1. n < Len(a.chunks) * kChunkSize
    BY <1>2, <1>7
  <2>2. WrittenIn(a, p2, n, id)
    BY <1>1, <1>6, <1>7, <2>1, WrittenKeeps
  <2> QED
    BY <1>7, <2>2 DEF WrittenIn
<1>9. Record(p2, n) = id
  BY <1>1, <1>2, <1>8
<1>10. ASSUME NEW s \in 0 .. n - 1
       PROVE  Address(p2, s) = Address(p, s) /\ Record(p2, s) = Record(p, s)
  <2>1. s \in Nat /\ s < n /\ s # n
    BY <1>1
  <2>2. s < m * kChunkSize
    <3>1. m * kChunkSize \in Nat
      BY <1>1, <1>2, OneMore
    <3> DEFINE mk == m * kChunkSize
    <3>2. mk \in Nat /\ n < mk
      BY <1>2, <3>1
    <3> HIDE DEF mk, m, n
    <3> QED
      BY <1>1, <2>1, <3>2 DEF mk
  <2> QED
    BY <1>2, <1>4, <1>6, <1>8, <2>1, <2>2
<1> QED
  BY <1>2, <1>6, <1>7, <1>8, <1>9, <1>10 DEF TakenIn

LEMMA AddressesDiffer ==
  ASSUME NEW p, PoolInv(p), NEW s \in 0 .. p.size - 1, NEW t \in 0 .. p.size - 1, s # t
  PROVE  Address(p, s) # Address(p, t)
<1> DEFINE room == Len(p.chunks) * kChunkSize
<1>1. p.size \in Nat /\ p.size <= room /\ room \in Nat
  <2>1. Len(p.chunks) \in Nat /\ kChunkSize \in Nat
    BY ChunkAssumption DEF PoolInv
  <2> QED
    BY <2>1, OneMore DEF PoolInv
<1>2. s \in Nat /\ t \in Nat /\ s < room /\ t < room
  <2> HIDE DEF room
  <2> QED
    BY <1>1
<1>3. /\ Address(p, s) = [block |-> BlockOf(s), offset |-> OffsetOf(s)]
      /\ Address(p, t) = [block |-> BlockOf(t), offset |-> OffsetOf(t)]
  BY <1>2, AddressIs
<1>4. BlockOf(s) # BlockOf(t) \/ OffsetOf(s) # OffsetOf(t)
  BY <1>2, PlaceTells
<1> QED
  BY <1>3, <1>4

LEMMA AppendIs ==
  ASSUME NEW n \in Nat, NEW s, s = [c \in 1 .. n |-> s[c]], NEW e
  PROVE  Append(s, e) = [c \in 1 .. n + 1 |-> IF c = n + 1 THEN e ELSE s[c]]
<1> DEFINE S == {s[c] : c \in 1 .. n} \cup {e}
<1>1. s \in [1 .. n -> S]
  OBVIOUS
<1>2. e \in S
  OBVIOUS
<1> HIDE DEF S
<1>3. s \in Seq(S) /\ Len(s) = n
  BY <1>1
<1>4. DOMAIN Append(s, e) = 1 .. n + 1
  BY <1>2, <1>3
<1>5. Append(s, e) = [c \in 1 .. n + 1 |-> Append(s, e)[c]]
  <2>1. Append(s, e) \in Seq(S) /\ Len(Append(s, e)) = n + 1
    BY <1>2, <1>3
  <2> DEFINE a == Append(s, e)
  <2>2. a \in Seq(S) /\ Len(a) = n + 1
    BY <2>1
  <2> HIDE DEF a
  <2>3. a = [c \in 1 .. Len(a) |-> a[c]]
    BY <2>2
  <2>4. a = [c \in 1 .. n + 1 |-> a[c]]
    BY <2>2, <2>3
  <2> QED
    BY <2>4 DEF a
<1>6. \A c \in 1 .. n + 1 : Append(s, e)[c] = IF c = n + 1 THEN e ELSE s[c]
  BY <1>2, <1>3
<1> DEFINE b == Append(s, e)
<1>7. /\ b = [c \in 1 .. n + 1 |-> b[c]]
      /\ \A c \in 1 .. n + 1 : b[c] = IF c = n + 1 THEN e ELSE s[c]
  BY <1>5, <1>6
<1> HIDE DEF b
<1>8. b = [c \in 1 .. n + 1 |-> IF c = n + 1 THEN e ELSE s[c]]
  BY <1>7
<1> QED
  BY <1>8 DEF b

\* The owners of the slots, as OrderStore sees them.
Owners(p) == [n \in 1 .. p.size |-> Record(p, n - 1)]

LEMMA OwnersGrow ==
  ASSUME NEW p, PoolInv(p), NEW p2, NEW id, TakenIn(p, p2, id)
  PROVE  Owners(p2) = Append(Owners(p), id) /\ Len(Owners(p)) = p.size
<1> DEFINE n == p.size
           o == Owners(p)
<1>1. n \in Nat /\ p2.size = n + 1 /\ Record(p2, n) = id
      /\ \A s \in 0 .. n - 1 : Record(p2, s) = Record(p, s)
  BY DEF PoolInv, TakenIn
<1>2. DOMAIN o = 1 .. n /\ (\A c \in 1 .. n : o[c] = Record(p, c - 1)) /\ Len(o) = n
  BY <1>1 DEF Owners
<1> DEFINE o2 == Owners(p2)
<1>3. o2 = [c \in 1 .. n + 1 |-> Record(p2, c - 1)]
  BY <1>1 DEF Owners
<1>4. Append(o, id) = [c \in 1 .. n + 1 |-> IF c = n + 1 THEN id ELSE o[c]]
  <2>1. o = [c \in 1 .. n |-> o[c]]
    BY DEF Owners
  <2>2. n \in Nat
    BY <1>1
  <2> HIDE DEF o, n
  <2> QED
    BY <2>1, <2>2, AppendIs
<1>5. ASSUME NEW c \in 1 .. n + 1 PROVE Record(p2, c - 1) = IF c = n + 1 THEN id ELSE o[c]
  <2>1. CASE c = n + 1
    BY <1>1, <2>1
  <2>2. CASE c # n + 1
    <3>1. c \in 1 .. n /\ c - 1 \in 0 .. n - 1
      BY <1>1, <2>2
    <3> QED
      BY <1>1, <1>2, <2>2, <3>1
  <2> QED
    BY <2>1, <2>2
<1> HIDE DEF o, o2, n
<1>6. o2 = Append(o, id)
  BY <1>3, <1>4, <1>5
<1> QED
  BY <1>2, <1>6 DEF o, o2, n

-----------------------------------------------------------------------------
(***************************************************************************)
(* The slot the engine sees for every id, before and after.                *)
(***************************************************************************)
LEMMA SameSlots ==
  ASSUME NEW hash \in [Keys -> Nat], NEW slots, NEW cap, Sound(slots, hash, cap),
         NEW s2, NEW cap2, Sound(s2, hash, cap2), NEW k \in Keys,
         \A w \in Nat : Holds(s2, k, w) <=> Holds(slots, k, w)
  PROVE  SlotOf(s2, hash, k) = SlotOf(slots, hash, k)
<1>1. /\ SlotOf(s2, hash, k) \in Nat \cup {-1} /\ SlotOf(slots, hash, k) \in Nat \cup {-1}
      /\ \A w \in Nat : SlotOf(s2, hash, k) = w <=> Holds(s2, k, w)
      /\ \A w \in Nat : SlotOf(slots, hash, k) = w <=> Holds(slots, k, w)
  BY SlotOfIs
<1> QED
  BY <1>1

\* The map of slots with one of them changed.
PointedAt(slots, s2, hash, k, v) ==
  [l \in Keys |-> SlotOf(s2, hash, l)] =
    [[l \in Keys |-> SlotOf(slots, hash, l)] EXCEPT ![k] = v]

LEMMA PointsAt ==
  ASSUME NEW hash \in [Keys -> Nat], NEW slots, NEW cap, Sound(slots, hash, cap),
         NEW s2, NEW cap2, Sound(s2, hash, cap2), NEW k \in Keys, NEW v \in Nat,
         Holds(s2, k, v),
         \A l \in Keys : l # k => \A w \in Nat : Holds(s2, l, w) <=> Holds(slots, l, w)
  PROVE  PointedAt(slots, s2, hash, k, v)
<1>1. SlotOf(s2, hash, k) = v
  BY SlotOfIs
<1>2. ASSUME NEW l \in Keys, l # k PROVE SlotOf(s2, hash, l) = SlotOf(slots, hash, l)
  BY <1>2, SameSlots
<1> DEFINE m == [l \in Keys |-> SlotOf(slots, hash, l)]
<1>3. \A l \in Keys : SlotOf(s2, hash, l) = IF l = k THEN v ELSE m[l]
  BY <1>1, <1>2
<1>4. [m EXCEPT ![k] = v] = [l \in Keys |-> IF l = k THEN v ELSE m[l]]
  OBVIOUS
<1> QED
  BY <1>3, <1>4 DEF PointedAt

-----------------------------------------------------------------------------
(***************************************************************************)
(* The invariant: the index is a table with room left, the pool has room   *)
(* for its slots, and both have the room that was reserved.                *)
(***************************************************************************)
SInv ==
  /\ mix \in [Keys -> Nat]
  /\ Sound(order_index, mix, capacity(order_index))
  /\ PoolInv(pool)
  /\ reserved \in Nat \cup {-1}
  /\ reserved = -1 => pool.size = 0
  /\ size(order_index) <= pool.size
  /\ reserved >= 0 => /\ Suffices(capacity(order_index), reserved)
                      /\ reserved <= Len(pool.chunks) * kChunkSize

LEMMA InitStorage == Init => SInv
<1> SUFFICES ASSUME Init PROVE SInv
  OBVIOUS
<1> DEFINE cap == kInitialCapacity
<1>1. cap \in Nat \ {0} /\ IsPower(cap)
  <2>1. bit_ceil[0] = 1
    BY BitCeil
  <2> QED
    BY <2>1, MapAssumption DEF IsPower
<1>2. order_index = Vacant(cap) /\ pool = NewPool /\ reserved = -1 /\ mix \in [Keys -> Nat]
  BY StorageAssumption DEF Init
<1> HIDE DEF cap
<1>3. IsTable(Vacant(cap), cap) /\ Occupied(Vacant(cap)) = {}
  BY <1>1 DEF IsTable, Vacant, Occupied
<1>4. WellPlaced(Vacant(cap), mix, cap)
  BY <1>3 DEF WellPlaced, Vacant
<1>5. size(Vacant(cap)) = 0
  BY <1>3, FS_EmptySet DEF size
<1>6. Sound(order_index, mix, cap)
  BY <1>1, <1>2, <1>4, <1>5 DEF Sound
<1>7. capacity(order_index) = cap
  BY <1>6, SoundFacts
<1>8. PoolInv(pool) /\ pool.size = 0
  <2>1. kChunkSize \in Nat
    BY ChunkAssumption
  <2> QED
    BY <1>2, <2>1 DEF PoolInv, NewPool
<1> QED
  BY <1>2, <1>5, <1>6, <1>7, <1>8 DEF SInv

\* What each action does to index and pool.
LEMMA ReserveDoes ==
  ASSUME SInv, NEW n \in Reservations, Reserve(n)
  PROVE  /\ n \in Nat /\ reserved = -1 /\ reserved' = n /\ mix' = mix
         /\ SameContent(order_index', order_index)
         /\ Sound(order_index', mix, capacity(order_index'))
         /\ Suffices(capacity(order_index'), n)
         /\ PoolInv(pool') /\ pool.size = 0 /\ pool'.size = 0
         /\ n <= Len(pool'.chunks) * kChunkSize
<1>1. /\ n \in Nat /\ reserved = -1 /\ reserved' = n /\ mix' = mix
      /\ order_index' = reserve(order_index, mix, n) /\ pool' = reserve_chunks(pool, n)
  BY StorageAssumption DEF Reserve
<1>2. /\ mix \in [Keys -> Nat] /\ Sound(order_index, mix, capacity(order_index))
      /\ PoolInv(pool) /\ pool.size = 0
  BY <1>1 DEF SInv
<1>3. /\ SameContent(order_index', order_index)
      /\ Sound(order_index', mix, capacity(order_index'))
      /\ Suffices(capacity(order_index'), n)
  BY <1>1, <1>2, ReserveKeeps
<1>4. PoolInv(pool') /\ pool'.size = 0 /\ n <= Len(pool'.chunks) * kChunkSize
  BY <1>1, <1>2, ReserveChunksKeeps
<1> QED
  BY <1>1, <1>2, <1>3, <1>4

LEMMA NewOrderDoes ==
  ASSUME SInv, NEW id \in Keys, NewOrder(id)
  PROVE  /\ mix' = mix /\ reserved' = reserved /\ reserved >= 0
         /\ TakenIn(pool, pool', id)
         /\ Inserted(order_index, order_index', mix, id, pool.size)
<1>1. /\ mix \in [Keys -> Nat] /\ Sound(order_index, mix, capacity(order_index))
      /\ PoolInv(pool) /\ pool.size \in Nat
  BY DEF SInv, PoolInv
<1>2. /\ mix' = mix /\ reserved' = reserved /\ reserved >= 0
      /\ pool' = Written(allocate(pool), pool.size, id)
      /\ order_index' = insert(order_index, mix, id, pool.size)
      /\ ~contains(order_index, mix, id)
  BY DEF NewOrder, MayTake, Taken
<1>3. ~Present(order_index, id)
  BY <1>1, <1>2, SlotOfIs
<1>4. TakenIn(pool, pool', id)
  BY <1>1, <1>2, TakeKeeps
<1>5. Inserted(order_index, order_index', mix, id, pool.size)
  BY <1>1, <1>2, <1>3, InsertKeeps
<1> QED
  BY <1>2, <1>4, <1>5

\* The key leads to the new slot, the others where they led before.
Repointed(slots, s2, hash, k, v) ==
  /\ Sound(s2, hash, capacity(s2)) /\ capacity(s2) = capacity(slots)
  /\ size(s2) = size(slots)
  /\ \A l \in Keys, w \in Nat : Holds(s2, l, w) <=> IF l = k THEN w = v ELSE Holds(slots, l, w)

LEMMA SameIdDoes ==
  ASSUME SInv, NEW id \in Keys, SameId(id)
  PROVE  /\ mix' = mix /\ reserved' = reserved /\ reserved >= 0
         /\ TakenIn(pool, pool', id)
         /\ Repointed(order_index, order_index', mix, id, pool.size)
<1> DEFINE cap == capacity(order_index)
<1>1. /\ mix \in [Keys -> Nat] /\ Sound(order_index, mix, cap)
      /\ PoolInv(pool) /\ pool.size \in Nat
  BY DEF SInv, PoolInv
<1>2. /\ mix' = mix /\ reserved' = reserved /\ reserved >= 0
      /\ pool' = Written(allocate(pool), pool.size, id)
      /\ order_index' = assign_existing(order_index, mix, id, pool.size)
      /\ contains(order_index, mix, id)
  BY DEF SameId, MayTake, Taken
<1>3. Present(order_index, id)
  BY <1>1, <1>2, SlotOfIs
<1>4. TakenIn(pool, pool', id)
  BY <1>1, <1>2, TakeKeeps
<1> HIDE DEF cap
<1>5. WellPlaced(order_index, mix, cap) /\ IsPower(cap) /\ size(order_index) < cap
  BY <1>1, SoundFacts
<1>6. /\ WellPlaced(order_index', mix, cap) /\ size(order_index') = size(order_index)
      /\ \A l \in Keys, w \in Nat :
           Holds(order_index', l, w) <=> IF l = id THEN w = pool.size
                                         ELSE Holds(order_index, l, w)
  BY <1>1, <1>2, <1>3, <1>5, AssignKeeps
<1>7. Sound(order_index', mix, cap)
  BY <1>5, <1>6 DEF Sound
<1>8. capacity(order_index') = cap
  BY <1>7, SoundFacts
<1>9. Repointed(order_index, order_index', mix, id, pool.size)
  BY <1>6, <1>7, <1>8 DEF Repointed, cap
<1> QED
  BY <1>2, <1>4, <1>9

LEMMA IndexCannotGrowDoes ==
  ASSUME SInv, NEW id \in Keys, IndexCannotGrow(id)
  PROVE  /\ mix' = mix /\ reserved' = reserved /\ reserved >= 0
         /\ order_index' = order_index /\ ~contains(order_index, mix, id)
         /\ MustGrow(order_index)
         /\ TakenIn(pool, pool', id)
<1>1. PoolInv(pool)
  BY DEF SInv
<1>2. pool' = Written(allocate(pool), pool.size, id)
  BY DEF IndexCannotGrow, Taken
<1>3. TakenIn(pool, pool', id)
  BY <1>1, <1>2, TakeKeeps
<1> QED
  BY <1>3 DEF IndexCannotGrow, MayTake

\* Room that was enough stays enough,
LEMMA SufficesGrows ==
  ASSUME NEW c \in Nat, NEW c2 \in Nat, c2 >= c, NEW n \in Nat, Suffices(c, n)
  PROVE  Suffices(c2, n)
<1>1. 10 * n <= 7 * c
  BY SufficesIs
<1>2. 10 * n <= 7 * c2
  BY <1>1
<1> QED
  BY <1>2, SufficesIs

\* also when a slot is taken.
LEMMA TakenRoom ==
  ASSUME NEW p, PoolInv(p), NEW p2, NEW id, TakenIn(p, p2, id),
         NEW n \in Nat, n <= Len(p.chunks) * kChunkSize
  PROVE  n <= Len(p2.chunks) * kChunkSize
<1> DEFINE l == Len(p.chunks)
<1>1. l \in Nat /\ kChunkSize \in Nat
  BY ChunkAssumption DEF PoolInv
<1>2. Len(p2.chunks) = l + 1 \/ Len(p2.chunks) = l
  BY DEF TakenIn
<1> DEFINE lk == l * kChunkSize
<1>3. (l + 1) * kChunkSize = lk + kChunkSize /\ lk \in Nat
  <2> HIDE DEF l
  <2> QED
    BY <1>1, OneMore
<1>4. n <= lk /\ lk <= lk + kChunkSize
  <2>1. n <= lk
    OBVIOUS
  <2> HIDE DEF lk
  <2> QED
    BY <1>1, <1>3, <2>1
<1>5. n <= lk + kChunkSize
  <2> HIDE DEF lk
  <2> QED
    BY <1>1, <1>3, <1>4
<1> QED
  BY <1>2, <1>3, <1>4, <1>5

\* A step that takes a slot leaves the pool and the reservation in order.
LEMMA TakingKeeps ==
  ASSUME SInv, NEW id, TakenIn(pool, pool', id), mix' = mix,
         reserved' = reserved, reserved >= 0,
         Sound(order_index', mix, capacity(order_index')),
         capacity(order_index') >= capacity(order_index),
         size(order_index') <= size(order_index) + 1
  PROVE  SInv'
<1>1. /\ PoolInv(pool') /\ pool'.size = pool.size + 1 /\ PoolInv(pool)
      /\ reserved \in Nat /\ pool.size \in Nat
      /\ Suffices(capacity(order_index), reserved)
      /\ reserved <= Len(pool.chunks) * kChunkSize
  BY DEF TakenIn, SInv, PoolInv
<1>2. capacity(order_index) \in Nat /\ capacity(order_index') \in Nat
  BY SoundFacts DEF SInv
<1>3. Suffices(capacity(order_index'), reserved)
  BY <1>1, <1>2, SufficesGrows
<1>4. reserved <= Len(pool'.chunks) * kChunkSize
  BY <1>1, TakenRoom
<1>5. size(order_index) \in Nat /\ size(order_index') \in Nat /\ size(order_index) <= pool.size
  BY SoundFacts DEF SInv
<1>6. size(order_index') <= pool'.size
  BY <1>1, <1>5
<1>7. mix' \in [Keys -> Nat] /\ Sound(order_index', mix', capacity(order_index'))
  BY DEF SInv
<1> QED
  BY <1>1, <1>3, <1>4, <1>6, <1>7 DEF SInv

LEMMA NextStorage == SInv /\ [Next]_vars => SInv'
<1> SUFFICES ASSUME SInv, [Next]_vars PROVE SInv'
  OBVIOUS
<1>1. ASSUME NEW n \in Reservations, Reserve(n) PROVE SInv'
  <2>1. /\ n \in Nat /\ reserved' = n /\ mix' = mix
        /\ SameContent(order_index', order_index)
        /\ Sound(order_index', mix, capacity(order_index'))
        /\ Suffices(capacity(order_index'), n)
        /\ PoolInv(pool') /\ pool.size = 0 /\ pool'.size = 0
        /\ n <= Len(pool'.chunks) * kChunkSize
    BY <1>1, ReserveDoes
  <2>2. size(order_index') <= pool'.size
    BY <2>1 DEF SInv, SameContent
  <2>3. mix' \in [Keys -> Nat] /\ Sound(order_index', mix', capacity(order_index'))
    BY <2>1 DEF SInv
  <2> QED
    BY <2>1, <2>2, <2>3 DEF SInv
<1>2. ASSUME NEW id \in Keys, NewOrder(id) PROVE SInv'
  <2>1. /\ mix' = mix /\ reserved' = reserved /\ reserved >= 0
        /\ TakenIn(pool, pool', id)
        /\ Inserted(order_index, order_index', mix, id, pool.size)
    BY <1>2, NewOrderDoes
  <2>2. /\ Sound(order_index', mix, capacity(order_index'))
        /\ capacity(order_index') >= capacity(order_index)
        /\ size(order_index') = size(order_index) + 1
    BY <2>1 DEF Inserted
  <2>3. size(order_index) + 1 <= size(order_index) + 1
    <3>1. size(order_index) \in Nat
      BY SoundFacts DEF SInv
    <3> QED
      BY <3>1
  <2> QED
    BY <2>1, <2>2, <2>3, TakingKeeps
<1>3. ASSUME NEW id \in Keys, SameId(id) PROVE SInv'
  <2>1. /\ mix' = mix /\ reserved' = reserved /\ reserved >= 0
        /\ TakenIn(pool, pool', id)
        /\ Repointed(order_index, order_index', mix, id, pool.size)
    BY <1>3, SameIdDoes
  <2>2. /\ Sound(order_index', mix, capacity(order_index'))
        /\ capacity(order_index') = capacity(order_index)
        /\ size(order_index') = size(order_index)
    BY <2>1 DEF Repointed
  <2>3. size(order_index) \in Nat /\ capacity(order_index) \in Nat
    BY SoundFacts DEF SInv
  <2> QED
    BY <2>1, <2>2, <2>3, TakingKeeps
<1>4. ASSUME NEW id \in Keys, IndexCannotGrow(id) PROVE SInv'
  <2>1. /\ mix' = mix /\ reserved' = reserved /\ reserved >= 0
        /\ order_index' = order_index /\ TakenIn(pool, pool', id)
    BY <1>4, IndexCannotGrowDoes
  <2>2. /\ size(order_index) \in Nat /\ capacity(order_index) \in Nat
        /\ Sound(order_index, mix, capacity(order_index))
    BY SoundFacts DEF SInv
  <2> QED
    BY <2>1, <2>2, TakingKeeps
<1>5. ASSUME UNCHANGED vars PROVE SInv'
  <2>1. mix' = mix /\ order_index' = order_index /\ pool' = pool /\ reserved' = reserved
    BY <1>5 DEF vars
  <2> QED
    BY <2>1 DEF SInv
<1> QED
  BY <1>1, <1>2, <1>3, <1>4, <1>5 DEF Next, PoolCannotGrow

LEMMA StorageInvariant == Spec => []SInv
BY InitStorage, NextStorage, PTL DEF Spec

-----------------------------------------------------------------------------
(***************************************************************************)
(* find and insert never go round for ever (flat_hash_map.hpp): whatever   *)
(* is stored, however keys collide, the probe for any key ends.            *)
(***************************************************************************)
THEOREM ProbesEndHolds == Spec => []ProbesEnd
<1>1. SInv => ProbesEnd
  <2> SUFFICES ASSUME SInv, NEW k \in Keys PROVE ProbeEnds(order_index, mix[k], k) # {}
    BY DEF ProbesEnd
  <2> DEFINE cap == capacity(order_index)
  <2>1. mix \in [Keys -> Nat] /\ Sound(order_index, mix, cap)
    BY DEF SInv
  <2> HIDE DEF cap
  <2>2. WellPlaced(order_index, mix, cap) /\ HasRoom(order_index)
    BY <2>1, SoundFacts
  <2> QED
    BY <2>1, <2>2, LookupIs
<1> QED
  BY <1>1, StorageInvariant, PTL

(***************************************************************************)
(* `& mask_` stands for the remainder: the capacity of the id index is a   *)
(* power of two at all times (flat_hash_map.hpp), which Probed relies on.  *)
(***************************************************************************)
CapacityIsPower == bit_ceil[capacity(order_index)] = capacity(order_index)

THEOREM CapacityIsPowerHolds == Spec => []CapacityIsPower
<1>1. SInv => CapacityIsPower
  BY DEF SInv, Sound, IsPower, CapacityIsPower
<1> QED
  BY <1>1, StorageInvariant, PTL

(***************************************************************************)
(* Slots handed out have places of their own and keep them, whatever the   *)
(* pool allocates later (order_pool.hpp: slot indices remain valid).       *)
(***************************************************************************)
THEOREM SlotsStayHolds == Spec => SlotsStay
<1> DEFINE Stays == \A s \in 0 .. pool.size - 1 : Address(pool', s) = Address(pool, s)
           Apart == \A s, t \in 0 .. pool'.size - 1 :
                      s # t => Address(pool', s) # Address(pool', t)
<1>1. SInv /\ SInv' /\ [Next]_vars => [Stays /\ Apart]_vars
  <2> SUFFICES ASSUME SInv, SInv', Next PROVE Stays /\ Apart
    BY DEF vars
  <2>1. Apart
    <3>1. PoolInv(pool')
      BY DEF SInv
    <3> QED
      BY <3>1, AddressesDiffer
  <2>2. ASSUME NEW id, TakenIn(pool, pool', id) PROVE Stays
    BY <2>2 DEF TakenIn
  <2>3. ASSUME NEW n \in Reservations, Reserve(n) PROVE Stays
    <3>1. pool.size = 0
      BY <2>3, ReserveDoes
    <3> QED
      BY <3>1
  <2>4. ASSUME UNCHANGED vars PROVE Stays
    <3>1. pool' = pool
      BY <2>4 DEF vars
    <3> QED
      BY <3>1
  <2>5. ASSUME NEW id \in Keys, NewOrder(id) \/ SameId(id) \/ IndexCannotGrow(id)
        PROVE  TakenIn(pool, pool', id)
    BY <2>5, NewOrderDoes, SameIdDoes, IndexCannotGrowDoes
  <2> HIDE DEF Stays, Apart
  <2> QED
    BY <2>1, <2>2, <2>3, <2>4, <2>5 DEF Next, PoolCannotGrow
<1> HIDE DEF Stays, Apart
<1>2. Spec => [][Stays /\ Apart]_vars
  BY <1>1, StorageInvariant, PTL DEF Spec
<1> QED
  BY <1>2, PTL DEF SlotsStay, Stays, Apart

(***************************************************************************)
(* What configure reserved is enough: while no more slots are taken,       *)
(* neither the pool nor the id index allocates (engine.cpp:14-17).         *)
(***************************************************************************)
THEOREM ReservationSufficesHolds == Spec => ReservationSuffices
<1> DEFINE Fits == reserved >= 0 /\ pool'.size <= reserved
           Stay == /\ capacity(order_index') = capacity(order_index)
                   /\ Len(pool'.chunks) = Len(pool.chunks)
<1>1. SInv /\ [Next]_vars => [Fits => Stay]_vars
  <2> SUFFICES ASSUME SInv, Next, Fits PROVE Stay
    BY DEF vars
  <2>1. /\ reserved \in Nat /\ Suffices(capacity(order_index), reserved)
        /\ reserved <= Len(pool.chunks) * kChunkSize
        /\ PoolInv(pool) /\ pool.size \in Nat /\ size(order_index) <= pool.size
        /\ capacity(order_index) \in Nat /\ size(order_index) \in Nat
    BY SoundFacts DEF SInv, PoolInv
  <2>2. ASSUME NEW id, TakenIn(pool, pool', id)
        PROVE  Len(pool'.chunks) = Len(pool.chunks) /\ ~MustGrow(order_index)
    <3>1. pool.size + 1 <= reserved
      BY <2>2 DEF TakenIn
    <3> DEFINE room == Len(pool.chunks) * kChunkSize
    <3>2. pool.size < room
      <4>1. Len(pool.chunks) \in Nat /\ kChunkSize \in Nat
        BY ChunkAssumption DEF SInv, PoolInv
      <4>2. room \in Nat /\ reserved <= room
        BY <2>1, <4>1, OneMore
      <4> HIDE DEF room
      <4> QED
        BY <2>1, <3>1, <4>2
    <3>3. ~NeedsChunk(pool)
      <4> DEFINE q == pool.size \div kChunkSize
                 l == Len(pool.chunks)
      <4>1. q \in Nat /\ l \in Nat /\ q < l
        <5>1. l \in Nat /\ kChunkSize \in Nat \ {0}
          BY ChunkAssumption DEF SInv, PoolInv
        <5> QED
          BY <2>1, <3>2, <5>1, QuotientBounds
      <4>2. NeedsChunk(pool) <=> q >= l
        BY DEF NeedsChunk
      <4> HIDE DEF q, l
      <4> QED
        BY <4>1, <4>2
    <3>4. ~MustGrow(order_index)
      <4> DEFINE free == (capacity(order_index) * 7) \div 10
      <4>1. free \in Int /\ reserved <= free
        BY <2>1 DEF Suffices
      <4> HIDE DEF free
      <4>2. size(order_index) + 1 <= free
        BY <2>1, <3>1, <4>1
      <4>3. MustGrow(order_index) <=> size(order_index) + 1 > free
        BY DEF MustGrow, free
      <4> QED
        BY <2>1, <4>1, <4>2, <4>3
    <3> QED
      BY <2>2, <3>3, <3>4 DEF TakenIn
  <2>3. ASSUME NEW n \in Reservations, Reserve(n) PROVE FALSE
    BY <2>1, <2>3 DEF Reserve
  <2>4. ASSUME NEW id \in Keys, NewOrder(id) PROVE Stay
    <3>1. TakenIn(pool, pool', id) /\ Inserted(order_index, order_index', mix, id, pool.size)
      BY <2>4, NewOrderDoes
    <3> QED
      BY <2>2, <3>1 DEF Inserted
  <2>5. ASSUME NEW id \in Keys, SameId(id) PROVE Stay
    <3>1. TakenIn(pool, pool', id) /\ Repointed(order_index, order_index', mix, id, pool.size)
      BY <2>5, SameIdDoes
    <3> QED
      BY <2>2, <3>1 DEF Repointed
  <2>6. ASSUME NEW id \in Keys, IndexCannotGrow(id) PROVE Stay
    <3>1. TakenIn(pool, pool', id) /\ order_index' = order_index
      BY <2>6, IndexCannotGrowDoes
    <3> QED
      BY <2>2, <3>1
  <2>7. ASSUME UNCHANGED vars PROVE Stay
    BY <2>7 DEF vars
  <2> HIDE DEF Stay
  <2> QED
    BY <2>3, <2>4, <2>5, <2>6, <2>7 DEF Next, PoolCannotGrow
<1> HIDE DEF Fits, Stay
<1>2. Spec => [][Fits => Stay]_vars
  BY <1>1, StorageInvariant, PTL DEF Spec
<1> QED
  BY <1>2 DEF ReservationSuffices, Fits, Stay

-----------------------------------------------------------------------------
(***************************************************************************)
(* OrderStorage implements OrderStore: every order gets the next slot for  *)
(* good and an id leads to the last slot it was given, through every       *)
(* collision, rehash and failed growth.                                    *)
(***************************************************************************)
THEOREM ImplementsStoreHolds == Spec => ImplementsStore
<1> DEFINE slots == [k \in Keys |-> SlotOf(order_index, mix, k)]
           o     == Owners(pool)
<1>1. Init => Store!Init
  <2> SUFFICES ASSUME Init PROVE Store!Init
    OBVIOUS
  <2>1. SInv /\ pool.size = 0 /\ order_index = Vacant(kInitialCapacity)
    BY InitStorage DEF Init, NewPool
  <2>2. ASSUME NEW k \in Keys PROVE ~contains(order_index, mix, k)
    <3>1. mix \in [Keys -> Nat] /\ Sound(order_index, mix, capacity(order_index))
      BY <2>1 DEF SInv
    <3>2. ~Present(order_index, k)
      BY <2>1 DEF Present, Vacant
    <3> QED
      BY <3>1, <3>2, SlotOfIs
  <2>3. [k \in Keys |-> IF contains(order_index, mix, k)
                        THEN find(order_index, mix, k) ELSE -1] = [k \in Keys |-> -1]
    BY <2>2
  <2>4. [n \in 1 .. pool.size |-> Record(pool, n - 1)] = <<>>
    BY <2>1
  <2> QED
    BY <2>3, <2>4 DEF Store!Init
<1>2. SInv /\ SInv' /\ [Next]_vars => [Store!Next]_Store!vars
  <2> SUFFICES ASSUME SInv, SInv', [Next]_vars PROVE [Store!Next]_Store!vars
    OBVIOUS
  <2>1. /\ mix \in [Keys -> Nat] /\ Sound(order_index, mix, capacity(order_index))
        /\ PoolInv(pool) /\ pool.size \in Nat
        /\ Sound(order_index', mix', capacity(order_index'))
    BY DEF SInv, PoolInv
  \* In terms of slots and o: what the abstract actions are.
  <2>2. ASSUME NEW id \in Keys, o' = Append(o, id), slots' = [slots EXCEPT ![id] = Len(o)]
        PROVE  Store!Next
    <3>1. Store!Give(id)
      BY <2>2 DEF Store!Give, SlotOf, Owners
    <3> QED
      BY <3>1 DEF Store!Next
  <2>3. ASSUME NEW id \in Keys, slots[id] = -1, o' = Append(o, id), slots' = slots
        PROVE  Store!Next
    <3>1. Store!Leak(id)
      BY <2>3 DEF Store!Leak, SlotOf, Owners
    <3> QED
      BY <3>1 DEF Store!Next
  <2>4. ASSUME slots' = slots, o' = o PROVE UNCHANGED Store!vars
    BY <2>4 DEF Store!vars, SlotOf, Owners
  <2>5. ASSUME NEW n \in Reservations, Reserve(n) PROVE slots' = slots /\ o' = o
    <3>1. /\ mix' = mix /\ SameContent(order_index', order_index)
          /\ pool.size = 0 /\ pool'.size = 0
      BY <2>5, ReserveDoes
    <3>2. ASSUME NEW k \in Keys PROVE SlotOf(order_index', mix, k) = SlotOf(order_index, mix, k)
      BY <2>1, <3>1, SameSlots DEF SameContent
    <3>3. Owners(pool') = Owners(pool)
      BY <3>1 DEF Owners
    <3> QED
      BY <3>1, <3>2, <3>3
  <2>6. ASSUME NEW id \in Keys, NewOrder(id)
        PROVE  o' = Append(o, id) /\ slots' = [slots EXCEPT ![id] = Len(o)]
    <3>1. /\ mix' = mix /\ TakenIn(pool, pool', id)
          /\ Inserted(order_index, order_index', mix, id, pool.size)
      BY <2>6, NewOrderDoes
    <3>2. Owners(pool') = Append(Owners(pool), id) /\ Len(Owners(pool)) = pool.size
      BY <2>1, <3>1, OwnersGrow
    <3>3. /\ Holds(order_index', id, pool.size)
          /\ \A l \in Keys : l # id => \A w \in Nat :
               Holds(order_index', l, w) <=> Holds(order_index, l, w)
      BY <2>1, <3>1 DEF Inserted
    <3>4. PointedAt(order_index, order_index', mix, id, pool.size)
      BY <2>1, <3>1, <3>3, PointsAt
    <3> QED
      BY <3>1, <3>2, <3>4 DEF PointedAt
  <2>7. ASSUME NEW id \in Keys, SameId(id)
        PROVE  o' = Append(o, id) /\ slots' = [slots EXCEPT ![id] = Len(o)]
    <3>1. /\ mix' = mix /\ TakenIn(pool, pool', id)
          /\ Repointed(order_index, order_index', mix, id, pool.size)
      BY <2>7, SameIdDoes
    <3>2. Owners(pool') = Append(Owners(pool), id) /\ Len(Owners(pool)) = pool.size
      BY <2>1, <3>1, OwnersGrow
    <3>3. /\ Holds(order_index', id, pool.size)
          /\ \A l \in Keys : l # id => \A w \in Nat :
               Holds(order_index', l, w) <=> Holds(order_index, l, w)
      BY <2>1, <3>1 DEF Repointed
    <3>4. PointedAt(order_index, order_index', mix, id, pool.size)
      BY <2>1, <3>1, <3>3, PointsAt
    <3> QED
      BY <3>1, <3>2, <3>4 DEF PointedAt
  <2>8. ASSUME NEW id \in Keys, IndexCannotGrow(id)
        PROVE  slots[id] = -1 /\ o' = Append(o, id) /\ slots' = slots
    <3>1. /\ mix' = mix /\ order_index' = order_index /\ TakenIn(pool, pool', id)
          /\ ~contains(order_index, mix, id)
      BY <2>8, IndexCannotGrowDoes
    <3>2. Owners(pool') = Append(Owners(pool), id)
      BY <2>1, <3>1, OwnersGrow
    <3> QED
      BY <3>1, <3>2 DEF SlotOf
  <2>9. ASSUME UNCHANGED vars PROVE slots' = slots /\ o' = o
    <3>1. mix' = mix /\ order_index' = order_index /\ pool' = pool
      BY <2>9 DEF vars
    <3> QED
      BY <3>1
  <2> HIDE DEF slots, o
  <2> QED
    BY <2>2, <2>3, <2>4, <2>5, <2>6, <2>7, <2>8, <2>9 DEF Next, PoolCannotGrow
<1> QED
  BY <1>1, <1>2, StorageInvariant, PTL DEF Spec, ImplementsStore, Store!Spec

==============================================================================
