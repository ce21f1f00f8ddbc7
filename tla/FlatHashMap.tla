----------------------------- MODULE FlatHashMap -----------------------------
(***************************************************************************)
(* FlatHashMap of flat_hash_map.hpp: open addressing with linear probing,  *)
(* doubling at a load of 7/10, no erasure.  A map is the array of its      *)
(* slots; its capacity is their number and its size that of the occupied   *)
(* ones.  mix is any function from keys to hashes, and stands for the      *)
(* avalanche mix: nothing may depend on how well it spreads.               *)
(***************************************************************************)
EXTENDS Integers, FiniteSets, FiniteSetsExt

CONSTANTS
  Keys,              \* keys a map may hold
  kInitialCapacity,  \* slots of a new map (16 in the code)
  kEmpty             \* the slot that holds no entry

Entry == [key : Keys, value : Nat]

\* std::bit_ceil: the least power of two that is not below n.
bit_ceil[n \in Nat] == IF n <= 1 THEN 1 ELSE 2 * bit_ceil[(n + 1) \div 2]

ASSUME MapAssumption ==
  /\ kInitialCapacity \in Nat
  /\ bit_ceil[kInitialCapacity] = kInitialCapacity
  /\ kEmpty \notin Entry

Vacant(cap) == [x \in 0 .. cap - 1 |-> kEmpty]

capacity(slots) == Cardinality(DOMAIN slots)
Occupied(slots) == {x \in DOMAIN slots : slots[x] # kEmpty}
size(slots)     == Cardinality(Occupied(slots))

-----------------------------------------------------------------------------
\* The k-th slot a probe for a key with this hash looks at: `& mask_` is the
\* remainder because a capacity is a power of two.
Probed(slots, hash, k) == (hash + k) % capacity(slots)

\* Probe lengths at which the loop of find may stop: a free slot or the key.
\* It stops at the first; with none it would go round for ever.
ProbeEnds(slots, hash, key) ==
  {k \in 0 .. capacity(slots) - 1 :
     LET s == slots[Probed(slots, hash, k)] IN s = kEmpty \/ s.key = key}

\* The slot the key is found in, or the free slot it would go to; -1 when the
\* probe does not end.
Probe(slots, hash, key) ==
  IF ProbeEnds(slots, hash, key) = {} THEN -1
  ELSE Probed(slots, hash, Min(ProbeEnds(slots, hash, key)))

contains(slots, mix, key) ==
  LET x == Probe(slots, mix[key], key) IN x >= 0 /\ slots[x] # kEmpty

find(slots, mix, key) == slots[Probe(slots, mix[key], key)].value

\* The map after a key that is not in it has gone to the first free slot.
place(slots, mix, key, value) ==
  [slots EXCEPT ![Probe(slots, mix[key], key)] = [key |-> key, value |-> value]]

assign_existing(slots, mix, key, value) ==
  [slots EXCEPT ![Probe(slots, mix[key], key)].value = value]

-----------------------------------------------------------------------------
\* Slip: the quotient is not rounded up.
capacity_for_rounded_down(n) == bit_ceil[(n * 10) \div 7]

\* bit_ceil(n / kMaxLoadFactor + 1), the load factor being 7/10.
capacity_for(n) == bit_ceil[(n * 10) \div 7 + 1]

\* Slip: the entries are copied to the places they had.
rehash_in_place(slots, mix, new_capacity) ==
  [x \in 0 .. new_capacity - 1 |-> IF x \in DOMAIN slots THEN slots[x] ELSE kEmpty]

\* Every entry is placed anew in cap slots, in the order of the old array.
Replaced(slots, mix, cap) ==
  LET placed[n \in 0 .. capacity(slots)] ==  \* the map after n old slots
        IF n = 0 THEN Vacant(cap)
        ELSE LET s == slots[n - 1]
             IN IF s = kEmpty THEN placed[n - 1]
                ELSE place(placed[n - 1], mix, s.key, s.value)
  IN placed[capacity(slots)]

\* The new capacity is never below what the entries need.
rehash(slots, mix, new_capacity) ==
  LET least == capacity_for(size(slots))
  IN Replaced(slots, mix, IF new_capacity < least THEN least ELSE new_capacity)

\* Slip: the map may fill up.
MustGrow_when_full(slots) == size(slots) + 1 > capacity(slots)

\* Does the next insert double the map first?
MustGrow(slots) == size(slots) + 1 > (capacity(slots) * 7) \div 10

insert(slots, mix, key, value) ==
  place(IF MustGrow(slots) THEN rehash(slots, mix, capacity(slots) * 2) ELSE slots,
        mix, key, value)

\* reserve never shrinks the map.
reserve(slots, mix, n) ==
  IF capacity_for(n) > capacity(slots) THEN rehash(slots, mix, capacity_for(n)) ELSE slots

=============================================================================
