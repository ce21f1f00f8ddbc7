------------------------------ MODULE BookProofs ------------------------------
(***************************************************************************)
(* What the operators of OrderBook return, and what its operations keep:   *)
(* for every ladder, width and pool, a book's lists stay linked and in     *)
(* order, and the books of other instruments stay as they are.             *)
(***************************************************************************)
EXTENDS OrderBook, DataProofs

(***************************************************************************)
(* The indices of a ladder are naturals below a bound.                     *)
(***************************************************************************)
LEMMA IndexIsInterval ==
  ASSUME NEW i \in Instruments
  PROVE  \E n \in Nat : Index(i) = 0 .. n - 1
<1>1. IsFiniteSet(Index(i)) /\ Index(i) = 0 .. Cardinality(Index(i)) - 1
  BY LadderAssumption DEF IsLadder
<1>2. Cardinality(Index(i)) \in Nat
  BY <1>1, FS_CardinalityType
<1> QED
  BY <1>1, <1>2

(***************************************************************************)
(* find_highest_le returns the nearest set bit at or below start, or -1    *)
(* when there is none.                                                     *)
(***************************************************************************)
LEMMA FindHighestLe ==
  ASSUME NEW i \in Instruments, NEW bits \in SUBSET Index(i), NEW start \in Int
  PROVE  LET found == find_highest_le(bits, start)
         IN \/ found = -1 /\ \A b \in bits : b > start
            \/ found \in bits /\ found <= start /\ \A b \in bits : b <= start => b <= found
<1> DEFINE S == {b \in bits : b <= start}
<1>1. PICK n \in Nat : Index(i) = 0 .. n - 1
  BY IndexIsInterval
<1>2. S \subseteq Nat /\ \A s \in S : s <= n
  BY <1>1
<1>3. S # {} => Max(S) \in S /\ \A s \in S : s <= Max(S)
  <2> HIDE DEF S
  <2> QED
    BY <1>2, MaxOf
<1> QED
  BY <1>1, <1>3 DEF find_highest_le

(***************************************************************************)
(* find_lowest_ge returns the nearest set bit at or above start, or -1     *)
(* when there is none.                                                     *)
(***************************************************************************)
LEMMA FindLowestGe ==
  ASSUME NEW i \in Instruments, NEW bits \in SUBSET Index(i), NEW start \in Int
  PROVE  LET found == find_lowest_ge(bits, start)
         IN \/ found = -1 /\ \A b \in bits : b < start
            \/ found \in bits /\ found >= start /\ \A b \in bits : b >= start => found <= b
<1> DEFINE S == {b \in bits : b >= start}
<1>1. PICK n \in Nat : Index(i) = 0 .. n - 1
  BY IndexIsInterval
<1>2. S \subseteq Nat
  BY <1>1
<1>3. S # {} => Min(S) \in S /\ \A s \in S : Min(S) <= s
  <2> HIDE DEF S
  <2> QED
    BY <1>2, MinOf
<1> QED
  BY <1>1, <1>3 DEF find_lowest_ge

(***************************************************************************)
(* When the best level x has just emptied, next_index finds the best of    *)
(* the levels left, or -1 when none is left: what remove_resting relies on *)
(* to relocate the cached best index.                                      *)
(***************************************************************************)
LEMMA NextIndex ==
  ASSUME NEW i \in Instruments, NEW bits \in SUBSET Index(i), NEW side \in Side,
         NEW x \in Index(i), \A b \in bits : ~Better(side, b, x), x \notin bits
  PROVE  LET found == next_index(bits, side, x)
         IN \/ found = -1 /\ bits = {}
            \/ found \in bits /\ \A b \in bits : ~Better(side, b, found)
<1>1. PICK n \in Nat : Index(i) = 0 .. n - 1
  BY IndexIsInterval
<1>2. CASE side = "kBuy"
  <2>1. next_index(bits, side, x) = find_highest_le(bits, x - 1)
    BY <1>2 DEF next_index
  <2>2. \A b \in bits : b <= x - 1
    BY <1>1, <1>2 DEF Better
  <2>3. \/ find_highest_le(bits, x - 1) = -1 /\ \A b \in bits : b > x - 1
        \/ /\ find_highest_le(bits, x - 1) \in bits
           /\ \A b \in bits : b <= x - 1 => b <= find_highest_le(bits, x - 1)
    <3>1. x - 1 \in Int
      BY <1>1
    <3> QED
      BY <3>1, FindHighestLe
  <2> QED
    BY <1>1, <1>2, <2>1, <2>2, <2>3 DEF Better
<1>3. CASE side = "kSell"
  <2>1. next_index(bits, side, x) = find_lowest_ge(bits, x + 1)
    BY <1>3 DEF next_index
  <2>2. \A b \in bits : b >= x + 1
    BY <1>1, <1>3 DEF Better
  <2>3. \/ find_lowest_ge(bits, x + 1) = -1 /\ \A b \in bits : b < x + 1
        \/ /\ find_lowest_ge(bits, x + 1) \in bits
           /\ \A b \in bits : b >= x + 1 => find_lowest_ge(bits, x + 1) <= b
    <3>1. x + 1 \in Int
      BY <1>1
    <3> QED
      BY <3>1, FindLowestGe
  <2> QED
    BY <1>1, <1>3, <2>1, <2>2, <2>3 DEF Better
<1> QED
  BY <1>2, <1>3 DEF Side

-----------------------------------------------------------------------------
(***************************************************************************)
(* The conversions between prices and indices.                             *)
(***************************************************************************)
LEMMA PriceToIndex ==
  ASSUME NEW i \in Instruments, NEW price
  PROVE  \/ price_to_index(i, price) = -1
         \/ /\ price_to_index(i, price) \in Index(i)
            /\ index_to_price(i, price_to_index(i, price)) = price
BY DEF price_to_index, index_to_price

(***************************************************************************)
(* Indices are naturals, so that -1 can stand for no level.                *)
(***************************************************************************)
LEMMA IndexFacts ==
  ASSUME NEW i \in Instruments
  PROVE  /\ Index(i) \subseteq Nat
         /\ -1 \notin Index(i)
<1>1. PICK n \in Nat : Index(i) = 0 .. n - 1
  BY IndexIsInterval
<1> QED
  BY <1>1

(***************************************************************************)
(* kInvalidSlot is no slot.                                                *)
(***************************************************************************)
LEMMA SlotFacts ==
  /\ Slots \subseteq Nat
  /\ kInvalidSlot \notin Slots
  /\ kInvalidSlot \in Nat
  /\ Slots \subseteq Link
BY WidthAssumption DEF Slots, Link, kInvalidSlot

(***************************************************************************)
(* Sums and differences of quantities stay in the word.                    *)
(***************************************************************************)
LEMMA QuantityClosed ==
  ASSUME NEW a \in Int, NEW b \in Int
  PROVE  Plus(a, b) \in Quantity /\ Minus(a, b) \in Quantity
BY WidthAssumption DEF Plus, Minus, Quantity

(***************************************************************************)
(* A quantity is its own residue.                                          *)
(***************************************************************************)
LEMMA WordArithmetic ==
  ASSUME NEW n \in Quantity
  PROVE  n % QtyMod = n
BY WidthAssumption DEF Quantity

(***************************************************************************)
(* Quantities are integers.                                                *)
(***************************************************************************)
LEMMA QuantityIsInt == Quantity \subseteq Int
BY WidthAssumption DEF Quantity

(***************************************************************************)
(* next_index returns an index of the ladder or -1.                        *)
(***************************************************************************)
LEMMA ScansTyped ==
  ASSUME NEW i \in Instruments, NEW bits \in SUBSET Index(i), NEW side \in Side, NEW x \in Int
  PROVE  next_index(bits, side, x) \in Index(i) \cup {-1}
<1>1. find_highest_le(bits, x - 1) \in Index(i) \cup {-1}
  BY FindHighestLe, x - 1 \in Int
<1>2. find_lowest_ge(bits, x + 1) \in Index(i) \cup {-1}
  BY FindLowestGe, x + 1 \in Int
<1> QED
  BY <1>1, <1>2 DEF next_index

-----------------------------------------------------------------------------
(***************************************************************************)
(* add_resting keeps the pool and the book well formed.                    *)
(***************************************************************************)
LEMMA AddRestingTyped ==
  ASSUME NEW i \in Instruments, NEW pool \in [Slots -> OrderRecord], NEW book \in Book(i),
         NEW slot \in Slots, NEW side \in Side, NEW price \in Int,
         price_to_index(i, price) \in Index(i)
  PROVE  LET after == add_resting(pool, book, i, slot, side, price)
         IN after.pool \in [Slots -> OrderRecord] /\ after.book \in Book(i)
<1> DEFINE idx   == price_to_index(i, price)
           lvl   == book.levels[side][idx]
           count == lvl.order_count + 1
           after == add_resting(pool, book, i, slot, side, price)
<1>1. lvl \in Level /\ idx \in Index(i) /\ idx \in Int
  BY IndexFacts DEF Book
<1>2. after.pool \in [Slots -> OrderRecord]
  <2> DEFINE new(s) ==
        IF s = slot
        THEN [pool[s] EXCEPT !.side = side, !.price = price, !.level_index = idx,
                             !.is_open = TRUE, !.prev = lvl.tail,
                             !.next = kInvalidSlot]
        ELSE IF s = lvl.tail THEN [pool[s] EXCEPT !.next = slot] ELSE pool[s]
  <2>1. ASSUME NEW s \in Slots PROVE new(s) \in OrderRecord
    <3>1. pool[s] \in OrderRecord
      OBVIOUS
    <3>2. lvl.tail \in Link /\ slot \in Link /\ kInvalidSlot \in Link
      BY <1>1 DEF Level, Link
    <3> HIDE DEF lvl, idx
    <3> QED
      BY <3>1, <3>2, <1>1 DEF OrderRecord
  <2>2. after.pool = [s \in Slots |-> new(s)]
    BY DEF add_resting
  <2> QED
    BY <2>1, <2>2
<1>3. after.book \in Book(i)
  <2>1. count \in Int
    BY <1>1 DEF Level
  <2>2. Plus(lvl.total_qty, pool[slot].open_qty) \in Quantity
    <3>1. pool[slot] \in OrderRecord
      OBVIOUS
    <3>2. lvl.total_qty \in Quantity /\ pool[slot].open_qty \in Quantity
      BY <1>1, <3>1 DEF Level, OrderRecord
    <3> QED
      BY <3>2, QuantityClosed, QuantityIsInt
  <2> DEFINE nl == [head        |-> IF lvl.tail = kInvalidSlot THEN slot ELSE lvl.head,
                    tail        |-> slot,
                    total_qty   |-> Plus(lvl.total_qty, pool[slot].open_qty),
                    order_count |-> count]
  <2>3. nl \in Level
    BY <1>1, <2>1, <2>2 DEF Level, Link
  <2>4. [book.levels EXCEPT ![side][idx] = nl] \in [Side -> [Index(i) -> Level]]
    <3> HIDE DEF nl
    <3> QED
      BY <1>1, <2>3 DEF Book
  <2>5. [book.bitmap EXCEPT ![side] = @ \cup {idx}] \in [Side -> SUBSET Index(i)]
    BY <1>1 DEF Book
  <2>6. [book.best EXCEPT ![side] = idx] \in [Side -> Index(i) \cup {-1}]
    BY <1>1 DEF Book
  <2> QED
    BY <2>4, <2>5, <2>6 DEF Book, add_resting
<1> QED
  BY <1>2, <1>3

(***************************************************************************)
(* Unlinking keeps every record of the pool well formed.                   *)
(***************************************************************************)
LEMMA UnlinkTyped ==
  ASSUME NEW pool \in [Slots -> OrderRecord], NEW slot \in Slots
  PROVE  Unlink(pool, slot) \in [Slots -> OrderRecord]
<1> DEFINE rec    == pool[slot]
           new(s) ==
             IF s = slot
             THEN [rec EXCEPT !.is_open = FALSE, !.prev = kInvalidSlot,
                              !.next = kInvalidSlot]
             ELSE [pool[s] EXCEPT !.next = IF s = rec.prev THEN rec.next ELSE @,
                                  !.prev = IF s = rec.next THEN rec.prev ELSE @]
<1>1. ASSUME NEW s \in Slots PROVE new(s) \in OrderRecord
  <2>1. pool[s] \in OrderRecord /\ rec \in OrderRecord /\ kInvalidSlot \in Link
    BY DEF Link
  <2>2. rec.prev \in Link /\ rec.next \in Link
    BY <2>1 DEF OrderRecord
  <2> HIDE DEF rec
  <2> QED
    BY <2>1, <2>2 DEF OrderRecord
<1>2. Unlink(pool, slot) = [s \in Slots |-> new(s)]
  BY DEF Unlink
<1> HIDE DEF new
<1> QED
  BY <1>1, <1>2

(***************************************************************************)
(* remove_resting keeps the pool and the book well formed.                 *)
(***************************************************************************)
LEMMA RemoveRestingTyped ==
  ASSUME NEW i \in Instruments, NEW pool \in [Slots -> OrderRecord], NEW book \in Book(i),
         NEW slot \in Slots, pool[slot].level_index \in Index(i)
  PROVE  LET after == remove_resting(pool, book, slot)
         IN after.pool \in [Slots -> OrderRecord] /\ after.book \in Book(i)
<1> DEFINE rec   == pool[slot]
           side  == rec.side
           idx   == rec.level_index
           lvl   == book.levels[side][idx]
           count == lvl.order_count - 1
           bits  == IF count = 0 THEN book.bitmap[side] \ {idx} ELSE book.bitmap[side]
           nl    == [head        |-> IF rec.prev = kInvalidSlot THEN rec.next ELSE lvl.head,
                     tail        |-> IF rec.next = kInvalidSlot THEN rec.prev ELSE lvl.tail,
                     total_qty   |-> Minus(lvl.total_qty, rec.open_qty),
                     order_count |-> count]
<1>1. rec \in OrderRecord
  OBVIOUS
<1>2. side \in Side /\ rec.prev \in Link /\ rec.next \in Link /\ rec.open_qty \in Quantity
  BY <1>1 DEF OrderRecord
<1>3. lvl \in Level /\ book.bitmap[side] \in SUBSET Index(i)
  BY <1>2 DEF Book
<1>4. nl \in Level
  <2>1. lvl.head \in Link /\ lvl.tail \in Link /\ lvl.total_qty \in Quantity /\ count \in Int
    BY <1>3 DEF Level
  <2>2. Minus(lvl.total_qty, rec.open_qty) \in Quantity
    BY <1>2, <2>1, QuantityClosed, QuantityIsInt
  <2> HIDE DEF rec, lvl, count
  <2> QED
    BY <1>2, <2>1, <2>2 DEF Level
<1>5. bits \in SUBSET Index(i)
  BY <1>3
<1>6. BestAfter(book, bits, side, idx, count) \in Index(i) \cup {-1}
  <2>1. next_index(bits, side, idx) \in Index(i) \cup {-1}
    BY <1>2, <1>5, ScansTyped, IndexFacts
  <2>2. book.best[side] \in Index(i) \cup {-1}
    BY <1>2 DEF Book
  <2> QED
    BY <2>1, <2>2 DEF BestAfter
<1>7. remove_resting(pool, book, slot) =
        [pool |-> Unlink(pool, slot),
         book |-> [levels |-> [book.levels EXCEPT ![side][idx] = nl],
                   bitmap |-> [book.bitmap EXCEPT ![side] = bits],
                   best   |-> [book.best EXCEPT
                                 ![side] = BestAfter(book, bits, side, idx, count)]]]
  BY DEF remove_resting
<1>8. [book.levels EXCEPT ![side][idx] = nl] \in [Side -> [Index(i) -> Level]]
  <2> HIDE DEF nl
  <2> QED
    BY <1>2, <1>4 DEF Book
<1>9. /\ [book.bitmap EXCEPT ![side] = bits] \in [Side -> SUBSET Index(i)]
      /\ [book.best EXCEPT ![side] = BestAfter(book, bits, side, idx, count)]
           \in [Side -> Index(i) \cup {-1}]
  <2> HIDE DEF bits
  <2> QED
    BY <1>2, <1>5, <1>6 DEF Book
<1> HIDE DEF nl, bits, count
<1> QED
  BY <1>7, <1>8, <1>9, UnlinkTyped DEF Book

(***************************************************************************)
(* replace_in_place keeps the pool and the book well formed.               *)
(***************************************************************************)
LEMMA ReplaceInPlaceTyped ==
  ASSUME NEW i \in Instruments, NEW pool \in [Slots -> OrderRecord], NEW book \in Book(i),
         NEW old_slot \in Slots, NEW new_slot \in Slots,
         pool[old_slot].level_index \in Index(i)
  PROVE  LET after == replace_in_place(pool, book, old_slot, new_slot)
         IN after.pool \in [Slots -> OrderRecord] /\ after.book \in Book(i)
<1> DEFINE old  == pool[old_slot]
           side == old.side
           idx  == old.level_index
           lvl  == book.levels[side][idx]
           new(s) ==
             IF s = new_slot
             THEN [pool[s] EXCEPT !.side = side, !.price = old.price, !.level_index = idx,
                                  !.is_open = TRUE, !.prev = old.prev, !.next = old.next]
             ELSE IF s = old_slot
             THEN [old EXCEPT !.is_open = FALSE, !.prev = kInvalidSlot, !.next = kInvalidSlot]
             ELSE [pool[s] EXCEPT !.next = IF s = old.prev THEN new_slot ELSE @,
                                  !.prev = IF s = old.next THEN new_slot ELSE @]
           nl   == [head        |-> IF old.prev = kInvalidSlot THEN new_slot ELSE lvl.head,
                    tail        |-> IF old.next = kInvalidSlot THEN new_slot ELSE lvl.tail,
                    total_qty   |-> Plus(Minus(lvl.total_qty, old.open_qty),
                                         pool[new_slot].open_qty),
                    order_count |-> lvl.order_count]
<1>1. old \in OrderRecord /\ kInvalidSlot \in Link /\ new_slot \in Link
  BY DEF Link
<1>2. /\ side \in Side /\ old.prev \in Link /\ old.next \in Link
      /\ old.open_qty \in Quantity /\ old.price \in Int /\ idx \in Int
  BY <1>1 DEF OrderRecord
<1>3. lvl \in Level
  BY <1>2 DEF Book
<1>4. ASSUME NEW s \in Slots PROVE new(s) \in OrderRecord
  <2>1. pool[s] \in OrderRecord
    OBVIOUS
  <2> HIDE DEF old, side, idx
  <2> QED
    BY <1>1, <1>2, <2>1 DEF OrderRecord
<1>5. nl \in Level
  <2>1. pool[new_slot] \in OrderRecord
    OBVIOUS
  <2>2. pool[new_slot].open_qty \in Quantity
    BY <2>1 DEF OrderRecord
  <2>3. /\ lvl.head \in Link /\ lvl.tail \in Link /\ lvl.total_qty \in Quantity
        /\ lvl.order_count \in Int
    BY <1>3 DEF Level
  <2>4. Minus(lvl.total_qty, old.open_qty) \in Int
    BY <1>2, <2>3, QuantityClosed, QuantityIsInt
  <2>5. Plus(Minus(lvl.total_qty, old.open_qty), pool[new_slot].open_qty) \in Quantity
    BY <2>2, <2>4, QuantityClosed, QuantityIsInt
  <2> HIDE DEF old, lvl
  <2> QED
    BY <1>1, <1>2, <2>3, <2>5 DEF Level
<1>6. replace_in_place(pool, book, old_slot, new_slot) =
        [pool |-> [s \in Slots |-> new(s)],
         book |-> [book EXCEPT !.levels[side][idx] = nl]]
  BY DEF replace_in_place
<1>7. [book EXCEPT !.levels[side][idx] = nl] \in Book(i)
  <2> HIDE DEF nl, side, idx
  <2> QED
    BY <1>2, <1>5 DEF Book
<1> HIDE DEF new, nl
<1> QED
  BY <1>4, <1>6, <1>7

-----------------------------------------------------------------------------
(***************************************************************************)
(* The intrusive list of one price level: appending, unlinking and         *)
(* splicing keep it a list of exactly its orders in the order of their     *)
(* rank.  Everything is about one level, two pools p (before) and p2       *)
(* (after) and two level records lvl and lvl2; nothing here knows about    *)
(* books.                                                                  *)
(***************************************************************************)

(***************************************************************************)
(* A linked and ordered queue that is not empty has a tail, and it is its  *)
(* last by rank.  (Without the order a ring would be linked, too.)         *)
(***************************************************************************)
LEMMA TailIsLast ==
  ASSUME NEW queue \in SUBSET Slots, NEW p, NEW lvl, NEW rank \in [Slots -> Slots],
         QueueLinked(p, lvl, queue), QueueOrdered(p, queue, rank), queue # {}
  PROVE  lvl.tail \in queue /\ \A s \in queue : rank[s] <= rank[lvl.tail]
<1> DEFINE R == {rank[s] : s \in queue}
<1>1. R \subseteq Nat /\ R # {} /\ PoolCapacity \in Nat /\ \A r \in R : r <= PoolCapacity
  <2>1. R \subseteq Slots /\ R # {}
    OBVIOUS
  <2> HIDE DEF R
  <2> QED
    BY <2>1, WidthAssumption DEF Slots
<1>2. PICK m \in R : \A r \in R : m >= r
  <2> HIDE DEF R
  <2> QED
    BY <1>1, GreatestExists
<1>3. PICK s \in queue : rank[s] = m
  OBVIOUS
<1>4. \A t \in queue : rank[t] <= rank[s] /\ rank[t] \in Nat
  BY <1>1, <1>2, <1>3
<1>5. p[s].next = kInvalidSlot
  <2>1. SUFFICES ASSUME p[s].next # kInvalidSlot PROVE FALSE
    OBVIOUS
  <2>2. p[s].next \in queue
    BY <2>1, <1>3 DEF QueueLinked
  <2>3. rank[s] < rank[p[s].next]
    BY <2>1, <1>3 DEF QueueOrdered
  <2>4. rank[p[s].next] <= rank[s] /\ rank[s] \in Nat /\ rank[p[s].next] \in Nat
    BY <1>3, <1>4, <2>2
  <2> QED
    BY <2>3, <2>4
<1>6. lvl.tail = s
  BY <1>3, <1>5 DEF QueueLinked
<1> QED
  BY <1>3, <1>4, <1>6

(***************************************************************************)
(* The head of such a queue is its first by rank.                          *)
(***************************************************************************)
LEMMA HeadIsFirst ==
  ASSUME NEW queue \in SUBSET Slots, NEW p, NEW lvl, NEW rank \in [Slots -> Slots],
         QueueLinked(p, lvl, queue), QueueOrdered(p, queue, rank), queue # {}
  PROVE  lvl.head \in queue /\ \A s \in queue : rank[lvl.head] <= rank[s]
<1> DEFINE R == {rank[s] : s \in queue}
<1>1. R \subseteq Nat /\ R # {}
  BY SlotFacts
<1>2. PICK m \in R : \A r \in R : m <= r
  <2> HIDE DEF R
  <2> QED
    BY <1>1, LeastNumber
<1>3. PICK s \in queue : rank[s] = m
  OBVIOUS
<1>4. \A t \in queue : rank[s] <= rank[t] /\ rank[t] \in Nat
  BY <1>1, <1>2, <1>3
<1>5. p[s].prev = kInvalidSlot
  <2>1. SUFFICES ASSUME p[s].prev # kInvalidSlot PROVE FALSE
    OBVIOUS
  <2>2. p[s].prev \in queue /\ p[p[s].prev].next = s /\ s # kInvalidSlot
    BY <2>1, <1>3, SlotFacts DEF QueueLinked
  <2>3. rank[p[s].prev] < rank[s]
    BY <2>2, <1>3 DEF QueueOrdered
  <2>4. rank[s] <= rank[p[s].prev] /\ rank[s] \in Nat /\ rank[p[s].prev] \in Nat
    BY <1>3, <1>4, <2>2
  <2> QED
    BY <2>3, <2>4
<1>6. lvl.head = s
  BY <1>3, <1>5 DEF QueueLinked
<1> QED
  BY <1>3, <1>4, <1>6

(***************************************************************************)
(* No link of the queue and no rank has changed.                           *)
(***************************************************************************)
Untouched(p, p2, rank, rank2, queue) ==
  \A s \in queue : /\ p2[s].prev = p[s].prev /\ p2[s].next = p[s].next
                   /\ rank2[s] = rank[s]

(***************************************************************************)
(* A level whose orders were not touched is still linked and in order: all *)
(* that the calls on other levels and other instruments need.              *)
(***************************************************************************)
LEMMA QueueFrame ==
  ASSUME NEW queue, NEW p, NEW p2, NEW lvl, NEW lvl2, NEW rank, NEW rank2,
         QueueLinked(p, lvl, queue), QueueOrdered(p, queue, rank),
         lvl2.head = lvl.head, lvl2.tail = lvl.tail,
         Untouched(p, p2, rank, rank2, queue)
  PROVE  QueueLinked(p2, lvl2, queue) /\ QueueOrdered(p2, queue, rank2)
<1> USE DEF Untouched
<1>1. QueueLinked(p2, lvl2, queue)
  BY DEF QueueLinked
<1>2. QueueOrdered(p2, queue, rank2)
  BY DEF QueueLinked, QueueOrdered
<1> QED
  BY <1>1, <1>2

(***************************************************************************)
(* What add_resting does to the level it appends slot to.                  *)
(***************************************************************************)
Appended(p, p2, lvl, lvl2, queue, slot) ==
  /\ p2[slot].prev = lvl.tail /\ p2[slot].next = kInvalidSlot
  /\ lvl2.head = IF lvl.tail = kInvalidSlot THEN slot ELSE lvl.head
  /\ lvl2.tail = slot
  /\ \A s \in queue : /\ p2[s].prev = p[s].prev
                      /\ p2[s].next = IF s = lvl.tail THEN slot ELSE p[s].next

\* slot comes after every order of the queue.
RanksLast(queue, slot, rank) ==
  slot \notin queue /\ \A s \in queue : rank[s] < rank[slot]

(***************************************************************************)
(* add_resting: slot goes to the end.                                      *)
(***************************************************************************)
LEMMA AppendKeepsQueue ==
  ASSUME NEW queue \in SUBSET Slots, NEW slot \in Slots,
         NEW p, NEW p2, NEW lvl, NEW lvl2, NEW rank \in [Slots -> Slots],
         QueueLinked(p, lvl, queue), QueueOrdered(p, queue, rank),
         RanksLast(queue, slot, rank),
         Appended(p, p2, lvl, lvl2, queue, slot)
  PROVE  QueueLinked(p2, lvl2, queue \cup {slot}) /\ QueueOrdered(p2, queue \cup {slot}, rank)
<1> USE DEF Appended, RanksLast
<1>1. slot # kInvalidSlot /\ \A s \in queue : s # kInvalidSlot
  BY SlotFacts
<1>2. CASE queue = {}
  <2>1. lvl.tail = kInvalidSlot
    BY <1>2 DEF QueueLinked
  <2> QED
    BY <1>1, <1>2, <2>1 DEF QueueLinked, QueueOrdered
<1>3. CASE queue # {}
  <2>1. lvl.tail \in queue /\ lvl.tail # kInvalidSlot
    BY <1>1, <1>3, TailIsLast
  <2>2. p[lvl.tail].next = kInvalidSlot
    BY <2>1 DEF QueueLinked
  <2>3. \A s \in queue : s # lvl.tail => p[s].next # kInvalidSlot /\ p[s].next \in queue
                                          /\ p[p[s].next].prev = s
    BY <2>1 DEF QueueLinked
  <2>4. QueueOrdered(p2, queue \cup {slot}, rank)
    BY <2>1, <2>3 DEF QueueOrdered
  <2>5. \A s \in queue :
          /\ IF p2[s].prev = kInvalidSlot THEN lvl2.head = s
             ELSE p2[s].prev \in queue \cup {slot} /\ p2[p2[s].prev].next = s
          /\ IF p2[s].next = kInvalidSlot THEN lvl2.tail = s
             ELSE p2[s].next \in queue \cup {slot} /\ p2[p2[s].next].prev = s
    <3>1. ASSUME NEW s \in queue
          PROVE  IF p2[s].prev = kInvalidSlot THEN lvl2.head = s
                 ELSE p2[s].prev \in queue \cup {slot} /\ p2[p2[s].prev].next = s
      BY <1>1, <2>1, <2>2 DEF QueueLinked
    <3>2. ASSUME NEW s \in queue
          PROVE  IF p2[s].next = kInvalidSlot THEN lvl2.tail = s
                 ELSE p2[s].next \in queue \cup {slot} /\ p2[p2[s].next].prev = s
      BY <1>1, <2>1, <2>3
    <3> QED
      BY <3>1, <3>2
  <2>6. /\ p2[slot].prev \in queue /\ p2[p2[slot].prev].next = slot
        /\ p2[slot].prev # kInvalidSlot
    BY <2>1
  <2>7. lvl2.head \in queue /\ p2[lvl2.head].prev = kInvalidSlot
    <3>1. lvl.head \in queue
      BY <1>3, HeadIsFirst
    <3> QED
      BY <1>1, <2>1, <3>1 DEF QueueLinked
  <2> QED
    BY <1>1, <2>4, <2>5, <2>6, <2>7 DEF QueueLinked
<1> QED
  BY <1>2, <1>3

(***************************************************************************)
(* remove_resting: slot leaves, wherever it stood.                         *)
(***************************************************************************)
LEMMA UnlinkKeepsQueue ==
  ASSUME NEW queue \in SUBSET Slots, NEW slot \in queue,
         NEW p, NEW p2, NEW lvl, NEW lvl2, NEW rank \in [Slots -> Slots],
         QueueLinked(p, lvl, queue), QueueOrdered(p, queue, rank),
         lvl2.head = IF p[slot].prev = kInvalidSlot THEN p[slot].next ELSE lvl.head,
         lvl2.tail = IF p[slot].next = kInvalidSlot THEN p[slot].prev ELSE lvl.tail,
         \A s \in queue \ {slot} :
           /\ p2[s].next = IF s = p[slot].prev THEN p[slot].next ELSE p[s].next
           /\ p2[s].prev = IF s = p[slot].next THEN p[slot].prev ELSE p[s].prev
  PROVE  QueueLinked(p2, lvl2, queue \ {slot}) /\ QueueOrdered(p2, queue \ {slot}, rank)
<1> DEFINE a == p[slot].prev
           z == p[slot].next
<1>1. \A s \in queue : s # kInvalidSlot /\ rank[s] \in Nat
  BY SlotFacts
<1>2. a # kInvalidSlot => a \in queue \ {slot} /\ p[a].next = slot /\ rank[a] < rank[slot]
  <2>1. SUFFICES ASSUME a # kInvalidSlot
                 PROVE  a \in queue \ {slot} /\ p[a].next = slot /\ rank[a] < rank[slot]
    OBVIOUS
  <2>2. a \in queue /\ p[a].next = slot
    BY <2>1 DEF QueueLinked
  <2>3. rank[a] < rank[slot]
    BY <1>1, <2>2 DEF QueueOrdered
  <2> QED
    BY <1>1, <2>2, <2>3
<1>3. z # kInvalidSlot => z \in queue \ {slot} /\ p[z].prev = slot /\ rank[slot] < rank[z]
  <2>1. SUFFICES ASSUME z # kInvalidSlot
                 PROVE  z \in queue \ {slot} /\ p[z].prev = slot /\ rank[slot] < rank[z]
    OBVIOUS
  <2>2. z \in queue /\ p[z].prev = slot
    BY <2>1 DEF QueueLinked
  <2>3. rank[slot] < rank[z]
    BY <2>1 DEF QueueOrdered
  <2> QED
    BY <1>1, <2>2, <2>3
<1>4. QueueOrdered(p2, queue \ {slot}, rank)
  BY <1>1, <1>2, <1>3 DEF QueueOrdered, QueueLinked
<1>5. ASSUME NEW s \in queue \ {slot}
      PROVE  IF p2[s].prev = kInvalidSlot THEN lvl2.head = s
             ELSE p2[s].prev \in queue \ {slot} /\ p2[p2[s].prev].next = s
  <2>1. CASE s = z
    BY <2>1, <1>1, <1>2, <1>3
  <2>2. CASE s # z
    <3>1. p2[s].prev = p[s].prev
      BY <2>2
    <3>2. p[s].prev # slot
      BY <2>2, <1>1 DEF QueueLinked
    <3>3. CASE p[s].prev = kInvalidSlot
      <4>1. lvl.head = s /\ lvl.head # slot
        BY <3>3 DEF QueueLinked
      <4>2. a # kInvalidSlot
        BY <4>1 DEF QueueLinked
      <4> QED
        BY <3>1, <3>3, <4>1, <4>2
    <3>4. CASE p[s].prev # kInvalidSlot
      <4>1. p[s].prev \in queue \ {slot} /\ p[p[s].prev].next = s
        BY <3>2, <3>4 DEF QueueLinked
      <4>2. p[s].prev # a
        BY <1>2, <3>4, <4>1
      <4> QED
        BY <3>1, <3>4, <4>1, <4>2
    <3> QED
      BY <3>3, <3>4
  <2> QED
    BY <2>1, <2>2
<1>6. ASSUME NEW s \in queue \ {slot}
      PROVE  IF p2[s].next = kInvalidSlot THEN lvl2.tail = s
             ELSE p2[s].next \in queue \ {slot} /\ p2[p2[s].next].prev = s
  <2>1. CASE s = a
    BY <2>1, <1>1, <1>2, <1>3
  <2>2. CASE s # a
    <3>1. p2[s].next = p[s].next
      BY <2>2
    <3>2. p[s].next # slot
      BY <2>2, <1>1 DEF QueueLinked
    <3>3. CASE p[s].next = kInvalidSlot
      <4>1. lvl.tail = s /\ lvl.tail # slot
        BY <3>3 DEF QueueLinked
      <4>2. z # kInvalidSlot
        BY <4>1 DEF QueueLinked
      <4> QED
        BY <3>1, <3>3, <4>1, <4>2
    <3>4. CASE p[s].next # kInvalidSlot
      <4>1. p[s].next \in queue \ {slot} /\ p[p[s].next].prev = s
        BY <3>2, <3>4 DEF QueueLinked
      <4>2. p[s].next # z
        BY <1>3, <3>4, <4>1
      <4> QED
        BY <3>1, <3>4, <4>1, <4>2
    <3> QED
      BY <3>3, <3>4
  <2> QED
    BY <2>1, <2>2
<1>7. lvl2.head # kInvalidSlot =>
        lvl2.head \in queue \ {slot} /\ p2[lvl2.head].prev = kInvalidSlot
  <2>1. CASE a = kInvalidSlot
    BY <2>1, <1>1, <1>3
  <2>2. CASE a # kInvalidSlot
    BY <2>2, <1>1, <1>2, <1>3 DEF QueueLinked
  <2> QED
    BY <2>1, <2>2
<1>8. lvl2.tail # kInvalidSlot =>
        lvl2.tail \in queue \ {slot} /\ p2[lvl2.tail].next = kInvalidSlot
  <2>1. CASE z = kInvalidSlot
    BY <2>1, <1>1, <1>2
  <2>2. CASE z # kInvalidSlot
    BY <2>2, <1>1, <1>2, <1>3 DEF QueueLinked
  <2> QED
    BY <2>1, <2>2
<1>9. QueueLinked(p2, lvl2, queue \ {slot})
  BY <1>5, <1>6, <1>7, <1>8 DEF QueueLinked
<1> QED
  BY <1>4, <1>9

(***************************************************************************)
(* What replace_in_place does to the level it splices new into.            *)
(***************************************************************************)
Spliced(p, p2, lvl, lvl2, queue, old, new) ==
  /\ lvl2.head = IF p[old].prev = kInvalidSlot THEN new ELSE lvl.head
  /\ lvl2.tail = IF p[old].next = kInvalidSlot THEN new ELSE lvl.tail
  /\ p2[new].prev = p[old].prev /\ p2[new].next = p[old].next
  /\ \A s \in queue \ {old} :
       /\ p2[s].next = IF s = p[old].prev THEN new ELSE p[s].next
       /\ p2[s].prev = IF s = p[old].next THEN new ELSE p[s].prev

(***************************************************************************)
(* replace_in_place: new takes the place and the rank of old.              *)
(***************************************************************************)
LEMMA SpliceKeepsQueue ==
  ASSUME NEW queue \in SUBSET Slots, NEW old \in queue, NEW new \in Slots, new \notin queue,
         NEW p, NEW p2, NEW lvl, NEW lvl2, NEW rank \in [Slots -> Slots], NEW rank2,
         QueueLinked(p, lvl, queue), QueueOrdered(p, queue, rank),
         rank2[new] = rank[old], \A s \in queue : rank2[s] = rank[s],
         Spliced(p, p2, lvl, lvl2, queue, old, new)
  PROVE  /\ QueueLinked(p2, lvl2, (queue \ {old}) \cup {new})
         /\ QueueOrdered(p2, (queue \ {old}) \cup {new}, rank2)
<1> USE DEF Spliced
<1> DEFINE a  == p[old].prev
           z  == p[old].next
           q2 == (queue \ {old}) \cup {new}
<1>1. /\ \A s \in queue : s # kInvalidSlot /\ rank[s] \in Nat
      /\ new # kInvalidSlot
  BY SlotFacts
<1>2. a # kInvalidSlot => a \in queue \ {old} /\ p[a].next = old /\ rank[a] < rank[old]
  <2>1. SUFFICES ASSUME a # kInvalidSlot
                 PROVE  a \in queue \ {old} /\ p[a].next = old /\ rank[a] < rank[old]
    OBVIOUS
  <2>2. a \in queue /\ p[a].next = old
    BY <2>1 DEF QueueLinked
  <2>3. rank[a] < rank[old]
    BY <1>1, <2>2 DEF QueueOrdered
  <2> QED
    BY <1>1, <2>2, <2>3
<1>3. z # kInvalidSlot => z \in queue \ {old} /\ p[z].prev = old /\ rank[old] < rank[z]
  <2>1. SUFFICES ASSUME z # kInvalidSlot
                 PROVE  z \in queue \ {old} /\ p[z].prev = old /\ rank[old] < rank[z]
    OBVIOUS
  <2>2. z \in queue /\ p[z].prev = old
    BY <2>1 DEF QueueLinked
  <2>3. rank[old] < rank[z]
    BY <2>1 DEF QueueOrdered
  <2> QED
    BY <1>1, <2>2, <2>3
<1>4. ASSUME NEW s \in queue \ {old}, s # a, p[s].next # kInvalidSlot
      PROVE  p[s].next \in queue \ {old} /\ p[p[s].next].prev = s /\ p[s].next # z
  <2>1. p[s].next \in queue /\ p[p[s].next].prev = s
    BY <1>4 DEF QueueLinked
  <2>2. p[s].next # old /\ p[s].next # z
    BY <1>3, <1>4, <2>1
  <2> QED
    BY <2>1, <2>2
<1>5. ASSUME NEW s \in queue \ {old}, s # z, p[s].prev # kInvalidSlot
      PROVE  p[s].prev \in queue \ {old} /\ p[p[s].prev].next = s /\ p[s].prev # a
  <2>1. p[s].prev \in queue /\ p[p[s].prev].next = s
    BY <1>5 DEF QueueLinked
  <2>2. p[s].prev # old /\ p[s].prev # a
    BY <1>2, <1>5, <2>1
  <2> QED
    BY <2>1, <2>2
<1>6. QueueOrdered(p2, q2, rank2)
  <2>1. ASSUME NEW s \in queue \ {old}, p2[s].next # kInvalidSlot
        PROVE  rank2[s] < rank2[p2[s].next]
    <3>1. CASE s = a
      BY <3>1, <1>1, <1>2
    <3>2. CASE s # a
      BY <3>2, <2>1, <1>4 DEF QueueOrdered
    <3> QED
      BY <3>1, <3>2
  <2>2. p2[new].next # kInvalidSlot => rank2[new] < rank2[p2[new].next]
    BY <1>3
  <2> QED
    BY <2>1, <2>2 DEF QueueOrdered
<1>7. ASSUME NEW s \in queue \ {old}
      PROVE  IF p2[s].prev = kInvalidSlot THEN lvl2.head = s
             ELSE p2[s].prev \in q2 /\ p2[p2[s].prev].next = s
  <2>1. CASE s = z
    BY <2>1, <1>1, <1>3
  <2>2. CASE s # z /\ p[s].prev = kInvalidSlot
    <3>1. lvl.head = s
      BY <2>2 DEF QueueLinked
    <3>2. a # kInvalidSlot
      BY <3>1 DEF QueueLinked
    <3> QED
      BY <2>2, <3>1, <3>2
  <2>3. CASE s # z /\ p[s].prev # kInvalidSlot
    BY <2>3, <1>5
  <2> QED
    BY <2>1, <2>2, <2>3
<1>8. ASSUME NEW s \in queue \ {old}
      PROVE  IF p2[s].next = kInvalidSlot THEN lvl2.tail = s
             ELSE p2[s].next \in q2 /\ p2[p2[s].next].prev = s
  <2>1. CASE s = a
    BY <2>1, <1>1, <1>2
  <2>2. CASE s # a /\ p[s].next = kInvalidSlot
    <3>1. lvl.tail = s
      BY <2>2 DEF QueueLinked
    <3>2. z # kInvalidSlot
      BY <3>1 DEF QueueLinked
    <3> QED
      BY <2>2, <3>1, <3>2
  <2>3. CASE s # a /\ p[s].next # kInvalidSlot
    BY <2>3, <1>4
  <2> QED
    BY <2>1, <2>2, <2>3
<1>9. /\ IF p2[new].prev = kInvalidSlot THEN lvl2.head = new
         ELSE p2[new].prev \in q2 /\ p2[p2[new].prev].next = new
      /\ IF p2[new].next = kInvalidSlot THEN lvl2.tail = new
         ELSE p2[new].next \in q2 /\ p2[p2[new].next].prev = new
  BY <1>2, <1>3
<1>10. lvl2.head # kInvalidSlot => lvl2.head \in q2 /\ p2[lvl2.head].prev = kInvalidSlot
  <2>1. CASE a = kInvalidSlot
    BY <2>1
  <2>2. CASE a # kInvalidSlot
    BY <2>2, <1>1, <1>2, <1>3 DEF QueueLinked
  <2> QED
    BY <2>1, <2>2
<1>11. lvl2.tail # kInvalidSlot => lvl2.tail \in q2 /\ p2[lvl2.tail].next = kInvalidSlot
  <2>1. CASE z = kInvalidSlot
    BY <2>1
  <2>2. CASE z # kInvalidSlot
    BY <2>2, <1>1, <1>2, <1>3 DEF QueueLinked
  <2> QED
    BY <2>1, <2>2
<1>12. QueueLinked(p2, lvl2, q2)
  BY <1>7, <1>8, <1>9, <1>10, <1>11 DEF QueueLinked
<1> QED
  BY <1>6, <1>12

-----------------------------------------------------------------------------
(***************************************************************************)
(* The operations of a book keep every one of its levels linked and in     *)
(* order, and the books of other instruments as they are.                  *)
(***************************************************************************)

(***************************************************************************)
(* The book of instrument i fits the pool: resting orders are on the level *)
(* of their price, and each level's list is threaded through its orders in *)
(* the order of rank.                                                      *)
(***************************************************************************)
OnTheirLevels(pool, i) ==
  \A s \in Slots :
    pool[s].is_open /\ pool[s].instrument_id = i =>
      /\ pool[s].level_index \in Index(i)
      /\ index_to_price(i, pool[s].level_index) = pool[s].price

LevelsLinked(pool, book, i, rank) ==
  \A side \in Side : \A x \in Index(i) :
    /\ QueueLinked(pool, book.levels[side][x], Queue(pool, i, side, x))
    /\ QueueOrdered(pool, Queue(pool, i, side, x), rank)

BookFits(pool, book, i, rank) ==
  OnTheirLevels(pool, i) /\ LevelsLinked(pool, book, i, rank)

\* What a change to the pool and the ranks may not touch for instrument i.
SameForBook(pool, pool2, rank, rank2, i) ==
  \A s \in Slots :
    /\ pool2[s].is_open /\ pool2[s].instrument_id = i
         <=> pool[s].is_open /\ pool[s].instrument_id = i
    /\ pool[s].is_open /\ pool[s].instrument_id = i =>
         /\ pool2[s].side = pool[s].side
         /\ pool2[s].price = pool[s].price
         /\ pool2[s].level_index = pool[s].level_index
         /\ pool2[s].prev = pool[s].prev
         /\ pool2[s].next = pool[s].next
         /\ rank2[s] = rank[s]

(***************************************************************************)
(* A book none of whose orders was touched still fits the pool, whatever   *)
(* happened to the totals of its levels.                                   *)
(***************************************************************************)
LEMMA BookFrame ==
  ASSUME NEW i \in Instruments, NEW pool, NEW pool2, NEW book, NEW book2, NEW rank, NEW rank2,
         BookFits(pool, book, i, rank), SameForBook(pool, pool2, rank, rank2, i),
         \A side \in Side : \A x \in Index(i) :
           /\ book2.levels[side][x].head = book.levels[side][x].head
           /\ book2.levels[side][x].tail = book.levels[side][x].tail
  PROVE  BookFits(pool2, book2, i, rank2)
<1>1. OnTheirLevels(pool2, i)
  BY DEF BookFits, OnTheirLevels, SameForBook
<1>2. ASSUME NEW side \in Side, NEW x \in Index(i)
      PROVE  /\ QueueLinked(pool2, book2.levels[side][x], Queue(pool2, i, side, x))
             /\ QueueOrdered(pool2, Queue(pool2, i, side, x), rank2)
  <2> DEFINE queue == Queue(pool, i, side, x)
             l1    == book.levels[side][x]
             l2    == book2.levels[side][x]
  <2>1. Queue(pool2, i, side, x) = queue
    BY DEF Queue, SameForBook
  <2>2. Untouched(pool, pool2, rank, rank2, queue)
    BY DEF Queue, SameForBook, Untouched
  <2>3. QueueLinked(pool, l1, queue) /\ QueueOrdered(pool, queue, rank)
    BY DEF BookFits, LevelsLinked
  <2>4. l2.head = l1.head /\ l2.tail = l1.tail
    OBVIOUS
  <2> HIDE DEF queue, l1, l2
  <2>5. QueueLinked(pool2, l2, queue) /\ QueueOrdered(pool2, queue, rank2)
    BY <2>2, <2>3, <2>4, QueueFrame
  <2> QED
    BY <2>1, <2>5 DEF l2
<1> QED
  BY <1>1, <1>2 DEF BookFits, LevelsLinked

(***************************************************************************)
(* Every link of a linked level, its head and tail included, is no slot or *)
(* one of the level's queue.                                               *)
(***************************************************************************)
LEMMA LinksStayInQueue ==
  ASSUME NEW queue, NEW p, NEW lvl, QueueLinked(p, lvl, queue)
  PROVE  /\ lvl.tail # kInvalidSlot => lvl.tail \in queue
         /\ lvl.head # kInvalidSlot => lvl.head \in queue
         /\ \A s \in queue : /\ p[s].prev # kInvalidSlot => p[s].prev \in queue
                             /\ p[s].next # kInvalidSlot => p[s].next \in queue
BY DEF QueueLinked

(***************************************************************************)
(* add_resting, as one fact about the fields of the pool and of the book   *)
(* it leaves, and then as one about lists.                                 *)
(***************************************************************************)
\* What add_resting leaves, field by field.
AddRestingEffect(pool, book, i, slot, side, price, after) ==
  LET idx   == price_to_index(i, price)
      lvl   == book.levels[side][idx]
  IN /\ \A s \in Slots :
          /\ after.pool[s].id = pool[s].id
          /\ after.pool[s].instrument_id = pool[s].instrument_id
          /\ after.pool[s].open_qty = pool[s].open_qty
          /\ after.pool[s].filled_qty = pool[s].filled_qty
          /\ s # slot => /\ after.pool[s].is_open = pool[s].is_open
                         /\ after.pool[s].side = pool[s].side
                         /\ after.pool[s].price = pool[s].price
                         /\ after.pool[s].level_index = pool[s].level_index
                         /\ after.pool[s].prev = pool[s].prev
                         /\ after.pool[s].next =
                              IF s = lvl.tail THEN slot ELSE pool[s].next
     /\ after.pool[slot].is_open
     /\ after.pool[slot].side = side
     /\ after.pool[slot].price = price
     /\ after.pool[slot].level_index = idx
     /\ after.pool[slot].prev = lvl.tail
     /\ after.pool[slot].next = kInvalidSlot
     /\ after.book.levels[side][idx].head =
          IF lvl.tail = kInvalidSlot THEN slot ELSE lvl.head
     /\ after.book.levels[side][idx].tail = slot
     /\ \A sd \in Side : \A x \in Index(i) :
          ~(sd = side /\ x = idx) =>
            after.book.levels[sd][x] = book.levels[sd][x]

\* add_resting leaves just that.
LEMMA AddRestingFields ==
  ASSUME NEW i \in Instruments, NEW pool \in [Slots -> OrderRecord], NEW book \in Book(i),
         NEW slot \in Slots, NEW side \in Side, NEW price \in Int,
         price_to_index(i, price) \in Index(i)
  PROVE  AddRestingEffect(pool, book, i, slot, side, price,
           add_resting(pool, book, i, slot, side, price))
<1> DEFINE idx   == price_to_index(i, price)
           lvl   == book.levels[side][idx]
           after == add_resting(pool, book, i, slot, side, price)
           nl    == [head        |-> IF lvl.tail = kInvalidSlot THEN slot ELSE lvl.head,
                     tail        |-> slot,
                     total_qty   |-> Plus(lvl.total_qty, pool[slot].open_qty),
                     order_count |-> lvl.order_count + 1]
<1>1. \A s \in Slots : pool[s] \in OrderRecord
  OBVIOUS
<1>2. after.pool =
        [s \in Slots |->
           IF s = slot
           THEN [pool[s] EXCEPT !.side = side, !.price = price, !.level_index = idx,
                                !.is_open = TRUE, !.prev = lvl.tail,
                                !.next = kInvalidSlot]
           ELSE IF s = lvl.tail THEN [pool[s] EXCEPT !.next = slot] ELSE pool[s]]
  BY DEF add_resting
<1>3. after.book.levels = [book.levels EXCEPT ![side][idx] = nl]
  BY DEF add_resting
<1>4. book.levels \in [Side -> [Index(i) -> Level]]
  BY DEF Book
<1>5. ASSUME NEW s \in Slots
      PROVE  /\ after.pool[s].id = pool[s].id
             /\ after.pool[s].instrument_id = pool[s].instrument_id
             /\ after.pool[s].open_qty = pool[s].open_qty
             /\ after.pool[s].filled_qty = pool[s].filled_qty
             /\ s # slot => /\ after.pool[s].is_open = pool[s].is_open
                            /\ after.pool[s].side = pool[s].side
                            /\ after.pool[s].price = pool[s].price
                            /\ after.pool[s].level_index = pool[s].level_index
                            /\ after.pool[s].prev = pool[s].prev
                            /\ after.pool[s].next =
                                 IF s = lvl.tail THEN slot ELSE pool[s].next
  <2>1. pool[s] \in OrderRecord
    BY <1>1
  <2> HIDE DEF idx, lvl, after
  <2>2. CASE s = slot
    BY ZenonT(40), <1>2, <2>1, <2>2 DEF OrderRecord
  <2>3. CASE s # slot /\ s = lvl.tail
    <3>1. after.pool[s] = [pool[s] EXCEPT !.next = slot]
      BY <1>2, <2>3
    <3> QED
      BY <2>1, <2>3, <3>1 DEF OrderRecord
  <2>4. CASE s # slot /\ s # lvl.tail
    <3>1. after.pool[s] = pool[s]
      BY <1>2, <2>4
    <3> QED
      BY <2>4, <3>1
  <2> QED
    BY <2>2, <2>3, <2>4
<1>6. /\ after.pool[slot].is_open
      /\ after.pool[slot].side = side
      /\ after.pool[slot].price = price
      /\ after.pool[slot].level_index = idx
      /\ after.pool[slot].prev = lvl.tail
      /\ after.pool[slot].next = kInvalidSlot
  <2> HIDE DEF idx, lvl, after
  <2> QED
    BY <1>1, <1>2 DEF OrderRecord
<1>7. /\ after.book.levels[side][idx] = nl
      /\ \A sd \in Side : \A x \in Index(i) :
           ~(sd = side /\ x = idx) => after.book.levels[sd][x] = book.levels[sd][x]
  <2>1. idx \in Index(i)
    OBVIOUS
  <2> HIDE DEF idx, nl, after
  <2> QED
    BY <1>3, <1>4, <2>1
<1>8. nl.head = (IF lvl.tail = kInvalidSlot THEN slot ELSE lvl.head) /\ nl.tail = slot
  OBVIOUS
<1> HIDE DEF nl, idx, lvl, after
<1>9. QED
  BY <1>5, <1>6, <1>7, <1>8 DEF AddRestingEffect, idx, lvl, after

\* The order added is the last of its level, and no other list changes.
LEMMA AddRestingFits ==
  ASSUME NEW i \in Instruments, NEW pool \in [Slots -> OrderRecord], NEW book \in Book(i),
         NEW slot \in Slots, NEW side \in Side, NEW price \in Int,
         NEW rank \in [Slots -> Slots],
         price_to_index(i, price) \in Index(i),
         pool[slot].instrument_id = i, ~pool[slot].is_open,
         \A s \in Slots : pool[s].is_open => rank[s] < rank[slot],
         BookFits(pool, book, i, rank)
  PROVE  LET after == add_resting(pool, book, i, slot, side, price)
         IN /\ BookFits(after.pool, after.book, i, rank)
            /\ \A j \in Instruments \ {i} : SameForBook(pool, after.pool, rank, rank, j)
<1> DEFINE idx   == price_to_index(i, price)
           lvl   == book.levels[side][idx]
           after == add_resting(pool, book, i, slot, side, price)
           queue == Queue(pool, i, side, idx)
<1>e. AddRestingEffect(pool, book, i, slot, side, price, after)
  BY AddRestingFields
<1>1. /\ \A s \in Slots :
           /\ after.pool[s].instrument_id = pool[s].instrument_id
           /\ s # slot => /\ after.pool[s].is_open = pool[s].is_open
                          /\ after.pool[s].side = pool[s].side
                          /\ after.pool[s].price = pool[s].price
                          /\ after.pool[s].level_index = pool[s].level_index
                          /\ after.pool[s].prev = pool[s].prev
                          /\ after.pool[s].next = IF s = lvl.tail THEN slot ELSE pool[s].next
      /\ after.pool[slot].is_open
      /\ after.pool[slot].side = side
      /\ after.pool[slot].price = price
      /\ after.pool[slot].level_index = idx
      /\ after.pool[slot].prev = lvl.tail
      /\ after.pool[slot].next = kInvalidSlot
      /\ after.book.levels[side][idx].head =
           IF lvl.tail = kInvalidSlot THEN slot ELSE lvl.head
      /\ after.book.levels[side][idx].tail = slot
      /\ \A sd \in Side : \A x \in Index(i) :
           ~(sd = side /\ x = idx) => after.book.levels[sd][x] = book.levels[sd][x]
  BY <1>e DEF AddRestingEffect
<1>2. idx \in Index(i) /\ index_to_price(i, idx) = price
  BY PriceToIndex, IndexFacts
<1>3. /\ QueueLinked(pool, lvl, queue)
      /\ QueueOrdered(pool, queue, rank)
  BY <1>2 DEF BookFits, LevelsLinked
<1>4. queue \in SUBSET Slots /\ slot \notin queue /\ \A s \in queue : rank[s] < rank[slot]
  BY DEF Queue
<1>5. lvl.tail # kInvalidSlot => lvl.tail \in queue
  BY <1>3, LinksStayInQueue
<1> HIDE DEF after, lvl, idx
<1>6. OnTheirLevels(after.pool, i)
  BY <1>1, <1>2 DEF BookFits, OnTheirLevels
<1>7. Queue(after.pool, i, side, idx) = queue \cup {slot}
  BY <1>1 DEF Queue
<1>8. /\ QueueLinked(after.pool, after.book.levels[side][idx], queue \cup {slot})
      /\ QueueOrdered(after.pool, queue \cup {slot}, rank)
  <2>1. \A s \in queue :
          /\ after.pool[s].prev = pool[s].prev
          /\ after.pool[s].next = IF s = lvl.tail THEN slot ELSE pool[s].next
    BY <1>1, <1>4
  <2> DEFINE p2 == after.pool
             l2 == after.book.levels[side][idx]
  <2>2. /\ p2[slot].prev = lvl.tail
        /\ p2[slot].next = kInvalidSlot
        /\ l2.head = IF lvl.tail = kInvalidSlot THEN slot ELSE lvl.head
        /\ l2.tail = slot
    BY <1>1
  <2>3. Appended(pool, p2, lvl, l2, queue, slot)
    BY <2>1, <2>2 DEF Appended
  <2>5. RanksLast(queue, slot, rank)
    BY <1>4 DEF RanksLast
  <2> HIDE DEF queue, p2, l2
  <2>4. QueueLinked(p2, l2, queue \cup {slot}) /\ QueueOrdered(p2, queue \cup {slot}, rank)
    BY <1>3, <1>4, <2>3, <2>5, AppendKeepsQueue
  <2> QED
    BY <2>4 DEF p2, l2
<1>9. ASSUME NEW sd \in Side, NEW x \in Index(i), ~(sd = side /\ x = idx)
      PROVE  /\ QueueLinked(after.pool, after.book.levels[sd][x], Queue(after.pool, i, sd, x))
             /\ QueueOrdered(after.pool, Queue(after.pool, i, sd, x), rank)
  <2> DEFINE other == Queue(pool, i, sd, x)
  <2>1. Queue(after.pool, i, sd, x) = other
    <3>1. ASSUME NEW s \in Slots
          PROVE  s \in Queue(after.pool, i, sd, x) <=> s \in other
      <4>1. CASE s = slot
        BY <1>1, <1>9, <4>1 DEF Queue
      <4>2. CASE s # slot
        BY <1>1, <4>2 DEF Queue
      <4> QED
        BY <4>1, <4>2
    <3> QED
      BY <3>1 DEF Queue
  <2>2. \A s \in other : after.pool[s].prev = pool[s].prev /\ after.pool[s].next = pool[s].next
    <3>1. ASSUME NEW s \in other PROVE s \in Slots /\ s # slot /\ s # lvl.tail
      BY <1>5, <1>9, SlotFacts DEF Queue
    <3> QED
      BY <1>1, <3>1
  <2>3. QueueLinked(pool, book.levels[sd][x], other) /\ QueueOrdered(pool, other, rank)
    BY DEF BookFits, LevelsLinked
  <2>4. after.book.levels[sd][x] = book.levels[sd][x]
    BY <1>1, <1>9
  <2> DEFINE p2 == after.pool
             l1 == book.levels[sd][x]
  <2> HIDE DEF other, p2, l1
  <2>5. QueueLinked(p2, l1, other) /\ QueueOrdered(p2, other, rank)
    <3>1. Untouched(pool, p2, rank, rank, other)
      BY <2>2 DEF p2, Untouched
    <3>2. QueueLinked(pool, l1, other) /\ QueueOrdered(pool, other, rank)
      BY <2>3 DEF l1
    <3> QED
      BY <3>1, <3>2, QueueFrame
  <2> QED
    BY <2>1, <2>4, <2>5 DEF p2, l1
<1>10. LevelsLinked(after.pool, after.book, i, rank)
  BY <1>7, <1>8, <1>9 DEF LevelsLinked
<1>11. ASSUME NEW j \in Instruments \ {i} PROVE SameForBook(pool, after.pool, rank, rank, j)
  <2>1. ASSUME NEW s \in Slots, pool[s].is_open, pool[s].instrument_id = j
        PROVE  s # slot /\ s # lvl.tail
    BY <1>5, <2>1, SlotFacts DEF Queue
  <2> QED
    BY <1>1, <2>1 DEF SameForBook
<1> QED
  BY <1>6, <1>10, <1>11 DEF BookFits, after

(***************************************************************************)
(* remove_resting, likewise.                                               *)
(***************************************************************************)
\* What remove_resting leaves.
RemoveRestingEffect(pool, book, i, slot, after) ==
  LET rec   == pool[slot]
      lvl   == book.levels[rec.side][rec.level_index]
  IN /\ \A s \in Slots :
          /\ after.pool[s].id = pool[s].id
          /\ after.pool[s].instrument_id = pool[s].instrument_id
          /\ after.pool[s].open_qty = pool[s].open_qty
          /\ after.pool[s].filled_qty = pool[s].filled_qty
          /\ after.pool[s].side = pool[s].side
          /\ after.pool[s].price = pool[s].price
          /\ after.pool[s].level_index = pool[s].level_index
          /\ s # slot =>
               /\ after.pool[s].is_open = pool[s].is_open
               /\ after.pool[s].next = IF s = rec.prev THEN rec.next ELSE pool[s].next
               /\ after.pool[s].prev = IF s = rec.next THEN rec.prev ELSE pool[s].prev
     /\ ~after.pool[slot].is_open
     /\ after.book.levels[rec.side][rec.level_index].head =
          IF rec.prev = kInvalidSlot THEN rec.next ELSE lvl.head
     /\ after.book.levels[rec.side][rec.level_index].tail =
          IF rec.next = kInvalidSlot THEN rec.prev ELSE lvl.tail
     /\ \A sd \in Side : \A x \in Index(i) :
          ~(sd = rec.side /\ x = rec.level_index) =>
            after.book.levels[sd][x] = book.levels[sd][x]

\* remove_resting leaves just that.
LEMMA RemoveRestingFields ==
  ASSUME NEW i \in Instruments, NEW pool \in [Slots -> OrderRecord], NEW book \in Book(i),
         NEW slot \in Slots, pool[slot].level_index \in Index(i)
  PROVE  RemoveRestingEffect(pool, book, i, slot,
           remove_resting(pool, book, slot))
<1> DEFINE rec   == pool[slot]
           side  == rec.side
           idx   == rec.level_index
           lvl   == book.levels[side][idx]
           after == remove_resting(pool, book, slot)
           nl    == [head        |-> IF rec.prev = kInvalidSlot THEN rec.next ELSE lvl.head,
                     tail        |-> IF rec.next = kInvalidSlot THEN rec.prev ELSE lvl.tail,
                     total_qty   |-> Minus(lvl.total_qty, rec.open_qty),
                     order_count |-> lvl.order_count - 1]
<1>1. after.pool = Unlink(pool, slot)
  BY DEF remove_resting
<1>2. after.book.levels = [book.levels EXCEPT ![side][idx] = nl]
  BY DEF remove_resting
<1>3. book.levels \in [Side -> [Index(i) -> Level]] /\ rec \in OrderRecord /\ side \in Side
  BY DEF Book, OrderRecord
<1>4. /\ after.book.levels[side][idx] = nl
      /\ \A sd \in Side : \A x \in Index(i) :
           ~(sd = side /\ x = idx) => after.book.levels[sd][x] = book.levels[sd][x]
  <2>1. idx \in Index(i)
    OBVIOUS
  <2> HIDE DEF idx, nl, after, side
  <2> QED
    BY <1>2, <1>3, <2>1
<1>5. /\ nl.head = (IF rec.prev = kInvalidSlot THEN rec.next ELSE lvl.head)
      /\ nl.tail = (IF rec.next = kInvalidSlot THEN rec.prev ELSE lvl.tail)
  OBVIOUS
<1>6. ASSUME NEW s \in Slots
      PROVE  /\ after.pool[s].id = pool[s].id
             /\ after.pool[s].instrument_id = pool[s].instrument_id
             /\ after.pool[s].open_qty = pool[s].open_qty
             /\ after.pool[s].filled_qty = pool[s].filled_qty
             /\ after.pool[s].side = pool[s].side
             /\ after.pool[s].price = pool[s].price
             /\ after.pool[s].level_index = pool[s].level_index
             /\ s # slot =>
                  /\ after.pool[s].is_open = pool[s].is_open
                  /\ after.pool[s].next = IF s = rec.prev THEN rec.next ELSE pool[s].next
                  /\ after.pool[s].prev = IF s = rec.next THEN rec.prev ELSE pool[s].prev
             /\ s = slot => ~after.pool[s].is_open
  <2>1. pool[s] \in OrderRecord
    OBVIOUS
  <2>2. CASE s = slot
    <3>1. after.pool[s] = [pool[s] EXCEPT !.is_open = FALSE, !.prev = kInvalidSlot,
                                          !.next = kInvalidSlot]
      BY <1>1, <2>2 DEF Unlink
    <3> HIDE DEF after, rec
    <3> QED
      BY <2>1, <2>2, <3>1 DEF OrderRecord
  <2>3. CASE s # slot
    <3>1. after.pool[s] = [pool[s] EXCEPT !.next = IF s = rec.prev THEN rec.next ELSE @,
                                          !.prev = IF s = rec.next THEN rec.prev ELSE @]
      BY <1>1, <2>3 DEF Unlink
    <3> HIDE DEF after, rec
    <3> QED
      BY <2>1, <2>3, <3>1 DEF OrderRecord
  <2> QED
    BY <2>2, <2>3
<1> HIDE DEF nl, after
<1> QED
  BY <1>4, <1>5, <1>6 DEF RemoveRestingEffect, after

\* The order removed leaves its level's list, and no other list changes.
LEMMA RemoveRestingFits ==
  ASSUME NEW i \in Instruments, NEW pool \in [Slots -> OrderRecord], NEW book \in Book(i),
         NEW slot \in Slots, NEW rank \in [Slots -> Slots],
         pool[slot].is_open, pool[slot].instrument_id = i,
         BookFits(pool, book, i, rank)
  PROVE  LET after == remove_resting(pool, book, slot)
         IN /\ BookFits(after.pool, after.book, i, rank)
            /\ \A j \in Instruments \ {i} : SameForBook(pool, after.pool, rank, rank, j)
<1> DEFINE rec   == pool[slot]
           side  == rec.side
           idx   == rec.level_index
           lvl   == book.levels[side][idx]
           after == remove_resting(pool, book, slot)
           queue == Queue(pool, i, side, idx)
<1>0. idx \in Index(i) /\ side \in Side
  <2>1. rec \in OrderRecord
    OBVIOUS
  <2> QED
    BY <2>1 DEF BookFits, OnTheirLevels, OrderRecord
<1>e. RemoveRestingEffect(pool, book, i, slot, after)
  BY <1>0, RemoveRestingFields
<1>1. /\ \A s \in Slots :
           /\ after.pool[s].instrument_id = pool[s].instrument_id
           /\ after.pool[s].side = pool[s].side
           /\ after.pool[s].price = pool[s].price
           /\ after.pool[s].level_index = pool[s].level_index
           /\ s # slot =>
                /\ after.pool[s].is_open = pool[s].is_open
                /\ after.pool[s].next = IF s = rec.prev THEN rec.next ELSE pool[s].next
                /\ after.pool[s].prev = IF s = rec.next THEN rec.prev ELSE pool[s].prev
      /\ ~after.pool[slot].is_open
      /\ after.book.levels[side][idx].head =
           IF rec.prev = kInvalidSlot THEN rec.next ELSE lvl.head
      /\ after.book.levels[side][idx].tail =
           IF rec.next = kInvalidSlot THEN rec.prev ELSE lvl.tail
      /\ \A sd \in Side : \A x \in Index(i) :
           ~(sd = side /\ x = idx) => after.book.levels[sd][x] = book.levels[sd][x]
  BY <1>e DEF RemoveRestingEffect
<1>2. /\ \A s \in Slots :
           /\ after.pool[s].instrument_id = pool[s].instrument_id
           /\ after.pool[s].side = pool[s].side
           /\ after.pool[s].level_index = pool[s].level_index
           /\ s # slot => (after.pool[s].is_open <=> pool[s].is_open)
      /\ ~after.pool[slot].is_open
  BY <1>1
<1>3. QueueLinked(pool, lvl, queue) /\ QueueOrdered(pool, queue, rank)
  BY <1>0 DEF BookFits, LevelsLinked
<1>4. queue \in SUBSET Slots /\ slot \in queue
  BY DEF Queue
<1>5. /\ rec.prev # kInvalidSlot => rec.prev \in queue
      /\ rec.next # kInvalidSlot => rec.next \in queue
  BY <1>3, <1>4, LinksStayInQueue
<1> HIDE DEF after, lvl
<1>6. OnTheirLevels(after.pool, i)
  BY <1>1 DEF BookFits, OnTheirLevels
<1>7. Queue(after.pool, i, side, idx) = queue \ {slot}
  <2>1. ASSUME NEW s \in Slots
        PROVE  s \in Queue(after.pool, i, side, idx) <=> s \in queue /\ s # slot
    <3>1. CASE s = slot
      BY <1>2, <3>1 DEF Queue
    <3>2. CASE s # slot
      BY <1>2, <3>2 DEF Queue
    <3> QED
      BY <3>1, <3>2
  <2> QED
    BY <2>1 DEF Queue
<1>8. /\ QueueLinked(after.pool, after.book.levels[side][idx], queue \ {slot})
      /\ QueueOrdered(after.pool, queue \ {slot}, rank)
  <2>1. \A s \in queue \ {slot} :
          /\ after.pool[s].next = IF s = pool[slot].prev THEN pool[slot].next ELSE pool[s].next
          /\ after.pool[s].prev = IF s = pool[slot].next THEN pool[slot].prev ELSE pool[s].prev
    BY <1>1, <1>4
  <2> DEFINE p2 == after.pool
             l2 == after.book.levels[side][idx]
  <2>2. /\ l2.head = IF pool[slot].prev = kInvalidSlot THEN pool[slot].next ELSE lvl.head
        /\ l2.tail = IF pool[slot].next = kInvalidSlot THEN pool[slot].prev ELSE lvl.tail
    BY <1>1
  <2>3. \A s \in queue \ {slot} :
          /\ p2[s].next = IF s = pool[slot].prev THEN pool[slot].next ELSE pool[s].next
          /\ p2[s].prev = IF s = pool[slot].next THEN pool[slot].prev ELSE pool[s].prev
    BY <2>1
  <2> HIDE DEF queue, p2, l2
  <2>4. QueueLinked(p2, l2, queue \ {slot}) /\ QueueOrdered(p2, queue \ {slot}, rank)
    BY <1>3, <1>4, <2>2, <2>3, UnlinkKeepsQueue
  <2> QED
    BY <2>4 DEF p2, l2
<1>9. ASSUME NEW sd \in Side, NEW x \in Index(i), ~(sd = side /\ x = idx)
      PROVE  /\ QueueLinked(after.pool, after.book.levels[sd][x], Queue(after.pool, i, sd, x))
             /\ QueueOrdered(after.pool, Queue(after.pool, i, sd, x), rank)
  <2> DEFINE other == Queue(pool, i, sd, x)
  <2>1. Queue(after.pool, i, sd, x) = other
    <3>1. ASSUME NEW s \in Slots
          PROVE  s \in Queue(after.pool, i, sd, x) <=> s \in other
      <4>1. CASE s = slot
        BY <1>2, <1>4, <1>9, <4>1 DEF Queue
      <4>2. CASE s # slot
        BY <1>2, <4>2 DEF Queue
      <4> QED
        BY <4>1, <4>2
    <3> QED
      BY <3>1 DEF Queue
  <2>2. \A s \in other : after.pool[s].prev = pool[s].prev /\ after.pool[s].next = pool[s].next
    <3>1. ASSUME NEW s \in other PROVE s \in Slots /\ s \notin {slot, rec.prev, rec.next}
      BY <1>4, <1>5, <1>9, SlotFacts DEF Queue
    <3> QED
      BY ZenonT(40), <1>1, <3>1
  <2>3. QueueLinked(pool, book.levels[sd][x], other) /\ QueueOrdered(pool, other, rank)
    BY DEF BookFits, LevelsLinked
  <2>4. after.book.levels[sd][x] = book.levels[sd][x]
    BY ZenonT(40), <1>1, <1>9
  <2> DEFINE p2 == after.pool
             l1 == book.levels[sd][x]
  <2> HIDE DEF other, p2, l1
  <2>5. QueueLinked(p2, l1, other) /\ QueueOrdered(p2, other, rank)
    <3>1. Untouched(pool, p2, rank, rank, other)
      BY <2>2 DEF p2, Untouched
    <3>2. QueueLinked(pool, l1, other) /\ QueueOrdered(pool, other, rank)
      BY <2>3 DEF l1
    <3> QED
      BY <3>1, <3>2, QueueFrame
  <2> QED
    BY <2>1, <2>4, <2>5 DEF p2, l1
<1>10. LevelsLinked(after.pool, after.book, i, rank)
  BY <1>7, <1>8, <1>9 DEF LevelsLinked
<1>11. ASSUME NEW j \in Instruments \ {i} PROVE SameForBook(pool, after.pool, rank, rank, j)
  <2>1. ASSUME NEW s \in Slots, pool[s].is_open, pool[s].instrument_id = j
        PROVE  s \notin {slot, rec.prev, rec.next}
    BY <1>5, <2>1, SlotFacts DEF Queue
  <2> QED
    BY ZenonT(40), <1>1, <2>1 DEF SameForBook
<1> QED
  BY <1>6, <1>10, <1>11 DEF BookFits, after

(***************************************************************************)
(* replace_in_place, likewise.                                             *)
(***************************************************************************)
\* What replace_in_place leaves.
ReplaceInPlaceEffect(pool, book, i, old_slot, new_slot, after) ==
  LET old   == pool[old_slot]
      lvl   == book.levels[old.side][old.level_index]
  IN /\ \A s \in Slots :
          /\ after.pool[s].id = pool[s].id
          /\ after.pool[s].instrument_id = pool[s].instrument_id
          /\ after.pool[s].open_qty = pool[s].open_qty
          /\ after.pool[s].filled_qty = pool[s].filled_qty
          /\ s # new_slot => /\ after.pool[s].side = pool[s].side
                             /\ after.pool[s].price = pool[s].price
                             /\ after.pool[s].level_index = pool[s].level_index
          /\ s \notin {old_slot, new_slot} =>
               /\ after.pool[s].is_open = pool[s].is_open
               /\ after.pool[s].next = IF s = old.prev THEN new_slot ELSE pool[s].next
               /\ after.pool[s].prev = IF s = old.next THEN new_slot ELSE pool[s].prev
     /\ ~after.pool[old_slot].is_open
     /\ after.pool[new_slot].is_open
     /\ after.pool[new_slot].side = old.side
     /\ after.pool[new_slot].price = old.price
     /\ after.pool[new_slot].level_index = old.level_index
     /\ after.pool[new_slot].prev = old.prev
     /\ after.pool[new_slot].next = old.next
     /\ after.book.levels[old.side][old.level_index].head =
          IF old.prev = kInvalidSlot THEN new_slot ELSE lvl.head
     /\ after.book.levels[old.side][old.level_index].tail =
          IF old.next = kInvalidSlot THEN new_slot ELSE lvl.tail
     /\ \A sd \in Side : \A x \in Index(i) :
          ~(sd = old.side /\ x = old.level_index) =>
            after.book.levels[sd][x] = book.levels[sd][x]

\* replace_in_place leaves just that.
LEMMA ReplaceInPlaceFields ==
  ASSUME NEW i \in Instruments, NEW pool \in [Slots -> OrderRecord], NEW book \in Book(i),
         NEW old_slot \in Slots, NEW new_slot \in Slots, old_slot # new_slot,
         pool[old_slot].level_index \in Index(i)
  PROVE  ReplaceInPlaceEffect(pool, book, i, old_slot, new_slot,
           replace_in_place(pool, book, old_slot, new_slot))
<1> DEFINE old   == pool[old_slot]
           side  == old.side
           idx   == old.level_index
           lvl   == book.levels[side][idx]
           after == replace_in_place(pool, book, old_slot, new_slot)
           nl    == [head        |-> IF old.prev = kInvalidSlot THEN new_slot ELSE lvl.head,
                     tail        |-> IF old.next = kInvalidSlot THEN new_slot ELSE lvl.tail,
                     total_qty   |-> Plus(Minus(lvl.total_qty, old.open_qty),
                                          pool[new_slot].open_qty),
                     order_count |-> lvl.order_count]
<1>1. after.pool =
        [s \in Slots |->
           IF s = new_slot
           THEN [pool[s] EXCEPT !.side = side, !.price = old.price, !.level_index = idx,
                                !.is_open = TRUE, !.prev = old.prev, !.next = old.next]
           ELSE IF s = old_slot
           THEN [old EXCEPT !.is_open = FALSE, !.prev = kInvalidSlot, !.next = kInvalidSlot]
           ELSE [pool[s] EXCEPT !.next = IF s = old.prev THEN new_slot ELSE @,
                                !.prev = IF s = old.next THEN new_slot ELSE @]]
  BY DEF replace_in_place
<1>2. after.book = [book EXCEPT !.levels[side][idx] = nl]
  BY DEF replace_in_place
<1>3. /\ book.levels \in [Side -> [Index(i) -> Level]]
      /\ old \in OrderRecord /\ side \in Side /\ idx \in Index(i)
  BY DEF Book, OrderRecord
<1>4. /\ after.book.levels[side][idx] = nl
      /\ \A sd \in Side : \A x \in Index(i) :
           ~(sd = side /\ x = idx) => after.book.levels[sd][x] = book.levels[sd][x]
  <2> HIDE DEF idx, nl, after, side
  <2>1. after.book.levels = [book.levels EXCEPT ![side][idx] = nl]
    BY <1>2 DEF Book
  <2> QED
    BY <1>3, <2>1
<1>5. /\ nl.head = (IF old.prev = kInvalidSlot THEN new_slot ELSE lvl.head)
      /\ nl.tail = (IF old.next = kInvalidSlot THEN new_slot ELSE lvl.tail)
  OBVIOUS
<1>6. ASSUME NEW s \in Slots \ {old_slot, new_slot}
      PROVE  /\ after.pool[s].id = pool[s].id
             /\ after.pool[s].instrument_id = pool[s].instrument_id
             /\ after.pool[s].open_qty = pool[s].open_qty
             /\ after.pool[s].filled_qty = pool[s].filled_qty
             /\ after.pool[s].side = pool[s].side
             /\ after.pool[s].price = pool[s].price
             /\ after.pool[s].level_index = pool[s].level_index
             /\ after.pool[s].is_open = pool[s].is_open
             /\ after.pool[s].next = IF s = old.prev THEN new_slot ELSE pool[s].next
             /\ after.pool[s].prev = IF s = old.next THEN new_slot ELSE pool[s].prev
  <2>1. pool[s] \in OrderRecord
    OBVIOUS
  <2>2. after.pool[s] = [pool[s] EXCEPT !.next = IF s = old.prev THEN new_slot ELSE @,
                                        !.prev = IF s = old.next THEN new_slot ELSE @]
    BY <1>1
  <2> HIDE DEF after, old
  <2> QED
    BY <2>1, <2>2 DEF OrderRecord
<1>7. /\ after.pool[old_slot].id = old.id
      /\ after.pool[old_slot].instrument_id = old.instrument_id
      /\ after.pool[old_slot].open_qty = old.open_qty
      /\ after.pool[old_slot].filled_qty = old.filled_qty
      /\ after.pool[old_slot].side = old.side
      /\ after.pool[old_slot].price = old.price
      /\ after.pool[old_slot].level_index = old.level_index
      /\ ~after.pool[old_slot].is_open
  <2>1. after.pool[old_slot] = [old EXCEPT !.is_open = FALSE, !.prev = kInvalidSlot,
                                           !.next = kInvalidSlot]
    BY <1>1
  <2> HIDE DEF after, old
  <2> QED
    BY <1>3, <2>1 DEF OrderRecord
<1>8. /\ after.pool[new_slot].id = pool[new_slot].id
      /\ after.pool[new_slot].instrument_id = pool[new_slot].instrument_id
      /\ after.pool[new_slot].open_qty = pool[new_slot].open_qty
      /\ after.pool[new_slot].filled_qty = pool[new_slot].filled_qty
      /\ after.pool[new_slot].is_open
      /\ after.pool[new_slot].side = side
      /\ after.pool[new_slot].price = old.price
      /\ after.pool[new_slot].level_index = idx
      /\ after.pool[new_slot].prev = old.prev
      /\ after.pool[new_slot].next = old.next
  <2>1. after.pool[new_slot] =
          [pool[new_slot] EXCEPT !.side = side, !.price = old.price, !.level_index = idx,
                                 !.is_open = TRUE, !.prev = old.prev, !.next = old.next]
    BY <1>1
  <2>2. pool[new_slot] \in OrderRecord
    OBVIOUS
  <2> HIDE DEF after, old, side, idx
  <2> QED
    BY <2>1, <2>2 DEF OrderRecord
<1> HIDE DEF nl, after
<1>9. ASSUME NEW s \in Slots
      PROVE  /\ after.pool[s].id = pool[s].id
             /\ after.pool[s].instrument_id = pool[s].instrument_id
             /\ after.pool[s].open_qty = pool[s].open_qty
             /\ after.pool[s].filled_qty = pool[s].filled_qty
             /\ s # new_slot => /\ after.pool[s].side = pool[s].side
                                /\ after.pool[s].price = pool[s].price
                                /\ after.pool[s].level_index = pool[s].level_index
  <2>1. CASE s = old_slot
    BY <1>7, <2>1
  <2>2. CASE s = new_slot
    BY <1>8, <2>2
  <2>3. CASE s \notin {old_slot, new_slot}
    BY <1>6, <2>3
  <2> QED
    BY <2>1, <2>2, <2>3
<1>10. /\ after.book.levels[side][idx].head =
            IF old.prev = kInvalidSlot THEN new_slot ELSE lvl.head
       /\ after.book.levels[side][idx].tail =
            IF old.next = kInvalidSlot THEN new_slot ELSE lvl.tail
  BY <1>4, <1>5
<1>11. ReplaceInPlaceEffect(pool, book, i, old_slot, new_slot, after)
  BY ZenonT(40), <1>4, <1>6, <1>7, <1>8, <1>9, <1>10 DEF ReplaceInPlaceEffect
<1> QED
  BY <1>11 DEF after

(***************************************************************************)
(* The replacement stands where the order it replaces stood, and has its   *)
(* rank.                                                                   *)
(***************************************************************************)
LEMMA ReplaceInPlaceFits ==
  ASSUME NEW i \in Instruments, NEW pool \in [Slots -> OrderRecord], NEW book \in Book(i),
         NEW old_slot \in Slots, NEW new_slot \in Slots,
         NEW rank \in [Slots -> Slots], NEW rank2,
         pool[old_slot].is_open, pool[old_slot].instrument_id = i,
         ~pool[new_slot].is_open, pool[new_slot].instrument_id = i,
         rank2[new_slot] = rank[old_slot],
         \A s \in Slots \ {new_slot} : rank2[s] = rank[s],
         BookFits(pool, book, i, rank)
  PROVE  LET after == replace_in_place(pool, book, old_slot, new_slot)
         IN /\ BookFits(after.pool, after.book, i, rank2)
            /\ \A j \in Instruments \ {i} : SameForBook(pool, after.pool, rank, rank2, j)
<1> DEFINE old   == pool[old_slot]
           side  == old.side
           idx   == old.level_index
           lvl   == book.levels[side][idx]
           after == replace_in_place(pool, book, old_slot, new_slot)
           queue == Queue(pool, i, side, idx)
           q2    == (queue \ {old_slot}) \cup {new_slot}
<1>0. idx \in Index(i) /\ side \in Side /\ old_slot # new_slot
  <2>1. old \in OrderRecord
    OBVIOUS
  <2> QED
    BY <2>1 DEF BookFits, OnTheirLevels, OrderRecord
<1>e. ReplaceInPlaceEffect(pool, book, i, old_slot, new_slot, after)
  BY <1>0, ReplaceInPlaceFields
<1>1. /\ \A s \in Slots :
           /\ after.pool[s].instrument_id = pool[s].instrument_id
           /\ s # new_slot => /\ after.pool[s].side = pool[s].side
                              /\ after.pool[s].price = pool[s].price
                              /\ after.pool[s].level_index = pool[s].level_index
           /\ s \notin {old_slot, new_slot} =>
                /\ after.pool[s].is_open = pool[s].is_open
                /\ after.pool[s].next = IF s = old.prev THEN new_slot ELSE pool[s].next
                /\ after.pool[s].prev = IF s = old.next THEN new_slot ELSE pool[s].prev
      /\ ~after.pool[old_slot].is_open
      /\ after.pool[new_slot].is_open
      /\ after.pool[new_slot].side = side
      /\ after.pool[new_slot].price = old.price
      /\ after.pool[new_slot].level_index = idx
      /\ after.pool[new_slot].prev = old.prev
      /\ after.pool[new_slot].next = old.next
      /\ after.book.levels[side][idx].head =
           IF old.prev = kInvalidSlot THEN new_slot ELSE lvl.head
      /\ after.book.levels[side][idx].tail =
           IF old.next = kInvalidSlot THEN new_slot ELSE lvl.tail
      /\ \A sd \in Side : \A x \in Index(i) :
           ~(sd = side /\ x = idx) => after.book.levels[sd][x] = book.levels[sd][x]
  BY <1>e DEF ReplaceInPlaceEffect
<1>2. index_to_price(i, idx) = old.price
  BY DEF BookFits, OnTheirLevels
<1>3. QueueLinked(pool, lvl, queue) /\ QueueOrdered(pool, queue, rank)
  BY <1>0 DEF BookFits, LevelsLinked
<1>4. queue \in SUBSET Slots /\ old_slot \in queue /\ new_slot \notin queue
  BY DEF Queue
<1>5. /\ old.prev # kInvalidSlot => old.prev \in queue
      /\ old.next # kInvalidSlot => old.next \in queue
  BY <1>3, <1>4, LinksStayInQueue
<1> HIDE DEF after, lvl
<1>6. OnTheirLevels(after.pool, i)
  BY <1>0, <1>1, <1>2 DEF BookFits, OnTheirLevels
<1>7. Queue(after.pool, i, side, idx) = q2
  <2>1. ASSUME NEW s \in Slots
        PROVE  s \in Queue(after.pool, i, side, idx) <=> s \in q2
    <3>1. CASE s = new_slot
      BY <1>1, <3>1 DEF Queue
    <3>2. CASE s = old_slot
      BY <1>0, <1>1, <3>2 DEF Queue
    <3>3. CASE s \notin {old_slot, new_slot}
      BY <1>1, <3>3 DEF Queue
    <3> QED
      BY <3>1, <3>2, <3>3
  <2> QED
    BY <2>1 DEF Queue
<1>8. /\ QueueLinked(after.pool, after.book.levels[side][idx], q2)
      /\ QueueOrdered(after.pool, q2, rank2)
  <2> DEFINE p2 == after.pool
             l2 == after.book.levels[side][idx]
  <2>1. \A s \in queue \ {old_slot} :
          /\ p2[s].next = IF s = pool[old_slot].prev THEN new_slot ELSE pool[s].next
          /\ p2[s].prev = IF s = pool[old_slot].next THEN new_slot ELSE pool[s].prev
    BY ZenonT(40), <1>1, <1>4
  <2>2. /\ l2.head = IF pool[old_slot].prev = kInvalidSlot THEN new_slot ELSE lvl.head
        /\ l2.tail = IF pool[old_slot].next = kInvalidSlot THEN new_slot ELSE lvl.tail
        /\ p2[new_slot].prev = pool[old_slot].prev
        /\ p2[new_slot].next = pool[old_slot].next
    BY <1>1
  <2>3. \A s \in queue : rank2[s] = rank[s]
    BY <1>4
  <2>4. Spliced(pool, p2, lvl, l2, queue, old_slot, new_slot)
    BY <2>1, <2>2 DEF Spliced
  <2> HIDE DEF queue, p2, l2
  <2>5. /\ QueueLinked(p2, l2, (queue \ {old_slot}) \cup {new_slot})
        /\ QueueOrdered(p2, (queue \ {old_slot}) \cup {new_slot}, rank2)
    BY <1>3, <1>4, <2>3, <2>4, SpliceKeepsQueue
  <2> QED
    BY <2>5 DEF p2, l2
<1>9. ASSUME NEW sd \in Side, NEW x \in Index(i), ~(sd = side /\ x = idx)
      PROVE  /\ QueueLinked(after.pool, after.book.levels[sd][x], Queue(after.pool, i, sd, x))
             /\ QueueOrdered(after.pool, Queue(after.pool, i, sd, x), rank2)
  <2> DEFINE other == Queue(pool, i, sd, x)
             p2    == after.pool
             l1    == book.levels[sd][x]
  <2>1. Queue(after.pool, i, sd, x) = other
    <3>1. ASSUME NEW s \in Slots
          PROVE  s \in Queue(after.pool, i, sd, x) <=> s \in other
      <4>1. CASE s = new_slot
        BY <1>1, <1>9, <4>1 DEF Queue
      <4>2. CASE s = old_slot
        BY <1>1, <1>9, <4>2 DEF Queue
      <4>3. CASE s \notin {old_slot, new_slot}
        BY <1>1, <4>3 DEF Queue
      <4> QED
        BY <4>1, <4>2, <4>3
    <3> QED
      BY <3>1 DEF Queue
  <2>2. Untouched(pool, p2, rank, rank2, other)
    <3>1. ASSUME NEW s \in other
          PROVE  s \in Slots /\ s \notin {old_slot, new_slot, old.prev, old.next}
      BY <1>4, <1>5, <1>9, SlotFacts DEF Queue
    <3> QED
      BY ZenonT(40), <1>1, <3>1 DEF Untouched
  <2>3. QueueLinked(pool, l1, other) /\ QueueOrdered(pool, other, rank)
    BY DEF BookFits, LevelsLinked
  <2>4. after.book.levels[sd][x] = book.levels[sd][x]
    BY <1>1, <1>9
  <2> HIDE DEF other, p2, l1
  <2>5. QueueLinked(p2, l1, other) /\ QueueOrdered(p2, other, rank2)
    BY <2>2, <2>3, QueueFrame
  <2> QED
    BY <2>1, <2>4, <2>5 DEF p2, l1
<1>10. LevelsLinked(after.pool, after.book, i, rank2)
  BY <1>7, <1>8, <1>9 DEF LevelsLinked
<1>11. ASSUME NEW j \in Instruments \ {i} PROVE SameForBook(pool, after.pool, rank, rank2, j)
  <2>1. ASSUME NEW s \in Slots, pool[s].is_open, pool[s].instrument_id = j
        PROVE  s \notin {old_slot, new_slot, old.prev, old.next}
    BY <1>4, <1>5, <2>1, SlotFacts DEF Queue
  <2>2. pool[new_slot].instrument_id # j /\ pool[old_slot].instrument_id # j
    OBVIOUS
  <2>3. ASSUME NEW s \in Slots
        PROVE  after.pool[s].is_open /\ after.pool[s].instrument_id = j
                 <=> pool[s].is_open /\ pool[s].instrument_id = j
    <3>1. CASE s \in {old_slot, new_slot}
      BY <1>1, <2>2, <3>1
    <3>2. CASE s \notin {old_slot, new_slot}
      BY <1>1, <3>2
    <3> QED
      BY <3>1, <3>2
  <2>4. ASSUME NEW s \in Slots, pool[s].is_open, pool[s].instrument_id = j
        PROVE  /\ after.pool[s].side = pool[s].side
               /\ after.pool[s].price = pool[s].price
               /\ after.pool[s].level_index = pool[s].level_index
               /\ after.pool[s].prev = pool[s].prev
               /\ after.pool[s].next = pool[s].next
               /\ rank2[s] = rank[s]
    <3>1. s \notin {old_slot, new_slot, old.prev, old.next}
      BY <2>1, <2>4
    <3> HIDE DEF old
    <3> QED
      BY <1>1, <3>1
  <2> HIDE DEF after, old
  <2> QED
    BY <2>3, <2>4 DEF SameForBook
<1> QED
  BY <1>6, <1>10, <1>11 DEF BookFits, after

=============================================================================
