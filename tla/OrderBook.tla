------------------------------ MODULE OrderBook ------------------------------
(***************************************************************************)
(* One instrument's book, as src/order_book.cpp keeps it: two arrays of    *)
(* price levels indexed through the instrument's ladder, each level an     *)
(* intrusive FIFO threaded through the shared order pool, a bitmap of the  *)
(* occupied levels per side and a cached best index per side.              *)
(*                                                                         *)
(* The C++ methods mutate the pool and the book they are called on.  Here  *)
(* each one is an operator from a pool and a book to the pair              *)
(* [pool |-> ..., book |-> ...] it leaves, so that a handler of the engine *)
(* that makes several calls in a row is the composition of their           *)
(* operators and still a single step.                                      *)
(***************************************************************************)
EXTENDS Integers, FiniteSets, FiniteSetsExt

CONSTANTS
  Instruments,   \* instrument ids a host may name
  OrderIds,      \* caller-assigned order ids
  Unset,         \* value of a field of OrderRecord nobody has assigned yet
  Ladder,        \* Ladder[i]: index -> price, what PriceLadder::build lays out
  PoolCapacity,  \* bound: slots the pool can hand out before memory runs out
  QtyMod         \* Quantity is an unsigned word: arithmetic is modulo QtyMod

Index(i) == DOMAIN Ladder[i]

(***************************************************************************)
(* A ladder is a dense array of prices in ascending order.                 *)
(***************************************************************************)
IsLadder(i) ==
  /\ IsFiniteSet(Index(i)) /\ Index(i) # {}
  /\ Index(i) = 0 .. Cardinality(Index(i)) - 1
  /\ Ladder[i] \in [Index(i) -> Int]
  /\ \A x, y \in Index(i) : x < y => Ladder[i][x] < Ladder[i][y]

ASSUME LadderAssumption == \A i \in Instruments : IsLadder(i)

ASSUME WidthAssumption == PoolCapacity \in Nat \ {0} /\ QtyMod \in Nat \ {0}

-----------------------------------------------------------------------------
Side     == {"kBuy", "kSell"}
Quantity == 0 .. QtyMod - 1
Slots    == 0 .. PoolCapacity - 1

\* 0xFFFFFFFF in the code: a slot number that no order ever has.
kInvalidSlot == PoolCapacity
Link         == Slots \cup {kInvalidSlot}

\* Unsigned arithmetic on Quantity; the _ variants are what a wider sum and a
\* subtraction that stops at zero would compute instead.
Plus_wide(a, b)   == a + b
Minus_clamp(a, b) == IF a < b THEN 0 ELSE a - b
Plus(a, b)  == (a + b) % QtyMod
Minus(a, b) == (a - b) % QtyMod

Opposite(side) == IF side = "kBuy" THEN "kSell" ELSE "kBuy"

OrderRecord ==
  [id            : OrderIds \cup {Unset},
   instrument_id : Instruments \cup {Unset},
   side          : Side,
   price         : Int,
   open_qty      : Quantity,
   filled_qty    : Quantity,
   prev          : Link,
   next          : Link,
   level_index   : Int,
   is_open       : BOOLEAN]

\* OrderRecord{}, what allocate() stores in a fresh slot.
NewRecord ==
  [id |-> Unset, instrument_id |-> Unset, side |-> "kBuy", price |-> 0,
   open_qty |-> 0, filled_qty |-> 0, prev |-> kInvalidSlot,
   next |-> kInvalidSlot, level_index |-> kInvalidSlot, is_open |-> FALSE]

Level == [head : Link, tail : Link, total_qty : Quantity, order_count : Int]

EmptyLevel ==
  [head |-> kInvalidSlot, tail |-> kInvalidSlot, total_qty |-> 0, order_count |-> 0]

Book(i) ==
  [levels : [Side -> [Index(i) -> Level]],
   bitmap : [Side -> SUBSET Index(i)],
   best   : [Side -> Index(i) \cup {-1}]]

\* The book configure() leaves: every level empty, no best on either side.
EmptyBook(i) ==
  [levels |-> [sd \in Side |-> [x \in Index(i) |-> EmptyLevel]],
   bitmap |-> [sd \in Side |-> {}],
   best   |-> [sd \in Side |-> -1]]

-----------------------------------------------------------------------------
(***************************************************************************)
(* The ladder's two conversions, and the bitmap's two scans.               *)
(***************************************************************************)
index_to_price(i, x) == Ladder[i][x]

price_to_index(i, price) ==
  IF \E x \in Index(i) : Ladder[i][x] = price
  THEN CHOOSE x \in Index(i) : Ladder[i][x] = price
  ELSE -1

find_highest_le(bits, start) ==
  LET found == {b \in bits : b <= start} IN IF found = {} THEN -1 ELSE Max(found)

find_lowest_ge(bits, start) ==
  LET found == {b \in bits : b >= start} IN IF found = {} THEN -1 ELSE Min(found)

\* Slip: the walk goes towards better prices.
next_index_backwards(bits, side, x) ==
  IF side = "kBuy" THEN find_lowest_ge(bits, x + 1) ELSE find_highest_le(bits, x - 1)

\* The next occupied level of `side` strictly past index x.
next_index(bits, side, x) ==
  IF side = "kBuy" THEN find_highest_le(bits, x - 1) ELSE find_lowest_ge(bits, x + 1)

\* Index x is a better price than index y for an order resting on `side`.
Better(side, x, y) == IF side = "kBuy" THEN x > y ELSE x < y

has_best(book, side) == book.best[side] >= 0

(***************************************************************************)
(* top_of_book: price and total of the best level of each side.            *)
(***************************************************************************)
Quote(i, book, side) ==
  IF has_best(book, side)
  THEN [price    |-> index_to_price(i, book.best[side]),
        quantity |-> book.levels[side][book.best[side]].total_qty]
  ELSE [price |-> 0, quantity |-> 0]

top_of_book(i, book) == [side \in Side |-> Quote(i, book, side)]

-----------------------------------------------------------------------------
(***************************************************************************)
(* add_resting: append `slot` to the tail of the level for (side, price).  *)
(* The caller has already set its open_qty.                                *)
(***************************************************************************)
add_resting(pool, book, i, slot, side, price) ==
  LET idx   == price_to_index(i, price)
      lvl   == book.levels[side][idx]
      count == lvl.order_count + 1
  IN [pool |->
        [s \in Slots |->
           IF s = slot
           THEN [pool[s] EXCEPT !.side = side, !.price = price, !.level_index = idx,
                                !.is_open = TRUE, !.prev = lvl.tail,
                                !.next = kInvalidSlot]
           ELSE IF s = lvl.tail THEN [pool[s] EXCEPT !.next = slot] ELSE pool[s]],
      book |->
        [levels |->
           [book.levels EXCEPT ![side][idx] =
              [head        |-> IF lvl.tail = kInvalidSlot THEN slot ELSE lvl.head,
               tail        |-> slot,
               total_qty   |-> Plus(lvl.total_qty, pool[slot].open_qty),
               order_count |-> count]],
         bitmap |-> IF count = 1 THEN [book.bitmap EXCEPT ![side] = @ \cup {idx}]
                    ELSE book.bitmap,
         best   |-> IF ~has_best(book, side) \/ Better(side, idx, book.best[side])
                    THEN [book.best EXCEPT ![side] = idx] ELSE book.best]]

(***************************************************************************)
(* remove_resting: unlink `slot` from its level, and when the level        *)
(* empties clear its bit and, if it was the best one, find the next best.  *)
(***************************************************************************)
\* Slip: the successor keeps pointing back at the removed order.
Unlink_one_way(pool, slot) ==
  LET rec == pool[slot]
  IN [s \in Slots |->
        IF s = slot
        THEN [rec EXCEPT !.is_open = FALSE, !.prev = kInvalidSlot, !.next = kInvalidSlot]
        ELSE [pool[s] EXCEPT !.next = IF s = rec.prev THEN rec.next ELSE @]]

Unlink(pool, slot) ==
  LET rec == pool[slot]
  IN [s \in Slots |->
        IF s = slot
        THEN [rec EXCEPT !.is_open = FALSE, !.prev = kInvalidSlot, !.next = kInvalidSlot]
        ELSE [pool[s] EXCEPT !.next = IF s = rec.prev THEN rec.next ELSE @,
                             !.prev = IF s = rec.next THEN rec.prev ELSE @]]

\* Slip: the cached index outlives the level it names.
BestAfter_stale(book, bits, side, x, count) == book.best[side]

\* The cached best index of `side` once `count` orders are left on level x.
BestAfter(book, bits, side, x, count) ==
  IF count = 0 /\ book.best[side] = x THEN next_index(bits, side, x) ELSE book.best[side]

remove_resting(pool, book, slot) ==
  LET rec   == pool[slot]
      side  == rec.side
      idx   == rec.level_index
      lvl   == book.levels[side][idx]
      count == lvl.order_count - 1
      bits  == IF count = 0 THEN book.bitmap[side] \ {idx} ELSE book.bitmap[side]
  IN [pool |-> Unlink(pool, slot),
      book |->
        [levels |->
           [book.levels EXCEPT ![side][idx] =
              [head        |-> IF rec.prev = kInvalidSlot THEN rec.next ELSE lvl.head,
               tail        |-> IF rec.next = kInvalidSlot THEN rec.prev ELSE lvl.tail,
               total_qty   |-> Minus(lvl.total_qty, rec.open_qty),
               order_count |-> count]],
         bitmap |-> [book.bitmap EXCEPT ![side] = bits],
         best   |-> [book.best EXCEPT ![side] = BestAfter(book, bits, side, idx, count)]]]

(***************************************************************************)
(* replace_in_place: put new_slot in the exact FIFO position of old_slot.  *)
(***************************************************************************)
replace_in_place(pool, book, old_slot, new_slot) ==
  LET old  == pool[old_slot]
      side == old.side
      idx  == old.level_index
      lvl  == book.levels[side][idx]
  IN [pool |->
        [s \in Slots |->
           IF s = new_slot
           THEN [pool[s] EXCEPT !.side = side, !.price = old.price, !.level_index = idx,
                                !.is_open = TRUE, !.prev = old.prev, !.next = old.next]
           ELSE IF s = old_slot
           THEN [old EXCEPT !.is_open = FALSE, !.prev = kInvalidSlot, !.next = kInvalidSlot]
           ELSE [pool[s] EXCEPT !.next = IF s = old.prev THEN new_slot ELSE @,
                                !.prev = IF s = old.next THEN new_slot ELSE @]],
      book |->
        [book EXCEPT !.levels[side][idx] =
           [head        |-> IF old.prev = kInvalidSlot THEN new_slot ELSE lvl.head,
            tail        |-> IF old.next = kInvalidSlot THEN new_slot ELSE lvl.tail,
            total_qty   |-> Plus(Minus(lvl.total_qty, old.open_qty), pool[new_slot].open_qty),
            order_count |-> lvl.order_count]]]

-----------------------------------------------------------------------------
(***************************************************************************)
(* What the operations rely on.  The orders resting on one level form its  *)
(* queue; the level's list is threaded through exactly them: links are     *)
(* mutually inverse and stay inside the queue, an order without a          *)
(* predecessor is the head, one without a successor the tail.              *)
(***************************************************************************)
Queue(pool, i, side, x) ==
  {s \in Slots : /\ pool[s].is_open
                 /\ pool[s].instrument_id = i
                 /\ pool[s].side = side
                 /\ pool[s].level_index = x}

QueueLinked(pool, lvl, queue) ==
  /\ \A s \in queue :
       /\ IF pool[s].prev = kInvalidSlot THEN lvl.head = s
          ELSE pool[s].prev \in queue /\ pool[pool[s].prev].next = s
       /\ IF pool[s].next = kInvalidSlot THEN lvl.tail = s
          ELSE pool[s].next \in queue /\ pool[pool[s].next].prev = s
  /\ lvl.head # kInvalidSlot => lvl.head \in queue /\ pool[lvl.head].prev = kInvalidSlot
  /\ lvl.tail # kInvalidSlot => lvl.tail \in queue /\ pool[lvl.tail].next = kInvalidSlot

\* The list runs in the order of rank.
QueueOrdered(pool, queue, rank) ==
  \A s \in queue : pool[s].next # kInvalidSlot => rank[s] < rank[pool[s].next]

=============================================================================
