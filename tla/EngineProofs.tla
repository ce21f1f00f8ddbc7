----------------------------- MODULE EngineProofs -----------------------------
(***************************************************************************)
(* Every state the engine reaches, with a listener that throws or cancels  *)
(* from its callbacks and an id index that runs out of memory included,    *)
(* has its types, its lists linked and in the order of their turns, its    *)
(* resting orders reachable through their ids, and quantities that fit.    *)
(*                                                                         *)
(* The invariant adds to those properties what each of them needs from the *)
(* others: where the call in progress stands (CallInOrder), and that slots *)
(* are handed out in order (SlotsInOrder).                                 *)
(***************************************************************************)
EXTENDS EngineFaults, BookProofs

(***************************************************************************)
(* Slots are handed out in ascending order, only a slot handed out can     *)
(* hold a resting order, and no order has the turn of a later slot.        *)
(***************************************************************************)
SlotsInOrder ==
  \A s \in Slots :
    /\ arrival[s] <= s
    /\ s >= pool_size => arrival[s] = s
    /\ pool[s].is_open => /\ s < pool_size
                          /\ pool[s].instrument_id \in instrument_index
                          /\ pool[s].id \in OrderIds

(***************************************************************************)
(* The order the call in progress is about has the last slot, is indexed   *)
(* and does not rest yet; if it may come to rest its price is on the       *)
(* ladder.                                                                 *)
(***************************************************************************)
AggressorInOrder ==
  /\ call.slot \in Slots
  /\ pool_size = call.slot + 1
  /\ arrival[call.slot] = call.slot
  /\ ~Agg.is_open
  /\ Agg.id \in OrderIds
  /\ order_index[Agg.id] = call.slot
  /\ Instr \in instrument_index
  /\ call.tif = "kDay" => price_to_index(Instr, call.price) \in Index(Instr)

\* A trade under way is with an order of the level being matched, for no more
\* than either order has open.
TradeInOrder ==
  /\ call.resting \in Queue(pool, Instr, Opposite(call.side), call.idx)
  /\ call.fill <= Agg.open_qty
  /\ call.fill <= pool[call.resting].open_qty

CallInOrder ==
  /\ pc = "idle" => call = NoCall
  /\ pc # "idle" => AggressorInOrder
  /\ pc \in {"level", "on_trade"} => call.idx \in Index(Instr)
  /\ pc = "on_trade" => TradeInOrder

BooksFit == \A i \in Instruments : BookFits(pool, books[i], i, arrival)

IInv ==
  /\ TypeOK
  /\ SlotsInOrder
  /\ CallInOrder
  /\ BooksFit
  /\ OpenOrdersReachable
  /\ OrderQuantitiesFit

-----------------------------------------------------------------------------
(***************************************************************************)
(* The locals of no call are well typed.                                   *)
(***************************************************************************)
LEMMA NoCallTyped == NoCall \in Call
BY WidthAssumption DEF NoCall, Call, Side, Quantity, Link

(***************************************************************************)
(* Facts every state of the invariant gives.                               *)
(***************************************************************************)
LEMMA StateFacts ==
  ASSUME IInv
  PROVE  /\ pool \in [Slots -> OrderRecord]
         /\ arrival \in [Slots -> Slots]
         /\ \A i \in Instruments : books[i] \in Book(i)
         /\ \A s \in Slots : pool[s].is_open => pool[s].instrument_id \in Instruments
         /\ \A s \in Slots : /\ pool[s].open_qty \in Quantity
                             /\ pool[s].filled_qty \in Quantity
                             /\ pool[s].instrument_id \in Instruments \cup {Unset}
         /\ pool_size \in Nat
<1>1. \A s \in Slots : pool[s] \in OrderRecord
  BY DEF IInv, TypeOK
<1>2. \A s \in Slots : /\ pool[s].open_qty \in Quantity
                       /\ pool[s].filled_qty \in Quantity
                       /\ pool[s].instrument_id \in Instruments \cup {Unset}
  BY <1>1 DEF OrderRecord
<1>3. pool_size \in Nat
  BY WidthAssumption DEF IInv, TypeOK
<1>4. \A s \in Slots : pool[s].is_open => pool[s].instrument_id \in Instruments
  BY DEF IInv, TypeOK, SlotsInOrder
<1> QED
  BY <1>2, <1>3, <1>4 DEF IInv, TypeOK

(***************************************************************************)
(* A step that touches neither the orders nor the books.                   *)
(***************************************************************************)
LEMMA StoreUnchanged ==
  ASSUME IInv,
         UNCHANGED <<instrument_index, order_index, pool, pool_size, books, arrival>>
  PROVE  SlotsInOrder' /\ BooksFit' /\ OpenOrdersReachable' /\ OrderQuantitiesFit'
<1>1. SlotsInOrder'
  BY DEF IInv, SlotsInOrder
<1>2. BooksFit'
  BY DEF IInv, BooksFit
<1>3. OpenOrdersReachable'
  BY DEF IInv, OpenOrdersReachable, OpenSlots
<1>4. OrderQuantitiesFit'
  BY DEF IInv, OrderQuantitiesFit
<1> QED
  BY <1>1, <1>2, <1>3, <1>4

(***************************************************************************)
(* A step that leaves the books alone and, in the pool, everything the     *)
(* books are about.                                                        *)
(***************************************************************************)
LEMMA BooksFrame ==
  ASSUME IInv, UNCHANGED books,
         \A i \in Instruments : SameForBook(pool, pool', arrival, arrival', i)
  PROVE  BooksFit'
<1>1. ASSUME NEW i \in Instruments PROVE BookFits(pool', books'[i], i, arrival')
  <2>1. BookFits(pool, books[i], i, arrival)
    BY DEF IInv, BooksFit
  <2>2. SameForBook(pool, pool', arrival, arrival', i)
    OBVIOUS
  <2>3. books'[i] = books[i]
    OBVIOUS
  <2> QED
    BY <2>1, <2>2, <2>3, BookFrame
<1> QED
  BY <1>1 DEF BooksFit

(***************************************************************************)
(* A step that replaces one book, and in the pool touches nothing that the *)
(* other books are about.                                                  *)
(***************************************************************************)
LEMMA OneBookChanges ==
  ASSUME IInv, NEW i \in Instruments, NEW book,
         books' = [books EXCEPT ![i] = book],
         BookFits(pool', book, i, arrival'),
         \A j \in Instruments \ {i} : SameForBook(pool, pool', arrival, arrival', j)
  PROVE  BooksFit'
<1>1. DOMAIN books = Instruments
  BY DEF IInv, TypeOK
<1>2. ASSUME NEW j \in Instruments PROVE BookFits(pool', books'[j], j, arrival')
  <2>1. CASE j = i
    <3>1. books'[j] = book
      BY <1>1, <2>1
    <3> QED
      BY <2>1, <3>1
  <2>2. CASE j # i
    <3>1. books'[j] = books[j]
      BY <1>1, <2>2
    <3>2. BookFits(pool, books[j], j, arrival)
      BY DEF IInv, BooksFit
    <3>3. SameForBook(pool, pool', arrival, arrival', j)
      BY <2>2
    <3> QED
      BY <3>1, <3>2, <3>3, BookFrame
  <2> QED
    BY <2>1, <2>2
<1> QED
  BY <1>2 DEF BooksFit

-----------------------------------------------------------------------------
(***************************************************************************)
(* The steps that only move the call in progress on.                       *)
(***************************************************************************)
LEMMA ControlSteps ==
  ASSUME IInv,
         \/ StartMatching \/ PickLevel \/ MatchingDone \/ LeaveLevel \/ FullyFilled
         \/ AfterReplaced \/ ListenerThrows
  PROVE  IInv'
<1> USE DEF IInv
<1>1. CASE StartMatching
  <2>1. TypeOK'
    BY <1>1 DEF StartMatching, TypeOK, PCs
  <2>2. CallInOrder'
    BY <1>1 DEF StartMatching, CallInOrder, AggressorInOrder, Agg, Instr
  <2> QED
    BY <1>1, <2>1, <2>2, StoreUnchanged DEF StartMatching
<1>2. CASE PickLevel
  <2>1. books[Instr].best[Opposite(call.side)] \in Index(Instr)
    <3>1. Instr \in Instruments /\ Opposite(call.side) \in Side
      BY <1>2 DEF PickLevel, TypeOK, CallInOrder, AggressorInOrder, Opposite, Side
    <3>2. books[Instr].best[Opposite(call.side)] \in Index(Instr) \cup {-1}
      BY <3>1 DEF TypeOK, Book
    <3> QED
      BY <1>2, <3>2 DEF PickLevel, CanTrade, has_best
  <2>2. books[Instr].best[Opposite(call.side)] \in Int
    BY <1>2, <2>1, IndexFacts DEF PickLevel, TypeOK, CallInOrder, AggressorInOrder
  <2>3. TypeOK'
    <3>1. call' \in Call
      BY <1>2, <2>2 DEF PickLevel, TypeOK, Call
    <3> QED
      BY <1>2, <3>1 DEF PickLevel, TypeOK, PCs
  <2>4. CallInOrder'
    BY <1>2, <2>1 DEF PickLevel, TypeOK, Call, CallInOrder, AggressorInOrder, Agg, Instr
  <2> QED
    BY <1>2, <2>3, <2>4, StoreUnchanged DEF PickLevel
<1>3. CASE MatchingDone
  <2>1. TypeOK'
    BY <1>3 DEF MatchingDone, TypeOK, PCs
  <2>2. CallInOrder'
    BY <1>3 DEF MatchingDone, CallInOrder, AggressorInOrder, Agg, Instr
  <2> QED
    BY <1>3, <2>1, <2>2, StoreUnchanged DEF MatchingDone
<1>4. CASE LeaveLevel
  <2>1. TypeOK'
    BY <1>4 DEF LeaveLevel, TypeOK, PCs, Call
  <2>2. CallInOrder'
    BY <1>4 DEF LeaveLevel, TypeOK, Call, CallInOrder, AggressorInOrder, Agg, Instr
  <2> QED
    BY <1>4, <2>1, <2>2, StoreUnchanged DEF LeaveLevel
<1>5. ASSUME FullyFilled \/ ListenerThrows PROVE IInv'
  <2>1. pc' = "idle" /\ call' = NoCall
    BY <1>5 DEF FullyFilled, ListenerThrows, Return
  <2>2. TypeOK'
    BY <1>5, <2>1, NoCallTyped DEF FullyFilled, ListenerThrows, TypeOK, PCs
  <2>3. CallInOrder'
    BY <2>1 DEF CallInOrder
  <2> QED
    BY <1>5, <2>2, <2>3, StoreUnchanged DEF FullyFilled, ListenerThrows
<1>6. CASE AfterReplaced
  <2>1. TypeOK'
    BY <1>6 DEF AfterReplaced, TypeOK, PCs
  <2>2. CallInOrder'
    BY <1>6 DEF AfterReplaced, CallInOrder, AggressorInOrder, Agg, Instr
  <2> QED
    BY <1>6, <2>1, <2>2, StoreUnchanged DEF AfterReplaced
<1> QED
  BY <1>1, <1>2, <1>3, <1>4, <1>5, <1>6

(***************************************************************************)
(* Nothing happens.                                                        *)
(***************************************************************************)
LEMMA Stuttering == ASSUME IInv, UNCHANGED vars PROVE IInv'
<1>1. TypeOK'
  BY DEF IInv, TypeOK, vars
<1>2. CallInOrder'
  BY DEF IInv, vars, CallInOrder, AggressorInOrder, TradeInOrder, Agg, Instr
<1> QED
  BY <1>1, <1>2, StoreUnchanged DEF IInv, vars

(***************************************************************************)
(* A step that opens no order and keeps every order's id and instrument.   *)
(***************************************************************************)
LEMMA NothingOpens ==
  ASSUME IInv,
         UNCHANGED <<instrument_index, order_index, pool_size, arrival>>,
         \A s \in Slots : /\ pool'[s].id = pool[s].id
                          /\ pool'[s].instrument_id = pool[s].instrument_id
                          /\ pool'[s].is_open => pool[s].is_open
  PROVE  SlotsInOrder' /\ OpenOrdersReachable'
<1>1. SlotsInOrder'
  BY DEF IInv, SlotsInOrder
<1>2. OpenOrdersReachable'
  BY DEF IInv, OpenOrdersReachable, OpenSlots
<1> QED
  BY <1>1, <1>2

(***************************************************************************)
(* A step that keeps what every order has open and has filled.             *)
(***************************************************************************)
LEMMA QuantitiesUnchanged ==
  ASSUME IInv,
         \A s \in Slots : /\ pool'[s].open_qty = pool[s].open_qty
                          /\ pool'[s].filled_qty = pool[s].filled_qty
  PROVE  OrderQuantitiesFit'
BY DEF IInv, OrderQuantitiesFit

(***************************************************************************)
(* Changes that a book does not see add up to one.                         *)
(***************************************************************************)
LEMMA SameForBookTransitive ==
  ASSUME NEW p, NEW p2, NEW p3, NEW r, NEW r2, NEW r3, NEW i,
         SameForBook(p, p2, r, r2, i), SameForBook(p2, p3, r2, r3, i)
  PROVE  SameForBook(p, p3, r, r3, i)
BY DEF SameForBook

(***************************************************************************)
(* The aggressor of a call in progress.                                    *)
(***************************************************************************)
LEMMA AggressorFacts ==
  ASSUME IInv, pc # "idle"
  PROVE  /\ AggressorInOrder
         /\ Instr \in Instruments
         /\ Agg \in OrderRecord
         /\ Agg.open_qty \in Quantity
         /\ call.side \in Side /\ Opposite(call.side) \in Side
         /\ call.price \in Int
         /\ call.fill \in Quantity
<1>1. AggressorInOrder
  BY DEF IInv, CallInOrder
<1>2. Instr \in Instruments /\ Agg \in OrderRecord
  BY <1>1 DEF IInv, TypeOK, AggressorInOrder, Agg
<1>3. call.side \in Side /\ call.price \in Int /\ call.fill \in Quantity
  BY DEF IInv, TypeOK, Call
<1> QED
  BY <1>1, <1>2, <1>3 DEF OrderRecord, Opposite, Side

(***************************************************************************)
(* std::min.                                                               *)
(***************************************************************************)
LEMMA SmallerFacts ==
  ASSUME NEW a \in Int, NEW b \in Int
  PROVE  /\ Smaller(a, b) \in {a, b}
         /\ Smaller(a, b) <= a /\ Smaller(a, b) <= b
BY DEF Smaller

(***************************************************************************)
(* run_matching reaches on_trade: the head of the level is one of its      *)
(* orders.                                                                 *)
(***************************************************************************)
LEMMA TradeStep ==
  ASSUME IInv, Trade
  PROVE  IInv'
<1> DEFINE resting == CurrentLevel.head
           fill    == Smaller(Agg.open_qty, pool[resting].open_qty)
           opp     == Opposite(call.side)
<1>1. /\ pc = "level" /\ resting # kInvalidSlot
      /\ pc' = "on_trade" /\ call' = [call EXCEPT !.resting = resting, !.fill = fill]
      /\ next_trade_id' = next_trade_id + 1
      /\ view' = [view EXCEPT ![pool[resting].id] = Seen(@, fill), ![Agg.id] = Seen(@, fill)]
      /\ UNCHANGED <<instrument_index, order_index, pool, pool_size, books, arrival>>
  BY DEF Trade
<1>2. /\ AggressorInOrder /\ Instr \in Instruments /\ Agg.open_qty \in Quantity
      /\ opp \in Side
  BY <1>1, AggressorFacts
<1>3. call.idx \in Index(Instr)
  BY <1>1 DEF IInv, CallInOrder
<1>4. resting \in Queue(pool, Instr, opp, call.idx)
  <2>1. BookFits(pool, books[Instr], Instr, arrival)
    BY <1>2 DEF IInv, BooksFit
  <2>2. QueueLinked(pool, books[Instr].levels[opp][call.idx], Queue(pool, Instr, opp, call.idx))
    BY <1>2, <1>3, <2>1 DEF BookFits, LevelsLinked
  <2> QED
    BY <1>1, <2>2 DEF QueueLinked, CurrentLevel
<1>5. resting \in Slots /\ pool[resting].open_qty \in Quantity
  BY <1>4, StateFacts DEF Queue
<1> HIDE DEF resting, opp
<1>6. /\ fill \in Quantity /\ fill <= Agg.open_qty /\ fill <= pool[resting].open_qty
  <2>1. Agg.open_qty \in Int /\ pool[resting].open_qty \in Int
    BY <1>2, <1>5, QuantityIsInt
  <2> QED
    BY <1>2, <1>5, <2>1, SmallerFacts
<1> HIDE DEF fill
<1>7. call' \in Call
  BY <1>1, <1>5, <1>6, SlotFacts DEF IInv, TypeOK, Call
<1>8. view' \in [OrderIds -> [open : Int, filled : Int]]
  <2>1. \A v \in [open : Int, filled : Int] : Seen(v, fill) \in [open : Int, filled : Int]
    BY <1>6, QuantityIsInt DEF Seen
  <2>2. view \in [OrderIds -> [open : Int, filled : Int]]
    BY DEF IInv, TypeOK
  <2> QED
    BY <1>1, <2>1, <2>2
<1>9. TypeOK'
  BY <1>1, <1>7, <1>8 DEF IInv, TypeOK, PCs, Callbacks
<1>10. CallInOrder'
  <2>1. /\ call'.slot = call.slot /\ call'.side = call.side /\ call'.tif = call.tif
        /\ call'.price = call.price /\ call'.idx = call.idx
        /\ call'.resting = resting /\ call'.fill = fill
    BY <1>1 DEF IInv, TypeOK, Call
  <2>2. AggressorInOrder'
    BY <1>1, <1>2, <2>1 DEF AggressorInOrder, Agg, Instr
  <2>3. TradeInOrder'
    BY <1>1, <1>4, <1>6, <2>1 DEF TradeInOrder, Agg, Instr, opp
  <2> QED
    BY <1>1, <1>3, <2>1, <2>2, <2>3 DEF CallInOrder, Agg, Instr
<1> QED
  BY <1>1, <1>9, <1>10, StoreUnchanged DEF IInv

(***************************************************************************)
(* What booking a fill does to an order that has that much open.           *)
(***************************************************************************)
LEMMA FilledFacts ==
  ASSUME NEW rec \in OrderRecord, NEW fill \in Quantity, fill <= rec.open_qty,
         rec.open_qty + rec.filled_qty < QtyMod
  PROVE  /\ Filled(rec, fill) \in OrderRecord
         /\ Filled(rec, fill).open_qty = rec.open_qty - fill
         /\ Filled(rec, fill).filled_qty = rec.filled_qty + fill
         /\ Filled(rec, fill).id = rec.id
         /\ Filled(rec, fill).instrument_id = rec.instrument_id
         /\ Filled(rec, fill).side = rec.side
         /\ Filled(rec, fill).price = rec.price
         /\ Filled(rec, fill).level_index = rec.level_index
         /\ Filled(rec, fill).prev = rec.prev
         /\ Filled(rec, fill).next = rec.next
         /\ Filled(rec, fill).is_open = rec.is_open
<1>1. rec.open_qty \in Quantity /\ rec.filled_qty \in Quantity
  BY DEF OrderRecord
<1>2. Minus(rec.open_qty, fill) = rec.open_qty - fill
  BY <1>1, WidthAssumption DEF Minus, Quantity
<1>3. rec.open_qty - fill \in Quantity /\ rec.filled_qty + fill \in Quantity
  BY <1>1, WidthAssumption DEF Quantity
<1>4. Plus(rec.filled_qty, fill) = rec.filled_qty + fill
  BY <1>3, WordArithmetic DEF Plus
<1>5. Filled(rec, fill) = [rec EXCEPT !.open_qty = rec.open_qty - fill,
                                      !.filled_qty = rec.filled_qty + fill]
  BY <1>2, <1>4 DEF Filled
<1> QED
  BY <1>3, <1>5 DEF OrderRecord

(***************************************************************************)
(* Back from on_trade: first the quantities ...                            *)
(***************************************************************************)
LEMMA FilledPool ==
  ASSUME IInv, pc = "on_trade",
         NEW filled, filled = [pool EXCEPT ![call.slot] = Filled(@, call.fill),
                                           ![call.resting] = Filled(@, call.fill)]
  PROVE  /\ filled \in [Slots -> OrderRecord]
         /\ \A s \in Slots :
              /\ filled[s].id = pool[s].id
              /\ filled[s].instrument_id = pool[s].instrument_id
              /\ filled[s].side = pool[s].side
              /\ filled[s].price = pool[s].price
              /\ filled[s].level_index = pool[s].level_index
              /\ filled[s].prev = pool[s].prev
              /\ filled[s].next = pool[s].next
              /\ filled[s].is_open = pool[s].is_open
              /\ filled[s].open_qty + filled[s].filled_qty < QtyMod
         /\ \A i : SameForBook(pool, filled, arrival, arrival, i)
<1>1. /\ AggressorInOrder /\ TradeInOrder /\ call.fill \in Quantity
  BY AggressorFacts DEF IInv, CallInOrder
<1>2. call.slot \in Slots /\ call.resting \in Slots /\ call.slot # call.resting
  BY <1>1 DEF AggressorInOrder, TradeInOrder, Queue, Agg
<1>3. ASSUME NEW s \in Slots
      PROVE  /\ pool[s] \in OrderRecord
             /\ pool[s].open_qty + pool[s].filled_qty < QtyMod
             /\ pool[s].open_qty \in Quantity /\ pool[s].filled_qty \in Quantity
  BY StateFacts DEF IInv, OrderQuantitiesFit
<1>4. ASSUME NEW s \in {call.slot, call.resting}
      PROVE  /\ filled[s] = Filled(pool[s], call.fill)
             /\ call.fill <= pool[s].open_qty
  <2>1. pool \in [Slots -> OrderRecord]
    BY StateFacts
  <2>2. filled[s] = Filled(pool[s], call.fill)
    BY <1>2, <2>1
  <2>3. call.fill <= pool[s].open_qty
    BY <1>1 DEF TradeInOrder, Agg
  <2> QED
    BY <2>2, <2>3
<1>5. ASSUME NEW s \in Slots \ {call.slot, call.resting} PROVE filled[s] = pool[s]
  BY StateFacts
<1>6. ASSUME NEW s \in Slots
      PROVE  /\ filled[s] \in OrderRecord
             /\ filled[s].id = pool[s].id
             /\ filled[s].instrument_id = pool[s].instrument_id
             /\ filled[s].side = pool[s].side
             /\ filled[s].price = pool[s].price
             /\ filled[s].level_index = pool[s].level_index
             /\ filled[s].prev = pool[s].prev
             /\ filled[s].next = pool[s].next
             /\ filled[s].is_open = pool[s].is_open
             /\ filled[s].open_qty + filled[s].filled_qty < QtyMod
  <2>1. CASE s \in {call.slot, call.resting}
    <3>1. /\ filled[s] = Filled(pool[s], call.fill) /\ call.fill <= pool[s].open_qty
          /\ pool[s] \in OrderRecord
          /\ pool[s].open_qty + pool[s].filled_qty < QtyMod
          /\ pool[s].open_qty \in Int /\ pool[s].filled_qty \in Int /\ call.fill \in Int
      BY <1>1, <1>3, <1>4, <2>1, QuantityIsInt
    <3>2. (pool[s].open_qty - call.fill) + (pool[s].filled_qty + call.fill)
             = pool[s].open_qty + pool[s].filled_qty
      BY <3>1
    <3> QED
      BY <1>1, <3>1, <3>2, FilledFacts
  <2>2. CASE s \notin {call.slot, call.resting}
    BY <1>3, <1>5, <2>2
  <2> QED
    BY <2>1, <2>2
<1>7. filled \in [Slots -> OrderRecord]
  <2>1. DOMAIN filled = Slots /\ filled = [s \in Slots |-> filled[s]]
    BY StateFacts
  <2> QED
    BY <1>6, <2>1
<1>8. ASSUME NEW i PROVE SameForBook(pool, filled, arrival, arrival, i)
  BY <1>6 DEF SameForBook
<1> QED
  BY <1>6, <1>7, <1>8

(***************************************************************************)
(* ... and the total of the level, then the resting order if it is done.   *)
(***************************************************************************)
LEMMA FilledBook ==
  ASSUME NEW i \in Instruments, NEW book \in Book(i), NEW side \in Side, NEW x \in Index(i),
         NEW fill \in Quantity
  PROVE  /\ BookFill(book, side, x, fill) \in Book(i)
         /\ \A sd \in Side : \A y \in Index(i) :
              /\ BookFill(book, side, x, fill).levels[sd][y].head = book.levels[sd][y].head
              /\ BookFill(book, side, x, fill).levels[sd][y].tail = book.levels[sd][y].tail
<1> DEFINE lvl == book.levels[side][x]
           nl  == [lvl EXCEPT !.total_qty = Minus(lvl.total_qty, fill)]
<1>1. /\ lvl \in Level /\ book.levels \in [Side -> [Index(i) -> Level]]
  BY DEF Book
<1>2. lvl.total_qty \in Int /\ fill \in Int
  BY <1>1, QuantityIsInt DEF Level
<1>3. Minus(lvl.total_qty, fill) \in Quantity
  BY <1>2, QuantityClosed
<1> HIDE DEF lvl
<1>4. nl \in Level /\ nl.head = lvl.head /\ nl.tail = lvl.tail
  BY <1>1, <1>3 DEF Level
<1>5. BookFill(book, side, x, fill) = [book EXCEPT !.levels[side][x] = nl]
  BY DEF BookFill, lvl
<1> HIDE DEF nl
<1>6. [book EXCEPT !.levels[side][x] = nl].levels = [book.levels EXCEPT ![side][x] = nl]
  BY DEF Book
<1>7. [book EXCEPT !.levels[side][x] = nl] \in Book(i)
  BY <1>4 DEF Book
<1>8. ASSUME NEW sd \in Side, NEW y \in Index(i)
      PROVE  /\ [book.levels EXCEPT ![side][x] = nl][sd][y].head = book.levels[sd][y].head
             /\ [book.levels EXCEPT ![side][x] = nl][sd][y].tail = book.levels[sd][y].tail
  BY <1>1, <1>4 DEF lvl
<1> QED
  BY <1>5, <1>6, <1>7, <1>8

(***************************************************************************)
(* Booking the fill on both orders and on the level, and taking a resting  *)
(* order that is used up off the book, keeps the invariant.                *)
(***************************************************************************)
LEMMA ApplyTradeStep ==
  ASSUME IInv, ApplyTrade
  PROVE  IInv'
<1> DEFINE opp    == Opposite(call.side)
           filled == [pool EXCEPT ![call.slot] = Filled(@, call.fill),
                                  ![call.resting] = Filled(@, call.fill)]
           book   == BookFill(books[Instr], opp, call.idx, call.fill)
           after  == IF filled[call.resting].open_qty = 0
                     THEN remove_resting(filled, book, call.resting)
                     ELSE [pool |-> filled, book |-> book]
<1>1. /\ pc = "on_trade" /\ pc' = "level"
      /\ pool' = after.pool /\ books' = [books EXCEPT ![Instr] = after.book]
      /\ call' = [call EXCEPT !.resting = kInvalidSlot, !.fill = 0]
      /\ UNCHANGED <<instrument_index, order_index, pool_size, next_trade_id, arrival, view>>
  BY DEF ApplyTrade
<1>2. /\ AggressorInOrder /\ TradeInOrder /\ Instr \in Instruments /\ call.fill \in Quantity
      /\ opp \in Side /\ call.idx \in Index(Instr)
  BY <1>1, AggressorFacts DEF IInv, CallInOrder
<1>3. /\ call.resting \in Slots /\ call.slot \in Slots /\ call.slot # call.resting
      /\ pool[call.resting].is_open /\ pool[call.resting].instrument_id = Instr
  BY <1>2 DEF AggressorInOrder, TradeInOrder, Queue, Agg
<1>4. /\ filled \in [Slots -> OrderRecord]
      /\ \A s \in Slots :
           /\ filled[s].id = pool[s].id
           /\ filled[s].instrument_id = pool[s].instrument_id
           /\ filled[s].is_open = pool[s].is_open
           /\ filled[s].open_qty + filled[s].filled_qty < QtyMod
      /\ \A i : SameForBook(pool, filled, arrival, arrival, i)
  BY <1>1, FilledPool
<1>5. /\ book \in Book(Instr)
      /\ \A sd \in Side : \A y \in Index(Instr) :
           /\ book.levels[sd][y].head = books[Instr].levels[sd][y].head
           /\ book.levels[sd][y].tail = books[Instr].levels[sd][y].tail
  BY <1>2, StateFacts, FilledBook
<1> HIDE DEF filled, book
<1>6. BookFits(filled, book, Instr, arrival)
  <2>1. BookFits(pool, books[Instr], Instr, arrival)
    BY <1>2 DEF IInv, BooksFit
  <2> QED
    BY SMTT(30), <1>2, <1>4, <1>5, <2>1, BookFrame
<1>7. /\ after.pool \in [Slots -> OrderRecord] /\ after.book \in Book(Instr)
      /\ BookFits(after.pool, after.book, Instr, arrival)
      /\ \A j \in Instruments \ {Instr} : SameForBook(filled, after.pool, arrival, arrival, j)
      /\ \A s \in Slots : /\ after.pool[s].id = pool[s].id
                          /\ after.pool[s].instrument_id = pool[s].instrument_id
                          /\ after.pool[s].is_open => pool[s].is_open
                          /\ after.pool[s].open_qty = filled[s].open_qty
                          /\ after.pool[s].filled_qty = filled[s].filled_qty
  <2>1. CASE filled[call.resting].open_qty = 0
    <3>1. after = remove_resting(filled, book, call.resting)
      BY <2>1
    <3>2. arrival \in [Slots -> Slots]
      BY StateFacts
    <3>3. filled[call.resting].is_open /\ filled[call.resting].instrument_id = Instr
      BY <1>3, <1>4
    <3>4. filled[call.resting].level_index \in Index(Instr)
      BY <1>3, <1>6, <3>3 DEF BookFits, OnTheirLevels
    <3>5. after.pool \in [Slots -> OrderRecord] /\ after.book \in Book(Instr)
      BY <1>2, <1>3, <1>4, <1>5, <3>1, <3>4, RemoveRestingTyped
    <3>6. /\ BookFits(after.pool, after.book, Instr, arrival)
          /\ \A j \in Instruments \ {Instr} :
               SameForBook(filled, after.pool, arrival, arrival, j)
      BY <1>2, <1>3, <1>4, <1>5, <1>6, <3>1, <3>2, <3>3, RemoveRestingFits
    <3>7. \A s \in Slots :
            /\ after.pool[s].id = filled[s].id
            /\ after.pool[s].instrument_id = filled[s].instrument_id
            /\ s # call.resting => after.pool[s].is_open = filled[s].is_open
            /\ after.pool[s].open_qty = filled[s].open_qty
            /\ after.pool[s].filled_qty = filled[s].filled_qty
      <4>1. RemoveRestingEffect(filled, book, Instr, call.resting, after)
        BY <1>2, <1>3, <1>4, <1>5, <3>1, <3>4, RemoveRestingFields
      <4> QED
        BY <4>1 DEF RemoveRestingEffect
    <3> HIDE DEF after
    <3> QED
      BY <1>3, <1>4, <3>5, <3>6, <3>7
  <2>2. CASE filled[call.resting].open_qty # 0
    <3>1. after.pool = filled /\ after.book = book
      BY <2>2
    <3>2. \A j : SameForBook(filled, filled, arrival, arrival, j)
      BY DEF SameForBook
    <3> HIDE DEF after
    <3> QED
      BY <1>4, <1>5, <1>6, <3>1, <3>2
  <2> QED
    BY <2>1, <2>2
<1> HIDE DEF after
<1>8. TypeOK'
  <2>1. call' \in Call
    <3>1. kInvalidSlot \in Link /\ 0 \in Quantity
      BY WidthAssumption DEF Link, Quantity
    <3> QED
      BY <1>1, <3>1 DEF IInv, TypeOK, Call
  <2>2. DOMAIN books' = Instruments /\ \A i \in Instruments : books'[i] \in Book(i)
    BY <1>1, <1>7 DEF IInv, TypeOK
  <2> QED
    BY <1>1, <1>7, <2>1, <2>2 DEF IInv, TypeOK, PCs
<1>9. CallInOrder'
  <2>1. /\ call'.slot = call.slot /\ call'.tif = call.tif
        /\ call'.price = call.price /\ call'.idx = call.idx
    BY <1>1 DEF IInv, TypeOK, Call
  <2>2. /\ ~pool'[call.slot].is_open /\ pool'[call.slot].id = Agg.id
        /\ pool'[call.slot].instrument_id = Instr
    BY <1>1, <1>2, <1>3, <1>7 DEF AggressorInOrder, Agg, Instr
  <2>3. AggressorInOrder'
    BY <1>1, <1>2, <2>1, <2>2 DEF AggressorInOrder, Agg, Instr
  <2> QED
    BY <1>1, <1>2, <2>1, <2>2, <2>3 DEF CallInOrder, Agg, Instr
<1>10. BooksFit'
  <2>1. ASSUME NEW j \in Instruments \ {Instr}
        PROVE  SameForBook(pool, pool', arrival, arrival', j)
    BY <1>1, <1>4, <1>7, SameForBookTransitive
  <2> QED
    BY <1>1, <1>2, <1>7, <2>1, OneBookChanges
<1>11. SlotsInOrder' /\ OpenOrdersReachable'
  BY <1>1, <1>7, NothingOpens
<1>12. OrderQuantitiesFit'
  BY <1>1, <1>4, <1>7 DEF OrderQuantitiesFit
<1> QED
  BY <1>8, <1>9, <1>10, <1>11, <1>12 DEF IInv

(***************************************************************************)
(* The remainder of a Day order comes to rest: the last slot of all goes   *)
(* to the end of its level.                                                *)
(***************************************************************************)
LEMMA RestRemainderStep ==
  ASSUME IInv, RestRemainder
  PROVE  IInv'
<1> DEFINE after == add_resting(pool, books[Instr], Instr, call.slot, call.side, call.price)
<1>1. /\ pc = "finish" /\ call.tif = "kDay"
      /\ pool' = after.pool /\ books' = [books EXCEPT ![Instr] = after.book]
      /\ pc' = "idle" /\ call' = NoCall
      /\ UNCHANGED <<instrument_index, order_index, pool_size, next_trade_id, arrival, view>>
  BY DEF RestRemainder, Return
<1>2. /\ AggressorInOrder /\ Instr \in Instruments
      /\ call.slot \in Slots /\ call.side \in Side /\ call.price \in Int
      /\ price_to_index(Instr, call.price) \in Index(Instr)
  BY <1>1, AggressorFacts DEF AggressorInOrder
<1>3. /\ pool \in [Slots -> OrderRecord] /\ arrival \in [Slots -> Slots]
      /\ books[Instr] \in Book(Instr) /\ BookFits(pool, books[Instr], Instr, arrival)
  BY <1>2, StateFacts DEF IInv, BooksFit
<1>4. pool[call.slot].instrument_id = Instr /\ ~pool[call.slot].is_open
  BY <1>2 DEF AggressorInOrder, Agg, Instr
<1>5. ASSUME NEW s \in Slots, pool[s].is_open PROVE arrival[s] < arrival[call.slot]
  <2>1. /\ s \in Nat /\ call.slot \in Nat /\ pool_size = call.slot + 1
        /\ arrival[call.slot] = call.slot /\ s # call.slot
        /\ arrival[s] \in Nat
    BY <1>2, <1>3, <1>4, <1>5, SlotFacts DEF AggressorInOrder
  <2>2. arrival[s] <= s /\ s < pool_size
    BY <1>5 DEF IInv, SlotsInOrder
  <2> QED
    BY <2>1, <2>2
<1>6. after.pool \in [Slots -> OrderRecord] /\ after.book \in Book(Instr)
  BY <1>2, <1>3, AddRestingTyped
<1>7. /\ BookFits(after.pool, after.book, Instr, arrival)
      /\ \A j \in Instruments \ {Instr} : SameForBook(pool, after.pool, arrival, arrival, j)
  BY <1>2, <1>3, <1>4, <1>5, AddRestingFits
<1>8. \A s \in Slots :
        /\ after.pool[s].id = pool[s].id
        /\ after.pool[s].instrument_id = pool[s].instrument_id
        /\ after.pool[s].open_qty = pool[s].open_qty
        /\ after.pool[s].filled_qty = pool[s].filled_qty
        /\ s # call.slot => after.pool[s].is_open = pool[s].is_open
  <2>1. AddRestingEffect(pool, books[Instr], Instr, call.slot, call.side, call.price, after)
    BY <1>2, <1>3, AddRestingFields
  <2> QED
    BY <2>1 DEF AddRestingEffect
<1> HIDE DEF after
<1>9. TypeOK'
  <2>1. DOMAIN books' = Instruments /\ \A i \in Instruments : books'[i] \in Book(i)
    BY <1>1, <1>6 DEF IInv, TypeOK
  <2> QED
    BY <1>1, <1>6, <2>1, NoCallTyped DEF IInv, TypeOK, PCs
<1>10. SlotsInOrder'
  <2>1. call.slot < pool_size
    <3>1. call.slot \in Nat /\ pool_size = call.slot + 1
      BY <1>2, SlotFacts DEF AggressorInOrder
    <3> QED
      BY <3>1
  <2> QED
    BY <1>1, <1>2, <1>8, <2>1 DEF IInv, SlotsInOrder, AggressorInOrder, Agg, Instr
<1>11. CallInOrder'
  BY <1>1 DEF CallInOrder
<1>12. BooksFit'
  BY <1>1, <1>2, <1>7, OneBookChanges
<1>13. OpenOrdersReachable'
  BY <1>1, <1>2, <1>8 DEF IInv, OpenOrdersReachable, OpenSlots, AggressorInOrder, Agg
<1>14. OrderQuantitiesFit'
  BY <1>1, <1>8, QuantitiesUnchanged
<1> QED
  BY <1>9, <1>10, <1>11, <1>12, <1>13, <1>14 DEF IInv

(***************************************************************************)
(* The remainder of any other order is dropped.                            *)
(***************************************************************************)
LEMMA DropRemainderStep ==
  ASSUME IInv, pc # "idle", DropRemainder
  PROVE  IInv'
<1>1. /\ view' = [view EXCEPT ![Agg.id].open = @ - Agg.open_qty]
      /\ pool' = [pool EXCEPT ![call.slot].open_qty = 0]
      /\ pc' = "idle" /\ call' = NoCall
      /\ UNCHANGED <<instrument_index, order_index, pool_size, books, next_trade_id, arrival>>
  BY DEF DropRemainder, Return
<1>2. /\ call.slot \in Slots /\ Agg \in OrderRecord /\ Agg.open_qty \in Int
      /\ Agg.id \in OrderIds
      /\ Agg = pool[call.slot] /\ pool \in [Slots -> OrderRecord]
  BY AggressorFacts, StateFacts, QuantityIsInt DEF AggressorInOrder, Agg
<1>3. 0 \in Quantity
  BY WidthAssumption DEF Quantity
<1>4. ASSUME NEW s \in Slots
      PROVE  /\ pool'[s] \in OrderRecord
             /\ pool'[s].id = pool[s].id
             /\ pool'[s].instrument_id = pool[s].instrument_id
             /\ pool'[s].side = pool[s].side
             /\ pool'[s].price = pool[s].price
             /\ pool'[s].level_index = pool[s].level_index
             /\ pool'[s].prev = pool[s].prev
             /\ pool'[s].next = pool[s].next
             /\ pool'[s].is_open = pool[s].is_open
             /\ pool'[s].filled_qty = pool[s].filled_qty
             /\ pool'[s].open_qty \in {0, pool[s].open_qty}
  <2>1. pool[s] \in OrderRecord
    BY <1>2
  <2>2. CASE s = call.slot
    <3>1. pool'[s] = [pool[s] EXCEPT !.open_qty = 0]
      BY <1>1, <1>2, <2>2
    <3> QED
      BY <1>3, <2>1, <3>1 DEF OrderRecord
  <2>3. CASE s # call.slot
    <3>1. pool'[s] = pool[s]
      BY <1>1, <1>2, <2>3
    <3> QED
      BY <2>1, <3>1
  <2> QED
    BY <2>2, <2>3
<1>5. TypeOK'
  <2>1. pool' \in [Slots -> OrderRecord]
    <3>1. DOMAIN pool' = Slots /\ pool' = [s \in Slots |-> pool'[s]]
      BY <1>1, <1>2
    <3> QED
      BY <1>4, <3>1
  <2>2. view' \in [OrderIds -> [open : Int, filled : Int]]
    BY <1>1, <1>2 DEF IInv, TypeOK
  <2> QED
    BY <1>1, <2>1, <2>2, NoCallTyped DEF IInv, TypeOK, PCs
<1>6. SlotsInOrder' /\ OpenOrdersReachable'
  BY <1>1, <1>4, NothingOpens
<1>7. CallInOrder'
  BY <1>1 DEF CallInOrder
<1>8. BooksFit'
  <2>1. ASSUME NEW i \in Instruments PROVE SameForBook(pool, pool', arrival, arrival', i)
    BY <1>1, <1>4 DEF SameForBook
  <2> QED
    BY <1>1, <2>1, BooksFrame
<1>9. OrderQuantitiesFit'
  <2>1. ASSUME NEW s \in Slots PROVE pool'[s].open_qty + pool'[s].filled_qty < QtyMod
    <3>1. /\ pool[s].open_qty + pool[s].filled_qty < QtyMod
          /\ pool[s].open_qty \in 0 .. QtyMod - 1 /\ pool[s].filled_qty \in 0 .. QtyMod - 1
          /\ QtyMod \in Nat
      BY StateFacts, WidthAssumption DEF IInv, OrderQuantitiesFit, Quantity
    <3> QED
      BY <1>4, <3>1
  <2> QED
    BY <2>1 DEF OrderQuantitiesFit
<1> QED
  BY <1>5, <1>6, <1>7, <1>8, <1>9 DEF IInv

(***************************************************************************)
(* A resting order is withdrawn, from between calls or from a callback, in *)
(* on_trade not the one that is being traded with.                         *)
(***************************************************************************)
LEMMA WithdrawStep ==
  ASSUME IInv, NEW id \in OrderIds, IsOpen(id), Withdraw(id),
         pc \in {"idle"} \cup Callbacks,
         pc = "on_trade" => order_index[id] # call.resting
  PROVE  IInv'
<1> DEFINE slot  == order_index[id]
           i     == pool[slot].instrument_id
           after == remove_resting(pool, books[i], slot)
<1>1. /\ pool' = after.pool /\ books' = [books EXCEPT ![i] = after.book]
      /\ view' = [view EXCEPT ![id].open = @ - pool[slot].open_qty]
      /\ UNCHANGED <<instrument_index, order_index, pool_size, next_trade_id, pc, call, arrival>>
  BY DEF Withdraw
<1>2. slot \in Slots /\ pool[slot].is_open
  BY DEF IInv, TypeOK, IsOpen, contains, Link
<1>3. /\ i \in Instruments /\ pool[slot].instrument_id = i /\ pool[slot].open_qty \in Int
      /\ pool \in [Slots -> OrderRecord] /\ arrival \in [Slots -> Slots]
  BY <1>2, StateFacts, QuantityIsInt
<1>4. books[i] \in Book(i) /\ BookFits(pool, books[i], i, arrival)
  BY <1>3, StateFacts DEF IInv, BooksFit
<1>5. pool[slot].level_index \in Index(i)
  BY <1>2, <1>4 DEF BookFits, OnTheirLevels
<1> HIDE DEF i, slot
<1>6. after.pool \in [Slots -> OrderRecord] /\ after.book \in Book(i)
  BY <1>2, <1>3, <1>4, <1>5, RemoveRestingTyped
<1>7. /\ BookFits(after.pool, after.book, i, arrival)
      /\ \A j \in Instruments \ {i} : SameForBook(pool, after.pool, arrival, arrival, j)
  BY <1>2, <1>3, <1>4, RemoveRestingFits
<1>8. \A s \in Slots :
        /\ after.pool[s].id = pool[s].id
        /\ after.pool[s].instrument_id = pool[s].instrument_id
        /\ after.pool[s].open_qty = pool[s].open_qty
        /\ after.pool[s].filled_qty = pool[s].filled_qty
        /\ after.pool[s].side = pool[s].side
        /\ after.pool[s].level_index = pool[s].level_index
        /\ s # slot => after.pool[s].is_open = pool[s].is_open
  <2>1. RemoveRestingEffect(pool, books[i], i, slot, after)
    BY <1>2, <1>3, <1>4, <1>5, RemoveRestingFields
  <2> QED
    BY <2>1 DEF RemoveRestingEffect
<1> HIDE DEF after, i, slot
<1>9. TypeOK'
  <2>1. DOMAIN books' = Instruments /\ \A j \in Instruments : books'[j] \in Book(j)
    BY <1>1, <1>6 DEF IInv, TypeOK
  <2>2. view' \in [OrderIds -> [open : Int, filled : Int]]
    BY <1>1, <1>3 DEF IInv, TypeOK
  <2> QED
    BY <1>1, <1>6, <2>1, <2>2 DEF IInv, TypeOK
<1>10. SlotsInOrder' /\ OpenOrdersReachable'
  BY <1>1, <1>2, <1>8, NothingOpens
<1>11. CallInOrder'
  <2>1. CASE pc = "idle"
    BY <1>1, <2>1 DEF IInv, CallInOrder
  <2>2. CASE pc \in Callbacks
    <3>1. AggressorInOrder
      BY <2>2, AggressorFacts DEF Callbacks
    <3>2. /\ call.slot \in Slots /\ slot # call.slot
          /\ pool'[call.slot].id = pool[call.slot].id
          /\ pool'[call.slot].instrument_id = pool[call.slot].instrument_id
          /\ pool'[call.slot].open_qty = pool[call.slot].open_qty
          /\ pool'[call.slot].is_open = pool[call.slot].is_open
      BY <1>1, <1>2, <1>8, <3>1 DEF AggressorInOrder, Agg
    <3>3. AggressorInOrder'
      BY <1>1, <3>1, <3>2 DEF AggressorInOrder, Agg, Instr
    <3>4. TradeInOrder /\ slot # call.resting => TradeInOrder'
      BY <1>1, <1>8, <3>2 DEF TradeInOrder, Queue, Agg, Instr
    <3>5. pc = "on_trade" => slot # call.resting
      BY DEF slot
    <3> QED
      BY <1>1, <2>2, <3>2, <3>3, <3>4, <3>5 DEF IInv, CallInOrder, Callbacks, Agg, Instr
  <2> QED
    BY <2>1, <2>2
<1>12. BooksFit'
  BY <1>1, <1>3, <1>7, OneBookChanges
<1>13. OrderQuantitiesFit'
  BY <1>1, <1>8, QuantitiesUnchanged
<1> QED
  BY <1>9, <1>10, <1>11, <1>12, <1>13 DEF IInv

-----------------------------------------------------------------------------
(***************************************************************************)
(* The next slot of the pool is filled with a record that does not rest.   *)
(***************************************************************************)
FillsFreshSlot(rec, pool2) ==
  /\ pool_size < PoolCapacity
  /\ rec \in OrderRecord /\ ~rec.is_open
  /\ pool2 = [pool EXCEPT ![pool_size] = rec]

(***************************************************************************)
(* A slot filled so is one the pool had not handed out, and no book sees   *)
(* it.                                                                     *)
(***************************************************************************)
LEMMA FreshSlot ==
  ASSUME IInv, NEW rec, NEW pool2, FillsFreshSlot(rec, pool2)
  PROVE  /\ pool_size \in Slots
         /\ ~pool[pool_size].is_open
         /\ pool2 \in [Slots -> OrderRecord]
         /\ pool2[pool_size] = rec
         /\ \A s \in Slots \ {pool_size} : pool2[s] = pool[s]
         /\ \A i : SameForBook(pool, pool2, arrival, arrival, i)
<1> USE DEF FillsFreshSlot
<1>1. pool_size \in Slots
  BY StateFacts, WidthAssumption DEF Slots
<1>2. ~pool[pool_size].is_open
  <2>1. pool[pool_size].is_open => pool_size < pool_size
    BY <1>1 DEF IInv, SlotsInOrder
  <2>2. pool_size \in Nat
    BY StateFacts
  <2> QED
    BY <2>1, <2>2
<1>3. /\ pool2 \in [Slots -> OrderRecord]
      /\ pool2[pool_size] = rec
      /\ \A s \in Slots \ {pool_size} : pool2[s] = pool[s]
  BY <1>1, StateFacts
<1>4. ASSUME NEW i PROVE SameForBook(pool, pool2, arrival, arrival, i)
  <2>1. ASSUME NEW s \in Slots
        PROVE  /\ pool2[s].is_open /\ pool2[s].instrument_id = i
                    <=> pool[s].is_open /\ pool[s].instrument_id = i
               /\ pool[s].is_open => pool2[s] = pool[s]
    BY <1>2, <1>3
  <2> QED
    BY <2>1 DEF SameForBook
<1> QED
  BY <1>1, <1>2, <1>3, <1>4

(***************************************************************************)
(* A step that fills a fresh slot with an order that does not rest, points *)
(* at most ids never used before to it, and does nothing else to orders    *)
(* and books.                                                              *)
(***************************************************************************)
LEMMA FreshSlotStep ==
  ASSUME IInv, pool_size < PoolCapacity,
         NEW rec \in OrderRecord, ~rec.is_open, rec.open_qty + rec.filled_qty < QtyMod,
         pool' = [pool EXCEPT ![pool_size] = rec],
         pool_size' = pool_size + 1,
         order_index' \in [OrderIds -> Link],
         \A id \in OrderIds : order_index'[id] = order_index[id] \/ ~contains(id),
         UNCHANGED <<instrument_index, books, arrival>>
  PROVE  /\ pool' \in [Slots -> OrderRecord]
         /\ pool_size' \in 0 .. PoolCapacity
         /\ pool_size \in Slots
         /\ pool'[pool_size] = rec
         /\ SlotsInOrder' /\ BooksFit' /\ OpenOrdersReachable' /\ OrderQuantitiesFit'
<1>1. /\ pool_size \in Slots
      /\ pool' \in [Slots -> OrderRecord]
      /\ pool'[pool_size] = rec
      /\ \A s \in Slots \ {pool_size} : pool'[s] = pool[s]
      /\ \A i : SameForBook(pool, pool', arrival, arrival, i)
  <2> DEFINE pool2 == [pool EXCEPT ![pool_size] = rec]
  <2>1. FillsFreshSlot(rec, pool2) /\ pool' = pool2
    BY DEF FillsFreshSlot
  <2> HIDE DEF pool2
  <2>2. /\ pool_size \in Slots
        /\ pool2 \in [Slots -> OrderRecord]
        /\ pool2[pool_size] = rec
        /\ \A s \in Slots \ {pool_size} : pool2[s] = pool[s]
        /\ \A i : SameForBook(pool, pool2, arrival, arrival, i)
    BY <2>1, FreshSlot
  <2> QED
    BY <2>1, <2>2
<1>2. pool_size' \in 0 .. PoolCapacity /\ pool_size \in Nat /\ pool_size < pool_size'
  BY WidthAssumption, StateFacts
<1>3. SlotsInOrder'
  <2>1. ASSUME NEW s \in Slots
        PROVE  /\ arrival[s] <= s
               /\ s >= pool_size' => arrival[s] = s
               /\ pool'[s].is_open => /\ s < pool_size'
                                      /\ pool'[s].instrument_id \in instrument_index
                                      /\ pool'[s].id \in OrderIds
    <3>1. s \in Nat
      BY SlotFacts
    <3>2. pool'[s].is_open => pool'[s] = pool[s]
      BY <1>1
    <3> QED
      BY <1>2, <3>1, <3>2 DEF IInv, SlotsInOrder
  <2> QED
    BY <2>1 DEF SlotsInOrder
<1>4. BooksFit'
  BY <1>1, BooksFrame
<1>5. OpenOrdersReachable'
  <2>1. ASSUME NEW s \in Slots, pool'[s].is_open PROVE order_index'[pool'[s].id] = s
    <3>1. pool'[s] = pool[s] /\ pool[s].is_open
      BY <1>1, <2>1
    <3>2. pool[s].id \in OrderIds /\ order_index[pool[s].id] = s
      BY <3>1 DEF IInv, SlotsInOrder, OpenOrdersReachable, OpenSlots
    <3>3. contains(pool[s].id)
      BY <3>2, SlotFacts DEF contains
    <3> QED
      BY <3>1, <3>2, <3>3
  <2> QED
    BY <2>1 DEF OpenOrdersReachable, OpenSlots
<1>6. OrderQuantitiesFit'
  BY <1>1 DEF IInv, OrderQuantitiesFit
<1> QED
  BY <1>1, <1>2, <1>3, <1>4, <1>5, <1>6

\* Pointing an id at the fresh slot keeps the index well typed.
LEMMA IndexFreshSlot ==
  ASSUME IInv, pool_size < PoolCapacity, NEW id \in OrderIds
  PROVE  [order_index EXCEPT ![id] = pool_size] \in [OrderIds -> Link]
BY StateFacts, WidthAssumption DEF IInv, TypeOK, Link, Slots

(***************************************************************************)
(* OrderRecord{}, and the records that submit and replace make of it.      *)
(***************************************************************************)
LEMMA NewRecordFacts ==
  /\ NewRecord \in OrderRecord /\ ~NewRecord.is_open
  /\ NewRecord.open_qty = 0 /\ NewRecord.filled_qty = 0
<1>1. kInvalidSlot \in Link /\ kInvalidSlot \in Int /\ 0 \in Quantity /\ "kBuy" \in Side
  BY WidthAssumption DEF Link, kInvalidSlot, Quantity, Side
<1> QED
  BY <1>1 DEF NewRecord, OrderRecord

RefusedRec(id, i, side) ==
  [NewRecord EXCEPT !.id = id, !.instrument_id = i, !.side = side]

SubmittedRec(id, i, side, q) ==
  [NewRecord EXCEPT !.id = id, !.instrument_id = i, !.side = side, !.open_qty = q]

ReplacedRec(id, i, side, p, open, filled) ==
  [NewRecord EXCEPT !.id = id, !.instrument_id = i, !.side = side, !.price = p,
                    !.open_qty = open, !.filled_qty = filled]

\* They are well typed and do not rest.
LEMMA FreshRecords ==
  ASSUME NEW id \in OrderIds, NEW i \in Instruments, NEW side \in Side
  PROVE  /\ LET rec == RefusedRec(id, i, side)
            IN /\ rec \in OrderRecord /\ ~rec.is_open
               /\ rec.open_qty = 0 /\ rec.filled_qty = 0
         /\ \A q \in Quantity :
              LET rec == SubmittedRec(id, i, side, q)
              IN /\ rec \in OrderRecord /\ ~rec.is_open
                 /\ rec.id = id /\ rec.instrument_id = i
                 /\ rec.open_qty = q /\ rec.filled_qty = 0
         /\ \A p \in Int, open, filled \in Quantity :
              LET rec == ReplacedRec(id, i, side, p, open, filled)
              IN /\ rec \in OrderRecord /\ ~rec.is_open
                 /\ rec.id = id /\ rec.instrument_id = i
                 /\ rec.open_qty = open /\ rec.filled_qty = filled
<1>1. LET rec == RefusedRec(id, i, side)
      IN /\ rec \in OrderRecord /\ ~rec.is_open
         /\ rec.open_qty = 0 /\ rec.filled_qty = 0
  BY NewRecordFacts DEF RefusedRec, OrderRecord
<1>2. ASSUME NEW q \in Quantity
      PROVE  LET rec == SubmittedRec(id, i, side, q)
             IN /\ rec \in OrderRecord /\ ~rec.is_open
                /\ rec.id = id /\ rec.instrument_id = i
                /\ rec.open_qty = q /\ rec.filled_qty = 0
  BY NewRecordFacts DEF SubmittedRec, OrderRecord
<1>3. ASSUME NEW p \in Int, NEW open \in Quantity, NEW filled \in Quantity
      PROVE  LET rec == ReplacedRec(id, i, side, p, open, filled)
             IN /\ rec \in OrderRecord /\ ~rec.is_open
                /\ rec.id = id /\ rec.instrument_id = i
                /\ rec.open_qty = open /\ rec.filled_qty = filled
  BY NewRecordFacts DEF ReplacedRec, OrderRecord
<1> QED
  BY <1>1, <1>2, <1>3

(***************************************************************************)
(* The slot of an order submit refuses late, or could not index.           *)
(***************************************************************************)
LEMMA RefusedStep ==
  ASSUME IInv, NEW id \in OrderIds, NEW o \in Orders,
         SubmitRefused(id, o) \/ SubmitOutOfMemory(id, o)
  PROVE  IInv'
<1> DEFINE rec == RefusedRec(id, o.instrument_id, o.side)
<1>1. /\ pc = "idle" /\ pool_size < PoolCapacity
      /\ SubmitReject(id, o) \in Spending \cup {"none"}
      /\ pool_size' = pool_size + 1
      /\ pool' = [pool EXCEPT ![pool_size] = rec]
      /\ order_index' \in {order_index, [order_index EXCEPT ![id] = pool_size]}
      /\ UNCHANGED <<instrument_index, books, next_trade_id, pc, call, arrival, view>>
  BY DEF SubmitRefused, SubmitOutOfMemory, RefusedRec
<1>2. ~contains(id)
  BY <1>1 DEF SubmitReject, Spending
<1>3. o.instrument_id \in Instruments /\ o.side \in Side
  BY InputAssumption DEF NewOrder
<1>4. rec \in OrderRecord /\ ~rec.is_open /\ rec.open_qty + rec.filled_qty < QtyMod
  <2>1. /\ rec \in OrderRecord /\ ~rec.is_open
        /\ rec.open_qty = 0 /\ rec.filled_qty = 0
    BY <1>3, FreshRecords
  <2> QED
    BY <2>1, WidthAssumption
<1> HIDE DEF rec
<1>5. order_index' \in [OrderIds -> Link]
  BY <1>1, IndexFreshSlot DEF IInv, TypeOK
<1>6. \A d \in OrderIds : order_index'[d] = order_index[d] \/ ~contains(d)
  BY <1>1, <1>2 DEF IInv, TypeOK
<1>7. /\ pool' \in [Slots -> OrderRecord] /\ pool_size' \in 0 .. PoolCapacity
      /\ SlotsInOrder' /\ BooksFit' /\ OpenOrdersReachable' /\ OrderQuantitiesFit'
  BY <1>1, <1>4, <1>5, <1>6, FreshSlotStep
<1>8. TypeOK'
  BY <1>1, <1>5, <1>7 DEF IInv, TypeOK
<1>9. CallInOrder'
  BY <1>1 DEF IInv, CallInOrder
<1> QED
  BY <1>7, <1>8, <1>9 DEF IInv

(***************************************************************************)
(* An accepted order.                                                      *)
(***************************************************************************)
LEMMA SubmitStep ==
  ASSUME IInv, NEW id \in OrderIds, NEW o \in Orders, Submit(id, o)
  PROVE  IInv'
<1> DEFINE rec == SubmittedRec(id, o.instrument_id, o.side, o.quantity)
           price == IF IsMarket(o) THEN 0 ELSE o.price
<1>1. /\ pc = "idle" /\ pool_size < PoolCapacity /\ SubmitReject(id, o) = "none"
      /\ pool_size' = pool_size + 1
      /\ pool' = [pool EXCEPT ![pool_size] = rec]
      /\ order_index' = [order_index EXCEPT ![id] = pool_size]
      /\ view' = [view EXCEPT ![id].open = o.quantity]
      /\ pc' = "on_accepted"
      /\ call' = [NoCall EXCEPT !.slot = pool_size, !.side = o.side, !.tif = o.tif,
                                !.is_market = IsMarket(o), !.price = price]
      /\ UNCHANGED <<instrument_index, books, next_trade_id, arrival>>
  BY DEF Submit, SubmittedRec
<1>2. o \in NewOrder
  BY InputAssumption
<1>3. /\ o.quantity \in Quantity /\ o.quantity \in Int /\ o.side \in Side
      /\ o.tif \in {"kDay", "kIoc", "kFok"} /\ price \in Int /\ IsMarket(o) \in BOOLEAN
  <2>1. o.quantity \in Quantity /\ o.side \in Side /\ o.price \in Int
        /\ o.tif \in {"kDay", "kIoc", "kFok"}
    BY <1>2 DEF NewOrder
  <2>2. price \in Int
    BY <2>1
  <2>3. IsMarket(o) \in BOOLEAN
    BY DEF IsMarket
  <2> QED
    BY <2>1, <2>2, <2>3, QuantityIsInt
<1>4. /\ ~contains(id) /\ o.instrument_id \in instrument_index
      /\ o.tif = "kDay" => ~IsMarket(o) /\ in_band(o.instrument_id, o.price)
  BY <1>1 DEF SubmitReject
<1>5. o.instrument_id \in Instruments
  BY <1>4 DEF IInv, TypeOK
<1>6. o.tif = "kDay" => price_to_index(o.instrument_id, price) \in Index(o.instrument_id)
  BY <1>4, <1>5, PriceToIndex DEF in_band
<1>7. /\ rec \in OrderRecord /\ ~rec.is_open /\ rec.open_qty + rec.filled_qty < QtyMod
      /\ rec.id = id /\ rec.instrument_id = o.instrument_id
  <2>1. o.quantity + 0 < QtyMod
    BY <1>3, WidthAssumption DEF Quantity
  <2>2. /\ rec \in OrderRecord /\ ~rec.is_open
        /\ rec.id = id /\ rec.instrument_id = o.instrument_id
        /\ rec.open_qty = o.quantity /\ rec.filled_qty = 0
    BY <1>3, <1>5, FreshRecords
  <2> QED
    BY <2>1, <2>2
<1> HIDE DEF rec, price
<1>8. order_index' \in [OrderIds -> Link] /\ order_index'[id] = pool_size
  BY <1>1, IndexFreshSlot DEF IInv, TypeOK
<1>9. \A d \in OrderIds : order_index'[d] = order_index[d] \/ ~contains(d)
  BY <1>1, <1>4 DEF IInv, TypeOK
<1>10. /\ pool' \in [Slots -> OrderRecord] /\ pool_size' \in 0 .. PoolCapacity
       /\ pool_size \in Slots /\ pool'[pool_size] = rec
       /\ SlotsInOrder' /\ BooksFit' /\ OpenOrdersReachable' /\ OrderQuantitiesFit'
  BY <1>1, <1>7, <1>8, <1>9, FreshSlotStep
<1>11. /\ call' \in Call /\ call'.slot = pool_size /\ call'.tif = o.tif /\ call'.price = price
  <2>1. NoCall \in Call /\ pool_size \in Link
    BY <1>10, NoCallTyped, SlotFacts
  <2> QED
    BY <1>1, <1>3, <2>1 DEF Call
<1>12. TypeOK'
  <2>1. view' \in [OrderIds -> [open : Int, filled : Int]]
    BY <1>1, <1>3 DEF IInv, TypeOK
  <2> QED
    BY <1>1, <1>8, <1>10, <1>11, <2>1 DEF IInv, TypeOK, PCs, Callbacks
<1>13. CallInOrder'
  <2>1. arrival'[pool_size] = pool_size
    <3>1. pool_size >= pool_size
      BY StateFacts
    <3> QED
      BY <1>1, <1>10, <3>1 DEF IInv, SlotsInOrder
  <2>2. AggressorInOrder'
    BY <1>1, <1>4, <1>6, <1>7, <1>8, <1>10, <1>11, <2>1 DEF AggressorInOrder, Agg, Instr
  <2> QED
    BY <1>1, <2>2 DEF CallInOrder
<1> QED
  BY <1>10, <1>12, <1>13 DEF IInv

(***************************************************************************)
(* A replace that is neither refused nor a cancel.                         *)
(***************************************************************************)
LEMMA ReplaceFacts ==
  ASSUME IInv, NEW id \in OrderIds, NEW new_id \in OrderIds, NEW p \in ReplacePrices,
         NEW q \in ReplaceQtys, ReplaceAllowed(id, new_id, p, q)
  PROVE  LET old_slot == order_index[id]
             old      == pool[old_slot]
             i        == old.instrument_id
             rec      == ReplacedRec(new_id, i, old.side, p, NewOpen(id, q), old.filled_qty)
         IN /\ pc = "idle" /\ pool_size < PoolCapacity
            /\ IsOpen(id) /\ old_slot \in Slots /\ old.is_open
            /\ i \in instrument_index /\ i \in Instruments /\ old.side \in Side
            /\ p \in Int /\ NewOpen(id, q) \in Int /\ NewOpen(id, q) \in Quantity
            /\ rec \in OrderRecord /\ ~rec.is_open
            /\ rec.id = new_id /\ rec.instrument_id = i
            /\ rec.open_qty + rec.filled_qty < QtyMod
            /\ WithReplacement(id, new_id, p, q) = [pool EXCEPT ![pool_size] = rec]
            /\ new_id = id \/ ~contains(new_id)
            /\ price_to_index(i, p) \in Index(i)
<1> DEFINE old_slot == order_index[id]
           old      == pool[old_slot]
           i        == old.instrument_id
           filled   == old.filled_qty
           open     == NewOpen(id, q)
           rec      == ReplacedRec(new_id, i, old.side, p, open, filled)
<1>1. /\ pc = "idle" /\ pool_size < PoolCapacity /\ open > 0
      /\ IsOpen(id) /\ ~NewIdTaken(id, new_id) /\ in_band(i, p)
  BY DEF ReplaceAllowed, ReplaceReject
<1>2. old_slot \in Slots /\ old.is_open /\ old \in OrderRecord
  BY <1>1 DEF IInv, TypeOK, IsOpen, contains, Link
<1>3. i \in instrument_index /\ i \in Instruments
  BY <1>2 DEF IInv, TypeOK, SlotsInOrder
<1>4. old.side \in Side /\ filled \in Quantity
  BY <1>2 DEF OrderRecord
<1>5. p \in Int /\ q \in Quantity
  BY InputAssumption
<1>6. WithReplacement(id, new_id, p, q) = [pool EXCEPT ![pool_size] = rec]
  BY DEF WithReplacement, ReplacedRec
<1>7. open = IF q > filled THEN q - filled ELSE 0
  BY DEF NewOpen
<1>8. new_id = id \/ ~contains(new_id)
  BY <1>1 DEF NewIdTaken
<1>9. price_to_index(i, p) \in Index(i)
  BY <1>1, <1>3, PriceToIndex DEF in_band
<1> HIDE DEF open, filled, rec, i, old
<1>10. open \in Quantity /\ open \in Int /\ open + filled < QtyMod
  BY <1>1, <1>4, <1>5, <1>7, WidthAssumption DEF Quantity
<1>11. /\ rec \in OrderRecord /\ ~rec.is_open /\ rec.id = new_id /\ rec.instrument_id = i
       /\ rec.open_qty = open /\ rec.filled_qty = filled
  BY <1>3, <1>4, <1>5, <1>10, FreshRecords DEF rec
<1> QED
  BY <1>1, <1>2, <1>3, <1>4, <1>5, <1>6, <1>8, <1>9, <1>10, <1>11
     DEF open, filled, rec, i, old

(***************************************************************************)
(* What a listener makes of on_replaced is well typed.                     *)
(***************************************************************************)
LEMMA ReplacedViewTyped ==
  ASSUME IInv, NEW id \in OrderIds, NEW new_id \in OrderIds, NEW q,
         NewOpen(id, q) \in Int
  PROVE  ReplacedView(id, new_id, q) \in [OrderIds -> [open : Int, filled : Int]]
<1>1. view \in [OrderIds -> [open : Int, filled : Int]]
  BY DEF IInv, TypeOK
<1> QED
  BY <1>1 DEF ReplacedView

(***************************************************************************)
(* A replacement that could not be indexed.                                *)
(***************************************************************************)
LEMMA ReplaceOutOfMemoryStep ==
  ASSUME IInv, NEW id \in OrderIds, NEW new_id \in OrderIds, NEW p \in ReplacePrices,
         NEW q \in ReplaceQtys, ReplaceOutOfMemory(id, new_id, p, q)
  PROVE  IInv'
<1> DEFINE old == pool[order_index[id]]
           rec == ReplacedRec(new_id, old.instrument_id, old.side, p, NewOpen(id, q),
                              old.filled_qty)
<1>1. /\ ReplaceAllowed(id, new_id, p, q)
      /\ pool_size' = pool_size + 1
      /\ pool' = WithReplacement(id, new_id, p, q)
      /\ UNCHANGED <<instrument_index, order_index, books, next_trade_id, pc, call,
                     arrival, view>>
  BY DEF ReplaceOutOfMemory
<1>2. /\ pc = "idle" /\ pool_size < PoolCapacity
      /\ rec \in OrderRecord /\ ~rec.is_open
      /\ rec.open_qty + rec.filled_qty < QtyMod
      /\ pool' = [pool EXCEPT ![pool_size] = rec]
  BY <1>1, ReplaceFacts
<1> HIDE DEF rec
<1>3. order_index' \in [OrderIds -> Link]
  BY <1>1 DEF IInv, TypeOK
<1>4. \A d \in OrderIds : order_index'[d] = order_index[d] \/ ~contains(d)
  BY <1>1
<1>5. /\ pool' \in [Slots -> OrderRecord] /\ pool_size' \in 0 .. PoolCapacity
      /\ SlotsInOrder' /\ BooksFit' /\ OpenOrdersReachable' /\ OrderQuantitiesFit'
  BY <1>1, <1>2, <1>3, <1>4, FreshSlotStep
<1>6. TypeOK'
  BY <1>1, <1>3, <1>5 DEF IInv, TypeOK
<1>7. CallInOrder'
  BY <1>1, <1>2 DEF IInv, CallInOrder
<1> QED
  BY <1>5, <1>6, <1>7 DEF IInv

(***************************************************************************)
(* A replace that goes to the back: the old order leaves, its replacement  *)
(* is not yet there.                                                       *)
(***************************************************************************)
LEMMA ReplaceLosingStep ==
  ASSUME IInv, NEW id \in OrderIds, NEW new_id \in OrderIds, NEW p \in ReplacePrices,
         NEW q \in ReplaceQtys, ReplaceLosing(id, new_id, p, q)
  PROVE  IInv'
<1> DEFINE slot  == order_index[id]
           old   == pool[slot]
           i     == old.instrument_id
           rec   == ReplacedRec(new_id, i, old.side, p, NewOpen(id, q), old.filled_qty)
           pool2 == WithReplacement(id, new_id, p, q)
           after == remove_resting(pool2, books[i], slot)
<1>1. /\ ReplaceAllowed(id, new_id, p, q) /\ LosesPriority(id, p, q)
      /\ pool' = after.pool /\ pool_size' = pool_size + 1
      /\ books' = [books EXCEPT ![i] = after.book]
      /\ order_index' = [order_index EXCEPT ![new_id] = pool_size]
      /\ view' = ReplacedView(id, new_id, q)
      /\ pc' = "on_replaced"
      /\ call' = [NoCall EXCEPT !.slot = pool_size, !.side = old.side, !.price = p,
                                !.price_changed = PriceChanged(id, p)]
      /\ arrival' = [arrival EXCEPT ![pool_size] = Turn(id, p, q)]
      /\ UNCHANGED <<instrument_index, next_trade_id>>
  BY DEF ReplaceLosing
<1>2. /\ pc = "idle" /\ pool_size < PoolCapacity
      /\ slot \in Slots /\ old.is_open
      /\ i \in instrument_index /\ i \in Instruments /\ old.side \in Side
      /\ p \in Int /\ NewOpen(id, q) \in Int
      /\ rec \in OrderRecord /\ ~rec.is_open
      /\ rec.id = new_id /\ rec.instrument_id = i
      /\ rec.open_qty + rec.filled_qty < QtyMod
      /\ pool2 = [pool EXCEPT ![pool_size] = rec]
      /\ new_id = id \/ ~contains(new_id)
      /\ price_to_index(i, p) \in Index(i)
  BY <1>1, ReplaceFacts
<1>3. old.open_qty \in Int /\ PriceChanged(id, p) \in BOOLEAN
  BY <1>2, StateFacts, QuantityIsInt DEF PriceChanged
<1>4. Turn(id, p, q) = pool_size
  BY <1>1, <1>2, <1>3 DEF LosesPriority, PriceChanged, QtyIncreased, Turn
<1> HIDE DEF rec, pool2, i, slot
<1>5. /\ pool_size \in Slots /\ ~pool[pool_size].is_open
      /\ pool2 \in [Slots -> OrderRecord]
      /\ pool2[pool_size] = rec
      /\ \A s \in Slots \ {pool_size} : pool2[s] = pool[s]
      /\ \A j : SameForBook(pool, pool2, arrival, arrival, j)
  <2>1. FillsFreshSlot(rec, pool2)
    BY <1>2 DEF FillsFreshSlot
  <2> QED
    BY <2>1, FreshSlot
<1>6. slot # pool_size /\ pool2[slot] = old /\ old.instrument_id = i
  BY <1>2, <1>5 DEF i
<1>7. arrival' = arrival /\ arrival \in [Slots -> Slots] /\ arrival[pool_size] = pool_size
  <2>1. arrival \in [Slots -> Slots] /\ pool_size >= pool_size
    BY StateFacts
  <2>2. arrival[pool_size] = pool_size
    BY <1>5, <2>1 DEF IInv, SlotsInOrder
  <2> QED
    BY <1>1, <1>4, <2>1, <2>2
<1>8. books[i] \in Book(i) /\ BookFits(pool2, books[i], i, arrival)
  <2>1. books[i] \in Book(i) /\ BookFits(pool, books[i], i, arrival)
    BY <1>2, StateFacts DEF IInv, BooksFit
  <2>2. \A side \in Side : \A x \in Index(i) :
          /\ books[i].levels[side][x].head = books[i].levels[side][x].head
          /\ books[i].levels[side][x].tail = books[i].levels[side][x].tail
    OBVIOUS
  <2>3. SameForBook(pool, pool2, arrival, arrival, i)
    BY <1>5
  <2> QED
    BY <1>2, <2>1, <2>2, <2>3, BookFrame
<1>9. pool2[slot].level_index \in Index(i)
  BY <1>2, <1>6, <1>8 DEF BookFits, OnTheirLevels
<1>10. after.pool \in [Slots -> OrderRecord] /\ after.book \in Book(i)
  BY <1>2, <1>5, <1>8, <1>9, RemoveRestingTyped
<1>11. /\ BookFits(after.pool, after.book, i, arrival)
       /\ \A j \in Instruments \ {i} : SameForBook(pool2, after.pool, arrival, arrival, j)
  BY <1>2, <1>5, <1>6, <1>7, <1>8, RemoveRestingFits
<1>12. /\ \A s \in Slots :
            /\ after.pool[s].id = pool2[s].id
            /\ after.pool[s].instrument_id = pool2[s].instrument_id
            /\ after.pool[s].open_qty = pool2[s].open_qty
            /\ after.pool[s].filled_qty = pool2[s].filled_qty
            /\ s # slot => after.pool[s].is_open = pool2[s].is_open
       /\ ~after.pool[slot].is_open
  <2>1. i \in Instruments /\ slot \in Slots /\ pool2 \in [Slots -> OrderRecord]
    BY <1>2, <1>5
  <2>2. RemoveRestingEffect(pool2, books[i], i, slot, after)
    BY <1>8, <1>9, <2>1, RemoveRestingFields
  <2> QED
    BY <2>2 DEF RemoveRestingEffect
<1> HIDE DEF after
<1>13. order_index' \in [OrderIds -> Link] /\ order_index'[new_id] = pool_size
  BY <1>1, <1>2, IndexFreshSlot DEF IInv, TypeOK
<1>14. /\ call' \in Call /\ call'.slot = pool_size /\ call'.tif = "kDay" /\ call'.price = p
  <2>1. NoCall \in Call /\ pool_size \in Link /\ NoCall.tif = "kDay"
    BY <1>5, NoCallTyped, SlotFacts DEF NoCall
  <2> QED
    BY <1>1, <1>2, <1>3, <2>1 DEF Call
<1>15. pool_size' \in 0 .. PoolCapacity /\ pool_size \in Nat /\ pool_size < pool_size'
  BY <1>1, <1>2, WidthAssumption, StateFacts
<1>16. TypeOK'
  <2>1. DOMAIN books' = Instruments /\ \A j \in Instruments : books'[j] \in Book(j)
    BY <1>1, <1>10 DEF IInv, TypeOK
  <2>2. view' \in [OrderIds -> [open : Int, filled : Int]]
    BY <1>1, <1>2, ReplacedViewTyped
  <2> QED
    BY <1>1, <1>7, <1>10, <1>13, <1>14, <1>15, <2>1, <2>2 DEF IInv, TypeOK, PCs, Callbacks
<1>17. SlotsInOrder'
  <2>1. ASSUME NEW s \in Slots
        PROVE  /\ arrival'[s] <= s
               /\ s >= pool_size' => arrival'[s] = s
               /\ pool'[s].is_open => /\ s < pool_size'
                                      /\ pool'[s].instrument_id \in instrument_index
                                      /\ pool'[s].id \in OrderIds
    <3>1. s \in Nat
      BY SlotFacts
    <3>2. pool'[s].is_open =>
            /\ pool[s].is_open
            /\ pool'[s].id = pool[s].id /\ pool'[s].instrument_id = pool[s].instrument_id
      BY <1>1, <1>2, <1>5, <1>12
    <3> QED
      BY <1>7, <1>15, <3>1, <3>2 DEF IInv, SlotsInOrder
  <2> QED
    BY <1>1, <2>1 DEF SlotsInOrder
<1>18. CallInOrder'
  <2>1. /\ ~pool'[pool_size].is_open /\ pool'[pool_size].id = new_id
        /\ pool'[pool_size].instrument_id = i
    BY <1>1, <1>2, <1>5, <1>6, <1>12
  <2>2. AggressorInOrder'
    BY <1>1, <1>2, <1>5, <1>7, <1>13, <1>14, <2>1 DEF AggressorInOrder, Agg, Instr
  <2> QED
    BY <1>1, <2>2 DEF CallInOrder
<1>19. BooksFit'
  <2>1. ASSUME NEW j \in Instruments \ {i}
        PROVE  SameForBook(pool, pool', arrival, arrival', j)
    BY ZenonT(40), <1>1, <1>5, <1>7, <1>11, SameForBookTransitive
  <2>2. /\ i \in Instruments /\ books' = [books EXCEPT ![i] = after.book]
        /\ BookFits(pool', after.book, i, arrival')
    BY <1>1, <1>2, <1>7, <1>11
  <2> QED
    BY <2>1, <2>2, OneBookChanges
<1>20. OpenOrdersReachable'
  <2>1. ASSUME NEW s \in Slots, pool'[s].is_open PROVE order_index'[pool'[s].id] = s
    <3>1. s # slot /\ pool[s].is_open /\ pool'[s].id = pool[s].id
      BY <1>1, <1>2, <1>5, <1>12, <2>1
    <3>2. pool[s].id \in OrderIds /\ order_index[pool[s].id] = s /\ s # kInvalidSlot
      BY <3>1, SlotFacts DEF IInv, SlotsInOrder, OpenOrdersReachable, OpenSlots
    <3>3. pool[s].id # new_id
      BY <1>2, <3>1, <3>2 DEF contains, slot
    <3> QED
      BY <1>1, <3>1, <3>2, <3>3
  <2> QED
    BY <2>1 DEF OpenOrdersReachable, OpenSlots
<1>21. OrderQuantitiesFit'
  BY <1>1, <1>2, <1>5, <1>12 DEF IInv, OrderQuantitiesFit
<1> QED
  BY <1>16, <1>17, <1>18, <1>19, <1>20, <1>21 DEF IInv

(***************************************************************************)
(* A replace that keeps its place, and the turn that goes with it.         *)
(***************************************************************************)
LEMMA ReplaceKeepingStep ==
  ASSUME IInv, NEW id \in OrderIds, NEW new_id \in OrderIds, NEW p \in ReplacePrices,
         NEW q \in ReplaceQtys, ReplaceKeeping(id, new_id, p, q)
  PROVE  IInv'
<1> DEFINE slot  == order_index[id]
           old   == pool[slot]
           i     == old.instrument_id
           rec   == ReplacedRec(new_id, i, old.side, p, NewOpen(id, q), old.filled_qty)
           pool2 == WithReplacement(id, new_id, p, q)
           after == replace_in_place(pool2, books[i], slot, pool_size)
<1>1. /\ ReplaceAllowed(id, new_id, p, q) /\ ~LosesPriority(id, p, q)
      /\ pool' = after.pool /\ pool_size' = pool_size + 1
      /\ books' = [books EXCEPT ![i] = after.book]
      /\ order_index' = [order_index EXCEPT ![new_id] = pool_size]
      /\ view' = ReplacedView(id, new_id, q)
      /\ arrival' = [arrival EXCEPT ![pool_size] = Turn(id, p, q)]
      /\ UNCHANGED <<instrument_index, next_trade_id, pc, call>>
  BY DEF ReplaceKeeping
<1>2. /\ pc = "idle" /\ pool_size < PoolCapacity
      /\ slot \in Slots /\ old.is_open
      /\ i \in instrument_index /\ i \in Instruments
      /\ NewOpen(id, q) \in Int
      /\ rec \in OrderRecord /\ ~rec.is_open
      /\ rec.id = new_id /\ rec.instrument_id = i
      /\ rec.open_qty + rec.filled_qty < QtyMod
      /\ pool2 = [pool EXCEPT ![pool_size] = rec]
      /\ new_id = id \/ ~contains(new_id)
  BY <1>1, ReplaceFacts
<1>3. Turn(id, p, q) = arrival[slot]
  <2>1. old.open_qty \in Int
    BY <1>2, StateFacts, QuantityIsInt
  <2> QED
    BY <1>1, <1>2, <2>1 DEF LosesPriority, PriceChanged, QtyIncreased, Turn
<1> HIDE DEF rec, pool2, i, slot
<1>4. /\ pool_size \in Slots /\ ~pool[pool_size].is_open
      /\ pool2 \in [Slots -> OrderRecord]
      /\ pool2[pool_size] = rec
      /\ \A s \in Slots \ {pool_size} : pool2[s] = pool[s]
      /\ \A j : SameForBook(pool, pool2, arrival, arrival, j)
  <2>1. FillsFreshSlot(rec, pool2)
    BY <1>2 DEF FillsFreshSlot
  <2> QED
    BY <2>1, FreshSlot
<1>5. slot # pool_size /\ pool2[slot] = old /\ old.instrument_id = i
  BY <1>2, <1>4 DEF i
<1>6. /\ pool_size' \in 0 .. PoolCapacity /\ pool_size \in Nat /\ pool_size < pool_size'
      /\ slot < pool_size
  <2>1. slot < pool_size
    BY <1>2 DEF IInv, SlotsInOrder
  <2> QED
    BY <1>1, <1>2, <2>1, WidthAssumption, StateFacts
<1>7. /\ arrival \in [Slots -> Slots] /\ arrival' \in [Slots -> Slots]
      /\ arrival'[pool_size] = arrival[slot]
      /\ \A s \in Slots \ {pool_size} : arrival'[s] = arrival[s]
  <2>1. arrival \in [Slots -> Slots]
    BY StateFacts
  <2> QED
    BY <1>1, <1>2, <1>3, <1>4, <2>1
<1>8. books[i] \in Book(i) /\ BookFits(pool2, books[i], i, arrival)
  <2>1. books[i] \in Book(i) /\ BookFits(pool, books[i], i, arrival)
    BY <1>2, StateFacts DEF IInv, BooksFit
  <2>2. \A side \in Side : \A x \in Index(i) :
          /\ books[i].levels[side][x].head = books[i].levels[side][x].head
          /\ books[i].levels[side][x].tail = books[i].levels[side][x].tail
    OBVIOUS
  <2>3. SameForBook(pool, pool2, arrival, arrival, i)
    BY <1>4
  <2> QED
    BY <1>2, <2>1, <2>2, <2>3, BookFrame
<1>9. /\ pool2[slot].is_open /\ pool2[slot].instrument_id = i
      /\ ~pool2[pool_size].is_open /\ pool2[pool_size].instrument_id = i
      /\ pool2[slot].level_index \in Index(i)
      /\ i \in Instruments /\ slot \in Slots
  <2>1. pool2[slot].is_open /\ pool2[slot].instrument_id = i
    BY <1>2, <1>5
  <2> QED
    BY <1>2, <1>4, <1>8, <2>1 DEF BookFits, OnTheirLevels
<1>10. after.pool \in [Slots -> OrderRecord] /\ after.book \in Book(i)
  BY <1>4, <1>8, <1>9, ReplaceInPlaceTyped
<1>11. /\ BookFits(after.pool, after.book, i, arrival')
       /\ \A j \in Instruments \ {i} : SameForBook(pool2, after.pool, arrival, arrival', j)
  <2> DEFINE rank2 == arrival'
  <2>1. rank2[pool_size] = arrival[slot] /\ \A s \in Slots \ {pool_size} : rank2[s] = arrival[s]
    BY <1>7
  <2> HIDE DEF rank2
  <2>2. /\ BookFits(after.pool, after.book, i, rank2)
        /\ \A j \in Instruments \ {i} : SameForBook(pool2, after.pool, arrival, rank2, j)
    BY <1>4, <1>7, <1>8, <1>9, <2>1, ReplaceInPlaceFits
  <2> QED
    BY <2>2 DEF rank2
<1>12. /\ \A s \in Slots :
            /\ after.pool[s].id = pool2[s].id
            /\ after.pool[s].instrument_id = pool2[s].instrument_id
            /\ after.pool[s].open_qty = pool2[s].open_qty
            /\ after.pool[s].filled_qty = pool2[s].filled_qty
            /\ s \notin {slot, pool_size} => after.pool[s].is_open = pool2[s].is_open
       /\ ~after.pool[slot].is_open
  <2>1. ReplaceInPlaceEffect(pool2, books[i], i, slot, pool_size, after)
    BY <1>4, <1>5, <1>8, <1>9, ReplaceInPlaceFields
  <2>2. \A s \in Slots : s \notin {slot, pool_size} =>
          after.pool[s].is_open = pool2[s].is_open
    BY <2>1 DEF ReplaceInPlaceEffect
  <2> QED
    BY <2>1, <2>2 DEF ReplaceInPlaceEffect
<1> HIDE DEF after
<1>13. order_index' \in [OrderIds -> Link] /\ order_index'[new_id] = pool_size
  BY <1>1, <1>2, IndexFreshSlot DEF IInv, TypeOK
<1>14. TypeOK'
  <2>1. DOMAIN books' = Instruments /\ \A j \in Instruments : books'[j] \in Book(j)
    BY <1>1, <1>10 DEF IInv, TypeOK
  <2>2. view' \in [OrderIds -> [open : Int, filled : Int]]
    BY <1>1, <1>2, ReplacedViewTyped
  <2> QED
    BY <1>1, <1>6, <1>7, <1>10, <1>13, <2>1, <2>2 DEF IInv, TypeOK
<1>15. SlotsInOrder'
  <2>1. ASSUME NEW s \in Slots
        PROVE  /\ arrival'[s] <= s
               /\ s >= pool_size' => arrival'[s] = s
               /\ pool'[s].is_open => /\ s < pool_size'
                                      /\ pool'[s].instrument_id \in instrument_index
                                      /\ pool'[s].id \in OrderIds
    <3>1. s \in Nat /\ arrival[slot] \in Nat /\ slot \in Nat /\ arrival[slot] <= slot
      BY <1>2, <1>7, SlotFacts DEF IInv, SlotsInOrder
    <3>2. CASE s = pool_size
      <4>1. pool'[s].id = new_id /\ pool'[s].instrument_id = i
        BY <1>1, <1>2, <1>4, <1>12, <3>2
      <4> QED
        BY <1>2, <1>6, <1>7, <3>1, <3>2, <4>1
    <3>3. CASE s # pool_size
      <4>1. pool'[s].is_open =>
              /\ pool[s].is_open
              /\ pool'[s].id = pool[s].id /\ pool'[s].instrument_id = pool[s].instrument_id
        BY <1>1, <1>2, <1>4, <1>12, <3>3
      <4> QED
        BY <1>6, <1>7, <3>1, <3>3, <4>1 DEF IInv, SlotsInOrder
    <3> QED
      BY <3>2, <3>3
  <2> QED
    BY <1>1, <2>1 DEF SlotsInOrder
<1>16. CallInOrder'
  BY <1>1, <1>2 DEF IInv, CallInOrder
<1>17. BooksFit'
  <2>1. ASSUME NEW j \in Instruments \ {i}
        PROVE  SameForBook(pool, pool', arrival, arrival', j)
    <3>1. SameForBook(pool, pool2, arrival, arrival, j)
      BY <1>4
    <3>2. SameForBook(pool2, pool', arrival, arrival', j)
      BY <1>1, <1>11
    <3> QED
      BY <3>1, <3>2, SameForBookTransitive
  <2>2. /\ i \in Instruments /\ books' = [books EXCEPT ![i] = after.book]
        /\ BookFits(pool', after.book, i, arrival')
    BY <1>1, <1>2, <1>11
  <2> QED
    BY <2>1, <2>2, OneBookChanges
<1>18. OpenOrdersReachable'
  <2>1. ASSUME NEW s \in Slots, pool'[s].is_open PROVE order_index'[pool'[s].id] = s
    <3>1. CASE s = pool_size
      BY <1>1, <1>2, <1>4, <1>12, <1>13, <3>1
    <3>2. CASE s # pool_size
      <4>1. s # slot /\ pool[s].is_open /\ pool'[s].id = pool[s].id
        BY <1>1, <1>2, <1>4, <1>12, <2>1, <3>2
      <4>2. pool[s].id \in OrderIds /\ order_index[pool[s].id] = s /\ s # kInvalidSlot
        BY <4>1, SlotFacts DEF IInv, SlotsInOrder, OpenOrdersReachable, OpenSlots
      <4>3. pool[s].id # new_id
        BY <1>2, <4>1, <4>2 DEF contains, slot
      <4> QED
        BY <1>1, <4>1, <4>2, <4>3
    <3> QED
      BY <3>1, <3>2
  <2> QED
    BY <2>1 DEF OpenOrdersReachable, OpenSlots
<1>19. OrderQuantitiesFit'
  BY <1>1, <1>2, <1>4, <1>12 DEF IInv, OrderQuantitiesFit
<1> QED
  BY <1>14, <1>15, <1>16, <1>17, <1>18, <1>19 DEF IInv

-----------------------------------------------------------------------------
(***************************************************************************)
(* Books without orders fit a pool without resting orders.                 *)
(***************************************************************************)
LEMMA EmptyBooksFit ==
  ASSUME NEW p, NEW rank, NEW i \in Instruments, \A s \in Slots : ~p[s].is_open
  PROVE  EmptyBook(i) \in Book(i) /\ BookFits(p, EmptyBook(i), i, rank)
<1>1. EmptyLevel \in Level /\ EmptyLevel.head = kInvalidSlot /\ EmptyLevel.tail = kInvalidSlot
  BY WidthAssumption DEF EmptyLevel, Level, Link, Quantity
<1>2. EmptyBook(i) \in Book(i)
  BY <1>1 DEF EmptyBook, Book
<1>3. OnTheirLevels(p, i)
  BY DEF OnTheirLevels
<1>4. ASSUME NEW side \in Side, NEW x \in Index(i)
      PROVE  /\ QueueLinked(p, EmptyBook(i).levels[side][x], Queue(p, i, side, x))
             /\ QueueOrdered(p, Queue(p, i, side, x), rank)
  <2>1. Queue(p, i, side, x) = {}
    BY DEF Queue
  <2>2. EmptyBook(i).levels[side][x] = EmptyLevel
    BY DEF EmptyBook
  <2> QED
    BY <1>1, <2>1, <2>2 DEF QueueLinked, QueueOrdered
<1> QED
  BY <1>2, <1>3, <1>4 DEF BookFits, LevelsLinked

(***************************************************************************)
(* configure.                                                              *)
(***************************************************************************)
LEMMA ConfigureStep ==
  ASSUME IInv, NEW ids \in ConfigureCalls, Configure(ids)
  PROVE  IInv'
<1>1. /\ pc = "idle" /\ instrument_index = {} /\ instrument_index' = ids
      /\ books' = [i \in Instruments |-> EmptyBook(i)]
      /\ UNCHANGED <<order_index, pool, pool_size, next_trade_id, pc, call, arrival, view>>
  BY DEF Configure, configured
<1>2. \A s \in Slots : ~pool[s].is_open
  BY <1>1 DEF IInv, SlotsInOrder
<1>3. ids \in SUBSET Instruments
  BY InputAssumption
<1>4. \A i \in Instruments : EmptyBook(i) \in Book(i) /\ BookFits(pool, EmptyBook(i), i, arrival)
  BY <1>2, EmptyBooksFit
<1>5. TypeOK'
  BY <1>1, <1>3, <1>4 DEF IInv, TypeOK
<1>6. SlotsInOrder'
  BY <1>1, <1>2 DEF IInv, SlotsInOrder
<1>7. CallInOrder'
  BY <1>1 DEF IInv, CallInOrder
<1>8. BooksFit'
  BY <1>1, <1>4 DEF BooksFit
<1>9. OpenOrdersReachable' /\ OrderQuantitiesFit'
  BY <1>1 DEF IInv, OpenOrdersReachable, OpenSlots, OrderQuantitiesFit
<1> QED
  BY <1>5, <1>6, <1>7, <1>8, <1>9 DEF IInv

(***************************************************************************)
(* The engine as it is created.                                            *)
(***************************************************************************)
LEMMA InitInv == Init => IInv
<1> SUFFICES ASSUME Init PROVE IInv
  OBVIOUS
<1>1. \A s \in Slots : pool[s] = NewRecord
  BY DEF Init
<1>2. \A i \in Instruments : EmptyBook(i) \in Book(i) /\ BookFits(pool, EmptyBook(i), i, arrival)
  BY <1>1, NewRecordFacts, EmptyBooksFit
<1>3. TypeOK
  <2>1. order_index \in [OrderIds -> Link] /\ arrival \in [Slots -> Slots]
    BY DEF Init, Link
  <2>2. pool \in [Slots -> OrderRecord]
    BY NewRecordFacts DEF Init
  <2>3. pool_size \in 0 .. PoolCapacity
    BY WidthAssumption DEF Init
  <2>4. DOMAIN books = Instruments /\ \A i \in Instruments : books[i] \in Book(i)
    BY <1>2 DEF Init
  <2>5. view \in [OrderIds -> [open : Int, filled : Int]]
    BY DEF Init
  <2> QED
    BY <2>1, <2>2, <2>3, <2>4, <2>5, NoCallTyped DEF Init, TypeOK, PCs
<1>4. SlotsInOrder
  BY <1>1, NewRecordFacts, SlotFacts DEF Init, SlotsInOrder
<1>5. CallInOrder
  BY DEF Init, CallInOrder
<1>6. BooksFit
  BY <1>2 DEF Init, BooksFit
<1>7. OpenOrdersReachable /\ OrderQuantitiesFit
  BY <1>1, NewRecordFacts, WidthAssumption DEF OpenOrdersReachable, OpenSlots, OrderQuantitiesFit
<1> QED
  BY <1>3, <1>4, <1>5, <1>6, <1>7 DEF IInv

(***************************************************************************)
(* Every step keeps the invariant.                                         *)
(***************************************************************************)
LEMMA NextInv == IInv /\ [Next \/ Fault]_vars => IInv'
<1> SUFFICES ASSUME IInv, [Next \/ Fault]_vars PROVE IInv'
  OBVIOUS
<1>1. CASE UNCHANGED vars
  BY <1>1, Stuttering
<1>2. ASSUME NEW ids \in ConfigureCalls, Configure(ids) PROVE IInv'
  BY <1>2, ConfigureStep
<1>3. ASSUME NEW id \in OrderIds, NEW o \in Orders, Submit(id, o) PROVE IInv'
  BY <1>3, SubmitStep
<1>4. ASSUME NEW id \in OrderIds, NEW o \in Orders,
             SubmitRefused(id, o) \/ SubmitOutOfMemory(id, o)
      PROVE  IInv'
  BY <1>4, RefusedStep
<1>5. ASSUME NEW id \in OrderIds, Cancel(id) \/ CancelFromCallback(id) PROVE IInv'
  <2>1. /\ IsOpen(id) /\ Withdraw(id)
        /\ pc \in {"idle"} \cup Callbacks
        /\ pc = "on_trade" => order_index[id] # call.resting
    BY <1>5 DEF Cancel, CancelFromCallback, CancelReject, Callbacks
  <2> QED
    BY <2>1, WithdrawStep
<1>6. ASSUME NEW id \in OrderIds, NEW new_id \in OrderIds, NEW p \in ReplacePrices,
             NEW q \in ReplaceQtys, Replace(id, new_id, p, q)
      PROVE  IInv'
  <2>1. CASE ReplaceToNothing(id, new_id, p, q)
    <3>1. pc = "idle" /\ IsOpen(id) /\ Withdraw(id)
      BY <2>1 DEF ReplaceToNothing, ReplaceReject
    <3> QED
      BY <3>1, WithdrawStep
  <2>2. CASE ReplaceLosing(id, new_id, p, q)
    BY <2>2, ReplaceLosingStep
  <2>3. CASE ReplaceKeeping(id, new_id, p, q)
    BY <2>3, ReplaceKeepingStep
  <2> QED
    BY <1>6, <2>1, <2>2, <2>3 DEF Replace
<1>7. ASSUME NEW id \in OrderIds, NEW new_id \in OrderIds, NEW p \in ReplacePrices,
             NEW q \in ReplaceQtys, ReplaceOutOfMemory(id, new_id, p, q)
      PROVE  IInv'
  BY <1>7, ReplaceOutOfMemoryStep
<1>8. CASE RejectedCall
  BY <1>8, Stuttering DEF RejectedCall
<1>9. CASE CancelUnfillable \/ CancelRemainder
  BY <1>9, DropRemainderStep DEF CancelUnfillable, CancelRemainder
<1>10. CASE \/ StartMatching \/ PickLevel \/ MatchingDone \/ LeaveLevel \/ FullyFilled
            \/ AfterReplaced \/ ListenerThrows
  BY <1>10, ControlSteps
<1>11. CASE Trade
  BY <1>11, TradeStep
<1>12. CASE ApplyTrade
  BY <1>12, ApplyTradeStep
<1>13. CASE RestRemainder
  BY <1>13, RestRemainderStep
<1>14. CASE Host
  BY <1>2, <1>3, <1>4, <1>5, <1>6, <1>8, <1>14 DEF Host
<1>15. CASE Proceed
  BY <1>9, <1>10, <1>11, <1>12, <1>13, <1>15 DEF Proceed
<1>16. CASE Fault
  BY <1>4, <1>5, <1>7, <1>10, <1>16 DEF Fault
<1> QED
  BY <1>1, <1>14, <1>15, <1>16 DEF Next

-----------------------------------------------------------------------------
(***************************************************************************)
(* The invariant holds however often the listener throws or cancels and    *)
(* the id index cannot grow.                                               *)
(***************************************************************************)
THEOREM FaultsInvariant == FaultSpec => []IInv
<1>1. Init => IInv
  BY InitInv
<1>2. IInv /\ [Next \/ Fault]_vars => IInv'
  BY NextInv
<1> QED
  BY <1>1, <1>2, PTL DEF FaultSpec

(***************************************************************************)
(* The invariant holds with a listener that does neither.                  *)
(***************************************************************************)
THEOREM Invariant == Spec => []IInv
<1>1. Init => IInv
  BY InitInv
<1>2. IInv /\ [Next]_vars => IInv'
  BY NextInv
<1> QED
  BY <1>1, <1>2, PTL DEF Spec

(***************************************************************************)
(* What the invariant says in the words of EngineProperties.               *)
(***************************************************************************)
LEMMA InvariantImplies ==
  ASSUME IInv
  PROVE  TypeOK /\ FifoLinked /\ QueuesInArrivalOrder /\ OpenOrdersReachable
           /\ OrderQuantitiesFit
<1>1. ASSUME NEW s \in OpenSlots
      PROVE  LET i == pool[s].instrument_id
             IN /\ i \in instrument_index
                /\ pool[s].level_index \in Index(i)
                /\ index_to_price(i, pool[s].level_index) = pool[s].price
  <2>1. s \in Slots /\ pool[s].is_open
    BY DEF OpenSlots
  <2>2. pool[s].instrument_id \in instrument_index /\ pool[s].instrument_id \in Instruments
    BY <2>1, StateFacts DEF IInv, SlotsInOrder
  <2>3. OnTheirLevels(pool, pool[s].instrument_id)
    BY <2>2 DEF IInv, BooksFit, BookFits
  <2> QED
    BY <2>1, <2>2, <2>3 DEF OnTheirLevels
<1>2. ASSUME NEW i \in Instruments, NEW side \in Side, NEW x \in Index(i)
      PROVE  /\ QueueLinked(pool, books[i].levels[side][x], Queue(pool, i, side, x))
             /\ QueueOrdered(pool, Queue(pool, i, side, x), arrival)
  BY DEF IInv, BooksFit, BookFits, LevelsLinked
<1>3. FifoLinked
  BY <1>1, <1>2 DEF FifoLinked
<1>4. QueuesInArrivalOrder
  BY <1>2 DEF QueuesInArrivalOrder
<1> QED
  BY <1>3, <1>4 DEF IInv

(***************************************************************************)
(* No word overflows and no field is ever anything but what it is declared *)
(* to be.                                                                  *)
(***************************************************************************)
THEOREM TypesHold == Spec => []TypeOK
BY Invariant, InvariantImplies, PTL

(***************************************************************************)
(* Whatever the ladder, the orders and the sequence of calls, unlinking,   *)
(* appending and splicing keep each level's list a list of exactly the     *)
(* orders that rest on it: order_book.cpp never misses an end.  It stays   *)
(* so when the listener throws or cancels and when the id index cannot     *)
(* grow.                                                                   *)
(***************************************************************************)
THEOREM FifoLinkedHolds == FaultSpec => []FifoLinked
BY FaultsInvariant, InvariantImplies, PTL

(***************************************************************************)
(* The list of a level runs in the order in which its orders got their     *)
(* turns (the FIFO half of price-time priority), through every replace.    *)
(***************************************************************************)
THEOREM QueuesInArrivalOrderHolds == Spec => []QueuesInArrivalOrder
BY Invariant, InvariantImplies, PTL

(***************************************************************************)
(* Every resting order can be cancelled and replaced under its id, also    *)
(* after a replace under the same id, and after one that ran out of        *)
(* memory.                                                                 *)
(***************************************************************************)
THEOREM OpenOrdersReachableHolds == FaultSpec => []OpenOrdersReachable
BY FaultsInvariant, InvariantImplies, PTL

(***************************************************************************)
(* The open and the filled quantity of an order never wrap, whatever the   *)
(* width of Quantity and through any chain of partial fills and replaces.  *)
(***************************************************************************)
THEOREM OrderQuantitiesFitHolds == Spec => []OrderQuantitiesFit
BY Invariant, InvariantImplies, PTL

-----------------------------------------------------------------------------
(***************************************************************************)
(* The aggregates a book keeps by hand are right in every state: a level's *)
(* count is the number of its orders, the bitmap marks the levels that     *)
(* have any, and the cached best index is the best of them.  They depend   *)
(* on each other: a bit is cleared when a count reaches zero, and the best *)
(* index moves when its bit is cleared.                                    *)
(***************************************************************************)

IsBest(side, bits, best) ==
  IF bits = {} THEN best = -1 ELSE best \in bits /\ \A x \in bits : ~Better(side, x, best)

Counted(pool1, book, i, side) ==
  \A x \in Index(i) : book.levels[side][x].order_count = Cardinality(Queue(pool1, i, side, x))

Occupied(pool1, i, side) == {x \in Index(i) : Queue(pool1, i, side, x) # {}}

Aggregated(pool1, book, i) ==
  \A side \in Side : /\ Counted(pool1, book, i, side)
                     /\ book.bitmap[side] = Occupied(pool1, i, side)
                     /\ IsBest(side, book.bitmap[side], book.best[side])

\* The same orders rest, on the same levels.
SameOrders(pool1, pool2) ==
  \A s \in Slots :
    /\ pool2[s].is_open <=> pool1[s].is_open
    /\ pool1[s].is_open => /\ pool2[s].instrument_id = pool1[s].instrument_id
                           /\ pool2[s].side = pool1[s].side
                           /\ pool2[s].price = pool1[s].price
                           /\ pool2[s].level_index = pool1[s].level_index

SameAggregates(i, book, book2) ==
  /\ book2.bitmap = book.bitmap /\ book2.best = book.best
  /\ \A side \in Side : \A x \in Index(i) :
       book2.levels[side][x].order_count = book.levels[side][x].order_count

-----------------------------------------------------------------------------
\* Queues and their sizes.
LEMMA QueueFinite ==
  ASSUME NEW pool1, NEW i, NEW side, NEW x
  PROVE  /\ IsFiniteSet(Queue(pool1, i, side, x))
         /\ Cardinality(Queue(pool1, i, side, x)) \in Nat
         /\ Cardinality(Queue(pool1, i, side, x)) = 0 <=> Queue(pool1, i, side, x) = {}
<1>1. IsFiniteSet(Slots)
  BY WidthAssumption, FS_Interval DEF Slots
<1>2. Queue(pool1, i, side, x) \in SUBSET Slots
  BY DEF Queue
<1> QED
  BY <1>1, <1>2, FS_Subset, FS_CardinalityType, FS_EmptySet

\* A book whose orders and aggregates are the same.
LEMMA AggregatedFrame ==
  ASSUME NEW i \in Instruments, NEW pool1, NEW pool2, NEW book, NEW book2,
         SameOrders(pool1, pool2), SameAggregates(i, book, book2), Aggregated(pool1, book, i)
  PROVE  Aggregated(pool2, book2, i)
<1>1. ASSUME NEW side \in Side, NEW x \in Index(i)
      PROVE  Queue(pool2, i, side, x) = Queue(pool1, i, side, x)
  BY DEF Queue, SameOrders
<1> QED
  BY <1>1 DEF Aggregated, Counted, Occupied, SameAggregates

\* Another instrument's orders do not matter.
LEMMA OtherAggregated ==
  ASSUME NEW i \in Instruments, NEW pool1, NEW pool2, NEW book, NEW rank, NEW rank2,
         SameForBook(pool1, pool2, rank, rank2, i), Aggregated(pool1, book, i)
  PROVE  Aggregated(pool2, book, i)
<1>1. ASSUME NEW side \in Side, NEW x \in Index(i)
      PROVE  Queue(pool2, i, side, x) = Queue(pool1, i, side, x)
  BY DEF Queue, SameForBook
<1> QED
  BY <1>1 DEF Aggregated, Counted, Occupied

-----------------------------------------------------------------------------
(***************************************************************************)
(* add_resting.                                                            *)
(***************************************************************************)
LEMMA AddRestingAggregated ==
  ASSUME NEW i \in Instruments, NEW pool1 \in [Slots -> OrderRecord], NEW book \in Book(i),
         NEW slot \in Slots, NEW side \in Side, NEW price \in Int,
         price_to_index(i, price) \in Index(i),
         pool1[slot].instrument_id = i, ~pool1[slot].is_open,
         Aggregated(pool1, book, i)
  PROVE  LET after == add_resting(pool1, book, i, slot, side, price)
         IN Aggregated(after.pool, after.book, i)
<1> DEFINE idx   == price_to_index(i, price)
           lvl   == book.levels[side][idx]
           after == add_resting(pool1, book, i, slot, side, price)
           count == lvl.order_count + 1
           queue == Queue(pool1, i, side, idx)
           bits2 == after.book.bitmap
           best2 == after.book.best
<1>1. AddRestingEffect(pool1, book, i, slot, side, price, after)
  BY AddRestingFields
<1>2. /\ bits2 = IF count = 1 THEN [book.bitmap EXCEPT ![side] = @ \cup {idx}] ELSE book.bitmap
      /\ best2 = IF ~has_best(book, side) \/ Better(side, idx, book.best[side])
                 THEN [book.best EXCEPT ![side] = idx] ELSE book.best
      /\ after.book.levels[side][idx].order_count = count
  <2>1. book.levels \in [Side -> [Index(i) -> Level]]
    BY DEF Book
  <2> QED
    BY <2>1 DEF add_resting
<1>3. /\ book.bitmap \in [Side -> SUBSET Index(i)]
      /\ book.best \in [Side -> Index(i) \cup {-1}]
  BY DEF Book
<1> HIDE DEF idx, after, lvl
<1>4. Queue(after.pool, i, side, idx) = queue \cup {slot} /\ slot \notin queue
  BY <1>1 DEF AddRestingEffect, Queue, idx
<1>5. ASSUME NEW sd \in Side, NEW x \in Index(i), ~(sd = side /\ x = idx)
      PROVE  Queue(after.pool, i, sd, x) = Queue(pool1, i, sd, x)
  <2>1. ASSUME NEW s \in Slots
        PROVE  s \in Queue(after.pool, i, sd, x) <=> s \in Queue(pool1, i, sd, x)
    <3>1. CASE s = slot
      BY <1>1, <1>5, <3>1 DEF AddRestingEffect, Queue, idx
    <3>2. CASE s # slot
      BY <1>1, <3>2 DEF AddRestingEffect, Queue
    <3> QED
      BY <3>1, <3>2
  <2> QED
    BY <2>1 DEF Queue
<1>6. Cardinality(queue \cup {slot}) = Cardinality(queue) + 1
  BY <1>4, QueueFinite, FS_AddElement
<1>7. idx \in Index(i) /\ lvl.order_count = Cardinality(queue)
  BY DEF Aggregated, Counted, idx, lvl
<1>8. count = 1 <=> queue = {}
  BY <1>7, QueueFinite
<1>9. ASSUME NEW sd \in Side PROVE Counted(after.pool, after.book, i, sd)
  <2>1. ASSUME NEW x \in Index(i), ~(sd = side /\ x = idx)
        PROVE  after.book.levels[sd][x] = book.levels[sd][x]
    BY <1>1, <2>1 DEF AddRestingEffect, idx
  <2> HIDE DEF queue, count
  <2>2. Counted(pool1, book, i, sd)
    BY DEF Aggregated
  <2>3. count = Cardinality(queue) + 1
    BY <1>7 DEF count
  <2> QED
    BY <1>2, <1>4, <1>5, <1>6, <2>1, <2>2, <2>3 DEF Counted
<1>10. ASSUME NEW sd \in Side PROVE bits2[sd] = Occupied(after.pool, i, sd)
  <2>1. book.bitmap[sd] = Occupied(pool1, i, sd)
    BY DEF Aggregated
  <2>2. CASE sd = side
    <3>1. Occupied(after.pool, i, side) = Occupied(pool1, i, side) \cup {idx}
      BY <1>4, <1>5, <1>7 DEF Occupied
    <3>2. queue # {} => idx \in Occupied(pool1, i, side)
      BY <1>7 DEF Occupied
    <3>3. bits2[side] = IF count = 1 THEN book.bitmap[side] \cup {idx} ELSE book.bitmap[side]
      BY <1>2, <1>3
    <3> HIDE DEF bits2, queue, count
    <3> QED
      BY <1>8, <2>1, <2>2, <3>1, <3>2, <3>3
  <2>3. CASE sd # side
    <3>1. Occupied(after.pool, i, sd) = Occupied(pool1, i, sd)
      BY <1>5, <2>3 DEF Occupied
    <3>2. bits2[sd] = book.bitmap[sd]
      BY <1>2, <1>3, <2>3
    <3> QED
      BY <2>1, <3>1, <3>2
  <2> QED
    BY <2>2, <2>3
<1>11. ASSUME NEW sd \in Side PROVE IsBest(sd, bits2[sd], best2[sd])
  <2>1. IsBest(sd, book.bitmap[sd], book.best[sd])
    BY DEF Aggregated
  <2>2. CASE sd = side
    <3>1. best2[side] = IF ~has_best(book, side) \/ Better(side, idx, book.best[side])
                        THEN idx ELSE book.best[side]
      BY <1>2, <1>3
    <3>2. bits2[side] = book.bitmap[side] \cup {idx}
      <4>1. book.bitmap[side] = Occupied(pool1, i, side)
        BY DEF Aggregated
      <4>2. Occupied(after.pool, i, side) = Occupied(pool1, i, side) \cup {idx}
        BY <1>4, <1>5, <1>7 DEF Occupied
      <4> QED
        BY <1>10, <4>1, <4>2
    <3>3. ASSUME NEW x \in bits2[side] PROVE x \in Nat
      BY <1>3, <1>7, <3>2, <3>3, IndexFacts
    <3>4. IsBest(side, book.bitmap[side], book.best[side])
      BY DEF Aggregated
    <3> DEFINE bits == book.bitmap[side]
               best == book.best[side]
    <3>5. has_best(book, side) <=> bits # {}
      <4>1. bits # {} => best \in Nat
        BY <1>3, <3>4, IndexFacts DEF IsBest
      <4>2. bits = {} => best = -1
        BY <3>4 DEF IsBest
      <4> QED
        BY <4>1, <4>2 DEF has_best
    <3> HIDE DEF bits2, best2
    <3>6. CASE bits = {}
      <4>1. best2[side] = idx /\ bits2[side] = {idx} /\ idx \in Nat
        BY <1>7, <3>1, <3>2, <3>5, <3>6, IndexFacts
      <4> QED
        BY <2>2, <4>1 DEF IsBest, Better
    <3>7. CASE bits # {}
      <4>1. best \in bits /\ \A x \in bits : ~Better(side, x, best)
        BY <3>4, <3>7 DEF IsBest
      <4>2. \A x \in bits : x \in Nat
        BY <3>2, <3>3
      <4>3. idx \in Nat
        BY <3>2, <3>3
      <4>4. best2[side] = IF Better(side, idx, best) THEN idx ELSE best
        BY <3>1, <3>5, <3>7
      <4>5. bits2[side] = bits \cup {idx}
        BY <3>2
      <4> HIDE DEF bits, best
      <4>6. best2[side] \in bits2[side] /\ \A x \in bits2[side] : ~Better(side, x, best2[side])
        BY <4>1, <4>2, <4>3, <4>4, <4>5 DEF Better
      <4> QED
        BY <2>2, <4>6 DEF IsBest
    <3> QED
      BY <3>6, <3>7
  <2>3. CASE sd # side
    <3>1. bits2[sd] = book.bitmap[sd] /\ best2[sd] = book.best[sd]
      BY <1>2, <1>3, <2>3
    <3> QED
      BY <2>1, <3>1
  <2> QED
    BY <2>2, <2>3
<1> QED
  BY <1>9, <1>10, <1>11 DEF Aggregated, after

(***************************************************************************)
(* remove_resting: a level that empties loses its bit, and when it was the *)
(* best one the next occupied level takes its place.                       *)
(***************************************************************************)
LEMMA RemoveRestingAggregated ==
  ASSUME NEW i \in Instruments, NEW pool1 \in [Slots -> OrderRecord], NEW book \in Book(i),
         NEW slot \in Slots, pool1[slot].level_index \in Index(i),
         pool1[slot].is_open, pool1[slot].instrument_id = i,
         Aggregated(pool1, book, i)
  PROVE  LET after == remove_resting(pool1, book, slot)
         IN Aggregated(after.pool, after.book, i)
<1> DEFINE rec   == pool1[slot]
           side  == rec.side
           idx   == rec.level_index
           lvl   == book.levels[side][idx]
           after == remove_resting(pool1, book, slot)
           count == lvl.order_count - 1
           queue == Queue(pool1, i, side, idx)
           left  == IF count = 0 THEN book.bitmap[side] \ {idx} ELSE book.bitmap[side]
           bits2 == after.book.bitmap
           best2 == after.book.best
<1>1. RemoveRestingEffect(pool1, book, i, slot, after)
  BY RemoveRestingFields
<1>2. idx \in Index(i) /\ side \in Side
  <2>1. rec \in OrderRecord
    OBVIOUS
  <2> QED
    BY <2>1 DEF OrderRecord
<1>3. /\ bits2 = [book.bitmap EXCEPT ![side] = left]
      /\ best2 = [book.best EXCEPT ![side] = BestAfter(book, left, side, idx, count)]
      /\ after.book.levels[side][idx].order_count = count
  <2>1. book.levels \in [Side -> [Index(i) -> Level]]
    BY DEF Book
  <2> QED
    BY <1>2, <2>1 DEF remove_resting
<1>4. /\ book.bitmap \in [Side -> SUBSET Index(i)]
      /\ book.best \in [Side -> Index(i) \cup {-1}]
  BY DEF Book
<1>5. Queue(after.pool, i, side, idx) = queue \ {slot} /\ slot \in queue
  <2> HIDE DEF after
  <2>1. slot \in queue
    BY DEF Queue
  <2>2. slot \notin Queue(after.pool, i, side, idx)
    BY <1>1 DEF RemoveRestingEffect, Queue
  <2>3. ASSUME NEW s \in Slots \ {slot}
        PROVE  s \in Queue(after.pool, i, side, idx) <=> s \in queue
    BY <1>1 DEF RemoveRestingEffect, Queue
  <2>4. queue \subseteq Slots /\ Queue(after.pool, i, side, idx) \subseteq Slots
    BY DEF Queue
  <2> HIDE DEF queue
  <2> QED
    BY <2>1, <2>2, <2>3, <2>4
<1>6. ASSUME NEW sd \in Side, NEW x \in Index(i), ~(sd = side /\ x = idx)
      PROVE  Queue(after.pool, i, sd, x) = Queue(pool1, i, sd, x)
  <2> HIDE DEF after
  <2>1. ASSUME NEW s \in Slots
        PROVE  s \in Queue(after.pool, i, sd, x) <=> s \in Queue(pool1, i, sd, x)
    <3>1. CASE s = slot
      BY <1>1, <1>6, <3>1 DEF RemoveRestingEffect, Queue
    <3>2. CASE s # slot
      BY <1>1, <3>2 DEF RemoveRestingEffect, Queue
    <3> QED
      BY <3>1, <3>2
  <2> QED
    BY <2>1 DEF Queue
<1>7. lvl.order_count = Cardinality(queue) /\ Cardinality(queue) \in Nat
  BY <1>2, QueueFinite DEF Aggregated, Counted
<1>8. Cardinality(queue \ {slot}) = count
  <2>1. IsFiniteSet(queue)
    BY QueueFinite
  <2> HIDE DEF queue
  <2> QED
    BY <1>5, <1>7, <2>1, FS_RemoveElement
<1>9. count = 0 <=> queue \ {slot} = {}
  BY <1>5, <1>8, QueueFinite
<1>10. \A sd \in Side : \A x \in Index(i) :
         ~(sd = side /\ x = idx) => after.book.levels[sd][x] = book.levels[sd][x]
  BY <1>1 DEF RemoveRestingEffect
<1> HIDE DEF after, count, queue, lvl, idx, side
<1>11. ASSUME NEW sd \in Side PROVE Counted(after.pool, after.book, i, sd)
  <2>1. Counted(pool1, book, i, sd)
    BY DEF Aggregated
  <2>2. ASSUME NEW x \in Index(i)
        PROVE  after.book.levels[sd][x].order_count = Cardinality(Queue(after.pool, i, sd, x))
    <3>1. CASE sd = side /\ x = idx
      BY <1>3, <1>5, <1>8, <3>1
    <3>2. CASE ~(sd = side /\ x = idx)
      BY <1>6, <1>10, <2>1, <3>2 DEF Counted
    <3> QED
      BY <3>1, <3>2
  <2> QED
    BY <2>2 DEF Counted
<1>12. Occupied(after.pool, i, side) = left /\ book.bitmap[side] = Occupied(pool1, i, side)
  <2>1. book.bitmap[side] = Occupied(pool1, i, side)
    BY <1>2 DEF Aggregated
  <2>2. idx \in Occupied(pool1, i, side)
    BY <1>2, <1>5 DEF Occupied, queue
  <2>3. CASE count = 0
    <3>1. Occupied(after.pool, i, side) = Occupied(pool1, i, side) \ {idx}
      BY <1>2, <1>5, <1>6, <1>9, <2>3 DEF Occupied
    <3> QED
      BY <2>1, <2>3, <3>1
  <2>4. CASE count # 0
    <3>1. Occupied(after.pool, i, side) = Occupied(pool1, i, side)
      BY <1>2, <1>5, <1>6, <1>9, <2>2, <2>4 DEF Occupied
    <3> QED
      BY <2>1, <2>4, <3>1
  <2> QED
    BY <2>1, <2>3, <2>4
<1>13. ASSUME NEW sd \in Side PROVE bits2[sd] = Occupied(after.pool, i, sd)
  <2>1. CASE sd = side
    BY <1>3, <1>4, <1>12, <2>1
  <2>2. CASE sd # side
    <3>1. bits2[sd] = book.bitmap[sd] /\ book.bitmap[sd] = Occupied(pool1, i, sd)
      BY <1>3, <1>4, <2>2 DEF Aggregated
    <3>2. Occupied(after.pool, i, sd) = Occupied(pool1, i, sd)
      BY <1>6, <2>2 DEF Occupied
    <3> QED
      BY <3>1, <3>2
  <2> QED
    BY <2>1, <2>2
<1>14. ASSUME NEW sd \in Side PROVE IsBest(sd, bits2[sd], best2[sd])
  <2>1. IsBest(sd, book.bitmap[sd], book.best[sd])
    BY DEF Aggregated
  <2>2. CASE sd = side
    <3> DEFINE bits == book.bitmap[side]
               best == book.best[side]
    <3>1. idx \in bits /\ bits \in SUBSET Index(i) /\ bits \subseteq Nat
      BY <1>2, <1>4, <1>5, <1>12, IndexFacts DEF Occupied, queue
    <3>2. best \in bits /\ \A x \in bits : ~Better(side, x, best)
      BY <2>1, <2>2, <3>1 DEF IsBest
    <3>3. bits2[side] = left /\ best2[side] = BestAfter(book, left, side, idx, count)
      BY <1>2, <1>3, <1>4
    <3>4. CASE count = 0 /\ best = idx
      <4>1. left = bits \ {idx} /\ best2[side] = next_index(left, side, idx)
        BY <3>3, <3>4 DEF BestAfter
      <4>2. left \in SUBSET Index(i) /\ idx \notin left /\ \A b \in left : ~Better(side, b, idx)
        BY <3>1, <3>2, <3>4, <4>1
      <4> HIDE DEF left, bits2, best2
      <4>3. \/ next_index(left, side, idx) = -1 /\ left = {}
            \/ /\ next_index(left, side, idx) \in left
               /\ \A b \in left : ~Better(side, b, next_index(left, side, idx))
        BY <1>2, <4>2, NextIndex
      <4> QED
        BY <2>2, <3>3, <4>1, <4>3 DEF IsBest
    <3>5. CASE ~(count = 0 /\ best = idx)
      <4>1. best2[side] = best
        BY <3>3, <3>5 DEF BestAfter
      <4>2. best \in left /\ \A x \in left : ~Better(side, x, best)
        BY <3>2, <3>5
      <4> QED
        BY <2>2, <3>3, <4>1, <4>2 DEF IsBest
    <3> QED
      BY <3>4, <3>5
  <2>3. CASE sd # side
    BY <1>3, <1>4, <2>1, <2>3
  <2> QED
    BY <2>2, <2>3
<1> QED
  BY <1>11, <1>13, <1>14 DEF Aggregated, after

(***************************************************************************)
(* replace_in_place: one order for another on the same level.              *)
(***************************************************************************)
LEMMA ReplaceInPlaceAggregated ==
  ASSUME NEW i \in Instruments, NEW pool1 \in [Slots -> OrderRecord], NEW book \in Book(i),
         NEW old_slot \in Slots, NEW new_slot \in Slots,
         pool1[old_slot].level_index \in Index(i),
         pool1[old_slot].is_open, pool1[old_slot].instrument_id = i,
         ~pool1[new_slot].is_open, pool1[new_slot].instrument_id = i,
         Aggregated(pool1, book, i)
  PROVE  LET after == replace_in_place(pool1, book, old_slot, new_slot)
         IN Aggregated(after.pool, after.book, i)
<1> DEFINE old   == pool1[old_slot]
           side  == old.side
           idx   == old.level_index
           lvl   == book.levels[side][idx]
           after == replace_in_place(pool1, book, old_slot, new_slot)
           queue == Queue(pool1, i, side, idx)
           queue2 == Queue(after.pool, i, side, idx)
<1>1. ReplaceInPlaceEffect(pool1, book, i, old_slot, new_slot, after)
  BY ReplaceInPlaceFields
<1>2. idx \in Index(i) /\ side \in Side
  <2>1. old \in OrderRecord
    OBVIOUS
  <2> QED
    BY <2>1 DEF OrderRecord
<1>3. /\ after.book.bitmap = book.bitmap /\ after.book.best = book.best
      /\ after.book.levels[side][idx].order_count = lvl.order_count
  <2>1. /\ book.levels \in [Side -> [Index(i) -> Level]]
        /\ book = [levels |-> book.levels, bitmap |-> book.bitmap, best |-> book.best]
    BY DEF Book
  <2> QED
    BY <1>2, <2>1 DEF replace_in_place
<1> HIDE DEF after, lvl
<1>4. old_slot \in queue /\ new_slot \notin queue /\ queue2 = (queue \ {old_slot}) \cup {new_slot}
  <2>1. old_slot \in queue /\ new_slot \notin queue
    BY DEF Queue
  <2>2. ASSUME NEW s \in Slots
        PROVE  s \in queue2 <=> s \in (queue \ {old_slot}) \cup {new_slot}
    <3>1. CASE s \in {old_slot, new_slot}
      <4>1. old_slot \notin queue2
        BY <1>1 DEF ReplaceInPlaceEffect, Queue
      <4>2. new_slot \in queue2
        <5>1. after.pool[new_slot].instrument_id = i
          BY <1>1 DEF ReplaceInPlaceEffect
        <5> QED
          BY <1>1, <5>1 DEF ReplaceInPlaceEffect, Queue
      <4> QED
        BY <2>1, <3>1, <4>1, <4>2
    <3>2. CASE s \notin {old_slot, new_slot}
      BY <1>1, <3>2 DEF ReplaceInPlaceEffect, Queue
    <3> QED
      BY <3>1, <3>2
  <2>3. queue \subseteq Slots /\ queue2 \subseteq Slots
    BY DEF Queue
  <2> HIDE DEF queue, queue2
  <2> QED
    BY <2>1, <2>2, <2>3
<1>5. ASSUME NEW sd \in Side, NEW x \in Index(i), ~(sd = side /\ x = idx)
      PROVE  Queue(after.pool, i, sd, x) = Queue(pool1, i, sd, x)
  <2>1. ASSUME NEW s \in Slots
        PROVE  s \in Queue(after.pool, i, sd, x) <=> s \in Queue(pool1, i, sd, x)
    <3>1. CASE s \in {old_slot, new_slot}
      <4>1. old_slot \notin Queue(after.pool, i, sd, x)
        BY <1>1 DEF ReplaceInPlaceEffect, Queue
      <4>2. old_slot \notin Queue(pool1, i, sd, x) /\ new_slot \notin Queue(pool1, i, sd, x)
        BY <1>5 DEF Queue
      <4>3. /\ after.pool[new_slot].side = side
            /\ after.pool[new_slot].level_index = idx
        BY <1>1 DEF ReplaceInPlaceEffect
      <4>4. new_slot \notin Queue(after.pool, i, sd, x)
        BY <1>5, <4>3 DEF Queue
      <4> QED
        BY <3>1, <4>1, <4>2, <4>4
    <3>2. CASE s \notin {old_slot, new_slot}
      BY <1>1, <3>2 DEF ReplaceInPlaceEffect, Queue
    <3> QED
      BY <3>1, <3>2
  <2> QED
    BY <2>1 DEF Queue
<1>6. Cardinality(queue2) = Cardinality(queue)
  <2> HIDE DEF queue, queue2
  <2>1. IsFiniteSet(queue) /\ Cardinality(queue) \in Nat
    BY QueueFinite DEF queue
  <2>2. /\ IsFiniteSet(queue \ {old_slot})
        /\ Cardinality(queue \ {old_slot}) = Cardinality(queue) - 1
    BY <1>4, <2>1, FS_RemoveElement
  <2>3. Cardinality(queue2) = (Cardinality(queue) - 1) + 1
    BY <1>4, <2>2, FS_AddElement
  <2> QED
    BY <2>1, <2>3
<1>7. queue # {} /\ queue2 # {}
  BY <1>4
<1> HIDE DEF queue, queue2
<1>8. ASSUME NEW sd \in Side PROVE Occupied(after.pool, i, sd) = Occupied(pool1, i, sd)
  BY <1>5, <1>7 DEF Occupied, queue, queue2
<1>9. \A sd \in Side : \A x \in Index(i) :
         ~(sd = side /\ x = idx) => after.book.levels[sd][x] = book.levels[sd][x]
  BY <1>1 DEF ReplaceInPlaceEffect
<1>10. ASSUME NEW sd \in Side PROVE Counted(after.pool, after.book, i, sd)
  <2>1. Counted(pool1, book, i, sd)
    BY DEF Aggregated
  <2> QED
    BY ZenonT(40), <1>3, <1>5, <1>6, <1>9, <2>1 DEF Counted, queue, queue2, lvl
<1> QED
  BY <1>3, <1>8, <1>10 DEF Aggregated, after

\* An empty book of an instrument without orders.
LEMMA EmptyAggregated ==
  ASSUME NEW i \in Instruments, NEW pool1, \A s \in Slots : ~pool1[s].is_open
  PROVE  Aggregated(pool1, EmptyBook(i), i)
<1>1. \A side \in Side : \A x \in Index(i) : Queue(pool1, i, side, x) = {}
  BY DEF Queue
<1>2. \A side \in Side :
        /\ EmptyBook(i).bitmap[side] = {} /\ EmptyBook(i).best[side] = -1
        /\ \A x \in Index(i) : EmptyBook(i).levels[side][x].order_count = 0
  BY DEF EmptyBook, EmptyLevel
<1> QED
  BY <1>1, <1>2, FS_EmptySet DEF Aggregated, Counted, Occupied, IsBest

-----------------------------------------------------------------------------
(***************************************************************************)
(* What each action does to the resting orders, and that it keeps the      *)
(* aggregates right.                                                       *)
(***************************************************************************)
BooksAggregated == \A i \in Instruments : Aggregated(pool, books[i], i)

\* Order `slot` leaves the book; the others stay where they are.
OneLeaves(pool_before, pool_after, slot) ==
  /\ ~pool_after[slot].is_open
  /\ \A s \in Slots \ {slot} :
       /\ pool_after[s].is_open <=> pool_before[s].is_open
       /\ pool_before[s].is_open =>
            /\ pool_after[s].instrument_id = pool_before[s].instrument_id
            /\ pool_after[s].side = pool_before[s].side
            /\ pool_after[s].price = pool_before[s].price
            /\ pool_after[s].level_index = pool_before[s].level_index

\* Only one book changes.
LEMMA OneAggregated ==
  ASSUME IInv, NEW i \in Instruments, NEW book,
         books' = [books EXCEPT ![i] = book],
         BooksAggregated, Aggregated(pool', book, i),
         \A j \in Instruments \ {i} : SameForBook(pool, pool', arrival, arrival, j)
  PROVE  BooksAggregated'
<1>1. DOMAIN books = Instruments
  BY DEF IInv, TypeOK
<1>2. ASSUME NEW j \in Instruments PROVE Aggregated(pool', books'[j], j)
  <2>1. CASE j = i
    BY <1>1, <2>1
  <2>2. CASE j # i
    <3>1. books'[j] = books[j] /\ Aggregated(pool, books[j], j)
      BY <1>1, <2>2 DEF BooksAggregated
    <3> QED
      BY <2>2, <3>1, OtherAggregated
  <2> QED
    BY <2>1, <2>2
<1> QED
  BY <1>2 DEF BooksAggregated

\* The steps after which the same orders rest in the same books.
LEMMA SameOrdersStep ==
  ASSUME IInv, SameOrders(pool, pool'), UNCHANGED books, BooksAggregated
  PROVE  BooksAggregated'
<1>1. ASSUME NEW i \in Instruments PROVE Aggregated(pool', books'[i], i)
  <2>1. Aggregated(pool, books[i], i) /\ SameAggregates(i, books[i], books'[i])
    BY DEF BooksAggregated, SameAggregates
  <2> QED
    BY <2>1, AggregatedFrame
<1> QED
  BY <1>1 DEF BooksAggregated

\* A step that leaves the pool alone leaves every order where it is.
LEMMA SamePool == ASSUME UNCHANGED pool PROVE SameOrders(pool, pool')
BY DEF SameOrders

\* A fresh slot holds no resting order.
LEMMA FreshSlotQuiet ==
  ASSUME IInv, NEW rec, FillsFreshSlot(rec, pool')
  PROVE  SameOrders(pool, pool')
<1> DEFINE pool2 == [pool EXCEPT ![pool_size] = rec]
<1>1. FillsFreshSlot(rec, pool2) /\ pool' = pool2
  BY DEF FillsFreshSlot
<1> HIDE DEF pool2
<1>2. /\ pool_size \in Slots /\ ~pool[pool_size].is_open /\ pool2[pool_size] = rec
      /\ \A s \in Slots \ {pool_size} : pool2[s] = pool[s]
  BY <1>1, FreshSlot
<1> QED
  BY <1>1, <1>2 DEF FillsFreshSlot, SameOrders

\* Steps by which no order comes to rest or leaves.
LEMMA QuietStep ==
  ASSUME IInv,
         \/ StartMatching \/ PickLevel \/ MatchingDone \/ LeaveLevel \/ FullyFilled
         \/ AfterReplaced \/ ListenerThrows \/ Trade \/ UNCHANGED vars
         \/ pc # "idle" /\ DropRemainder
         \/ \E id \in OrderIds, o \in Orders :
              Submit(id, o) \/ SubmitRefused(id, o) \/ SubmitOutOfMemory(id, o)
         \/ \E id, new_id \in OrderIds, p \in ReplacePrices, q \in ReplaceQtys :
              ReplaceOutOfMemory(id, new_id, p, q)
  PROVE  SameOrders(pool, pool') /\ UNCHANGED books
<1>1. CASE \/ StartMatching \/ PickLevel \/ MatchingDone \/ LeaveLevel \/ FullyFilled
           \/ AfterReplaced \/ ListenerThrows \/ Trade \/ UNCHANGED vars
  BY <1>1, SamePool DEF StartMatching, PickLevel, MatchingDone, LeaveLevel, FullyFilled,
                        AfterReplaced, ListenerThrows, Trade, vars
<1>2. CASE pc # "idle" /\ DropRemainder
  <2>1. pool' = [pool EXCEPT ![call.slot].open_qty = 0] /\ UNCHANGED books
    BY <1>2 DEF DropRemainder
  <2>2. call.slot \in Slots /\ pool \in [Slots -> OrderRecord]
    BY <1>2, AggressorFacts, StateFacts DEF AggressorInOrder
  <2>3. ASSUME NEW s \in Slots
        PROVE  /\ pool'[s].is_open = pool[s].is_open
               /\ pool'[s].instrument_id = pool[s].instrument_id
               /\ pool'[s].side = pool[s].side
               /\ pool'[s].price = pool[s].price
               /\ pool'[s].level_index = pool[s].level_index
    <3>1. pool[s] \in OrderRecord
      BY <2>2
    <3>2. pool'[s] = IF s = call.slot THEN [pool[s] EXCEPT !.open_qty = 0] ELSE pool[s]
      BY <2>1, <2>2
    <3> QED
      BY <3>1, <3>2 DEF OrderRecord
  <2> QED
    BY <2>1, <2>3 DEF SameOrders
<1>3. ASSUME NEW id \in OrderIds, NEW o \in Orders,
             Submit(id, o) \/ SubmitRefused(id, o) \/ SubmitOutOfMemory(id, o)
      PROVE  SameOrders(pool, pool') /\ UNCHANGED books
  <2>1. o.instrument_id \in Instruments /\ o.side \in Side /\ o.quantity \in Quantity
    BY InputAssumption DEF NewOrder
  <2> DEFINE refused   == RefusedRec(id, o.instrument_id, o.side)
             submitted == SubmittedRec(id, o.instrument_id, o.side, o.quantity)
  <2>2. /\ refused \in OrderRecord /\ ~refused.is_open
        /\ submitted \in OrderRecord /\ ~submitted.is_open
    BY <2>1, FreshRecords
  <2>3. CASE Submit(id, o)
    <3>1. FillsFreshSlot(submitted, pool') /\ UNCHANGED books
      BY <2>2, <2>3 DEF Submit, FillsFreshSlot, SubmittedRec
    <3> QED
      BY <3>1, FreshSlotQuiet
  <2>4. CASE SubmitRefused(id, o) \/ SubmitOutOfMemory(id, o)
    <3>1. FillsFreshSlot(refused, pool') /\ UNCHANGED books
      BY <2>2, <2>4 DEF SubmitRefused, SubmitOutOfMemory, FillsFreshSlot, RefusedRec
    <3> QED
      BY <3>1, FreshSlotQuiet
  <2> QED
    BY <1>3, <2>3, <2>4
<1>4. ASSUME NEW id \in OrderIds, NEW new_id \in OrderIds, NEW p \in ReplacePrices,
             NEW q \in ReplaceQtys, ReplaceOutOfMemory(id, new_id, p, q)
      PROVE  SameOrders(pool, pool') /\ UNCHANGED books
  <2> DEFINE old == pool[order_index[id]]
             rec == ReplacedRec(new_id, old.instrument_id, old.side, p, NewOpen(id, q),
                                old.filled_qty)
  <2>1. ReplaceAllowed(id, new_id, p, q) /\ pool' = WithReplacement(id, new_id, p, q)
        /\ UNCHANGED books
    BY <1>4 DEF ReplaceOutOfMemory
  <2>2. FillsFreshSlot(rec, pool')
    BY <2>1, ReplaceFacts DEF FillsFreshSlot
  <2> HIDE DEF rec
  <2> QED
    BY <2>1, <2>2, FreshSlotQuiet
<1> QED
  BY <1>1, <1>2, <1>3, <1>4

\* remove_resting on book i, after changes that no aggregate depends on.
LEMMA Departure ==
  ASSUME IInv, NEW i \in Instruments, NEW slot \in Slots,
         NEW pool2 \in [Slots -> OrderRecord], NEW book2 \in Book(i),
         SameOrders(pool, pool2), SameAggregates(i, books[i], book2),
         pool[slot].is_open, pool[slot].instrument_id = i,
         pool' = remove_resting(pool2, book2, slot).pool,
         books' = [books EXCEPT ![i] = remove_resting(pool2, book2, slot).book]
  PROVE  OneLeaves(pool, pool', slot) /\ (BooksAggregated => BooksAggregated')
<1> DEFINE after == remove_resting(pool2, book2, slot)
<1>1. BookFits(pool, books[i], i, arrival)
  BY DEF IInv, BooksFit
<1>2. /\ pool2[slot].is_open /\ pool2[slot].instrument_id = i
      /\ pool2[slot].level_index \in Index(i)
  BY <1>1 DEF BookFits, OnTheirLevels, SameOrders
<1>3. RemoveRestingEffect(pool2, book2, i, slot, after)
  BY <1>2, RemoveRestingFields
<1>4. pool' = after.pool /\ books' = [books EXCEPT ![i] = after.book]
  OBVIOUS
<1> HIDE DEF after
<1>5. OneLeaves(pool2, after.pool, slot)
  BY <1>3 DEF RemoveRestingEffect, OneLeaves
<1>6. OneLeaves(pool, pool', slot)
  BY <1>4, <1>5 DEF OneLeaves, SameOrders
<1>7. ASSUME BooksAggregated PROVE BooksAggregated'
  <2>1. Aggregated(pool, books[i], i)
    BY <1>7 DEF BooksAggregated
  <2>2. Aggregated(pool2, book2, i)
    BY <2>1, AggregatedFrame
  <2>3. Aggregated(after.pool, after.book, i)
    BY <1>2, <2>2, RemoveRestingAggregated DEF after
  <2>4. DOMAIN books = Instruments
    BY DEF IInv, TypeOK
  <2>5. ASSUME NEW j \in Instruments \ {i} PROVE Aggregated(pool', books'[j], j)
    <3>1. books'[j] = books[j] /\ Aggregated(pool, books[j], j)
      BY <1>4, <1>7, <2>4 DEF BooksAggregated
    <3>2. \A side \in Side : \A x \in Index(j) :
            Queue(pool', j, side, x) = Queue(pool, j, side, x)
      BY <1>6 DEF OneLeaves, Queue
    <3> QED
      BY <3>1, <3>2 DEF Aggregated, Counted, Occupied
  <2> QED
    BY <1>4, <2>3, <2>4, <2>5 DEF BooksAggregated
<1> QED
  BY <1>6, <1>7

\* A cancel, from between calls or from a callback.
LEMMA WithdrawLeaves ==
  ASSUME IInv, NEW id \in OrderIds, IsOpen(id), Withdraw(id)
  PROVE  /\ order_index[id] \in Slots /\ pool[order_index[id]].is_open
         /\ OneLeaves(pool, pool', order_index[id])
         /\ BooksAggregated => BooksAggregated'
<1> DEFINE slot == order_index[id]
           i    == pool[slot].instrument_id
<1>1. slot \in Slots /\ pool[slot].is_open
  BY DEF IInv, TypeOK, IsOpen, contains, Link
<1>2. i \in Instruments /\ pool \in [Slots -> OrderRecord] /\ books[i] \in Book(i)
  BY <1>1, StateFacts
<1>3. SameOrders(pool, pool) /\ SameAggregates(i, books[i], books[i])
  BY DEF SameOrders, SameAggregates
<1>4. /\ pool' = remove_resting(pool, books[i], slot).pool
      /\ books' = [books EXCEPT ![i] = remove_resting(pool, books[i], slot).book]
  BY DEF Withdraw
<1>5. pool[slot].instrument_id = i
  OBVIOUS
<1> HIDE DEF i, slot
<1>6. OneLeaves(pool, pool', slot) /\ (BooksAggregated => BooksAggregated')
  BY <1>1, <1>2, <1>3, <1>4, <1>5, Departure
<1> QED
  BY <1>1, <1>6 DEF slot

\* An execution: the resting order stays, or leaves when it is used up.
LEMMA ApplyTradeLeaves ==
  ASSUME IInv, ApplyTrade
  PROVE  /\ SameOrders(pool, pool') \/ OneLeaves(pool, pool', call.resting)
         /\ BooksAggregated => BooksAggregated'
<1> DEFINE opp    == Opposite(call.side)
           filled == [pool EXCEPT ![call.slot] = Filled(@, call.fill),
                                  ![call.resting] = Filled(@, call.fill)]
           book   == BookFill(books[Instr], opp, call.idx, call.fill)
           after  == IF filled[call.resting].open_qty = 0
                     THEN remove_resting(filled, book, call.resting)
                     ELSE [pool |-> filled, book |-> book]
<1>1. /\ pc = "on_trade" /\ pool' = after.pool
      /\ books' = [books EXCEPT ![Instr] = after.book]
  BY DEF ApplyTrade
<1>2. /\ AggressorInOrder /\ TradeInOrder /\ Instr \in Instruments /\ call.fill \in Quantity
      /\ opp \in Side /\ call.idx \in Index(Instr)
  BY <1>1, AggressorFacts DEF IInv, CallInOrder
<1>3. /\ call.resting \in Slots /\ pool[call.resting].is_open
      /\ pool[call.resting].instrument_id = Instr
  BY <1>2 DEF TradeInOrder, Queue
<1>4. filled \in [Slots -> OrderRecord] /\ SameOrders(pool, filled)
  <2>1. /\ filled \in [Slots -> OrderRecord]
        /\ \A s \in Slots :
             /\ filled[s].instrument_id = pool[s].instrument_id
             /\ filled[s].side = pool[s].side
             /\ filled[s].price = pool[s].price
             /\ filled[s].level_index = pool[s].level_index
             /\ filled[s].is_open = pool[s].is_open
    BY <1>1, FilledPool
  <2> HIDE DEF filled
  <2> QED
    BY <2>1 DEF SameOrders
<1>5. book \in Book(Instr) /\ SameAggregates(Instr, books[Instr], book)
  <2>1. books[Instr] \in Book(Instr)
    BY <1>2, StateFacts
  <2>2. book \in Book(Instr)
    BY <1>2, <2>1, FilledBook
  <2>3. SameAggregates(Instr, books[Instr], book)
    <3>1. books[Instr].levels \in [Side -> [Index(Instr) -> Level]]
      BY <2>1 DEF Book
    <3> DEFINE lvl == books[Instr].levels[opp][call.idx]
               nl  == [lvl EXCEPT !.total_qty = Minus(lvl.total_qty, call.fill)]
    <3>2. lvl \in Level /\ nl.order_count = lvl.order_count
      BY <1>2, <3>1 DEF Level
    <3>3. book = [books[Instr] EXCEPT !.levels[opp][call.idx] = nl]
      BY DEF BookFill
    <3> HIDE DEF nl, book
    <3>4. /\ book.bitmap = books[Instr].bitmap /\ book.best = books[Instr].best
          /\ book.levels = [books[Instr].levels EXCEPT ![opp][call.idx] = nl]
      BY <2>1, <3>3 DEF Book
    <3> QED
      BY <1>2, <3>1, <3>2, <3>4 DEF SameAggregates
  <2> QED
    BY <2>2, <2>3
<1> HIDE DEF filled, book
<1>6. CASE filled[call.resting].open_qty = 0
  <2>1. /\ pool' = remove_resting(filled, book, call.resting).pool
        /\ books' = [books EXCEPT ![Instr] = remove_resting(filled, book, call.resting).book]
    BY <1>1, <1>6
  <2> QED
    BY <1>2, <1>3, <1>4, <1>5, <2>1, Departure
<1>7. CASE filled[call.resting].open_qty # 0
  <2>1. pool' = filled /\ books' = [books EXCEPT ![Instr] = book]
    BY <1>1, <1>7
  <2>2. ASSUME BooksAggregated PROVE BooksAggregated'
    <3>1. DOMAIN books = Instruments
      BY DEF IInv, TypeOK
    <3>2. ASSUME NEW j \in Instruments PROVE Aggregated(pool', books'[j], j)
      <4>1. SameAggregates(j, books[j], books'[j])
        BY <1>5, <2>1, <3>1 DEF SameAggregates
      <4> QED
        BY <1>4, <2>1, <2>2, <4>1, AggregatedFrame DEF BooksAggregated
    <3> QED
      BY <3>2 DEF BooksAggregated
  <2> QED
    BY <1>4, <2>1, <2>2
<1> QED
  BY <1>6, <1>7

\* A replace that loses its place.
LEMMA ReplaceLosingLeaves ==
  ASSUME IInv, NEW id \in OrderIds, NEW new_id \in OrderIds, NEW p \in ReplacePrices,
         NEW q \in ReplaceQtys, ReplaceLosing(id, new_id, p, q)
  PROVE  /\ order_index[id] \in Slots /\ pool[order_index[id]].is_open
         /\ OneLeaves(pool, pool', order_index[id])
         /\ BooksAggregated => BooksAggregated'
<1> DEFINE slot  == order_index[id]
           i     == pool[slot].instrument_id
           rec   == ReplacedRec(new_id, i, pool[slot].side, p, NewOpen(id, q),
                                pool[slot].filled_qty)
           pool2 == WithReplacement(id, new_id, p, q)
<1>1. /\ ReplaceAllowed(id, new_id, p, q)
      /\ pool' = remove_resting(pool2, books[i], slot).pool
      /\ books' = [books EXCEPT ![i] = remove_resting(pool2, books[i], slot).book]
  BY DEF ReplaceLosing
<1>2. /\ slot \in Slots /\ pool[slot].is_open /\ i \in Instruments
      /\ pool_size < PoolCapacity
      /\ rec \in OrderRecord /\ ~rec.is_open
      /\ pool2 = [pool EXCEPT ![pool_size] = rec]
  BY <1>1, ReplaceFacts
<1>3. pool[slot].instrument_id = i
  OBVIOUS
<1> HIDE DEF rec, pool2, i, slot
<1>4. /\ pool_size \in Slots /\ ~pool[pool_size].is_open
      /\ pool2 \in [Slots -> OrderRecord] /\ pool2[pool_size] = rec
      /\ \A s \in Slots \ {pool_size} : pool2[s] = pool[s]
  <2>1. FillsFreshSlot(rec, pool2)
    BY <1>2 DEF FillsFreshSlot
  <2> QED
    BY <2>1, FreshSlot
<1>5. SameOrders(pool, pool2)
  BY <1>2, <1>4 DEF SameOrders
<1>6. books[i] \in Book(i) /\ SameAggregates(i, books[i], books[i])
  BY <1>2, StateFacts DEF SameAggregates
<1>7. OneLeaves(pool, pool', slot) /\ (BooksAggregated => BooksAggregated')
  BY <1>1, <1>2, <1>3, <1>4, <1>5, <1>6, Departure
<1> QED
  BY <1>2, <1>7 DEF slot

\* Order `slot` comes to the book; the others stay where they are.
OneArrives(pool_before, pool_after, slot, i, side, price) ==
  /\ pool_after[slot].is_open
  /\ pool_after[slot].instrument_id = i
  /\ pool_after[slot].side = side
  /\ pool_after[slot].price = price
  /\ \A s \in Slots \ {slot} :
       pool_after[s].is_open =>
         /\ pool_before[s].is_open
         /\ pool_after[s].instrument_id = pool_before[s].instrument_id
         /\ pool_after[s].side = pool_before[s].side
         /\ pool_after[s].price = pool_before[s].price
         /\ pool_after[s].level_index = pool_before[s].level_index

\* The orders of instrument j rest where they did.
SameOrdersOf(pool_before, pool_after, j) ==
  \A s \in Slots :
    /\ pool_after[s].is_open /\ pool_after[s].instrument_id = j
         <=> pool_before[s].is_open /\ pool_before[s].instrument_id = j
    /\ pool_before[s].is_open /\ pool_before[s].instrument_id = j =>
         /\ pool_after[s].side = pool_before[s].side
         /\ pool_after[s].level_index = pool_before[s].level_index

\* A step on one book keeps the aggregates of all of them.
LEMMA OneBookAggregated ==
  ASSUME IInv, NEW i \in Instruments, NEW book,
         books' = [books EXCEPT ![i] = book],
         BooksAggregated, Aggregated(pool', book, i),
         \A j \in Instruments \ {i} : SameOrdersOf(pool, pool', j)
  PROVE  BooksAggregated'
<1>1. DOMAIN books = Instruments
  BY DEF IInv, TypeOK
<1>2. ASSUME NEW j \in Instruments \ {i} PROVE Aggregated(pool', books'[j], j)
  <2>1. books'[j] = books[j] /\ Aggregated(pool, books[j], j)
    BY <1>1 DEF BooksAggregated
  <2>2. \A side \in Side : \A x \in Index(j) :
          Queue(pool', j, side, x) = Queue(pool, j, side, x)
    BY DEF Queue, SameOrdersOf
  <2> QED
    BY <2>1, <2>2 DEF Aggregated, Counted, Occupied
<1> QED
  BY <1>1, <1>2 DEF BooksAggregated

\* What is left of a Day order comes to rest.
LEMMA RestRemainderArrives ==
  ASSUME IInv, RestRemainder
  PROVE  /\ OneArrives(pool, pool', call.slot, Instr, call.side, call.price)
         /\ BooksAggregated => BooksAggregated'
<1> DEFINE after == add_resting(pool, books[Instr], Instr, call.slot, call.side, call.price)
<1>1. /\ pc = "finish" /\ call.tif = "kDay"
      /\ pool' = after.pool /\ books' = [books EXCEPT ![Instr] = after.book]
      /\ UNCHANGED arrival
  BY DEF RestRemainder
<1>2. /\ AggressorInOrder /\ Instr \in Instruments
      /\ call.slot \in Slots /\ call.side \in Side /\ call.price \in Int
      /\ price_to_index(Instr, call.price) \in Index(Instr)
  BY <1>1, AggressorFacts DEF AggressorInOrder
<1>3. /\ pool \in [Slots -> OrderRecord] /\ books[Instr] \in Book(Instr)
      /\ pool[call.slot].instrument_id = Instr /\ ~pool[call.slot].is_open
  BY <1>2, StateFacts DEF AggressorInOrder, Agg, Instr
<1>4. AddRestingEffect(pool, books[Instr], Instr, call.slot, call.side, call.price, after)
  BY <1>2, <1>3, AddRestingFields
<1> HIDE DEF after
<1>5. /\ pool'[call.slot].is_open
      /\ pool'[call.slot].instrument_id = Instr
      /\ pool'[call.slot].side = call.side
      /\ pool'[call.slot].price = call.price
  <2>1. after.pool[call.slot].instrument_id = pool[call.slot].instrument_id
    BY <1>2, <1>4 DEF AddRestingEffect
  <2> QED
    BY <1>1, <1>3, <1>4, <2>1 DEF AddRestingEffect
<1>6. ASSUME NEW s \in Slots \ {call.slot}
      PROVE  /\ pool'[s].is_open = pool[s].is_open
             /\ pool'[s].instrument_id = pool[s].instrument_id
             /\ pool'[s].side = pool[s].side
             /\ pool'[s].price = pool[s].price
             /\ pool'[s].level_index = pool[s].level_index
  <2>1. after.pool[s].instrument_id = pool[s].instrument_id
    BY <1>4 DEF AddRestingEffect
  <2>2. /\ after.pool[s].is_open = pool[s].is_open
        /\ after.pool[s].side = pool[s].side
        /\ after.pool[s].price = pool[s].price
        /\ after.pool[s].level_index = pool[s].level_index
    BY <1>4 DEF AddRestingEffect
  <2> QED
    BY <1>1, <2>1, <2>2
<1>7. OneArrives(pool, pool', call.slot, Instr, call.side, call.price)
  BY <1>5, <1>6 DEF OneArrives
<1>8. ASSUME BooksAggregated PROVE BooksAggregated'
  <2>1. Aggregated(after.pool, after.book, Instr)
    BY <1>2, <1>3, <1>8, AddRestingAggregated DEF BooksAggregated, after
  <2>2. ASSUME NEW j \in Instruments \ {Instr} PROVE SameOrdersOf(pool, pool', j)
    <3>1. ASSUME NEW s \in Slots
          PROVE  /\ pool'[s].is_open /\ pool'[s].instrument_id = j
                      <=> pool[s].is_open /\ pool[s].instrument_id = j
                 /\ pool[s].is_open /\ pool[s].instrument_id = j =>
                      /\ pool'[s].side = pool[s].side
                      /\ pool'[s].level_index = pool[s].level_index
      <4>1. CASE s = call.slot
        BY <1>3, <1>5, <2>2, <4>1
      <4>2. CASE s # call.slot
        BY <1>6, <4>2
      <4> QED
        BY <4>1, <4>2
    <3> QED
      BY <3>1 DEF SameOrdersOf
  <2> QED
    BY <1>1, <1>2, <1>8, <2>1, <2>2, OneBookAggregated
<1> QED
  BY <1>7, <1>8

\* A replace that keeps its place.
LEMMA ReplaceKeepingArrives ==
  ASSUME IInv, NEW id \in OrderIds, NEW new_id \in OrderIds, NEW p \in ReplacePrices,
         NEW q \in ReplaceQtys, ReplaceKeeping(id, new_id, p, q)
  PROVE  LET slot == order_index[id]
             old  == pool[slot]
         IN /\ slot \in Slots /\ old.is_open /\ pool_size \in Slots
            /\ OneArrives(pool, pool', pool_size, old.instrument_id, old.side, old.price)
            /\ ~pool'[slot].is_open
            /\ BooksAggregated => BooksAggregated'
<1> DEFINE slot  == order_index[id]
           old   == pool[slot]
           i     == old.instrument_id
           rec   == ReplacedRec(new_id, i, old.side, p, NewOpen(id, q), old.filled_qty)
           pool2 == WithReplacement(id, new_id, p, q)
           after == replace_in_place(pool2, books[i], slot, pool_size)
<1>1. /\ ReplaceAllowed(id, new_id, p, q)
      /\ pool' = after.pool
      /\ books' = [books EXCEPT ![i] = after.book]
  BY DEF ReplaceKeeping
<1>2. /\ pool_size < PoolCapacity
      /\ slot \in Slots /\ old.is_open /\ i \in Instruments
      /\ rec \in OrderRecord /\ ~rec.is_open /\ rec.instrument_id = i
      /\ pool2 = [pool EXCEPT ![pool_size] = rec]
  BY <1>1, ReplaceFacts
<1> HIDE DEF rec, pool2, i, slot
<1>3. /\ pool_size \in Slots /\ ~pool[pool_size].is_open
      /\ pool2 \in [Slots -> OrderRecord] /\ pool2[pool_size] = rec
      /\ \A s \in Slots \ {pool_size} : pool2[s] = pool[s]
  <2>1. FillsFreshSlot(rec, pool2)
    BY <1>2 DEF FillsFreshSlot
  <2> QED
    BY <2>1, FreshSlot
<1>4. /\ slot # pool_size /\ pool2[slot] = old /\ old.instrument_id = i
  BY <1>2, <1>3 DEF i
<1>5. /\ books[i] \in Book(i) /\ BookFits(pool, books[i], i, arrival)
      /\ SameOrders(pool, pool2)
  BY <1>2, <1>3, StateFacts DEF IInv, BooksFit, SameOrders
<1>6. pool2[slot].level_index \in Index(i)
  BY <1>2, <1>4, <1>5 DEF BookFits, OnTheirLevels
<1>7. ReplaceInPlaceEffect(pool2, books[i], i, slot, pool_size, after)
  BY <1>2, <1>3, <1>4, <1>5, <1>6, ReplaceInPlaceFields
<1> HIDE DEF after
<1>8. /\ OneArrives(pool, pool', pool_size, i, old.side, old.price)
      /\ ~pool'[slot].is_open
      /\ \A s \in Slots \ {slot, pool_size} :
           /\ pool'[s].is_open = pool[s].is_open
           /\ pool'[s].instrument_id = pool[s].instrument_id
           /\ pool'[s].side = pool[s].side
           /\ pool'[s].level_index = pool[s].level_index
  <2>1. /\ pool'[pool_size].is_open
        /\ pool'[pool_size].instrument_id = i
        /\ pool'[pool_size].side = old.side
        /\ pool'[pool_size].price = old.price
        /\ ~pool'[slot].is_open
    BY ZenonT(40), <1>1, <1>2, <1>3, <1>4, <1>7 DEF ReplaceInPlaceEffect
  <2>2. ASSUME NEW s \in Slots \ {slot, pool_size}
        PROVE  /\ pool'[s].is_open = pool[s].is_open
               /\ pool'[s].instrument_id = pool[s].instrument_id
               /\ pool'[s].side = pool[s].side
               /\ pool'[s].price = pool[s].price
               /\ pool'[s].level_index = pool[s].level_index
    <3>1. pool2[s] = pool[s]
      BY <1>3
    <3>2. /\ after.pool[s].instrument_id = pool2[s].instrument_id
          /\ after.pool[s].side = pool2[s].side
          /\ after.pool[s].price = pool2[s].price
          /\ after.pool[s].level_index = pool2[s].level_index
          /\ after.pool[s].is_open = pool2[s].is_open
      BY <1>7 DEF ReplaceInPlaceEffect
    <3> QED
      BY <1>1, <3>1, <3>2
  <2>3. OneArrives(pool, pool', pool_size, i, old.side, old.price)
    BY <2>1, <2>2 DEF OneArrives
  <2> QED
    BY <2>1, <2>2, <2>3
<1>9. ASSUME BooksAggregated PROVE BooksAggregated'
  <2>1. SameAggregates(i, books[i], books[i])
    BY DEF SameAggregates
  <2>2. Aggregated(pool2, books[i], i)
    BY <1>2, <1>5, <1>9, <2>1, AggregatedFrame DEF BooksAggregated
  <2>3. /\ pool2[slot].is_open /\ pool2[slot].instrument_id = i
        /\ ~pool2[pool_size].is_open /\ pool2[pool_size].instrument_id = i
    BY <1>2, <1>3, <1>4
  <2>4. Aggregated(after.pool, after.book, i)
    BY <1>2, <1>3, <1>5, <1>6, <2>2, <2>3, ReplaceInPlaceAggregated DEF after
  <2>5. ASSUME NEW j \in Instruments \ {i} PROVE SameOrdersOf(pool, pool', j)
    <3>1. ASSUME NEW s \in Slots
          PROVE  /\ pool'[s].is_open /\ pool'[s].instrument_id = j
                      <=> pool[s].is_open /\ pool[s].instrument_id = j
                 /\ pool[s].is_open /\ pool[s].instrument_id = j =>
                      /\ pool'[s].side = pool[s].side
                      /\ pool'[s].level_index = pool[s].level_index
      <4>1. CASE s = slot
        BY <1>4, <1>8, <2>5, <4>1
      <4>2. CASE s = pool_size
        BY <1>3, <1>8, <2>5, <4>2 DEF OneArrives
      <4>3. CASE s \notin {slot, pool_size}
        BY <1>8, <4>3
      <4> QED
        BY <4>1, <4>2, <4>3
    <3> QED
      BY <3>1 DEF SameOrdersOf
  <2> QED
    BY <1>1, <1>2, <1>9, <2>4, <2>5, OneBookAggregated
<1> QED
  BY <1>2, <1>3, <1>4, <1>8, <1>9 DEF slot, i

-----------------------------------------------------------------------------
\* Every step keeps the aggregates right.
LEMMA InitAggregated == Init => BooksAggregated
<1> SUFFICES ASSUME Init PROVE BooksAggregated
  OBVIOUS
<1>1. \A s \in Slots : ~pool[s].is_open
  BY NewRecordFacts DEF Init
<1> QED
  BY <1>1, EmptyAggregated DEF Init, BooksAggregated

\* Every step, fault or not, keeps counts, bitmaps and best indices right.
LEMMA NextAggregated ==
  ASSUME IInv, BooksAggregated, [Next \/ Fault]_vars
  PROVE  BooksAggregated'
<1>1. ASSUME \/ StartMatching \/ PickLevel \/ MatchingDone \/ LeaveLevel \/ FullyFilled
             \/ AfterReplaced \/ ListenerThrows \/ Trade \/ UNCHANGED vars
             \/ pc # "idle" /\ DropRemainder
             \/ \E id \in OrderIds, o \in Orders :
                  Submit(id, o) \/ SubmitRefused(id, o) \/ SubmitOutOfMemory(id, o)
             \/ \E id, new_id \in OrderIds, p \in ReplacePrices, q \in ReplaceQtys :
                  ReplaceOutOfMemory(id, new_id, p, q)
      PROVE  BooksAggregated'
  <2>1. SameOrders(pool, pool') /\ UNCHANGED books
    BY <1>1, QuietStep
  <2> QED
    BY <2>1, SameOrdersStep
<1>2. ASSUME NEW ids \in ConfigureCalls, Configure(ids) PROVE BooksAggregated'
  <2>1. /\ instrument_index = {} /\ UNCHANGED pool
        /\ books' = [i \in Instruments |-> EmptyBook(i)]
    BY <1>2 DEF Configure, configured
  <2>2. \A s \in Slots : ~pool[s].is_open
    BY <2>1 DEF IInv, SlotsInOrder
  <2> QED
    BY <2>1, <2>2, EmptyAggregated DEF BooksAggregated
<1>3. ASSUME NEW id \in OrderIds, Cancel(id) \/ CancelFromCallback(id)
      PROVE  BooksAggregated'
  <2>1. IsOpen(id) /\ Withdraw(id)
    BY <1>3 DEF Cancel, CancelFromCallback, CancelReject
  <2> QED
    BY <2>1, WithdrawLeaves
<1>4. ASSUME NEW id \in OrderIds, NEW new_id \in OrderIds, NEW p \in ReplacePrices,
             NEW q \in ReplaceQtys, Replace(id, new_id, p, q)
      PROVE  BooksAggregated'
  <2>1. CASE ReplaceToNothing(id, new_id, p, q)
    <3>1. IsOpen(id) /\ Withdraw(id)
      BY <2>1 DEF ReplaceToNothing, ReplaceReject
    <3> QED
      BY <3>1, WithdrawLeaves
  <2>2. CASE ReplaceLosing(id, new_id, p, q)
    BY <2>2, ReplaceLosingLeaves
  <2>3. CASE ReplaceKeeping(id, new_id, p, q)
    BY <2>3, ReplaceKeepingArrives
  <2> QED
    BY <1>4, <2>1, <2>2, <2>3 DEF Replace
<1>5. CASE ApplyTrade
  BY <1>5, ApplyTradeLeaves
<1>6. CASE RestRemainder
  BY <1>6, RestRemainderArrives
<1>7. CASE Host
  BY <1>1, <1>2, <1>3, <1>4, <1>7 DEF Host, RejectedCall
<1>8. CASE Proceed
  BY <1>1, <1>5, <1>6, <1>8 DEF Proceed, CancelUnfillable, CancelRemainder
<1>9. CASE Fault
  BY <1>1, <1>3, <1>9 DEF Fault
<1> QED
  BY <1>1, <1>7, <1>8, <1>9 DEF Next

(***************************************************************************)
(* Bitmap and best index tell the truth about the levels in every state,   *)
(* after any sequence of calls and with a listener that throws or cancels: *)
(* top_of_book and run_matching may look at nothing else                   *)
(* (order_book.cpp:80-117).                                                *)
(***************************************************************************)
THEOREM BestIsBestHolds == FaultSpec => []BestIsBest
<1>1. Init => IInv /\ BooksAggregated
  BY InitInv, InitAggregated
<1>2. IInv /\ BooksAggregated /\ [Next \/ Fault]_vars => (IInv /\ BooksAggregated)'
  BY NextInv, NextAggregated
<1>3. IInv /\ BooksAggregated => BestIsBest
  BY DEF BooksAggregated, Aggregated, Occupied, IsBest, BestIsBest
<1> QED
  BY <1>1, <1>2, <1>3, PTL DEF FaultSpec

-----------------------------------------------------------------------------
(***************************************************************************)
(* The quantity a level keeps is what its orders have open, up to the      *)
(* width of Quantity: each operation changes the sum over the queue and    *)
(* the word by the same amount, and remainders do not care when they are   *)
(* taken.                                                                  *)
(***************************************************************************)
LevelSum(pool1, i, side, x) ==
  SumFunctionOnSet(OpenQuantities(pool1), Queue(pool1, i, side, x))

Totalled(pool1, book, i) ==
  \A side \in Side : \A x \in Index(i) :
    book.levels[side][x].total_qty = LevelSum(pool1, i, side, x) % QtyMod

BooksTotalled == \A i \in Instruments : Totalled(pool, books[i], i)

LEMMA SlotsFinite ==
  ASSUME NEW queue, queue \subseteq Slots
  PROVE  IsFiniteSet(queue)
<1>1. IsFiniteSet(Slots)
  BY WidthAssumption, FS_Interval DEF Slots
<1> QED
  BY <1>1, FS_Subset

\* What orders have open adds up to a number.
LEMMA SumOfOrders ==
  ASSUME NEW pool1 \in [Slots -> OrderRecord], NEW queue, queue \subseteq Slots
  PROVE  /\ IsFiniteSet(queue)
         /\ \A s \in queue : /\ OpenQuantities(pool1)[s] = pool1[s].open_qty
                             /\ OpenQuantities(pool1)[s] \in Nat
         /\ SumFunctionOnSet(OpenQuantities(pool1), queue) \in Nat
<1>1. IsFiniteSet(queue)
  BY SlotsFinite
<1>2. \A s \in queue : /\ OpenQuantities(pool1)[s] = pool1[s].open_qty
                      /\ OpenQuantities(pool1)[s] \in Nat
  <2>1. \A s \in queue : pool1[s].open_qty \in Quantity
    BY DEF OrderRecord
  <2> QED
    BY <2>1, WidthAssumption DEF OpenQuantities, Quantity
<1> QED
  BY <1>1, <1>2, SumType

\* The same orders with the same quantities.
LEMMA SumUnchanged ==
  ASSUME NEW pool1, NEW pool2, NEW queue, queue \subseteq Slots,
         \A s \in queue : pool2[s].open_qty = pool1[s].open_qty
  PROVE  SumFunctionOnSet(OpenQuantities(pool2), queue) =
           SumFunctionOnSet(OpenQuantities(pool1), queue)
<1>1. IsFiniteSet(queue)
  BY SlotsFinite
<1>2. \A s \in queue : OpenQuantities(pool2)[s] = OpenQuantities(pool1)[s]
  BY DEF OpenQuantities
<1> QED
  BY <1>1, <1>2, SumOfSame

\* One order comes to a queue, or leaves it.
LEMMA SumOfOneMore ==
  ASSUME NEW pool1 \in [Slots -> OrderRecord], NEW queue, queue \subseteq Slots,
         NEW slot \in Slots \ queue
  PROVE  SumFunctionOnSet(OpenQuantities(pool1), queue \cup {slot}) =
           SumFunctionOnSet(OpenQuantities(pool1), queue) + pool1[slot].open_qty
<1> DEFINE more == queue \cup {slot}
<1>1. more \subseteq Slots /\ slot \in more /\ more \ {slot} = queue
  OBVIOUS
<1> HIDE DEF more
<1>2. /\ IsFiniteSet(more)
      /\ \A s \in more : /\ OpenQuantities(pool1)[s] = pool1[s].open_qty
                         /\ OpenQuantities(pool1)[s] \in Nat
  BY <1>1, SumOfOrders
<1>3. SumFunctionOnSet(OpenQuantities(pool1), more) =
        OpenQuantities(pool1)[slot] + SumFunctionOnSet(OpenQuantities(pool1), queue)
  BY <1>1, <1>2, SumByElement
<1>4. SumFunctionOnSet(OpenQuantities(pool1), queue) \in Nat
  BY SumOfOrders
<1> QED
  BY <1>1, <1>2, <1>3, <1>4 DEF more

\* Arithmetic on the word follows arithmetic on the sum.
LEMMA WordFollowsSum ==
  ASSUME NEW n \in Int, NEW m \in Int
  PROVE  /\ Plus(n % QtyMod, m) = (n + m) % QtyMod
         /\ Minus(n % QtyMod, m) = (n - m) % QtyMod
BY WidthAssumption, RemainderOfSum DEF Plus, Minus

\* A book whose orders, quantities and totals are the same.
LEMMA TotalledFrame ==
  ASSUME NEW i \in Instruments, NEW pool1, NEW pool2, NEW book, NEW book2,
         SameOrdersOf(pool1, pool2, i),
         \A s \in Slots : pool1[s].is_open /\ pool1[s].instrument_id = i =>
                            pool2[s].open_qty = pool1[s].open_qty,
         \A side \in Side : \A x \in Index(i) :
           book2.levels[side][x].total_qty = book.levels[side][x].total_qty,
         Totalled(pool1, book, i)
  PROVE  Totalled(pool2, book2, i)
<1>1. ASSUME NEW side \in Side, NEW x \in Index(i)
      PROVE  LevelSum(pool2, i, side, x) = LevelSum(pool1, i, side, x)
  <2>1. Queue(pool2, i, side, x) = Queue(pool1, i, side, x)
    BY DEF Queue, SameOrdersOf
  <2>2. /\ Queue(pool1, i, side, x) \subseteq Slots
        /\ \A s \in Queue(pool1, i, side, x) : pool2[s].open_qty = pool1[s].open_qty
    BY DEF Queue
  <2> QED
    BY <2>1, <2>2, SumUnchanged DEF LevelSum
<1> QED
  BY <1>1 DEF Totalled

(***************************************************************************)
(* The operations.                                                         *)
(***************************************************************************)
LEMMA AddRestingTotalled ==
  ASSUME NEW i \in Instruments, NEW pool1 \in [Slots -> OrderRecord], NEW book \in Book(i),
         NEW slot \in Slots, NEW side \in Side, NEW price \in Int,
         price_to_index(i, price) \in Index(i),
         pool1[slot].instrument_id = i, ~pool1[slot].is_open,
         Totalled(pool1, book, i)
  PROVE  LET after == add_resting(pool1, book, i, slot, side, price)
         IN Totalled(after.pool, after.book, i)
<1> DEFINE idx   == price_to_index(i, price)
           lvl   == book.levels[side][idx]
           after == add_resting(pool1, book, i, slot, side, price)
           queue == Queue(pool1, i, side, idx)
           sum   == SumFunctionOnSet(OpenQuantities(pool1), queue)
<1>1. AddRestingEffect(pool1, book, i, slot, side, price, after)
  BY AddRestingFields
<1>2. after.book.levels[side][idx].total_qty = Plus(lvl.total_qty, pool1[slot].open_qty)
  <2>1. book.levels \in [Side -> [Index(i) -> Level]]
    BY DEF Book
  <2> QED
    BY <2>1 DEF add_resting
<1> HIDE DEF after
<1>3. ASSUME NEW sd \in Side, NEW x \in Index(i)
      PROVE  Queue(after.pool, i, sd, x) = IF sd = side /\ x = idx
                                           THEN Queue(pool1, i, sd, x) \cup {slot}
                                           ELSE Queue(pool1, i, sd, x)
  <2>1. ASSUME NEW s \in Slots \ {slot}
        PROVE  s \in Queue(after.pool, i, sd, x) <=> s \in Queue(pool1, i, sd, x)
    BY <1>1 DEF AddRestingEffect, Queue
  <2>2. slot \in Queue(after.pool, i, sd, x) <=> sd = side /\ x = idx
    BY <1>1 DEF AddRestingEffect, Queue
  <2>3. /\ slot \notin Queue(pool1, i, sd, x)
        /\ Queue(after.pool, i, sd, x) \subseteq Slots /\ Queue(pool1, i, sd, x) \subseteq Slots
    BY DEF Queue
  <2> QED
    BY <2>1, <2>2, <2>3
<1>4. \A s \in Slots : after.pool[s].open_qty = pool1[s].open_qty
  BY <1>1 DEF AddRestingEffect
<1>5. ASSUME NEW sd \in Side, NEW x \in Index(i)
      PROVE  after.book.levels[sd][x].total_qty = LevelSum(after.pool, i, sd, x) % QtyMod
  <2>1. Queue(after.pool, i, sd, x) \subseteq Slots
    BY DEF Queue
  <2>2. LevelSum(after.pool, i, sd, x) =
          SumFunctionOnSet(OpenQuantities(pool1), Queue(after.pool, i, sd, x))
    BY <1>4, <2>1, SumUnchanged DEF LevelSum
  <2>3. CASE sd = side /\ x = idx
    <3>1. queue \subseteq Slots /\ slot \in Slots \ queue
      BY DEF Queue
    <3>2. Queue(after.pool, i, sd, x) = queue \cup {slot}
      BY <1>3, <2>3
    <3>3. lvl.total_qty = sum % QtyMod
      BY DEF Totalled, LevelSum
    <3>4. sum \in Nat /\ pool1[slot].open_qty \in Nat
      <4>1. pool1[slot].open_qty \in Quantity
        BY DEF OrderRecord
      <4> QED
        BY <3>1, <4>1, SumOfOrders, WidthAssumption DEF Quantity
    <3> HIDE DEF queue
    <3>5. LevelSum(after.pool, i, sd, x) = sum + pool1[slot].open_qty
      BY <2>2, <3>1, <3>2, SumOfOneMore
    <3> HIDE DEF sum, lvl, idx
    <3>6. Plus(sum % QtyMod, pool1[slot].open_qty) = (sum + pool1[slot].open_qty) % QtyMod
      <4>1. sum \in Int /\ pool1[slot].open_qty \in Int
        BY <3>4
      <4> QED
        BY <4>1, WordFollowsSum, Zenon
    <3> QED
      BY <1>2, <2>3, <3>3, <3>5, <3>6
  <2>4. CASE ~(sd = side /\ x = idx)
    <3>1. Queue(after.pool, i, sd, x) = Queue(pool1, i, sd, x)
      BY <1>3, <2>4
    <3>2. after.book.levels[sd][x] = book.levels[sd][x]
      BY <1>1, <2>4 DEF AddRestingEffect
    <3> QED
      BY <2>2, <3>1, <3>2 DEF Totalled, LevelSum
  <2> QED
    BY <2>3, <2>4
<1> QED
  BY <1>5 DEF Totalled, after

LEMMA RemoveRestingTotalled ==
  ASSUME NEW i \in Instruments, NEW pool1 \in [Slots -> OrderRecord], NEW book \in Book(i),
         NEW slot \in Slots, pool1[slot].level_index \in Index(i),
         pool1[slot].is_open, pool1[slot].instrument_id = i,
         Totalled(pool1, book, i)
  PROVE  LET after == remove_resting(pool1, book, slot)
         IN Totalled(after.pool, after.book, i)
<1> DEFINE rec   == pool1[slot]
           side  == rec.side
           idx   == rec.level_index
           lvl   == book.levels[side][idx]
           after == remove_resting(pool1, book, slot)
           queue == Queue(pool1, i, side, idx)
           rest  == queue \ {slot}
           sum   == SumFunctionOnSet(OpenQuantities(pool1), rest)
           qty   == rec.open_qty
<1>1. RemoveRestingEffect(pool1, book, i, slot, after)
  BY RemoveRestingFields
<1>2. idx \in Index(i) /\ side \in Side /\ qty \in Nat
  <2>1. rec \in OrderRecord
    OBVIOUS
  <2> QED
    BY <2>1, WidthAssumption DEF OrderRecord, Quantity
<1>3. after.book.levels[side][idx].total_qty = Minus(lvl.total_qty, qty)
  <2>1. book.levels \in [Side -> [Index(i) -> Level]]
    BY DEF Book
  <2> QED
    BY <1>2, <2>1 DEF remove_resting
<1> HIDE DEF after
<1>4. ASSUME NEW sd \in Side, NEW x \in Index(i)
      PROVE  Queue(after.pool, i, sd, x) = IF sd = side /\ x = idx
                                           THEN Queue(pool1, i, sd, x) \ {slot}
                                           ELSE Queue(pool1, i, sd, x)
  <2>1. ASSUME NEW s \in Slots \ {slot}
        PROVE  s \in Queue(after.pool, i, sd, x) <=> s \in Queue(pool1, i, sd, x)
    BY <1>1 DEF RemoveRestingEffect, Queue
  <2>2. slot \notin Queue(after.pool, i, sd, x)
    BY <1>1 DEF RemoveRestingEffect, Queue
  <2>3. slot \in Queue(pool1, i, sd, x) <=> sd = side /\ x = idx
    BY DEF Queue
  <2>4. Queue(after.pool, i, sd, x) \subseteq Slots /\ Queue(pool1, i, sd, x) \subseteq Slots
    BY DEF Queue
  <2> QED
    BY <2>1, <2>2, <2>3, <2>4
<1>5. \A s \in Slots : after.pool[s].open_qty = pool1[s].open_qty
  BY <1>1 DEF RemoveRestingEffect
<1>6. ASSUME NEW sd \in Side, NEW x \in Index(i)
      PROVE  after.book.levels[sd][x].total_qty = LevelSum(after.pool, i, sd, x) % QtyMod
  <2>1. Queue(after.pool, i, sd, x) \subseteq Slots
    BY DEF Queue
  <2>2. LevelSum(after.pool, i, sd, x) =
          SumFunctionOnSet(OpenQuantities(pool1), Queue(after.pool, i, sd, x))
    BY <1>5, <2>1, SumUnchanged DEF LevelSum
  <2>3. CASE sd = side /\ x = idx
    <3>1. rest \subseteq Slots /\ slot \in Slots \ rest /\ queue = rest \cup {slot}
      BY DEF Queue
    <3>2. Queue(after.pool, i, sd, x) = rest
      BY <1>4, <2>3
    <3>3. lvl.total_qty = SumFunctionOnSet(OpenQuantities(pool1), queue) % QtyMod
      BY <1>2 DEF Totalled, LevelSum
    <3> HIDE DEF queue, rest
    <3>4. SumFunctionOnSet(OpenQuantities(pool1), queue) = sum + qty
      BY <3>1, SumOfOneMore
    <3>5. sum \in Nat
      BY <3>1, SumOfOrders
    <3> HIDE DEF sum, qty, lvl, idx, side, rec
    <3>6. Minus((sum + qty) % QtyMod, qty) = ((sum + qty) - qty) % QtyMod
      <4>1. sum + qty \in Int /\ qty \in Int
        BY <1>2, <3>5
      <4> QED
        BY <4>1, WordFollowsSum, Zenon
    <3>7. (sum + qty) - qty = sum
      BY <1>2, <3>5
    <3>8. LevelSum(after.pool, i, sd, x) = sum
      BY <2>2, <3>2 DEF sum
    <3> QED
      BY <1>3, <2>3, <3>3, <3>4, <3>6, <3>7, <3>8
  <2>4. CASE ~(sd = side /\ x = idx)
    <3>1. Queue(after.pool, i, sd, x) = Queue(pool1, i, sd, x)
      BY <1>4, <2>4
    <3>2. after.book.levels[sd][x] = book.levels[sd][x]
      BY ZenonT(40), <1>1, <2>4 DEF RemoveRestingEffect
    <3> QED
      BY <2>2, <3>1, <3>2 DEF Totalled, LevelSum
  <2> QED
    BY <2>3, <2>4
<1> QED
  BY <1>6 DEF Totalled, after

LEMMA ReplaceInPlaceTotalled ==
  ASSUME NEW i \in Instruments, NEW pool1 \in [Slots -> OrderRecord], NEW book \in Book(i),
         NEW old_slot \in Slots, NEW new_slot \in Slots,
         pool1[old_slot].level_index \in Index(i),
         pool1[old_slot].is_open, pool1[old_slot].instrument_id = i,
         ~pool1[new_slot].is_open, pool1[new_slot].instrument_id = i,
         Totalled(pool1, book, i)
  PROVE  LET after == replace_in_place(pool1, book, old_slot, new_slot)
         IN Totalled(after.pool, after.book, i)
<1> DEFINE old   == pool1[old_slot]
           side  == old.side
           idx   == old.level_index
           lvl   == book.levels[side][idx]
           after == replace_in_place(pool1, book, old_slot, new_slot)
           queue == Queue(pool1, i, side, idx)
           rest  == queue \ {old_slot}
           sum   == SumFunctionOnSet(OpenQuantities(pool1), rest)
           qty   == old.open_qty
           qty2  == pool1[new_slot].open_qty
<1>1. ReplaceInPlaceEffect(pool1, book, i, old_slot, new_slot, after)
  BY ReplaceInPlaceFields
<1>2. idx \in Index(i) /\ side \in Side /\ qty \in Nat /\ qty2 \in Nat
  <2>1. old \in OrderRecord /\ pool1[new_slot] \in OrderRecord
    OBVIOUS
  <2> QED
    BY <2>1, WidthAssumption DEF OrderRecord, Quantity
<1>3. after.book.levels[side][idx].total_qty = Plus(Minus(lvl.total_qty, qty), qty2)
  <2>1. /\ book.levels \in [Side -> [Index(i) -> Level]]
        /\ book = [levels |-> book.levels, bitmap |-> book.bitmap, best |-> book.best]
    BY DEF Book
  <2> QED
    BY <1>2, <2>1 DEF replace_in_place
<1>4. old_slot # new_slot
  OBVIOUS
<1> HIDE DEF after
<1>5. ASSUME NEW sd \in Side, NEW x \in Index(i)
      PROVE  Queue(after.pool, i, sd, x) =
               IF sd = side /\ x = idx
               THEN (Queue(pool1, i, sd, x) \ {old_slot}) \cup {new_slot}
               ELSE Queue(pool1, i, sd, x)
  <2>1. ASSUME NEW s \in Slots \ {old_slot, new_slot}
        PROVE  s \in Queue(after.pool, i, sd, x) <=> s \in Queue(pool1, i, sd, x)
    BY <1>1 DEF ReplaceInPlaceEffect, Queue
  <2>2. old_slot \notin Queue(after.pool, i, sd, x)
    BY <1>1 DEF ReplaceInPlaceEffect, Queue
  <2>3. new_slot \in Queue(after.pool, i, sd, x) <=> sd = side /\ x = idx
    <3>1. after.pool[new_slot].instrument_id = i
      BY <1>1 DEF ReplaceInPlaceEffect
    <3> QED
      BY <1>1, <3>1 DEF ReplaceInPlaceEffect, Queue
  <2>4. old_slot \in Queue(pool1, i, sd, x) <=> sd = side /\ x = idx
    BY DEF Queue
  <2>5. new_slot \notin Queue(pool1, i, sd, x)
    BY DEF Queue
  <2>6. Queue(after.pool, i, sd, x) \subseteq Slots /\ Queue(pool1, i, sd, x) \subseteq Slots
    BY DEF Queue
  <2> QED
    BY <1>4, <2>1, <2>2, <2>3, <2>4, <2>5, <2>6
<1>6. \A s \in Slots : after.pool[s].open_qty = pool1[s].open_qty
  BY <1>1 DEF ReplaceInPlaceEffect
<1>7. ASSUME NEW sd \in Side, NEW x \in Index(i)
      PROVE  after.book.levels[sd][x].total_qty = LevelSum(after.pool, i, sd, x) % QtyMod
  <2>1. Queue(after.pool, i, sd, x) \subseteq Slots
    BY DEF Queue
  <2>2. LevelSum(after.pool, i, sd, x) =
          SumFunctionOnSet(OpenQuantities(pool1), Queue(after.pool, i, sd, x))
    BY <1>6, <2>1, SumUnchanged DEF LevelSum
  <2>3. CASE sd = side /\ x = idx
    <3>1. /\ rest \subseteq Slots /\ old_slot \in Slots \ rest /\ queue = rest \cup {old_slot}
          /\ new_slot \in Slots \ rest
      BY DEF Queue
    <3>2. Queue(after.pool, i, sd, x) = rest \cup {new_slot}
      BY <1>5, <2>3
    <3>3. lvl.total_qty = SumFunctionOnSet(OpenQuantities(pool1), queue) % QtyMod
      BY <1>2 DEF Totalled, LevelSum
    <3> HIDE DEF queue, rest
    <3>4. /\ SumFunctionOnSet(OpenQuantities(pool1), queue) = sum + qty
          /\ SumFunctionOnSet(OpenQuantities(pool1), rest \cup {new_slot}) = sum + qty2
      BY <3>1, SumOfOneMore
    <3>5. sum \in Nat
      BY <3>1, SumOfOrders
    <3>6. LevelSum(after.pool, i, sd, x) = sum + qty2
      BY <2>2, <3>2, <3>4
    <3> HIDE DEF sum, qty, qty2, lvl, idx, side, old
    <3>7. Minus((sum + qty) % QtyMod, qty) = ((sum + qty) - qty) % QtyMod
      <4>1. sum + qty \in Int /\ qty \in Int
        BY <1>2, <3>5
      <4> QED
        BY <4>1, WordFollowsSum, Zenon
    <3>8. (sum + qty) - qty = sum
      BY <1>2, <3>5
    <3>9. Plus(sum % QtyMod, qty2) = (sum + qty2) % QtyMod
      <4>1. sum \in Int /\ qty2 \in Int
        BY <1>2, <3>5
      <4> QED
        BY <4>1, WordFollowsSum, Zenon
    <3> QED
      BY <1>3, <2>3, <3>3, <3>4, <3>6, <3>7, <3>8, <3>9
  <2>4. CASE ~(sd = side /\ x = idx)
    <3>1. Queue(after.pool, i, sd, x) = Queue(pool1, i, sd, x)
      BY <1>5, <2>4
    <3>2. after.book.levels[sd][x] = book.levels[sd][x]
      BY <1>1, <2>4 DEF ReplaceInPlaceEffect
    <3> QED
      BY <2>2, <3>1, <3>2 DEF Totalled, LevelSum
  <2> QED
    BY <2>3, <2>4
<1> QED
  BY <1>7 DEF Totalled, after

LEMMA EmptyTotalled ==
  ASSUME NEW i \in Instruments, NEW pool1, \A s \in Slots : ~pool1[s].is_open
  PROVE  Totalled(pool1, EmptyBook(i), i)
<1>1. ASSUME NEW side \in Side, NEW x \in Index(i)
      PROVE  LevelSum(pool1, i, side, x) = 0
  <2>1. Queue(pool1, i, side, x) = {}
    BY DEF Queue
  <2>2. SumFunctionOnSet(OpenQuantities(pool1), {}) = 0
    BY SlotsFinite, SumByChosen
  <2> QED
    BY <2>1, <2>2 DEF LevelSum
<1>2. 0 % QtyMod = 0
  BY WidthAssumption
<1>3. \A side \in Side : \A x \in Index(i) : EmptyBook(i).levels[side][x].total_qty = 0
  BY DEF EmptyBook, EmptyLevel
<1> QED
  BY <1>1, <1>2, <1>3 DEF Totalled

(***************************************************************************)
(* The steps.                                                              *)
(***************************************************************************)
\* What the orders of instrument j have open stays.
SameQuantitiesOf(pool_before, pool_after, j) ==
  \A s \in Slots :
    pool_before[s].is_open /\ pool_before[s].instrument_id = j =>
      pool_after[s].open_qty = pool_before[s].open_qty

\* A step on one book keeps the totals of all of them.
LEMMA OneBookTotalled ==
  ASSUME IInv, NEW i \in Instruments, NEW book,
         books' = [books EXCEPT ![i] = book],
         BooksTotalled, Totalled(pool', book, i),
         \A j \in Instruments \ {i} : /\ SameOrdersOf(pool, pool', j)
                                      /\ SameQuantitiesOf(pool, pool', j)
  PROVE  BooksTotalled'
<1>1. DOMAIN books = Instruments
  BY DEF IInv, TypeOK
<1>2. ASSUME NEW j \in Instruments \ {i} PROVE Totalled(pool', books'[j], j)
  <2>1. books'[j] = books[j] /\ Totalled(pool, books[j], j)
    BY <1>1 DEF BooksTotalled
  <2>2. /\ SameOrdersOf(pool, pool', j)
        /\ \A s \in Slots : pool[s].is_open /\ pool[s].instrument_id = j =>
                              pool'[s].open_qty = pool[s].open_qty
    BY DEF SameQuantitiesOf
  <2> QED
    BY <2>1, <2>2, TotalledFrame
<1> QED
  BY <1>1, <1>2 DEF BooksTotalled

\* A step that leaves books, orders and their quantities alone.
LEMMA QuietTotalled ==
  ASSUME IInv, UNCHANGED books, SameOrders(pool, pool'), BooksTotalled,
         \A s \in Slots : pool[s].is_open => pool'[s].open_qty = pool[s].open_qty
  PROVE  BooksTotalled'
<1>1. ASSUME NEW j \in Instruments PROVE Totalled(pool', books'[j], j)
  <2>1. SameOrdersOf(pool, pool', j)
    BY DEF SameOrders, SameOrdersOf
  <2>2. Totalled(pool, books[j], j) /\ books'[j] = books[j]
    BY DEF BooksTotalled
  <2> QED
    BY <2>1, <2>2, TotalledFrame
<1> QED
  BY <1>1 DEF BooksTotalled

\* A fresh slot holds no resting order, and nothing else changes.
LEMMA FreshSlotTotalled ==
  ASSUME IInv, NEW rec, FillsFreshSlot(rec, pool')
  PROVE  \A s \in Slots : pool[s].is_open => pool'[s].open_qty = pool[s].open_qty
<1> DEFINE pool2 == [pool EXCEPT ![pool_size] = rec]
<1>1. FillsFreshSlot(rec, pool2) /\ pool' = pool2
  BY DEF FillsFreshSlot
<1> HIDE DEF pool2
<1>2. /\ pool_size \in Slots /\ ~pool[pool_size].is_open
      /\ \A s \in Slots \ {pool_size} : pool2[s] = pool[s]
  BY <1>1, FreshSlot
<1> QED
  BY <1>1, <1>2

LEMMA QuietStepTotalled ==
  ASSUME IInv, BooksTotalled,
         \/ StartMatching \/ PickLevel \/ MatchingDone \/ LeaveLevel \/ FullyFilled
         \/ AfterReplaced \/ ListenerThrows \/ Trade \/ UNCHANGED vars
         \/ pc # "idle" /\ DropRemainder
         \/ \E id \in OrderIds, o \in Orders :
              Submit(id, o) \/ SubmitRefused(id, o) \/ SubmitOutOfMemory(id, o)
         \/ \E id, new_id \in OrderIds, p \in ReplacePrices, q \in ReplaceQtys :
              ReplaceOutOfMemory(id, new_id, p, q)
  PROVE  BooksTotalled'
<1> SUFFICES \A s \in Slots : pool[s].is_open => pool'[s].open_qty = pool[s].open_qty
  BY QuietStep, QuietTotalled
<1>1. CASE \/ StartMatching \/ PickLevel \/ MatchingDone \/ LeaveLevel \/ FullyFilled
           \/ AfterReplaced \/ ListenerThrows \/ Trade \/ UNCHANGED vars
  BY <1>1 DEF StartMatching, PickLevel, MatchingDone, LeaveLevel, FullyFilled,
              AfterReplaced, ListenerThrows, Trade, vars
<1>2. CASE pc # "idle" /\ DropRemainder
  <2>1. pool' = [pool EXCEPT ![call.slot].open_qty = 0]
    BY <1>2 DEF DropRemainder
  <2>2. ~pool[call.slot].is_open /\ pool \in [Slots -> OrderRecord]
    BY <1>2, AggressorFacts, StateFacts DEF AggressorInOrder, Agg
  <2> QED
    BY <2>1, <2>2
<1>3. ASSUME NEW id \in OrderIds, NEW o \in Orders,
             Submit(id, o) \/ SubmitRefused(id, o) \/ SubmitOutOfMemory(id, o)
      PROVE  \A s \in Slots : pool[s].is_open => pool'[s].open_qty = pool[s].open_qty
  <2>1. o.instrument_id \in Instruments /\ o.side \in Side /\ o.quantity \in Quantity
    BY InputAssumption DEF NewOrder
  <2> DEFINE refused   == RefusedRec(id, o.instrument_id, o.side)
             submitted == SubmittedRec(id, o.instrument_id, o.side, o.quantity)
  <2>2. /\ refused \in OrderRecord /\ ~refused.is_open
        /\ submitted \in OrderRecord /\ ~submitted.is_open
    BY <2>1, FreshRecords
  <2>3. CASE Submit(id, o)
    <3>1. FillsFreshSlot(submitted, pool')
      BY <2>2, <2>3 DEF Submit, FillsFreshSlot, SubmittedRec
    <3> QED
      BY <3>1, FreshSlotTotalled
  <2>4. CASE SubmitRefused(id, o) \/ SubmitOutOfMemory(id, o)
    <3>1. FillsFreshSlot(refused, pool')
      BY <2>2, <2>4 DEF SubmitRefused, SubmitOutOfMemory, FillsFreshSlot, RefusedRec
    <3> QED
      BY <3>1, FreshSlotTotalled
  <2> QED
    BY <1>3, <2>3, <2>4
<1>4. ASSUME NEW id \in OrderIds, NEW new_id \in OrderIds, NEW p \in ReplacePrices,
             NEW q \in ReplaceQtys, ReplaceOutOfMemory(id, new_id, p, q)
      PROVE  \A s \in Slots : pool[s].is_open => pool'[s].open_qty = pool[s].open_qty
  <2> DEFINE old == pool[order_index[id]]
             rec == ReplacedRec(new_id, old.instrument_id, old.side, p, NewOpen(id, q),
                                old.filled_qty)
  <2>1. ReplaceAllowed(id, new_id, p, q) /\ pool' = WithReplacement(id, new_id, p, q)
    BY <1>4 DEF ReplaceOutOfMemory
  <2>2. FillsFreshSlot(rec, pool')
    BY <2>1, ReplaceFacts DEF FillsFreshSlot
  <2> HIDE DEF rec
  <2> QED
    BY <2>2, FreshSlotTotalled
<1> QED
  BY <1>1, <1>2, <1>3, <1>4

\* remove_resting on book i.
LEMMA DepartureTotalled ==
  ASSUME IInv, BooksTotalled, NEW i \in Instruments, NEW slot \in Slots,
         NEW pool2 \in [Slots -> OrderRecord], NEW book2 \in Book(i),
         SameOrders(pool, pool2), Totalled(pool2, book2, i),
         \A j \in Instruments \ {i} : SameQuantitiesOf(pool, pool2, j),
         pool[slot].is_open, pool[slot].instrument_id = i,
         pool' = remove_resting(pool2, book2, slot).pool,
         books' = [books EXCEPT ![i] = remove_resting(pool2, book2, slot).book]
  PROVE  BooksTotalled'
<1> DEFINE after == remove_resting(pool2, book2, slot)
<1>1. BookFits(pool, books[i], i, arrival)
  BY DEF IInv, BooksFit
<1>2. /\ pool2[slot].is_open /\ pool2[slot].instrument_id = i
      /\ pool2[slot].level_index \in Index(i)
  BY <1>1 DEF BookFits, OnTheirLevels, SameOrders
<1>3. RemoveRestingEffect(pool2, book2, i, slot, after)
  BY <1>2, RemoveRestingFields
<1>4. Totalled(after.pool, after.book, i)
  BY <1>2, RemoveRestingTotalled
<1>5. pool' = after.pool /\ books' = [books EXCEPT ![i] = after.book]
  OBVIOUS
<1> HIDE DEF after
<1>6. ASSUME NEW j \in Instruments \ {i}
      PROVE  SameOrdersOf(pool, pool', j) /\ SameQuantitiesOf(pool, pool', j)
  <2>1. ASSUME NEW s \in Slots
        PROVE  /\ pool'[s].is_open /\ pool'[s].instrument_id = j
                    <=> pool[s].is_open /\ pool[s].instrument_id = j
               /\ pool[s].is_open /\ pool[s].instrument_id = j =>
                    /\ pool'[s].side = pool[s].side
                    /\ pool'[s].level_index = pool[s].level_index
                    /\ pool'[s].open_qty = pool2[s].open_qty
    <3>1. CASE s = slot
      BY <1>3, <1>5, <1>6, <3>1 DEF RemoveRestingEffect
    <3>2. CASE s # slot
      <4>1. /\ pool'[s].is_open = pool2[s].is_open
            /\ pool'[s].instrument_id = pool2[s].instrument_id
            /\ pool'[s].side = pool2[s].side
            /\ pool'[s].level_index = pool2[s].level_index
            /\ pool'[s].open_qty = pool2[s].open_qty
        <5>1. /\ after.pool[s].is_open = pool2[s].is_open
              /\ after.pool[s].instrument_id = pool2[s].instrument_id
              /\ after.pool[s].side = pool2[s].side
              /\ after.pool[s].level_index = pool2[s].level_index
              /\ after.pool[s].open_qty = pool2[s].open_qty
          BY ZenonT(40), <1>3, <3>2 DEF RemoveRestingEffect
        <5> QED
          BY ZenonT(40), <1>5, <5>1
      <4> QED
        BY <4>1 DEF SameOrders
    <3> QED
      BY <3>1, <3>2
  <2> QED
    BY <2>1 DEF SameOrdersOf, SameQuantitiesOf
<1>7. Totalled(pool', after.book, i)
  BY <1>4, <1>5
<1> QED
  BY <1>5, <1>6, <1>7, OneBookTotalled

\* A cancel, from between calls or from a callback.
LEMMA WithdrawTotalled ==
  ASSUME IInv, BooksTotalled, NEW id \in OrderIds, IsOpen(id), Withdraw(id)
  PROVE  BooksTotalled'
<1> DEFINE slot == order_index[id]
           i    == pool[slot].instrument_id
<1>1. slot \in Slots /\ pool[slot].is_open
  BY DEF IInv, TypeOK, IsOpen, contains, Link
<1>2. i \in Instruments /\ pool \in [Slots -> OrderRecord] /\ books[i] \in Book(i)
  BY <1>1, StateFacts
<1>3. /\ SameOrders(pool, pool) /\ Totalled(pool, books[i], i)
      /\ \A j \in Instruments \ {i} : SameQuantitiesOf(pool, pool, j)
  BY <1>2 DEF SameOrders, BooksTotalled, SameQuantitiesOf
<1>4. /\ pool' = remove_resting(pool, books[i], slot).pool
      /\ books' = [books EXCEPT ![i] = remove_resting(pool, books[i], slot).book]
  BY DEF Withdraw
<1>5. pool[slot].instrument_id = i
  OBVIOUS
<1> HIDE DEF i, slot
<1> QED
  BY <1>1, <1>2, <1>3, <1>4, <1>5, DepartureTotalled

\* The fill is taken off the resting order and off its level.
LEMMA FillTotalled ==
  ASSUME NEW i \in Instruments, NEW pool1 \in [Slots -> OrderRecord], NEW book \in Book(i),
         NEW pool2 \in [Slots -> OrderRecord], NEW side \in Side, NEW x \in Index(i),
         NEW resting \in Queue(pool1, i, side, x), NEW fill \in Nat,
         SameOrders(pool1, pool2), Totalled(pool1, book, i),
         pool2[resting].open_qty = pool1[resting].open_qty - fill,
         \A s \in Slots \ {resting} :
           pool1[s].is_open => pool2[s].open_qty = pool1[s].open_qty
  PROVE  Totalled(pool2, BookFill(book, side, x, fill), i)
<1> DEFINE lvl    == book.levels[side][x]
           book2  == BookFill(book, side, x, fill)
           queue  == Queue(pool1, i, side, x)
           rest   == queue \ {resting}
           sum    == SumFunctionOnSet(OpenQuantities(pool1), rest)
           qty    == pool1[resting].open_qty
<1>1. /\ book2.levels[side][x].total_qty = Minus(lvl.total_qty, fill)
      /\ \A sd \in Side : \A y \in Index(i) :
           ~(sd = side /\ y = x) => book2.levels[sd][y] = book.levels[sd][y]
  <2>1. /\ book.levels \in [Side -> [Index(i) -> Level]]
        /\ book = [levels |-> book.levels, bitmap |-> book.bitmap, best |-> book.best]
    BY DEF Book
  <2>2. lvl \in Level
    BY <2>1
  <2> QED
    BY <2>1, <2>2 DEF BookFill, Level
<1>2. resting \in Slots /\ qty \in Nat /\ pool1[resting].is_open
  <2>1. resting \in Slots /\ pool1[resting].is_open
    BY DEF Queue
  <2>2. pool1[resting] \in OrderRecord
    BY <2>1
  <2> QED
    BY <2>1, <2>2, WidthAssumption DEF OrderRecord, Quantity
<1> HIDE DEF book2
<1>3. ASSUME NEW sd \in Side, NEW y \in Index(i)
      PROVE  book2.levels[sd][y].total_qty = LevelSum(pool2, i, sd, y) % QtyMod
  <2>1. Queue(pool2, i, sd, y) = Queue(pool1, i, sd, y) /\ Queue(pool1, i, sd, y) \subseteq Slots
    BY DEF Queue, SameOrders
  <2>2. CASE sd = side /\ y = x
    <3>1. /\ rest \subseteq Slots /\ resting \in Slots \ rest /\ queue = rest \cup {resting}
          /\ \A s \in rest : pool2[s].open_qty = pool1[s].open_qty
      BY <1>2 DEF Queue
    <3>2. lvl.total_qty = SumFunctionOnSet(OpenQuantities(pool1), queue) % QtyMod
      BY DEF Totalled, LevelSum
    <3>3. LevelSum(pool2, i, sd, y) = SumFunctionOnSet(OpenQuantities(pool2), queue)
      BY <2>1, <2>2 DEF LevelSum
    <3> HIDE DEF queue, rest
    <3>4. /\ SumFunctionOnSet(OpenQuantities(pool1), queue) = sum + qty
          /\ SumFunctionOnSet(OpenQuantities(pool2), queue) =
               SumFunctionOnSet(OpenQuantities(pool2), rest) + pool2[resting].open_qty
      BY <3>1, SumOfOneMore
    <3>5. SumFunctionOnSet(OpenQuantities(pool2), rest) = sum
      BY <3>1, SumUnchanged
    <3>6. sum \in Nat
      BY <3>1, SumOfOrders
    <3> HIDE DEF sum, qty, lvl
    <3>7. Minus((sum + qty) % QtyMod, fill) = ((sum + qty) - fill) % QtyMod
      <4>1. sum + qty \in Int /\ fill \in Int
        BY <1>2, <3>6
      <4> QED
        BY <4>1, WordFollowsSum, Zenon
    <3>8. LevelSum(pool2, i, sd, y) = (sum + qty) - fill
      <4>1. LevelSum(pool2, i, sd, y) = sum + (qty - fill)
        BY <3>3, <3>4, <3>5 DEF qty
      <4> QED
        BY <1>2, <3>6, <4>1
    <3> QED
      BY <1>1, <2>2, <3>2, <3>4, <3>7, <3>8
  <2>3. CASE ~(sd = side /\ y = x)
    <3>1. \A s \in Queue(pool1, i, sd, y) : pool2[s].open_qty = pool1[s].open_qty
      BY <2>3 DEF Queue
    <3>2. LevelSum(pool2, i, sd, y) = LevelSum(pool1, i, sd, y)
      BY <2>1, <3>1, SumUnchanged DEF LevelSum
    <3> QED
      BY <1>1, <2>3, <3>2 DEF Totalled
  <2> QED
    BY <2>2, <2>3
<1> QED
  BY <1>3 DEF Totalled, book2

LEMMA ApplyTradeTotalled ==
  ASSUME IInv, BooksTotalled, ApplyTrade
  PROVE  BooksTotalled'
<1> DEFINE opp    == Opposite(call.side)
           filled == [pool EXCEPT ![call.slot] = Filled(@, call.fill),
                                  ![call.resting] = Filled(@, call.fill)]
           book   == BookFill(books[Instr], opp, call.idx, call.fill)
           after  == IF filled[call.resting].open_qty = 0
                     THEN remove_resting(filled, book, call.resting)
                     ELSE [pool |-> filled, book |-> book]
<1>1. /\ pc = "on_trade" /\ pool' = after.pool
      /\ books' = [books EXCEPT ![Instr] = after.book]
  BY DEF ApplyTrade
<1>2. /\ AggressorInOrder /\ TradeInOrder /\ Instr \in Instruments /\ call.fill \in Quantity
      /\ opp \in Side /\ call.idx \in Index(Instr)
  BY <1>1, AggressorFacts DEF IInv, CallInOrder
<1>3. /\ call.resting \in Slots /\ pool[call.resting].is_open
      /\ pool[call.resting].instrument_id = Instr
      /\ call.resting \in Queue(pool, Instr, opp, call.idx)
  BY <1>2 DEF TradeInOrder, Queue
<1>4. call.slot \in Slots /\ ~pool[call.slot].is_open /\ call.slot # call.resting
  BY <1>2, <1>3 DEF AggressorInOrder, Agg
<1>5. filled \in [Slots -> OrderRecord] /\ SameOrders(pool, filled)
  <2>1. /\ filled \in [Slots -> OrderRecord]
        /\ \A s \in Slots :
             /\ filled[s].instrument_id = pool[s].instrument_id
             /\ filled[s].side = pool[s].side
             /\ filled[s].price = pool[s].price
             /\ filled[s].level_index = pool[s].level_index
             /\ filled[s].is_open = pool[s].is_open
    BY ZenonT(40), <1>1, FilledPool
  <2> HIDE DEF filled
  <2> QED
    BY <2>1 DEF SameOrders
<1>6. /\ filled[call.resting].open_qty = pool[call.resting].open_qty - call.fill
      /\ \A s \in Slots \ {call.resting} :
           pool[s].is_open => filled[s].open_qty = pool[s].open_qty
  <2>1. pool \in [Slots -> OrderRecord]
    BY StateFacts
  <2>2. filled[call.resting] = Filled(pool[call.resting], call.fill)
    BY <1>3, <1>4, <2>1
  <2>3. call.fill <= pool[call.resting].open_qty
    BY <1>2 DEF TradeInOrder
  <2>4. pool[call.resting] \in OrderRecord
        /\ pool[call.resting].open_qty + pool[call.resting].filled_qty < QtyMod
    BY <1>3, <2>1 DEF IInv, OrderQuantitiesFit
  <2>5. filled[call.resting].open_qty = pool[call.resting].open_qty - call.fill
    <3> HIDE DEF filled
    <3> QED
      BY <1>2, <2>2, <2>3, <2>4, FilledFacts
  <2>6. \A s \in Slots \ {call.resting} : pool[s].is_open => filled[s] = pool[s]
    BY <1>3, <1>4, <2>1
  <2> QED
    BY <2>5, <2>6
<1>7. books[Instr] \in Book(Instr) /\ book \in Book(Instr)
  BY <1>2, StateFacts, FilledBook
<1> HIDE DEF filled
<1>8. Totalled(filled, book, Instr)
  <2>1. Totalled(pool, books[Instr], Instr) /\ pool \in [Slots -> OrderRecord]
    BY <1>2, StateFacts DEF BooksTotalled
  <2>2. call.fill \in Nat
    BY <1>2, WidthAssumption DEF Quantity
  <2> HIDE DEF opp
  <2> QED
    BY <1>2, <1>3, <1>5, <1>6, <1>7, <2>1, <2>2, FillTotalled
<1>9. \A j \in Instruments \ {Instr} : SameQuantitiesOf(pool, filled, j)
  BY <1>3, <1>6 DEF SameQuantitiesOf
<1> HIDE DEF book
<1>10. CASE filled[call.resting].open_qty = 0
  <2>1. /\ pool' = remove_resting(filled, book, call.resting).pool
        /\ books' = [books EXCEPT ![Instr] = remove_resting(filled, book, call.resting).book]
    BY <1>1, <1>10
  <2> QED
    BY <1>2, <1>3, <1>5, <1>7, <1>8, <1>9, <2>1, DepartureTotalled
<1>11. CASE filled[call.resting].open_qty # 0
  <2>1. pool' = filled /\ books' = [books EXCEPT ![Instr] = book]
    BY <1>1, <1>11
  <2>2. Totalled(pool', book, Instr)
    BY <1>8, <2>1
  <2>3. ASSUME NEW j \in Instruments \ {Instr}
        PROVE  SameOrdersOf(pool, pool', j) /\ SameQuantitiesOf(pool, pool', j)
    <3>1. SameOrdersOf(pool, filled, j)
      <4>1. \A s \in Slots : filled[s].instrument_id = pool[s].instrument_id
        BY <1>1, FilledPool DEF filled
      <4> QED
        BY <1>5, <4>1 DEF SameOrders, SameOrdersOf
    <3> QED
      BY <1>9, <2>1, <3>1
  <2> QED
    BY <1>2, <2>1, <2>2, <2>3, OneBookTotalled
<1> QED
  BY <1>10, <1>11

\* A replace that goes to the back: the old order leaves.
LEMMA ReplaceLosingTotalled ==
  ASSUME IInv, BooksTotalled, NEW id \in OrderIds, NEW new_id \in OrderIds,
         NEW p \in ReplacePrices, NEW q \in ReplaceQtys, ReplaceLosing(id, new_id, p, q)
  PROVE  BooksTotalled'
<1> DEFINE slot  == order_index[id]
           i     == pool[slot].instrument_id
           rec   == ReplacedRec(new_id, i, pool[slot].side, p, NewOpen(id, q),
                                pool[slot].filled_qty)
           pool2 == WithReplacement(id, new_id, p, q)
<1>1. /\ ReplaceAllowed(id, new_id, p, q)
      /\ pool' = remove_resting(pool2, books[i], slot).pool
      /\ books' = [books EXCEPT ![i] = remove_resting(pool2, books[i], slot).book]
  BY DEF ReplaceLosing
<1>2. /\ slot \in Slots /\ pool[slot].is_open /\ i \in Instruments
      /\ pool_size < PoolCapacity
      /\ rec \in OrderRecord /\ ~rec.is_open
      /\ pool2 = [pool EXCEPT ![pool_size] = rec]
  BY <1>1, ReplaceFacts
<1>3. pool[slot].instrument_id = i
  OBVIOUS
<1> HIDE DEF rec, pool2, i, slot
<1>4. /\ pool_size \in Slots /\ ~pool[pool_size].is_open
      /\ pool2 \in [Slots -> OrderRecord] /\ pool2[pool_size] = rec
      /\ \A s \in Slots \ {pool_size} : pool2[s] = pool[s]
  <2>1. FillsFreshSlot(rec, pool2)
    BY <1>2 DEF FillsFreshSlot
  <2> QED
    BY <2>1, FreshSlot
<1>5. SameOrders(pool, pool2)
  BY <1>2, <1>4 DEF SameOrders
<1>6. \A s \in Slots : pool[s].is_open => pool2[s].open_qty = pool[s].open_qty
  BY <1>4
<1>7. \A j \in Instruments \ {i} : SameQuantitiesOf(pool, pool2, j)
  BY <1>6 DEF SameQuantitiesOf
<1>8. books[i] \in Book(i) /\ Totalled(pool, books[i], i)
  BY <1>2, StateFacts DEF BooksTotalled
<1>9. Totalled(pool2, books[i], i)
  <2>1. SameOrdersOf(pool, pool2, i)
    BY <1>2, <1>4 DEF SameOrdersOf
  <2> QED
    BY <1>2, <1>6, <1>8, <2>1, TotalledFrame
<1> QED
  BY <1>1, <1>2, <1>3, <1>4, <1>5, <1>7, <1>8, <1>9, DepartureTotalled

\* A replace that keeps its place.
LEMMA ReplaceKeepingTotalled ==
  ASSUME IInv, BooksTotalled, NEW id \in OrderIds, NEW new_id \in OrderIds,
         NEW p \in ReplacePrices, NEW q \in ReplaceQtys, ReplaceKeeping(id, new_id, p, q)
  PROVE  BooksTotalled'
<1> DEFINE slot  == order_index[id]
           old   == pool[slot]
           i     == old.instrument_id
           rec   == ReplacedRec(new_id, i, old.side, p, NewOpen(id, q), old.filled_qty)
           pool2 == WithReplacement(id, new_id, p, q)
           after == replace_in_place(pool2, books[i], slot, pool_size)
<1>1. /\ ReplaceAllowed(id, new_id, p, q)
      /\ pool' = after.pool
      /\ books' = [books EXCEPT ![i] = after.book]
  BY DEF ReplaceKeeping
<1>2. /\ pool_size < PoolCapacity
      /\ slot \in Slots /\ old.is_open /\ i \in Instruments
      /\ rec \in OrderRecord /\ ~rec.is_open /\ rec.instrument_id = i
      /\ pool2 = [pool EXCEPT ![pool_size] = rec]
  BY <1>1, ReplaceFacts
<1> HIDE DEF rec, pool2, i, slot
<1>3. /\ pool_size \in Slots /\ ~pool[pool_size].is_open
      /\ pool2 \in [Slots -> OrderRecord] /\ pool2[pool_size] = rec
      /\ \A s \in Slots \ {pool_size} : pool2[s] = pool[s]
  <2>1. FillsFreshSlot(rec, pool2)
    BY <1>2 DEF FillsFreshSlot
  <2> QED
    BY <2>1, FreshSlot
<1>4. /\ slot # pool_size /\ pool2[slot] = old /\ old.instrument_id = i
  BY <1>2, <1>3 DEF i
<1>5. /\ books[i] \in Book(i) /\ BookFits(pool, books[i], i, arrival)
      /\ Totalled(pool, books[i], i)
  BY <1>2, StateFacts DEF IInv, BooksFit, BooksTotalled
<1>6. pool2[slot].level_index \in Index(i)
  BY <1>2, <1>4, <1>5 DEF BookFits, OnTheirLevels
<1>7. Totalled(pool2, books[i], i)
  <2>1. SameOrdersOf(pool, pool2, i)
    BY <1>2, <1>3 DEF SameOrdersOf
  <2>2. \A s \in Slots : pool[s].is_open => pool2[s].open_qty = pool[s].open_qty
    BY <1>3
  <2> QED
    BY ZenonT(40), <1>2, <1>5, <2>1, <2>2, TotalledFrame
<1>8. /\ pool2[slot].is_open /\ pool2[slot].instrument_id = i
      /\ ~pool2[pool_size].is_open /\ pool2[pool_size].instrument_id = i
  BY <1>2, <1>3, <1>4
<1>9. Totalled(after.pool, after.book, i)
  BY <1>2, <1>3, <1>5, <1>6, <1>7, <1>8, ReplaceInPlaceTotalled
<1>10. ReplaceInPlaceEffect(pool2, books[i], i, slot, pool_size, after)
  BY <1>2, <1>3, <1>4, <1>5, <1>6, ReplaceInPlaceFields
<1> HIDE DEF after
<1>11. ASSUME NEW j \in Instruments \ {i}
       PROVE  SameOrdersOf(pool, pool', j) /\ SameQuantitiesOf(pool, pool', j)
  <2>1. ASSUME NEW s \in Slots
        PROVE  /\ pool'[s].is_open /\ pool'[s].instrument_id = j
                    <=> pool[s].is_open /\ pool[s].instrument_id = j
               /\ pool[s].is_open /\ pool[s].instrument_id = j =>
                    /\ pool'[s].side = pool[s].side
                    /\ pool'[s].level_index = pool[s].level_index
                    /\ pool'[s].open_qty = pool[s].open_qty
    <3>1. /\ after.pool[s].instrument_id = pool2[s].instrument_id
          /\ after.pool[s].open_qty = pool2[s].open_qty
      BY <1>10 DEF ReplaceInPlaceEffect
    <3>2. CASE s \in {slot, pool_size}
      <4>1. pool2[s].instrument_id = i /\ i # j
        BY <1>8, <1>11, <3>2
      <4>2. pool[s].is_open => pool[s].instrument_id = i
        BY <1>3, <1>4, <3>2
      <4> QED
        BY <1>1, <3>1, <4>1, <4>2
    <3>3. CASE s \notin {slot, pool_size}
      <4>1. /\ after.pool[s].is_open = pool2[s].is_open
            /\ after.pool[s].side = pool2[s].side
            /\ after.pool[s].level_index = pool2[s].level_index
        BY <1>10, <3>3 DEF ReplaceInPlaceEffect
      <4>2. pool2[s] = pool[s]
        BY <1>3, <3>3
      <4> QED
        BY <1>1, <3>1, <4>1, <4>2
    <3> QED
      BY <3>2, <3>3
  <2> QED
    BY <2>1 DEF SameOrdersOf, SameQuantitiesOf
<1>12. Totalled(pool', after.book, i)
  BY <1>1, <1>9
<1> QED
  BY <1>1, <1>2, <1>11, <1>12, OneBookTotalled

\* What is left of a Day order comes to rest.
LEMMA RestRemainderTotalled ==
  ASSUME IInv, BooksTotalled, RestRemainder
  PROVE  BooksTotalled'
<1> DEFINE after == add_resting(pool, books[Instr], Instr, call.slot, call.side, call.price)
<1>1. /\ pc = "finish" /\ call.tif = "kDay"
      /\ pool' = after.pool /\ books' = [books EXCEPT ![Instr] = after.book]
  BY DEF RestRemainder
<1>2. /\ Instr \in Instruments
      /\ call.slot \in Slots /\ call.side \in Side /\ call.price \in Int
      /\ price_to_index(Instr, call.price) \in Index(Instr)
      /\ AggressorInOrder
  BY <1>1, AggressorFacts DEF AggressorInOrder
<1>3. /\ pool \in [Slots -> OrderRecord] /\ books[Instr] \in Book(Instr)
      /\ pool[call.slot].instrument_id = Instr /\ ~pool[call.slot].is_open
      /\ Totalled(pool, books[Instr], Instr)
  BY <1>2, StateFacts DEF AggressorInOrder, Agg, Instr, BooksTotalled
<1>4. AddRestingEffect(pool, books[Instr], Instr, call.slot, call.side, call.price, after)
  BY <1>2, <1>3, AddRestingFields
<1>5. Totalled(after.pool, after.book, Instr)
  BY <1>2, <1>3, AddRestingTotalled
<1> HIDE DEF after
<1>6. ASSUME NEW j \in Instruments \ {Instr}
      PROVE  SameOrdersOf(pool, pool', j) /\ SameQuantitiesOf(pool, pool', j)
  <2>1. ASSUME NEW s \in Slots
        PROVE  /\ pool'[s].is_open /\ pool'[s].instrument_id = j
                    <=> pool[s].is_open /\ pool[s].instrument_id = j
               /\ pool[s].is_open /\ pool[s].instrument_id = j =>
                    /\ pool'[s].side = pool[s].side
                    /\ pool'[s].level_index = pool[s].level_index
                    /\ pool'[s].open_qty = pool[s].open_qty
    <3>1. /\ after.pool[s].instrument_id = pool[s].instrument_id
          /\ after.pool[s].open_qty = pool[s].open_qty
      BY <1>4 DEF AddRestingEffect
    <3>2. CASE s = call.slot
      BY <1>1, <1>3, <1>6, <3>1, <3>2
    <3>3. CASE s # call.slot
      <4>1. /\ after.pool[s].is_open = pool[s].is_open
            /\ after.pool[s].side = pool[s].side
            /\ after.pool[s].level_index = pool[s].level_index
        BY <1>4, <3>3 DEF AddRestingEffect
      <4> QED
        BY <1>1, <3>1, <4>1
    <3> QED
      BY <3>2, <3>3
  <2> QED
    BY <2>1 DEF SameOrdersOf, SameQuantitiesOf
<1>7. Totalled(pool', after.book, Instr)
  BY <1>1, <1>5
<1> QED
  BY <1>1, <1>2, <1>6, <1>7, OneBookTotalled

LEMMA InitTotalled == Init => BooksTotalled
<1> SUFFICES ASSUME Init PROVE BooksTotalled
  OBVIOUS
<1>1. \A s \in Slots : ~pool[s].is_open
  BY NewRecordFacts DEF Init
<1> QED
  BY <1>1, EmptyTotalled DEF Init, BooksTotalled

\* Every step, fault or not, keeps the totals right.
LEMMA NextTotalled ==
  ASSUME IInv, BooksTotalled, [Next \/ Fault]_vars
  PROVE  BooksTotalled'
<1>1. ASSUME \/ StartMatching \/ PickLevel \/ MatchingDone \/ LeaveLevel \/ FullyFilled
             \/ AfterReplaced \/ ListenerThrows \/ Trade \/ UNCHANGED vars
             \/ pc # "idle" /\ DropRemainder
             \/ \E id \in OrderIds, o \in Orders :
                  Submit(id, o) \/ SubmitRefused(id, o) \/ SubmitOutOfMemory(id, o)
             \/ \E id, new_id \in OrderIds, p \in ReplacePrices, q \in ReplaceQtys :
                  ReplaceOutOfMemory(id, new_id, p, q)
      PROVE  BooksTotalled'
  BY <1>1, QuietStepTotalled
<1>2. ASSUME NEW ids \in ConfigureCalls, Configure(ids) PROVE BooksTotalled'
  <2>1. /\ instrument_index = {} /\ UNCHANGED pool
        /\ books' = [i \in Instruments |-> EmptyBook(i)]
    BY <1>2 DEF Configure, configured
  <2>2. \A s \in Slots : ~pool[s].is_open
    BY <2>1 DEF IInv, SlotsInOrder
  <2> QED
    BY <2>1, <2>2, EmptyTotalled DEF BooksTotalled
<1>3. ASSUME NEW id \in OrderIds, Cancel(id) \/ CancelFromCallback(id)
      PROVE  BooksTotalled'
  <2>1. IsOpen(id) /\ Withdraw(id)
    BY <1>3 DEF Cancel, CancelFromCallback, CancelReject
  <2> QED
    BY <2>1, WithdrawTotalled
<1>4. ASSUME NEW id \in OrderIds, NEW new_id \in OrderIds, NEW p \in ReplacePrices,
             NEW q \in ReplaceQtys, Replace(id, new_id, p, q)
      PROVE  BooksTotalled'
  <2>1. CASE ReplaceToNothing(id, new_id, p, q)
    <3>1. IsOpen(id) /\ Withdraw(id)
      BY <2>1 DEF ReplaceToNothing, ReplaceReject
    <3> QED
      BY <3>1, WithdrawTotalled
  <2>2. CASE ReplaceLosing(id, new_id, p, q)
    BY <2>2, ReplaceLosingTotalled
  <2>3. CASE ReplaceKeeping(id, new_id, p, q)
    BY <2>3, ReplaceKeepingTotalled
  <2> QED
    BY <1>4, <2>1, <2>2, <2>3 DEF Replace
<1>5. CASE ApplyTrade
  BY <1>5, ApplyTradeTotalled
<1>6. CASE RestRemainder
  BY <1>6, RestRemainderTotalled
<1>7. CASE Host
  BY <1>1, <1>2, <1>3, <1>4, <1>7 DEF Host, RejectedCall
<1>8. CASE Proceed
  BY <1>1, <1>5, <1>6, <1>8 DEF Proceed, CancelUnfillable, CancelRemainder
<1>9. CASE Fault
  BY <1>1, <1>3, <1>9 DEF Fault
<1> QED
  BY <1>1, <1>7, <1>8, <1>9 DEF Next

(***************************************************************************)
(* Each level counts its orders exactly and its quantity up to the width   *)
(* of Quantity, for every width, in every state: add_resting,              *)
(* remove_resting, replace_in_place (order_book.cpp) and the trade itself  *)
(* (engine.cpp), each adding or subtracting on its own, never drift apart  *)
(* from the orders.                                                        *)
(***************************************************************************)
THEOREM LevelsAddUpHolds == FaultSpec => []LevelsAddUp
<1>1. Init => IInv /\ BooksAggregated /\ BooksTotalled
  BY InitInv, InitAggregated, InitTotalled
<1>2. IInv /\ BooksAggregated /\ BooksTotalled /\ [Next \/ Fault]_vars
        => (IInv /\ BooksAggregated /\ BooksTotalled)'
  BY NextInv, NextAggregated, NextTotalled
<1>3. IInv /\ BooksAggregated /\ BooksTotalled => LevelsAddUp
  BY DEF BooksAggregated, Aggregated, Counted, BooksTotalled, Totalled, LevelSum, LevelsAddUp
<1> QED
  BY <1>1, <1>2, <1>3, PTL DEF FaultSpec

=============================================================================
