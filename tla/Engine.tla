-------------------------------- MODULE Engine --------------------------------
(***************************************************************************)
(* The matching engine of src/engine.cpp: configure, submit, cancel and    *)
(* replace over the books of OrderBook, one shared order pool and one id   *)
(* index.                                                                  *)
(*                                                                         *)
(* The engine is single-threaded and calls its listener synchronously, so  *)
(* the only points at which anything else can run are the callbacks made   *)
(* while a handler still has work to do: on_accepted, on_trade and the     *)
(* on_replaced that precedes matching.  A handler is therefore a chain of  *)
(* actions that stops at each of those callbacks (pc names the callback    *)
(* the listener is in) and at each head of the two matching loops.  A      *)
(* callback that ends its handler is part of the handler's last action.    *)
(*                                                                         *)
(* A definition marked "Slip" is no part of the model: it is the operator  *)
(* below it with a mistake the code could have made, which the properties  *)
(* of EngineProperties have to notice.                                     *)
(***************************************************************************)
EXTENDS OrderBook

CONSTANTS
  Orders,          \* what a NewOrder may hold besides its order_id
  ReplacePrices,   \* prices a replace may ask for
  ReplaceQtys,     \* total quantities a replace may ask for
  AlignedPrices,   \* prices for which is_tick_aligned holds
  ConfigureCalls   \* instrument lists a host may pass to configure

NewOrder ==
  [instrument_id : Instruments, side : Side, type : {"kLimit", "kMarket"},
   tif : {"kDay", "kIoc", "kFok"}, price : Int, quantity : Quantity]

ASSUME InputAssumption ==
  /\ Orders \subseteq NewOrder
  /\ ReplacePrices \subseteq Int
  /\ ReplaceQtys \subseteq Quantity
  /\ ConfigureCalls \subseteq SUBSET Instruments
  /\ Unset \notin Instruments \cup OrderIds

\* Every price a ladder holds sits on its tick (PriceLadder::build steps by
\* the tick of the bracket it is in).
ASSUME AlignmentAssumption ==
  \A i \in Instruments : \A x \in Index(i) : Ladder[i][x] \in AlignedPrices

VARIABLES
  instrument_index, \* instruments configured so far; {} while unconfigured
  order_index,      \* order id -> pool slot, kInvalidSlot when never used
  pool,             \* slot -> OrderRecord
  pool_size,        \* slots allocated so far
  books,            \* instrument -> its book
  next_trade_id,
  pc,               \* where the call in progress is; "idle" between calls
  call,             \* its arguments and locals that outlive a callback
  arrival,          \* history: slot -> slot whose turn in its queue it has
  view              \* history: order id -> the open and filled quantities
                    \* that a listener adding up the callbacks arrives at

vars == <<instrument_index, order_index, pool, pool_size, books,
          next_trade_id, pc, call, arrival, view>>

-----------------------------------------------------------------------------
configured == instrument_index # {}

Callbacks == {"on_accepted", "on_replaced", "on_trade"}
PCs       == {"idle", "match", "level", "finish"} \cup Callbacks

Call ==
  [slot : Link, side : Side, tif : {"kDay", "kIoc", "kFok"}, is_market : BOOLEAN,
   price : Int, price_changed : BOOLEAN, idx : Int, resting : Link, fill : Quantity]

NoCall ==
  [slot |-> kInvalidSlot, side |-> "kBuy", tif |-> "kDay", is_market |-> FALSE,
   price |-> 0, price_changed |-> FALSE, idx |-> -1, resting |-> kInvalidSlot,
   fill |-> 0]

Init ==
  /\ instrument_index = {}
  /\ order_index = [id \in OrderIds |-> kInvalidSlot]
  /\ pool = [s \in Slots |-> NewRecord]
  /\ pool_size = 0
  /\ books = [i \in Instruments |-> EmptyBook(i)]
  /\ next_trade_id = 1
  /\ pc = "idle"
  /\ call = NoCall
  /\ arrival = [s \in Slots |-> s]
  /\ view = [id \in OrderIds |-> [open |-> 0, filled |-> 0]]

Return == pc' = "idle" /\ call' = NoCall

(***************************************************************************)
(* configure: the first call that names at least one instrument and no     *)
(* invalid one takes effect.  Every other call returns a result other than *)
(* kOk and changes nothing.                                                *)
(***************************************************************************)
Configure(ids) ==
  /\ pc = "idle"
  /\ ~configured
  /\ ids # {}
  /\ instrument_index' = ids
  /\ books' = [i \in Instruments |-> EmptyBook(i)]
  /\ UNCHANGED <<order_index, pool, pool_size, next_trade_id, pc, call, arrival, view>>

-----------------------------------------------------------------------------
(***************************************************************************)
(* Lookups in the id index.                                                *)
(***************************************************************************)
contains(id) == order_index[id] # kInvalidSlot
IsOpen(id)   == contains(id) /\ pool[order_index[id]].is_open

tick_aligned(price) == price \in AlignedPrices
in_band(i, price)   == price_to_index(i, price) >= 0

\* Slip: equal prices do not cross.
crosses_strictly(side, limit_price, resting_price) ==
  IF side = "kBuy" THEN limit_price > resting_price ELSE limit_price < resting_price

\* Does an order of `side` limited to limit_price trade at resting_price?
crosses(side, limit_price, resting_price) ==
  IF side = "kBuy" THEN limit_price >= resting_price ELSE limit_price <= resting_price

\* Slip: the sides are swapped.
Marketable_swapped(i, side, is_market, limit_price, x) ==
  is_market \/ crosses(Opposite(side), limit_price, index_to_price(i, x))

Marketable(i, side, is_market, limit_price, x) ==
  is_market \/ crosses(side, limit_price, index_to_price(i, x))

(***************************************************************************)
(* can_fully_fill: walk the occupied levels opposite `side` from the best  *)
(* one while they cross, adding their totals up in a Quantity, and succeed *)
(* as soon as the sum reaches `needed`.  Levels cross from the best one    *)
(* outwards, so the levels summed when the walk stands at x are those at   *)
(* least as good as x.                                                     *)
(***************************************************************************)
LevelsThrough(book, side, x) ==
  {y \in book.bitmap[side] : ~Better(side, x, y) /\ ~Better(side, y, book.best[side])}

LevelTotals(book, side) ==
  [y \in DOMAIN book.levels[side] |-> book.levels[side][y].total_qty]

AvailableThrough(book, side, x) ==
  SumFunctionOnSet(LevelTotals(book, side), LevelsThrough(book, side, x))

\* Slip: the walk does not stop at the limit price.
can_fully_fill_at_any_price(i, side, is_market, limit_price, needed) ==
  \E x \in books[i].bitmap[Opposite(side)] :
    AvailableThrough(books[i], Opposite(side), x) % QtyMod >= needed

can_fully_fill(i, side, is_market, limit_price, needed) ==
  LET book == books[i]
      opp  == Opposite(side)
  IN /\ has_best(book, opp)
     /\ \E x \in book.bitmap[opp] :
          /\ Marketable(i, side, is_market, limit_price, x)
          /\ AvailableThrough(book, opp, x) % QtyMod >= needed

-----------------------------------------------------------------------------
(***************************************************************************)
(* submit                                                                  *)
(***************************************************************************)
IsMarket(o) == o.type = "kMarket"

\* Slip: the id is looked up after the order itself has been validated.
SubmitReject_id_last(id, o) ==
  IF ~configured THEN "kNotConfigured"
  ELSE IF o.instrument_id \notin instrument_index THEN "kUnknownInstrument"
  ELSE IF o.quantity = 0 THEN "kInvalidQuantity"
  ELSE IF IsMarket(o) /\ o.tif = "kDay" THEN "kInvalidTimeInForce"
  ELSE IF ~IsMarket(o) /\ ~tick_aligned(o.price) THEN "kInvalidPriceTick"
  ELSE IF ~IsMarket(o) /\ ~in_band(o.instrument_id, o.price) THEN "kPriceOutOfBand"
  ELSE IF contains(id) THEN "kDuplicateOrderId"
  ELSE "none"

\* Slip: an id is taken only as long as its order rests.
SubmitReject_while_open(id, o) ==
  IF ~configured THEN "kNotConfigured"
  ELSE IF o.instrument_id \notin instrument_index THEN "kUnknownInstrument"
  ELSE IF IsOpen(id) THEN "kDuplicateOrderId"
  ELSE IF o.quantity = 0 THEN "kInvalidQuantity"
  ELSE IF IsMarket(o) /\ o.tif = "kDay" THEN "kInvalidTimeInForce"
  ELSE IF ~IsMarket(o) /\ ~tick_aligned(o.price) THEN "kInvalidPriceTick"
  ELSE IF ~IsMarket(o) /\ ~in_band(o.instrument_id, o.price) THEN "kPriceOutOfBand"
  ELSE "none"

\* The reason submit refuses order o under this id, or "none".
SubmitReject(id, o) ==
  IF ~configured THEN "kNotConfigured"
  ELSE IF o.instrument_id \notin instrument_index THEN "kUnknownInstrument"
  ELSE IF contains(id) THEN "kDuplicateOrderId"
  ELSE IF o.quantity = 0 THEN "kInvalidQuantity"
  ELSE IF IsMarket(o) /\ o.tif = "kDay" THEN "kInvalidTimeInForce"
  ELSE IF ~IsMarket(o) /\ ~tick_aligned(o.price) THEN "kInvalidPriceTick"
  ELSE IF ~IsMarket(o) /\ ~in_band(o.instrument_id, o.price) THEN "kPriceOutOfBand"
  ELSE "none"

\* Refusals that come after the id has been spent on a slot of its own.
Spending == {"kInvalidQuantity", "kInvalidTimeInForce", "kInvalidPriceTick",
             "kPriceOutOfBand"}

\* A refused order whose id is spent all the same.
SubmitRefused(id, o) ==
  /\ pc = "idle"
  /\ SubmitReject(id, o) \in Spending
  /\ pool_size < PoolCapacity
  /\ pool_size' = pool_size + 1
  /\ pool' = [pool EXCEPT ![pool_size] =
       [NewRecord EXCEPT !.id = id, !.instrument_id = o.instrument_id, !.side = o.side]]
  /\ order_index' = [order_index EXCEPT ![id] = pool_size]
  /\ UNCHANGED <<instrument_index, books, next_trade_id, pc, call, arrival, view>>

\* An accepted order, up to the on_accepted callback.
Submit(id, o) ==
  /\ pc = "idle"
  /\ SubmitReject(id, o) = "none"
  /\ pool_size < PoolCapacity
  /\ pool_size' = pool_size + 1
  /\ pool' = [pool EXCEPT ![pool_size] =
       [NewRecord EXCEPT !.id = id, !.instrument_id = o.instrument_id, !.side = o.side,
                         !.open_qty = o.quantity]]
  /\ order_index' = [order_index EXCEPT ![id] = pool_size]
  /\ view' = [view EXCEPT ![id].open = o.quantity]
  /\ pc' = "on_accepted"
  /\ call' = [NoCall EXCEPT !.slot = pool_size, !.side = o.side, !.tif = o.tif,
                            !.is_market = IsMarket(o),
                            !.price = IF IsMarket(o) THEN 0 ELSE o.price]
  /\ UNCHANGED <<instrument_index, books, next_trade_id, arrival>>

\* The record and the instrument of the order the call is about.
Agg   == pool[call.slot]
Instr == Agg.instrument_id

Unfillable ==
  /\ call.tif = "kFok"
  /\ ~can_fully_fill(Instr, call.side, call.is_market, call.price, Agg.open_qty)

\* The aggressor's remainder is dropped and on_canceled ends the call.
DropRemainder ==
  /\ view' = [view EXCEPT ![Agg.id].open = @ - Agg.open_qty]
  /\ pool' = [pool EXCEPT ![call.slot].open_qty = 0]
  /\ Return
  /\ UNCHANGED <<instrument_index, order_index, pool_size, books, next_trade_id, arrival>>

CancelUnfillable == pc = "on_accepted" /\ Unfillable /\ DropRemainder

StartMatching ==
  /\ pc = "on_accepted"
  /\ ~Unfillable
  /\ pc' = "match"
  /\ UNCHANGED <<instrument_index, order_index, pool, pool_size, books,
                 next_trade_id, call, arrival, view>>

-----------------------------------------------------------------------------
(***************************************************************************)
(* run_matching: the outer loop picks the best opposite level, the inner   *)
(* loop trades with the orders of that level from its head.  on_trade is   *)
(* called before any of the trade's effects is applied.                    *)
(***************************************************************************)
CanTrade ==
  LET opp == Opposite(call.side)
  IN /\ Agg.open_qty > 0
     /\ has_best(books[Instr], opp)
     /\ Marketable(Instr, call.side, call.is_market, call.price, books[Instr].best[opp])

PickLevel ==
  /\ pc = "match"
  /\ CanTrade
  /\ pc' = "level"
  /\ call' = [call EXCEPT !.idx = books[Instr].best[Opposite(call.side)]]
  /\ UNCHANGED <<instrument_index, order_index, pool, pool_size, books,
                 next_trade_id, arrival, view>>

MatchingDone ==
  /\ pc = "match"
  /\ ~CanTrade
  /\ pc' = "finish"
  /\ UNCHANGED <<instrument_index, order_index, pool, pool_size, books,
                 next_trade_id, call, arrival, view>>

CurrentLevel == books[Instr].levels[Opposite(call.side)][call.idx]

Smaller(a, b) == IF b < a THEN b ELSE a

\* What a listener makes of an execution reported for an order.
Seen(v, fill) == [open |-> v.open - fill, filled |-> v.filled + fill]

Trade ==
  LET resting == CurrentLevel.head
      fill    == Smaller(Agg.open_qty, pool[resting].open_qty)
  IN /\ pc = "level"
     /\ Agg.open_qty > 0
     /\ resting # kInvalidSlot
     /\ next_trade_id' = next_trade_id + 1
     /\ view' = [view EXCEPT ![pool[resting].id] = Seen(@, fill), ![Agg.id] = Seen(@, fill)]
     /\ pc' = "on_trade"
     /\ call' = [call EXCEPT !.resting = resting, !.fill = fill]
     /\ UNCHANGED <<instrument_index, order_index, pool, pool_size, books, arrival>>

\* Slip: the cumulative count is forgotten.
Filled_open_only(rec, fill) == [rec EXCEPT !.open_qty = Minus(@, fill)]

Filled(rec, fill) ==
  [rec EXCEPT !.open_qty = Minus(@, fill), !.filled_qty = Plus(@, fill)]

\* Slip: the level's total is left alone.
BookFill_orders_only(book, side, x, fill) == book

\* The opposite book with the fill taken off the level's total.
BookFill(book, side, x, fill) ==
  [book EXCEPT !.levels[side][x].total_qty = Minus(@, fill)]

\* Back from on_trade: the fill is booked on both orders and on the level,
\* and a resting order that has nothing left leaves the book.
ApplyTrade ==
  LET opp    == Opposite(call.side)
      filled == [pool EXCEPT ![call.slot] = Filled(@, call.fill),
                             ![call.resting] = Filled(@, call.fill)]
      book   == BookFill(books[Instr], opp, call.idx, call.fill)
      after  == IF filled[call.resting].open_qty = 0
                THEN remove_resting(filled, book, call.resting)
                ELSE [pool |-> filled, book |-> book]
  IN /\ pc = "on_trade"
     /\ pool' = after.pool
     /\ books' = [books EXCEPT ![Instr] = after.book]
     /\ pc' = "level"
     /\ call' = [call EXCEPT !.resting = kInvalidSlot, !.fill = 0]
     /\ UNCHANGED <<instrument_index, order_index, pool_size, next_trade_id, arrival, view>>

LeaveLevel ==
  /\ pc = "level"
  /\ Agg.open_qty = 0 \/ CurrentLevel.head = kInvalidSlot
  /\ pc' = "match"
  /\ call' = [call EXCEPT !.idx = -1]
  /\ UNCHANGED <<instrument_index, order_index, pool, pool_size, books,
                 next_trade_id, arrival, view>>

(***************************************************************************)
(* The end of submit and of a replace that matched: what is left of a Day  *)
(* order rests, what is left of any other order is cancelled.              *)
(***************************************************************************)
FullyFilled ==
  /\ pc = "finish"
  /\ Agg.open_qty = 0
  /\ Return
  /\ UNCHANGED <<instrument_index, order_index, pool, pool_size, books,
                 next_trade_id, arrival, view>>

RestRemainder ==
  LET after == add_resting(pool, books[Instr], Instr, call.slot, call.side, call.price)
  IN /\ pc = "finish"
     /\ Agg.open_qty > 0
     /\ call.tif = "kDay"
     /\ pool' = after.pool
     /\ books' = [books EXCEPT ![Instr] = after.book]
     /\ Return
     /\ UNCHANGED <<instrument_index, order_index, pool_size, next_trade_id, arrival, view>>

CancelRemainder ==
  pc = "finish" /\ Agg.open_qty > 0 /\ call.tif # "kDay" /\ DropRemainder

-----------------------------------------------------------------------------
(***************************************************************************)
(* cancel, and the replace that leaves nothing open and so is a cancel.    *)
(***************************************************************************)
CancelReject(id) ==
  IF ~configured THEN "kNotConfigured" ELSE IF ~IsOpen(id) THEN "kUnknownOrder" ELSE "none"

Withdraw(id) ==
  LET slot  == order_index[id]
      i     == pool[slot].instrument_id
      after == remove_resting(pool, books[i], slot)
  IN /\ pool' = after.pool
     /\ books' = [books EXCEPT ![i] = after.book]
     /\ view' = [view EXCEPT ![id].open = @ - pool[slot].open_qty]
     /\ UNCHANGED <<instrument_index, order_index, pool_size, next_trade_id, pc, call, arrival>>

Cancel(id) == pc = "idle" /\ CancelReject(id) = "none" /\ Withdraw(id)

-----------------------------------------------------------------------------
(***************************************************************************)
(* replace of order id by new_id at price p with total quantity q          *)
(***************************************************************************)
\* Slip: the new total quantity is taken for the open one.
NewOpen_total(id, q) == q

NewOpen(id, q) ==
  LET filled == pool[order_index[id]].filled_qty
  IN IF q > filled THEN q - filled ELSE 0

\* Slips: the new id is not looked up; it is taken only while its order rests.
NewIdTaken_never(id, new_id)      == FALSE
NewIdTaken_while_open(id, new_id) == new_id # id /\ IsOpen(new_id)

\* The order may keep its own id, and may take no other id that was ever used.
NewIdTaken(id, new_id) == new_id # id /\ contains(new_id)

\* The reason replace refuses, or "none".  A replace down to nothing is
\* never refused: it returns as a cancel before the checks on new_id and p.
ReplaceReject(id, new_id, p, q) ==
  IF ~configured THEN "kNotConfigured"
  ELSE IF ~IsOpen(id) THEN "kUnknownOrder"
  ELSE IF NewOpen(id, q) = 0 THEN "none"
  ELSE IF NewIdTaken(id, new_id) THEN "kDuplicateOrderId"
  ELSE IF ~tick_aligned(p) THEN "kInvalidPriceTick"
  ELSE IF ~in_band(pool[order_index[id]].instrument_id, p) THEN "kPriceOutOfBand"
  ELSE "none"

ReplaceToNothing(id, new_id, p, q) ==
  /\ pc = "idle"
  /\ ReplaceReject(id, new_id, p, q) = "none"
  /\ NewOpen(id, q) = 0
  /\ Withdraw(id)

PriceChanged(id, p) == p # pool[order_index[id]].price
QtyIncreased(id, q) == NewOpen(id, q) > pool[order_index[id]].open_qty

\* Slips: a larger quantity keeps its place; every replace goes to the back.
LosesPriority_on_price(id, p, q) == PriceChanged(id, p)
LosesPriority_always(id, p, q)   == TRUE

LosesPriority(id, p, q) == PriceChanged(id, p) \/ QtyIncreased(id, q)

\* History: the turn that the rules of ReplaceOrder give the replacement, which
\* keeps the old one's when the price stays and the open quantity does not grow
\* (matching_engine_api.hpp:146-148).
Turn(id, p, q) ==
  LET old == pool[order_index[id]]
  IN IF p = old.price /\ NewOpen(id, q) <= old.open_qty THEN arrival[order_index[id]]
     ELSE pool_size

\* The pool with the fresh slot the replacement gets, filled counts included.
WithReplacement(id, new_id, p, q) ==
  LET old == pool[order_index[id]]
  IN [pool EXCEPT ![pool_size] =
       [NewRecord EXCEPT !.id = new_id, !.instrument_id = old.instrument_id,
                         !.side = old.side, !.price = p, !.open_qty = NewOpen(id, q),
                         !.filled_qty = old.filled_qty]]

ReplaceAllowed(id, new_id, p, q) ==
  /\ pc = "idle"
  /\ ReplaceReject(id, new_id, p, q) = "none"
  /\ NewOpen(id, q) > 0
  /\ pool_size < PoolCapacity

\* on_replaced: the listener drops the old id and takes up the new one, which
\* inherits what the order has filled so far.
ReplacedView(id, new_id, q) ==
  [view EXCEPT ![id].open = 0,
               ![new_id] = [open |-> NewOpen(id, q), filled |-> view[id].filled]]

\* The old order leaves the book before on_replaced is called; the new one
\* is matched and rested only after the callback returns.
ReplaceLosing(id, new_id, p, q) ==
  LET old   == pool[order_index[id]]
      after == remove_resting(WithReplacement(id, new_id, p, q),
                              books[old.instrument_id], order_index[id])
  IN /\ ReplaceAllowed(id, new_id, p, q)
     /\ LosesPriority(id, p, q)
     /\ pool' = after.pool
     /\ pool_size' = pool_size + 1
     /\ books' = [books EXCEPT ![old.instrument_id] = after.book]
     /\ order_index' = [order_index EXCEPT ![new_id] = pool_size]
     /\ view' = ReplacedView(id, new_id, q)
     /\ pc' = "on_replaced"
     /\ call' = [NoCall EXCEPT !.slot = pool_size, !.side = old.side, !.price = p,
                               !.price_changed = PriceChanged(id, p)]
     /\ arrival' = [arrival EXCEPT ![pool_size] = Turn(id, p, q)]
     /\ UNCHANGED <<instrument_index, next_trade_id>>

ReplaceKeeping(id, new_id, p, q) ==
  LET old_slot == order_index[id]
      i        == pool[old_slot].instrument_id
      after    == replace_in_place(WithReplacement(id, new_id, p, q), books[i],
                                   old_slot, pool_size)
  IN /\ ReplaceAllowed(id, new_id, p, q)
     /\ ~LosesPriority(id, p, q)
     /\ pool' = after.pool
     /\ pool_size' = pool_size + 1
     /\ books' = [books EXCEPT ![i] = after.book]
     /\ order_index' = [order_index EXCEPT ![new_id] = pool_size]
     /\ arrival' = [arrival EXCEPT ![pool_size] = Turn(id, p, q)]
     /\ view' = ReplacedView(id, new_id, q)
     /\ UNCHANGED <<instrument_index, next_trade_id, pc, call>>

\* Slip: the replacement rests without a look at the other side.
AfterReplaced_unmatched ==
  /\ pc = "on_replaced"
  /\ pc' = "finish"
  /\ UNCHANGED <<instrument_index, order_index, pool, pool_size, books,
                 next_trade_id, call, arrival, view>>

\* Back from on_replaced: only a change of price can make the order cross.
AfterReplaced ==
  /\ pc = "on_replaced"
  /\ pc' = IF call.price_changed THEN "match" ELSE "finish"
  /\ UNCHANGED <<instrument_index, order_index, pool, pool_size, books,
                 next_trade_id, call, arrival, view>>

-----------------------------------------------------------------------------
\* Some call would be refused before it changed anything.
SomeCallRefused ==
  \/ \E id \in OrderIds : CancelReject(id) # "none"
  \/ \E id \in OrderIds, o \in Orders : SubmitReject(id, o) \notin Spending \cup {"none"}
  \/ \E id, new_id \in OrderIds, p \in ReplacePrices, q \in ReplaceQtys :
       ReplaceReject(id, new_id, p, q) # "none"

\* Such a call: on_rejected and return.
RejectedCall ==
  /\ pc = "idle"
  /\ SomeCallRefused = TRUE
  /\ UNCHANGED vars

Replace(id, new_id, p, q) ==
  \/ ReplaceToNothing(id, new_id, p, q)
  \/ ReplaceLosing(id, new_id, p, q)
  \/ ReplaceKeeping(id, new_id, p, q)

\* The host starts a call.
Host ==
  \/ \E ids \in ConfigureCalls : Configure(ids)
  \/ \E id \in OrderIds, o \in Orders : Submit(id, o)
  \/ \E id \in OrderIds, o \in Orders : SubmitRefused(id, o)
  \/ \E id \in OrderIds : Cancel(id)
  \/ \E id, new_id \in OrderIds, p \in ReplacePrices, q \in ReplaceQtys :
       Replace(id, new_id, p, q)
  \/ RejectedCall

\* The engine carries the call in progress on.
Proceed ==
  \/ CancelUnfillable \/ StartMatching
  \/ PickLevel \/ Trade \/ ApplyTrade \/ LeaveLevel \/ MatchingDone
  \/ FullyFilled \/ RestRemainder \/ CancelRemainder
  \/ AfterReplaced

Next == Host \/ Proceed

\* A call once made runs to its end on the host's own thread; nothing obliges
\* the host to make another one.
Spec == Init /\ [][Next]_vars /\ WF_vars(Proceed)

=============================================================================
