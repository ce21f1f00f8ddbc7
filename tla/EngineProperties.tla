--------------------------- MODULE EngineProperties ---------------------------
(***************************************************************************)
(* What the engine must never do, stated over the states of Engine.        *)
(***************************************************************************)
EXTENDS Engine

(***************************************************************************)
(* The shape of the state.  Quantities and links are unsigned words, so    *)
(* this also says that no arithmetic on them leaves the word.              *)
(***************************************************************************)
TypeOK ==
  /\ instrument_index \in SUBSET Instruments
  /\ order_index \in [OrderIds -> Link]
  /\ pool \in [Slots -> OrderRecord]
  /\ pool_size \in 0 .. PoolCapacity
  /\ DOMAIN books = Instruments
  /\ \A i \in Instruments : books[i] \in Book(i)
  /\ next_trade_id \in Nat \ {0}
  /\ pc \in PCs
  /\ call \in Call
  /\ arrival \in [Slots -> Slots]
  /\ view \in [OrderIds -> [open : Int, filled : Int]]

-----------------------------------------------------------------------------
OpenSlots == {s \in Slots : pool[s].is_open}

(***************************************************************************)
(* The intrusive lists are lists: a resting order has a level of its       *)
(* instrument's ladder, the one of its price, and each level's list is     *)
(* threaded through exactly the orders that rest on it.  Violated by any   *)
(* unlink or splice in order_book.cpp that misses one end.                 *)
(***************************************************************************)
FifoLinked ==
  /\ \A s \in OpenSlots :
       LET i == pool[s].instrument_id
       IN /\ i \in instrument_index
          /\ pool[s].level_index \in Index(i)
          /\ index_to_price(i, pool[s].level_index) = pool[s].price
  /\ \A i \in Instruments, side \in Side : \A x \in Index(i) :
       QueueLinked(pool, books[i].levels[side][x], Queue(pool, i, side, x))

(***************************************************************************)
(* Each level's queue runs from the order that has waited longest to the   *)
(* latest one, where a replace that keeps priority inherits the turn of    *)
(* the order it replaces (matching_engine_api.hpp:146-148).                *)
(***************************************************************************)
QueuesInArrivalOrder ==
  \A i \in Instruments, side \in Side : \A x \in Index(i) :
    QueueOrdered(pool, Queue(pool, i, side, x), arrival)

OpenQuantities(p) == [s \in Slots |-> p[s].open_qty]

(***************************************************************************)
(* The aggregates of a level are those of the orders resting on it: the    *)
(* count exactly, the quantity up to the width of Quantity.  A level whose *)
(* total wraps to zero is still occupied.                                  *)
(***************************************************************************)
LevelsAddUp ==
  \A i \in Instruments, side \in Side : \A x \in Index(i) :
    LET lvl   == books[i].levels[side][x]
        queue == Queue(pool, i, side, x)
    IN /\ lvl.order_count = Cardinality(queue)
       /\ lvl.total_qty = SumFunctionOnSet(OpenQuantities(pool), queue) % QtyMod

(***************************************************************************)
(* The bitmap marks exactly the occupied levels, and the cached best index *)
(* is the best of them, -1 when there is none: what top_of_book and the    *)
(* matching loop read without looking at the levels.                       *)
(***************************************************************************)
BestIsBest ==
  \A i \in Instruments, side \in Side :
    LET bits == books[i].bitmap[side]
        best == books[i].best[side]
    IN /\ bits = {x \in Index(i) : Queue(pool, i, side, x) # {}}
       /\ IF bits = {} THEN best = -1
          ELSE best \in bits /\ \A x \in bits : ~Better(side, x, best)

(***************************************************************************)
(* No bid rests at or above an ask, at any moment a callback or a caller   *)
(* can look: the "resting-order invariant" that engine.cpp:325-328 relies  *)
(* on to skip matching after a replace of the quantity alone.              *)
(***************************************************************************)
NeverCrossed ==
  \A s, t \in OpenSlots :
    (pool[s].instrument_id = pool[t].instrument_id /\ pool[s].side = "kBuy"
       /\ pool[t].side = "kSell") => pool[s].price < pool[t].price

(***************************************************************************)
(* Every resting order is the one its id leads to, so that cancel and      *)
(* replace can reach it, the same-id replace included.                     *)
(***************************************************************************)
OpenOrdersReachable ==
  \A s \in OpenSlots : order_index[pool[s].id] = s

(***************************************************************************)
(* A trade is made with the order that price and time priority picks: no   *)
(* other order resting on that side has a better price, or the same price  *)
(* and an earlier turn, and the price is within the aggressor's limit.     *)
(***************************************************************************)
PriceTimePriority ==
  pc = "on_trade" =>
    LET resting == pool[call.resting]
    IN /\ resting.is_open
       /\ resting.instrument_id = Instr
       /\ resting.side = Opposite(call.side)
       /\ call.is_market \/ crosses(call.side, call.price, resting.price)
       /\ \A s \in OpenSlots \ {call.resting} :
            (pool[s].instrument_id = Instr /\ pool[s].side = resting.side) =>
              IF resting.price = pool[s].price THEN arrival[call.resting] < arrival[s]
              ELSE Better(resting.side, resting.price, pool[s].price)

(***************************************************************************)
(* A listener that only adds up what the callbacks report knows the book:  *)
(* whenever no execution is half way through, its open and filled          *)
(* quantities for an order are the engine's, and orders it holds to be     *)
(* closed are closed.  The order the call in progress is about counts with *)
(* what is left of it.                                                     *)
(***************************************************************************)
Live(s) == pool[s].is_open \/ s = call.slot

ReplicaAgrees ==
  pc # "on_trade" =>
    \A id \in OrderIds :
      IF contains(id) /\ Live(order_index[id])
      THEN LET rec == pool[order_index[id]]
           IN view[id] = [open |-> rec.open_qty, filled |-> rec.filled_qty]
      ELSE view[id].open = 0

(***************************************************************************)
(* What an order has filled and what it has left fit in one Quantity       *)
(* together, through any chain of partial fills and replaces, so that the  *)
(* cumulative filled_qty never wraps although level totals may.            *)
(***************************************************************************)
OrderQuantitiesFit ==
  \A s \in Slots : pool[s].open_qty + pool[s].filled_qty < QtyMod

(***************************************************************************)
(* A fill-or-kill order that begins to match fills in full: the branch of  *)
(* engine.cpp:218 that would cancel its remainder is never taken.          *)
(***************************************************************************)
FokFillsWhole ==
  pc = "finish" /\ call.tif = "kFok" => Agg.open_qty = 0

(***************************************************************************)
(* Matching stops only when there is nothing left to match: an order that  *)
(* has open quantity when its call comes to rest or cancel it finds no     *)
(* resting order on the other side that it could trade with.  For the      *)
(* replace of a quantity alone, which skips run_matching, this is the      *)
(* claim of engine.cpp:325-328.                                            *)
(***************************************************************************)
MatchingExhausted ==
  pc = "finish" /\ Agg.open_qty > 0 =>
    \A s \in OpenSlots :
      (pool[s].instrument_id = Instr /\ pool[s].side = Opposite(call.side)) =>
        ~(call.is_market \/ crosses(call.side, call.price, pool[s].price))

\* The id was used, and the order it leads to neither rests nor executes.
IsClosed(id) == contains(id) /\ ~Live(order_index[id])

(***************************************************************************)
(* An id that is closed, or was refused or left behind by a call cut       *)
(* short, is so for ever: no submit and no replace, at any point of the    *)
(* call, gives it to another order or brings the old one back to the book  *)
(* (on_canceled: "gone from the book and will not trade again").           *)
(***************************************************************************)
ClosedStaysClosed == [][\A id \in OrderIds : IsClosed(id) => IsClosed(id)']_vars

(***************************************************************************)
(* Every call returns: neither matching loop can spin.                     *)
(***************************************************************************)
CallsReturn == (pc # "idle") ~> (pc = "idle")

(***************************************************************************)
(* Of everything wrong with an order, submit reports what RejectReason     *)
(* lists first, though it looks at time in force before tick and band      *)
(* (matching_engine_api.hpp:78-89).                                        *)
(***************************************************************************)
Wrong(id, o) ==
  {r \in 0 .. 5 :
     CASE r = 0 -> o.instrument_id \notin instrument_index
       [] r = 1 -> contains(id)
       [] r = 2 -> o.quantity = 0
       [] r = 3 -> ~IsMarket(o) /\ ~tick_aligned(o.price)
       [] r = 4 -> ~IsMarket(o) /\ o.instrument_id \in instrument_index
                                /\ ~in_band(o.instrument_id, o.price)
       [] r = 5 -> IsMarket(o) /\ o.tif = "kDay"}

Listed == <<"kUnknownInstrument", "kDuplicateOrderId", "kInvalidQuantity",
            "kInvalidPriceTick", "kPriceOutOfBand", "kInvalidTimeInForce">>

SubmitReportsFirstListed ==
  configured =>
    \A id \in OrderIds, o \in Orders :
      SubmitReject(id, o) =
        IF Wrong(id, o) = {} THEN "none" ELSE Listed[Min(Wrong(id, o)) + 1]

=============================================================================
