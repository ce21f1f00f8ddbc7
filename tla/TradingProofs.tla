----------------------------- MODULE TradingProofs -----------------------------
(***************************************************************************)
(* What matching does to the book: a trade is with the order that price    *)
(* and time priority picks, matching stops only when nothing is left to    *)
(* match, and so no bid ever rests at or above an ask.                     *)
(*                                                                         *)
(* The three depend on each other and on what is proved before: the level  *)
(* run_matching picks is the best one because the best index is right      *)
(* (BooksAggregated), its head is the order that has waited longest        *)
(* because the lists are in order (BooksFit), and a remainder may rest     *)
(* because matching was exhausted.  Between the callback that reports a    *)
(* trade and the next one orders only leave the opposite side.             *)
(***************************************************************************)
EXTENDS EngineProofs

\* The resting orders the order of the call in progress could trade with.
Opposing ==
  {s \in OpenSlots : pool[s].instrument_id = Instr /\ pool[s].side = Opposite(call.side)}

\* The level being matched is within the limit, and no occupied one is better.
NoneBetter ==
  /\ Marketable(Instr, call.side, call.is_market, call.price, call.idx)
  /\ \A s \in Opposing : ~Better(Opposite(call.side), pool[s].level_index, call.idx)

\* The resting order of the trade under way has waited longest on its level.
FirstInTurn ==
  \A s \in Opposing \ {call.resting} :
    pool[s].level_index = call.idx => arrival[call.resting] < arrival[s]

NothingToMatch ==
  \A s \in Opposing : ~(call.is_market \/ crosses(call.side, call.price, pool[s].price))

\* The points at which an order may come to rest without being matched again.
Settled == pc = "finish" \/ (pc = "on_replaced" /\ ~call.price_changed)

CallMatches ==
  /\ pc \in {"level", "on_trade"} => NoneBetter
  /\ pc = "on_trade" => FirstInTurn
  /\ Settled /\ Agg.open_qty > 0 => NothingToMatch

MInv == IInv /\ BooksAggregated /\ NeverCrossed /\ CallMatches

-----------------------------------------------------------------------------
(***************************************************************************)
(* Steps after which no order rests that did not rest before.              *)
(***************************************************************************)
Remaining(pool_before, pool_after) ==
  \A s \in Slots :
    pool_after[s].is_open =>
      /\ pool_before[s].is_open
      /\ pool_after[s].instrument_id = pool_before[s].instrument_id
      /\ pool_after[s].side = pool_before[s].side
      /\ pool_after[s].price = pool_before[s].price
      /\ pool_after[s].level_index = pool_before[s].level_index

\* ... as when nothing moves, or one order leaves.
LEMMA RemainingFrom ==
  ASSUME NEW p, NEW p2, SameOrders(p, p2) \/ \E slot \in Slots : OneLeaves(p, p2, slot)
  PROVE  Remaining(p, p2)
<1>1. CASE SameOrders(p, p2)
  BY <1>1 DEF SameOrders, Remaining
<1>2. ASSUME NEW slot \in Slots, OneLeaves(p, p2, slot) PROVE Remaining(p, p2)
  BY <1>2 DEF OneLeaves, Remaining
<1> QED
  BY <1>1, <1>2

\* Orders that leave cannot cross the book.
LEMMA StaysUncrossed ==
  ASSUME NeverCrossed, Remaining(pool, pool') PROVE NeverCrossed'
BY DEF NeverCrossed, OpenSlots, Remaining

\* A step that leaves no order half matched.
LEMMA QuietCall ==
  ASSUME NeverCrossed, Remaining(pool, pool'), pc' \in {"idle", "on_accepted", "match"}
  PROVE  NeverCrossed' /\ CallMatches'
<1>1. CallMatches'
  BY DEF CallMatches, Settled
<1> QED
  BY <1>1, StaysUncrossed

\* Orders that leave the other side change nothing for the call in progress.
LEMMA OpposingRemain ==
  ASSUME Remaining(pool, pool'), Instr' = Instr, call'.side = call.side
  PROVE  \A s \in Opposing' : /\ s \in Opposing
                              /\ pool'[s].price = pool[s].price
                              /\ pool'[s].level_index = pool[s].level_index
BY DEF Opposing, OpenSlots, Remaining

\* Nor can they put a better level before the one being matched,
LEMMA NoneBetterStays ==
  ASSUME NoneBetter, Remaining(pool, pool'), Instr' = Instr,
         call'.side = call.side, call'.is_market = call.is_market,
         call'.price = call.price, call'.idx = call.idx
  PROVE  NoneBetter'
BY OpposingRemain DEF NoneBetter, Marketable

\* give an order something to match that had nothing,
LEMMA NothingToMatchStays ==
  ASSUME NothingToMatch, Remaining(pool, pool'), Instr' = Instr,
         call'.side = call.side, call'.is_market = call.is_market,
         call'.price = call.price
  PROVE  NothingToMatch'
BY OpposingRemain DEF NothingToMatch

\* or push an order back in its queue.
LEMMA FirstInTurnStays ==
  ASSUME FirstInTurn, Remaining(pool, pool'), Instr' = Instr,
         UNCHANGED <<call, arrival>>
  PROVE  FirstInTurn'
BY OpposingRemain DEF FirstInTurn

\* Unlinking an order changes neither what an order is nor what it has left, and
\* no other order stops resting.
LEMMA UnlinkKeepsOrders ==
  ASSUME NEW p \in [Slots -> OrderRecord], NEW slot \in Slots, NEW s \in Slots
  PROVE  /\ Unlink(p, slot)[s].instrument_id = p[s].instrument_id
         /\ Unlink(p, slot)[s].open_qty = p[s].open_qty
         /\ Unlink(p, slot)[s].id = p[s].id
         /\ Unlink(p, slot)[s].filled_qty = p[s].filled_qty
         /\ Unlink(p, slot)[s].is_open <=> p[s].is_open /\ s # slot
<1>1. p[s] \in OrderRecord /\ p[slot] \in OrderRecord
  OBVIOUS
<1>2. CASE s = slot
  BY <1>1, <1>2 DEF Unlink, OrderRecord
<1>3. CASE s # slot
  BY <1>1, <1>3 DEF Unlink, OrderRecord
<1> QED
  BY <1>2, <1>3

-----------------------------------------------------------------------------
(***************************************************************************)
(* Levels in the order of their prices.                                    *)
(***************************************************************************)
\* An open order of the instrument is on the level of its price.
LEMMA OpposingLevels ==
  ASSUME IInv, pc # "idle", NEW s \in Opposing
  PROVE  /\ s \in Slots /\ pool[s].is_open /\ pool[s].instrument_id = Instr
         /\ pool[s].side = Opposite(call.side)
         /\ pool[s].level_index \in Index(Instr)
         /\ Ladder[Instr][pool[s].level_index] = pool[s].price
<1>1. s \in Slots /\ pool[s].is_open /\ pool[s].instrument_id = Instr
      /\ pool[s].side = Opposite(call.side)
  BY DEF Opposing, OpenSlots
<1>2. OnTheirLevels(pool, Instr)
  BY AggressorFacts DEF IInv, BooksFit, BookFits
<1> QED
  BY <1>1, <1>2 DEF OnTheirLevels, index_to_price

\* A better level has a better price, and the same price is the same level.
LEMMA LadderOrder ==
  ASSUME NEW i \in Instruments, NEW x \in Index(i), NEW y \in Index(i)
  PROVE  /\ x \in Nat /\ y \in Nat
         /\ Ladder[i][x] \in Int /\ Ladder[i][y] \in Int
         /\ x < y <=> Ladder[i][x] < Ladder[i][y]
         /\ x = y <=> Ladder[i][x] = Ladder[i][y]
<1>1. x \in Nat /\ y \in Nat
  BY IndexFacts
<1>2. /\ Ladder[i][x] \in Int /\ Ladder[i][y] \in Int
      /\ x < y => Ladder[i][x] < Ladder[i][y]
      /\ y < x => Ladder[i][y] < Ladder[i][x]
  BY LadderAssumption DEF IsLadder
<1> QED
  BY <1>1, <1>2

-----------------------------------------------------------------------------
(***************************************************************************)
(* The steps of run_matching.                                              *)
(***************************************************************************)
\* The best index is the best of the opposing levels.
LEMMA BestOpposing ==
  ASSUME MInv, pc # "idle"
  PROVE  LET best == books[Instr].best[Opposite(call.side)]
         IN \A s \in Opposing :
              /\ has_best(books[Instr], Opposite(call.side))
              /\ best \in Index(Instr)
              /\ ~Better(Opposite(call.side), pool[s].level_index, best)
<1> DEFINE opp  == Opposite(call.side)
           bits == books[Instr].bitmap[opp]
           best == books[Instr].best[opp]
<1>1. Instr \in Instruments /\ opp \in Side
  BY AggressorFacts DEF MInv
<1>2. bits = Occupied(pool, Instr, opp) /\ IsBest(opp, bits, best)
  BY <1>1 DEF MInv, BooksAggregated, Aggregated
<1>3. ASSUME NEW s \in Opposing
      PROVE  has_best(books[Instr], opp) /\ best \in Index(Instr)
             /\ ~Better(opp, pool[s].level_index, best)
  <2>1. s \in Queue(pool, Instr, opp, pool[s].level_index)
        /\ pool[s].level_index \in Index(Instr)
    BY <1>3, OpposingLevels DEF MInv, Queue
  <2>2. pool[s].level_index \in bits
    BY <1>2, <2>1 DEF Occupied
  <2>3. best \in bits /\ ~Better(opp, pool[s].level_index, best)
    BY <1>2, <2>2 DEF IsBest
  <2>4. best \in Index(Instr)
    BY <1>2, <2>3 DEF Occupied
  <2>5. best >= 0
    BY <1>1, <2>4, IndexFacts
  <2> QED
    BY <2>3, <2>4, <2>5 DEF has_best
<1> QED
  BY <1>3

\* The outer loop takes the best level, or finds nothing to trade with.
LEMMA PickLevelMatches ==
  ASSUME MInv, PickLevel PROVE NeverCrossed' /\ CallMatches'
<1>1. /\ pc = "match" /\ pc' = "level" /\ CanTrade /\ UNCHANGED <<pool, books, arrival>>
      /\ call' = [call EXCEPT !.idx = books[Instr].best[Opposite(call.side)]]
  BY DEF PickLevel
<1>2. call \in Call
  BY DEF MInv, IInv, TypeOK
<1>3. /\ call'.slot = call.slot /\ call'.side = call.side
      /\ call'.is_market = call.is_market /\ call'.price = call.price
      /\ call'.idx = books[Instr].best[Opposite(call.side)]
  BY <1>1, <1>2 DEF Call
<1>4. Instr' = Instr
  BY <1>1, <1>3 DEF Instr, Agg
<1>5. NoneBetter'
  <2>1. Opposing' = Opposing
    BY <1>1, <1>3, <1>4 DEF Opposing, OpenSlots
  <2>2. \A s \in Opposing :
          ~Better(Opposite(call.side), pool[s].level_index, call'.idx)
    BY <1>1, <1>3, BestOpposing
  <2>3. Marketable(Instr, call.side, call.is_market, call.price, call'.idx)
    BY <1>1, <1>3 DEF CanTrade
  <2> QED
    BY <1>1, <1>3, <1>4, <2>1, <2>2, <2>3 DEF NoneBetter
<1>6. CallMatches'
  BY <1>1, <1>5 DEF CallMatches, Settled
<1>7. NeverCrossed'
  BY <1>1 DEF MInv, NeverCrossed, OpenSlots
<1> QED
  BY <1>6, <1>7

\* run_matching returns at an empty side or a limit that does not cross the
\* best level: nothing opposite can match then.
LEMMA MatchingDoneMatches ==
  ASSUME MInv, MatchingDone PROVE NeverCrossed' /\ CallMatches'
<1>1. /\ pc = "match" /\ pc' = "finish" /\ ~CanTrade
      /\ UNCHANGED <<pool, books, call, arrival>>
  BY DEF MatchingDone
<1> DEFINE opp  == Opposite(call.side)
           best == books[Instr].best[opp]
<1>2. Instr \in Instruments /\ call.side \in Side /\ call.price \in Int
  BY <1>1, AggressorFacts DEF MInv
<1>3. ASSUME Agg.open_qty > 0, NEW s \in Opposing
      PROVE  ~(call.is_market \/ crosses(call.side, call.price, pool[s].price))
  <2>1. /\ has_best(books[Instr], opp) /\ best \in Index(Instr)
        /\ ~Better(opp, pool[s].level_index, best)
    BY <1>1, <1>3, BestOpposing
  <2>2. ~call.is_market /\ ~crosses(call.side, call.price, Ladder[Instr][best])
    BY <1>1, <1>3, <2>1 DEF CanTrade, Marketable, index_to_price
  <2>3. /\ pool[s].level_index \in Index(Instr)
        /\ Ladder[Instr][pool[s].level_index] = pool[s].price
    BY <1>1, <1>3, OpposingLevels DEF MInv
  <2>4. /\ best \in Nat /\ pool[s].level_index \in Nat
        /\ Ladder[Instr][best] \in Int /\ pool[s].price \in Int
        /\ pool[s].level_index < best <=> pool[s].price < Ladder[Instr][best]
        /\ best < pool[s].level_index <=> Ladder[Instr][best] < pool[s].price
    BY <1>2, <2>1, <2>3, LadderOrder
  <2> HIDE DEF best
  <2>5. CASE call.side = "kBuy"
    BY <1>2, <2>1, <2>2, <2>4, <2>5 DEF Better, Opposite, crosses
  <2>6. CASE call.side = "kSell"
    BY <1>2, <2>1, <2>2, <2>4, <2>6 DEF Better, Opposite, crosses
  <2> QED
    BY <1>2, <2>5, <2>6 DEF Side
<1>4. Agg.open_qty > 0 => NothingToMatch
  BY <1>3 DEF NothingToMatch
<1>5. (Agg.open_qty > 0 => NothingToMatch)'
  BY <1>1, <1>4 DEF NothingToMatch, Opposing, OpenSlots, Instr, Agg
<1>6. CallMatches'
  BY <1>1, <1>5 DEF CallMatches, Settled
<1>7. NeverCrossed'
  BY <1>1 DEF MInv, NeverCrossed, OpenSlots
<1> QED
  BY <1>6, <1>7

\* The head of a level's list is strictly the first of its queue.
LEMMA HeadFirstInTurn ==
  ASSUME MInv, pc = "level", CurrentLevel.head # kInvalidSlot,
         NEW s \in Opposing \ {CurrentLevel.head}, pool[s].level_index = call.idx
  PROVE  arrival[CurrentLevel.head] < arrival[s]
<1> DEFINE opp   == Opposite(call.side)
           queue == Queue(pool, Instr, opp, call.idx)
           head  == CurrentLevel.head
<1>1. Instr \in Instruments /\ opp \in Side /\ call.idx \in Index(Instr)
  BY AggressorFacts DEF MInv, IInv, CallInOrder
<1>2. QueueLinked(pool, CurrentLevel, queue) /\ QueueOrdered(pool, queue, arrival)
  BY <1>1 DEF MInv, IInv, BooksFit, BookFits, LevelsLinked, CurrentLevel
<1>3. s \in queue /\ s # head /\ queue \in SUBSET Slots
  BY OpposingLevels DEF MInv, Queue
<1>4. arrival \in [Slots -> Slots]
  BY StateFacts DEF MInv
<1> HIDE DEF queue
<1>5. head \in queue /\ \A t \in queue : arrival[head] <= arrival[t]
  BY <1>2, <1>3, <1>4, HeadIsFirst
<1>6. pool[s].prev \in queue /\ pool[pool[s].prev].next = s
  BY <1>2, <1>3 DEF QueueLinked
<1>7. arrival[pool[s].prev] < arrival[s]
  BY <1>2, <1>3, <1>6, SlotFacts DEF QueueOrdered
<1>8. /\ arrival[head] \in Nat /\ arrival[s] \in Nat /\ arrival[pool[s].prev] \in Nat
      /\ arrival[head] <= arrival[pool[s].prev]
  BY <1>3, <1>4, <1>5, <1>6, SlotFacts
<1> QED
  BY <1>7, <1>8

\* The inner loop takes the head of the level.
LEMMA TradeMatches ==
  ASSUME MInv, Trade PROVE NeverCrossed' /\ CallMatches'
<1> DEFINE fill == Smaller(Agg.open_qty, pool[CurrentLevel.head].open_qty)
<1>1. /\ pc = "level" /\ pc' = "on_trade" /\ UNCHANGED <<pool, books, arrival>>
      /\ CurrentLevel.head # kInvalidSlot
      /\ call' = [call EXCEPT !.resting = CurrentLevel.head, !.fill = fill]
  BY DEF Trade
<1>2. call \in Call
  BY DEF MInv, IInv, TypeOK
<1> HIDE DEF fill
<1>3. /\ call'.slot = call.slot /\ call'.side = call.side
      /\ call'.is_market = call.is_market /\ call'.price = call.price
      /\ call'.idx = call.idx /\ call'.resting = CurrentLevel.head
  BY <1>1, <1>2 DEF Call
<1>4. Instr' = Instr
  BY <1>1, <1>3 DEF Instr, Agg
<1>5. NoneBetter' /\ Opposing' = Opposing
  BY <1>1, <1>3, <1>4 DEF MInv, CallMatches, NoneBetter, Opposing, OpenSlots
<1>6. FirstInTurn'
  <2>1. \A s \in Opposing \ {CurrentLevel.head} :
          pool[s].level_index = call.idx => arrival[CurrentLevel.head] < arrival[s]
    BY <1>1, HeadFirstInTurn
  <2> QED
    BY <1>1, <1>3, <1>5, <2>1 DEF FirstInTurn
<1>7. CallMatches'
  BY <1>1, <1>5, <1>6 DEF CallMatches, Settled
<1>8. NeverCrossed'
  BY <1>1 DEF MInv, NeverCrossed, OpenSlots
<1> QED
  BY <1>7, <1>8

\* Booking a fill changes nothing of what the call is about.
LEMMA ApplyTradeSameCall ==
  ASSUME IInv, ApplyTrade
  PROVE  /\ call'.slot = call.slot /\ call'.side = call.side /\ call'.tif = call.tif
         /\ call'.is_market = call.is_market /\ call'.price = call.price
         /\ call'.idx = call.idx /\ call.resting \in Slots
         /\ Instr' = Instr
<1> DEFINE filled == [pool EXCEPT ![call.slot] = Filled(@, call.fill),
                                  ![call.resting] = Filled(@, call.fill)]
           book   == BookFill(books[Instr], Opposite(call.side), call.idx, call.fill)
           after  == IF filled[call.resting].open_qty = 0
                     THEN remove_resting(filled, book, call.resting)
                     ELSE [pool |-> filled, book |-> book]
<1>1. /\ pc = "on_trade" /\ pc' = "level" /\ UNCHANGED arrival
      /\ pool' = after.pool
      /\ call' = [call EXCEPT !.resting = kInvalidSlot, !.fill = 0]
  BY DEF ApplyTrade
<1>2. call \in Call /\ call.slot \in Slots /\ call.resting \in Slots
  BY <1>1, AggressorFacts DEF IInv, TypeOK, AggressorInOrder, CallInOrder, TradeInOrder,
                              Queue
<1>3. /\ call'.slot = call.slot /\ call'.side = call.side /\ call'.tif = call.tif
      /\ call'.is_market = call.is_market /\ call'.price = call.price
      /\ call'.idx = call.idx
  BY <1>1, <1>2 DEF Call
<1>4. /\ filled \in [Slots -> OrderRecord]
      /\ \A s \in Slots : filled[s].instrument_id = pool[s].instrument_id
  BY <1>1, FilledPool
<1> HIDE DEF filled, book
<1>5. pool' = filled \/ pool' = Unlink(filled, call.resting)
  BY <1>1 DEF remove_resting
<1>6. pool'[call.slot].instrument_id = pool[call.slot].instrument_id
  BY <1>2, <1>4, <1>5, UnlinkKeepsOrders
<1>7. Instr' = Instr
  BY <1>3, <1>6 DEF Instr, Agg
<1> QED
  BY <1>2, <1>3, <1>7

\* Booking the fill: orders only leave, and the call goes on with its level.
LEMMA ApplyTradeMatches ==
  ASSUME MInv, ApplyTrade PROVE NeverCrossed' /\ CallMatches'
<1>1. pc = "on_trade" /\ pc' = "level" /\ UNCHANGED arrival
  BY DEF ApplyTrade
<1>2. Remaining(pool, pool')
  BY ApplyTradeSameCall, ApplyTradeLeaves, RemainingFrom DEF MInv
<1>3. NoneBetter'
  BY <1>1, <1>2, ApplyTradeSameCall, NoneBetterStays DEF MInv, CallMatches
<1>4. CallMatches'
  BY <1>1, <1>3 DEF CallMatches, Settled
<1> QED
  BY <1>2, <1>4, StaysUncrossed DEF MInv

-----------------------------------------------------------------------------
(***************************************************************************)
(* The steps that bring an order to the book.                              *)
(***************************************************************************)
\* Two orders of one instrument do not cross.
Uncrossed(side, price, other_side, other_price) ==
  /\ side = "kBuy" /\ other_side = "kSell" => price < other_price
  /\ side = "kSell" /\ other_side = "kBuy" => other_price < price

\* One order comes, and crosses none of those that were there.
LEMMA ArrivalUncrossed ==
  ASSUME NeverCrossed, NEW slot \in Slots, NEW i, NEW side, NEW price,
         OneArrives(pool, pool', slot, i, side, price),
         \A s \in OpenSlots :
           pool[s].instrument_id = i => Uncrossed(side, price, pool[s].side, pool[s].price)
  PROVE  NeverCrossed'
<1>1. ASSUME NEW s \in Slots, NEW t \in Slots, pool'[s].is_open, pool'[t].is_open,
             pool'[s].instrument_id = pool'[t].instrument_id,
             pool'[s].side = "kBuy", pool'[t].side = "kSell"
      PROVE  pool'[s].price < pool'[t].price
  <2>1. CASE s # slot /\ t # slot
    BY <1>1, <2>1 DEF NeverCrossed, OpenSlots, OneArrives
  <2>2. CASE s = slot /\ t # slot
    BY <1>1, <2>2 DEF OpenSlots, OneArrives, Uncrossed
  <2>3. CASE s # slot /\ t = slot
    BY <1>1, <2>3 DEF OpenSlots, OneArrives, Uncrossed
  <2>4. CASE s = slot /\ t = slot
    BY <1>1, <2>4
  <2> QED
    BY <2>1, <2>2, <2>3, <2>4
<1> QED
  BY <1>1 DEF NeverCrossed, OpenSlots

\* A resting order crosses none of the others.
LEMMA RestingUncrossed ==
  ASSUME NeverCrossed, NEW slot \in OpenSlots, NEW s \in OpenSlots,
         pool[s].instrument_id = pool[slot].instrument_id
  PROVE  Uncrossed(pool[slot].side, pool[slot].price, pool[s].side, pool[s].price)
BY DEF NeverCrossed, Uncrossed

\* A remainder rests once there is nothing to match it with.
LEMMA RestRemainderMatches ==
  ASSUME MInv, RestRemainder PROVE NeverCrossed' /\ CallMatches'
<1>1. pc = "finish" /\ Agg.open_qty > 0 /\ pc' = "idle"
  BY DEF RestRemainder, Return
<1>2. NothingToMatch
  BY <1>1 DEF MInv, CallMatches, Settled
<1>3. call.slot \in Slots /\ call.side \in Side /\ call.price \in Int
  BY <1>1, AggressorFacts DEF MInv, AggressorInOrder
<1>4. ASSUME NEW s \in OpenSlots, pool[s].instrument_id = Instr
      PROVE  Uncrossed(call.side, call.price, pool[s].side, pool[s].price)
  <2>1. pool[s].price \in Int
    BY StateFacts DEF MInv, OpenSlots, OrderRecord
  <2>2. pool[s].side = Opposite(call.side) =>
          ~crosses(call.side, call.price, pool[s].price)
    BY <1>2, <1>4 DEF NothingToMatch, Opposing
  <2> QED
    BY <1>3, <2>1, <2>2 DEF Uncrossed, crosses, Opposite
<1>5. NeverCrossed'
  BY <1>3, <1>4, RestRemainderArrives, ArrivalUncrossed DEF MInv
<1>6. CallMatches'
  BY <1>1 DEF CallMatches, Settled
<1> QED
  BY <1>5, <1>6

\* A replacement that keeps its place keeps its price.
LEMMA ReplaceKeepingMatches ==
  ASSUME MInv, NEW id \in OrderIds, NEW new_id \in OrderIds, NEW p \in ReplacePrices,
         NEW q \in ReplaceQtys, ReplaceKeeping(id, new_id, p, q)
  PROVE  NeverCrossed' /\ CallMatches'
<1> DEFINE slot == order_index[id]
           old  == pool[slot]
<1>1. /\ slot \in OpenSlots /\ pool_size \in Slots
      /\ OneArrives(pool, pool', pool_size, old.instrument_id, old.side, old.price)
  BY ReplaceKeepingArrives DEF MInv, OpenSlots
<1>2. \A s \in OpenSlots :
        pool[s].instrument_id = old.instrument_id =>
          Uncrossed(old.side, old.price, pool[s].side, pool[s].price)
  BY <1>1, RestingUncrossed DEF MInv
<1> HIDE DEF slot
<1>3. NeverCrossed'
  BY <1>1, <1>2, ArrivalUncrossed DEF MInv
<1>4. pc' = "idle"
  BY DEF ReplaceKeeping, ReplaceAllowed
<1>5. CallMatches'
  BY <1>4 DEF CallMatches, Settled
<1> QED
  BY <1>3, <1>5

\* A replacement at the old price has nothing to match either.
LEMMA ReplaceLosingMatches ==
  ASSUME MInv, NEW id \in OrderIds, NEW new_id \in OrderIds, NEW p \in ReplacePrices,
         NEW q \in ReplaceQtys, ReplaceLosing(id, new_id, p, q)
  PROVE  NeverCrossed' /\ CallMatches'
<1> DEFINE slot  == order_index[id]
           i     == pool[slot].instrument_id
           side  == pool[slot].side
           rec   == ReplacedRec(new_id, i, side, p, NewOpen(id, q), pool[slot].filled_qty)
           pool2 == WithReplacement(id, new_id, p, q)
<1>1. /\ ReplaceAllowed(id, new_id, p, q)
      /\ pool' = remove_resting(pool2, books[i], slot).pool
      /\ pc' = "on_replaced"
      /\ call' = [NoCall EXCEPT !.slot = pool_size, !.side = side, !.price = p,
                                !.price_changed = PriceChanged(id, p)]
  BY DEF ReplaceLosing
<1>2. /\ slot \in OpenSlots /\ pool_size < PoolCapacity /\ pool_size \in Nat
      /\ rec \in OrderRecord /\ ~rec.is_open /\ rec.instrument_id = i
      /\ pool2 = [pool EXCEPT ![pool_size] = rec]
      /\ side \in Side /\ p \in Int
      /\ PriceChanged(id, p) <=> p # pool[slot].price
  BY <1>1, ReplaceFacts, StateFacts DEF MInv, OpenSlots, PriceChanged
<1>3. Remaining(pool, pool')
  BY ReplaceLosingLeaves, RemainingFrom DEF MInv
<1>4. /\ call'.slot = pool_size /\ call'.side = side /\ call'.price = p
      /\ ~call'.is_market /\ call'.price_changed = PriceChanged(id, p)
  BY <1>1 DEF NoCall
<1> HIDE DEF rec, pool2
<1>5. pool_size \in Slots /\ pool2 \in [Slots -> OrderRecord]
      /\ pool2[pool_size].instrument_id = i
  <2>1. FillsFreshSlot(rec, pool2)
    BY <1>2 DEF FillsFreshSlot
  <2> QED
    BY <1>2, <2>1, FreshSlot DEF MInv
<1>6. Instr' = i
  <2>1. pool' = Unlink(pool2, slot) /\ slot \in Slots
    BY <1>1, <1>2 DEF remove_resting, OpenSlots
  <2>2. pool'[pool_size].instrument_id = i
    BY <1>5, <2>1, UnlinkKeepsOrders
  <2> QED
    BY <1>4, <2>2 DEF Instr, Agg
<1>7. ASSUME ~call'.price_changed, NEW s \in Opposing'
      PROVE  ~(call'.is_market \/ crosses(call'.side, call'.price, pool'[s].price))
  <2>1. p = pool[slot].price
    BY <1>2, <1>4, <1>7
  <2>2. /\ s \in OpenSlots /\ pool[s].instrument_id = i /\ pool[s].side = Opposite(side)
        /\ pool'[s].price = pool[s].price
    BY <1>3, <1>4, <1>6, <1>7 DEF Opposing, OpenSlots, Remaining
  <2>3. Uncrossed(side, p, pool[s].side, pool[s].price)
    BY <1>2, <2>1, <2>2, RestingUncrossed DEF MInv
  <2>4. pool[s].price \in Int
    BY <2>2, StateFacts DEF MInv, OpenSlots, OrderRecord
  <2> QED
    BY <1>2, <1>4, <2>2, <2>3, <2>4 DEF Uncrossed, crosses, Opposite, Side
<1>8. CallMatches'
  BY <1>1, <1>7 DEF CallMatches, Settled, NothingToMatch
<1> QED
  BY <1>3, <1>8, StaysUncrossed DEF MInv

\* An order withdrawn, by a call of its own or from a callback.
LEMMA WithdrawMatches ==
  ASSUME MInv, NEW id \in OrderIds, IsOpen(id), Withdraw(id)
  PROVE  NeverCrossed' /\ CallMatches'
<1> DEFINE slot == order_index[id]
<1>1. /\ UNCHANGED <<pc, call, arrival>>
      /\ pool' = Unlink(pool, slot)
  BY DEF Withdraw, remove_resting
<1>2. slot \in Slots /\ Remaining(pool, pool')
  BY WithdrawLeaves, RemainingFrom DEF MInv
<1>3. CASE pc = "idle"
  BY <1>1, <1>2, <1>3, QuietCall DEF MInv
<1>4. CASE pc # "idle"
  <2>1. call.slot \in Slots /\ pool \in [Slots -> OrderRecord]
    BY <1>4, AggressorFacts, StateFacts DEF MInv, AggressorInOrder
  <2>2. /\ pool'[call.slot].instrument_id = pool[call.slot].instrument_id
        /\ pool'[call.slot].open_qty = pool[call.slot].open_qty
    BY <1>1, <1>2, <2>1, UnlinkKeepsOrders
  <2>3. Instr' = Instr /\ Agg.open_qty' = Agg.open_qty
    BY <1>1, <2>2 DEF Instr, Agg
  <2>4. NoneBetter => NoneBetter'
    BY <1>1, <1>2, <2>3, NoneBetterStays
  <2>5. FirstInTurn => FirstInTurn'
    BY <1>1, <1>2, <2>3, FirstInTurnStays
  <2>6. NothingToMatch => NothingToMatch'
    BY <1>1, <1>2, <2>3, NothingToMatchStays
  <2>7. CallMatches'
    BY <1>1, <2>3, <2>4, <2>5, <2>6 DEF MInv, CallMatches, Settled
  <2> QED
    BY <1>2, <2>7, StaysUncrossed DEF MInv
<1> QED
  BY <1>3, <1>4

\* Back from on_replaced.
LEMMA AfterReplacedMatches ==
  ASSUME MInv, AfterReplaced PROVE NeverCrossed' /\ CallMatches'
<1>1. /\ pc = "on_replaced" /\ UNCHANGED <<pool, call, arrival>>
      /\ pc' = IF call.price_changed THEN "match" ELSE "finish"
  BY DEF AfterReplaced
<1>2. /\ Opposing' = Opposing /\ Agg' = Agg /\ NothingToMatch' = NothingToMatch
  BY <1>1 DEF Opposing, OpenSlots, Instr, Agg, NothingToMatch
<1>3. ~call.price_changed /\ Agg.open_qty > 0 => NothingToMatch
  BY <1>1 DEF MInv, CallMatches, Settled
<1>4. CallMatches'
  BY <1>1, <1>2, <1>3 DEF CallMatches, Settled
<1>5. NeverCrossed'
  BY <1>1 DEF MInv, NeverCrossed, OpenSlots
<1> QED
  BY <1>4, <1>5

-----------------------------------------------------------------------------
\* An empty book is not crossed.
LEMMA InitMatches == Init => NeverCrossed /\ CallMatches
<1> SUFFICES ASSUME Init PROVE NeverCrossed /\ CallMatches
  OBVIOUS
<1>1. \A s \in Slots : ~pool[s].is_open
  BY NewRecordFacts DEF Init
<1>2. pc = "idle"
  BY DEF Init
<1> QED
  BY <1>1, <1>2 DEF NeverCrossed, OpenSlots, CallMatches, Settled

\* Every step, fault or not, keeps the matching part of MInv.
LEMMA NextMatches ==
  ASSUME MInv, [Next \/ Fault]_vars
  PROVE  NeverCrossed' /\ CallMatches'
<1>1. ASSUME \/ FullyFilled \/ ListenerThrows \/ StartMatching \/ LeaveLevel
             \/ pc # "idle" /\ DropRemainder
             \/ \E id \in OrderIds, o \in Orders :
                  Submit(id, o) \/ SubmitRefused(id, o) \/ SubmitOutOfMemory(id, o)
             \/ \E id, new_id \in OrderIds, p \in ReplacePrices, q \in ReplaceQtys :
                  ReplaceOutOfMemory(id, new_id, p, q)
      PROVE  NeverCrossed' /\ CallMatches'
  <2>1. Remaining(pool, pool')
    BY <1>1, QuietStep, RemainingFrom DEF MInv
  <2>2. pc' \in {"idle", "on_accepted", "match"}
    BY <1>1 DEF FullyFilled, ListenerThrows, StartMatching, LeaveLevel, DropRemainder, Submit,
                SubmitRefused, SubmitOutOfMemory, ReplaceOutOfMemory, ReplaceAllowed, Return
  <2> QED
    BY <2>1, <2>2, QuietCall DEF MInv
<1>2. ASSUME UNCHANGED vars PROVE NeverCrossed' /\ CallMatches'
  <2>1. UNCHANGED <<pool, pc, call, arrival>>
    BY <1>2 DEF vars
  <2> QED
    BY <2>1 DEF MInv, NeverCrossed, OpenSlots, CallMatches, Settled, NoneBetter, Marketable,
                FirstInTurn, NothingToMatch, Opposing, Instr, Agg
<1>3. ASSUME NEW ids \in ConfigureCalls, Configure(ids) PROVE NeverCrossed' /\ CallMatches'
  <2>1. UNCHANGED pool /\ pc' = "idle"
    BY <1>3 DEF Configure
  <2>2. Remaining(pool, pool')
    BY <2>1 DEF Remaining
  <2> QED
    BY <2>1, <2>2, QuietCall DEF MInv
<1>4. ASSUME NEW id \in OrderIds, Cancel(id) \/ CancelFromCallback(id)
      PROVE  NeverCrossed' /\ CallMatches'
  <2>1. IsOpen(id) /\ Withdraw(id)
    BY <1>4 DEF Cancel, CancelFromCallback, CancelReject
  <2> QED
    BY <2>1, WithdrawMatches
<1>5. ASSUME NEW id \in OrderIds, NEW new_id \in OrderIds, NEW p \in ReplacePrices,
             NEW q \in ReplaceQtys, Replace(id, new_id, p, q)
      PROVE  NeverCrossed' /\ CallMatches'
  <2>1. CASE ReplaceToNothing(id, new_id, p, q)
    <3>1. IsOpen(id) /\ Withdraw(id)
      BY <2>1 DEF ReplaceToNothing, ReplaceReject
    <3> QED
      BY <3>1, WithdrawMatches
  <2>2. CASE ReplaceLosing(id, new_id, p, q)
    BY <2>2, ReplaceLosingMatches
  <2>3. CASE ReplaceKeeping(id, new_id, p, q)
    BY <2>3, ReplaceKeepingMatches
  <2> QED
    BY <1>5, <2>1, <2>2, <2>3 DEF Replace
<1>6. CASE Host
  BY <1>1, <1>2, <1>3, <1>4, <1>5, <1>6 DEF Host, RejectedCall
<1>7. CASE Proceed
  BY <1>1, <1>7, PickLevelMatches, TradeMatches, ApplyTradeMatches, MatchingDoneMatches,
     RestRemainderMatches, AfterReplacedMatches
     DEF Proceed, CancelUnfillable, CancelRemainder
<1>8. CASE Fault
  BY <1>1, <1>4, <1>8 DEF Fault
<1> QED
  BY <1>2, <1>6, <1>7, <1>8 DEF Next

(***************************************************************************)
(* MInv is an invariant: whatever the calls, and whatever the listener     *)
(* throws or cancels, run_matching (engine.cpp:99-127) finds the book      *)
(* uncrossed and leaves it so.                                             *)
(***************************************************************************)
THEOREM MatchingInvariant == FaultSpec => []MInv
<1>1. Init => MInv
  BY InitInv, InitAggregated, InitMatches DEF MInv
<1>2. MInv /\ [Next \/ Fault]_vars => MInv'
  <2> SUFFICES ASSUME MInv, [Next \/ Fault]_vars PROVE MInv'
    OBVIOUS
  <2>1. IInv'
    BY NextInv DEF MInv
  <2>2. BooksAggregated'
    BY NextAggregated DEF MInv
  <2>3. NeverCrossed' /\ CallMatches'
    BY NextMatches
  <2> QED
    BY <2>1, <2>2, <2>3 DEF MInv
<1> QED
  BY <1>1, <1>2, PTL DEF FaultSpec

\* Without faults there are fewer steps: what holds of FaultSpec holds of Spec.
LEMMA SpecIsFaultSpec == Spec => FaultSpec
<1>1. [Next]_vars => [Next \/ Fault]_vars
  OBVIOUS
<1> QED
  BY <1>1, PTL DEF Spec, FaultSpec

(***************************************************************************)
(* No bid rests at or above an ask of the same instrument, also while a    *)
(* listener throws out of a callback or cancels from one, so that a        *)
(* replace of the quantity alone has nothing to match                      *)
(* (engine.cpp:325-328).                                                   *)
(***************************************************************************)
THEOREM NeverCrossedHolds == FaultSpec => []NeverCrossed
BY MatchingInvariant, PTL DEF MInv

(***************************************************************************)
(* An order that rests or is cancelled had nothing left to trade with.     *)
(***************************************************************************)
THEOREM MatchingExhaustedHolds == FaultSpec => []MatchingExhausted
<1>1. MInv => MatchingExhausted
  BY DEF MInv, CallMatches, Settled, NothingToMatch, Opposing, MatchingExhausted
<1> QED
  BY <1>1, MatchingInvariant, PTL

\* The order the inner loop trades with is the one that has priority.
LEMMA MInvOrdersTrades == MInv => PriceTimePriority
<1>1. ASSUME MInv, pc = "on_trade" PROVE PriceTimePriority
  <2> DEFINE opp     == Opposite(call.side)
             resting == pool[call.resting]
  <2>1. /\ TradeInOrder /\ NoneBetter /\ FirstInTurn
        /\ Instr \in Instruments /\ call.idx \in Index(Instr)
    BY <1>1, AggressorFacts DEF MInv, IInv, CallInOrder, CallMatches
  <2>2. /\ call.resting \in Opposing /\ resting.level_index = call.idx
        /\ resting.is_open /\ resting.instrument_id = Instr /\ resting.side = opp
    BY <2>1 DEF TradeInOrder, Queue, Opposing, OpenSlots
  <2>3. Ladder[Instr][call.idx] = resting.price
    BY <1>1, <2>2, OpposingLevels DEF MInv
  <2>4. call.is_market \/ crosses(call.side, call.price, resting.price)
    BY <2>1, <2>3 DEF NoneBetter, Marketable, index_to_price
  <2>5. ASSUME NEW s \in OpenSlots \ {call.resting},
               pool[s].instrument_id = Instr, pool[s].side = resting.side
        PROVE  IF resting.price = pool[s].price THEN arrival[call.resting] < arrival[s]
               ELSE Better(resting.side, resting.price, pool[s].price)
    <3>1. s \in Opposing \ {call.resting}
      BY <2>2, <2>5 DEF Opposing
    <3>2. /\ pool[s].level_index \in Index(Instr)
          /\ Ladder[Instr][pool[s].level_index] = pool[s].price
      BY <1>1, <3>1, OpposingLevels DEF MInv
    <3> DEFINE x == pool[s].level_index
    <3>3. /\ x \in Nat /\ call.idx \in Nat /\ resting.price \in Int /\ pool[s].price \in Int
          /\ x < call.idx <=> pool[s].price < resting.price
          /\ call.idx < x <=> resting.price < pool[s].price
          /\ x = call.idx <=> pool[s].price = resting.price
      BY <2>1, <2>3, <3>2, LadderOrder
    <3>4. ~Better(opp, x, call.idx) /\ (x = call.idx => arrival[call.resting] < arrival[s])
      BY <2>1, <3>1 DEF NoneBetter, FirstInTurn
    <3> HIDE DEF x, resting
    <3> QED
      BY <2>2, <3>3, <3>4 DEF Better
  <2> HIDE DEF resting
  <2> QED
    BY <2>2, <2>4, <2>5 DEF PriceTimePriority, resting
<1> QED
  BY <1>1 DEF PriceTimePriority

(***************************************************************************)
(* Every trade is with the order that has the best price and, at that      *)
(* price, has waited longest, and is within the aggressor's limit: on any  *)
(* ladder, after any sequence of calls, whatever the callbacks cancel.     *)
(***************************************************************************)
THEOREM PriceTimePriorityHolds == FaultSpec => []PriceTimePriority
BY MInvOrdersTrades, MatchingInvariant, PTL

-----------------------------------------------------------------------------
(***************************************************************************)
(* What the engine tells its host: a listener that adds up the callbacks   *)
(* knows every order, an order once closed stays closed, and submit        *)
(* reports the reason RejectReason lists first.                            *)
(*                                                                         *)
(* The listener's view is about ids and the book is about slots, so the    *)
(* invariant adds that an id leads to a slot handed out before and that    *)
(* the slot's record bears the id (IndexInOrder), and says what the view   *)
(* is in the middle of an execution, when on_trade has told the listener   *)
(* of a fill that is not booked yet (Pending).                             *)
(***************************************************************************)

IndexInOrder ==
  \A id \in OrderIds :
    contains(id) => order_index[id] < pool_size /\ pool[order_index[id]].id = id

\* The fill the listener knows of and the order's record does not.
Pending(id) ==
  IF pc = "on_trade" /\ order_index[id] \in {call.slot, call.resting} THEN call.fill ELSE 0

Reported(rec, pending) ==
  [open |-> rec.open_qty - pending, filled |-> rec.filled_qty + pending]

\* What the listener knows of an id is right.
Shown(id) ==
  IF contains(id) /\ Live(order_index[id])
  THEN view[id] = Reported(pool[order_index[id]], Pending(id))
  ELSE view[id].open = 0 /\ (~contains(id) => view[id].filled = 0)

ViewInOrder == \A id \in OrderIds : Shown(id)

RInv == IInv /\ IndexInOrder /\ ViewInOrder

-----------------------------------------------------------------------------
(***************************************************************************)
(* What the steps do to the records of the pool.                           *)
(***************************************************************************)
SameQuantities(rec, rec2) ==
  rec2.id = rec.id /\ rec2.open_qty = rec.open_qty /\ rec2.filled_qty = rec.filled_qty

\* A withdrawn order stops resting; nothing else happens to any order.
LEMMA WithdrawRecords ==
  ASSUME IInv, NEW id \in OrderIds, IsOpen(id), Withdraw(id), NEW s \in Slots
  PROVE  /\ order_index[id] \in Slots
         /\ SameQuantities(pool[s], pool'[s])
         /\ pool'[s].is_open <=> (pool[s].is_open /\ s # order_index[id])
<1>1. pool' = Unlink(pool, order_index[id])
  BY DEF Withdraw, remove_resting
<1>2. order_index[id] \in Slots /\ pool \in [Slots -> OrderRecord]
  BY WithdrawLeaves, StateFacts
<1> QED
  BY <1>1, <1>2, UnlinkKeepsOrders DEF SameQuantities

\* A dropped remainder.
LEMMA DropRecords ==
  ASSUME IInv, pc # "idle", DropRemainder, NEW s \in Slots
  PROVE  /\ pool'[s].id = pool[s].id /\ pool'[s].is_open = pool[s].is_open
         /\ s # call.slot => SameQuantities(pool[s], pool'[s])
<1>1. /\ pool' = [pool EXCEPT ![call.slot].open_qty = 0]
      /\ call.slot \in Slots /\ pool \in [Slots -> OrderRecord]
  BY AggressorFacts, StateFacts DEF DropRemainder, AggressorInOrder
<1>2. pool[s] \in OrderRecord
  BY <1>1
<1>3. pool'[s] = IF s = call.slot THEN [pool[s] EXCEPT !.open_qty = 0] ELSE pool[s]
  BY <1>1
<1> QED
  BY <1>2, <1>3 DEF OrderRecord, SameQuantities

\* A booked fill moves from open to filled on both orders.
LEMMA ApplyTradeRecords ==
  ASSUME IInv, ApplyTrade, NEW s \in Slots
  PROVE  /\ pool'[s].id = pool[s].id
         /\ s \notin {call.slot, call.resting} =>
              SameQuantities(pool[s], pool'[s]) /\ pool'[s].is_open = pool[s].is_open
         /\ s \in {call.slot, call.resting} =>
              /\ pool'[s].open_qty = pool[s].open_qty - call.fill
              /\ pool'[s].filled_qty = pool[s].filled_qty + call.fill
         /\ s = call.slot => pool'[s].is_open = pool[s].is_open
         /\ s = call.resting => (pool'[s].is_open <=> pool'[s].open_qty # 0)
<1> DEFINE filled == [pool EXCEPT ![call.slot] = Filled(@, call.fill),
                                  ![call.resting] = Filled(@, call.fill)]
           book   == BookFill(books[Instr], Opposite(call.side), call.idx, call.fill)
           after  == IF filled[call.resting].open_qty = 0
                     THEN remove_resting(filled, book, call.resting)
                     ELSE [pool |-> filled, book |-> book]
<1>1. pc = "on_trade" /\ pool' = after.pool
  BY DEF ApplyTrade
<1>2. /\ call.slot \in Slots /\ call.resting \in Slots /\ call.slot # call.resting
      /\ pool[call.resting].is_open /\ call.fill \in Quantity
      /\ call.fill <= pool[call.slot].open_qty /\ call.fill <= pool[call.resting].open_qty
  BY <1>1, AggressorFacts DEF IInv, CallInOrder, AggressorInOrder, TradeInOrder, Queue, Agg
<1>3. /\ pool \in [Slots -> OrderRecord]
      /\ pool[s] \in OrderRecord /\ pool[s].open_qty + pool[s].filled_qty < QtyMod
  BY StateFacts DEF IInv, OrderQuantitiesFit
<1>4. /\ filled \in [Slots -> OrderRecord]
      /\ filled[s].id = pool[s].id /\ filled[s].is_open = pool[s].is_open
  BY <1>1, FilledPool
<1>5. s \notin {call.slot, call.resting} => filled[s] = pool[s]
  BY <1>3
<1>6. s \in {call.slot, call.resting} =>
        /\ filled[s].open_qty = pool[s].open_qty - call.fill
        /\ filled[s].filled_qty = pool[s].filled_qty + call.fill
  <2>1. ASSUME s \in {call.slot, call.resting} PROVE filled[s] = Filled(pool[s], call.fill)
    BY <1>2, <1>3, <2>1
  <2> HIDE DEF filled
  <2> QED
    BY <1>2, <1>3, <2>1, FilledFacts
<1> HIDE DEF filled, book
<1>7. CASE filled[call.resting].open_qty = 0
  <2>1. pool' = Unlink(filled, call.resting)
    BY <1>1, <1>7 DEF remove_resting
  <2>2. /\ SameQuantities(filled[s], pool'[s])
        /\ pool'[s].is_open <=> (filled[s].is_open /\ s # call.resting)
    BY <1>2, <1>4, <2>1, UnlinkKeepsOrders DEF SameQuantities
  <2>3. pool'[s].is_open \in BOOLEAN /\ pool[s].is_open \in BOOLEAN
    <3>1. Unlink(filled, call.resting)[s] \in OrderRecord
      BY <1>2, <1>4, UnlinkTyped
    <3> QED
      BY <1>3, <2>1, <3>1 DEF OrderRecord
  <2>4. CASE s = call.resting
    BY <1>2, <1>4, <1>6, <1>7, <2>2, <2>4 DEF SameQuantities
  <2>5. CASE s = call.slot
    BY <1>2, <1>4, <1>6, <2>2, <2>3, <2>5 DEF SameQuantities
  <2>6. CASE s \notin {call.slot, call.resting}
    BY <1>5, <2>2, <2>3, <2>6 DEF SameQuantities
  <2> QED
    BY <2>4, <2>5, <2>6
<1>8. CASE filled[call.resting].open_qty # 0
  <2>1. pool' = filled
    BY <1>1, <1>8
  <2> QED
    BY <1>2, <1>4, <1>5, <1>6, <1>8, <2>1 DEF SameQuantities
<1> QED
  BY <1>7, <1>8

\* A remainder comes to rest with what it has.
LEMMA RestRemainderRecords ==
  ASSUME IInv, RestRemainder, NEW s \in Slots
  PROVE  /\ SameQuantities(pool[s], pool'[s])
         /\ pool'[s].is_open <=> (pool[s].is_open \/ s = call.slot)
<1> DEFINE after == add_resting(pool, books[Instr], Instr, call.slot, call.side, call.price)
<1>1. pc = "finish" /\ call.tif = "kDay" /\ pool' = after.pool
  BY DEF RestRemainder
<1>2. /\ Instr \in Instruments /\ call.slot \in Slots /\ call.side \in Side /\ call.price \in Int
      /\ price_to_index(Instr, call.price) \in Index(Instr)
      /\ pool \in [Slots -> OrderRecord] /\ books[Instr] \in Book(Instr)
  BY <1>1, AggressorFacts, StateFacts DEF AggressorInOrder
<1>3. AddRestingEffect(pool, books[Instr], Instr, call.slot, call.side, call.price, after)
  BY <1>2, AddRestingFields
<1> HIDE DEF after
<1>4. /\ SameQuantities(pool[s], after.pool[s])
      /\ s # call.slot => after.pool[s].is_open = pool[s].is_open
      /\ after.pool[call.slot].is_open
  BY <1>3 DEF AddRestingEffect, SameQuantities
<1> QED
  BY <1>1, <1>4

\* A replacement gets the next slot with what is left of the new quantity and
\* what the old order has filled; the old order stops resting.
LEMMA ReplacementRecords ==
  ASSUME IInv, NEW id \in OrderIds, NEW new_id \in OrderIds, NEW p \in ReplacePrices,
         NEW q \in ReplaceQtys, NEW s \in Slots,
         ReplaceLosing(id, new_id, p, q) \/ ReplaceKeeping(id, new_id, p, q)
  PROVE  LET slot == order_index[id]
         IN /\ slot \in Slots /\ pool[slot].is_open /\ pool_size \in Slots
            /\ slot # pool_size /\ ~pool[pool_size].is_open
            /\ pool'[pool_size].id = new_id
            /\ pool'[pool_size].open_qty = NewOpen(id, q)
            /\ pool'[pool_size].filled_qty = pool[slot].filled_qty
            /\ s # pool_size => /\ SameQuantities(pool[s], pool'[s])
                                /\ pool'[s].is_open <=> pool[s].is_open /\ s # slot
            /\ ReplaceLosing(id, new_id, p, q) => ~pool'[pool_size].is_open
            /\ ReplaceKeeping(id, new_id, p, q) => pool'[pool_size].is_open
<1> DEFINE slot  == order_index[id]
           i     == pool[slot].instrument_id
           rec   == ReplacedRec(new_id, i, pool[slot].side, p, NewOpen(id, q),
                                pool[slot].filled_qty)
           pool2 == WithReplacement(id, new_id, p, q)
<1>1. ReplaceAllowed(id, new_id, p, q)
  BY DEF ReplaceLosing, ReplaceKeeping
<1>2. /\ slot \in Slots /\ pool[slot].is_open /\ i \in Instruments
      /\ pool_size < PoolCapacity
      /\ rec \in OrderRecord /\ ~rec.is_open
      /\ pool2 = [pool EXCEPT ![pool_size] = rec]
  BY <1>1, ReplaceFacts
<1>3. /\ rec.id = new_id /\ rec.open_qty = NewOpen(id, q)
      /\ rec.filled_qty = pool[slot].filled_qty
  BY DEF ReplacedRec, NewRecord
<1> HIDE DEF rec, pool2
<1>4. /\ pool_size \in Slots /\ ~pool[pool_size].is_open
      /\ pool2 \in [Slots -> OrderRecord] /\ pool2[pool_size] = rec
      /\ \A t \in Slots \ {pool_size} : pool2[t] = pool[t]
  <2>1. FillsFreshSlot(rec, pool2)
    BY <1>2 DEF FillsFreshSlot
  <2> QED
    BY <2>1, FreshSlot
<1>5. slot # pool_size
  BY <1>2, <1>4
<1>6. CASE ReplaceLosing(id, new_id, p, q)
  <2>1. pool' = Unlink(pool2, slot)
    BY <1>6 DEF ReplaceLosing, remove_resting, pool2
  <2>2. ASSUME NEW t \in Slots
        PROVE  /\ SameQuantities(pool2[t], pool'[t])
               /\ pool'[t].is_open <=> pool2[t].is_open /\ t # slot
    <3> HIDE DEF slot, i
    <3>1. pool2 \in [Slots -> OrderRecord] /\ slot \in Slots
      BY <1>2, <1>4
    <3>2. /\ Unlink(pool2, slot)[t].id = pool2[t].id
          /\ Unlink(pool2, slot)[t].open_qty = pool2[t].open_qty
          /\ Unlink(pool2, slot)[t].filled_qty = pool2[t].filled_qty
          /\ Unlink(pool2, slot)[t].is_open <=> pool2[t].is_open /\ t # slot
      BY <3>1, UnlinkKeepsOrders
    <3> QED
      BY <2>1, <3>2 DEF SameQuantities
  <2>3. ~ReplaceKeeping(id, new_id, p, q)
    BY <1>6 DEF ReplaceLosing, ReplaceKeeping
  <2> QED
    BY <1>2, <1>3, <1>4, <1>5, <2>2, <2>3 DEF SameQuantities
<1>7. CASE ReplaceKeeping(id, new_id, p, q)
  <2> DEFINE after == replace_in_place(pool2, books[i], slot, pool_size)
  <2>1. pool' = after.pool
    BY <1>7 DEF ReplaceKeeping, pool2
  <2>2. books[i] \in Book(i) /\ pool2[slot].level_index \in Index(i)
    <3>1. OnTheirLevels(pool, i)
      BY <1>2 DEF IInv, BooksFit, BookFits
    <3> QED
      BY <1>2, <1>4, <1>5, <3>1, StateFacts DEF OnTheirLevels
  <2>3. ReplaceInPlaceEffect(pool2, books[i], i, slot, pool_size, after)
    BY <1>2, <1>4, <1>5, <2>2, ReplaceInPlaceFields
  <2> HIDE DEF after
  <2>4. \A t \in Slots : SameQuantities(pool2[t], after.pool[t])
    BY <2>3 DEF ReplaceInPlaceEffect, SameQuantities
  <2>5. /\ \A t \in Slots \ {slot, pool_size} : after.pool[t].is_open = pool2[t].is_open
        /\ ~after.pool[slot].is_open /\ after.pool[pool_size].is_open
    BY <2>3 DEF ReplaceInPlaceEffect
  <2>6. ~ReplaceLosing(id, new_id, p, q)
    BY <1>7 DEF ReplaceLosing, ReplaceKeeping
  <2> QED
    BY <1>2, <1>3, <1>4, <1>5, <2>1, <2>4, <2>5, <2>6 DEF SameQuantities
<1> QED
  BY <1>6, <1>7

\* A fresh record, the only change.
LEMMA FreshRecordOnly ==
  ASSUME IInv, NEW rec, FillsFreshSlot(rec, pool'), NEW s \in Slots
  PROVE  /\ pool_size \in Slots /\ ~pool[pool_size].is_open
         /\ pool'[pool_size] = rec /\ ~rec.is_open
         /\ s # pool_size => pool'[s] = pool[s]
BY FreshSlot DEF FillsFreshSlot

\* submit fills in the record of the slot it has just taken, and no other.
LEMMA SubmitRecords ==
  ASSUME IInv, NEW id \in OrderIds, NEW o \in Orders,
         Submit(id, o) \/ SubmitRefused(id, o) \/ SubmitOutOfMemory(id, o), NEW s \in Slots
  PROVE  /\ pool_size \in Slots /\ ~pool[pool_size].is_open
         /\ pool'[pool_size].id = id /\ ~pool'[pool_size].is_open
         /\ pool'[pool_size].filled_qty = 0
         /\ Submit(id, o) => pool'[pool_size].open_qty = o.quantity
         /\ s # pool_size => pool'[s] = pool[s]
<1>1. o.instrument_id \in Instruments /\ o.side \in Side /\ o.quantity \in Quantity
  BY InputAssumption DEF NewOrder
<1> DEFINE refused   == RefusedRec(id, o.instrument_id, o.side)
           submitted == SubmittedRec(id, o.instrument_id, o.side, o.quantity)
<1>2. /\ refused \in OrderRecord /\ ~refused.is_open /\ refused.id = id
      /\ refused.filled_qty = 0
      /\ submitted \in OrderRecord /\ ~submitted.is_open /\ submitted.id = id
      /\ submitted.filled_qty = 0 /\ submitted.open_qty = o.quantity
  <2>1. refused.id = id
    BY DEF RefusedRec, NewRecord
  <2> QED
    BY <1>1, <2>1, FreshRecords
<1>3. CASE Submit(id, o)
  <2>1. FillsFreshSlot(submitted, pool')
    BY <1>2, <1>3 DEF Submit, FillsFreshSlot, SubmittedRec
  <2> HIDE DEF submitted
  <2> QED
    BY <1>2, <2>1, FreshRecordOnly
<1>4. CASE ~Submit(id, o)
  <2>1. FillsFreshSlot(refused, pool')
    BY <1>2, <1>4 DEF SubmitRefused, SubmitOutOfMemory, FillsFreshSlot, RefusedRec
  <2> HIDE DEF refused
  <2> QED
    BY <1>2, <1>4, <2>1, FreshRecordOnly
<1> QED
  BY <1>3, <1>4

-----------------------------------------------------------------------------
(***************************************************************************)
(* Ids and slots.                                                          *)
(***************************************************************************)
\* Nothing is indexed anew.
LEMMA IndexKept ==
  ASSUME IInv, IndexInOrder, UNCHANGED order_index,
         pool_size' \in {pool_size, pool_size + 1},
         \A s \in Slots \ {pool_size} : pool'[s].id = pool[s].id
  PROVE  IndexInOrder'
<1>1. ASSUME NEW id \in OrderIds, contains(id)'
      PROVE  order_index'[id] < pool_size' /\ pool'[order_index'[id]].id = id
  <2>1. order_index'[id] = order_index[id] /\ contains(id)
    BY <1>1 DEF contains
  <2>2. order_index[id] \in Slots /\ pool_size \in Nat
    BY <2>1, StateFacts DEF IInv, TypeOK, contains, Link
  <2>3. order_index[id] < pool_size /\ pool[order_index[id]].id = id
    BY <2>1 DEF IndexInOrder
  <2>4. order_index[id] \in Nat /\ order_index[id] # pool_size
    <3>1. order_index[id] \in Nat
      BY <2>2, SlotFacts
    <3> QED
      BY <2>2, <2>3, <3>1
  <2>5. pool'[order_index[id]].id = pool[order_index[id]].id
    BY <2>2, <2>4
  <2>6. order_index[id] < pool_size'
    BY <2>2, <2>3, <2>4
  <2> QED
    BY <2>1, <2>3, <2>5, <2>6
<1> QED
  BY <1>1 DEF IndexInOrder

\* One id is pointed at the next slot.
LEMMA IndexedAnew ==
  ASSUME IInv, IndexInOrder, NEW id \in OrderIds, pool_size \in Slots,
         order_index' = [order_index EXCEPT ![id] = pool_size],
         pool_size' = pool_size + 1,
         \A s \in Slots \ {pool_size} : pool'[s].id = pool[s].id,
         pool'[pool_size].id = id
  PROVE  IndexInOrder'
<1>1. ASSUME NEW j \in OrderIds, contains(j)'
      PROVE  order_index'[j] < pool_size' /\ pool'[order_index'[j]].id = j
  <2>1. order_index \in [OrderIds -> Link] /\ pool_size \in Nat
    BY StateFacts DEF IInv, TypeOK
  <2>2. CASE j = id
    BY <2>1, <2>2
  <2>3. CASE j # id
    <3>1. order_index'[j] = order_index[j] /\ contains(j)
      BY <1>1, <2>1, <2>3 DEF contains
    <3>2. order_index[j] \in Slots
      BY <2>1, <3>1 DEF contains, Link
    <3>3. order_index[j] < pool_size /\ pool[order_index[j]].id = j
      BY <3>1 DEF IndexInOrder
    <3>4. order_index[j] \in Nat /\ order_index[j] # pool_size
      <4>1. order_index[j] \in Nat
        BY <3>2, SlotFacts
      <4> QED
        BY <2>1, <3>3, <4>1
    <3>5. pool'[order_index[j]].id = pool[order_index[j]].id
      BY <3>2, <3>4
    <3>6. order_index[j] < pool_size'
      BY <2>1, <3>3, <3>4
    <3> QED
      BY <3>1, <3>3, <3>5, <3>6
  <2> QED
    BY <2>2, <2>3
<1> QED
  BY <1>1 DEF IndexInOrder

\* Every step, fault or not, keeps the index in order.
LEMMA NextIndexed ==
  ASSUME IInv, IndexInOrder, [Next \/ Fault]_vars
  PROVE  IndexInOrder'
<1>1. ASSUME \/ UNCHANGED vars \/ StartMatching \/ PickLevel \/ Trade \/ LeaveLevel
             \/ MatchingDone \/ FullyFilled \/ AfterReplaced \/ ListenerThrows
             \/ \E ids \in ConfigureCalls : Configure(ids)
      PROVE  IndexInOrder'
  <2>1. UNCHANGED <<order_index, pool, pool_size>>
    BY <1>1 DEF vars, StartMatching, PickLevel, Trade, LeaveLevel, MatchingDone, FullyFilled,
                AfterReplaced, ListenerThrows, Configure
  <2> QED
    BY <2>1, IndexKept
<1>2. ASSUME pc # "idle", DropRemainder PROVE IndexInOrder'
  <2>1. UNCHANGED <<order_index, pool_size>>
    BY <1>2 DEF DropRemainder
  <2> QED
    BY <1>2, <2>1, DropRecords, IndexKept
<1>3. CASE ApplyTrade
  <2>1. UNCHANGED <<order_index, pool_size>>
    BY <1>3 DEF ApplyTrade
  <2> QED
    BY <1>3, <2>1, ApplyTradeRecords, IndexKept
<1>4. CASE RestRemainder
  <2>1. UNCHANGED <<order_index, pool_size>>
    BY <1>4 DEF RestRemainder
  <2> QED
    BY <1>4, <2>1, RestRemainderRecords, IndexKept DEF SameQuantities
<1>5. ASSUME NEW id \in OrderIds, IsOpen(id), Withdraw(id) PROVE IndexInOrder'
  <2>1. UNCHANGED <<order_index, pool_size>>
    BY <1>5 DEF Withdraw
  <2> QED
    BY <1>5, <2>1, WithdrawRecords, IndexKept DEF SameQuantities
<1>6. ASSUME NEW id \in OrderIds, NEW o \in Orders,
             Submit(id, o) \/ SubmitRefused(id, o)
      PROVE  IndexInOrder'
  <2>1. /\ order_index' = [order_index EXCEPT ![id] = pool_size]
        /\ pool_size' = pool_size + 1 /\ pool_size \in Slots
    BY <1>6, StateFacts, WidthAssumption DEF Submit, SubmitRefused, Slots
  <2> QED
    BY <1>6, <2>1, SubmitRecords, IndexedAnew
<1>7. ASSUME NEW id \in OrderIds, NEW o \in Orders, SubmitOutOfMemory(id, o)
      PROVE  IndexInOrder'
  <2>1. UNCHANGED order_index /\ pool_size' = pool_size + 1
    BY <1>7 DEF SubmitOutOfMemory
  <2> QED
    BY <1>7, <2>1, SubmitRecords, IndexKept
<1>8. ASSUME NEW id \in OrderIds, NEW new_id \in OrderIds, NEW p \in ReplacePrices,
             NEW q \in ReplaceQtys,
             ReplaceLosing(id, new_id, p, q) \/ ReplaceKeeping(id, new_id, p, q)
      PROVE  IndexInOrder'
  <2>1. /\ order_index' = [order_index EXCEPT ![new_id] = pool_size]
        /\ pool_size' = pool_size + 1 /\ pool_size \in Slots
    BY <1>8, StateFacts, WidthAssumption DEF ReplaceLosing, ReplaceKeeping, ReplaceAllowed, Slots
  <2>2. /\ \A s \in Slots \ {pool_size} : pool'[s].id = pool[s].id
        /\ pool'[pool_size].id = new_id
    BY <1>8, <2>1, ReplacementRecords DEF SameQuantities
  <2> QED
    BY <2>1, <2>2, IndexedAnew
<1>9. ASSUME NEW id \in OrderIds, NEW new_id \in OrderIds, NEW p \in ReplacePrices,
             NEW q \in ReplaceQtys, ReplaceOutOfMemory(id, new_id, p, q)
      PROVE  IndexInOrder'
  <2>1. /\ UNCHANGED order_index /\ pool_size' = pool_size + 1
        /\ pool' = WithReplacement(id, new_id, p, q)
    BY <1>9 DEF ReplaceOutOfMemory
  <2>2. \A s \in Slots \ {pool_size} : pool'[s] = pool[s]
    BY <2>1 DEF WithReplacement
  <2> QED
    BY <2>1, <2>2, IndexKept
<1>10. ASSUME NEW id \in OrderIds,
              \/ Cancel(id) \/ CancelFromCallback(id)
              \/ \E new_id \in OrderIds, p \in ReplacePrices, q \in ReplaceQtys :
                   ReplaceToNothing(id, new_id, p, q)
       PROVE  IndexInOrder'
  <2>1. IsOpen(id) /\ Withdraw(id)
    BY <1>10 DEF Cancel, CancelFromCallback, CancelReject, ReplaceToNothing, ReplaceReject
  <2> QED
    BY <1>5, <2>1
<1>11. CASE Host
  BY <1>1, <1>6, <1>8, <1>10, <1>11 DEF Host, Replace, RejectedCall
<1>12. CASE Proceed
  BY <1>1, <1>2, <1>3, <1>4, <1>12 DEF Proceed, CancelUnfillable, CancelRemainder
<1>13. CASE Fault
  BY <1>1, <1>7, <1>9, <1>10, <1>13 DEF Fault
<1> QED
  BY <1>1, <1>11, <1>12, <1>13 DEF Next

-----------------------------------------------------------------------------
(***************************************************************************)
(* The listener's view.                                                    *)
(***************************************************************************)
\* The order of the call in progress has one id.
LEMMA AggressorId ==
  ASSUME IInv, IndexInOrder, pc # "idle", NEW id \in OrderIds
  PROVE  /\ Agg.id \in OrderIds /\ order_index[Agg.id] = call.slot
         /\ call.slot \in Slots /\ contains(Agg.id)
         /\ order_index[id] = call.slot <=> id = Agg.id
<1>1. AggressorInOrder
  BY AggressorFacts
<1>2. contains(Agg.id)
  BY <1>1, SlotFacts DEF AggressorInOrder, contains
<1>3. order_index[id] = call.slot => id = Agg.id
  BY <1>1, SlotFacts DEF AggressorInOrder, IndexInOrder, contains, Agg
<1> QED
  BY <1>1, <1>2, <1>3 DEF AggressorInOrder

\* Where an id leads, and what is known of it.
LEMMA IdFacts ==
  ASSUME IInv, IndexInOrder, NEW id \in OrderIds
  PROVE  /\ contains(id) => /\ order_index[id] \in Slots
                            /\ order_index[id] # kInvalidSlot
                            /\ order_index[id] # pool_size
                            /\ pool[order_index[id]].open_qty \in Int
                            /\ pool[order_index[id]].filled_qty \in Int
                            /\ pool[order_index[id]].id = id
         /\ DOMAIN view = OrderIds
         /\ view[id] \in [open : Int, filled : Int]
         /\ pc = "idle" => call.slot = kInvalidSlot /\ Pending(id) = 0
<1>1. ASSUME contains(id)
      PROVE  /\ order_index[id] \in Slots /\ order_index[id] # kInvalidSlot
             /\ order_index[id] # pool_size
             /\ pool[order_index[id]].open_qty \in Int
             /\ pool[order_index[id]].filled_qty \in Int
             /\ pool[order_index[id]].id = id
  <2>1. order_index[id] \in Slots /\ order_index[id] # kInvalidSlot
    BY <1>1 DEF IInv, TypeOK, contains, Link
  <2>2. order_index[id] < pool_size /\ pool[order_index[id]].id = id
    BY <1>1 DEF IndexInOrder
  <2>3. order_index[id] \in Nat
    BY <2>1, SlotFacts
  <2>4. order_index[id] # pool_size
    BY <2>2, <2>3
  <2>5. pool[order_index[id]].open_qty \in Int /\ pool[order_index[id]].filled_qty \in Int
    BY <2>1, StateFacts, QuantityIsInt
  <2> QED
    BY <2>1, <2>2, <2>4, <2>5
<1>2. DOMAIN view = OrderIds /\ view[id] \in [open : Int, filled : Int]
  BY DEF IInv, TypeOK
<1>3. pc = "idle" => call.slot = kInvalidSlot /\ Pending(id) = 0
  BY DEF IInv, CallInOrder, NoCall, Pending
<1> QED
  BY <1>1, <1>2, <1>3

\* An id the step is not about.
LEMMA ShownKept ==
  ASSUME NEW id \in OrderIds, Shown(id),
         order_index'[id] = order_index[id], view'[id] = view[id],
         contains(id) =>
           LET s == order_index[id]
           IN /\ pool'[s].is_open \/ s = call'.slot <=> Live(s)
              /\ Live(s) => /\ pool'[s].open_qty = pool[s].open_qty
                            /\ pool'[s].filled_qty = pool[s].filled_qty
                            /\ Pending(id)' = Pending(id)
  PROVE  Shown(id)'
<1>1. contains(id)' <=> contains(id)
  BY DEF contains
<1>2. CASE contains(id) /\ Live(order_index[id])
  BY <1>1, <1>2 DEF Shown, Live, Reported
<1>3. CASE contains(id) /\ ~Live(order_index[id])
  BY <1>1, <1>3 DEF Shown, Live
<1>4. CASE ~contains(id)
  BY <1>1, <1>4 DEF Shown
<1> QED
  BY <1>2, <1>3, <1>4

\* Between two callbacks nothing is reported.
LEMMA ControlShown ==
  ASSUME RInv, UNCHANGED <<order_index, pool, view>>, call'.slot = call.slot,
         pc # "on_trade", pc' # "on_trade", NEW id \in OrderIds
  PROVE  Shown(id)'
<1>1. Shown(id) /\ Pending(id) = 0 /\ Pending(id)' = 0
  BY DEF RInv, ViewInOrder, Pending
<1> QED
  BY <1>1, ShownKept DEF Live

\* A call that ends with its order filled, or with what was left dropped.
LEMMA CallEndsShown ==
  ASSUME RInv, pc \notin {"idle", "on_trade"},
         FullyFilled \/ DropRemainder, NEW id \in OrderIds
  PROVE  Shown(id)'
<1>1. /\ UNCHANGED order_index /\ pc' = "idle" /\ call'.slot = kInvalidSlot
      /\ Shown(id) /\ IInv /\ IndexInOrder
      /\ Pending(id) = 0 /\ Pending(id)' = 0
  BY DEF FullyFilled, DropRemainder, Return, NoCall, RInv, ViewInOrder, Pending
<1>2. CASE id = Agg.id
  <2>1. /\ order_index[id] = call.slot /\ contains(id) /\ call.slot \in Slots
        /\ view[id] \in [open : Int, filled : Int]
        /\ Agg.open_qty \in Int /\ DOMAIN view = OrderIds
    BY <1>1, <1>2, AggressorId, IdFacts DEF Agg
  <2>2. view[id].open = Agg.open_qty
    BY <1>1, <2>1 DEF Shown, Live, Reported, Agg
  <2>3. view'[id].open = 0
    <3>1. CASE FullyFilled
      BY <2>2, <3>1 DEF FullyFilled
    <3>2. CASE DropRemainder
      <4>1. view' = [view EXCEPT ![id].open = @ - Agg.open_qty]
        BY <1>2, <3>2 DEF DropRemainder
      <4> QED
        BY <2>1, <2>2, <4>1
    <3> QED
      BY <3>1, <3>2
  <2>4. ~pool'[call.slot].is_open
    <3>1. ~pool[call.slot].is_open
      BY <1>1, AggressorFacts DEF AggressorInOrder, Agg
    <3>2. pool' = pool \/ DropRemainder
      BY DEF FullyFilled
    <3> QED
      BY <1>1, <2>1, <3>1, <3>2, DropRecords
  <2>5. contains(id)' /\ ~(Live(order_index[id]))'
    BY <1>1, <2>1, <2>4, SlotFacts DEF contains, Live
  <2> QED
    BY <2>3, <2>5 DEF Shown
<1>3. CASE id # Agg.id
  <2>1. view'[id] = view[id]
    BY <1>1, <1>3, IdFacts DEF FullyFilled, DropRemainder
  <2>2. ASSUME contains(id)
        PROVE  LET s == order_index[id]
               IN /\ pool'[s].is_open \/ s = call'.slot <=> Live(s)
                  /\ pool'[s].open_qty = pool[s].open_qty
                  /\ pool'[s].filled_qty = pool[s].filled_qty
    <3>1. order_index[id] \in Slots /\ order_index[id] # call.slot
          /\ order_index[id] # kInvalidSlot
      BY <1>1, <1>3, <2>2, AggressorId, IdFacts
    <3>2. /\ pool'[order_index[id]].is_open = pool[order_index[id]].is_open
          /\ SameQuantities(pool[order_index[id]], pool'[order_index[id]])
      <4>1. CASE FullyFilled
        BY <4>1 DEF FullyFilled, SameQuantities
      <4>2. CASE DropRemainder
        BY <1>1, <3>1, <4>2, DropRecords
      <4> QED
        BY <4>1, <4>2
    <3> QED
      BY <1>1, <3>1, <3>2 DEF Live, SameQuantities
  <2> QED
    BY <1>1, <2>1, <2>2, ShownKept
<1> QED
  BY <1>2, <1>3

\* on_trade tells the listener before the fill is booked.
LEMMA TradeShown ==
  ASSUME RInv, Trade, NEW id \in OrderIds
  PROVE  Shown(id)'
<1> DEFINE resting == CurrentLevel.head
           fill    == Smaller(Agg.open_qty, pool[resting].open_qty)
<1>1. /\ pc = "level" /\ pc' = "on_trade" /\ UNCHANGED <<order_index, pool>>
      /\ call' = [call EXCEPT !.resting = resting, !.fill = fill]
      /\ view' = [view EXCEPT ![pool[resting].id] = Seen(@, fill), ![Agg.id] = Seen(@, fill)]
      /\ IInv /\ IndexInOrder /\ Shown(id) /\ IInv'
  BY NextInv DEF Trade, RInv, ViewInOrder, Next, Proceed
<1> HIDE DEF fill, resting
<1>2. call'.slot = call.slot /\ call'.resting = resting /\ call'.fill = fill
  BY <1>1 DEF IInv, TypeOK, Call
<1>3. /\ resting \in Slots /\ pool[resting].is_open /\ fill \in Int
  <2>1. TradeInOrder' /\ call'.fill \in Quantity
    BY <1>1 DEF IInv, TypeOK, CallInOrder, Call
  <2> QED
    BY <1>1, <1>2, <2>1, QuantityIsInt DEF TradeInOrder, Queue
<1>4. /\ order_index[pool[resting].id] = resting /\ pool[resting].id \in OrderIds
      /\ order_index[Agg.id] = call.slot /\ Agg.id \in OrderIds
      /\ resting # call.slot /\ pool[resting].id # Agg.id
  <2>1. AggressorInOrder
    BY <1>1, AggressorFacts
  <2> QED
    BY <1>1, <1>3, <2>1 DEF IInv, OpenOrdersReachable, OpenSlots, SlotsInOrder,
                            AggressorInOrder, Agg
<1>5. Pending(id) = 0 /\ Pending(id)' = IF order_index[id] \in {call.slot, resting}
                                         THEN fill ELSE 0
  BY <1>1, <1>2 DEF Pending
<1>6. CASE id \in {Agg.id, pool[resting].id}
  <2>1. /\ contains(id) /\ Live(order_index[id])
        /\ order_index[id] \in {call.slot, resting}
        /\ pool[order_index[id]].open_qty \in Int /\ pool[order_index[id]].filled_qty \in Int
        /\ DOMAIN view = OrderIds
    <3>1. order_index[id] \in {call.slot, resting} /\ Live(order_index[id])
      BY <1>3, <1>4, <1>6 DEF Live
    <3>2. contains(id)
      BY <1>1, <1>3, <3>1, AggressorId, SlotFacts DEF contains
    <3> QED
      BY <1>1, <3>1, <3>2, IdFacts
  <2>2. view'[id] = Seen(view[id], fill)
    BY <1>1, <1>4, <1>6, <2>1
  <2>3. view[id] = Reported(pool[order_index[id]], 0)
    BY <1>1, <1>5, <2>1 DEF Shown
  <2>4. view'[id] = Reported(pool[order_index[id]], fill)
    BY <1>3, <2>1, <2>2, <2>3 DEF Seen, Reported
  <2>5. contains(id)' /\ (Live(order_index[id]))'
    BY <1>1, <1>2, <2>1 DEF contains, Live
  <2> QED
    BY <1>1, <1>5, <2>1, <2>4, <2>5 DEF Shown
<1>7. CASE id \notin {Agg.id, pool[resting].id}
  <2>1. view'[id] = view[id]
    BY <1>1, <1>7, IdFacts
  <2>2. ASSUME contains(id) PROVE Pending(id)' = 0
    <3>1. order_index[id] # call.slot /\ order_index[id] # resting
      BY <1>1, <1>7, <2>2, AggressorId, IdFacts
    <3> QED
      BY <1>5, <3>1
  <2> QED
    BY <1>1, <1>2, <1>5, <2>1, <2>2, ShownKept DEF Live
<1> QED
  BY <1>6, <1>7

\* Booking the fill makes the records what the listener was told.
LEMMA ApplyTradeShown ==
  ASSUME RInv, ApplyTrade, NEW id \in OrderIds
  PROVE  Shown(id)'
<1>1. /\ pc = "on_trade" /\ pc' = "level" /\ UNCHANGED <<order_index, view>>
      /\ call' = [call EXCEPT !.resting = kInvalidSlot, !.fill = 0]
      /\ IInv /\ IndexInOrder /\ Shown(id)
  BY DEF ApplyTrade, RInv, ViewInOrder
<1>2. call'.slot = call.slot /\ call.fill \in Int
  BY <1>1, QuantityIsInt DEF IInv, TypeOK, Call
<1>3. call.slot \in Slots /\ call.resting \in Slots /\ call.slot # call.resting
      /\ pool[call.resting].is_open
  BY <1>1, AggressorFacts DEF IInv, CallInOrder, AggressorInOrder, TradeInOrder, Queue, Agg
<1>4. Pending(id)' = 0
  BY <1>1 DEF Pending
<1>5. ASSUME contains(id), order_index[id] \in {call.slot, call.resting} PROVE Shown(id)'
  <2> DEFINE s == order_index[id]
  <2>1. /\ Live(s) /\ s \in Slots /\ Pending(id) = call.fill
        /\ pool[s].open_qty \in Int /\ pool[s].filled_qty \in Int
    BY <1>1, <1>3, <1>5, IdFacts DEF Live, Pending
  <2>2. view[id] = Reported(pool[s], call.fill)
    BY <1>1, <1>5, <2>1 DEF Shown
  <2>3. /\ pool'[s].open_qty = pool[s].open_qty - call.fill
        /\ pool'[s].filled_qty = pool[s].filled_qty + call.fill
        /\ s = call.resting => (pool'[s].is_open <=> pool'[s].open_qty # 0)
    BY <1>1, <1>5, <2>1, ApplyTradeRecords
  <2>4. view'[id] = Reported(pool'[s], 0)
    BY <1>1, <1>2, <2>1, <2>2, <2>3 DEF Reported
  <2>5. (Live(order_index[id]))' <=> pool'[s].is_open \/ s = call.slot
    BY <1>1, <1>2 DEF Live
  <2>6. contains(id)' /\ order_index'[id] = s
    BY <1>1, <1>5 DEF contains
  <2>7. pool'[s].open_qty \in Int
    BY <1>2, <2>1, <2>3
  <2> HIDE DEF s
  <2>8. CASE pool'[s].is_open \/ s = call.slot
    BY <1>4, <2>4, <2>5, <2>6, <2>8 DEF Shown, s
  <2>9. CASE ~(pool'[s].is_open \/ s = call.slot)
    <3>1. pool'[s].open_qty = 0
      BY <1>5, <2>3, <2>9 DEF s
    <3>2. view'[id].open = 0
      BY <2>4, <3>1 DEF Reported
    <3> QED
      BY <2>5, <2>6, <2>9, <3>2 DEF Shown
  <2> QED
    BY <2>8, <2>9
<1>6. ASSUME ~(contains(id) /\ order_index[id] \in {call.slot, call.resting}) PROVE Shown(id)'
  <2>1. ASSUME contains(id)
        PROVE  LET s == order_index[id]
               IN /\ pool'[s].is_open \/ s = call'.slot <=> Live(s)
                  /\ pool'[s].open_qty = pool[s].open_qty
                  /\ pool'[s].filled_qty = pool[s].filled_qty
                  /\ Pending(id) = 0
    <3>1. order_index[id] \in Slots /\ order_index[id] \notin {call.slot, call.resting}
      BY <1>1, <1>6, <2>1, IdFacts
    <3>2. /\ SameQuantities(pool[order_index[id]], pool'[order_index[id]])
          /\ pool'[order_index[id]].is_open = pool[order_index[id]].is_open
      BY <1>1, <3>1, ApplyTradeRecords
    <3> QED
      BY <1>2, <3>1, <3>2 DEF SameQuantities, Live, Pending
  <2> QED
    BY <1>1, <1>4, <2>1, ShownKept
<1> QED
  BY <1>5, <1>6

\* A remainder that comes to rest.
LEMMA RestRemainderShown ==
  ASSUME RInv, RestRemainder, NEW id \in OrderIds
  PROVE  Shown(id)'
<1>1. /\ pc = "finish" /\ pc' = "idle" /\ UNCHANGED <<order_index, view>>
      /\ call'.slot = kInvalidSlot
      /\ IInv /\ IndexInOrder /\ Shown(id)
  BY DEF RestRemainder, Return, NoCall, RInv, ViewInOrder
<1>2. Pending(id) = 0 /\ Pending(id)' = 0
  BY <1>1 DEF Pending
<1>3. ASSUME contains(id)
      PROVE  LET s == order_index[id]
             IN /\ pool'[s].is_open \/ s = call'.slot <=> Live(s)
                /\ pool'[s].open_qty = pool[s].open_qty
                /\ pool'[s].filled_qty = pool[s].filled_qty
  <2>1. order_index[id] \in Slots /\ order_index[id] # kInvalidSlot
    BY <1>1, <1>3, IdFacts
  <2>2. /\ SameQuantities(pool[order_index[id]], pool'[order_index[id]])
        /\ pool'[order_index[id]].is_open <=>
             pool[order_index[id]].is_open \/ order_index[id] = call.slot
    BY <1>1, <2>1, RestRemainderRecords
  <2> QED
    BY <1>1, <2>1, <2>2 DEF SameQuantities, Live
<1> QED
  BY <1>1, <1>2, <1>3, ShownKept

\* A call on another order, from between calls.
LEMMA OtherOrderShown ==
  ASSUME RInv, pc = "idle", NEW id \in OrderIds,
         order_index'[id] = order_index[id], view'[id] = view[id],
         pc' # "on_trade", call'.slot \in {kInvalidSlot, pool_size},
         contains(id) =>
           /\ SameQuantities(pool[order_index[id]], pool'[order_index[id]])
           /\ pool'[order_index[id]].is_open <=> pool[order_index[id]].is_open
  PROVE  Shown(id)'
<1>1. /\ Shown(id) /\ IInv /\ IndexInOrder
      /\ call.slot = kInvalidSlot /\ Pending(id) = 0 /\ Pending(id)' = 0
  BY IdFacts DEF RInv, ViewInOrder, Pending
<1>2. ASSUME contains(id)
      PROVE  LET s == order_index[id]
             IN /\ pool'[s].is_open \/ s = call'.slot <=> Live(s)
                /\ pool'[s].open_qty = pool[s].open_qty
                /\ pool'[s].filled_qty = pool[s].filled_qty
  <2>1. order_index[id] # kInvalidSlot /\ order_index[id] # pool_size
    BY <1>1, <1>2, IdFacts
  <2> QED
    BY <1>1, <1>2, <2>1 DEF SameQuantities, Live
<1> QED
  BY <1>1, <1>2, ShownKept

\* cancel, and a replace to nothing.
LEMMA WithdrawShown ==
  ASSUME RInv, pc = "idle", NEW id \in OrderIds, IsOpen(id), Withdraw(id),
         NEW j \in OrderIds
  PROVE  Shown(j)'
<1> DEFINE slot == order_index[id]
<1>1. /\ UNCHANGED <<order_index, pc, call>>
      /\ view' = [view EXCEPT ![id].open = @ - pool[slot].open_qty]
      /\ IInv /\ IndexInOrder /\ Shown(id) /\ contains(id) /\ pool[slot].is_open
      /\ call.slot = kInvalidSlot
  BY IdFacts DEF Withdraw, RInv, ViewInOrder, IsOpen
<1>2. CASE j = id
  <2>1. /\ pool[slot].open_qty \in Int /\ view[id] \in [open : Int, filled : Int]
        /\ DOMAIN view = OrderIds /\ Pending(id) = 0 /\ slot \in Slots
        /\ slot # kInvalidSlot
    BY <1>1, IdFacts
  <2>2. view[id].open = pool[slot].open_qty
    BY <1>1, <2>1 DEF Shown, Live, Reported
  <2>3. view'[id].open = 0
    BY <1>1, <2>1, <2>2
  <2>4. ~pool'[slot].is_open
    BY <1>1, <2>1, WithdrawRecords
  <2>5. contains(id)' /\ ~(Live(order_index[id]))'
    BY <1>1, <2>1, <2>4 DEF contains, Live
  <2> QED
    BY <1>2, <2>3, <2>5 DEF Shown
<1>3. CASE j # id
  <2>1. view'[j] = view[j]
    BY <1>1, <1>3, IdFacts
  <2>2. ASSUME contains(j)
        PROVE  /\ SameQuantities(pool[order_index[j]], pool'[order_index[j]])
               /\ pool'[order_index[j]].is_open <=> pool[order_index[j]].is_open
    <3>1. order_index[j] \in Slots /\ order_index[j] # slot
      BY <1>1, <1>3, <2>2, IdFacts
    <3> QED
      BY <1>1, <3>1, WithdrawRecords
  <2> QED
    BY <1>1, <2>1, <2>2, OtherOrderShown
<1> QED
  BY <1>2, <1>3

\* A new order, accepted or refused with its id spent.
LEMMA SubmitShown ==
  ASSUME RInv, NEW id \in OrderIds, NEW o \in Orders, Submit(id, o) \/ SubmitRefused(id, o),
         NEW j \in OrderIds
  PROVE  Shown(j)'
<1>1. /\ pc = "idle" /\ pc' # "on_trade" /\ ~contains(id)
      /\ order_index' = [order_index EXCEPT ![id] = pool_size]
      /\ IInv /\ IndexInOrder /\ Shown(j)
  BY DEF Submit, SubmitRefused, SubmitReject, Spending, RInv, ViewInOrder
<1>2. /\ pool_size \in Slots
      /\ pool'[pool_size].id = id /\ ~pool'[pool_size].is_open
      /\ pool'[pool_size].filled_qty = 0
      /\ Submit(id, o) => pool'[pool_size].open_qty = o.quantity
      /\ \A s \in Slots \ {pool_size} : pool'[s] = pool[s]
  <2>1. pool_size \in Slots
    BY StateFacts, WidthAssumption DEF RInv, Submit, SubmitRefused, Slots
  <2> QED
    BY <1>1, <2>1, SubmitRecords
<1>3. /\ DOMAIN view = OrderIds /\ view[j] \in [open : Int, filled : Int]
      /\ call.slot = kInvalidSlot /\ order_index \in [OrderIds -> Link]
      /\ o.quantity \in Int
  BY <1>1, IdFacts, InputAssumption, QuantityIsInt DEF IInv, TypeOK, NewOrder
<1>4. CASE j = id
  <2>1. contains(j)' /\ order_index'[j] = pool_size /\ view[j].open = 0 /\ view[j].filled = 0
    BY <1>1, <1>2, <1>3, <1>4, SlotFacts DEF contains, Shown
  <2>2. CASE Submit(id, o)
    <3>1. call'.slot = pool_size /\ view'[j] = [open |-> o.quantity, filled |-> 0]
      BY <1>3, <1>4, <2>1, <2>2 DEF Submit, NoCall
    <3>2. Pending(j)' = 0 /\ (Live(order_index[j]))'
      BY <1>1, <2>1, <3>1 DEF Pending, Live
    <3> QED
      BY <1>2, <1>3, <2>1, <2>2, <3>1, <3>2 DEF Shown, Reported
  <2>3. CASE SubmitRefused(id, o)
    <3>1. UNCHANGED <<call, view>>
      BY <2>3 DEF SubmitRefused
    <3>2. ~(Live(order_index[j]))'
      BY <1>2, <1>3, <2>1, <3>1, SlotFacts DEF Live
    <3> QED
      BY <2>1, <3>1, <3>2 DEF Shown
  <2> QED
    BY <2>2, <2>3
<1>5. CASE j # id
  <2>1. /\ order_index'[j] = order_index[j] /\ view'[j] = view[j]
        /\ call'.slot \in {kInvalidSlot, pool_size}
    BY <1>1, <1>3, <1>5 DEF Submit, SubmitRefused, NoCall
  <2>2. contains(j) => pool'[order_index[j]] = pool[order_index[j]]
    BY <1>1, <1>2, IdFacts
  <2> QED
    BY <1>1, <2>1, <2>2, OtherOrderShown DEF SameQuantities
<1> QED
  BY <1>4, <1>5

\* on_replaced passes what the order has filled on to the new id.
LEMMA ReplaceShown ==
  ASSUME RInv, NEW id \in OrderIds, NEW new_id \in OrderIds, NEW p \in ReplacePrices,
         NEW q \in ReplaceQtys,
         ReplaceLosing(id, new_id, p, q) \/ ReplaceKeeping(id, new_id, p, q),
         NEW j \in OrderIds
  PROVE  Shown(j)'
<1> DEFINE slot == order_index[id]
<1>1. /\ ReplaceAllowed(id, new_id, p, q)
      /\ pc = "idle" /\ pc' # "on_trade"
      /\ order_index' = [order_index EXCEPT ![new_id] = pool_size]
      /\ view' = ReplacedView(id, new_id, q)
      /\ IInv /\ IndexInOrder /\ Shown(id) /\ Shown(j)
  BY DEF ReplaceLosing, ReplaceKeeping, ReplaceAllowed, RInv, ViewInOrder
<1>2. /\ slot \in Slots /\ pool[slot].is_open /\ contains(id) /\ pool_size \in Slots
      /\ slot # pool_size
      /\ NewOpen(id, q) \in Int /\ (new_id = id \/ ~contains(new_id))
      /\ order_index \in [OrderIds -> Link]
      /\ call.slot = kInvalidSlot /\ Pending(id) = 0 /\ Pending(j)' = 0
  <2>1. pool_size \in Slots
    BY <1>1, ReplaceFacts, StateFacts, WidthAssumption DEF Slots
  <2>2. Pending(j)' = 0
    BY <1>1 DEF Pending
  <2> QED
    BY <1>1, <2>1, <2>2, ReplaceFacts, IdFacts DEF IsOpen, IInv, TypeOK
<1>3. /\ pool'[pool_size].open_qty = NewOpen(id, q)
      /\ pool'[pool_size].filled_qty = pool[slot].filled_qty
      /\ ReplaceLosing(id, new_id, p, q) => ~pool'[pool_size].is_open
      /\ ReplaceKeeping(id, new_id, p, q) => pool'[pool_size].is_open
      /\ ~pool'[slot].is_open
  BY <1>1, <1>2, ReplacementRecords
<1>4. /\ ReplaceLosing(id, new_id, p, q) => call'.slot = pool_size
      /\ ReplaceKeeping(id, new_id, p, q) => call'.slot = kInvalidSlot
  BY <1>2 DEF ReplaceLosing, ReplaceKeeping, NoCall
<1>5. /\ DOMAIN view = OrderIds /\ view[id] \in [open : Int, filled : Int]
      /\ pool[slot].filled_qty \in Int
  BY <1>1, <1>2, IdFacts
<1>6. view[id].filled = pool[slot].filled_qty
  BY <1>1, <1>2, <1>5 DEF Shown, Live, Reported
<1>7. CASE j = new_id
  <2>1. order_index'[j] = pool_size /\ contains(j)'
    BY <1>1, <1>2, <1>7, SlotFacts DEF contains
  <2>2. (Live(order_index[j]))'
    BY <1>3, <1>4, <2>1 DEF Live
  <2>3. view'[j] = [open |-> NewOpen(id, q), filled |-> pool[slot].filled_qty]
    BY <1>1, <1>5, <1>6, <1>7 DEF ReplacedView
  <2>4. view'[j] = Reported(pool'[pool_size], 0)
    BY <1>2, <1>3, <1>5, <2>3 DEF Reported
  <2> QED
    BY <1>2, <2>1, <2>2, <2>4 DEF Shown
<1>8. CASE j = id /\ j # new_id
  <2>1. order_index'[j] = slot /\ contains(j)'
    BY <1>1, <1>2, <1>8 DEF contains
  <2>2. view'[j].open = 0
    BY <1>1, <1>5, <1>8 DEF ReplacedView
  <2>3. ~(Live(order_index[j]))'
    BY <1>2, <1>3, <1>4, <2>1, SlotFacts DEF Live
  <2> QED
    BY <2>1, <2>2, <2>3 DEF Shown
<1>9. CASE j # id /\ j # new_id
  <2>1. order_index'[j] = order_index[j] /\ view'[j] = view[j]
    BY <1>1, <1>2, <1>5, <1>9 DEF ReplacedView
  <2>2. ASSUME contains(j)
        PROVE  /\ SameQuantities(pool[order_index[j]], pool'[order_index[j]])
               /\ pool'[order_index[j]].is_open <=> pool[order_index[j]].is_open
    <3>1. order_index[j] \in Slots /\ order_index[j] # pool_size /\ order_index[j] # slot
      BY <1>1, <1>2, <1>9, <2>2, IdFacts
    <3> HIDE DEF slot
    <3> QED
      BY <1>1, <3>1, ReplacementRecords DEF slot
  <2>3. call'.slot \in {kInvalidSlot, pool_size}
    BY <1>4
  <2> QED
    BY <1>1, <2>1, <2>2, <2>3, OtherOrderShown
<1> QED
  BY <1>7, <1>8, <1>9

\* Before the first order nothing is indexed and nothing is known.
LEMMA InitReports == Init => IndexInOrder /\ ViewInOrder
<1> SUFFICES ASSUME Init, NEW id \in OrderIds
    PROVE  ~contains(id) /\ Shown(id)
  BY DEF IndexInOrder, ViewInOrder
<1>1. ~contains(id) /\ view[id] = [open |-> 0, filled |-> 0]
  BY DEF Init, contains
<1> QED
  BY <1>1 DEF Shown

\* Every step without a fault tells the listener what it does.
LEMMA NextShown ==
  ASSUME RInv, [Next]_vars
  PROVE  ViewInOrder'
<1> SUFFICES ASSUME NEW j \in OrderIds PROVE Shown(j)'
  BY DEF ViewInOrder
<1>1. CASE UNCHANGED vars
  <2>1. Shown(j)
    BY DEF RInv, ViewInOrder
  <2> QED
    BY <1>1, <2>1 DEF vars, Shown, Live, contains, Reported, Pending
<1>2. CASE \/ StartMatching \/ PickLevel \/ LeaveLevel \/ MatchingDone \/ AfterReplaced
           \/ \E ids \in ConfigureCalls : Configure(ids)
  <2>1. /\ UNCHANGED <<order_index, pool, view>>
        /\ pc # "on_trade" /\ pc' # "on_trade"
    BY <1>2 DEF StartMatching, PickLevel, LeaveLevel, MatchingDone, AfterReplaced, Configure
  <2>2. call'.slot = call.slot
    BY <1>2 DEF StartMatching, PickLevel, LeaveLevel, MatchingDone, AfterReplaced, Configure,
                RInv, IInv, TypeOK, Call
  <2> QED
    BY <2>1, <2>2, ControlShown
<1>3. CASE FullyFilled \/ CancelRemainder \/ CancelUnfillable
  BY <1>3, CallEndsShown DEF FullyFilled, CancelRemainder, CancelUnfillable
<1>4. ASSUME NEW id \in OrderIds,
             \/ Cancel(id)
             \/ \E new_id \in OrderIds, p \in ReplacePrices, q \in ReplaceQtys :
                  ReplaceToNothing(id, new_id, p, q)
      PROVE  Shown(j)'
  <2>1. pc = "idle" /\ IsOpen(id) /\ Withdraw(id)
    BY <1>4 DEF Cancel, CancelReject, ReplaceToNothing, ReplaceReject
  <2> QED
    BY <2>1, WithdrawShown
<1>5. CASE Host
  BY <1>1, <1>2, <1>4, <1>5, SubmitShown, ReplaceShown DEF Host, Replace, RejectedCall
<1>6. CASE Proceed
  BY <1>2, <1>3, <1>6, TradeShown, ApplyTradeShown, RestRemainderShown DEF Proceed
<1> QED
  BY <1>1, <1>5, <1>6 DEF Next

(***************************************************************************)
(* A host that only adds up the callbacks knows the open and the filled    *)
(* quantity of every order: no callback is missing, double or wrong,       *)
(* through partial fills, replaces under the same or a new id and          *)
(* dropped remainders.                                                     *)
(***************************************************************************)
THEOREM ReplicaAgreesHolds == Spec => []ReplicaAgrees
<1>1. Init => RInv
  BY InitInv, InitReports DEF RInv
<1>2. RInv /\ [Next]_vars => RInv'
  BY NextInv, NextIndexed, NextShown DEF RInv
<1>3. RInv => ReplicaAgrees
  <2> SUFFICES ASSUME RInv, pc # "on_trade", NEW id \in OrderIds
      PROVE  IF contains(id) /\ Live(order_index[id])
             THEN LET rec == pool[order_index[id]]
                  IN view[id] = [open |-> rec.open_qty, filled |-> rec.filled_qty]
             ELSE view[id].open = 0
    BY DEF ReplicaAgrees
  <2>1. Shown(id) /\ Pending(id) = 0
    BY DEF RInv, ViewInOrder, Pending
  <2>2. CASE contains(id) /\ Live(order_index[id])
    <3>1. /\ pool[order_index[id]].open_qty \in Int
          /\ pool[order_index[id]].filled_qty \in Int
      BY <2>2, IdFacts DEF RInv
    <3> QED
      BY <2>1, <2>2, <3>1 DEF Shown, Reported
  <2>3. CASE ~(contains(id) /\ Live(order_index[id]))
    BY <2>1, <2>3 DEF Shown
  <2> QED
    BY <2>2, <2>3
<1> QED
  BY <1>1, <1>2, <1>3, PTL DEF Spec

-----------------------------------------------------------------------------
(***************************************************************************)
(* Closed orders.                                                          *)
(***************************************************************************)
StaysClosed(id) == IsClosed(id) => IsClosed(id)'

\* The id still leads to its slot, nothing came to rest there, and the order
\* there is not what a call has just taken up.
LEMMA StaysClosedIf ==
  ASSUME NEW id \in OrderIds, order_index'[id] = order_index[id],
         pool'[order_index[id]].is_open => pool[order_index[id]].is_open,
         call'.slot # order_index[id]
  PROVE  StaysClosed(id)
BY DEF StaysClosed, IsClosed, Live, contains

\* No step of any call reopens an id that is closed.
LEMMA NextStaysClosed ==
  ASSUME IInv, IndexInOrder, [Next \/ Fault]_vars, NEW j \in OrderIds
  PROVE  StaysClosed(j)
<1> SUFFICES ASSUME IsClosed(j) PROVE StaysClosed(j)
  BY DEF StaysClosed
<1>1. /\ order_index[j] \in Slots /\ order_index[j] # pool_size
      /\ order_index[j] # kInvalidSlot /\ order_index[j] # call.slot
      /\ ~pool[order_index[j]].is_open
      /\ order_index \in [OrderIds -> Link] /\ call \in Call
  BY IdFacts DEF IInv, TypeOK, IsClosed, Live
<1>2. ASSUME UNCHANGED <<order_index, pool>>, call'.slot \in {call.slot, kInvalidSlot}
      PROVE  StaysClosed(j)
  BY <1>1, <1>2, StaysClosedIf
<1>3. ASSUME \/ UNCHANGED vars
             \/ \E ids \in ConfigureCalls : Configure(ids)
             \/ StartMatching \/ PickLevel \/ Trade \/ LeaveLevel \/ MatchingDone
             \/ FullyFilled \/ AfterReplaced \/ ListenerThrows
      PROVE  StaysClosed(j)
  <2>1. UNCHANGED <<order_index, pool>>
    BY <1>3 DEF vars, Configure, StartMatching, PickLevel, Trade, LeaveLevel, MatchingDone,
                FullyFilled, AfterReplaced, ListenerThrows
  <2>2. call'.slot \in {call.slot, kInvalidSlot}
    <3>1. DOMAIN call = {"slot", "side", "tif", "is_market", "price", "price_changed", "idx",
                         "resting", "fill"}
      BY <1>1 DEF Call
    <3>2. CASE \/ UNCHANGED vars \/ \E ids \in ConfigureCalls : Configure(ids)
               \/ StartMatching \/ MatchingDone \/ AfterReplaced
      BY <3>2 DEF vars, Configure, StartMatching, MatchingDone, AfterReplaced
    <3>3. CASE FullyFilled \/ ListenerThrows
      BY <3>3 DEF FullyFilled, ListenerThrows, Return, NoCall
    <3>4. CASE PickLevel
      BY <3>1, <3>4 DEF PickLevel
    <3>5. CASE Trade
      BY <3>1, <3>5 DEF Trade
    <3>6. CASE LeaveLevel
      BY <3>1, <3>6 DEF LeaveLevel
    <3> QED
      BY <1>3, <3>2, <3>3, <3>4, <3>5, <3>6
  <2> QED
    BY <1>2, <2>1, <2>2
<1>4. ASSUME CancelUnfillable \/ CancelRemainder PROVE StaysClosed(j)
  <2>1. pc # "idle" /\ DropRemainder
    BY <1>4 DEF CancelUnfillable, CancelRemainder
  <2>2. pool'[order_index[j]].is_open = pool[order_index[j]].is_open
    BY <1>1, <2>1, DropRecords
  <2>3. UNCHANGED order_index /\ call'.slot = kInvalidSlot
    BY <2>1 DEF DropRemainder, Return, NoCall
  <2> QED
    BY <1>1, <2>2, <2>3, StaysClosedIf
<1>5. ASSUME ApplyTrade PROVE StaysClosed(j)
  <2>1. pool[call.resting].is_open
    BY <1>5 DEF ApplyTrade, IInv, CallInOrder, TradeInOrder, Queue
  <2>2. order_index[j] \notin {call.slot, call.resting}
    BY <1>1, <2>1
  <2>3. pool'[order_index[j]].is_open = pool[order_index[j]].is_open
    BY <1>1, <1>5, <2>2, ApplyTradeRecords
  <2>4. UNCHANGED order_index /\ call'.slot = call.slot
    BY <1>1, <1>5 DEF ApplyTrade, Call
  <2> QED
    BY <1>1, <2>3, <2>4, StaysClosedIf
<1>6. ASSUME RestRemainder PROVE StaysClosed(j)
  <2>1. pool'[order_index[j]].is_open <=> pool[order_index[j]].is_open
    BY <1>1, <1>6, RestRemainderRecords
  <2>2. UNCHANGED order_index /\ call'.slot = kInvalidSlot
    BY <1>6 DEF RestRemainder, Return, NoCall
  <2> QED
    BY <1>1, <2>1, <2>2, StaysClosedIf
<1>7. ASSUME NEW id \in OrderIds, NEW o \in Orders,
             Submit(id, o) \/ SubmitRefused(id, o) \/ SubmitOutOfMemory(id, o)
      PROVE  StaysClosed(j)
  <2>1. contains(j)
    BY DEF IsClosed
  <2>2. order_index'[j] = order_index[j]
    BY <1>1, <1>7, <2>1 DEF Submit, SubmitRefused, SubmitOutOfMemory, SubmitReject, Spending
  <2>3. pool'[order_index[j]] = pool[order_index[j]]
    BY <1>1, <1>7, SubmitRecords
  <2>4. call'.slot \in {call.slot, pool_size}
    BY <1>7 DEF Submit, SubmitRefused, SubmitOutOfMemory, NoCall
  <2> QED
    BY <1>1, <2>2, <2>3, <2>4, StaysClosedIf
<1>8. ASSUME NEW id \in OrderIds,
             \/ Cancel(id) \/ CancelFromCallback(id)
             \/ \E new_id \in OrderIds, p \in ReplacePrices, q \in ReplaceQtys :
                  ReplaceToNothing(id, new_id, p, q)
      PROVE  StaysClosed(j)
  <2>1. IsOpen(id) /\ Withdraw(id)
    BY <1>8 DEF Cancel, CancelFromCallback, CancelReject, ReplaceToNothing, ReplaceReject
  <2>2. UNCHANGED <<order_index, call>>
    BY <2>1 DEF Withdraw
  <2> QED
    BY <1>1, <2>1, <2>2, WithdrawRecords, StaysClosedIf
<1>9. ASSUME NEW id \in OrderIds, NEW new_id \in OrderIds, NEW p \in ReplacePrices,
             NEW q \in ReplaceQtys,
             ReplaceLosing(id, new_id, p, q) \/ ReplaceKeeping(id, new_id, p, q)
      PROVE  StaysClosed(j)
  <2>1. ReplaceAllowed(id, new_id, p, q)
    BY <1>9 DEF ReplaceLosing, ReplaceKeeping
  <2>2. contains(j) /\ ~IsOpen(j)
    BY <1>1 DEF IsClosed, IsOpen
  <2>3. j # new_id
    BY <2>1, <2>2, ReplaceFacts
  <2>4. order_index'[j] = order_index[j]
    BY <1>1, <1>9, <2>3 DEF ReplaceLosing, ReplaceKeeping
  <2>5. pool'[order_index[j]].is_open => pool[order_index[j]].is_open
    BY <1>1, <1>9, ReplacementRecords
  <2>6. call'.slot \in {call.slot, pool_size}
    BY <1>9 DEF ReplaceLosing, ReplaceKeeping, NoCall
  <2> QED
    BY <1>1, <2>4, <2>5, <2>6, StaysClosedIf
<1>10. ASSUME NEW id \in OrderIds, NEW new_id \in OrderIds, NEW p \in ReplacePrices,
              NEW q \in ReplaceQtys, ReplaceOutOfMemory(id, new_id, p, q)
       PROVE  StaysClosed(j)
  <2>1. UNCHANGED <<order_index, call>> /\ pool' = WithReplacement(id, new_id, p, q)
    BY <1>10 DEF ReplaceOutOfMemory
  <2>2. pool'[order_index[j]] = pool[order_index[j]]
    BY <1>1, <2>1 DEF WithReplacement
  <2> QED
    BY <1>1, <2>1, <2>2, StaysClosedIf
<1>11. CASE Host
  BY <1>3, <1>7, <1>8, <1>9, <1>11 DEF Host, Replace, RejectedCall
<1>12. CASE Proceed
  BY <1>3, <1>4, <1>5, <1>6, <1>12 DEF Proceed
<1>13. CASE Fault
  BY <1>3, <1>7, <1>8, <1>10, <1>13 DEF Fault
<1> QED
  BY <1>3, <1>11, <1>12, <1>13 DEF Next

(***************************************************************************)
(* An id whose order neither rests nor executes stays so at every step of  *)
(* every call: submit and replace take no such id again and reopen no such *)
(* order, also when calls run out of memory and listeners throw or cancel. *)
(***************************************************************************)
THEOREM ClosedStaysClosedHolds == FaultSpec => ClosedStaysClosed
<1>1. Init => IInv /\ IndexInOrder
  BY InitInv, InitReports
<1>2. IInv /\ IndexInOrder /\ [Next \/ Fault]_vars => (IInv /\ IndexInOrder)'
  BY NextInv, NextIndexed
<1>3. IInv /\ IndexInOrder /\ [Next \/ Fault]_vars =>
        [\A id \in OrderIds : IsClosed(id) => IsClosed(id)']_vars
  BY NextStaysClosed DEF StaysClosed
<1> QED
  BY <1>1, <1>2, <1>3, PTL DEF FaultSpec, ClosedStaysClosed

-----------------------------------------------------------------------------
\* The least number in Wrong is the first reason that applies.
LEMMA FirstWrong ==
  ASSUME NEW id, NEW o, NEW k \in 0 .. 5, k \in Wrong(id, o),
         \A r \in 0 .. 5 : r < k => r \notin Wrong(id, o)
  PROVE  Wrong(id, o) # {} /\ Min(Wrong(id, o)) = k
<1>1. Wrong(id, o) \subseteq Nat /\ Wrong(id, o) # {} /\ Wrong(id, o) \subseteq 0 .. 5
  <2>1. Wrong(id, o) \subseteq 0 .. 5
    BY DEF Wrong
  <2> HIDE DEF Wrong
  <2> QED
    BY <2>1
<1>2. /\ Min(Wrong(id, o)) \in Wrong(id, o)
      /\ \A r \in Wrong(id, o) : Min(Wrong(id, o)) <= r
  BY <1>1, MinOf
<1>3. Min(Wrong(id, o)) \in 0 .. 5
  BY <1>1, <1>2
<1> QED
  BY <1>1, <1>2, <1>3

\* What each number in Wrong stands for.
LEMMA WrongReasons ==
  ASSUME NEW id, NEW o
  PROVE  /\ 0 \in Wrong(id, o) <=> o.instrument_id \notin instrument_index
         /\ 1 \in Wrong(id, o) <=> contains(id)
         /\ 2 \in Wrong(id, o) <=> o.quantity = 0
         /\ 3 \in Wrong(id, o) <=> ~IsMarket(o) /\ ~tick_aligned(o.price)
         /\ 4 \in Wrong(id, o) <=> /\ ~IsMarket(o) /\ o.instrument_id \in instrument_index
                                   /\ ~in_band(o.instrument_id, o.price)
         /\ 5 \in Wrong(id, o) <=> IsMarket(o) /\ o.tif = "kDay"
BY DEF Wrong

(***************************************************************************)
(* Whatever is wrong with an order, the reason submit gives is the first   *)
(* of RejectReason that applies, for every order and every book: looking   *)
(* at time in force before tick and band does no harm, because only a      *)
(* market order can have a wrong one (engine.cpp:170-197).                 *)
(***************************************************************************)
THEOREM SubmitReportsFirstListedHolds == FaultSpec => []SubmitReportsFirstListed
<1>1. SubmitReportsFirstListed
  <2> SUFFICES ASSUME configured, NEW id \in OrderIds, NEW o \in Orders
      PROVE  SubmitReject(id, o) =
               IF Wrong(id, o) = {} THEN "none" ELSE Listed[Min(Wrong(id, o)) + 1]
    BY DEF SubmitReportsFirstListed
  <2> DEFINE wrong(r) == r \in Wrong(id, o)
  <2>1. /\ SubmitReject(id, o) =
             IF wrong(0) THEN Listed[1] ELSE IF wrong(1) THEN Listed[2]
             ELSE IF wrong(2) THEN Listed[3] ELSE IF wrong(5) THEN Listed[6]
             ELSE IF wrong(3) THEN Listed[4] ELSE IF wrong(4) THEN Listed[5] ELSE "none"
    BY WrongReasons DEF SubmitReject, Listed
  <2>2. wrong(5) => ~wrong(3) /\ ~wrong(4)
    BY WrongReasons
  <2>3. Wrong(id, o) \subseteq 0 .. 5
    BY DEF Wrong
  <2>4. \A k \in 0 .. 5 :
          wrong(k) /\ (\A r \in 0 .. 5 : r < k => ~wrong(r)) =>
            Wrong(id, o) # {} /\ Min(Wrong(id, o)) = k
    BY FirstWrong
  <2>5. CASE wrong(0)
    <3>1. Min(Wrong(id, o)) = 0 /\ Wrong(id, o) # {}
      BY <2>4, <2>5
    <3> QED
      BY <2>1, <2>5, <3>1
  <2>6. CASE wrong(1) /\ ~wrong(0)
    <3>1. Min(Wrong(id, o)) = 1 /\ Wrong(id, o) # {}
      BY <2>4, <2>6
    <3> QED
      BY <2>1, <2>6, <3>1
  <2>7. CASE wrong(2) /\ ~wrong(0) /\ ~wrong(1)
    <3>1. Min(Wrong(id, o)) = 2 /\ Wrong(id, o) # {}
      BY <2>4, <2>7
    <3> QED
      BY <2>1, <2>7, <3>1
  <2>8. CASE wrong(3) /\ ~wrong(0) /\ ~wrong(1) /\ ~wrong(2)
    <3>1. Min(Wrong(id, o)) = 3 /\ Wrong(id, o) # {}
      BY <2>4, <2>8
    <3> QED
      BY <2>1, <2>2, <2>8, <3>1
  <2>9. CASE wrong(4) /\ ~wrong(0) /\ ~wrong(1) /\ ~wrong(2) /\ ~wrong(3)
    <3>1. Min(Wrong(id, o)) = 4 /\ Wrong(id, o) # {}
      BY <2>4, <2>9
    <3> QED
      BY <2>1, <2>2, <2>9, <3>1
  <2>10. CASE wrong(5) /\ ~wrong(0) /\ ~wrong(1) /\ ~wrong(2) /\ ~wrong(3) /\ ~wrong(4)
    <3>1. Min(Wrong(id, o)) = 5 /\ Wrong(id, o) # {}
      BY <2>4, <2>10
    <3> QED
      BY <2>1, <2>10, <3>1
  <2>11. CASE \A k \in 0 .. 5 : ~wrong(k)
    <3>1. Wrong(id, o) = {}
      BY <2>3, <2>11
    <3> QED
      BY <2>1, <2>11, <3>1
  <2> HIDE DEF wrong
  <2>12. \A k \in 0 .. 5 : k \in {0, 1, 2, 3, 4, 5}
    OBVIOUS
  <2> QED
    BY <2>5, <2>6, <2>7, <2>8, <2>9, <2>10, <2>11, <2>12
<1> QED
  BY <1>1, PTL

-----------------------------------------------------------------------------
(***************************************************************************)
(* Fill or kill.  can_fully_fill adds up level totals in a word, each of   *)
(* them a word already; both can only come out too small, so a walk that   *)
(* succeeds means that the resting orders within the limit have enough     *)
(* open between them.  Every execution takes the same quantity from the    *)
(* order and from one of them, so they still have enough when matching     *)
(* stops, and then there are none of them left.                            *)
(***************************************************************************)
\* The resting orders within the limit of the order of the call in progress.
Eligible ==
  {s \in Opposing : call.is_market \/ crosses(call.side, call.price, pool[s].price)}

Enough == Agg.open_qty <= SumFunctionOnSet(OpenQuantities(pool), Eligible)

FokCovered ==
  /\ pc = "on_replaced" => call.tif = "kDay"
  /\ call.tif = "kFok" /\ pc \in {"match", "level", "on_trade", "finish"} => Enough

KInv == MInv /\ BooksTotalled /\ FokCovered

\* The orders on a level at least as good as one within the limit are within it.
LEMMA ThroughEligible ==
  ASSUME IInv, pc # "idle", NEW x \in Index(Instr), NEW y \in Index(Instr),
         Marketable(Instr, call.side, call.is_market, call.price, x),
         ~Better(Opposite(call.side), x, y)
  PROVE  Queue(pool, Instr, Opposite(call.side), y) \subseteq Eligible
<1>1. Instr \in Instruments /\ call.side \in Side /\ call.price \in Int
  BY AggressorFacts
<1>2. ASSUME NEW s \in Queue(pool, Instr, Opposite(call.side), y) PROVE s \in Eligible
  <2>1. s \in Opposing /\ pool[s].level_index = y
    BY <1>2 DEF Queue, Opposing, OpenSlots
  <2>2. Ladder[Instr][y] = pool[s].price
    BY <2>1, OpposingLevels
  <2>3. call.is_market \/ crosses(call.side, call.price, Ladder[Instr][x])
    BY DEF Marketable, index_to_price
  <2>4. /\ x \in Nat /\ y \in Nat /\ Ladder[Instr][x] \in Int /\ Ladder[Instr][y] \in Int
        /\ x < y <=> Ladder[Instr][x] < Ladder[Instr][y]
        /\ x = y <=> Ladder[Instr][x] = Ladder[Instr][y]
    BY <1>1, LadderOrder
  <2>5. call.is_market \/ crosses(call.side, call.price, Ladder[Instr][y])
    <3>1. CASE call.side = "kBuy"
      BY <1>1, <2>3, <2>4, <3>1 DEF Better, Opposite, crosses
    <3>2. CASE call.side = "kSell"
      BY <1>1, <2>3, <2>4, <3>2 DEF Better, Opposite, crosses
    <3> QED
      BY <1>1, <3>1, <3>2 DEF Side
  <2> QED
    BY <2>1, <2>2, <2>5 DEF Eligible
<1> QED
  BY <1>2

\* The totals the walk adds up are no more than what the orders have open.
LEMMA WalkCounts ==
  ASSUME IInv, BooksAggregated, BooksTotalled, pc # "idle", NEW x \in Index(Instr),
         Marketable(Instr, call.side, call.is_market, call.price, x)
  PROVE  /\ AvailableThrough(books[Instr], Opposite(call.side), x) \in Nat
         /\ AvailableThrough(books[Instr], Opposite(call.side), x)
              <= SumFunctionOnSet(OpenQuantities(pool), Eligible)
<1> DEFINE opp    == Opposite(call.side)
           book   == books[Instr]
           walked == LevelsThrough(book, opp, x)
           totals == LevelTotals(book, opp)
           block  == [y \in walked |-> Queue(pool, Instr, opp, y)]
           sums   == [y \in walked |-> LevelSum(pool, Instr, opp, y)]
           open   == OpenQuantities(pool)
           all    == UNION {block[y] : y \in walked}
<1>1. /\ Instr \in Instruments /\ opp \in Side /\ book \in Book(Instr)
      /\ pool \in [Slots -> OrderRecord]
  BY AggressorFacts, StateFacts
<1>2. walked \subseteq Index(Instr) /\ IsFiniteSet(walked)
  <2>1. book.bitmap[opp] = Occupied(pool, Instr, opp)
    BY <1>1 DEF BooksAggregated, Aggregated
  <2>2. walked \subseteq Index(Instr)
    BY <2>1 DEF LevelsThrough, Occupied
  <2> QED
    BY <1>1, <2>2, LadderAssumption, FS_Subset DEF IsLadder
<1>3. ASSUME NEW y \in walked
      PROVE  /\ block[y] = Queue(pool, Instr, opp, y)
             /\ block[y] \subseteq Slots /\ IsFiniteSet(block[y])
             /\ sums[y] = SumFunctionOnSet(open, block[y])
             /\ sums[y] \in Nat
             /\ \A s \in block[y] : open[s] \in Nat
             /\ block[y] \subseteq Eligible
  <2>1. block[y] = Queue(pool, Instr, opp, y) /\ block[y] \subseteq Slots
    BY DEF Queue
  <2>2. sums[y] = SumFunctionOnSet(open, block[y])
    BY <2>1 DEF LevelSum
  <2>3. /\ IsFiniteSet(block[y]) /\ SumFunctionOnSet(open, block[y]) \in Nat
        /\ \A s \in block[y] : open[s] \in Nat
    <3> HIDE DEF block
    <3> QED
      BY <1>1, <2>1, SumOfOrders
  <2>4. y \in Index(Instr) /\ ~Better(opp, x, y)
    BY <1>2 DEF LevelsThrough
  <2>5. block[y] \subseteq Eligible
    BY <2>1, <2>4, ThroughEligible
  <2> QED
    BY <2>1, <2>2, <2>3, <2>5
<1>4. ASSUME NEW y \in walked
      PROVE  totals[y] \in Nat /\ totals[y] <= sums[y]
  <2>1. y \in Index(Instr) /\ book.levels[opp] \in [Index(Instr) -> Level]
    BY <1>1, <1>2 DEF Book
  <2>2. totals[y] = book.levels[opp][y].total_qty
    BY <2>1 DEF LevelTotals
  <2>3. book.levels[opp][y].total_qty = LevelSum(pool, Instr, opp, y) % QtyMod
    BY <1>1, <2>1 DEF BooksTotalled, Totalled
  <2>4. sums[y] = LevelSum(pool, Instr, opp, y)
    OBVIOUS
  <2>5. totals[y] = sums[y] % QtyMod
    BY <2>2, <2>3, <2>4
  <2>6. sums[y] \in Nat
    BY <1>3
  <2> HIDE DEF sums, totals
  <2> QED
    BY <2>5, <2>6, WidthAssumption, RemainderAtMost
<1>5. SumFunctionOnSet(open, all) = SumFunctionOnSet(sums, walked)
  <2>1. ASSUME NEW y \in walked, NEW z \in walked, y # z PROVE block[y] \cap block[z] = {}
    BY <2>1, <1>3 DEF Queue
  <2>2. \A y \in walked : IsFiniteSet(block[y]) /\ sums[y] = SumFunctionOnSet(open, block[y])
    BY <1>3
  <2>3. \A y \in walked : \A s \in block[y] : open[s] \in Nat
    BY <1>3
  <2> HIDE DEF walked, block, sums, open
  <2> QED
    BY <1>2, <2>1, <2>2, <2>3, SumOfBlocks
<1>6. SumFunctionOnSet(totals, walked) <= SumFunctionOnSet(sums, walked)
      /\ SumFunctionOnSet(totals, walked) \in Nat /\ SumFunctionOnSet(sums, walked) \in Nat
  <2>1. \A y \in walked : totals[y] \in Nat /\ sums[y] \in Nat /\ totals[y] <= sums[y]
    BY <1>3, <1>4
  <2> HIDE DEF walked, totals, sums
  <2> QED
    BY <1>2, <2>1, SumOfSmaller, SumType
<1>7. SumFunctionOnSet(open, all) <= SumFunctionOnSet(open, Eligible)
      /\ SumFunctionOnSet(open, Eligible) \in Nat
  <2>1. Eligible \subseteq Slots
    BY DEF Eligible, Opposing, OpenSlots
  <2>2. all \subseteq Eligible
    BY <1>3
  <2>3. IsFiniteSet(Eligible) /\ \A s \in Eligible : open[s] \in Nat
    BY <1>1, <2>1, SumOfOrders
  <2> HIDE DEF all, open
  <2> QED
    BY <2>2, <2>3, SumOfPart, SumType
<1>8. AvailableThrough(book, opp, x) = SumFunctionOnSet(totals, walked)
  BY DEF AvailableThrough
<1>9. SumFunctionOnSet(totals, walked) \in Nat
      /\ SumFunctionOnSet(totals, walked) <= SumFunctionOnSet(open, Eligible)
  <2> HIDE DEF totals, walked, sums, open, all
  <2> QED
    BY <1>5, <1>6, <1>7
<1> QED
  BY <1>8, <1>9

\* A walk that succeeds has found enough.
LEMMA WalkSucceeds ==
  ASSUME IInv, BooksAggregated, BooksTotalled, pc # "idle",
         can_fully_fill(Instr, call.side, call.is_market, call.price, Agg.open_qty)
  PROVE  Enough
<1> DEFINE opp == Opposite(call.side)
<1>1. PICK x \in books[Instr].bitmap[opp] :
        /\ Marketable(Instr, call.side, call.is_market, call.price, x)
        /\ AvailableThrough(books[Instr], opp, x) % QtyMod >= Agg.open_qty
  BY DEF can_fully_fill
<1>2. /\ Instr \in Instruments /\ opp \in Side /\ Agg.open_qty \in Nat
  BY AggressorFacts, WidthAssumption DEF Quantity
<1>3. x \in Index(Instr)
  BY <1>1, <1>2 DEF BooksAggregated, Aggregated, Occupied
<1> DEFINE n == AvailableThrough(books[Instr], opp, x)
<1>4. n \in Nat /\ n <= SumFunctionOnSet(OpenQuantities(pool), Eligible)
  BY <1>1, <1>3, WalkCounts
<1>5. n % QtyMod >= Agg.open_qty
  BY <1>1
<1>6. SumFunctionOnSet(OpenQuantities(pool), Eligible) \in Nat
  <2>1. Eligible \subseteq Slots /\ pool \in [Slots -> OrderRecord]
    BY StateFacts DEF Eligible, Opposing, OpenSlots
  <2> QED
    BY <2>1, SumOfOrders
<1> HIDE DEF n
<1>7. n % QtyMod \in Nat /\ n % QtyMod <= n
  BY <1>4, WidthAssumption, RemainderAtMost
<1> QED
  BY <1>2, <1>4, <1>5, <1>6, <1>7 DEF Enough

-----------------------------------------------------------------------------
\* A step of the call that moves neither the orders nor what the call is about.
LEMMA CoveredStays ==
  ASSUME FokCovered, UNCHANGED pool, pc # "idle",
         call'.slot = call.slot, call'.side = call.side, call'.tif = call.tif,
         call'.is_market = call.is_market, call'.price = call.price,
         pc' \in {"match", "level", "on_trade", "finish"},
         call.tif = "kFok" => Enough
  PROVE  FokCovered'
<1>1. Agg' = Agg /\ Instr' = Instr
  BY DEF Instr, Agg
<1>2. Eligible' = Eligible
  BY <1>1 DEF Eligible, Opposing, OpenSlots
<1>3. call.tif = "kFok" => Enough'
  BY <1>1, <1>2 DEF Enough
<1> QED
  BY <1>3 DEF FokCovered

\* An execution takes as much from the order as from the orders it can trade with.
LEMMA ApplyTradeCovered ==
  ASSUME MInv, FokCovered, ApplyTrade PROVE FokCovered'
<1> DEFINE r == call.resting
           E == Eligible
           rest == E \ {r}
           fill == call.fill
<1>1. /\ pc = "on_trade" /\ pc' = "level"
      /\ call' = [call EXCEPT !.resting = kInvalidSlot, !.fill = 0]
  BY DEF ApplyTrade
<1>2. /\ call \in Call /\ AggressorInOrder /\ call.slot \in Slots /\ TradeInOrder
      /\ pool \in [Slots -> OrderRecord] /\ fill \in Quantity
  BY <1>1, AggressorFacts, StateFacts DEF MInv, IInv, TypeOK, CallInOrder, AggressorInOrder
<1>3. /\ call'.slot = call.slot /\ call'.side = call.side /\ call'.tif = call.tif
      /\ call'.is_market = call.is_market /\ call'.price = call.price
  BY ApplyTradeSameCall DEF MInv
<1>4. r \in Eligible
  <2>1. PriceTimePriority
    BY MInvOrdersTrades
  <2>2. r \in Slots
    BY <1>2 DEF TradeInOrder, Queue
  <2> QED
    BY <1>1, <2>1, <2>2 DEF PriceTimePriority, Eligible, Opposing, OpenSlots
<1>5. r \in Slots /\ r # call.slot /\ E \subseteq Slots /\ call.slot \notin E
  BY <1>2, <1>4 DEF Eligible, Opposing, OpenSlots, AggressorInOrder, Agg
<1>6. /\ pool'[r].open_qty = pool[r].open_qty - fill
      /\ pool'[call.slot].open_qty = pool[call.slot].open_qty - fill
      /\ \A s \in rest : pool'[s].open_qty = pool[s].open_qty
      /\ pool'[r].is_open <=> pool'[r].open_qty # 0
  BY <1>2, <1>5, ApplyTradeRecords DEF MInv, SameQuantities
<1>7. SameOrders(pool, pool') \/ OneLeaves(pool, pool', r)
  BY ApplyTradeLeaves DEF MInv
<1>8. Instr' = Instr /\ Agg'.open_qty = Agg.open_qty - fill
  BY <1>3, <1>6, ApplyTradeSameCall DEF MInv, Agg
<1>9. Eligible' = IF pool'[r].open_qty = 0 THEN rest ELSE E
  <2>1. CASE pool'[r].open_qty = 0
    <3>1. ~pool'[r].is_open
      BY <1>6, <2>1
    <3>2. \A s \in Slots \ {r} :
            /\ pool'[s].is_open <=> pool[s].is_open
            /\ pool[s].is_open => /\ pool'[s].instrument_id = pool[s].instrument_id
                                  /\ pool'[s].side = pool[s].side
                                  /\ pool'[s].price = pool[s].price
      BY <1>7 DEF SameOrders, OneLeaves
    <3> QED
      BY <1>3, <1>8, <2>1, <3>1, <3>2 DEF Eligible, Opposing, OpenSlots
  <2>2. CASE pool'[r].open_qty # 0
    <3>1. SameOrders(pool, pool')
      BY <1>6, <1>7, <2>2 DEF OneLeaves
    <3> QED
      BY <1>3, <1>8, <2>2, <3>1 DEF Eligible, Opposing, OpenSlots, SameOrders
  <2> QED
    BY <2>1, <2>2
<1> DEFINE before == SumFunctionOnSet(OpenQuantities(pool), rest)
<1>10. /\ SumFunctionOnSet(OpenQuantities(pool), E) = before + pool[r].open_qty
       /\ before \in Nat
  <2>1. rest \subseteq Slots /\ r \in Slots \ rest /\ rest \cup {r} = E
    BY <1>4, <1>5
  <2> HIDE DEF rest, E
  <2> QED
    BY <1>2, <2>1, SumOfOneMore, SumOfOrders
<1>11. /\ SumFunctionOnSet(OpenQuantities(pool'), E) = before + pool'[r].open_qty
       /\ SumFunctionOnSet(OpenQuantities(pool'), rest) = before
  <2>1. rest \subseteq Slots /\ r \in Slots \ rest /\ rest \cup {r} = E
    BY <1>4, <1>5
  <2>2. pool' \in [Slots -> OrderRecord]
    BY NextInv DEF MInv, IInv, TypeOK, Next, Proceed
  <2> HIDE DEF rest, E, r
  <2>3. SumFunctionOnSet(OpenQuantities(pool'), rest) = SumFunctionOnSet(OpenQuantities(pool), rest)
    BY <1>6, <2>1, SumUnchanged
  <2> QED
    BY <2>1, <2>2, <2>3, SumOfOneMore
<1>12. SumFunctionOnSet(OpenQuantities(pool'), Eligible') = before + pool'[r].open_qty
  BY <1>9, <1>11, <1>10
<1>13. /\ pool[r].open_qty \in Int /\ Agg.open_qty \in Int /\ fill \in Int
  BY <1>2, <1>5, StateFacts, WidthAssumption DEF MInv, Agg, Quantity
<1>14. call.tif = "kFok" => Enough'
  <2>1. ASSUME call.tif = "kFok" PROVE Agg.open_qty <= SumFunctionOnSet(OpenQuantities(pool), E)
    BY <1>1, <2>1 DEF FokCovered, Enough
  <2>2. ASSUME call.tif = "kFok" PROVE Agg'.open_qty <= before + pool'[r].open_qty
    <3> HIDE DEF before, E
    <3> QED
      BY <1>6, <1>8, <1>10, <1>13, <2>1, <2>2
  <2> QED
    BY <1>12, <2>2 DEF Enough
<1> QED
  BY <1>1, <1>3, <1>14 DEF FokCovered

\* on_accepted is the callback after which can_fully_fill decides.
LEMMA StartMatchingCovered ==
  ASSUME KInv, StartMatching PROVE FokCovered'
<1>1. /\ pc = "on_accepted" /\ pc' = "match" /\ UNCHANGED <<pool, call>> /\ ~Unfillable
  BY DEF StartMatching
<1>2. call.tif = "kFok" => Enough
  BY <1>1, WalkSucceeds DEF KInv, MInv, Unfillable
<1> QED
  BY <1>1, <1>2, CoveredStays DEF KInv

\* Every step without a fault keeps a fill-or-kill order covered.
LEMMA NextCovered ==
  ASSUME KInv, [Next]_vars PROVE FokCovered'
<1>0. call \in Call
  BY DEF KInv, MInv, IInv, TypeOK
<1>1. ASSUME pc' = "idle" \/ pc' = "on_accepted" PROVE FokCovered'
  BY <1>1 DEF FokCovered
<1>2. ASSUME NEW id \in OrderIds, NEW new_id \in OrderIds, NEW p \in ReplacePrices,
             NEW q \in ReplaceQtys, Replace(id, new_id, p, q)
      PROVE  FokCovered'
  <2>1. CASE ReplaceToNothing(id, new_id, p, q) \/ ReplaceKeeping(id, new_id, p, q)
    <3>1. pc' = "idle"
      BY <2>1 DEF ReplaceToNothing, ReplaceKeeping, ReplaceAllowed, Withdraw, Return
    <3> QED
      BY <1>1, <3>1
  <2>2. CASE ReplaceLosing(id, new_id, p, q)
    <3>1. pc' = "on_replaced" /\ call'.tif = "kDay"
      BY <2>2 DEF ReplaceLosing, NoCall
    <3> QED
      BY <3>1 DEF FokCovered
  <2> QED
    BY <1>2, <2>1, <2>2 DEF Replace
<1>3. CASE Host
  <2>1. ASSUME NEW ids \in ConfigureCalls, Configure(ids) PROVE pc' = "idle"
    BY <2>1 DEF Configure
  <2>2. ASSUME NEW id \in OrderIds, NEW o \in Orders, Submit(id, o) \/ SubmitRefused(id, o)
        PROVE  pc' = "idle" \/ pc' = "on_accepted"
    BY <2>2 DEF Submit, SubmitRefused
  <2>3. ASSUME NEW id \in OrderIds, Cancel(id) PROVE pc' = "idle"
    BY <2>3 DEF Cancel, Withdraw, Return
  <2>4. ASSUME RejectedCall PROVE pc' = "idle"
    BY <2>4 DEF RejectedCall, vars
  <2> QED
    BY <1>1, <1>2, <1>3, <2>1, <2>2, <2>3, <2>4 DEF Host
<1>4. ASSUME PickLevel \/ Trade \/ LeaveLevel \/ MatchingDone PROVE FokCovered'
  <2>1. /\ pc \in {"match", "level"} /\ UNCHANGED pool
        /\ pc' \in {"match", "level", "on_trade", "finish"}
    BY <1>4 DEF PickLevel, Trade, LeaveLevel, MatchingDone
  <2>2. /\ call'.slot = call.slot /\ call'.side = call.side /\ call'.tif = call.tif
        /\ call'.is_market = call.is_market /\ call'.price = call.price
    BY <1>0, <1>4 DEF PickLevel, Trade, LeaveLevel, MatchingDone, Call
  <2>3. call.tif = "kFok" => Enough
    BY <2>1 DEF KInv, FokCovered
  <2> QED
    BY <2>1, <2>2, <2>3, CoveredStays DEF KInv
<1>5. ASSUME CancelUnfillable \/ FullyFilled \/ RestRemainder \/ CancelRemainder
      PROVE  FokCovered'
  <2>1. pc' = "idle"
    BY <1>5 DEF CancelUnfillable, FullyFilled, RestRemainder, CancelRemainder, DropRemainder,
                Return
  <2> QED
    BY <1>1, <2>1
<1>6. CASE AfterReplaced
  BY <1>6 DEF AfterReplaced, KInv, FokCovered
<1>7. CASE Proceed
  BY <1>4, <1>5, <1>6, <1>7, StartMatchingCovered, ApplyTradeCovered DEF Proceed, KInv
<1>8. CASE UNCHANGED vars
  BY <1>8 DEF vars, KInv, FokCovered, Enough, Eligible, Opposing, OpenSlots, Instr, Agg
<1> QED
  BY <1>3, <1>7, <1>8 DEF Next

(***************************************************************************)
(* A fill-or-kill order that begins to match fills in full, whatever the   *)
(* width of Quantity and however often the totals have wrapped: the branch *)
(* of engine.cpp:218 that would cancel its remainder is dead code, as long *)
(* as no listener cancels from a callback.                                 *)
(***************************************************************************)
THEOREM FokFillsWholeHolds == Spec => []FokFillsWhole
<1>1. Init => FokCovered
  BY DEF Init, FokCovered
<1>2. KInv /\ [Next]_vars => FokCovered'
  BY NextCovered
<1>3. KInv => FokFillsWhole
  <2> SUFFICES ASSUME KInv, pc = "finish", call.tif = "kFok" PROVE Agg.open_qty = 0
    BY DEF FokFillsWhole
  <2>1. Agg.open_qty \in Nat
    BY AggressorFacts, WidthAssumption DEF KInv, MInv, Quantity
  <2>2. ASSUME Agg.open_qty > 0 PROVE FALSE
    <3>1. Eligible = {}
      BY <2>2 DEF KInv, MInv, CallMatches, Settled, NothingToMatch, Eligible
    <3>2. SumFunctionOnSet(OpenQuantities(pool), {}) = 0
      BY FS_EmptySet, SumByChosen
    <3>3. Enough
      BY DEF KInv, FokCovered
    <3> QED
      BY <2>1, <2>2, <3>1, <3>2, <3>3 DEF Enough
  <2> QED
    BY <2>1, <2>2
<1>4. Spec => [](IInv /\ BooksTotalled)
  <2>1. Init => IInv /\ BooksTotalled
    BY InitInv, InitTotalled
  <2>2. IInv /\ BooksTotalled /\ [Next \/ Fault]_vars => (IInv /\ BooksTotalled)'
    BY NextInv, NextTotalled
  <2> QED
    BY <2>1, <2>2, SpecIsFaultSpec, PTL DEF FaultSpec
<1>5. Spec => []MInv
  BY MatchingInvariant, SpecIsFaultSpec, PTL
<1>6. MInv /\ BooksTotalled /\ FokCovered => KInv
  BY DEF KInv
<1> QED
  BY <1>1, <1>2, <1>3, <1>4, <1>5, <1>6, PTL DEF Spec

=============================================================================
