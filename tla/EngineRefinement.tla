--------------------------- MODULE EngineRefinement ---------------------------
(***************************************************************************)
(* The engine implements the exchange of the public header.                *)
(***************************************************************************)
EXTENDS EngineProperties, Sequences

PricesOf == [i \in Instruments |-> {index_to_price(i, x) : x \in Index(i)}]

\* The ids on a level's list, followed from its head through the next links.
LevelIds(records, lvl) ==
  LET at[n \in 0 .. PoolCapacity] ==
        IF n = 0 THEN lvl.head
        ELSE IF at[n - 1] = kInvalidSlot THEN kInvalidSlot ELSE records[at[n - 1]].next
      on == {n \in 0 .. PoolCapacity : at[n] # kInvalidSlot}
  IN [n \in 1 .. Cardinality(on) |-> records[at[n - 1]].id]

Lines ==
  [i \in Instruments |-> [s \in Side |-> [p \in PricesOf[i] |->
     LevelIds(pool, books[i].levels[s][price_to_index(i, p)])]]]

LiveId(id) == contains(id) /\ Live(order_index[id])

OpenOf   == [id \in OrderIds |-> IF LiveId(id) THEN pool[order_index[id]].open_qty ELSE 0]
FilledOf == [id \in OrderIds |-> IF LiveId(id) THEN pool[order_index[id]].filled_qty ELSE 0]

SpentIds == {id \in OrderIds : contains(id)}

Taker ==
  IF pc = "idle" THEN [id |-> Unset]
  ELSE [id |-> Agg.id, instrument |-> Instr, side |-> call.side,
        is_market |-> call.is_market, price |-> call.price, tif |-> call.tif]

Promised == INSTANCE Exchange WITH
  Ids        <- OrderIds,
  NoId       <- Unset,
  Quantities <- Quantity,
  listed     <- instrument_index,
  spent      <- SpentIds,
  queue      <- Lines,
  open       <- OpenOf,
  filled     <- FilledOf,
  taker      <- Taker

(***************************************************************************)
(* Every step of the engine is a step of the exchange or changes nothing   *)
(* the header speaks of: the lists give price and time priority as one     *)
(* queue per price would, an execution takes effect on both orders and the *)
(* book at once although on_trade is called in the middle, fill-or-kill    *)
(* orders trade whole or not at all, and what is left rests, is dropped or *)
(* is replaced as the header says.                                         *)
(***************************************************************************)
ImplementsExchange == Promised!Spec

=============================================================================
