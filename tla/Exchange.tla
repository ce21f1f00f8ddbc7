------------------------------- MODULE Exchange -------------------------------
(***************************************************************************)
(* Trading as a host sees it, without books, levels, bitmaps, slots or     *)
(* callbacks: queues of resting orders, one order at a time that executes  *)
(* against them, price then time (matching_engine_api.hpp:236-238), and    *)
(* the rules of time in force, cancel and replace (72-76 and 141-155).     *)
(***************************************************************************)
EXTENDS Integers, Sequences, FiniteSetsExt, SequencesExt

CONSTANTS
  Instruments,
  Ids,         \* order ids
  NoId,        \* no order is executing
  PricesOf,    \* instrument -> the prices an order may rest at
  Quantities   \* quantities an order may have

VARIABLES
  listed,  \* instruments that trade
  spent,   \* ids that were ever used
  queue,   \* instrument, side, price -> ids resting there, first in line first
  open,    \* id -> what is left of the order, 0 when it is closed
  filled,  \* id -> what it has traded, 0 when it is closed
  taker    \* the order that is executing

vars == <<listed, spent, queue, open, filled, taker>>

Side     == {"kBuy", "kSell"}
Other(s) == IF s = "kBuy" THEN "kSell" ELSE "kBuy"

Takers ==
  [id : Ids, instrument : Instruments, side : Side, is_market : BOOLEAN,
   price : {0} \cup UNION {PricesOf[i] : i \in Instruments}, tif : {"kDay", "kIoc", "kFok"}]

Nobody == [id |-> NoId]
Quiet  == taker = Nobody

Init ==
  /\ listed = {} /\ spent = {}
  /\ queue = [i \in Instruments |-> [s \in Side |-> [p \in PricesOf[i] |-> <<>>]]]
  /\ open = [id \in Ids |-> 0] /\ filled = [id \in Ids |-> 0]
  /\ Quiet

List ==
  /\ listed = {}
  /\ listed' \in (SUBSET Instruments) \ {{}}
  /\ UNCHANGED <<spent, queue, open, filled, taker>>

-----------------------------------------------------------------------------
\* A new order, and an order that is refused but uses its id up.
Accept(id) ==
  /\ Quiet /\ id \notin spent
  /\ taker'.id = id
  /\ taker' \in Takers
  /\ taker'.instrument \in listed
  /\ IF taker'.is_market THEN taker'.tif # "kDay"
     ELSE taker'.price \in PricesOf[taker'.instrument]
  /\ open'[id] \in Quantities \ {0}
  /\ open' = [open EXCEPT ![id] = open'[id]]
  /\ spent' = spent \cup {id}
  /\ UNCHANGED <<listed, queue, filled>>

Refuse(id) ==
  /\ Quiet /\ id \notin spent /\ listed # {}
  /\ spent' = spent \cup {id}
  /\ UNCHANGED <<listed, queue, open, filled, taker>>

-----------------------------------------------------------------------------
Makers == queue[taker.instrument][Other(taker.side)]

\* The prices at which the taker can trade now, and the best of them.
Reach ==
  LET makers == Makers
  IN {p \in PricesOf[taker.instrument] :
        /\ makers[p] # <<>>
        /\ taker.is_market
             \/ (IF taker.side = "kBuy" THEN p <= taker.price ELSE p >= taker.price)}

Best(reach) == IF taker.side = "kBuy" THEN Min(reach) ELSE Max(reach)

Fillable ==
  LET makers == Makers
  IN open[taker.id] <=
       SumFunctionOnSet(open, UNION {ToSet(makers[p]) : p \in Reach})

\* One execution: as much as both have, with the order first in line at the
\* best price.  A fill-or-kill order trades only while all of it can.
Execute ==
  LET reach == Reach
      best  == Best(reach)
      maker == Head(Makers[best])
      fill  == Min({open[taker.id], open[maker]})
      gone  == fill = open[maker]
  IN /\ ~Quiet /\ open[taker.id] > 0 /\ reach # {}
     /\ open' = [open EXCEPT ![taker.id] = @ - fill, ![maker] = @ - fill]
     /\ filled' = [filled EXCEPT ![taker.id] = @ + fill,
                                 ![maker] = IF gone THEN 0 ELSE @ + fill]
     /\ queue' = [queue EXCEPT ![taker.instrument][Other(taker.side)][best] =
                    IF gone THEN Tail(@) ELSE @]
     /\ taker.tif = "kFok" => Fillable
     /\ UNCHANGED <<listed, spent, taker>>

Finished == taker' = Nobody

Complete ==
  /\ ~Quiet /\ Finished
  /\ open[taker.id] = 0
  /\ filled' = [filled EXCEPT ![taker.id] = 0]
  /\ UNCHANGED <<listed, spent, queue, open>>

\* What can trade no further rests, or is dropped, as its time in force says.
Rest ==
  /\ ~Quiet /\ Finished
  /\ open[taker.id] > 0 /\ Reach = {}
  /\ taker.tif = "kDay"
  /\ queue' = [queue EXCEPT ![taker.instrument][taker.side][taker.price] =
                 Append(@, taker.id)]
  /\ UNCHANGED <<listed, spent, open, filled>>

Drop ==
  /\ ~Quiet /\ Finished
  /\ open[taker.id] > 0
  /\ \/ taker.tif = "kIoc" /\ Reach = {}
     \/ taker.tif = "kFok" /\ filled[taker.id] = 0 /\ ~Fillable
  /\ open' = [open EXCEPT ![taker.id] = 0]
  /\ filled' = [filled EXCEPT ![taker.id] = 0]
  /\ UNCHANGED <<listed, spent, queue>>

-----------------------------------------------------------------------------
Changed(i, s, p, line) == queue' = [queue EXCEPT ![i][s][p] = line]

\* The line without id, who stands in it once.
Without(line, id) ==
  [n \in 1 .. Len(line) - 1 |->
     IF \E m \in 1 .. n : line[m] = id THEN line[n + 1] ELSE line[n]]

Closed(f, id) == [f EXCEPT ![id] = 0]

Cancel(id, i, s, p) ==
  /\ open' = Closed(open, id) /\ filled' = Closed(filled, id)
  /\ Changed(i, s, p, Without(queue[i][s][p], id))
  /\ UNCHANGED <<listed, spent, taker>>

\* The order goes on as new_id, with what it filled and with another quantity
\* still open.
Renamed(id, new_id) ==
  /\ spent' = spent \cup {new_id}
  /\ open'[new_id] \in Quantities \ {0}
  /\ open' = [Closed(open, id) EXCEPT ![new_id] = open'[new_id]]
  /\ filled' = [Closed(filled, id) EXCEPT ![new_id] = filled[id]]
  /\ UNCHANGED listed

\* Same price and no larger: it keeps its place in the line.
ReplaceKeeping(id, new_id, i, s, p) ==
  /\ UNCHANGED taker
  /\ Renamed(id, new_id)
  /\ open'[new_id] <= open[id]
  /\ LET line == queue[i][s][p]
     IN Changed(i, s, p, [n \in DOMAIN line |-> IF line[n] = id THEN new_id ELSE line[n]])

\* Another price or a larger quantity: it leaves and comes in again.
ReplaceLosing(id, new_id, i, s, p) ==
  /\ taker' \in Takers
  /\ taker'.id = new_id /\ taker'.instrument = i /\ taker'.side = s
  /\ ~taker'.is_market /\ taker'.tif = "kDay" /\ taker'.price \in PricesOf[i]
  /\ Renamed(id, new_id)
  /\ taker'.price # p \/ open'[new_id] > open[id]
  /\ Changed(i, s, p, Without(queue[i][s][p], id))

\* What may happen to an order that rests.  A new id must never have been used.
Amend(id) ==
  /\ Quiet /\ open[id] > 0
  /\ \E i \in Instruments, s \in Side : \E p \in PricesOf[i] :
       /\ id \in ToSet(queue[i][s][p])
       /\ \/ Cancel(id, i, s, p)
          \/ \E new_id \in {id} \cup (Ids \ spent) :
               \/ ReplaceKeeping(id, new_id, i, s, p)
               \/ ReplaceLosing(id, new_id, i, s, p)

Next ==
  \/ List
  \/ \E id \in Ids : Accept(id) \/ Refuse(id) \/ Amend(id)
  \/ Execute \/ Complete \/ Rest \/ Drop

Spec == Init /\ [][Next]_vars

=============================================================================
