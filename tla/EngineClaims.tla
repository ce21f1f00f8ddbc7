----------------------------- MODULE EngineClaims -----------------------------
(***************************************************************************)
(* What the repository says of the engine and the code does not do.  Each  *)
(* property quotes the place that says it.                                 *)
(***************************************************************************)
EXTENDS EngineFaults

(***************************************************************************)
(* kFokUnfillable: "an FOK order that could not fill in full",             *)
(* matching_engine_api.hpp:95.  can_fully_fill adds up in a Quantity.      *)
(***************************************************************************)
Counterparties ==
  {s \in OpenSlots : /\ pool[s].instrument_id = Instr
                     /\ pool[s].side = Opposite(call.side)
                     /\ call.is_market \/ crosses(call.side, call.price, pool[s].price)}

UnfillableCouldNotFill ==
  pc = "on_accepted" /\ Unfillable =>
    SumFunctionOnSet(OpenQuantities(pool), Counterparties) < Agg.open_qty

(***************************************************************************)
(* kDay: "remainder rests on the book until filled or canceled",           *)
(* matching_engine_api.hpp:73.  An order the listener was told is open,    *)
(* and was told neither of its cancellation nor of fills that use it up,   *)
(* is on the book whenever no call is in progress, also when the listener  *)
(* threw from one of its callbacks.                                        *)
(***************************************************************************)
RestsUntilGone ==
  pc = "idle" => \A id \in OrderIds : view[id].open > 0 => IsOpen(id)

-----------------------------------------------------------------------------
(***************************************************************************)
(* A listener that cancels the resting order on_trade is reporting.  The   *)
(* order still is open, so cancel takes it off the book; run_matching then *)
(* books the fill, and when the fill was all of the order takes it off the *)
(* book once more.                                                         *)
(***************************************************************************)
CancelReported(id) ==
  /\ pc = "on_trade"
  /\ CancelReject(id) = "none"
  /\ order_index[id] = call.resting
  /\ Withdraw(id)

ReentrantSpec ==
  Init /\ [][Next \/ \E id \in OrderIds : CancelReported(id)]_vars /\ WF_vars(Proceed)

\* The order in this slot is the first of its level, or comes after an open one.
OnItsLevel(s) ==
  \/ books[pool[s].instrument_id].levels[pool[s].side][pool[s].level_index].head = s
  \/ \E r \in OpenSlots : pool[r].next = s

(***************************************************************************)
(* The same promise to the other orders (matching_engine_api.hpp:73): an   *)
(* order that is open while no call is in progress can be reached by       *)
(* matching.                                                               *)
(***************************************************************************)
OpenOrdersAreQueued ==
  pc = "idle" => \A id \in OrderIds : IsOpen(id) => OnItsLevel(order_index[id])

=============================================================================
