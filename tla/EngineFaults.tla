----------------------------- MODULE EngineFaults -----------------------------
(***************************************************************************)
(* The engine with a listener that throws or calls back, and with an id    *)
(* index that runs out of memory.  Every public method of Engine swallows  *)
(* exceptions, so the call ends where it was: a callback the listener      *)
(* throws from is never resumed, and an allocation that fails in the id    *)
(* index leaves behind the pool slot allocated before it.                  *)
(***************************************************************************)
EXTENDS EngineProperties

(***************************************************************************)
(* The listener throws out of the callback it is in.  What the handler had *)
(* still to do is not done.  (From a callback that ends its handler there  *)
(* is nothing left to do, and throwing changes nothing.)                   *)
(***************************************************************************)
ListenerThrows ==
  /\ pc \in Callbacks
  /\ Return
  /\ UNCHANGED <<instrument_index, order_index, pool, pool_size, books,
                 next_trade_id, arrival, view>>

(***************************************************************************)
(* The id index has to grow for a new id and cannot: insert throws after   *)
(* allocate, before anything else.                                         *)
(***************************************************************************)
SubmitOutOfMemory(id, o) ==
  /\ pc = "idle"
  /\ SubmitReject(id, o) \in Spending \cup {"none"}
  /\ pool_size < PoolCapacity
  /\ pool_size' = pool_size + 1
  /\ pool' = [pool EXCEPT ![pool_size] =
       [NewRecord EXCEPT !.id = id, !.instrument_id = o.instrument_id, !.side = o.side]]
  /\ UNCHANGED <<instrument_index, order_index, books, next_trade_id, pc, call,
                 arrival, view>>

\* Slip: the id is pointed at the new slot before the slot is complete.
ReplaceOutOfMemory_index_first(id, new_id, p, q) ==
  /\ ReplaceAllowed(id, new_id, p, q)
  /\ pool_size' = pool_size + 1
  /\ pool' = WithReplacement(id, new_id, p, q)
  /\ order_index' = [order_index EXCEPT ![id] = pool_size]
  /\ UNCHANGED <<instrument_index, books, next_trade_id, pc, call, arrival, view>>

\* assign_existing never allocates, so a replace that keeps its id is safe.
ReplaceOutOfMemory(id, new_id, p, q) ==
  /\ ReplaceAllowed(id, new_id, p, q)
  /\ new_id # id
  /\ pool_size' = pool_size + 1
  /\ pool' = WithReplacement(id, new_id, p, q)
  /\ UNCHANGED <<instrument_index, order_index, books, next_trade_id, pc, call,
                 arrival, view>>

-----------------------------------------------------------------------------
(***************************************************************************)
(* A listener that cancels orders from inside its callbacks, as nothing in *)
(* the API forbids.  The order that on_trade is reporting is left out: its *)
(* fill is booked only after the callback.                                 *)
(***************************************************************************)
CancelFromCallback(id) ==
  /\ pc \in Callbacks
  /\ CancelReject(id) = "none"
  /\ order_index[id] # call.resting
  /\ Withdraw(id)

-----------------------------------------------------------------------------
Fault ==
  \/ ListenerThrows
  \/ \E id \in OrderIds, o \in Orders : SubmitOutOfMemory(id, o)
  \/ \E id, new_id \in OrderIds, p \in ReplacePrices, q \in ReplaceQtys :
       ReplaceOutOfMemory(id, new_id, p, q)
  \/ \E id \in OrderIds : CancelFromCallback(id)

FaultSpec == Init /\ [][Next \/ Fault]_vars /\ WF_vars(Proceed)

=============================================================================
