----------------------------- MODULE OrderStorage -----------------------------
(***************************************************************************)
(* The order pool and the id index as the engine uses them together.       *)
(* configure reserves room in fresh ones; submit and replace take a slot   *)
(* and then point the id at it, and the index may fail to grow after the   *)
(* slot has been taken.                                                    *)
(***************************************************************************)
EXTENDS FlatHashMap, OrderPool

CONSTANTS
  Hashes,        \* hashes keys may have
  Reservations,  \* kDefaultOrderCapacity
  MaxSlots       \* bound: slots handed out

ASSUME StorageAssumption ==
  Hashes \subseteq Nat /\ Reservations \subseteq Nat /\ MaxSlots \in Nat

VARIABLES
  mix,          \* key -> its hash; never changes
  order_index,  \* the slots of the id index
  pool,
  reserved      \* room asked for by configure; -1 before

vars == <<mix, order_index, pool, reserved>>

Init ==
  /\ mix \in [Keys -> Hashes]
  /\ order_index = Vacant(kInitialCapacity)
  /\ pool = NewPool
  /\ reserved = -1

Reserve(n) ==
  /\ reserved = -1
  /\ reserved' = n
  /\ order_index' = reserve(order_index, mix, n)
  /\ pool' = reserve_chunks(pool, n)
  /\ UNCHANGED mix

\* A fresh slot, filled in for the order.
Taken(id) == Written(allocate(pool), pool.size, id)

MayTake == reserved >= 0 /\ pool.size < MaxSlots

\* submit, and replace under an id of its own.
NewOrder(id) ==
  /\ MayTake
  /\ ~contains(order_index, mix, id)
  /\ pool' = Taken(id)
  /\ order_index' = insert(order_index, mix, id, pool.size)
  /\ UNCHANGED <<mix, reserved>>

\* replace under the same id.
SameId(id) ==
  /\ MayTake
  /\ contains(order_index, mix, id)
  /\ pool' = Taken(id)
  /\ order_index' = assign_existing(order_index, mix, id, pool.size)
  /\ UNCHANGED <<mix, reserved>>

\* rehash throws before it has touched the map; the slot stays taken.
IndexCannotGrow(id) ==
  /\ MayTake
  /\ ~contains(order_index, mix, id)
  /\ MustGrow(order_index)
  /\ pool' = Taken(id)
  /\ UNCHANGED <<mix, order_index, reserved>>

\* add_chunk throws: nothing has happened.
PoolCannotGrow == MayTake /\ NeedsChunk(pool) /\ UNCHANGED vars

Next ==
  \/ \E n \in Reservations : Reserve(n)
  \/ \E id \in Keys : NewOrder(id) \/ SameId(id) \/ IndexCannotGrow(id)
  \/ PoolCannotGrow

Spec == Init /\ [][Next]_vars

-----------------------------------------------------------------------------
(***************************************************************************)
(* Pool and index do together what Engine takes them to do: looking an id  *)
(* up gives the last slot that was pointed at for it, whatever has been    *)
(* rehashed in between and however keys collide, an id that was never      *)
(* stored is not found, and every slot keeps the record put into it.       *)
(***************************************************************************)
Store == INSTANCE OrderStore WITH
  Ids     <- Keys,
  NoSlot  <- -1,
  slot_of <- [id \in Keys |-> IF contains(order_index, mix, id)
                              THEN find(order_index, mix, id) ELSE -1],
  owner   <- [n \in 1 .. pool.size |-> Record(pool, n - 1)]

ImplementsStore == Store!Spec

(***************************************************************************)
(* find and place come to an end for every key: the probe of a full table  *)
(* would go round for ever.                                                *)
(***************************************************************************)
ProbesEnd == \A id \in Keys : ProbeEnds(order_index, mix[id], id) # {}

(***************************************************************************)
(* "A run on the order of 10M operations never grows the order pool or the *)
(* id index" (engine.cpp:14-17): as long as no more slots are taken than   *)
(* were reserved, neither allocates.                                       *)
(***************************************************************************)
ReservationSuffices ==
  [][reserved >= 0 /\ pool'.size <= reserved =>
       /\ capacity(order_index') = capacity(order_index)
       /\ Len(pool'.chunks) = Len(pool.chunks)]_vars

(***************************************************************************)
(* "Slot indices and references remain valid" (order_pool.hpp:46-48): the  *)
(* slots handed out have places of their own, and keep them.               *)
(***************************************************************************)
SlotsStay ==
  [][/\ \A s \in 0 .. pool.size - 1 : Address(pool', s) = Address(pool, s)
     /\ \A s, t \in 0 .. pool'.size - 1 :
          s # t => Address(pool', s) # Address(pool', t)]_vars

=============================================================================
