------------------------------ MODULE OrderStore ------------------------------
(***************************************************************************)
(* What the engine asks of its order pool and id index together: every     *)
(* order gets the next slot, for good, and an id leads to the last slot    *)
(* it was given.  This is the order_index and the pool_size of Engine.     *)
(***************************************************************************)
EXTENDS Integers, Sequences

CONSTANTS Ids, NoSlot

VARIABLES
  slot_of,  \* id -> its slot, NoSlot while the id is unused
  owner     \* the id each slot was handed out for, slot 0 first

vars == <<slot_of, owner>>

Init == slot_of = [id \in Ids |-> NoSlot] /\ owner = <<>>

\* submit, or a replace under a new id; a replace under the same id.
Give(id) ==
  /\ owner' = Append(owner, id)
  /\ slot_of' = [slot_of EXCEPT ![id] = Len(owner)]

\* A slot is handed out and the id does not get it.
Leak(id) ==
  /\ slot_of[id] = NoSlot
  /\ owner' = Append(owner, id)
  /\ UNCHANGED slot_of

Next == \E id \in Ids : Give(id) \/ Leak(id)

Spec == Init /\ [][Next]_vars

=============================================================================
