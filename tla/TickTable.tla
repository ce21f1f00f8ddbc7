------------------------------ MODULE TickTable ------------------------------
(***************************************************************************)
(* The tick schedule of tick_table.hpp and the roundings it defines.  The  *)
(* schedule is a parameter: tick_table.hpp invites a venue to put its own  *)
(* in, and the static_asserts of tick_table.cpp are the conditions on it.  *)
(***************************************************************************)
EXTENDS Integers, Sequences, FiniteSetsExt

CONSTANTS
  kTickSchedule,  \* brackets [upper_exclusive, tick], lowest first
  PriceMax        \* numeric_limits<Price>::max()

Brackets == 1 .. Len(kTickSchedule)

\* Brackets ascend, their ticks are positive, and the last is open-ended.
schedule_is_well_formed ==
  /\ Brackets # {}
  /\ \A b \in Brackets \ {1} :
       kTickSchedule[b - 1].upper_exclusive < kTickSchedule[b].upper_exclusive
  /\ kTickSchedule[Len(kTickSchedule)].upper_exclusive = PriceMax

\* An edge is a multiple of the tick above it; nothing is asked of the tick
\* below it.
bracket_edges_are_tick_aligned ==
  \A b \in Brackets \ {1} :
    kTickSchedule[b - 1].upper_exclusive % kTickSchedule[b].tick = 0

\* What tick_table.cpp asserts when it is compiled.
ASSUME ScheduleAssumption ==
  /\ kTickSchedule \in Seq([upper_exclusive : Nat, tick : Nat \ {0}])
  /\ schedule_is_well_formed
  /\ bracket_edges_are_tick_aligned

Above(price) == {b \in Brackets : price < kTickSchedule[b].upper_exclusive}

tick_size(price) ==
  kTickSchedule[IF Above(price) = {} THEN Len(kTickSchedule) ELSE Min(Above(price))].tick

is_tick_aligned(price) == price > 0 /\ price % tick_size(price) = 0

\* Slip: a price that is on its tick is rounded up as well.
ceil_to_tick_always(price) ==
  IF price <= 0 THEN tick_size(0) ELSE price + (tick_size(price) - (price % tick_size(price)))

ceil_to_tick(price) ==
  LET rem == price % tick_size(price)
  IN IF price <= 0 THEN tick_size(0)
     ELSE IF rem = 0 THEN price ELSE price + (tick_size(price) - rem)

floor_to_tick(price) == IF price <= 0 THEN 0 ELSE price - (price % tick_size(price))

=============================================================================
