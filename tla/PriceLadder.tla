----------------------------- MODULE PriceLadder -----------------------------
(***************************************************************************)
(* PriceLadder of src/price_ladder.cpp: the prices of a daily band as a    *)
(* run of segments, one per tick bracket the band touches, and the two     *)
(* conversions between a price and its index.                              *)
(***************************************************************************)
EXTENDS TickTable

CONSTANT CountMod  \* counts and offsets are uint32: arithmetic modulo CountMod

ASSUME CountAssumption == CountMod \in Nat \ {0}

Segment ==
  [start_price : Int, end_price : Int, tick : Int, index_offset : Nat, count : Nat]

\* C++ integer division truncates towards zero; counts are cut to their width.
Quot(a, b) == IF a >= 0 THEN a \div b ELSE -((-a) \div b)
Count(n)   == n % CountMod

\* Slip: a price on the edge of a bracket still has that edge ahead of it.
next_breakpoint_inclusive(cur) ==
  LET above == {b \in Brackets : cur <= kTickSchedule[b].upper_exclusive}
  IN IF above = {} THEN PriceMax ELSE kTickSchedule[Min(above)].upper_exclusive

next_breakpoint(cur) ==
  IF Above(cur) = {} THEN PriceMax ELSE kTickSchedule[Min(Above(cur))].upper_exclusive

\* The last price of the segment that begins at cur.
regime_last(cur, band_hi) ==
  LET last == next_breakpoint(cur) - tick_size(cur)
  IN IF next_breakpoint(cur) = PriceMax \/ band_hi < last THEN band_hi ELSE last

\* Slip: the last price of the segment is not counted.
SegmentFrom_open(cur, band_hi, offset) ==
  LET last == regime_last(cur, band_hi)
  IN [start_price |-> cur, end_price |-> last, tick |-> tick_size(cur),
      index_offset |-> offset, count |-> Count(Quot(last - cur, tick_size(cur)))]

\* What one pass of the loop in build pushes.
SegmentFrom(cur, band_hi, offset) ==
  LET last == regime_last(cur, band_hi)
  IN [start_price |-> cur, end_price |-> last, tick |-> tick_size(cur),
      index_offset |-> offset, count |-> Count(Quot(last - cur, tick_size(cur)) + 1)]

NoLadder == [segments |-> <<>>, total_count |-> 0, band_lo |-> 0, band_hi |-> 0]

-----------------------------------------------------------------------------
price_to_index(ladder, price) ==
  LET holding == {k \in DOMAIN ladder.segments :
                    /\ ladder.segments[k].start_price <= price
                    /\ price <= ladder.segments[k].end_price}
      seg     == ladder.segments[Min(holding)]
      rem     == price - seg.start_price
  IN IF price < ladder.band_lo \/ price > ladder.band_hi \/ holding = {} THEN -1
     ELSE IF rem % seg.tick # 0 THEN -1
     ELSE seg.index_offset + rem \div seg.tick

index_to_price(ladder, index) ==
  LET holding == {k \in DOMAIN ladder.segments :
                    /\ ladder.segments[k].index_offset <= index
                    /\ index < Count(ladder.segments[k].index_offset
                                       + ladder.segments[k].count)}
      seg     == ladder.segments[Min(holding)]
  IN IF holding = {} THEN 0
     ELSE seg.start_price + (index - seg.index_offset) * seg.tick

=============================================================================
