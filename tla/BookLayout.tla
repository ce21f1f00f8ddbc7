------------------------------ MODULE BookLayout ------------------------------
(***************************************************************************)
(* How a book is laid out: OrderBook::configure turns a reference price    *)
(* and a band into a ladder and a bitmap of its levels, and add_resting    *)
(* and remove_resting then set and clear bits.  OrderBook takes the ladder *)
(* as an ascending array of prices and the bitmap as a set of indices;     *)
(* this module is what stands behind both.                                 *)
(***************************************************************************)
EXTENDS PriceLadder, LevelBitset

CONSTANTS
  References,    \* reference prices a host may pass to configure
  Bands,         \* band widths a host may pass
  kBpsPerUnit,   \* band units in a whole
  MaxOccupied    \* bound: levels occupied at a time

\* Prices are signed, band widths are not; kBpsPerUnit is 10000 in the code.
ASSUME LayoutAssumption ==
  /\ References \subseteq Int /\ Bands \subseteq Nat
  /\ kBpsPerUnit \in Nat /\ kBpsPerUnit >= 4
  /\ MaxOccupied \in Nat

kMaxBandBps == kBpsPerUnit

VARIABLES
  pc,               \* "idle", "build" inside PriceLadder::build, "ready"
  reference_price,
  band_bps,
  build,            \* build's locals
  ladder,           \* the ladder the book has
  bitmap,           \* the words of one side's bitmap
  occupied          \* history: the levels whose bit was set and not cleared

vars == <<pc, reference_price, band_bps, build, ladder, bitmap, occupied>>

NoBuild == [cur |-> 0, band_lo |-> 0, band_hi |-> 0, segments |-> <<>>, offset |-> 0]

Init ==
  /\ pc = "idle"
  /\ reference_price = 0
  /\ band_bps = 0
  /\ build = NoBuild
  /\ ladder = NoLadder
  /\ bitmap = resize(0)
  /\ occupied = {}

\* Slip: any price on its tick is taken for a reference price.
Acceptable_any_price(price, bps) == is_tick_aligned(price) /\ bps <= kMaxBandBps

\* What Engine::configure checks of one instrument.
Acceptable(price, bps) ==
  /\ price <= PriceMax \div kMaxBandBps
  /\ is_tick_aligned(price)
  /\ bps <= kMaxBandBps

Delta(price, bps) == (price * bps) \div kBpsPerUnit

\* OrderBook::configure, up to the call of PriceLadder::build.
Configure(price, bps) ==
  LET below == price - Delta(price, bps)
      lo    == ceil_to_tick(IF below < 1 THEN 1 ELSE below)
  IN /\ pc = "idle"
     /\ Acceptable(price, bps)
     /\ pc' = "build"
     /\ reference_price' = price
     /\ band_bps' = bps
     /\ build' = [NoBuild EXCEPT !.cur = lo, !.band_lo = lo,
                                 !.band_hi = floor_to_tick(price + Delta(price, bps))]
     /\ UNCHANGED <<ladder, bitmap, occupied>>

AddSegment ==
  LET seg == SegmentFrom(build.cur, build.band_hi, build.offset)
  IN /\ pc = "build"
     /\ build.cur <= build.band_hi
     /\ build' = [build EXCEPT !.segments = Append(@, seg),
                               !.offset = Count(@ + seg.count),
                               !.cur = seg.end_price + seg.tick]
     /\ UNCHANGED <<pc, reference_price, band_bps, ladder, bitmap, occupied>>

\* The end of build, and of OrderBook::configure.
Commit ==
  /\ pc = "build"
  /\ build.cur > build.band_hi
  /\ pc' = "ready"
  /\ ladder' = [segments |-> build.segments, total_count |-> build.offset,
                band_lo |-> build.band_lo, band_hi |-> build.band_hi]
  /\ bitmap' = resize(build.offset)
  /\ build' = NoBuild
  /\ UNCHANGED <<reference_price, band_bps, occupied>>

-----------------------------------------------------------------------------
Levels == 0 .. ladder.total_count - 1

\* The first order on an empty level, and the last one to leave it.
Occupy(x) ==
  /\ Cardinality(occupied) < MaxOccupied
  /\ ~test(bitmap, x)
  /\ bitmap' = set(bitmap, x)
  /\ occupied' = occupied \cup {x}
  /\ UNCHANGED <<pc, reference_price, band_bps, build, ladder>>

Vacate(x) ==
  /\ test(bitmap, x)
  /\ bitmap' = clear(bitmap, x)
  /\ occupied' = occupied \ {x}
  /\ UNCHANGED <<pc, reference_price, band_bps, build, ladder>>

Next ==
  \/ \E price \in References, bps \in Bands : Configure(price, bps)
  \/ AddSegment
  \/ Commit
  \/ pc = "ready" /\ \E x \in Levels : Occupy(x) \/ Vacate(x)

Spec == Init /\ [][Next]_vars

-----------------------------------------------------------------------------
(***************************************************************************)
(* The band by its definition in matching_engine_api.hpp:113-114: within   *)
(* band_bps of the reference price on either side.                         *)
(***************************************************************************)
InBand(price) ==
  /\ (reference_price - price) * kBpsPerUnit <= reference_price * band_bps
  /\ (price - reference_price) * kBpsPerUnit <= reference_price * band_bps

\* Every price the band can reach, and some on either side of it.
Prices == -1 .. 2 * reference_price + 2

Orderable == {price \in Prices : is_tick_aligned(price) /\ InBand(price)}

\* The number of levels fits the counters of the ladder.
Countable == Cardinality(Orderable) < CountMod

(***************************************************************************)
(* "This ladder covers every price a resting order can possibly have"      *)
(* (price_ladder.hpp:13-16) with a level of the book, and no other price:  *)
(* across brackets, at band edges that fall between ticks, and down to the *)
(* lowest price there is.  It is what the two separate checks of submit,   *)
(* tick and band, have to amount to.                                       *)
(***************************************************************************)
Covers ==
  \A price \in Prices :
    IF price \in Orderable THEN price_to_index(ladder, price) \in Levels
    ELSE price_to_index(ladder, price) = -1

LadderCoversBand      == pc = "ready" /\ Countable => Covers
LadderCoversEveryBand == pc = "ready" => Covers

(***************************************************************************)
(* The ladder as OrderBook assumes it: not empty, dense, ascending, with   *)
(* price_to_index and index_to_price inverse to each other.                *)
(***************************************************************************)
Book == INSTANCE OrderBook WITH
  Instruments  <- {reference_price},
  OrderIds     <- {},
  Unset        <- 0,
  Ladder       <- [i \in {reference_price} |-> [x \in Levels |-> index_to_price(ladder, x)]],
  PoolCapacity <- 1,
  QtyMod       <- 1

LadderServesBook ==
  pc = "ready" /\ Countable =>
    /\ Book!IsLadder(reference_price)
    /\ \A price \in Prices :
         price_to_index(ladder, price) = Book!price_to_index(reference_price, price)

(***************************************************************************)
(* The scans find what OrderBook takes them to find in the set of occupied *)
(* levels, from every index they are started at: -1 and the level count    *)
(* (the neighbours of the outermost levels) included, and across words.    *)
(***************************************************************************)
ScansFindNearest ==
  pc = "ready" =>
    \A start \in -1 .. ladder.total_count :
      /\ start < ladder.total_count =>
           find_highest_le(bitmap, start) = Book!find_highest_le(occupied, start)
      /\ find_lowest_ge(bitmap, start) = Book!find_lowest_ge(occupied, start)

(***************************************************************************)
(* build pushes at most one segment per bracket: the loop ends, and the    *)
(* room reserved before it is enough, so that no push_back allocates.      *)
(***************************************************************************)
OneSegmentPerBracket == Len(build.segments) <= Len(kTickSchedule)

(***************************************************************************)
(* No intermediate value of the price arithmetic exceeds a Price: signed   *)
(* overflow would be undefined.                                            *)
(***************************************************************************)
NoOverflow ==
  /\ reference_price * band_bps <= PriceMax
  /\ reference_price + Delta(reference_price, band_bps) <= PriceMax
  /\ build.cur <= PriceMax

=============================================================================
