# A TLA+ model of the xmatch matching engine

This directory holds a verification development of the matching engine in `src/`: TLA+
modules translated from the C++ source, TLC configurations that check them on small
instances, and TLAPS proofs of what holds for every instance. `PROJECT.json` maps each
definition to the source lines it stands for.

## 1. The system

xmatch is a single-threaded price/time-priority matching engine: a library that a host
configures once and then calls. All results come back through a listener, synchronously,
before the call returns. Nothing is persisted, nothing is sent over a network, and there is
one thread. What makes the code hard is not concurrency but

- **re-entrancy windows**: `on_accepted`, `on_trade` and the `on_replaced` before matching run
  in the middle of a handler. Other handlers have already freed or not yet linked the order
  they are about; the listener can read the book, call `cancel`, or throw;
- **intrusive lists and cached aggregates** (`total_qty`, `order_count`, the bitmap, the best
  index) that several operations maintain by hand, where a missed link or a stale index shows
  only many calls later;
- **unsigned words**: quantities are 32 bits and so are the sums of them;
- **partial failure**: every public method ends in `catch (...) {}`, so a throwing listener or
  a failed allocation leaves the engine wherever the handler had got to.

### Components

| Component | Source | State | Operations | Talks to |
|---|---|---|---|---|
| Engine | `src/src/engine.cpp`, `src/include/engine/engine.hpp` | `configured_`, books, instrument index, id index, pool, `next_trade_id_` | `configure`, `submit`, `cancel`, `replace`, `top_of_book` | calls every part below; calls the listener |
| OrderBook | `src/src/order_book.cpp`, `src/include/engine/order_book.hpp` | levels, bitmap and best index per side | `add_resting`, `remove_resting`, `replace_in_place`, `next_index`, `top_of_book`, `configure` | writes links into the shared pool; scans the bitset; converts through the ladder |
| OrderPool | `src/include/engine/order_pool.hpp` | chunks of `OrderRecord`, slot counter | `allocate`, `operator[]`, `reserve` | shared by all books |
| FlatHashMap | `src/include/engine/flat_hash_map.hpp` | open-addressing table | `find`, `contains`, `insert`, `assign_existing`, growth | id index of the engine |
| LevelBitset | `src/include/engine/level_bitset.hpp` | 64-bit words | `set`, `clear`, `find_highest_le`, `find_lowest_ge` | one per side of a book |
| PriceLadder | `src/src/price_ladder.cpp`, `src/include/engine/price_ladder.hpp` | segments of the band | `build`, `price_to_index`, `index_to_price` | built from the tick table |
| TickTable | `src/src/tick_table.cpp`, `src/include/engine/tick_table.hpp` | none (constants) | `tick_size`, `is_tick_aligned`, `ceil_to_tick`, `floor_to_tick` | validation and the ladder |
| Public API | `src/include/xmatch/matching_engine_api.hpp` | none | the interface, reasons and listener contract | – |
| C ABI | `src/src/engine_api.cpp` | none | create, destroy, version | – |

The tests, the benchmark driver and the build files are clients or have no behaviour.

### What makes each component correct

- **Engine**: a call refuses what it must refuse, for the first listed reason; trades follow
  price and then time; a fill-or-kill order fills whole or not at all; matching stops only when
  nothing more can match; a listener that adds up the events knows the book; an id leads to
  its open order as long as it rests, and never again afterwards; every call returns.
- **OrderBook**: each level's list is threaded through exactly the orders that rest there, in
  the order of their turns; count, total, bitmap and best index agree with the lists; the
  book is never crossed.
- **OrderPool**: a slot is handed out once; a record stays where it is for good, whatever is
  allocated after it.
- **FlatHashMap**: it behaves as a function from ids to slots, through collisions, growth and growth
  that fails; a probe always ends; no growth while a reservation lasts.
- **LevelBitset**: its scans return the nearest set bit, from -1 and past the last word too.
- **PriceLadder / TickTable**: index and price convert back and forth without loss; every
  price of the ladder is aligned and inside the band; every aligned price in the band is on it.
- **`configure` and the C ABI**: a call takes effect as a whole or not at all, says which, and may be
  repeated when it failed.

The `hazards` list of `PROJECT.json` names, at its line, what in this code is hard to test, with
the properties that would notice it going wrong, or why none does yet.

## 2. Modules

```
OrderBook          one book and the pool it threads its lists through (operators, no state)
  Engine           the state machine: VARIABLES, one action per step of a handler
    EngineProperties   type invariant, invariants, action property, liveness
      EngineFaults     throwing and cancelling listeners, failing index growth
        EngineClaims   what the repository says and the code does not do
      EngineRefinement ... implements
        Exchange       the abstract specification: queues of orders, nothing else
          MCEngine     instances for TLC, one .cfg per run

TickTable          the tick schedule and its roundings
  PriceLadder      segments, build and the two conversions
LevelBitset        words, masks and scans
  BookLayout       (with PriceLadder) how configure lays a book out; what OrderBook assumes of it
    MCBookLayout     ... and that words as sets are words as numbers

FlatHashMap        probing, insertion, growth          OrderPool   chunks and slots
  OrderStorage     both as the engine uses them, implements
    OrderStore     the plain store that Engine assumes
      MCOrderStorage

Configure          create, configure step by step, destroy; implements
  Lifecycle        configure as one call that takes effect or does not
    MCConfigure

DataProofs         induction, sums over finite sets, remainders
  BookProofs       (with OrderBook) what its operators return; lists stay linked and ordered
    EngineProofs     (with EngineFaults) the inductive invariant and its theorems;
                     counts, totals, bitmaps and best indices
      TradingProofs    matching, the listener's view, reject reasons, fill-or-kill
        RefinementProofs (with EngineRefinement) the engine implements the exchange
  StorageProofs    (with OrderStorage) index and pool implement the plain store
  LayoutProofs     (with BookLayout) bitmap scans, ladders
ConfigureProofs    (with Configure) configure takes effect as a whole or not at all
```

`Engine` takes three things for granted that other modules stand for. `BookLayout` shows that what
`configure` builds satisfies `OrderBook!IsLadder`, which `LadderAssumption` asks of every ladder, and that the bitmap is the set `OrderBook`
takes it for. `OrderStorage` shows that pool and index behave like `order_index` and `pool_size` of
`Engine`. `Configure` shows that `Engine!Configure` may be one step.

### OrderBook

`add_resting`, `remove_resting` and `replace_in_place` mutate a pool and a book. Each is an
operator from those two to the pair `[pool |-> .., book |-> ..]` it leaves, so a handler that
makes several calls in a row is one composition and one step. Lists are the code's: `head`,
`tail`, `prev` and `next` are slots, `kInvalidSlot` ends them. Abstracted:

- a ladder is the function `Ladder[i]` from indices to ascending prices
  (`LadderAssumption`); a bitmap is the set of marked indices, its scans are defined by what
  they return;
- `Quantity` is `0 .. QtyMod - 1` with arithmetic modulo `QtyMod`. TLC's integers are 32 bits
  wide, so the runs scale the word down; the proofs are for every width;
- slots are `0 .. PoolCapacity - 1`. The pool is append-only, as in the code, and a call that
  needs a slot is not enabled when none is left (a bound; a real pool throws, which
  `EngineFaults` models at the one place where it matters, the id index).

### Engine

Variables `instrument_index`, `order_index`, `pool`, `pool_size`, `books` and `next_trade_id` are the
members of `Engine` (`configured_` is `instrument_index # {}`). `call` holds the arguments and
locals of the handler in progress that are still needed after a callback, `pc` names where it is:

| `pc` | the handler is | actions that leave it |
|---|---|---|
| `idle` | not running | `Configure`, `Submit`, `SubmitRefused`, `Cancel`, `ReplaceToNothing`, `ReplaceLosing`, `ReplaceKeeping`, `RejectedCall` |
| `on_accepted` | in that callback of `submit` | `CancelUnfillable`, `StartMatching` |
| `match` | at the outer loop of `run_matching` | `PickLevel`, `MatchingDone` |
| `level` | at its inner loop | `Trade`, `LeaveLevel` |
| `on_trade` | in that callback, before the fill is booked | `ApplyTrade` |
| `on_replaced` | in that callback, before matching | `AfterReplaced` |
| `finish` | back from `run_matching` | `FullyFilled`, `RestRemainder`, `CancelRemainder` |

A callback that ends its handler is part of the handler's last action. Validation is a single
operator per call (`SubmitReject`, `CancelReject`, `ReplaceReject`) that returns the reason, in the
order in which the code tests.

Two history variables serve the properties only: `arrival[s]` is the slot whose turn slot `s`
has in its queue under the documented replace rules (matching_engine_api.hpp:146-148), computed
from those rules and not from the branch the code takes; `view[id]` is the open and filled
quantity that a listener adding up events has for an order.

Definitions marked "Slip" are not part of the model: each is a mistake that the code next to it
could have made. `PROJECT.json` "mutants" puts each in place of the definition it follows, and
the property named there must then fail.

### EngineFaults

`FaultSpec` lets the listener throw from any callback that has something after it
(`ListenerThrows`), lets the id index fail to grow in `submit` and in `replace`
(`SubmitOutOfMemory`, `ReplaceOutOfMemory`; the slot allocated before it is lost), and lets the
listener cancel orders from inside a callback (`CancelFromCallback`).

### EngineClaims

Statements the repository makes that the code does not keep, and the listener that one of them
needs (`ReentrantSpec`: it cancels the very order that `on_trade` reports); see section 5.

### Exchange and EngineRefinement

`Exchange` is trading as a host sees it: `queue[i][side][price]` is a sequence of ids, `open` and `filled`
are the quantities of an order that has not been closed, `taker` is the order that executes, `spent` the
ids used. Its actions are the effects the header describes: `Accept`, `Refuse`, `Execute` (both orders and the
queue change at once), `Complete`, `Rest`, `Drop`, `Cancel`, `ReplaceKeeping`, `ReplaceLosing`. There are no
levels, bitmaps, cached indices, slots or callbacks.

`EngineRefinement` maps the engine's state to it: a queue is the ids met from a level's head through the
`next` links, `open` and `filled` are read from the record the index leads to while the order rests or is
the aggressor of the call in progress. `Trade` maps to a stutter and `ApplyTrade` to `Execute`, so the
moment at which an execution takes effect is the return from `on_trade`.

### TickTable, PriceLadder, LevelBitset, BookLayout

`TickTable` has the schedule as a constant, because tick_table.hpp:12-14 invites to edit it;
`ScheduleAssumption` is what tick_table.cpp asserts at compile time. `PriceLadder` cuts counts and
offsets to `CountMod`, as the code cuts them to 32 bits. In `LevelBitset` a word is the set of the positions of
its ones, which suits any width: and, or and complement are those of sets, a shift moves the members, and
`LessOne` is the subtraction that makes a mask. `WordsAreSets` in `MCBookLayout` has TLC compare each of them
with the same operation on numbers, for every word of the run. A shift by the width of the word, undefined in
C++, takes the distance modulo the width.

`BookLayout` is a state machine: `Configure` computes the band, `AddSegment` is one pass of the
loop of `PriceLadder::build`, `Commit` its end and that of `OrderBook::configure`; then `Occupy` and `Vacate` set and
clear bits as `add_resting` and `remove_resting` do.

### FlatHashMap, OrderPool, OrderStorage, OrderStore

A hash map is the array of its slots. `mix` may be any function from keys to `Hashes`: no property may depend
on how well it spreads. A probe is the set of distances at which it may stop, so that a probe that
never ends is one whose set is empty. `OrderPool` gives each chunk the block of memory it was allocated in,
which lets `SlotsStay` say that growth moves no record.

`OrderStorage` composes them in the order `submit` and `replace` use them: take a slot, fill it in, point the id
at it. `IndexCannotGrow` and `PoolCannotGrow` are the two allocations that may fail. `OrderStore` is what that
has to amount to: a sequence of slots, and a function from ids to slots.

### Configure and Lifecycle

`Configure` has the C entry points and `Engine::configure`, with `pc` at the checks on the argument or in the
loop over its entries, and `made` for the locals that are thrown away when the call fails. `OutOfMemory` is a
`bad_alloc` from any allocation: vectors and index, the ladder, levels and bitmaps of a book, the pool,
the order index. `Lifecycle` is the same seen by a host: `Request`, then `Reply`. Whether one entry is
acceptable is a field of the entry here, and computed in `BookLayout`.

## 3. Properties

| Property | Kind | Says |
|---|---|---|
| `TypeOK` | invariant | every variable has its type; no arithmetic leaves the word |
| `FifoLinked` | invariant | lists are threaded through exactly the resting orders of their level |
| `QueuesInArrivalOrder` | invariant | lists run in the order of turns |
| `LevelsAddUp` | invariant | count exact, total exact modulo the word |
| `BestIsBest` | invariant | bitmap = occupied levels, best index = best of them |
| `NeverCrossed` | invariant | every bid below every ask, inside callbacks too |
| `OpenOrdersReachable` | invariant | the id of a resting order leads to its slot |
| `PriceTimePriority` | invariant | each trade takes the best price and the earliest turn |
| `ReplicaAgrees` | invariant | a listener adding up events knows every order's open and filled quantity |
| `OrderQuantitiesFit` | invariant | open + filled of an order never wraps |
| `FokFillsWhole` | invariant | a fill-or-kill order that starts to match fills in full |
| `MatchingExhausted` | invariant | what is left when matching stops can match nothing |
| `SubmitReportsFirstListed` | invariant | `submit` reports the first listed problem although it tests in another order |
| `ClosedStaysClosed` | action | an id whose order neither rests nor executes (closed, refused or lost by a call cut short) stays so at every step of every call |
| `CallsReturn` | liveness | every call returns |
| `ImplementsExchange` | refinement | every step of the engine is one of `Exchange`, or changes nothing a host may count on |
| `LadderCoversBand` | invariant | prices with a level = aligned prices in the band |
| `LadderServesBook` | invariant | the ladder is the dense ascending array of `OrderBook`, its conversions agree |
| `ScansFindNearest` | invariant | scans over words = nearest member of the set of occupied levels |
| `OneSegmentPerBracket` | invariant | `build` ends, within the room it reserved |
| `NoOverflow` | invariant | no intermediate value of the price arithmetic leaves a `Price` |
| `ProbesEnd` | invariant | a probe for any key, present or not, ends |
| `ImplementsStore` | refinement | pool and index are a sequence of slots and a function from ids to them |
| `ReservationSuffices` | action | nothing grows while no more slots are taken than were reserved |
| `SlotsStay` | action | no slot ever moves, no two share a place |
| `ImplementsLifecycle` | refinement, liveness | `configure` is one call that takes effect or does not, and returns |
| `ConfiguredIsComplete` | invariant | an engine that takes orders has every book, its index, and room |

`SubmitReportsFirstListed` compares the code's cascade with an independent statement of the
list of reasons. `MatchingExhausted` is, for a replace of the quantity alone, the comment of
engine.cpp:325-328 (only a change of price can make an order marketable), and `NeverCrossed` is
the invariant that comment rests on.

## 4. Runs

| Run | Instance | Shows |
|---|---|---|
| `trading` | 3 ids, 3 levels, every type and time in force, 1 or 2 lots | the structural invariants, `ReplicaAgrees`, `FokFillsWhole`, `MatchingExhausted`, and that the engine implements `Exchange` |
| `queues` | 3 ids, 5 slots, 1 level, sizes 1 to 3 | time priority through chains of replaces under the same and other ids |
| `validation` | 2 instruments, wrong orders of every kind, `configure` failing or repeated | which reason is reported; closed and refused ids stay closed at every step; every call returns |
| `faults` | `FaultSpec`, quantities modulo 3, 2 levels | types, orders' counters and the structural invariants survive a throwing or cancelling listener, failing growth, and totals that wrap to zero on an occupied level; closed and lost orders stay so |
| `layout` | 4 brackets, 17 reference prices at and around their edges, 6 band widths, words of 4 bits, 2 occupied levels | what `OrderBook` assumes of ladder and bitmap |
| `storage` | 5 keys, all assignments of 3 hashes, 6 slots, chunks of 2, maps from 2 slots on | pool and index are the plain store `Engine` assumes |
| `configure` | every list of up to 3 of 5 entries, at most 2 allowed | `configure` takes effect as a whole or not at all, and returns |
| `claim_*` | – | one documented statement each, which TLC refutes (section 5) |

**Bounds of the engine's runs.** Every run bounds the number of slots (`PoolCapacity`), and with it the number of
`submit` and `replace` calls in a behaviour; ids, prices and quantities come from small sets.
Three orders are the fewest with a head, a middle and a tail in one list, two opposite the
aggressor and one left over, and a replace chain; three levels are the fewest on which the best
level, the next best and one beyond are distinct, so relocation can skip a level; two lots are the
fewest for a partial fill of either side. `queues` trades levels for slots: five slots allow
a list of three with two replacements in it. `faults` and `validation` have the smallest word in which two
orders make a total wrap to exactly zero. The ids are interchangeable and used symmetrically in runs
without a liveness property (action properties and the refinement only quantify over ids, so
symmetry is sound there; `validation` checks liveness and has none).

**Bounds of the others.** `layout`: brackets of ticks 1, 2, 5 and 10 with edges at multiples of both
neighbours, as kTickSchedule has them; the references lie in every bracket, on every edge and next to
it; the widths include none, the widest, one that is too wide, and some whose ends fall between ticks. Bands then reach over one
to four brackets and down to the lowest price. Four-bit words make ladders of up to six words, and two
occupied levels are the fewest of which one hides the other from a scan. `PriceMax` is small enough for
a reference to exceed the bound of `configure`. `storage`: a map that starts with two slots grows three times
within six insertions, as often as the real one from 16 slots to 128; hashes 0, 3 and 7 collide at small
capacities, are apart at larger ones, and the last wraps around the end of the array. `MaxSlots` bounds the
slots. `configure`: two good entries, a wrong one in any position, the same instrument twice, and a list
longer than a count can say (`CountMax`, 2^32 - 1 in the code).

**Deadlock** is checked in the engine's runs and in `configure`: some call can always be made. `layout` stops when a
band is rejected by every choice of its constants and `storage` when its bound is reached, so both allow it.

**Fairness.** `Spec` has `WF_vars(Proceed)`: once a host's call has begun, its own thread executes it
to the end, and callbacks return (or throw, in `FaultSpec`). Nothing obliges the host to call
again, so `Host` has no fairness. `CallsReturn` needs no more than that; what could break it is one of
the two loops of `run_matching` spinning, as they would on a stale best index (the mutant of
that property). `Configure` has the same fairness for the same reason, and `Lifecycle!Spec` asks for the
reply in return; whether memory runs out is left open.

## 5. Where the repository's words and its code part

The first five are runs that TLC ends with a counterexample.

1. `claim_fok`: `kFokUnfillable` means "could not fill in full" (matching_engine_api.hpp:95). The
   feasibility check adds wrapped totals in 32 bits, so a deep book can look empty.
2. `claim_rests`: a Day order "rests on the book until filled or canceled"
   (matching_engine_api.hpp:73). If the listener throws from `on_accepted`, the accepted order is
   neither.
3. `claim_reentry`: the same sentence, for orders that were not touched. A listener that cancels, from
   `on_trade`, the resting order being reported takes it off the book; when the fill was all of it,
   `run_matching` takes it off again, and the second unlink, which finds its links reset, sets
   the head and tail of the level to none. The orders behind it stay open and cannot trade.
4. `claim_levels`: the ladder "covers every price a resting order can possibly have"
   (price_ladder.hpp:14-15). A band of more than 2^32 ticks, which `configure` accepts from reference prices of
   about 2 * 10^12 on with the widest band, does not fit the counters (price_ladder.cpp:28). The run has counters of 16.
5. `claim_schedule`: another schedule means "editing kTickSchedule and nothing else" (tick_table.hpp:12-14), and
   a wrong one fails the build (tick_table.cpp:5-7). The assertions let an edge pass that is
   no multiple of the tick below it, and `build` then leaves out the last price below that edge. The
   schedule in the repository has no such edge.

Others were found while modelling and need no run to see; the model follows the code:

6. `TopOfBook` quantities of zero mean "there are no buy orders" (matching_engine_api.hpp:165). Two orders of
   2^31 lots on the best level make its 32-bit total zero.
7. `open_qty` is "0 once fully filled / canceled / replaced away" (order_pool.hpp:23). Cancelled and replaced
   records keep theirs; nothing reads it.
8. Validation stops "at the first problem found, in the order listed" (matching_engine_api.hpp:78-79). `replace`
   looks for the order first, and so reports the last listed reason before two earlier ones. `submit`
   keeps to the list (`SubmitReportsFirstListed`).
9. "There is no window in which the order is off the book" (matching_engine_api.hpp:141-142). The
   listener runs in that window, in `on_replaced`, and `top_of_book` shows it.
10. DESIGN.md:91 says that `configure()` validates every input before it builds anything; entry i is
    validated after the books of the entries before it are built (engine.cpp:38-51). No caller can tell
    (`ImplementsLifecycle`), except that memory may run out before a wrong entry is noticed.
11. DESIGN.md:138-143 says that `replace`'s `new_order_id` is spent like `submit`'s, even when a later check
    refuses the call; the sentence after it, and the code, register it only after every check.

## 6. Proofs

The proofs assume what the modules assume of their constants and nothing else:

| Assumption | Says |
|---|---|
| `LadderAssumption` | a ladder is a non-empty dense ascending array (what `LadderServesBookHolds` proves of `build`) |
| `AlignmentAssumption` | ladder prices sit on their tick (part of what `LadderCoversBandHolds` proves) |
| `WidthAssumption`, `CountAssumption`, `WordBitsAssumption` | words, counters, pool have a positive size |
| `InputAssumption`, `ListsAssumption` | inputs have their declared types; a list has a length and that many entries |
| `ScheduleAssumption` | the schedule passes the static_asserts of tick_table.cpp |
| `LayoutAssumption` | reference prices are signed, band widths are not, and a unit has at least four basis points (10000 in the code) |
| `MapAssumption`, `ChunkAssumption`, `StorageAssumption` | the first capacity is a power of two, a free slot is no entry, chunks are not empty, hashes are naturals |

They hold for any number of instruments, ids, levels, slots, keys and lots, any hash function, any
schedule, and any width of `Quantity`, counter and word. Two things are hypotheses and not
assumptions, because the code does not see to them:

- `EdgesOnBothTicks`: an edge of the schedule is a multiple of the tick below it as of the one
  above. kTickSchedule and the schedule of the `layout` run satisfy it; the code asserts only half
  of it, and `claim_schedule` (section 5) is what happens without.
- `SidesFit`: in every state, what rests on one side of one instrument adds up to less than
  `QtyMod`. Only the refinement needs it, and only where an order with fok is refused: beyond it the
  sum in `can_fully_fill` wraps and the order is refused though it could be filled, which is
  `claim_fok`. In the `trading` run, which checks the refinement, no three orders reach the bound.

| Theorem | States | Module |
|---|---|---|
| `FaultsInvariant`, `Invariant` | `IInv` is an invariant of `FaultSpec`, and of `Spec` | `EngineProofs` |
| `TypesHold` | `Spec => []TypeOK` | |
| `FifoLinkedHolds` | `FaultSpec => []FifoLinked` | |
| `QueuesInArrivalOrderHolds` | `Spec => []QueuesInArrivalOrder` | |
| `OpenOrdersReachableHolds` | `FaultSpec => []OpenOrdersReachable` | |
| `OrderQuantitiesFitHolds` | `Spec => []OrderQuantitiesFit` | |
| `BestIsBestHolds` | `FaultSpec => []BestIsBest` | |
| `LevelsAddUpHolds` | `FaultSpec => []LevelsAddUp` | |
| `MatchingInvariant` | `MInv` is an invariant of `FaultSpec` | `TradingProofs` |
| `NeverCrossedHolds` | `FaultSpec => []NeverCrossed` | |
| `MatchingExhaustedHolds` | `FaultSpec => []MatchingExhausted` | |
| `PriceTimePriorityHolds` | `FaultSpec => []PriceTimePriority` | |
| `ReplicaAgreesHolds` | `Spec => []ReplicaAgrees` | |
| `ClosedStaysClosedHolds` | `FaultSpec => ClosedStaysClosed` | |
| `SubmitReportsFirstListedHolds` | `FaultSpec => []SubmitReportsFirstListed` | |
| `FokFillsWholeHolds` | `Spec => []FokFillsWhole` | |
| `ImplementsExchangeHolds` | `Spec /\ []SidesFit => ImplementsExchange` | `RefinementProofs` |
| `ProbesEndHolds` | `Spec => []ProbesEnd` | `StorageProofs` |
| `CapacityIsPowerHolds` | the capacity of the index is always a power of two | |
| `SlotsStayHolds`, `ReservationSufficesHolds` | the two action properties of `storage` | |
| `ImplementsStoreHolds` | `Spec => ImplementsStore` | |
| `OneSegmentPerBracketHolds` | `Spec => []OneSegmentPerBracket` | `LayoutProofs` |
| `ScansFindNearestHolds` | `Spec => []ScansFindNearest` | |
| `NoOverflowHolds`, `LadderCoversBandHolds`, `LadderServesBookHolds` | `EdgesOnBothTicks` implies that `Spec` has the invariant of that name | |
| `ConfigureInvariant` | `Configure`'s own `IInv` is an invariant of its `Spec` | `ConfigureProofs` |
| `ConfiguredIsCompleteHolds` | `Spec => []ConfiguredIsComplete` | |
| `ConfigureRefines` | initial states and steps of `Configure` are those of `Lifecycle`, or stutter | |

`ReplicaAgrees` and `FokFillsWhole` cannot hold in `FaultSpec`. A call that a listener's exception
or a failed allocation ends has no callback for what it leaves undone (claim 2 of section 5 is an
instance), and a listener that cancels while a fill-or-kill order trades takes away what the order
was promised.

**The inductive invariant.** `IInv` is `TypeOK /\ SlotsInOrder /\ CallInOrder /\ BooksFit /\
OpenOrdersReachable /\ OrderQuantitiesFit`.

- `BooksFit` is `FifoLinked` and `QueuesInArrivalOrder` together, level by level. Neither is
  inductive alone: a ring of orders is linked (each link has its inverse) but has no head, and
  appending to its level would lose it. Order excludes rings, because turns ascend along the list:
  `TailIsLast` shows that a non-empty list has its last-ranked order as tail.
- `SlotsInOrder` says that only handed-out slots can rest and that no order has the turn of a later
  slot. It is why an order appended with the newest slot ranks last, and why filling a fresh slot is
  seen by no book.
- `CallInOrder` ties the handler's locals to the state across callbacks. The aggressor has the last
  slot, is indexed and does not rest, so resting it later appends in order and breaks no index
  entry; a Day order's price is on the ladder, so `add_resting` indexes an existing level; while in
  `on_trade`, the reported order still rests on the level being walked and has at least the fill
  open, so booking the fill cannot wrap. The last part is what a cancel of that very order from
  `on_trade` would break, and why `CancelFromCallback` leaves it out.
- `OpenOrdersReachable` also serves the others: `cancel` and `replace` find the slot through the id,
  and a fresh slot may be indexed under an id only if that id leads to no resting order or to the
  one being replaced.

**The argument for `IInv`** runs bottom up. In `BookProofs` the operators keep types; one list is
appended to, unlinked from, spliced in, or left alone, and stays linked and ordered; each book
operation is an effect on fields, so that the touched level is one of those cases and all other
levels and books are unchanged. `EngineProofs` has one lemma per action, each with a step per
conjunct of `IInv`, and `NextInv` collects them for `[Next \/ Fault]_vars`. The invariant for `Spec`
is the special case.

**Counts, bitmaps, best indices** (`EngineProofs`). The three are inductive only together:
`remove_resting` clears a bit when the count it keeps by hand reaches zero, and rescans for the best
level when the cleared bit was the best. So `BooksAggregated` has each count equal to the size of
the level's queue. With it, every step has one of three shapes: the same orders rest on the same
levels (`SameOrders`), one leaves (`OneLeaves`), or one arrives (`OneArrives`). Each book operation
is shown to keep the aggregates under its shape, and each action to have one.

**Totals** (`EngineProofs`). A total is the sum over a set, a fold. Induction with a formula as
parameter is out of the provers' reach, so `DataProofs` argues with a least number or a minimal set
that is a counterexample (`LeastNumber`, `MinimalSubset`): the fold has the equations of a sum, the
order does not matter, and a sum changes by what one member changes. `BooksTotalled` then goes the
way of the counts: each of the three shapes, and a fill, changes total and sum by the same amount
modulo the word, whichever way they wrap.

**Matching** (`TradingProofs`). `MInv` adds to the above that the book is not crossed and what the
handler in progress may rely on: while it walks a level no occupied level is better (`NoneBetter`),
in `on_trade` the reported order is the first in turn (`FirstInTurn`), and once it is done and has
quantity left, nothing opposite can match (`NothingToMatch`). `PickLevel` gets the first from the
best index, `Trade` the second from the list's head, which `BooksFit` makes the earliest turn.
Between two steps of a handler orders only leave the opposite side, cancels from callbacks included,
and leaving breaks none of the three. An order may rest without crossing the book because nothing
opposite can match it, and a replace of the quantity alone keeps a price that was not crossed
before.

**Fill or kill** (`TradingProofs`). `FokCovered`: from the feasibility check on, a fill-or-kill
order has no more open than the orders it may trade with have together. The walk of `can_fully_fill`
adds wrapped totals modulo the word, and the wrapped sum never exceeds the true one, so a success is
a success (a failure may be wrong: `claim_fok`). Each fill takes the same from both sides of the
inequality. When matching stops with something left, nothing opposite is left (`MatchingExhausted`),
the sum is zero, and so is what is open.

**Reports** (`TradingProofs`). Books are about slots and reports about ids, so `IndexInOrder` ties
the two: the slot an id leads to was handed out, and its record bears that id. `Shown` is then what
the listener knows of an id; in `on_trade` it knows of a fill that the records do not have yet
(`Pending`), of both orders. `ClosedStaysClosed` binds every step, not only those that start a call:
an id counts as closed (`IsClosed`) unless its order rests or is the one executing, so a `submit` or
`replace` that took a closed id would break it at once and not first where the order rests. It needs
that no step indexes a spent id except that of `replace` for the id it replaces, which is open; that
the order a call takes up has a slot of its own; and that no other record ever starts to rest.

**The exchange** (`RefinementProofs`). Each step of the engine is a step of `Exchange` or leaves its
variables alone. The work is in the queues: `Exchange` has a sequence of ids per price, the engine a
level's `head` and the `next` links.

- A level's list, followed from its head (`LevelIds`), is the line of the level's orders in the
  order of their turns: `BooksFit` makes the walk meet all of them, ascending (`ThreadsLine`). And
  there is only one such line (`LineUnique`). So nothing more has to be said about links: it is
  enough to know which orders a step adds to a level or takes from it, and their turns.
- The lines then change in one of four ways: without the order that leaves (`LinesLose`), without
  the first (`LinesLoseFirst`), with one more at the end (`LinesGain`), or with one in the place
  of another (`LinesSwap`). A step changes no line but those where it opens or closes an order
  (`LineStays`).
- `RefInv` is `KInv` (the invariant of fill-or-kill, which includes all of the above) with
  `IndexInOrder` and `QuantitiesInOrder`. The last says that a resting order has something open, so
  that open quantity zero can mean "gone" in `Exchange`; that an order has filled nothing when
  `on_accepted` runs; and that the fill `on_trade` reports is the smaller of the two quantities
  still when it is booked.
- One lemma per step. An execution is the step after `on_trade` (`TradeExecutes`): both orders, the
  book and the listener agree again there. The end of a call is `Complete`, `Drop` or `Rest`;
  `MatchingExhausted` gives `Drop` and `Rest` their guards, and `UnfillableDrops` is where `SidesFit`
  is used: the walk of `can_fully_fill` passes the level of the worst order within the limit, and
  its sum up to there is exact (`WalkIsExact`).

**Configure** (`ConfigureProofs`). While the loop runs, the locals are right for the entries passed
(`BuiltSoFar`) and the members are untouched; an allocation that fails drops the locals. `Commit`
hence installs a complete set or nothing happens, which is both `ConfiguredIsComplete` and the step
simulation.

**Storage** (`StorageProofs`). `SInv` says that a key lies where its own probe meets it before a
free slot (`WellPlaced`), that no key is held twice, that a slot is free and that the capacity is a
power of two. Probing steps by one modulo the capacity and so meets every slot; one is free; hence
it ends. Rehashing places the entries of one array into another one by one, and each placement keeps
all of that: an induction over the positions passed. `bit_ceil` is a recursive function, which has
to be shown to exist before its equation can be used (`CeilsExist`). A slot number splits into chunk
and offset in one way, and a chunk once added keeps its block. With these each step of
`OrderStorage` is one of `OrderStore`, or leaves its state alone: growth is invisible.

**Bitmaps and ladders** (`LayoutProofs`). `LInv` has the types, that the loop's price climbs past
one edge of the schedule per segment (so at most one segment per bracket), and that the words mean
the set of occupied levels. A scan looks at the rest of one word, which a mask cuts out, and then
for the nearest word that is not empty. `CInv` adds that the segments laid out so far hold, in
order, the prices of the band below the loop's price, and no other: the index of a price is its
`Rank`, the number of band prices below it. One pass of the loop walks from a price to the next by
the bracket's tick and ends at the edge or at the band's, and this is where `EdgesOnBothTicks`
enters: the price after the last one of a bracket is the edge itself. Counters do not wrap while the
number of band prices fits them (`Countable`, a premise of the properties, which `claim_levels`
drops).

**Only model-checked**

- `CallsReturn` and the reply that `ImplementsLifecycle` promises: liveness under fairness.
- That words as sets are words as numbers (`WordsAreSets`): exponents.
- The counterexamples of the claims.

## 7. Not modelled

- **Nested matching**: `submit` and `replace` from inside a callback. They start a second handler inside the first,
  whose references into the pool and the level are then used after it; the model has one handler at a time. `cancel`
  from a callback is modelled: in `FaultSpec` for any order but the one `on_trade` reports, in `ReentrantSpec` for that
  one.
- **`kInternalError`**: `configure` reports it for an exception other than `bad_alloc`; nothing it calls throws one where
  addresses have 64 bits.
- **Memory**: addresses and cache lines. A reference into the pool held across a callback appears by its effect, the
  record it leads to, and `SlotsStay` says that the record does not move. A failing allocation is modelled in
  `configure`, where orders are indexed, and in the storage; a pool that cannot grow within `submit` or
  `replace` ends the call before it has changed anything.
- **The hash function's mixing** (`mix` is any function) and the version number of the C ABI.
- **Wrapping of counters**: the 64-bit trade ids, and the pool's 32-bit slot counter after 2^32 orders. `PoolCapacity`
  ends every model long before.
- **Tests, benchmark driver, build files**: clients of the engine, or without behaviour.

## 8. Plan

Done, in this order: `OrderBook`, `Engine` and its properties, faults and claims; the proof of `IInv`; `TickTable`,
`PriceLadder`, `LevelBitset` and `BookLayout`; `FlatHashMap`, `OrderPool` and `OrderStorage`; `Configure` and `Lifecycle`; `Exchange`
and the refinement; the proofs about best levels, matching, reports and `configure`; those about totals, fill-or-kill,
storage, bitmaps and ladders; the one that the engine implements the exchange.

Next, as far as it goes:

1. A handler stack, for `submit` and `replace` from inside callbacks.
2. The refinement for listeners that throw or cancel from callbacks: `Exchange` would need a step in
   which the order of the call in progress is lost, which no document promises.
