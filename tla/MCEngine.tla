------------------------------- MODULE MCEngine -------------------------------
(***************************************************************************)
(* Instances of Engine small enough for TLC.                               *)
(***************************************************************************)
EXTENDS EngineClaims, EngineRefinement, TLC

CONSTANTS A, B   \* instruments

\* Levels a tick of 2 apart.
Levels(n) == [x \in 0 .. n - 1 |-> 10 + 2 * x]
Ladder1   == A :> Levels(1)
Ladder2   == A :> Levels(2)
Ladder3   == A :> Levels(3)
LadderAB  == A :> Levels(2) @@ B :> Levels(1)
Aligned   == {10, 12, 14, 16}

Order(i, side, type, tif, p, q) ==
  [instrument_id |-> i, side |-> side, type |-> type, tif |-> tif, price |-> p,
   quantity |-> q]

Limits(i, T, P, Q) ==
  {Order(i, sd, "kLimit", tif, p, q) : sd \in Side, tif \in T, p \in P, q \in Q}
Markets(i, T, Q) ==
  {Order(i, sd, "kMarket", tif, 0, q) : sd \in Side, tif \in T, q \in Q}

\* Orders of every kind for one or two lots, on three levels.
TradingOrders ==
  Limits(A, {"kDay"}, {10, 12, 14}, {1, 2})
    \cup Limits(A, {"kIoc", "kFok"}, {10, 12, 14}, {2})
    \cup Markets(A, {"kIoc", "kFok"}, {2})

\* Orders that queue up on the one level of Ladder1.
QueueOrders == Limits(A, {"kDay"}, {10}, {1, 2})

DayOrders == Limits(A, {"kDay"}, {10, 12}, {1, 2})

\* Day orders and orders that may not rest, on two levels.
MixedOrders ==
  DayOrders \cup Limits(A, {"kFok"}, {10, 12}, {2}) \cup Markets(A, {"kIoc"}, {2})

\* Two instruments, and orders wrong in every way: B trades on one level, 11
\* is between ticks, 14 is beyond A's band, 12 beyond B's.
Mistakes ==
  Limits(A, {"kDay"}, {10, 11, 14}, {0, 1}) \cup Limits(B, {"kDay"}, {10, 12}, {1})
    \cup Markets(A, {"kDay", "kIoc"}, {0, 1})

OnlyA  == {{A}}
AOrAB  == {{}, {A}, {A, B}}

Ids == Permutations(OrderIds)
=============================================================================
