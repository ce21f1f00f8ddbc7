---------------------------- MODULE MCOrderStorage ----------------------------
(***************************************************************************)
(* An instance of OrderStorage small enough for TLC.                       *)
(***************************************************************************)
EXTENDS OrderStorage, TLC

AnyKey == Permutations(Keys)

=============================================================================
