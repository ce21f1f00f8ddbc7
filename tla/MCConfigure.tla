------------------------------ MODULE MCConfigure ------------------------------
(***************************************************************************)
(* An instance of Configure small enough for TLC.                          *)
(***************************************************************************)
EXTENDS Configure

CONSTANTS A, B  \* instruments

Entries ==
  {[instrument_id |-> i, band |-> b, acceptable |-> TRUE] : i \in {A, B}, b \in {1, 2}}
    \cup {[instrument_id |-> B, band |-> 1, acceptable |-> FALSE]}

\* Every list of up to three entries; three are more than a count can say.
UpToThree == {NullList} \cup UNION {[1 .. n -> Entries] : n \in 0 .. 3}

=============================================================================
