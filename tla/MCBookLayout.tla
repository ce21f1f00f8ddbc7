----------------------------- MODULE MCBookLayout -----------------------------
(***************************************************************************)
(* Instances of BookLayout small enough for TLC.                           *)
(***************************************************************************)
EXTENDS BookLayout, Bitwise

Bracket(upper, tick) == [upper_exclusive |-> upper, tick |-> tick]

\* The shape of kTickSchedule: four brackets, each edge a multiple of the
\* ticks on both sides of it.
FourBrackets == <<Bracket(8, 1), Bracket(20, 2), Bracket(40, 5), Bracket(1000, 10)>>

\* Passes the static_asserts, though 5 is no multiple of the tick below it.
UnevenEdge == <<Bracket(5, 2), Bracket(1000, 5)>>

-----------------------------------------------------------------------------
\* The positions of the ones of a number.
Ones(n) == {b \in AllOnes : (n \div 2 ^ b) % 2 = 1}

(***************************************************************************)
(* A word as a set of positions is the machine's word: the operations of   *)
(* LevelBitset do to the ones of a number what the operators of C++ do to  *)
(* the number, for every word and every shift short of its width.          *)
(***************************************************************************)
ASSUME WordsAreSets ==
  LET Numbers == 0 .. 2 ^ WordBits - 1
  IN \A a \in Numbers :
       /\ Ones(2 ^ WordBits - 1 - a) = AllOnes \ Ones(a)
       /\ LessOne(Ones(a)) = Ones((a - 1) % 2 ^ WordBits)
       /\ \A by \in AllOnes : Shifted(Ones(a), by) = Ones((a * 2 ^ by) % 2 ^ WordBits)
       /\ a > 0 => /\ 2 ^ HighestOne(Ones(a)) <= a /\ a < 2 ^ (HighestOne(Ones(a)) + 1)
                   /\ a % 2 ^ LowestOne(Ones(a)) = 0 /\ a % 2 ^ (LowestOne(Ones(a)) + 1) # 0
       /\ \A b \in Numbers : Ones(a & b) = Ones(a) \cap Ones(b)
                             /\ Ones(a | b) = Ones(a) \cup Ones(b)

=============================================================================
