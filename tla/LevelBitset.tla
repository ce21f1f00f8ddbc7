----------------------------- MODULE LevelBitset -----------------------------
(***************************************************************************)
(* LevelBitset of level_bitset.hpp: a bitmap of price levels in machine    *)
(* words, and the two scans for the nearest set bit.  A word is the set of *)
(* the positions of its ones, 0 for the lowest: & and | are intersection   *)
(* and union, ~ is the complement, and the shifts and the subtraction the  *)
(* masks are made with are what they do to these positions.                *)
(***************************************************************************)
EXTENDS Integers, FiniteSets, FiniteSetsExt

CONSTANT WordBits  \* bits in a word (64 in the code)

ASSUME WordBitsAssumption == WordBits \in Nat \ {0}

AllOnes == 0 .. WordBits - 1

\* word << by.  Shifting by the width of the word is undefined; what the
\* processor does is to take the distance modulo that width.
Shifted(word, by) == {b + (by % WordBits) : b \in word} \cap AllOnes

\* word - 1: the lowest one goes, and every zero below it becomes a one.
LessOne(word) ==
  IF word = {} THEN AllOnes ELSE (word \ {Min(word)}) \cup 0 .. Min(word) - 1

resize(n_bits) == [w \in 0 .. (n_bits + WordBits - 1) \div WordBits - 1 |-> {}]

set(words, bit) ==
  [words EXCEPT ![bit \div WordBits] = @ \cup Shifted({0}, bit % WordBits)]

clear(words, bit) ==
  [words EXCEPT ![bit \div WordBits] = @ \cap (AllOnes \ Shifted({0}, bit % WordBits))]

test(words, bit) == bit % WordBits \in words[bit \div WordBits]

\* Position of the highest and of the lowest one of a word that is not zero:
\* WordBits - 1 - countl_zero and countr_zero.
HighestOne(word) == Max(word)
LowestOne(word)  == Min(word)

-----------------------------------------------------------------------------
\* Slip: the mask of a whole word is computed like every other one.
MaskThrough_shifted(bit_idx) == LessOne(Shifted({0}, bit_idx + 1))

\* The bits up to and including bit_idx, and those from bit_idx on.
MaskThrough(bit_idx) ==
  IF bit_idx = WordBits - 1 THEN AllOnes ELSE LessOne(Shifted({0}, bit_idx + 1))
MaskFrom(bit_idx) == Shifted(AllOnes, bit_idx)

\* Highest set bit at an index <= start, -1 if there is none.
find_highest_le(words, start) ==
  LET word_idx == start \div WordBits
      w        == words[word_idx] \cap MaskThrough(start % WordBits)
      lower    == {j \in 0 .. word_idx - 1 : words[j] # {}}
  IN IF start < 0 THEN -1
     ELSE IF w # {} THEN word_idx * WordBits + HighestOne(w)
     ELSE IF lower = {} THEN -1
     ELSE Max(lower) * WordBits + HighestOne(words[Max(lower)])

\* Lowest set bit at an index >= start, -1 if there is none.
find_lowest_ge(words, start) ==
  LET from     == IF start < 0 THEN 0 ELSE start
      word_idx == from \div WordBits
      w        == words[word_idx] \cap MaskFrom(from % WordBits)
      higher   == {j \in DOMAIN words : j > word_idx /\ words[j] # {}}
  IN IF word_idx \notin DOMAIN words THEN -1
     ELSE IF w # {} THEN word_idx * WordBits + LowestOne(w)
     ELSE IF higher = {} THEN -1
     ELSE Min(higher) * WordBits + LowestOne(words[Min(higher)])

=============================================================================
