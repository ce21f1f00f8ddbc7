----------------------------- MODULE LayoutProofs -----------------------------
(***************************************************************************)
(* What stands behind a book: the words of a bitmap are the set of its     *)
(* occupied levels, and the scans find the nearest of them; a ladder has a *)
(* level for each price of the band, and counts them from the lowest.      *)
(***************************************************************************)
EXTENDS BookLayout, DataProofs

-----------------------------------------------------------------------------
(***************************************************************************)
(* Words.                                                                  *)
(***************************************************************************)
LEMMA OneBit ==
  ASSUME NEW b \in AllOnes
  PROVE  Shifted({0}, b) = {b}
<1>1. WordBits \in Nat \ {0}
  BY WordBitsAssumption
<1>2. b % WordBits = b /\ b \in Int
  BY <1>1, RemainderOfSum DEF AllOnes
<1>3. {x + b : x \in {0}} = {b}
  BY <1>2
<1> QED
  BY <1>2, <1>3 DEF Shifted

\* The two masks of the scans.
LEMMA MaskThroughIs ==
  ASSUME NEW b \in AllOnes
  PROVE  MaskThrough(b) = 0 .. b
<1>1. WordBits \in Nat \ {0} /\ b \in Nat /\ b < WordBits
  BY WordBitsAssumption DEF AllOnes
<1>2. CASE b = WordBits - 1
  BY <1>1, <1>2 DEF MaskThrough, AllOnes
<1>3. CASE b # WordBits - 1
  <2>1. b + 1 \in AllOnes
    BY <1>1, <1>3 DEF AllOnes
  <2>2. Shifted({0}, b + 1) = {b + 1}
    BY <2>1, OneBit
  <2>3. Min({b + 1}) = b + 1
    BY <1>1 DEF Min
  <2>4. LessOne({b + 1}) = 0 .. b
    <3>1. LessOne({b + 1}) = ({b + 1} \ {b + 1}) \cup 0 .. (b + 1) - 1
      BY <2>3 DEF LessOne
    <3>2. (b + 1) - 1 = b
      BY <1>1
    <3> QED
      BY <3>1, <3>2
  <2> QED
    BY <1>3, <2>2, <2>4 DEF MaskThrough
<1> QED
  BY <1>2, <1>3

LEMMA MaskFromIs ==
  ASSUME NEW b \in AllOnes
  PROVE  MaskFrom(b) = b .. WordBits - 1
<1>1. WordBits \in Nat \ {0} /\ b \in Nat /\ b < WordBits
  BY WordBitsAssumption DEF AllOnes
<1>2. b % WordBits = b
  BY <1>1, RemainderOfSum DEF AllOnes
<1>3. {x + b : x \in AllOnes} \cap AllOnes = b .. WordBits - 1
  <2>1. ASSUME NEW y \in b .. WordBits - 1 PROVE y \in {x + b : x \in AllOnes}
    <3>1. y - b \in AllOnes /\ (y - b) + b = y
      BY <1>1 DEF AllOnes
    <3> QED
      BY <3>1
  <2> QED
    BY <1>1, <2>1 DEF AllOnes
<1> QED
  BY <1>2, <1>3 DEF MaskFrom, Shifted

\* Words with room for n bits: what resize lays out, whatever is set in them.
NumberOfWords(n) == (n + WordBits - 1) \div WordBits

IsWords(words, n) == words \in [0 .. NumberOfWords(n) - 1 -> SUBSET AllOnes]

\* The index a bit of a word stands for.
At(j, b) == j * WordBits + b

LEMMA AtIs ==
  ASSUME NEW x \in Nat
  PROVE  /\ x \div WordBits \in Nat /\ x % WordBits \in AllOnes
         /\ At(x \div WordBits, x % WordBits) = x
         /\ \A j \in Nat, b \in AllOnes :
              At(j, b) = x => j = x \div WordBits /\ b = x % WordBits
<1>1. WordBits \in Nat \ {0}
  BY WordBitsAssumption
<1>2. x % WordBits \in AllOnes /\ x \div WordBits \in Nat
      /\ x = WordBits * (x \div WordBits) + (x % WordBits)
  <2>1. x % WordBits \in AllOnes /\ x = WordBits * (x \div WordBits) + (x % WordBits)
    BY <1>1, Divided DEF AllOnes
  <2>2. x \div WordBits \in Nat
    BY <1>1, QuotientBounds
  <2> QED
    BY <2>1, <2>2
<1>3. At(x \div WordBits, x % WordBits) = x
  <2> DEFINE q == x \div WordBits
             r == x % WordBits
  <2>1. q \in Nat /\ r \in Int /\ x = WordBits * q + r
    BY <1>2 DEF AllOnes
  <2> HIDE DEF q, r
  <2>2. q * WordBits + r = x
    BY <1>1, <2>1
  <2> QED
    BY <2>2 DEF At, q, r
<1>4. ASSUME NEW j \in Nat, NEW b \in AllOnes, At(j, b) = x
      PROVE  j = x \div WordBits /\ b = x % WordBits
  <2>1. b \in 0 .. WordBits - 1 /\ x = WordBits * j + b
    BY <1>1, <1>4 DEF At, AllOnes
  <2>2. x % WordBits = b
    BY <1>1, <2>1, RemainderIs
  <2>3. WordBits * (x \div WordBits) = WordBits * j
    <3> DEFINE q == x \div WordBits
               y == WordBits * q
               z == WordBits * j
    <3>1. y \in Int /\ z \in Int /\ x = y + (x % WordBits) /\ x = z + b
      BY <1>1, <1>2, <2>1
    <3> HIDE DEF y, z
    <3>2. y = z
      BY <2>1, <2>2, <3>1
    <3> QED
      BY <3>2 DEF y, z
  <2>4. x \div WordBits = j
    <3> DEFINE q == x \div WordBits
    <3>1. q \in Nat /\ WordBits * q = WordBits * j
      BY <1>2, <2>3
    <3> HIDE DEF q
    <3>2. q = j
      BY <1>1, <3>1
    <3> QED
      BY <3>2 DEF q
  <2> QED
    BY <2>2, <2>4
<1> QED
  BY <1>2, <1>3, <1>4

\* Indices are ordered as their words are, and within a word as their bits are.
LEMMA AtOrdered ==
  ASSUME NEW j \in Nat, NEW k \in Nat, NEW b \in AllOnes, NEW c \in AllOnes
  PROVE  /\ At(j, b) \in Nat
         /\ j < k => At(j, b) < At(k, c)
         /\ j = k => (At(j, b) < At(k, c) <=> b < c)
<1>1. WordBits \in Nat \ {0} /\ b \in Nat /\ b < WordBits /\ c \in Nat /\ c < WordBits
  BY WordBitsAssumption DEF AllOnes
<1> DEFINE jw == j * WordBits
           kw == k * WordBits
<1>2. jw \in Nat /\ kw \in Nat
  BY <1>1
<1>3. j < k => jw + WordBits <= kw
  <2>1. ASSUME j + 1 <= k PROVE (j + 1) * WordBits <= k * WordBits
    BY <1>1, <2>1
  <2>2. (j + 1) * WordBits = jw + WordBits
    BY <1>1
  <2> QED
    BY <2>1, <2>2
<1>4. At(j, b) = jw + b /\ At(k, c) = kw + c
  BY DEF At
<1>5. j = k => jw = kw
  OBVIOUS
<1> HIDE DEF jw, kw
<1> QED
  BY <1>1, <1>2, <1>3, <1>4, <1>5

\* The words hold what the set says, bit for bit.
Means(words, n, bits) ==
  /\ IsWords(words, n)
  /\ \A j \in 0 .. NumberOfWords(n) - 1 : words[j] = {b \in AllOnes : At(j, b) \in bits}

LEMMA WordsCount ==
  ASSUME NEW n \in Nat
  PROVE  /\ NumberOfWords(n) \in Nat
         /\ \A x \in 0 .. n - 1 : x \div WordBits \in 0 .. NumberOfWords(n) - 1
<1>1. WordBits \in Nat \ {0} /\ n + WordBits - 1 \in Nat
  BY WordBitsAssumption
<1> DEFINE m == NumberOfWords(n)
<1>2. m \in Nat
  BY <1>1, QuotientBounds DEF NumberOfWords
<1>3. n <= m * WordBits
  <2> DEFINE a == n + WordBits - 1
  <2>1. a \in Nat /\ m + 1 \in Nat
    BY <1>1, <1>2
  <2>2. a \div WordBits = m
    BY DEF NumberOfWords
  <2>3. a < (m + 1) * WordBits
    <3> HIDE DEF a, m
    <3>1. a \div WordBits < m + 1 <=> a < (m + 1) * WordBits
      BY <1>1, <2>1, QuotientBounds
    <3> QED
      BY <1>2, <2>2, <3>1
  <2> DEFINE mw == m * WordBits
  <2>4. (m + 1) * WordBits = mw + WordBits /\ mw \in Nat
    <3> HIDE DEF m
    <3> QED
      BY <1>1, <1>2
  <2> HIDE DEF mw, m
  <2>5. n <= mw
    BY <1>1, <2>3, <2>4
  <2> QED
    BY <2>5 DEF mw
<1> HIDE DEF m
<1>4. ASSUME NEW x \in 0 .. n - 1 PROVE x \div WordBits \in 0 .. m - 1
  <2> DEFINE mw == m * WordBits
  <2>1. mw \in Nat
    BY <1>1, <1>2
  <2> HIDE DEF mw
  <2>2. x \in Nat /\ x < mw
    BY <1>3, <2>1 DEF mw
  <2>3. x \div WordBits \in Nat /\ x \div WordBits < m
    BY <1>1, <1>2, <2>2, QuotientBounds DEF mw
  <2> QED
    BY <1>2, <2>3
<1> QED
  BY <1>2, <1>4 DEF m

\* resize leaves words that mean the empty set; set and clear change one bit.
LEMMA ResizeMeans ==
  ASSUME NEW n \in Nat
  PROVE  Means(resize(n), n, {})
BY DEF Means, IsWords, resize, NumberOfWords, AllOnes

LEMMA SetMeans ==
  ASSUME NEW words, NEW n \in Nat, NEW bits, Means(words, n, bits), NEW x \in 0 .. n - 1
  PROVE  Means(set(words, x), n, bits \cup {x})
<1> DEFINE q == x \div WordBits
           r == x % WordBits
           m == NumberOfWords(n)
<1>1. q \in 0 .. m - 1 /\ r \in AllOnes /\ r \in 0 .. WordBits - 1 /\ x \in Nat /\ q \in Nat
      /\ m \in Nat
  <2>1. x \in Nat
    OBVIOUS
  <2>2. q \in 0 .. m - 1 /\ m \in Nat
    BY WordsCount
  <2>3. q \in Nat /\ r \in AllOnes
    BY <2>1, AtIs
  <2> QED
    BY <2>1, <2>2, <2>3 DEF AllOnes
<1>2. \A j \in Nat, b \in AllOnes : At(j, b) = x <=> j = q /\ b = r
  BY <1>1, AtIs
<1>3. set(words, x) = [words EXCEPT ![q] = @ \cup {r}]
  <2>1. Shifted({0}, r) = {r}
    BY <1>1, OneBit
  <2> QED
    BY <2>1 DEF set
<1>4. /\ words \in [0 .. m - 1 -> SUBSET AllOnes]
      /\ \A j \in 0 .. m - 1 : words[j] = {b \in AllOnes : At(j, b) \in bits}
  BY DEF Means, IsWords
<1> HIDE DEF q, r, m
<1>5. set(words, x) \in [0 .. m - 1 -> SUBSET AllOnes]
  BY <1>1, <1>3, <1>4
<1>6. ASSUME NEW j \in 0 .. m - 1
      PROVE  set(words, x)[j] = {b \in AllOnes : At(j, b) \in bits \cup {x}}
  <2>1. j \in Nat
    BY <1>1
  <2>2. set(words, x)[j] = IF j = q THEN words[j] \cup {r} ELSE words[j]
    BY <1>1, <1>3, <1>4
  <2> QED
    BY <1>1, <1>2, <1>4, <2>1, <2>2
<1> QED
  BY <1>5, <1>6 DEF Means, IsWords, m

LEMMA ClearMeans ==
  ASSUME NEW words, NEW n \in Nat, NEW bits, Means(words, n, bits), NEW x \in 0 .. n - 1
  PROVE  Means(clear(words, x), n, bits \ {x})
<1> DEFINE q == x \div WordBits
           r == x % WordBits
           m == NumberOfWords(n)
<1>1. q \in 0 .. m - 1 /\ r \in AllOnes /\ r \in 0 .. WordBits - 1 /\ x \in Nat /\ q \in Nat
      /\ m \in Nat
  <2>1. x \in Nat
    OBVIOUS
  <2>2. q \in 0 .. m - 1 /\ m \in Nat
    BY WordsCount
  <2>3. q \in Nat /\ r \in AllOnes
    BY <2>1, AtIs
  <2> QED
    BY <2>1, <2>2, <2>3 DEF AllOnes
<1>2. \A j \in Nat, b \in AllOnes : At(j, b) = x <=> j = q /\ b = r
  BY <1>1, AtIs
<1>3. clear(words, x) = [words EXCEPT ![q] = @ \cap (AllOnes \ {r})]
  <2>1. Shifted({0}, r) = {r}
    BY <1>1, OneBit
  <2> QED
    BY <2>1 DEF clear
<1>4. /\ words \in [0 .. m - 1 -> SUBSET AllOnes]
      /\ \A j \in 0 .. m - 1 : words[j] = {b \in AllOnes : At(j, b) \in bits}
  BY DEF Means, IsWords
<1> HIDE DEF q, r, m
<1>5. clear(words, x) \in [0 .. m - 1 -> SUBSET AllOnes]
  BY <1>1, <1>3, <1>4
<1>6. ASSUME NEW j \in 0 .. m - 1
      PROVE  clear(words, x)[j] = {b \in AllOnes : At(j, b) \in bits \ {x}}
  <2>1. j \in Nat
    BY <1>1
  <2>2. clear(words, x)[j] = IF j = q THEN words[j] \cap (AllOnes \ {r}) ELSE words[j]
    BY <1>1, <1>3, <1>4
  <2> QED
    BY <1>1, <1>2, <1>4, <2>1, <2>2
<1> QED
  BY <1>5, <1>6 DEF Means, IsWords, m

LEMMA TestMeans ==
  ASSUME NEW words, NEW n \in Nat, NEW bits, Means(words, n, bits), NEW x \in 0 .. n - 1
  PROVE  test(words, x) <=> x \in bits
<1>1. /\ x \div WordBits \in 0 .. NumberOfWords(n) - 1 /\ x \in Nat
  BY WordsCount
<1>2. x % WordBits \in AllOnes /\ At(x \div WordBits, x % WordBits) = x
  BY <1>1, AtIs
<1> QED
  BY <1>1, <1>2 DEF Means, test

-----------------------------------------------------------------------------
(***************************************************************************)
(* The scans.  A bit that a scan finds is one of the set, and no member of *)
(* the set is nearer.                                                      *)
(***************************************************************************)
\* The nearest member at or below start, and at or above it.
NearestBelow(bits, start, found) ==
  \/ found = -1 /\ \A x \in bits : x > start
  \/ found \in bits /\ found <= start /\ \A x \in bits : x <= start => x <= found

NearestAbove(bits, start, found) ==
  \/ found = -1 /\ \A x \in bits : x < start
  \/ found \in bits /\ found >= start /\ \A x \in bits : x >= start => x >= found

LEMMA HighestLeNearest ==
  ASSUME NEW words, NEW n \in Nat, NEW bits, Means(words, n, bits), bits \subseteq 0 .. n - 1,
         NEW start \in -1 .. n - 1
  PROVE  NearestBelow(bits, start, find_highest_le(words, start))
<1>1. CASE start < 0
  <2>1. find_highest_le(words, start) = -1
    BY <1>1 DEF find_highest_le
  <2>2. \A x \in bits : x > start
    BY <1>1
  <2> QED
    BY <2>1, <2>2 DEF NearestBelow
<1>2. CASE start \in Nat
  <2> DEFINE q     == start \div WordBits
             r     == start % WordBits
             w     == words[q] \cap MaskThrough(r)
             lower == {j \in 0 .. q - 1 : words[j] # {}}
             m     == NumberOfWords(n)
             found == find_highest_le(words, start)
  <2>1. /\ q \in 0 .. m - 1 /\ q \in Nat /\ r \in AllOnes /\ At(q, r) = start /\ m \in Nat
        /\ r \in Nat
    <3>1. start \in 0 .. n - 1
      BY <1>2
    <3>2. q \in 0 .. m - 1 /\ m \in Nat
      BY <3>1, WordsCount
    <3>3. q \in Nat /\ r \in AllOnes /\ At(q, r) = start
      BY <1>2, AtIs
    <3>4. r \in Nat
      BY <3>3 DEF AllOnes
    <3> QED
      BY <3>2, <3>3, <3>4
  <2>2. w = words[q] \cap 0 .. r
    BY <2>1, MaskThroughIs
  <2>3. found = IF w # {} THEN At(q, HighestOne(w))
                ELSE IF lower = {} THEN -1
                ELSE At(Max(lower), HighestOne(words[Max(lower)]))
    BY <1>2 DEF find_highest_le, At
  <2>4. \A j \in 0 .. m - 1 : words[j] = {b \in AllOnes : At(j, b) \in bits}
    BY DEF Means
  \* Every member of the set is a bit of some word.
  <2>5. ASSUME NEW x \in bits
        PROVE  \E j \in 0 .. m - 1, b \in AllOnes :
                 j \in Nat /\ b \in words[j] /\ x = At(j, b)
    <3>1. x \in 0 .. n - 1 /\ x \in Nat
      OBVIOUS
    <3>2. x \div WordBits \in 0 .. m - 1
      BY <3>1, WordsCount
    <3>3. x \div WordBits \in Nat /\ x % WordBits \in AllOnes
          /\ At(x \div WordBits, x % WordBits) = x
      BY <3>1, AtIs
    <3>4. x % WordBits \in words[x \div WordBits]
      BY <2>4, <3>2, <3>3
    <3> QED
      BY <3>2, <3>3, <3>4
  <2> HIDE DEF q, r, w, lower, m, found
  <2>6. \A j \in 0 .. m - 1 : words[j] # {} =>
          HighestOne(words[j]) \in words[j] /\ \A b \in words[j] : b <= HighestOne(words[j])
    <3> TAKE j \in 0 .. m - 1
    <3>1. words[j] \subseteq Nat /\ WordBits \in Nat /\ \A b \in words[j] : b <= WordBits
      BY <2>4, WordBitsAssumption DEF AllOnes
    <3> QED
      BY <3>1, MaxOf DEF HighestOne
  <2>7. CASE w # {}
    <3> DEFINE h == HighestOne(w)
    <3>1. h \in w /\ \A b \in w : b <= h
      <4>1. w \subseteq Nat /\ \A b \in w : b <= r
        BY <2>1, <2>2
      <4> QED
        BY <2>1, <2>7, <4>1, MaxOf DEF HighestOne
    <3> HIDE DEF h
    <3>2. h \in words[q] /\ h <= r /\ h \in AllOnes /\ h \in Nat
      BY <2>1, <2>2, <2>4, <3>1
    <3>3. found = At(q, h) /\ At(q, h) \in bits
      BY <2>1, <2>3, <2>4, <2>7, <3>2 DEF h
    <3>4. At(q, h) <= start
      <4>1. At(q, h) \in Nat /\ (At(q, r) < At(q, h) <=> r < h)
        BY <2>1, <3>2, AtOrdered
      <4> QED
        BY <1>2, <2>1, <3>2, <4>1
    <3>5. ASSUME NEW x \in bits, x <= start PROVE x <= At(q, h)
      <4>1. PICK j \in 0 .. m - 1, b \in AllOnes : j \in Nat /\ b \in words[j] /\ x = At(j, b)
        BY <2>5
      <4>2. ~(q < j)
        <5>1. q < j => At(q, r) < At(j, b) /\ At(q, r) \in Nat /\ At(j, b) \in Nat
          BY <2>1, <4>1, AtOrdered
        <5> QED
          BY <2>1, <3>5, <4>1, <5>1
      <4>3. CASE j < q
        <5>1. At(j, b) < At(q, h) /\ At(j, b) \in Nat /\ At(q, h) \in Nat
          BY <2>1, <3>2, <4>1, <4>3, AtOrdered
        <5> QED
          BY <4>1, <5>1
      <4>4. CASE j = q
        <5>1. /\ At(q, b) \in Nat /\ At(q, h) \in Nat /\ b \in Nat
              /\ At(q, r) < At(q, b) <=> r < b
              /\ At(q, h) < At(q, b) <=> h < b
          <6>1. b \in Nat
            BY <4>1 DEF AllOnes
          <6>2. At(q, b) \in Nat /\ (At(q, r) < At(q, b) <=> r < b)
            BY <2>1, <4>1, AtOrdered
          <6>3. At(q, h) \in Nat /\ (At(q, h) < At(q, b) <=> h < b)
            BY <2>1, <3>2, <4>1, AtOrdered
          <6> QED
            BY <6>1, <6>2, <6>3
        <5>2. b <= r
          BY <2>1, <3>5, <4>1, <4>4, <5>1
        <5>3. b \in w
          BY <2>2, <4>1, <4>4, <5>1, <5>2
        <5>4. ~(h < b)
          BY <3>1, <3>2, <5>1, <5>3
        <5> QED
          BY <4>1, <4>4, <5>1, <5>4
      <4> QED
        BY <2>1, <4>1, <4>2, <4>3, <4>4
    <3> QED
      BY <3>3, <3>4, <3>5 DEF NearestBelow, found
  <2>8. CASE w = {} /\ lower = {}
    <3>1. ASSUME NEW x \in bits PROVE x > start
      <4>1. PICK j \in 0 .. m - 1, b \in AllOnes : j \in Nat /\ b \in words[j] /\ x = At(j, b)
        BY <2>5
      <4>2. ~(j < q)
        BY <2>1, <2>8, <4>1 DEF lower
      <4>3. CASE q < j
        <5>1. At(q, r) < At(j, b)
          BY <2>1, <4>1, <4>3, AtOrdered
        <5> QED
          BY <1>2, <2>1, <4>1, <5>1
      <4>4. CASE j = q
        <5>1. (At(q, r) < At(q, b) <=> r < b) /\ b \in Nat /\ At(q, b) \in Nat
          BY SMTT(30), <2>1, <4>1, AtOrdered DEF AllOnes
        <5>2. ~(b <= r)
          BY <2>2, <2>8, <4>1, <4>4, <5>1
        <5> QED
          BY <1>2, <2>1, <4>1, <4>4, <5>1, <5>2
      <4> QED
        BY <2>1, <4>1, <4>2, <4>3, <4>4
    <3> QED
      BY <2>3, <2>8, <3>1 DEF NearestBelow, found
  <2>9. CASE w = {} /\ lower # {}
    <3> DEFINE l == Max(lower)
               h == HighestOne(words[l])
    <3>1. l \in lower /\ \A j \in lower : j <= l
      <4>1. lower \subseteq Nat /\ \A j \in lower : j <= q
        BY <2>1 DEF lower
      <4> QED
        BY <2>1, <2>9, <4>1, MaxOf
    <3> HIDE DEF l
    <3>2. l \in Nat /\ l < q /\ words[l] # {} /\ l \in 0 .. m - 1
      BY <2>1, <3>1 DEF lower
    <3>3. h \in words[l] /\ \A b \in words[l] : b <= h
      BY <2>6, <3>2
    <3>4. found = At(l, h)
      BY <2>3, <2>9 DEF l
    <3> HIDE DEF h
    <3>5. h \in AllOnes /\ At(l, h) \in bits /\ h \in Nat
      BY <2>4, <3>2, <3>3 DEF AllOnes
    <3>6. At(l, h) <= start
      <4>1. At(l, h) < At(q, r) /\ At(l, h) \in Nat
        BY <2>1, <3>2, <3>5, AtOrdered
      <4> QED
        BY <1>2, <2>1, <4>1
    <3>7. ASSUME NEW x \in bits, x <= start PROVE x <= At(l, h)
      <4>1. PICK j \in 0 .. m - 1, b \in AllOnes : j \in Nat /\ b \in words[j] /\ x = At(j, b)
        BY <2>5
      <4>2. ~(q < j)
        <5>1. q < j => At(q, r) < At(j, b) /\ At(q, r) \in Nat /\ At(j, b) \in Nat
          BY <2>1, <4>1, AtOrdered
        <5> QED
          BY <2>1, <3>7, <4>1, <5>1
      <4>3. j # q
        <5>1. ASSUME j = q PROVE FALSE
          <6>1. At(q, b) \in Nat /\ b \in Nat /\ (At(q, r) < At(q, b) <=> r < b)
            BY <2>1, <4>1, <5>1, AtOrdered DEF AllOnes
          <6>2. b <= r
            BY <2>1, <3>7, <4>1, <5>1, <6>1
          <6> QED
            BY <2>2, <2>9, <4>1, <5>1, <6>1, <6>2
        <5> QED
          BY <5>1
      <4>4. j \in lower /\ j <= l
        <5>1. j \in lower
          BY <2>1, <4>1, <4>2, <4>3 DEF lower
        <5> QED
          BY <3>1, <5>1
      <4>5. CASE j < l
        <5>1. At(j, b) < At(l, h) /\ At(j, b) \in Nat /\ At(l, h) \in Nat
          BY <3>2, <3>5, <4>1, <4>5, AtOrdered
        <5> QED
          BY <4>1, <5>1
      <4>6. CASE j = l
        <5>1. /\ At(l, b) \in Nat /\ At(l, h) \in Nat /\ b \in Nat
              /\ At(l, h) < At(l, b) <=> h < b
          BY <3>2, <3>5, <4>1, <4>6, AtOrdered DEF AllOnes
        <5>2. ~(h < b)
          BY <3>3, <3>5, <4>1, <4>6, <5>1
        <5> QED
          BY <4>1, <4>6, <5>1, <5>2
      <4> QED
        BY <3>2, <4>1, <4>4, <4>5, <4>6
    <3> QED
      BY <3>4, <3>5, <3>6, <3>7 DEF NearestBelow, found
  <2> QED
    BY <2>7, <2>8, <2>9
<1> QED
  BY <1>1, <1>2

LEMMA LowestGeNearest ==
  ASSUME NEW words, NEW n \in Nat, NEW bits, Means(words, n, bits), bits \subseteq 0 .. n - 1,
         NEW start \in -1 .. n
  PROVE  NearestAbove(bits, start, find_lowest_ge(words, start))
<1> DEFINE from   == IF start < 0 THEN 0 ELSE start
           q      == from \div WordBits
           r      == from % WordBits
           w      == words[q] \cap MaskFrom(r)
           higher == {j \in DOMAIN words : j > q /\ words[j] # {}}
           m      == NumberOfWords(n)
           found  == find_lowest_ge(words, start)
<1>1. from \in Nat /\ start <= from /\ \A x \in bits : x >= start <=> x >= from
  OBVIOUS
<1> HIDE DEF from
<1>2. /\ q \in Nat /\ r \in AllOnes /\ At(q, r) = from /\ m \in Nat /\ r \in Nat
  <2>1. q \in Nat /\ r \in AllOnes /\ At(q, r) = from
    BY <1>1, AtIs
  <2>2. m \in Nat
    BY WordsCount
  <2> QED
    BY <2>1, <2>2 DEF AllOnes
<1>3. w = words[q] \cap r .. WordBits - 1 /\ DOMAIN words = 0 .. m - 1
  BY <1>2, MaskFromIs DEF Means, IsWords
<1>4. found = IF q \notin DOMAIN words THEN -1
              ELSE IF w # {} THEN At(q, LowestOne(w))
              ELSE IF higher = {} THEN -1
              ELSE At(Min(higher), LowestOne(words[Min(higher)]))
  BY DEF find_lowest_ge, At, from
<1>5. \A j \in 0 .. m - 1 : words[j] = {b \in AllOnes : At(j, b) \in bits}
  BY DEF Means
<1>6. ASSUME NEW x \in bits
      PROVE  \E j \in 0 .. m - 1, b \in AllOnes :
               j \in Nat /\ b \in words[j] /\ x = At(j, b) /\ x \in Nat
  <2>1. x \in 0 .. n - 1 /\ x \in Nat
    OBVIOUS
  <2>2. x \div WordBits \in 0 .. m - 1
    BY <2>1, WordsCount
  <2>3. x \div WordBits \in Nat /\ x % WordBits \in AllOnes
        /\ At(x \div WordBits, x % WordBits) = x
    BY <2>1, AtIs
  <2>4. x % WordBits \in words[x \div WordBits]
    BY <1>5, <2>2, <2>3
  <2> QED
    BY <2>1, <2>2, <2>3, <2>4
<1> HIDE DEF q, r, w, higher, m, found
<1>7. \A j \in 0 .. m - 1 : words[j] # {} =>
        LowestOne(words[j]) \in words[j] /\ \A b \in words[j] : LowestOne(words[j]) <= b
  <2> TAKE j \in 0 .. m - 1
  <2>1. words[j] \subseteq Nat
    BY <1>5 DEF AllOnes
  <2> QED
    BY <2>1, MinOf DEF LowestOne
\* A member at or above the start is in the word of the start, or beyond.
<1>8. ASSUME NEW x \in bits, x >= start, NEW j \in Nat, NEW b \in AllOnes, x = At(j, b)
      PROVE  ~(j < q) /\ (j = q => r <= b)
  <2>1. x >= from /\ x \in Nat /\ b \in Nat
    BY <1>1, <1>8 DEF AllOnes
  <2>2. j < q => At(j, b) < At(q, r)
    BY <1>2, <1>8, AtOrdered
  <2>3. j = q => (At(q, b) < At(q, r) <=> b < r)
    BY <1>2, <1>8, AtOrdered
  <2> QED
    BY <1>1, <1>2, <1>8, <2>1, <2>2, <2>3
<1>9. CASE q \in DOMAIN words /\ w # {}
  <2> DEFINE h == LowestOne(w)
  <2>1. h \in w /\ \A b \in w : h <= b
    <3>1. w \subseteq Nat
      BY <1>2, <1>3
    <3> QED
      BY <1>9, <3>1, MinOf DEF LowestOne
  <2> HIDE DEF h
  <2>2. h \in words[q] /\ r <= h /\ h \in AllOnes /\ h \in Nat
    BY <1>2, <1>3, <2>1 DEF AllOnes
  <2>3. found = At(q, h) /\ At(q, h) \in bits
    BY <1>3, <1>4, <1>5, <1>9, <2>2 DEF h
  <2>4. At(q, h) >= start
    <3>1. At(q, h) \in Nat /\ (At(q, h) < At(q, r) <=> h < r)
      BY <1>2, <2>2, AtOrdered
    <3> QED
      BY <1>1, <1>2, <2>2, <3>1
  <2>5. ASSUME NEW x \in bits, x >= start PROVE x >= At(q, h)
    <3>1. PICK j \in 0 .. m - 1, b \in AllOnes :
            j \in Nat /\ b \in words[j] /\ x = At(j, b) /\ x \in Nat
      BY <1>6
    <3>2. ~(j < q) /\ (j = q => r <= b)
      BY <1>8, <2>5, <3>1
    <3>3. CASE q < j
      <4>1. At(q, h) < At(j, b) /\ At(q, h) \in Nat
        BY <1>2, <2>2, <3>1, <3>3, AtOrdered
      <4> QED
        BY <3>1, <4>1
    <3>4. CASE j = q
      <4>1. b \in w /\ b \in Nat
        BY <1>2, <1>3, <3>1, <3>2, <3>4 DEF AllOnes
      <4>2. At(q, h) \in Nat /\ (At(q, b) < At(q, h) <=> b < h)
        BY <1>2, <2>2, <3>1, AtOrdered
      <4> QED
        BY <2>1, <2>2, <3>1, <3>4, <4>1, <4>2
    <3> QED
      BY <1>2, <3>1, <3>2, <3>3, <3>4
  <2> QED
    BY <2>3, <2>4, <2>5 DEF NearestAbove, found
<1>10. CASE q \notin DOMAIN words \/ (w = {} /\ higher = {})
  <2>1. ASSUME NEW x \in bits, x >= start PROVE FALSE
    <3>1. PICK j \in 0 .. m - 1, b \in AllOnes :
            j \in Nat /\ b \in words[j] /\ x = At(j, b) /\ x \in Nat
      BY <1>6
    <3>2. ~(j < q) /\ (j = q => r <= b)
      BY <1>8, <2>1, <3>1
    <3>3. CASE q < j
      BY <1>2, <1>3, <1>10, <3>1, <3>3 DEF higher
    <3>4. CASE j = q
      <4>1. b \in w
        BY <1>2, <1>3, <3>1, <3>2, <3>4 DEF AllOnes
      <4> QED
        BY <1>3, <1>10, <3>1, <3>4, <4>1
    <3> QED
      BY <1>2, <3>1, <3>2, <3>3, <3>4
  <2>2. \A x \in bits : x < start
    <3>1. \A x \in bits : x \in Int
      OBVIOUS
    <3> QED
      BY <2>1, <3>1
  <2>3. found = -1
    BY <1>4, <1>10
  <2> QED
    BY <2>2, <2>3 DEF NearestAbove, found
<1>11. CASE q \in DOMAIN words /\ w = {} /\ higher # {}
  <2> DEFINE l == Min(higher)
             h == LowestOne(words[l])
  <2>1. l \in higher /\ \A j \in higher : l <= j
    <3>1. higher \subseteq Nat
      BY <1>2, <1>3 DEF higher
    <3> QED
      BY <1>11, <3>1, MinOf
  <2> HIDE DEF l
  <2>2. l \in Nat /\ q < l /\ words[l] # {} /\ l \in 0 .. m - 1
    BY <1>2, <1>3, <2>1 DEF higher
  <2>3. h \in words[l] /\ \A b \in words[l] : h <= b
    BY <1>7, <2>2
  <2>4. found = At(l, h)
    BY <1>4, <1>11 DEF l
  <2> HIDE DEF h
  <2>5. h \in AllOnes /\ At(l, h) \in bits /\ h \in Nat
    BY <1>5, <2>2, <2>3 DEF AllOnes
  <2>6. At(l, h) >= start
    <3>1. At(q, r) < At(l, h) /\ At(l, h) \in Nat
      BY <1>2, <2>2, <2>5, AtOrdered
    <3> QED
      BY <1>1, <1>2, <3>1
  <2>7. ASSUME NEW x \in bits, x >= start PROVE x >= At(l, h)
    <3>1. PICK j \in 0 .. m - 1, b \in AllOnes :
            j \in Nat /\ b \in words[j] /\ x = At(j, b) /\ x \in Nat
      BY <1>6
    <3>2. ~(j < q) /\ (j = q => r <= b)
      BY <1>8, <2>7, <3>1
    <3>3. j # q
      <4>1. ASSUME j = q PROVE b \in w
        BY <1>2, <1>3, <3>1, <3>2, <4>1 DEF AllOnes
      <4> QED
        BY <1>11, <4>1
    <3>4. l <= j
      <4>1. j \in higher
        BY <1>2, <1>3, <3>1, <3>2, <3>3 DEF higher
      <4> QED
        BY <2>1, <4>1
    <3>5. CASE l < j
      <4>1. At(l, h) < At(j, b) /\ At(l, h) \in Nat
        BY <2>2, <2>5, <3>1, <3>5, AtOrdered
      <4> QED
        BY <3>1, <4>1
    <3>6. CASE j = l
      <4>1. At(l, h) \in Nat /\ (At(l, b) < At(l, h) <=> b < h) /\ b \in Nat
        BY <2>2, <2>5, <3>1, <3>6, AtOrdered DEF AllOnes
      <4>2. ~(b < h)
        BY <2>3, <2>5, <3>1, <3>6, <4>1
      <4> QED
        BY <3>1, <3>6, <4>1, <4>2
    <3> QED
      BY <2>2, <3>1, <3>4, <3>5, <3>6
  <2> QED
    BY <2>4, <2>5, <2>6, <2>7 DEF NearestAbove, found
<1> QED
  BY <1>9, <1>10, <1>11

-----------------------------------------------------------------------------
(***************************************************************************)
(* The schedule.                                                           *)
(***************************************************************************)
Last       == Len(kTickSchedule)
Upper(b)   == kTickSchedule[b].upper_exclusive
TickIn(b)  == kTickSchedule[b].tick

LEMMA ElementIs ==
  ASSUME NEW S, NEW s \in Seq(S), NEW i \in 1 .. Len(s)
  PROVE  s[i] \in S
OBVIOUS

LEMMA ScheduleFacts ==
  /\ Last \in Nat \ {0} /\ Brackets = 1 .. Last
  /\ \A b \in 1 .. Last : Upper(b) \in Nat /\ TickIn(b) \in Nat \ {0}
  /\ PriceMax \in Nat /\ Upper(Last) = PriceMax
  /\ \A a, b \in 1 .. Last : a < b => Upper(a) < Upper(b)
<1>1. Last \in Nat \ {0} /\ Brackets = 1 .. Last
  BY ScheduleAssumption DEF Last, Brackets, schedule_is_well_formed
<1>2. \A b \in 1 .. Last : Upper(b) \in Nat /\ TickIn(b) \in Nat \ {0}
  <2> TAKE b \in 1 .. Last
  <2>1. kTickSchedule[b] \in [upper_exclusive : Nat, tick : Nat \ {0}]
    <3> DEFINE S == [upper_exclusive : Nat, tick : Nat \ {0}]
    <3>1. kTickSchedule \in Seq(S) /\ b \in 1 .. Len(kTickSchedule)
      BY ScheduleAssumption DEF Last
    <3> HIDE DEF S
    <3>2. kTickSchedule[b] \in S
      BY <3>1, ElementIs
    <3> QED
      BY <3>2 DEF S
  <2> QED
    BY <2>1 DEF Upper, TickIn
<1>3. PriceMax \in Nat /\ Upper(Last) = PriceMax
  <2>1. Upper(Last) = PriceMax
    BY ScheduleAssumption DEF Last, Upper, schedule_is_well_formed
  <2> QED
    BY <1>1, <1>2, <2>1
<1>4. \A b \in 2 .. Last : Upper(b - 1) < Upper(b)
  BY <1>1, ScheduleAssumption DEF Upper, schedule_is_well_formed
<1> DEFINE S == {k \in Nat : \A a \in 1 .. Last : a + k + 1 \in 1 .. Last =>
                                Upper(a) < Upper(a + k + 1)}
<1>5. 0 \in S
  <2>1. ASSUME NEW a \in 1 .. Last, a + 0 + 1 \in 1 .. Last PROVE Upper(a) < Upper(a + 0 + 1)
    <3>1. a + 0 + 1 = a + 1 /\ a + 1 \in 2 .. Last /\ (a + 1) - 1 = a
      BY <1>1, <2>1
    <3>2. Upper((a + 1) - 1) < Upper(a + 1)
      BY <1>4, <3>1
    <3> QED
      BY <3>1, <3>2
  <2> QED
    BY <2>1
<1>6. ASSUME NEW k \in Nat, k \in S PROVE k + 1 \in S
  <2>1. ASSUME NEW a \in 1 .. Last, a + (k + 1) + 1 \in 1 .. Last
        PROVE  Upper(a) < Upper(a + (k + 1) + 1)
    <3> DEFINE c == a + k + 1
    <3>1. /\ c \in 1 .. Last /\ c + 1 \in 2 .. Last /\ (c + 1) - 1 = c
          /\ a + (k + 1) + 1 = c + 1 /\ c + 1 \in 1 .. Last
      BY <1>1, <2>1
    <3>2. Upper(a) < Upper(c)
      BY <1>6, <3>1
    <3> HIDE DEF c
    <3>3. Upper((c + 1) - 1) < Upper(c + 1)
      BY <1>4, <3>1
    <3>4. Upper(a) \in Nat /\ Upper(c) \in Nat /\ Upper(c + 1) \in Nat
      BY <1>2, <3>1
    <3> QED
      BY <3>1, <3>2, <3>3, <3>4
  <2> QED
    BY <2>1
<1> HIDE DEF S
<1>7. \A k \in Nat : k \in S
  BY <1>5, <1>6, Induction
<1>8. ASSUME NEW a \in 1 .. Last, NEW b \in 1 .. Last, a < b PROVE Upper(a) < Upper(b)
  <2>1. b - a - 1 \in Nat /\ a + (b - a - 1) + 1 = b
    BY <1>1, <1>8
  <2>2. b - a - 1 \in S
    BY <1>7, <2>1
  <2> QED
    BY <2>1, <2>2 DEF S
<1> QED
  BY <1>1, <1>2, <1>3, <1>8

\* The bracket a price is in.
BracketOf(p) == IF Above(p) = {} THEN Last ELSE Min(Above(p))

LEMMA BracketIs ==
  ASSUME NEW p \in Int
  PROVE  /\ BracketOf(p) \in 1 .. Last
         /\ tick_size(p) = TickIn(BracketOf(p)) /\ tick_size(p) \in Nat \ {0}
         /\ next_breakpoint(p) = Upper(BracketOf(p))
         /\ p < PriceMax => p < Upper(BracketOf(p))
         /\ \A b \in 1 .. Last : b < BracketOf(p) => Upper(b) <= p
<1> DEFINE c == BracketOf(p)
<1>1. Above(p) = {b \in 1 .. Last : p < Upper(b)}
  BY ScheduleFacts DEF Above, Upper
<1>2. CASE Above(p) = {}
  <2>1. c = Last /\ tick_size(p) = TickIn(c) /\ next_breakpoint(p) = Upper(c)
    BY <1>2, ScheduleFacts DEF BracketOf, tick_size, next_breakpoint, TickIn, Last
  <2>2. \A b \in 1 .. Last : ~(p < Upper(b)) /\ Upper(b) \in Nat
    BY <1>1, <1>2, ScheduleFacts
  <2>3. Last \in 1 .. Last /\ Upper(Last) = PriceMax
    BY ScheduleFacts
  <2>4. ~(p < PriceMax) /\ \A b \in 1 .. Last : Upper(b) <= p
    BY <2>2, <2>3
  <2>5. c \in 1 .. Last /\ TickIn(c) \in Nat \ {0}
    BY <2>1, <2>3, ScheduleFacts
  <2> HIDE DEF c
  <2> QED
    BY <2>1, <2>4, <2>5 DEF c
<1>3. CASE Above(p) # {}
  <2>1. c = Min(Above(p)) /\ tick_size(p) = TickIn(c) /\ next_breakpoint(p) = Upper(c)
    BY <1>3 DEF BracketOf, tick_size, next_breakpoint, TickIn, Upper
  <2>2. c \in Above(p) /\ \A b \in Above(p) : c <= b
    <3>1. Above(p) \subseteq Nat
      BY <1>1
    <3> QED
      BY <1>3, <2>1, <3>1, MinOf
  <2> HIDE DEF c
  <2>3. c \in 1 .. Last /\ p < Upper(c) /\ TickIn(c) \in Nat \ {0}
    BY <1>1, <2>2, ScheduleFacts
  <2>4. ASSUME NEW b \in 1 .. Last, b < c PROVE Upper(b) <= p
    <3>1. ~(c <= b)
      BY <2>3, <2>4
    <3>2. b \notin Above(p) /\ Upper(b) \in Nat
      BY <2>2, <3>1, ScheduleFacts
    <3> QED
      BY <1>1, <3>2
  <2> QED
    BY <2>1, <2>3, <2>4 DEF c
<1> QED
  BY <1>2, <1>3

\* A price is in the bracket whose bounds it is between.
LEMMA BracketTold ==
  ASSUME NEW p \in Int, NEW b \in 1 .. Last, p < Upper(b) \/ b = Last,
         \A a \in 1 .. Last : a < b => Upper(a) <= p
  PROVE  BracketOf(p) = b
<1> DEFINE c == BracketOf(p)
<1>1. /\ c \in 1 .. Last /\ (p < PriceMax => p < Upper(c))
      /\ \A a \in 1 .. Last : a < c => Upper(a) <= p
      /\ Last \in Nat /\ \A a \in 1 .. Last : Upper(a) \in Nat /\ Upper(a) <= PriceMax
      /\ PriceMax \in Nat
  <2>1. ASSUME NEW a \in 1 .. Last PROVE Upper(a) <= PriceMax
    <3>1. Last \in 1 .. Last /\ Upper(Last) = PriceMax /\ Upper(a) \in Nat /\ PriceMax \in Nat
      BY ScheduleFacts
    <3>2. a # Last => a < Last
      BY <3>1
    <3>3. a < Last => Upper(a) < Upper(Last)
      BY <3>1, ScheduleFacts
    <3> QED
      BY <3>1, <3>2, <3>3
  <2> QED
    BY <2>1, BracketIs, ScheduleFacts
<1> HIDE DEF c
<1>2. ~(c < b)
  <2>1. ASSUME c < b PROVE FALSE
    <3>1. Upper(c) <= p
      BY <1>1, <2>1
    <3>2. c # Last
      BY <1>1, <2>1
    <3>3. Upper(c) < PriceMax
      BY <1>1, <3>2, ScheduleFacts
    <3>4. ~(p < PriceMax)
      BY <1>1, <3>1
    <3>5. Upper(b) <= PriceMax /\ Upper(b) \in Nat
      BY <1>1
    <3>6. b = Last
      BY <1>1, <3>4, <3>5
    <3>7. Above(p) = {}
      <4>1. \A a \in 1 .. Last : ~(p < Upper(a))
        BY <1>1, <3>4
      <4> QED
        BY <4>1, ScheduleFacts DEF Above, Upper
    <3> QED
      BY <3>2, <3>7 DEF c, BracketOf
  <2> QED
    BY <2>1
<1>3. ~(b < c)
  <2>1. ASSUME b < c PROVE FALSE
    <3>1. Upper(b) <= p
      BY <1>1, <2>1
    <3>2. b # Last
      BY <1>1, <2>1
    <3> QED
      BY <1>1, <3>1, <3>2
  <2> QED
    BY <2>1
<1> QED
  BY <1>1, <1>2, <1>3 DEF c

LEMMA BracketEnd ==
  ASSUME NEW p \in Int
  PROVE  /\ p < Upper(BracketOf(p)) \/ BracketOf(p) = Last
         /\ \A q \in Int : p <= q => BracketOf(p) <= BracketOf(q)
<1>1. ASSUME NEW q \in Int PROVE q < Upper(BracketOf(q)) \/ BracketOf(q) = Last
  <2>1. CASE Above(q) = {}
    BY <2>1 DEF BracketOf
  <2>2. CASE Above(q) # {}
    <3>1. Above(q) = {b \in 1 .. Last : q < Upper(b)}
      BY ScheduleFacts DEF Above, Upper
    <3>2. Above(q) \subseteq Nat
      BY <3>1
    <3>3. Min(Above(q)) \in Above(q)
      BY <2>2, <3>2, MinOf
    <3> QED
      BY <2>2, <3>1, <3>3 DEF BracketOf
  <2> QED
    BY <2>1, <2>2
<1>2. ASSUME NEW q \in Int, p <= q, BracketOf(q) < BracketOf(p) PROVE FALSE
  <2> DEFINE b == BracketOf(p)
             c == BracketOf(q)
  <2>1. b \in 1 .. Last /\ c \in 1 .. Last /\ Last \in Nat
    BY BracketIs, ScheduleFacts
  <2>2. Upper(c) <= p
    BY <1>2, <2>1, BracketIs
  <2>3. q < Upper(c) \/ c = Last
    BY <1>1
  <2>4. Upper(c) \in Nat
    BY <2>1, ScheduleFacts
  <2>5. c < b
    BY <1>2
  <2> HIDE DEF b, c
  <2> QED
    BY <1>2, <2>1, <2>2, <2>3, <2>4, <2>5
<1>3. ASSUME NEW q \in Int, p <= q PROVE BracketOf(p) <= BracketOf(q)
  <2>1. BracketOf(p) \in 1 .. Last /\ BracketOf(q) \in 1 .. Last
    BY BracketIs
  <2>2. ~(BracketOf(q) < BracketOf(p))
    BY <1>2, <1>3
  <2> QED
    BY <2>1, <2>2
<1> QED
  BY <1>1, <1>3

\* Two prices in one bracket, with every price between them.
LEMMA SameBracket ==
  ASSUME NEW p \in Int, NEW q \in Int, p <= q, q < Upper(BracketOf(p)) \/ BracketOf(p) = Last
  PROVE  BracketOf(q) = BracketOf(p)
<1>1. /\ BracketOf(p) \in 1 .. Last
      /\ \A a \in 1 .. Last : a < BracketOf(p) => Upper(a) <= p
      /\ \A a \in 1 .. Last : Upper(a) \in Nat
  BY BracketIs, ScheduleFacts
<1>2. \A a \in 1 .. Last : a < BracketOf(p) => Upper(a) <= q
  BY <1>1
<1> QED
  BY <1>1, <1>2, BracketTold

-----------------------------------------------------------------------------
(***************************************************************************)
(* Multiples.                                                              *)
(***************************************************************************)
LEMMA MultipleIs ==
  ASSUME NEW x \in Int, NEW t \in Nat \ {0}
  PROVE  x % t = 0 <=> \E k \in Int : x = t * k
<1>1. x = t * (x \div t) + (x % t) /\ x \div t \in Int
  BY Divided
<1>2. ASSUME x % t = 0 PROVE \E k \in Int : x = t * k
  <2> DEFINE q == x \div t
             m == t * q
  <2>1. m \in Int /\ x = m + (x % t)
    BY <1>1
  <2> HIDE DEF m
  <2>2. x = m
    BY <1>2, <2>1
  <2> QED
    BY <1>1, <2>2 DEF m
<1>3. ASSUME NEW k \in Int, x = t * k PROVE x % t = 0
  <2>1. x = t * k + 0 /\ 0 \in 0 .. t - 1
    BY <1>3
  <2> QED
    BY <2>1, RemainderIs
<1> QED
  BY <1>2, <1>3

LEMMA MultiplesAdd ==
  ASSUME NEW t \in Nat \ {0}, NEW x \in Int, x % t = 0, NEW y \in Int, y % t = 0
  PROVE  (x + y) % t = 0 /\ (x - y) % t = 0
<1>1. PICK k \in Int : x = t * k
  BY MultipleIs
<1>2. PICK l \in Int : y = t * l
  BY MultipleIs
<1>3. x + y = t * (k + l) /\ x - y = t * (k - l) /\ k + l \in Int /\ k - l \in Int
  BY <1>1, <1>2
<1>4. x + y \in Int /\ x - y \in Int
  OBVIOUS
<1>5. (x + y) % t = 0
  BY <1>3, <1>4, MultipleIs
<1>6. (x - y) % t = 0
  BY <1>3, <1>4, MultipleIs
<1> QED
  BY <1>5, <1>6

LEMMA MultiplesApart ==
  ASSUME NEW t \in Nat \ {0}, NEW x \in Int, x % t = 0, NEW y \in Int, y % t = 0, x < y
  PROVE  x + t <= y
<1>1. PICK k \in Int : x = t * k
  BY MultipleIs
<1>2. PICK l \in Int : y = t * l
  BY MultipleIs
<1>3. l <= k => t * l <= t * k
  <2>1. ASSUME l <= k PROVE t * l <= t * k
    <3>1. k - l \in Nat
      BY <2>1
    <3>2. t * (k - l) >= 0 /\ t * (k - l) = t * k - t * l
      BY <3>1
    <3> QED
      BY <3>2
  <2> QED
    BY <2>1
<1>4. k + 1 <= l
  BY <1>1, <1>2, <1>3
<1>5. t * (k + 1) <= t * l
  <2>1. l - (k + 1) \in Nat
    BY <1>4
  <2>2. t * (l - (k + 1)) >= 0 /\ t * (l - (k + 1)) = t * l - t * (k + 1)
    BY <2>1
  <2> QED
    BY <2>2
<1>6. t * (k + 1) = t * k + t
  OBVIOUS
<1> QED
  BY <1>1, <1>2, <1>5, <1>6

\* The multiples next to a number.
LEMMA MultipleNext ==
  ASSUME NEW t \in Nat \ {0}, NEW p \in Int
  PROVE  /\ p - (p % t) \in Int /\ (p - (p % t)) % t = 0 /\ p - (p % t) <= p
         /\ p - (p % t) + t > p
         /\ \A x \in Int : x % t = 0 /\ x <= p => x <= p - (p % t)
         /\ \A x \in Int : x % t = 0 /\ x > p => x >= p - (p % t) + t
<1> DEFINE f == p - (p % t)
<1>1. p % t \in 0 .. t - 1 /\ p = t * (p \div t) + (p % t) /\ p \div t \in Int
  BY Divided
<1>2. f \in Int /\ f <= p /\ f + t > p
  BY <1>1
<1>3. f = t * (p \div t)
  <2> DEFINE r == p % t
             m == t * (p \div t)
  <2>1. r \in Int /\ m \in Int /\ p = m + r
    BY <1>1
  <2> HIDE DEF r, m
  <2>2. p - r = m
    BY <2>1
  <2> QED
    BY <2>2 DEF r, m
<1>4. f % t = 0
  BY <1>1, <1>2, <1>3, MultipleIs
<1> HIDE DEF f
<1>5. ASSUME NEW x \in Int, x % t = 0, x <= p PROVE x <= f
  <2>1. f < x => f + t <= x
    BY <1>2, <1>4, <1>5, MultiplesApart
  <2> QED
    BY <1>2, <1>5, <2>1
<1>6. ASSUME NEW x \in Int, x % t = 0, x > p PROVE x >= f + t
  <2>1. f < x
    BY <1>2, <1>6
  <2>2. f + t <= x
    BY <1>2, <1>4, <1>6, <2>1, MultiplesApart
  <2> QED
    BY <1>2, <2>2
<1> QED
  BY <1>2, <1>4, <1>5, <1>6 DEF f

-----------------------------------------------------------------------------
(***************************************************************************)
(* Rounding.  Every edge is a multiple of the tick above it, which         *)
(* tick_table.cpp asserts, and of the tick below it, which the schedule    *)
(* of tick_table.hpp satisfies and nothing asserts: without it a ladder    *)
(* can miss a price (LadderCoversBand is violated by another schedule).    *)
(***************************************************************************)
EdgesOnBothTicks == \A b \in Brackets : b # Len(kTickSchedule) =>
                       kTickSchedule[b].upper_exclusive % kTickSchedule[b].tick = 0

LEMMA EdgeBelow ==
  ASSUME NEW b \in 1 .. Last, NEW a \in 1 .. Last, a < b
  PROVE  \E c \in 1 .. Last : /\ c + 1 = b /\ Upper(a) <= Upper(c) /\ Upper(c) \in Nat
                              /\ Upper(c) % TickIn(b) = 0
<1> DEFINE c == b - 1
<1>1. c \in 1 .. Last /\ c + 1 = b /\ b \in Brackets \ {1} /\ a <= c
  BY ScheduleFacts
<1>2. Upper(c) % TickIn(b) = 0
  BY <1>1, ScheduleAssumption DEF bracket_edges_are_tick_aligned, Upper, TickIn
<1>3. Upper(a) \in Nat /\ Upper(c) \in Nat /\ (a < c => Upper(a) < Upper(c))
  BY <1>1, ScheduleFacts
<1>4. Upper(a) <= Upper(c)
  <2>1. CASE a = c
    BY <1>3, <2>1
  <2>2. CASE a < c
    BY <1>3, <2>2
  <2> HIDE DEF c
  <2> QED
    BY <1>1, <2>1, <2>2
<1> QED
  BY <1>1, <1>2, <1>3, <1>4

\* The edge of a bracket is the first price of the next one, and on its tick.
LEMMA EdgeUp ==
  ASSUME NEW b \in 1 .. Last, b # Last, Upper(b) > 0
  PROVE  BracketOf(Upper(b)) = b + 1 /\ is_tick_aligned(Upper(b))
<1> DEFINE d == b + 1
           u == Upper(b)
<1>1. d \in 1 .. Last /\ b < d /\ b \in Int
  BY ScheduleFacts
<1>2. u < Upper(d) /\ u \in Nat
  BY <1>1, ScheduleFacts
<1>3. \A a \in 1 .. Last : a < d => Upper(a) <= u
  <2> TAKE a \in 1 .. Last
  <2>1. a < d => a = b \/ a < b
    BY <1>1
  <2>2. a < b => Upper(a) < u
    BY <1>1, ScheduleFacts
  <2>3. Upper(a) \in Nat
    BY ScheduleFacts
  <2> HIDE DEF u
  <2> QED
    BY <1>2, <2>1, <2>2, <2>3 DEF u
<1>4. BracketOf(u) = d
  <2> HIDE DEF d, u
  <2> QED
    BY <1>1, <1>2, <1>3, BracketTold
<1>5. u % TickIn(d) = 0
  <2>1. PICK e \in 1 .. Last : e + 1 = d /\ Upper(e) % TickIn(d) = 0
    BY <1>1, EdgeBelow
  <2>2. e = b
    BY <1>1, <2>1, ScheduleFacts
  <2> QED
    BY <2>1, <2>2
<1>6. tick_size(u) = TickIn(d)
  BY <1>2, <1>4, BracketIs
<1> QED
  BY <1>2, <1>4, <1>5, <1>6 DEF is_tick_aligned

\* A price rounded down: the last price on its tick, in the same bracket.
LEMMA FloorIs ==
  ASSUME NEW p \in Nat \ {0}
  PROVE  /\ floor_to_tick(p) \in Nat /\ floor_to_tick(p) <= p
         /\ BracketOf(floor_to_tick(p)) = BracketOf(p)
         /\ \A q \in Int : is_tick_aligned(q) /\ q <= p => q <= floor_to_tick(p)
         /\ floor_to_tick(p) % tick_size(p) = 0
<1> DEFINE t == tick_size(p)
           f == p - (p % t)
           b == BracketOf(p)
<1>1. t \in Nat \ {0} /\ t = TickIn(b) /\ b \in 1 .. Last /\ p \in Int
  BY BracketIs
<1>2. floor_to_tick(p) = f
  BY DEF floor_to_tick
<1> HIDE DEF t
<1>3. /\ f \in Int /\ f % t = 0 /\ f <= p
      /\ \A x \in Int : x % t = 0 /\ x <= p => x <= f
  BY <1>1, MultipleNext
<1> HIDE DEF f
<1>4. f \in Nat
  <2>1. 0 % t = 0
    <3>1. 0 = t * 0
      BY <1>1
    <3> QED
      BY <1>1, <3>1, MultipleIs
  <2> QED
    BY <1>3, <2>1
<1> HIDE DEF b
<1>5. \A a \in 1 .. Last : a < b => Upper(a) <= f
  <2> SUFFICES ASSUME NEW a \in 1 .. Last, a < b PROVE Upper(a) <= f
    OBVIOUS
  <2>1. PICK c \in 1 .. Last : /\ c + 1 = b /\ Upper(a) <= Upper(c) /\ Upper(c) \in Nat
                               /\ Upper(c) % t = 0
    BY <1>1, EdgeBelow
  <2>2. Upper(c) <= p
    <3>1. c < b
      BY <2>1, ScheduleFacts
    <3> QED
      BY <3>1, BracketIs DEF b
  <2>3. Upper(a) \in Nat
    BY ScheduleFacts
  <2> QED
    BY <1>3, <2>1, <2>2, <2>3
<1>6. BracketOf(f) = b
  <2>1. p < Upper(b) \/ b = Last
    BY <1>1, BracketEnd DEF b
  <2>2. Upper(b) \in Nat
    BY <1>1, ScheduleFacts
  <2>3. f < Upper(b) \/ b = Last
    BY <1>3, <2>1, <2>2
  <2> QED
    BY <1>1, <1>3, <1>5, <2>3, BracketTold
<1>7. ASSUME NEW q \in Int, is_tick_aligned(q), q <= p PROVE q <= f
  <2> DEFINE a == BracketOf(q)
  <2>1. a \in 1 .. Last /\ a <= b /\ (q < Upper(a) \/ a = Last)
    BY <1>1, <1>7, BracketIs, BracketEnd DEF b
  <2>2. CASE a = b
    <3>1. q % t = 0
      BY <1>1, <1>7, <2>2, BracketIs DEF is_tick_aligned
    <3> QED
      BY <1>3, <1>7, <3>1
  <2>3. CASE a # b
    <3> HIDE DEF a
    <3>1. a < b /\ a # Last
      BY <1>1, <2>1, <2>3
    <3>2. Upper(a) <= f /\ q < Upper(a) /\ Upper(a) \in Nat
      BY <1>5, <2>1, <3>1, ScheduleFacts
    <3> QED
      BY <1>3, <1>7, <3>2
  <2> QED
    BY <2>2, <2>3
<1> QED
  BY <1>2, <1>3, <1>4, <1>6, <1>7 DEF b, t

\* A price rounded up: the first price on its tick.
LEMMA CeilIs ==
  ASSUME EdgesOnBothTicks, NEW p \in Nat \ {0}
  PROVE  /\ ceil_to_tick(p) \in Nat /\ ceil_to_tick(p) >= p
         /\ is_tick_aligned(ceil_to_tick(p))
         /\ \A q \in Int : is_tick_aligned(q) /\ q >= p => q >= ceil_to_tick(p)
<1> DEFINE t == tick_size(p)
           r == p % t
           c == ceil_to_tick(p)
           b == BracketOf(p)
<1>1. t \in Nat \ {0} /\ t = TickIn(b) /\ b \in 1 .. Last /\ p \in Int
  BY BracketIs
<1>2. c = IF r = 0 THEN p ELSE p + (t - r)
  BY DEF ceil_to_tick
<1> HIDE DEF t
<1>3. r \in 0 .. t - 1
  BY <1>1, Divided
<1>4. c \in Nat /\ c >= p
  BY <1>1, <1>2, <1>3
\* The least multiple of the tick at or above the price.
<1>5. c % t = 0 /\ \A x \in Int : x % t = 0 /\ x >= p => x >= c
  <2>1. CASE r = 0
    BY <1>2, <2>1
  <2>2. CASE r # 0
    <3> DEFINE f == p - r
    <3>1. f \in Int /\ f % t = 0 /\ \A x \in Int : x % t = 0 /\ x > p => x >= f + t
      BY <1>1, MultipleNext
    <3>2. c = f + t
      BY <1>1, <1>2, <1>3, <2>2
    <3>3. t % t = 0
      <4>1. t = t * 1
        BY <1>1
      <4> QED
        BY <1>1, <4>1, MultipleIs
    <3> HIDE DEF f
    <3>4. (f + t) % t = 0
      BY <1>1, <3>1, <3>3, MultiplesAdd
    <3>5. \A x \in Int : x % t = 0 /\ x >= p => x > p
      BY <1>1, <2>2
    <3> QED
      BY <3>1, <3>2, <3>4, <3>5
  <2> QED
    BY <2>1, <2>2
<1> HIDE DEF c
<1>6. b # Last => c <= Upper(b) /\ Upper(b) \in Nat
  <2> SUFFICES ASSUME b # Last PROVE c <= Upper(b) /\ Upper(b) \in Nat
    OBVIOUS
  <2>1. Upper(b) % t = 0
    BY <1>1, ScheduleFacts DEF EdgesOnBothTicks, Upper, TickIn, Last
  <2>2. p < Upper(b)
    BY <1>1, BracketEnd
  <2>3. Upper(b) \in Nat
    BY <1>1, ScheduleFacts
  <2> QED
    BY <1>1, <1>5, <2>1, <2>2, <2>3
<1> HIDE DEF b
<1>7. is_tick_aligned(c)
  <2>1. CASE c < Upper(b) \/ b = Last
    <3>1. BracketOf(c) = b
      BY <1>1, <1>4, <2>1, SameBracket DEF b
    <3>2. tick_size(c) = t
      BY <1>1, <1>4, <3>1, BracketIs
    <3> QED
      BY <1>1, <1>4, <1>5, <3>2 DEF is_tick_aligned
  <2>2. CASE b # Last /\ c = Upper(b)
    <3>1. Upper(b) > 0
      BY <1>4, <2>2
    <3> QED
      BY <1>1, <2>2, <3>1, EdgeUp
  <2> QED
    BY <1>4, <1>6, <2>1, <2>2
<1>8. ASSUME NEW q \in Int, is_tick_aligned(q), q >= p PROVE q >= c
  <2>1. CASE q < Upper(b) \/ b = Last
    <3>1. BracketOf(q) = b
      BY <1>1, <1>8, <2>1, SameBracket DEF b
    <3>2. q % t = 0
      BY <1>1, <1>8, <3>1, BracketIs DEF is_tick_aligned
    <3> QED
      BY <1>5, <1>8, <3>2
  <2>2. CASE b # Last /\ ~(q < Upper(b))
    BY <1>4, <1>6, <1>8, <2>2
  <2> QED
    BY <2>1, <2>2
<1> QED
  BY <1>4, <1>7, <1>8 DEF c

-----------------------------------------------------------------------------
(***************************************************************************)
(* One pass of build.                                                      *)
(***************************************************************************)
LEMMA SegmentTyped ==
  ASSUME NEW cur \in Int, NEW hi \in Int, NEW offset \in Nat
  PROVE  /\ SegmentFrom(cur, hi, offset) \in Segment
         /\ SegmentFrom(cur, hi, offset).tick = tick_size(cur)
         /\ SegmentFrom(cur, hi, offset).end_price = regime_last(cur, hi)
<1> DEFINE last == regime_last(cur, hi)
           t == tick_size(cur)
           q == Quot(last - cur, t) + 1
<1>1. t \in Nat \ {0} /\ next_breakpoint(cur) \in Nat
  BY BracketIs, ScheduleFacts
<1>2. last \in Int
  BY <1>1 DEF regime_last
<1> HIDE DEF last, t
<1>3. q \in Int
  <2> DEFINE a == last - cur
  <2>1. a \in Int /\ -a \in Int
    BY <1>2
  <2> HIDE DEF a
  <2>2. a \div t \in Int /\ (-a) \div t \in Int
    BY <1>1, <2>1, Divided
  <2>3. Quot(a, t) \in Int
    BY <2>2 DEF Quot
  <2> QED
    BY <2>3 DEF a
<1> HIDE DEF q
<1>4. Count(q) \in Nat
  <2>1. q % CountMod \in 0 .. CountMod - 1
    BY <1>3, CountAssumption, Divided
  <2> QED
    BY <2>1, CountAssumption DEF Count
<1>5. SegmentFrom(cur, hi, offset) =
        [start_price |-> cur, end_price |-> last, tick |-> t,
         index_offset |-> offset, count |-> Count(q)]
  BY DEF SegmentFrom, last, t, q
<1> QED
  BY <1>1, <1>2, <1>4, <1>5 DEF Segment, last, t

\* The loop goes on at the edge of the bracket, in a higher one, or ends.
LEMMA NextCur ==
  ASSUME NEW cur \in Int, NEW hi \in Int, cur <= hi, hi < PriceMax
  PROVE  LET next == regime_last(cur, hi) + tick_size(cur)
         IN /\ next \in Int
            /\ next > hi \/ (next = Upper(BracketOf(cur)) /\ BracketOf(cur) # Last)
            /\ next <= hi => BracketOf(cur) < BracketOf(next)
<1> DEFINE t == tick_size(cur)
           b == BracketOf(cur)
           next == regime_last(cur, hi) + t
<1>1. /\ t \in Nat \ {0} /\ b \in 1 .. Last /\ next_breakpoint(cur) = Upper(b)
      /\ Upper(b) \in Nat /\ PriceMax \in Nat /\ Last \in Nat
      /\ (b = Last => Upper(b) = PriceMax)
  BY BracketIs, ScheduleFacts
<1>2. next \in Int /\ (next > hi \/ (next = Upper(b) /\ b # Last))
  <2>1. regime_last(cur, hi) = IF Upper(b) = PriceMax \/ hi < Upper(b) - t THEN hi
                               ELSE Upper(b) - t
    BY <1>1 DEF regime_last
  <2> HIDE DEF t, b
  <2> QED
    BY <1>1, <2>1
<1>3. ASSUME next <= hi PROVE b < BracketOf(next)
  <2>1. next = Upper(b) /\ next < PriceMax
    BY <1>1, <1>2, <1>3
  <2> HIDE DEF next
  <2>2. BracketOf(next) \in 1 .. Last /\ next < Upper(BracketOf(next))
    BY <1>2, <2>1, BracketIs
  <2>3. BracketOf(next) # b
    BY <1>1, <2>1, <2>2
  <2>4. ~(BracketOf(next) < b)
    <3> DEFINE c == BracketOf(next)
    <3>1. c < b => Upper(c) < Upper(b) /\ Upper(c) \in Nat
      BY <1>1, <2>2, ScheduleFacts
    <3> HIDE DEF c
    <3>2. next < Upper(c)
      BY <2>2 DEF c
    <3>3. ~(c < b)
      BY <1>1, <2>1, <3>1, <3>2
    <3> QED
      BY <3>3 DEF c
  <2> QED
    BY <1>1, <2>2, <2>3, <2>4
<1> QED
  BY <1>2, <1>3

-----------------------------------------------------------------------------
(***************************************************************************)
(* What configure has checked, and what follows for the band.              *)
(***************************************************************************)
Checked(price, bps) ==
  /\ price \in Nat \ {0} /\ bps \in Nat /\ bps <= kBpsPerUnit
  /\ price * kBpsPerUnit <= PriceMax
  /\ is_tick_aligned(price)

LEMMA AcceptableIs ==
  ASSUME NEW price \in References, NEW bps \in Bands, Acceptable(price, bps)
  PROVE  Checked(price, bps)
<1>1. /\ price \in Int /\ price > 0 /\ bps \in Nat /\ bps <= kBpsPerUnit
      /\ price <= PriceMax \div kBpsPerUnit /\ is_tick_aligned(price)
  BY LayoutAssumption DEF Acceptable, is_tick_aligned, kMaxBandBps
<1> DEFINE q == PriceMax \div kBpsPerUnit
           k == kBpsPerUnit
<1>2. k \in Nat \ {0} /\ PriceMax \in Nat
  BY LayoutAssumption, ScheduleFacts
<1>3. q \in Int /\ PriceMax % k \in 0 .. k - 1 /\ PriceMax = k * q + (PriceMax % k)
  BY <1>2, Divided
<1>4. price <= q
  BY <1>1
<1> DEFINE r == PriceMax % k
<1>5. r \in Nat /\ PriceMax = k * q + r
  BY <1>2, <1>3
<1> HIDE DEF q, r, k
<1>6. k * q - k * price >= 0
  <2>1. q - price \in Nat
    BY <1>1, <1>3, <1>4
  <2>2. k * (q - price) >= 0 /\ k * (q - price) = k * q - k * price
    BY <1>1, <1>2, <1>3, <2>1
  <2> QED
    BY <2>2
<1>7. price * k = k * price /\ k * price \in Int /\ k * q \in Int
  BY <1>1, <1>2, <1>3
<1> DEFINE kq == k * q
           kp == k * price
<1>8. kq - kp >= 0 /\ kq \in Int /\ kp \in Int /\ PriceMax = kq + r /\ price * k = kp
  BY <1>5, <1>6, <1>7
<1> HIDE DEF kq, kp
<1>9. price * k <= PriceMax
  BY <1>2, <1>5, <1>8
<1> QED
  BY <1>1, <1>9 DEF Checked, k

\* The width of the band on one side of the reference price.
LEMMA DeltaIs ==
  ASSUME NEW price, NEW bps, Checked(price, bps)
  PROVE  /\ Delta(price, bps) \in 0 .. price
         /\ 4 * price <= PriceMax /\ price * bps <= PriceMax
         /\ \A d \in Int : d * kBpsPerUnit <= price * bps <=> d <= Delta(price, bps)
<1> DEFINE k == kBpsPerUnit
           x == price * bps
           d == x \div k
<1>1. /\ price \in Nat \ {0} /\ bps \in Nat /\ bps <= k /\ price * k <= PriceMax
      /\ k \in Nat /\ k >= 4 /\ PriceMax \in Nat
  BY LayoutAssumption, ScheduleFacts DEF Checked
<1> HIDE DEF k
<1>2. x \in Nat /\ x <= price * k /\ price * k \in Nat
  <2>1. price * (k - bps) >= 0 /\ price * (k - bps) = price * k - x
    <3>1. k - bps \in Nat
      BY <1>1
    <3> QED
      BY <1>1, <3>1
  <2>2. x \in Nat /\ price * k \in Nat
    BY <1>1
  <2> HIDE DEF x
  <2> DEFINE pk == price * k
  <2>3. pk \in Nat /\ pk - x >= 0
    BY <2>1, <2>2
  <2> HIDE DEF pk
  <2>4. x <= pk
    BY <2>2, <2>3
  <2> QED
    BY <2>2, <2>4 DEF pk
<1>3. 4 * price <= PriceMax
  <2>1. price * (k - 4) >= 0 /\ price * (k - 4) = price * k - 4 * price
    <3>1. k - 4 \in Nat
      BY <1>1
    <3> QED
      BY <1>1, <3>1
  <2> DEFINE pk == price * k
  <2>2. pk \in Nat /\ pk <= PriceMax /\ pk - 4 * price >= 0
    BY <1>1, <1>2, <2>1
  <2> HIDE DEF pk
  <2> QED
    BY <1>1, <2>2
<1>4. x <= PriceMax
  <2> DEFINE pk == price * k
  <2>1. x \in Nat /\ pk \in Nat /\ x <= pk /\ pk <= PriceMax
    BY <1>1, <1>2
  <2> HIDE DEF pk, x
  <2> QED
    BY <1>1, <2>1
<1>5. d \in Nat
  <2> HIDE DEF x
  <2> QED
    BY <1>1, <1>2, QuotientBounds
<1>6. ASSUME NEW e \in Int PROVE e * k <= x <=> e <= d
  <2>1. CASE e \in Nat
    <3>1. d < e <=> x < e * k
      <4> HIDE DEF x
      <4>1. k \in Nat \ {0}
        BY <1>1
      <4> QED
        BY <1>1, <1>2, <2>1, <4>1, QuotientBounds
    <3> DEFINE ek == e * k
    <3>2. ek \in Nat
      BY <1>1, <2>1
    <3> HIDE DEF x, d, ek
    <3>3. d < e <=> x < ek
      BY <3>1 DEF ek
    <3>4. ek <= x <=> e <= d
      BY <1>2, <1>5, <2>1, <3>2, <3>3
    <3> QED
      BY <3>4 DEF ek
  <2>2. CASE e < 0
    <3>1. e * k <= 0
      <4>1. (-e) \in Nat /\ (-e) * k >= 0 /\ (-e) * k = -(e * k)
        BY <1>1, <2>2
      <4> DEFINE ek == e * k
      <4>2. ek \in Int /\ -ek >= 0
        BY <1>1, <4>1
      <4> HIDE DEF ek
      <4>3. ek <= 0
        BY <4>2
      <4> QED
        BY <4>3 DEF ek
    <3> DEFINE ek == e * k
    <3>2. ek \in Int /\ ek <= 0
      BY <1>1, <3>1
    <3> HIDE DEF x, d, ek
    <3>3. ek <= x /\ e <= d
      BY <1>2, <1>5, <2>2, <3>2
    <3> QED
      BY <3>3 DEF ek
  <2> QED
    BY <2>1, <2>2
<1>7. d <= price
  <2>1. ~(price + 1 <= d)
    <3>1. (price + 1) * k <= x <=> price + 1 <= d
      <4>1. price + 1 \in Int
        BY <1>1
      <4> QED
        BY <1>6, <4>1
    <3>2. (price + 1) * k = price * k + k
      BY <1>1
    <3> DEFINE pk == price * k
    <3>3. pk \in Nat /\ x <= pk /\ (price + 1) * k = pk + k
      BY <1>2, <3>2
    <3> HIDE DEF pk, x, d
    <3> QED
      BY <1>1, <1>2, <3>1, <3>3
  <2> HIDE DEF d
  <2> QED
    BY <1>1, <1>5, <2>1
<1>8. Delta(price, bps) = d
  BY DEF Delta, k
<1> HIDE DEF d
<1> QED
  BY <1>1, <1>3, <1>4, <1>5, <1>6, <1>7, <1>8 DEF k

-----------------------------------------------------------------------------
(***************************************************************************)
(* The invariant that needs no more of the schedule than is asserted.      *)
(***************************************************************************)
BuildTyped ==
  build \in [cur : Int, band_lo : Int, band_hi : Int, segments : Seq(Segment), offset : Nat]

LadderTyped ==
  ladder \in [segments : Seq(Segment), total_count : Nat, band_lo : Int, band_hi : Int]

\* Each segment is in a bracket of its own, and the next one starts above it.
BuildClimbs ==
  pc = "build" =>
    /\ Checked(reference_price, band_bps)
    /\ build.band_hi < PriceMax
    /\ Len(build.segments) <= Last
    /\ build.cur <= build.band_hi => Len(build.segments) < BracketOf(build.cur)

BitmapKept ==
  /\ pc # "ready" => occupied = {}
  /\ pc = "ready" => /\ Means(bitmap, ladder.total_count, occupied)
                     /\ occupied \subseteq Levels

LInv ==
  /\ pc \in {"idle", "build", "ready"}
  /\ pc # "build" => build = NoBuild
  /\ pc # "idle" => Checked(reference_price, band_bps)
  /\ pc = "idle" => reference_price = 0 /\ band_bps = 0
  /\ BuildTyped /\ LadderTyped /\ BuildClimbs /\ BitmapKept

LEMMA NoBuildTyped ==
  /\ NoBuild \in [cur : Int, band_lo : Int, band_hi : Int, segments : Seq(Segment),
                  offset : Nat]
  /\ NoBuild.segments = <<>> /\ Len(NoBuild.segments) = 0 /\ NoBuild.cur = 0
BY DEF NoBuild

LEMMA InitLayout == Init => LInv
<1> SUFFICES ASSUME Init PROVE LInv
  OBVIOUS
<1>1. LadderTyped
  BY DEF Init, LadderTyped, NoLadder
<1> QED
  BY <1>1, NoBuildTyped DEF Init, LInv, BuildTyped, BuildClimbs, BitmapKept

\* What the bounds of the band are.
LowEnd(price, bps) ==
  IF price - Delta(price, bps) < 1 THEN 1 ELSE price - Delta(price, bps)
LoOf(price, bps) == ceil_to_tick(LowEnd(price, bps))
HiOf(price, bps) == floor_to_tick(price + Delta(price, bps))

LEMMA ConfigureDoes ==
  ASSUME NEW price \in References, NEW bps \in Bands, Configure(price, bps)
  PROVE  /\ pc = "idle" /\ pc' = "build" /\ Checked(price, bps)
         /\ reference_price' = price /\ band_bps' = bps
         /\ build' = [cur |-> LoOf(price, bps), band_lo |-> LoOf(price, bps),
                      band_hi |-> HiOf(price, bps), segments |-> <<>>, offset |-> 0]
         /\ UNCHANGED <<ladder, bitmap, occupied>>
<1>1. Checked(price, bps)
  BY AcceptableIs DEF Configure
<1> QED
  BY <1>1 DEF Configure, NoBuild, LoOf, HiOf, LowEnd

LEMMA BoundsTyped ==
  ASSUME NEW price, NEW bps, Checked(price, bps)
  PROVE  /\ LowEnd(price, bps) \in Nat \ {0} /\ LowEnd(price, bps) <= price
         /\ LoOf(price, bps) \in Int
         /\ HiOf(price, bps) \in Nat /\ price <= HiOf(price, bps)
         /\ HiOf(price, bps) <= 2 * price /\ 2 * HiOf(price, bps) <= PriceMax
         /\ HiOf(price, bps) < PriceMax
<1> DEFINE d == Delta(price, bps)
           l == LowEnd(price, bps)
           h == HiOf(price, bps)
<1>1. price \in Nat \ {0} /\ is_tick_aligned(price) /\ PriceMax \in Nat
  BY ScheduleFacts DEF Checked
<1>2. d \in 0 .. price /\ 4 * price <= PriceMax
  BY DeltaIs
<1> HIDE DEF d
<1>3. l \in Nat \ {0} /\ l <= price
  BY <1>1, <1>2 DEF LowEnd, d
<1>4. LoOf(price, bps) \in Int
  <2> HIDE DEF l
  <2>1. tick_size(l) \in Nat \ {0} /\ tick_size(0) \in Nat
    BY <1>3, BracketIs
  <2>2. l % tick_size(l) \in Int
    <3> DEFINE t == tick_size(l)
    <3>1. l \in Int /\ t \in Nat \ {0}
      BY <1>3, <2>1
    <3> HIDE DEF t
    <3>2. l % t \in 0 .. t - 1
      BY <3>1, Divided
    <3>3. l % t \in Int
      BY <3>1, <3>2
    <3> QED
      BY <3>3 DEF t
  <2>3. ceil_to_tick(l) \in Int
    BY <1>3, <2>1, <2>2 DEF ceil_to_tick
  <2> QED
    BY <2>3 DEF LoOf, l
<1>5. h \in Nat /\ h <= price + d /\ price <= h
  <2>1. price + d \in Nat \ {0}
    BY <1>1, <1>2
  <2>2. price <= price + d /\ price \in Int
    BY <1>1, <1>2
  <2>3. h = floor_to_tick(price + d)
    BY DEF HiOf, d
  <2> QED
    BY <1>1, <2>1, <2>2, <2>3, FloorIs
<1> HIDE DEF h
<1>6. h <= 2 * price /\ 2 * h <= PriceMax /\ h < PriceMax
  BY <1>1, <1>2, <1>5
<1> QED
  BY <1>3, <1>4, <1>5, <1>6 DEF h, l

LEMMA AddSegmentDoes ==
  ASSUME LInv, AddSegment
  PROVE  /\ pc = "build" /\ build.cur \in Int /\ build.band_hi \in Int /\ build.offset \in Nat
         /\ build.segments \in Seq(Segment) /\ build.cur <= build.band_hi
         /\ build.band_hi < PriceMax
         /\ LET seg == SegmentFrom(build.cur, build.band_hi, build.offset)
            IN build' = [cur |-> seg.end_price + seg.tick, band_lo |-> build.band_lo,
                         band_hi |-> build.band_hi, segments |-> Append(build.segments, seg),
                         offset |-> Count(build.offset + seg.count)]
         /\ UNCHANGED <<pc, reference_price, band_bps, ladder, bitmap, occupied>>
<1>1. /\ build = [cur |-> build.cur, band_lo |-> build.band_lo, band_hi |-> build.band_hi,
                  segments |-> build.segments, offset |-> build.offset]
      /\ build.cur \in Int /\ build.band_hi \in Int /\ build.offset \in Nat
      /\ build.segments \in Seq(Segment)
  BY DEF LInv, BuildTyped
<1>2. pc = "build" /\ build.cur <= build.band_hi /\ build.band_hi < PriceMax
  BY DEF AddSegment, LInv, BuildClimbs
<1> DEFINE seg == SegmentFrom(build.cur, build.band_hi, build.offset)
<1>3. build' = [build EXCEPT !.segments = Append(@, seg),
                             !.offset = Count(@ + seg.count),
                             !.cur = seg.end_price + seg.tick]
  BY DEF AddSegment
<1>4. UNCHANGED <<pc, reference_price, band_bps, ladder, bitmap, occupied>>
  BY DEF AddSegment
<1> HIDE DEF seg
<1>5. build' = [cur |-> seg.end_price + seg.tick, band_lo |-> build.band_lo,
                band_hi |-> build.band_hi, segments |-> Append(build.segments, seg),
                offset |-> Count(build.offset + seg.count)]
  BY <1>1, <1>3
<1> QED
  BY <1>1, <1>2, <1>4, <1>5 DEF seg

LEMMA Appended ==
  ASSUME NEW S, NEW s \in Seq(S), NEW e \in S
  PROVE  /\ Append(s, e) \in Seq(S) /\ Len(Append(s, e)) = Len(s) + 1
         /\ \A i \in 1 .. Len(s) : Append(s, e)[i] = s[i]
         /\ Append(s, e)[Len(s) + 1] = e
OBVIOUS

LEMMA NextLayout == LInv /\ [Next]_vars => LInv'
<1> SUFFICES ASSUME LInv, [Next]_vars PROVE LInv'
  OBVIOUS
<1>1. ASSUME NEW price \in References, NEW bps \in Bands, Configure(price, bps) PROVE LInv'
  <2>1. /\ pc = "idle" /\ pc' = "build" /\ Checked(price, bps)
        /\ reference_price' = price /\ band_bps' = bps
        /\ build' = [cur |-> LoOf(price, bps), band_lo |-> LoOf(price, bps),
                     band_hi |-> HiOf(price, bps), segments |-> <<>>, offset |-> 0]
        /\ ladder' = ladder /\ bitmap' = bitmap /\ occupied' = occupied
    BY <1>1, ConfigureDoes
  <2>2. /\ LoOf(price, bps) \in Int /\ HiOf(price, bps) \in Nat /\ HiOf(price, bps) < PriceMax
    BY <2>1, BoundsTyped
  <2>3. BuildTyped'
    BY <2>1, <2>2 DEF BuildTyped
  <2>4. BuildClimbs'
    <3>1. Last \in Nat \ {0} /\ BracketOf(LoOf(price, bps)) \in 1 .. Last
      BY <2>2, ScheduleFacts, BracketIs
    <3>2. build'.segments = <<>> /\ build'.cur = LoOf(price, bps)
          /\ build'.band_hi = HiOf(price, bps)
      BY <2>1
    <3> QED
      BY <2>1, <2>2, <3>1, <3>2 DEF BuildClimbs
  <2>5. BitmapKept'
    BY <2>1 DEF LInv, BitmapKept
  <2>6. LadderTyped'
    BY <2>1 DEF LInv, LadderTyped
  <2> QED
    BY <2>1, <2>3, <2>4, <2>5, <2>6 DEF LInv
<1>2. ASSUME AddSegment PROVE LInv'
  <2> DEFINE cur == build.cur
             hi  == build.band_hi
             seg == SegmentFrom(cur, hi, build.offset)
             s2  == Append(build.segments, seg)
             o2  == Count(build.offset + seg.count)
             next == regime_last(cur, hi) + tick_size(cur)
  <2>1. /\ pc = "build" /\ cur \in Int /\ hi \in Int /\ build.offset \in Nat
        /\ build.segments \in Seq(Segment) /\ cur <= hi /\ hi < PriceMax
        /\ build' = [cur |-> seg.end_price + seg.tick, band_lo |-> build.band_lo,
                     band_hi |-> hi, segments |-> s2, offset |-> o2]
        /\ UNCHANGED <<pc, reference_price, band_bps, ladder, bitmap, occupied>>
    BY <1>2, AddSegmentDoes
  <2>2. seg \in Segment /\ seg.tick = tick_size(cur) /\ seg.end_price = regime_last(cur, hi)
    BY <2>1, SegmentTyped
  <2>3. /\ next \in Int /\ (next <= hi => BracketOf(cur) < BracketOf(next))
    BY <2>1, NextCur
  <2> HIDE DEF seg
  <2>4. s2 \in Seq(Segment) /\ Len(s2) = Len(build.segments) + 1
    BY <2>1, <2>2, Appended
  <2>5. o2 \in Nat
    <3>1. build.offset + seg.count \in Int
      BY <2>1, <2>2 DEF Segment
    <3>2. (build.offset + seg.count) % CountMod \in 0 .. CountMod - 1
      BY <3>1, CountAssumption, Divided
    <3> QED
      BY <3>2, CountAssumption DEF Count
  <2>6. build.band_lo \in Int
    BY DEF LInv, BuildTyped
  <2> HIDE DEF s2, o2
  <2>7. build'.cur = next /\ build'.band_hi = hi /\ build'.segments = s2
    BY <2>1, <2>2
  <2>8. BuildTyped'
    BY <2>1, <2>2, <2>3, <2>4, <2>5, <2>6, <2>7 DEF BuildTyped
  <2>9. BuildClimbs'
    <3>1. Len(build.segments) < BracketOf(cur) /\ BracketOf(cur) \in 1 .. Last
          /\ Len(build.segments) \in Nat
      <4>1. BracketOf(cur) \in 1 .. Last
        BY <2>1, BracketIs
      <4>2. Len(build.segments) \in Nat
        BY <2>1
      <4>3. BuildClimbs
        BY DEF LInv
      <4>4. Len(build.segments) < BracketOf(cur)
        BY <2>1, <4>3 DEF BuildClimbs
      <4> QED
        BY <4>1, <4>2, <4>4
    <3>2. Last \in Nat
      BY ScheduleFacts
    <3> DEFINE b == BracketOf(cur)
               n == Len(build.segments)
               c == BracketOf(next)
    <3>3. Len(s2) <= Last /\ (next <= hi => Len(s2) < c)
      <4>1. c \in 1 .. Last /\ (next <= hi => b < c)
        BY <2>3, BracketIs
      <4>2. n \in Nat /\ n < b /\ b \in 1 .. Last /\ Len(s2) = n + 1
        BY <2>4, <3>1
      <4> HIDE DEF b, c, n, next
      <4> QED
        BY <3>2, <4>1, <4>2
    <3>4. Checked(reference_price, band_bps)
      BY <2>1 DEF LInv
    <3> HIDE DEF c, next
    <3> QED
      BY <2>1, <2>7, <3>3, <3>4 DEF BuildClimbs, c
  <2>10. BitmapKept' /\ LadderTyped'
    BY <2>1 DEF LInv, BitmapKept, LadderTyped
  <2> QED
    BY <2>1, <2>8, <2>9, <2>10 DEF LInv
<1>3. ASSUME Commit PROVE LInv'
  <2>1. /\ pc = "build" /\ pc' = "ready" /\ build' = NoBuild
        /\ ladder' = [segments |-> build.segments, total_count |-> build.offset,
                      band_lo |-> build.band_lo, band_hi |-> build.band_hi]
        /\ bitmap' = resize(build.offset)
        /\ UNCHANGED <<reference_price, band_bps, occupied>>
    BY <1>3 DEF Commit
  <2>2. build.offset \in Nat /\ LadderTyped'
    BY <2>1 DEF LInv, BuildTyped, LadderTyped
  <2>3. BuildTyped' /\ BuildClimbs'
    BY <2>1, NoBuildTyped DEF BuildTyped, BuildClimbs
  <2>4. BitmapKept'
    <3>1. occupied' = {} /\ ladder'.total_count = build.offset
      BY <2>1 DEF LInv, BitmapKept
    <3>2. Means(bitmap', ladder'.total_count, {})
      BY <2>1, <2>2, <3>1, ResizeMeans
    <3> QED
      BY <2>1, <3>1, <3>2 DEF BitmapKept
  <2> QED
    BY <2>1, <2>2, <2>3, <2>4 DEF LInv
<1>4. ASSUME pc = "ready", NEW x \in Levels, Occupy(x) \/ Vacate(x) PROVE LInv'
  <2>1. /\ UNCHANGED <<pc, reference_price, band_bps, build, ladder>>
        /\ \/ bitmap' = set(bitmap, x) /\ occupied' = occupied \cup {x}
           \/ bitmap' = clear(bitmap, x) /\ occupied' = occupied \ {x}
    BY <1>4 DEF Occupy, Vacate
  <2>2. /\ ladder.total_count \in Nat /\ Means(bitmap, ladder.total_count, occupied)
        /\ occupied \subseteq Levels /\ x \in 0 .. ladder.total_count - 1
    BY <1>4 DEF LInv, LadderTyped, BitmapKept, Levels
  <2>3. Means(bitmap', ladder.total_count, occupied') /\ occupied' \subseteq Levels
    <3> DEFINE n == ladder.total_count
    <3> HIDE DEF n
    <3>1. n \in Nat /\ Means(bitmap, n, occupied) /\ x \in 0 .. n - 1
      BY <2>2 DEF n
    <3>2. CASE bitmap' = set(bitmap, x) /\ occupied' = occupied \cup {x}
      <4>1. Means(set(bitmap, x), n, occupied \cup {x})
        BY <3>1, SetMeans
      <4> QED
        BY <1>4, <2>2, <3>2, <4>1 DEF n
    <3>3. CASE bitmap' = clear(bitmap, x) /\ occupied' = occupied \ {x}
      <4>1. Means(clear(bitmap, x), n, occupied \ {x})
        BY <3>1, ClearMeans
      <4> QED
        BY <2>2, <3>3, <4>1 DEF n
    <3> QED
      BY <2>1, <3>2, <3>3
  <2>4. BitmapKept'
    BY <1>4, <2>1, <2>3 DEF BitmapKept, Levels
  <2> QED
    BY <2>1, <2>4 DEF LInv, BuildTyped, LadderTyped, BuildClimbs
<1>5. ASSUME UNCHANGED vars PROVE LInv'
  BY <1>5 DEF vars, LInv, BuildTyped, LadderTyped, BuildClimbs, BitmapKept, Levels
<1> QED
  BY <1>1, <1>2, <1>3, <1>4, <1>5 DEF Next

LEMMA LayoutInvariant == Spec => []LInv
BY InitLayout, NextLayout, PTL DEF Spec

(***************************************************************************)
(* build pushes at most one segment per bracket of the schedule, for any   *)
(* schedule that passes the static_asserts of tick_table.cpp: its loop     *)
(* ends and no push_back allocates (price_ladder.cpp).                     *)
(***************************************************************************)
THEOREM OneSegmentPerBracketHolds == Spec => []OneSegmentPerBracket
<1>1. LInv => OneSegmentPerBracket
  <2> SUFFICES ASSUME LInv PROVE Len(build.segments) <= Len(kTickSchedule)
    BY DEF OneSegmentPerBracket
  <2>1. CASE pc = "build"
    BY <2>1 DEF LInv, BuildClimbs, Last
  <2>2. CASE pc # "build"
    <3>1. Len(build.segments) = 0
      BY <2>2, NoBuildTyped DEF LInv
    <3> QED
      BY <3>1, ScheduleFacts DEF Last
  <2> QED
    BY <2>1, <2>2
<1> QED
  BY <1>1, LayoutInvariant, PTL

\* The nearest member is one number.
LEMMA NearestBelowIs ==
  ASSUME NEW bits, bits \subseteq Nat, NEW start \in Int, NEW found, NearestBelow(bits, start, found)
  PROVE  found = Book!find_highest_le(bits, start)
<1> DEFINE S == {b \in bits : b <= start}
<1>1. Book!find_highest_le(bits, start) = IF S = {} THEN -1 ELSE Max(S)
  BY DEF Book!find_highest_le, Book!Max, Max
<1>2. CASE found = -1 /\ \A x \in bits : x > start
  <2>1. S = {}
    <3>1. ASSUME NEW x \in bits PROVE ~(x <= start)
      <4>1. x \in Int /\ x > start
        BY <1>2
      <4> QED
        BY <4>1
    <3> QED
      BY <3>1
  <2> QED
    BY <1>1, <1>2, <2>1
<1>3. CASE found \in bits /\ found <= start /\ \A x \in bits : x <= start => x <= found
  <2>1. found \in S /\ \A x \in S : found >= x
    BY <1>3
  <2>2. S \subseteq Nat /\ found \in Nat
    BY <1>3
  <2> HIDE DEF S
  <2>3. Max(S) \in S /\ \A x \in S : x <= Max(S)
    BY <2>1, <2>2, MaxOf
  <2>4. found = Max(S)
    <3> DEFINE m == Max(S)
    <3>1. m \in S /\ m \in Nat
      BY <2>2, <2>3
    <3>2. m <= found /\ found <= m
      BY <2>1, <2>2, <2>3, <3>1
    <3> HIDE DEF m
    <3>3. m = found
      BY <2>2, <3>1, <3>2
    <3> QED
      BY <3>3 DEF m
  <2> QED
    BY <1>1, <2>1, <2>4
<1> QED
  BY <1>2, <1>3 DEF NearestBelow

LEMMA NearestAboveIs ==
  ASSUME NEW bits, bits \subseteq Nat, NEW start \in Int, NEW found, NearestAbove(bits, start, found)
  PROVE  found = Book!find_lowest_ge(bits, start)
<1> DEFINE S == {b \in bits : b >= start}
<1>1. Book!find_lowest_ge(bits, start) = IF S = {} THEN -1 ELSE Min(S)
  BY DEF Book!find_lowest_ge, Book!Min, Min
<1>2. CASE found = -1 /\ \A x \in bits : x < start
  <2>1. S = {}
    <3>1. ASSUME NEW x \in bits PROVE ~(x >= start)
      <4>1. x \in Int /\ x < start
        BY <1>2
      <4> QED
        BY <4>1
    <3> QED
      BY <3>1
  <2> QED
    BY <1>1, <1>2, <2>1
<1>3. CASE found \in bits /\ found >= start /\ \A x \in bits : x >= start => x >= found
  <2>1. found \in S /\ \A x \in S : x >= found
    BY <1>3
  <2>2. S \subseteq Nat /\ found \in Nat
    BY <1>3
  <2> HIDE DEF S
  <2>3. Min(S) \in S /\ \A x \in S : Min(S) <= x
    BY <2>1, <2>2, MinOf
  <2>4. found = Min(S)
    <3> DEFINE m == Min(S)
    <3>1. m \in S /\ m \in Nat
      BY <2>2, <2>3
    <3>2. m <= found /\ found <= m
      BY <2>1, <2>2, <2>3, <3>1
    <3> HIDE DEF m
    <3>3. m = found
      BY <2>2, <3>1, <3>2
    <3> QED
      BY <3>3 DEF m
  <2> QED
    BY <1>1, <2>1, <2>4
<1> QED
  BY <1>2, <1>3 DEF NearestAbove

(***************************************************************************)
(* find_highest_le and find_lowest_ge, for every width of the word: from   *)
(* every index the book starts them at they find the nearest occupied      *)
(* level, through empty words and at the ends of a word (level_bitset.hpp).*)
(***************************************************************************)
THEOREM ScansFindNearestHolds == Spec => []ScansFindNearest
<1>1. LInv => ScansFindNearest
  <2> SUFFICES ASSUME LInv, pc = "ready", NEW start \in -1 .. ladder.total_count
               PROVE  /\ start < ladder.total_count =>
                           find_highest_le(bitmap, start) = Book!find_highest_le(occupied, start)
                      /\ find_lowest_ge(bitmap, start) = Book!find_lowest_ge(occupied, start)
    BY DEF ScansFindNearest
  <2> DEFINE n == ladder.total_count
  <2>1. n \in Nat /\ Means(bitmap, n, occupied) /\ occupied \subseteq 0 .. n - 1
    BY DEF LInv, LadderTyped, BitmapKept, Levels
  <2> HIDE DEF n
  <2>2. occupied \subseteq Nat /\ start \in Int /\ start \in -1 .. n
    BY <2>1 DEF n
  <2>3. NearestAbove(occupied, start, find_lowest_ge(bitmap, start))
    BY <2>1, <2>2, LowestGeNearest
  <2>4. ASSUME start < n
        PROVE  NearestBelow(occupied, start, find_highest_le(bitmap, start))
    <3>1. start \in -1 .. n - 1
      BY <2>1, <2>2, <2>4
    <3> QED
      BY <2>1, <3>1, HighestLeNearest
  <2>5. find_lowest_ge(bitmap, start) = Book!find_lowest_ge(occupied, start)
    BY <2>2, <2>3, NearestAboveIs
  <2>6. ASSUME start < n
        PROVE  find_highest_le(bitmap, start) = Book!find_highest_le(occupied, start)
    BY <2>2, <2>4, <2>6, NearestBelowIs
  <2> QED
    BY <2>5, <2>6 DEF n
<1> QED
  BY <1>1, LayoutInvariant, PTL

-----------------------------------------------------------------------------
(***************************************************************************)
(* Counting: the index of a price is the number of prices below it.        *)
(***************************************************************************)
Rank(S, x) == Cardinality({p \in S : p < x})

FiniteNumbers(S) == S \subseteq Nat /\ IsFiniteSet(S)

LEMMA RankIs ==
  ASSUME NEW S, FiniteNumbers(S), NEW x \in Int
  PROVE  /\ Rank(S, x) \in Nat /\ Rank(S, x) <= Cardinality(S) /\ Cardinality(S) \in Nat
         /\ \A y \in Int : x <= y => Rank(S, x) <= Rank(S, y)
         /\ \A y \in Int : x < y /\ x \in S => Rank(S, x) < Rank(S, y)
         /\ x \in S => Rank(S, x) < Cardinality(S)
<1> DEFINE B(y) == {p \in S : p < y}
<1>1. ASSUME NEW y \in Int
      PROVE  IsFiniteSet(B(y)) /\ Cardinality(B(y)) \in Nat
             /\ Cardinality(B(y)) <= Cardinality(S)
  <2>1. B(y) \in SUBSET S
    OBVIOUS
  <2> HIDE DEF B
  <2>2. IsFiniteSet(B(y)) /\ Cardinality(B(y)) <= Cardinality(S)
    BY <2>1, FS_Subset DEF FiniteNumbers
  <2> QED
    BY <2>2, FS_CardinalityType
<1>2. Cardinality(S) \in Nat
  BY FS_CardinalityType DEF FiniteNumbers
<1>3. ASSUME NEW y \in Int, x <= y PROVE Cardinality(B(x)) <= Cardinality(B(y))
  <2>1. B(x) \in SUBSET B(y)
    <3>1. ASSUME NEW p \in S, p < x PROVE p < y
      BY <1>3, <3>1 DEF FiniteNumbers
    <3> QED
      BY <3>1
  <2> HIDE DEF B
  <2> QED
    BY <1>1, <1>3, <2>1, FS_Subset
<1>4. ASSUME NEW y \in Int, x < y, x \in S PROVE Cardinality(B(x)) < Cardinality(B(y))
  <2>1. B(x) \in SUBSET B(y) /\ x \in B(y) /\ x \notin B(x)
    <3>1. ASSUME NEW p \in S, p < x PROVE p < y
      BY <1>4, <3>1 DEF FiniteNumbers
    <3>2. x \in S /\ x < y /\ ~(x < x)
      BY <1>4
    <3> QED
      BY <3>1, <3>2
  <2> HIDE DEF B
  <2>2. B(x) # B(y)
    BY <2>1
  <2>3. Cardinality(B(x)) <= Cardinality(B(y)) /\ Cardinality(B(x)) # Cardinality(B(y))
    BY <1>1, <1>4, <2>1, <2>2, FS_Subset
  <2> QED
    BY <1>1, <1>4, <2>3
<1>5. ASSUME x \in S PROVE Cardinality(B(x)) < Cardinality(S)
  <2>1. B(x) \in SUBSET S /\ x \notin B(x)
    BY DEF FiniteNumbers
  <2> HIDE DEF B
  <2>2. B(x) # S
    BY <1>5, <2>1
  <2>3. Cardinality(B(x)) <= Cardinality(S) /\ Cardinality(B(x)) # Cardinality(S)
    BY <2>1, <2>2, FS_Subset DEF FiniteNumbers
  <2> QED
    BY <1>1, <1>2, <2>3
<1>6. \A y : Rank(S, y) = Cardinality(B(y))
  BY DEF Rank
<1> HIDE DEF B
<1> QED
  BY <1>1, <1>2, <1>3, <1>4, <1>5, <1>6

\* The next price has the next number.
LEMMA RankNext ==
  ASSUME NEW S, FiniteNumbers(S), NEW x \in S, NEW y \in Int, x < y,
         \A p \in S : p <= x \/ p >= y
  PROVE  Rank(S, y) = Rank(S, x) + 1
<1>1. {p \in S : p < y} = {p \in S : p < x} \cup {x}
  <2>1. ASSUME NEW p \in S PROVE p < y <=> (p < x \/ p = x)
    BY DEF FiniteNumbers
  <2> QED
    BY <2>1
<1> DEFINE B == {p \in S : p < x}
<1>2. B \in SUBSET S /\ x \notin B
  BY DEF FiniteNumbers
<1> HIDE DEF B
<1>3. IsFiniteSet(B)
  BY <1>2, FS_Subset DEF FiniteNumbers
<1>4. Cardinality(B \cup {x}) = Cardinality(B) + 1
  BY <1>2, <1>3, FS_AddElement
<1> QED
  BY <1>1, <1>4 DEF Rank, B

LEMMA RankEnds ==
  ASSUME NEW S, FiniteNumbers(S), NEW x \in Int
  PROVE  /\ (\A p \in S : p < x) => Rank(S, x) = Cardinality(S)
         /\ (\A p \in S : p >= x) => Rank(S, x) = 0
<1>1. ASSUME \A p \in S : p < x PROVE Rank(S, x) = Cardinality(S)
  <2>1. {p \in S : p < x} = S
    BY <1>1
  <2> QED
    BY <2>1 DEF Rank
<1>2. ASSUME \A p \in S : p >= x PROVE Rank(S, x) = 0
  <2>1. ASSUME NEW p \in S PROVE ~(p < x)
    <3>1. p \in Int /\ p >= x
      BY <1>2 DEF FiniteNumbers
    <3> QED
      BY <3>1
  <2>2. {p \in S : p < x} = {}
    BY <2>1
  <2> QED
    BY <2>2, FS_EmptySet DEF Rank
<1> QED
  BY <1>1, <1>2

\* Every number is the number of a price, and of one price.
LEMMA RankOnto ==
  ASSUME NEW S, FiniteNumbers(S), NEW n \in 0 .. Cardinality(S) - 1
  PROVE  \E p \in S : Rank(S, p) = n
<1> DEFINE N == Cardinality(S)
           T == 0 .. N - 1
           f == [p \in S |-> Rank(S, p)]
<1>1. N \in Nat /\ IsFiniteSet(S)
  BY FS_CardinalityType DEF FiniteNumbers
<1>2. IsFiniteSet(T) /\ Cardinality(T) = N
  <2> HIDE DEF N
  <2>1. 0 \in Int /\ N - 1 \in Int
    BY <1>1
  <2> QED
    BY <1>1, <2>1, FS_Interval
<1>3. ASSUME NEW p \in S PROVE Rank(S, p) \in T
  <2>1. p \in Int
    BY DEF FiniteNumbers
  <2>2. Rank(S, p) \in Nat /\ Rank(S, p) < N
    BY <2>1, RankIs
  <2> HIDE DEF N
  <2> QED
    BY <1>1, <2>2
<1>4. ASSUME NEW p \in S, NEW q \in S, Rank(S, p) = Rank(S, q) PROVE p = q
  <2>1. p \in Int /\ q \in Int
    BY DEF FiniteNumbers
  <2>2. p < q => Rank(S, p) < Rank(S, q)
    BY <2>1, RankIs
  <2>3. q < p => Rank(S, q) < Rank(S, p)
    BY <2>1, RankIs
  <2>4. Rank(S, p) \in Nat /\ Rank(S, q) \in Nat
    BY <2>1, RankIs
  <2> QED
    BY <1>4, <2>1, <2>2, <2>3, <2>4
<1> HIDE DEF T, N
<1>5. f \in Injection(S, T)
  BY <1>3, <1>4 DEF Injection, IsInjective
<1>6. f \in Surjection(S, T)
  <2> HIDE DEF f
  <2> QED
    BY <1>1, <1>2, <1>5, FS_Injection DEF N
<1>7. n \in T
  BY DEF T, N
<1>8. PICK p \in S : f[p] = n
  BY <1>6, <1>7 DEF Surjection
<1> QED
  BY <1>8

LEMMA RankTells ==
  ASSUME NEW S, FiniteNumbers(S), NEW p \in S, NEW q \in S, Rank(S, p) = Rank(S, q)
  PROVE  p = q
<1>1. p \in Int /\ q \in Int
  BY DEF FiniteNumbers
<1>2. p < q => Rank(S, p) < Rank(S, q)
  BY <1>1, RankIs
<1>3. q < p => Rank(S, q) < Rank(S, p)
  BY <1>1, RankIs
<1>4. Rank(S, p) \in Nat /\ Rank(S, q) \in Nat
  BY <1>1, RankIs
<1> QED
  BY <1>1, <1>2, <1>3, <1>4

-----------------------------------------------------------------------------
(***************************************************************************)
(* The band.  Its prices are the aligned ones between the two rounded      *)
(* bounds; rounding never takes a price out of the band or into it.        *)
(***************************************************************************)
\* What build is asked for: the prices S from lo to hi.
BandOf(S, lo, hi) ==
  /\ FiniteNumbers(S)
  /\ lo \in S /\ hi \in S /\ hi < PriceMax /\ 2 * hi <= PriceMax
  /\ \A p \in Int : p \in S <=> is_tick_aligned(p) /\ lo <= p /\ p <= hi

Within(price, bps, p) ==
  (price - p) * kBpsPerUnit <= price * bps /\ (p - price) * kBpsPerUnit <= price * bps

LEMMA BandIs ==
  ASSUME EdgesOnBothTicks, NEW price, NEW bps, Checked(price, bps),
         NEW S, S = {p \in -1 .. 2 * price + 2 : is_tick_aligned(p) /\ Within(price, bps, p)}
  PROVE  BandOf(S, LoOf(price, bps), HiOf(price, bps))
<1> DEFINE d  == Delta(price, bps)
           l  == LowEnd(price, bps)
           lo == LoOf(price, bps)
           hi == HiOf(price, bps)
<1>1. price \in Nat \ {0} /\ is_tick_aligned(price)
  BY DEF Checked
<1>2. d \in 0 .. price /\ \A x \in Int : x * kBpsPerUnit <= price * bps <=> x <= d
  BY DeltaIs
<1>3. /\ l \in Nat \ {0} /\ l <= price /\ lo \in Int /\ hi \in Nat /\ price <= hi
      /\ hi < PriceMax /\ 2 * hi <= PriceMax
  BY BoundsTyped
<1>4. l = IF price - d < 1 THEN 1 ELSE price - d
  BY DEF LowEnd
<1>5. /\ lo \in Nat /\ lo >= l /\ is_tick_aligned(lo)
      /\ \A q \in Int : is_tick_aligned(q) /\ q >= l => q >= lo
  <2>1. lo = ceil_to_tick(l)
    BY DEF LoOf
  <2> HIDE DEF l, lo
  <2> QED
    BY <1>3, <2>1, CeilIs
<1>6. /\ hi <= price + d /\ is_tick_aligned(hi)
      /\ \A q \in Int : is_tick_aligned(q) /\ q <= price + d => q <= hi
  <2> DEFINE e == price + d
  <2>1. e \in Nat \ {0}
    BY <1>1, <1>2
  <2>2. hi = floor_to_tick(e)
    BY DEF HiOf
  <2> HIDE DEF e, hi
  <2>3. /\ hi <= e /\ BracketOf(hi) = BracketOf(e) /\ hi % tick_size(e) = 0
        /\ \A q \in Int : is_tick_aligned(q) /\ q <= e => q <= hi
    BY <2>1, <2>2, FloorIs
  <2>4. tick_size(hi) = tick_size(e)
    BY <1>3, <2>1, <2>3, BracketIs
  <2>5. is_tick_aligned(hi)
    <3>1. hi > 0
      BY <1>1, <1>3
    <3> QED
      BY <2>3, <2>4, <3>1 DEF is_tick_aligned
  <2> QED
    BY <2>3, <2>5 DEF e
<1>7. ASSUME NEW p \in Int
      PROVE  Within(price, bps, p) <=> price - p <= d /\ p - price <= d
  <2>1. price - p \in Int /\ p - price \in Int
    BY <1>1
  <2> HIDE DEF d
  <2> QED
    BY <1>2, <2>1 DEF Within
<1> HIDE DEF d, l, lo, hi
<1>8. ASSUME NEW p \in Int
      PROVE  p \in S <=> is_tick_aligned(p) /\ lo <= p /\ p <= hi
  <2>1. ASSUME p \in S PROVE is_tick_aligned(p) /\ lo <= p /\ p <= hi
    <3>1. is_tick_aligned(p) /\ price - p <= d /\ p - price <= d
      BY <1>7, <2>1
    <3>2. p > 0
      BY <3>1 DEF is_tick_aligned
    <3>3. p >= l /\ p <= price + d
      BY <1>1, <1>2, <1>4, <3>1, <3>2
    <3> QED
      BY <1>5, <1>6, <3>1, <3>3
  <2>2. ASSUME is_tick_aligned(p), lo <= p, p <= hi PROVE p \in S
    <3>1. p >= l /\ p <= price + d
      BY <1>1, <1>2, <1>3, <1>5, <1>6, <2>2
    <3>2. price - p <= d /\ p - price <= d /\ p \in -1 .. 2 * price + 2
      BY <1>1, <1>2, <1>3, <1>4, <3>1
    <3> QED
      BY <1>7, <2>2, <3>2
  <2> QED
    BY <2>1, <2>2
<1>9. lo \in S /\ hi \in S
  <2>1. lo <= price
    BY <1>1, <1>3, <1>5
  <2>2. lo <= hi
    BY <1>1, <1>3, <1>5, <2>1
  <2> QED
    BY <1>3, <1>5, <1>6, <1>8, <2>2
<1>10. FiniteNumbers(S)
  <2>1. S \subseteq Nat
    <3>1. ASSUME NEW p \in S PROVE p \in Nat
      <4>1. p \in Int /\ p > 0
        BY <1>1 DEF is_tick_aligned
      <4> QED
        BY <4>1
    <3> QED
      BY <3>1
  <2>2. \A p \in S : p <= hi
    BY <1>8, <2>1
  <2>3. IsFiniteSet(S)
    BY <1>3, <2>1, <2>2, FS_BoundedSetOfNaturals
  <2> QED
    BY <2>1, <2>3 DEF FiniteNumbers
<1> QED
  BY <1>3, <1>8, <1>9, <1>10 DEF BandOf, lo, hi

-----------------------------------------------------------------------------
(***************************************************************************)
(* One segment.                                                            *)
(***************************************************************************)
LEMMA AlignedIs ==
  ASSUME NEW p \in Int
  PROVE  is_tick_aligned(p) <=> p > 0 /\ p % tick_size(p) = 0
BY DEF is_tick_aligned

\* The prices of the bracket of cur, from cur to the last one of the segment.
LEMMA LastIs ==
  ASSUME EdgesOnBothTicks, NEW S, NEW lo, NEW hi, BandOf(S, lo, hi), NEW cur \in S
  PROVE  LET last == regime_last(cur, hi)
             t    == tick_size(cur)
         IN /\ t \in Nat \ {0} /\ cur \in Nat \ {0} /\ hi \in Nat /\ cur <= hi
            /\ last \in S /\ cur <= last /\ last <= hi
            /\ cur % t = 0 /\ last % t = 0
            /\ \A p \in Int : cur <= p /\ p <= last => (p \in S <=> p % t = 0)
            /\ last + t > hi \/ last + t \in S
            /\ \A p \in S : p < last + t => p <= last
            /\ last + t <= PriceMax
<1> DEFINE last == regime_last(cur, hi)
           t == tick_size(cur)
           b == BracketOf(cur)
           u == Upper(b)
<1>1. /\ \A p \in Int : p \in S <=> is_tick_aligned(p) /\ lo <= p /\ p <= hi
      /\ S \subseteq Nat /\ lo \in Nat /\ hi \in Nat /\ hi \in S /\ hi < PriceMax
      /\ 2 * hi <= PriceMax
  BY DEF BandOf, FiniteNumbers
<1>2. cur \in Nat \ {0} /\ is_tick_aligned(cur) /\ lo <= cur /\ cur <= hi /\ cur % t = 0
  BY <1>1, AlignedIs
<1>3. /\ t \in Nat \ {0} /\ t = TickIn(b) /\ b \in 1 .. Last /\ next_breakpoint(cur) = u
      /\ u \in Nat /\ Last \in Nat /\ PriceMax \in Nat /\ cur < u
      /\ (b = Last => u = PriceMax) /\ (b # Last => u < PriceMax)
  <2>1. b \in 1 .. Last /\ next_breakpoint(cur) = u /\ t \in Nat \ {0} /\ t = TickIn(b)
    BY <1>2, BracketIs
  <2>2. cur < PriceMax /\ PriceMax \in Nat
    BY <1>1, <1>2, ScheduleFacts
  <2>3. cur < u
    BY <1>2, <2>2, BracketIs
  <2>4. u \in Nat /\ Last \in Nat /\ Last \in 1 .. Last /\ Upper(Last) = PriceMax
    BY <2>1, ScheduleFacts
  <2>5. b # Last => u < PriceMax
    <3>1. b # Last => b < Last
      BY <2>1, <2>4
    <3> QED
      BY <2>1, <2>4, <3>1, ScheduleFacts
  <2>6. b = Last => u = PriceMax
    BY ScheduleFacts
  <2> QED
    BY <2>1, <2>2, <2>3, <2>4, <2>5, <2>6
<1>4. b # Last => u % t = 0
  BY <1>3, ScheduleFacts DEF EdgesOnBothTicks, Upper, TickIn, Last
<1>5. b # Last => cur + t <= u
  <2> HIDE DEF t, u
  <2> QED
    BY <1>2, <1>3, <1>4, MultiplesApart
\* Prices in one bracket with cur are on one tick.
<1>6. ASSUME NEW p \in Int, cur <= p, p < u \/ b = Last
      PROVE  BracketOf(p) = b /\ tick_size(p) = t
             /\ (is_tick_aligned(p) <=> p % t = 0)
  <2>1. BracketOf(p) = b
    BY <1>2, <1>6, SameBracket
  <2>2. tick_size(p) = t
    BY <1>3, <2>1, BracketIs
  <2>3. p > 0
    BY <1>2, <1>6
  <2> QED
    BY <2>1, <2>2, <2>3, AlignedIs
<1>7. last = IF u = PriceMax \/ hi < u - t THEN hi ELSE u - t
  BY <1>3 DEF regime_last
<1> HIDE DEF last, t, b, u
<1>8. /\ last \in Int /\ cur <= last /\ last <= hi /\ last % t = 0 /\ (last < u \/ b = Last)
      /\ \/ last + t > hi /\ (last + t <= u \/ b = Last)
         \/ b # Last /\ last + t = u
  <2>1. CASE u = PriceMax \/ hi < u - t
    <3>1. last = hi
      BY <1>7, <2>1
    <3>2. hi < u \/ b = Last
      BY <1>1, <1>3, <2>1
    <3>3. hi % t = 0
      BY <1>1, <1>2, <1>6, <3>2
    <3>4. last + t <= u \/ b = Last
      BY <1>1, <1>3, <2>1, <3>1
    <3> QED
      BY <1>1, <1>2, <1>3, <3>1, <3>2, <3>3, <3>4
  <2>2. CASE ~(u = PriceMax \/ hi < u - t)
    <3>1. last = u - t /\ b # Last
      BY <1>3, <1>7, <2>2
    <3>2. t % t = 0
      <4>1. t = t * 1
        BY <1>3
      <4> QED
        BY <1>3, <4>1, MultipleIs
    <3>3. (u - t) % t = 0
      BY <1>3, <1>4, <3>1, <3>2, MultiplesAdd
    <3> QED
      BY <1>1, <1>2, <1>3, <1>5, <2>2, <3>1, <3>3
  <2> QED
    BY <2>1, <2>2
<1>9. ASSUME NEW p \in Int, cur <= p, p <= last PROVE p \in S <=> p % t = 0
  <2>1. p < u \/ b = Last
    BY <1>3, <1>8, <1>9
  <2>2. is_tick_aligned(p) <=> p % t = 0
    BY <1>6, <1>9, <2>1
  <2>3. lo <= p /\ p <= hi
    BY <1>1, <1>2, <1>8, <1>9
  <2> QED
    BY <1>1, <2>2, <2>3
<1>10. last \in S
  BY <1>8, <1>9
<1>11. last + t > hi \/ last + t \in S
  <2> SUFFICES ASSUME ~(last + t > hi) PROVE last + t \in S
    OBVIOUS
  <2>1. b # Last /\ last + t = u
    BY <1>8
  <2>2. is_tick_aligned(u)
    <3>1. u > 0
      BY <1>2, <1>3
    <3> QED
      BY <1>3, <2>1, <3>1, EdgeUp DEF u
  <2>3. lo <= u /\ u <= hi
    BY <1>1, <1>2, <1>3, <1>8, <2>1
  <2> QED
    BY <1>1, <1>3, <2>1, <2>2, <2>3
<1>12. ASSUME NEW p \in S, p < last + t PROVE p <= last
  <2> SUFFICES ASSUME p > last PROVE FALSE
    BY <1>1, <1>8
  <2>1. p \in Int /\ p <= hi /\ is_tick_aligned(p) /\ cur <= p
    BY <1>1, <1>2, <1>8
  <2>2. p < u \/ b = Last
    BY <1>3, <1>8, <1>12, <2>1
  <2>3. p % t = 0
    BY <1>6, <2>1, <2>2
  <2>4. last + t <= p
    BY <1>3, <1>8, <2>1, <2>3, MultiplesApart
  <2> QED
    BY <1>3, <1>8, <1>12, <2>1, <2>4
<1>13. last + t <= PriceMax
  <2>1. t <= cur
    <3>1. 0 % t = 0
      <4>1. 0 = t * 0
        BY <1>3
      <4> QED
        BY <1>3, <4>1, MultipleIs
    <3>2. 0 + t <= cur
      BY <1>2, <1>3, <3>1, MultiplesApart
    <3> QED
      BY <1>3, <3>2
  <2> QED
    BY <1>1, <1>2, <1>3, <1>8, <2>1
<1> QED
  BY <1>1, <1>2, <1>3, <1>8, <1>9, <1>10, <1>11, <1>12, <1>13 DEF last, t

\* From one price of the segment to the next the number goes up by one.
LEMMA RankClimbs ==
  ASSUME NEW S, FiniteNumbers(S), NEW t \in Nat \ {0}, NEW cur \in S, NEW last \in S,
         cur % t = 0, last % t = 0, cur <= last,
         \A p \in Int : cur <= p /\ p <= last => (p \in S <=> p % t = 0),
         \A p \in S : p < last + t => p <= last
  PROVE  \A i \in Nat : cur + t * i <= last + t => Rank(S, cur + t * i) = Rank(S, cur) + i
<1> DEFINE Good == {i \in Nat : cur + t * i <= last + t =>
                                  Rank(S, cur + t * i) = Rank(S, cur) + i}
<1>1. cur \in Nat /\ last \in Nat
  BY DEF FiniteNumbers
<1>2. 0 \in Good
  <2>1. cur + t * 0 = cur /\ Rank(S, cur) + 0 = Rank(S, cur)
    BY <1>1, RankIs
  <2> QED
    BY <2>1
<1>3. ASSUME NEW i \in Nat, i \in Good PROVE i + 1 \in Good
  <2> DEFINE x == cur + t * i
             y == cur + t * (i + 1)
  <2>1. y = x + t /\ x \in Nat /\ y \in Nat /\ cur <= x
    <3> DEFINE m == t * i
    <3>1. m \in Nat /\ t * (i + 1) = m + t
      OBVIOUS
    <3> HIDE DEF m
    <3>2. cur + (m + t) = cur + m + t /\ cur + m \in Nat /\ cur <= cur + m
          /\ cur + m + t \in Nat
      BY <1>1, <3>1
    <3> QED
      BY <3>1, <3>2 DEF m
  <2>2. x % t = 0
    <3>1. t * i \in Int /\ (t * i) % t = 0
      <4> DEFINE m == t * i
      <4>1. m \in Int
        OBVIOUS
      <4>2. \E k \in Int : m = t * k
        BY DEF m
      <4> HIDE DEF m
      <4>3. m % t = 0
        BY <4>1, <4>2, MultipleIs
      <4> QED
        BY <4>1, <4>3 DEF m
    <3> DEFINE m == t * i
    <3> HIDE DEF m
    <3>2. m \in Int /\ m % t = 0
      BY <3>1 DEF m
    <3>3. cur \in Int
      BY <1>1
    <3>4. (cur + m) % t = 0
      BY <3>2, <3>3, MultiplesAdd
    <3> QED
      BY <3>4 DEF m
  <2>3. i \in Nat /\ (x <= last + t => Rank(S, x) = Rank(S, cur) + i)
    BY <1>3
  <2>4. i + 1 \in Nat
    OBVIOUS
  <2> HIDE DEF x, y
  <2>5. ASSUME y <= last + t PROVE Rank(S, y) = Rank(S, cur) + (i + 1)
    <3>1. x <= last /\ x <= last + t /\ x < y
      BY <1>1, <2>1, <2>5
    <3>2. x \in S
      BY <2>1, <2>2, <3>1
    <3>3. ASSUME NEW p \in S PROVE p <= x \/ p >= y
      <4> SUFFICES ASSUME ~(p <= x), ~(p >= y) PROVE FALSE
        OBVIOUS
      <4>1. p \in Nat /\ p > x /\ p < y
        BY <2>1 DEF FiniteNumbers
      <4>2. p < last + t
        BY <1>1, <2>1, <2>5, <4>1
      <4>3. p <= last /\ cur <= p
        BY <1>1, <2>1, <4>1, <4>2
      <4>4. p % t = 0
        BY <4>1, <4>3
      <4>5. x \in Int /\ p \in Int /\ x < p
        BY <2>1, <4>1
      <4>6. x + t <= p
        BY <2>2, <4>4, <4>5, MultiplesApart
      <4> QED
        BY <2>1, <4>1, <4>6
    <3>4. Rank(S, y) = Rank(S, x) + 1
      <4>1. y \in Int /\ x < y
        BY <2>1, <3>1
      <4> QED
        BY <3>2, <3>3, <4>1, RankNext
    <3>5. Rank(S, cur) \in Nat
      BY <1>1, RankIs
    <3> QED
      BY <2>3, <3>1, <3>4, <3>5
  <2> QED
    BY <2>4, <2>5 DEF y
<1> HIDE DEF Good
<1>4. \A n \in Nat : n \in Good
  BY <1>2, <1>3, Induction
<1> QED
  BY <1>4 DEF Good

\* A segment holds the prices of the band between its ends, and numbers them.
Laid(S, s) ==
  /\ s.start_price \in S /\ s.end_price \in S /\ s.tick \in Nat \ {0} /\ s.count \in Nat
  /\ s.index_offset = Rank(S, s.start_price)
  /\ s.index_offset + s.count = Rank(S, s.end_price) + 1
  /\ \A p \in Int : s.start_price <= p /\ p <= s.end_price =>
       (p \in S <=> (p - s.start_price) % s.tick = 0)
  /\ \A p \in S : s.start_price <= p /\ p <= s.end_price =>
       Rank(S, p) = s.index_offset + (p - s.start_price) \div s.tick
  /\ \A i \in Nat : i < s.count =>
       /\ s.start_price + i * s.tick \in S
       /\ Rank(S, s.start_price + i * s.tick) = s.index_offset + i

LEMMA MultipleUpTo ==
  ASSUME NEW t \in Nat \ {0}, NEW x \in Int, NEW y \in Int, x % t = 0, y % t = 0, x <= y
  PROVE  LET m == (y - x) \div t
         IN /\ m \in Nat /\ y = x + t * m /\ (y - x) % t = 0
            /\ \A i \in Nat : i <= m => /\ x + t * i \in Int /\ (x + t * i) % t = 0
                                        /\ x <= x + t * i /\ x + t * i <= y
<1> DEFINE d == y - x
           m == d \div t
<1>1. d \in Nat /\ d % t = 0
  <2>1. d \in Nat
    OBVIOUS
  <2>2. (y - x) % t = 0
    BY MultiplesAdd
  <2> QED
    BY <2>1, <2>2
<1>2. m \in Int /\ d = t * m + (d % t)
  BY <1>1, Divided
<1> DEFINE tm == t * m
<1>3. tm \in Int /\ d = tm
  <2>1. tm \in Int
    BY <1>2
  <2>2. d = tm + (d % t)
    BY <1>2
  <2> HIDE DEF tm, d
  <2> QED
    BY <1>1, <2>1, <2>2
<1>4. m \in Nat
  <2> HIDE DEF d, m
  <2>1. m < 0 => t * m < 0
    BY <1>2
  <2> QED
    BY <1>1, <1>2, <1>3, <2>1
<1>5. y = x + tm
  <2> HIDE DEF tm
  <2> QED
    BY <1>3
<1>6. ASSUME NEW i \in Nat, i <= m
      PROVE  /\ x + t * i \in Int /\ (x + t * i) % t = 0 /\ x <= x + t * i /\ x + t * i <= y
  <2> HIDE DEF d, m
  <2> DEFINE a == t * i
             b == t * (m - i)
  <2>1. a \in Nat /\ b \in Nat /\ tm = a + b /\ (\E k \in Int : a = t * k)
    <3>1. m - i \in Nat
      BY <1>4, <1>6
    <3> QED
      BY <1>4, <3>1
  <2> HIDE DEF a, b, tm
  <2>2. a % t = 0
    BY <2>1, MultipleIs
  <2>3. a \in Int
    BY <2>1
  <2>4. (x + a) % t = 0
    BY <2>2, <2>3, MultiplesAdd
  <2>5. x + a \in Int /\ x <= x + a /\ x + a <= y
    BY <1>5, <2>1
  <2> QED
    BY <2>4, <2>5 DEF a
<1> QED
  BY <1>1, <1>4, <1>5, <1>6

LEMMA CountIs ==
  ASSUME NEW n \in Nat, n < CountMod
  PROVE  Count(n) = n
<1>1. n \in 0 .. CountMod - 1 /\ n \in Int
  BY CountAssumption
<1>2. n % CountMod = n
  BY <1>1, CountAssumption, RemainderOfSum
<1> QED
  BY <1>2 DEF Count

LEMMA SegmentLaid ==
  ASSUME EdgesOnBothTicks, NEW S, NEW lo, NEW hi, BandOf(S, lo, hi), NEW cur \in S,
         Cardinality(S) < CountMod
  PROVE  LET seg  == SegmentFrom(cur, hi, Rank(S, cur))
             next == seg.end_price + seg.tick
         IN /\ Laid(S, seg)
            /\ seg.start_price = cur /\ seg.end_price = regime_last(cur, hi)
            /\ Count(Rank(S, cur) + seg.count) = Rank(S, next)
<1> DEFINE last == regime_last(cur, hi)
           t    == tick_size(cur)
           next == last + t
           m    == (last - cur) \div t
           off  == Rank(S, cur)
           seg  == SegmentFrom(cur, hi, off)
<1>1. /\ t \in Nat \ {0} /\ cur \in Nat \ {0} /\ hi \in Nat /\ cur <= hi
      /\ last \in S /\ cur <= last /\ last <= hi /\ cur % t = 0 /\ last % t = 0
      /\ \A p \in Int : cur <= p /\ p <= last => (p \in S <=> p % t = 0)
      /\ \A p \in S : p < next => p <= last
  BY LastIs
<1>2. FiniteNumbers(S) /\ S \subseteq Nat /\ last \in Nat
  BY <1>1 DEF BandOf, FiniteNumbers
<1>3. seg = [start_price |-> cur, end_price |-> last, tick |-> t,
             index_offset |-> off, count |-> Count(Quot(last - cur, t) + 1)]
  BY DEF SegmentFrom
<1> HIDE DEF last, t, seg
<1>4. /\ m \in Nat /\ last = cur + t * m
      /\ \A i \in Nat : i <= m => /\ cur + t * i \in Int /\ (cur + t * i) % t = 0
                                  /\ cur <= cur + t * i /\ cur + t * i <= last
  <2>1. cur \in Int /\ last \in Int
    BY <1>1, <1>2
  <2> QED
    BY <1>1, <2>1, MultipleUpTo
<1>5. Quot(last - cur, t) = m
  <2>1. last - cur >= 0
    BY <1>1, <1>2
  <2> QED
    BY <2>1 DEF Quot
<1> HIDE DEF m
<1>6. \A i \in Nat : cur + t * i <= last + t => Rank(S, cur + t * i) = off + i
  BY <1>1, <1>2, RankClimbs
<1>7. off \in Nat /\ Cardinality(S) \in Nat
  BY <1>1, <1>2, RankIs
<1> HIDE DEF off
<1>8. ASSUME NEW i \in Nat, i <= m
      PROVE  cur + t * i \in S /\ Rank(S, cur + t * i) = off + i
  <2> DEFINE x == cur + t * i
  <2>1. x \in Int /\ x % t = 0 /\ cur <= x /\ x <= last
    BY <1>4, <1>8
  <2>2. x <= last + t => Rank(S, x) = off + i
    BY <1>6
  <2> HIDE DEF x
  <2>3. x \in S /\ x <= last + t
    BY <1>1, <1>2, <2>1
  <2> QED
    BY <2>2, <2>3 DEF x
<1>9. Rank(S, last) = off + m
  <2>1. m <= m
    BY <1>4
  <2> QED
    BY <1>4, <1>8, <2>1
<1>10. Rank(S, next) = off + m + 1
  <2>1. next \in Int /\ last < next /\ \A p \in S : p <= last \/ p >= next
    BY <1>1, <1>2
  <2>2. Rank(S, next) = Rank(S, last) + 1
    BY <1>1, <1>2, <2>1, RankNext
  <2> QED
    BY <1>4, <1>7, <1>9, <2>2
<1>11. off + m + 1 <= Cardinality(S)
  <2>1. last \in Int /\ last \in S
    BY <1>1, <1>2
  <2>2. Rank(S, last) < Cardinality(S)
    BY <1>2, <2>1, RankIs
  <2> QED
    BY <1>4, <1>7, <1>9, <2>2
<1>12. Count(m + 1) = m + 1 /\ Count(off + (m + 1)) = off + (m + 1)
  <2>1. m + 1 \in Nat /\ m + 1 < CountMod /\ off + (m + 1) \in Nat /\ off + (m + 1) < CountMod
    BY <1>4, <1>7, <1>11, CountAssumption
  <2> QED
    BY <2>1, CountIs
<1>13. /\ seg.start_price = cur /\ seg.end_price = last /\ seg.tick = t
       /\ seg.index_offset = off /\ seg.count = m + 1
  BY <1>3, <1>5, <1>12
<1>14. ASSUME NEW p \in Int, cur <= p, p <= last PROVE p \in S <=> (p - cur) % t = 0
  <2>1. p % t = 0 <=> (p - cur) % t = 0
    <3>1. cur \in Int /\ p - cur \in Int /\ p = (p - cur) + cur
      BY <1>1
    <3>2. ASSUME p % t = 0 PROVE (p - cur) % t = 0
      BY <1>1, <3>1, <3>2, MultiplesAdd
    <3>3. ASSUME (p - cur) % t = 0 PROVE p % t = 0
      <4> DEFINE d == p - cur
      <4>1. d \in Int /\ d % t = 0 /\ p = d + cur
        BY <3>1, <3>3
      <4> HIDE DEF d
      <4>2. (d + cur) % t = 0
        BY <1>1, <3>1, <4>1, MultiplesAdd
      <4> QED
        BY <4>1, <4>2
    <3> QED
      BY <3>2, <3>3
  <2> QED
    BY <1>1, <1>14, <2>1
<1>15. ASSUME NEW p \in S, cur <= p, p <= last PROVE Rank(S, p) = off + (p - cur) \div t
  <2> DEFINE i == (p - cur) \div t
  <2>1. p \in Int /\ cur \in Int /\ p % t = 0
    BY <1>1, <1>2, <1>15
  <2>2. i \in Nat /\ p = cur + t * i
    BY <1>1, <1>15, <2>1, MultipleUpTo
  <2>3. cur + t * i <= last + t => Rank(S, cur + t * i) = off + i
    BY <1>6, <2>2
  <2> HIDE DEF i
  <2>4. p <= last + t
    BY <1>1, <1>2, <1>15
  <2> QED
    BY <2>2, <2>3, <2>4 DEF i
<1>16. ASSUME NEW i \in Nat, i < m + 1
       PROVE  cur + i * t \in S /\ Rank(S, cur + i * t) = off + i
  <2>1. i <= m /\ i * t = t * i
    BY <1>1, <1>4, <1>16
  <2> QED
    BY <1>8, <2>1
<1>17. Laid(S, seg)
  BY <1>1, <1>4, <1>7, <1>9, <1>13, <1>14, <1>15, <1>16 DEF Laid, off
<1> QED
  BY <1>10, <1>12, <1>13, <1>17, <1>4, <1>7 DEF last, t, off, seg

\* What the loop of build has done when it stands at cur.
Walked(S, segs, cur, offset) ==
  /\ segs \in Seq(Segment)
  /\ \A k \in 1 .. Len(segs) : Laid(S, segs[k])
  /\ \A p \in S : p < cur =>
       \E k \in 1 .. Len(segs) : segs[k].start_price <= p /\ p <= segs[k].end_price
  /\ offset = Rank(S, cur)

LEMMA StepWalks ==
  ASSUME EdgesOnBothTicks, NEW S, NEW lo, NEW hi, BandOf(S, lo, hi), NEW cur \in S,
         Cardinality(S) < CountMod, NEW segs, NEW offset, Walked(S, segs, cur, offset)
  PROVE  LET seg == SegmentFrom(cur, hi, offset)
         IN Walked(S, Append(segs, seg), seg.end_price + seg.tick, Count(offset + seg.count))
<1> DEFINE seg  == SegmentFrom(cur, hi, offset)
           last == regime_last(cur, hi)
           t    == tick_size(cur)
           n    == Len(segs)
           s2   == Append(segs, seg)
<1>1. offset = Rank(S, cur) /\ segs \in Seq(Segment)
  BY DEF Walked
<1>2. /\ cur \in Int /\ hi \in Int /\ last \in S
      /\ \A p \in S : p < last + t => p <= last
  BY LastIs
<1>3. S \subseteq Nat /\ offset \in Nat
  <2>1. FiniteNumbers(S)
    BY DEF BandOf
  <2> QED
    BY <1>1, <1>2, <2>1, RankIs DEF FiniteNumbers
<1>4. seg \in Segment /\ seg.tick = t
  BY <1>2, <1>3, SegmentTyped
<1>5. /\ Laid(S, seg) /\ seg.start_price = cur /\ seg.end_price = last
      /\ Count(offset + seg.count) = Rank(S, seg.end_price + seg.tick)
  BY <1>1, SegmentLaid
<1> HIDE DEF seg, last, t
<1>6. /\ s2 \in Seq(Segment) /\ Len(s2) = n + 1 /\ s2[n + 1] = seg
      /\ \A k \in 1 .. n : s2[k] = segs[k]
      /\ n \in Nat
  <2>1. n \in Nat
    BY <1>1
  <2> QED
    BY <1>1, <1>4, <2>1, Appended
<1> HIDE DEF s2, n
<1>7. \A k \in 1 .. n : Laid(S, segs[k])
  BY DEF Walked, n
<1>8. \A k \in 1 .. Len(s2) : Laid(S, s2[k])
  <2> TAKE k \in 1 .. Len(s2)
  <2>1. k \in 1 .. n \/ k = n + 1
    BY <1>6
  <2> QED
    BY <1>5, <1>6, <1>7, <2>1
<1>9. ASSUME NEW p \in S, p < seg.end_price + seg.tick
      PROVE  \E k \in 1 .. Len(s2) : s2[k].start_price <= p /\ p <= s2[k].end_price
  <2>1. CASE p < cur
    <3>1. PICK k \in 1 .. n : segs[k].start_price <= p /\ p <= segs[k].end_price
      BY <2>1 DEF Walked, n
    <3>2. k \in 1 .. Len(s2) /\ s2[k] = segs[k]
      BY <1>6
    <3> QED
      BY <3>1, <3>2
  <2>2. CASE ~(p < cur)
    <3>1. cur <= p /\ p <= last
      BY <1>2, <1>3, <1>4, <1>5, <1>9, <2>2
    <3>2. n + 1 \in 1 .. Len(s2)
      BY <1>6
    <3> QED
      BY <1>5, <1>6, <3>1, <3>2
  <2> QED
    BY <2>1, <2>2
<1> QED
  BY <1>5, <1>6, <1>8, <1>9 DEF Walked, seg, s2

-----------------------------------------------------------------------------
(***************************************************************************)
(* The two conversions over a ladder that holds the whole band.            *)
(***************************************************************************)
LaidOut(S, lad) ==
  /\ \A k \in 1 .. Len(lad.segments) : Laid(S, lad.segments[k])
  /\ lad.segments \in Seq(Segment)
  /\ \A p \in S : \E k \in 1 .. Len(lad.segments) :
       lad.segments[k].start_price <= p /\ p <= lad.segments[k].end_price
  /\ lad.total_count = Cardinality(S)
  /\ lad.band_lo \in Int /\ lad.band_hi \in Int
  /\ \A p \in S : lad.band_lo <= p /\ p <= lad.band_hi

\* A price of the band has its number for an index, any other price has none.
LEMMA IndexOfPrice ==
  ASSUME NEW S, FiniteNumbers(S), NEW lad, LaidOut(S, lad), NEW p \in Int
  PROVE  price_to_index(lad, p) = IF p \in S THEN Rank(S, p) ELSE -1
<1> DEFINE segs    == lad.segments
           holding == {k \in DOMAIN segs : segs[k].start_price <= p /\ p <= segs[k].end_price}
           s       == segs[Min(holding)]
<1>1. DOMAIN segs = 1 .. Len(segs) /\ holding \subseteq Nat
  BY DEF LaidOut
<1>2. price_to_index(lad, p) =
        IF p < lad.band_lo \/ p > lad.band_hi \/ holding = {} THEN -1
        ELSE IF (p - s.start_price) % s.tick # 0 THEN -1
        ELSE s.index_offset + (p - s.start_price) \div s.tick
  BY DEF price_to_index
<1>3. ASSUME holding # {}
      PROVE  Laid(S, s) /\ s.start_price <= p /\ p <= s.end_price
  <2>1. Min(holding) \in holding
    BY <1>1, <1>3, MinOf
  <2> QED
    BY <1>1, <2>1 DEF LaidOut
<1>4. ASSUME p \in S
      PROVE  holding # {} /\ ~(p < lad.band_lo) /\ ~(p > lad.band_hi)
  <2>1. PICK k \in 1 .. Len(segs) : segs[k].start_price <= p /\ p <= segs[k].end_price
    BY <1>4 DEF LaidOut
  <2>2. k \in holding
    BY <1>1, <2>1
  <2>3. lad.band_lo <= p /\ p <= lad.band_hi /\ lad.band_lo \in Int /\ lad.band_hi \in Int
    BY <1>4 DEF LaidOut
  <2> QED
    BY <2>2, <2>3
<1> HIDE DEF holding, s
<1>5. CASE p \in S
  <2>1. (p - s.start_price) % s.tick = 0
        /\ Rank(S, p) = s.index_offset + (p - s.start_price) \div s.tick
    BY <1>3, <1>4, <1>5 DEF Laid
  <2> QED
    BY <1>2, <1>4, <1>5, <2>1
<1>6. CASE p \notin S
  <2>1. holding # {} => (p - s.start_price) % s.tick # 0
    BY <1>3, <1>6 DEF Laid
  <2> QED
    BY <1>2, <1>6, <2>1
<1> QED
  BY <1>5, <1>6

\* And a level has the price whose number it is.
LEMMA PriceOfIndex ==
  ASSUME NEW S, FiniteNumbers(S), Cardinality(S) < CountMod, NEW lad, LaidOut(S, lad),
         NEW x \in 0 .. Cardinality(S) - 1
  PROVE  index_to_price(lad, x) \in S /\ Rank(S, index_to_price(lad, x)) = x
<1> DEFINE segs    == lad.segments
           holding == {k \in DOMAIN segs : /\ segs[k].index_offset <= x
                                           /\ x < Count(segs[k].index_offset + segs[k].count)}
           s       == segs[Min(holding)]
<1>1. DOMAIN segs = 1 .. Len(segs) /\ holding \subseteq Nat /\ Cardinality(S) \in Nat
      /\ x \in Nat
  <2>1. DOMAIN segs = 1 .. Len(segs) /\ holding \subseteq Nat
    BY DEF LaidOut
  <2>2. Cardinality(S) \in Nat
    BY FS_CardinalityType DEF FiniteNumbers
  <2> QED
    BY <2>1, <2>2
<1>2. index_to_price(lad, x) =
        IF holding = {} THEN 0 ELSE s.start_price + (x - s.index_offset) * s.tick
  BY DEF index_to_price
<1>3. ASSUME NEW k \in 1 .. Len(segs)
      PROVE  /\ Laid(S, segs[k]) /\ segs[k].index_offset \in Nat /\ segs[k].count \in Nat
             /\ Count(segs[k].index_offset + segs[k].count)
                  = segs[k].index_offset + segs[k].count
  <2> DEFINE g == segs[k]
             n == g.index_offset + g.count
  <2>1. Laid(S, g)
    BY <1>3 DEF LaidOut
  <2> HIDE DEF g
  <2>2. /\ g.start_price \in S /\ g.end_price \in S /\ g.count \in Nat
        /\ g.index_offset = Rank(S, g.start_price) /\ n = Rank(S, g.end_price) + 1
    BY <2>1 DEF Laid
  <2>3. g.start_price \in Int /\ g.end_price \in Int
    <3>1. S \subseteq Int
      BY DEF FiniteNumbers
    <3> QED
      BY <2>2, <3>1
  <2>4. g.index_offset \in Nat /\ Rank(S, g.end_price) \in Nat
        /\ Rank(S, g.end_price) < Cardinality(S)
    BY <2>2, <2>3, RankIs
  <2> HIDE DEF n
  <2>5. n \in Nat /\ n < CountMod
    BY <1>1, <2>2, <2>4, CountAssumption
  <2>6. Count(n) = n
    BY <2>5, CountIs
  <2> QED
    BY <2>1, <2>2, <2>4, <2>6 DEF n, g
<1>4. holding # {}
  <2>1. PICK p \in S : Rank(S, p) = x
    BY RankOnto
  <2>2. PICK k \in 1 .. Len(segs) : segs[k].start_price <= p /\ p <= segs[k].end_price
    BY DEF LaidOut
  <2> DEFINE g == segs[k]
  <2>3. /\ Laid(S, g) /\ g.index_offset \in Nat /\ g.count \in Nat
        /\ Count(g.index_offset + g.count) = g.index_offset + g.count
        /\ g.start_price <= p /\ p <= g.end_price
    BY <1>3, <2>2
  <2> HIDE DEF g
  <2>4. /\ g.start_price \in Int /\ g.end_price \in Int /\ p \in Int
        /\ g.start_price \in S /\ g.end_price \in S
        /\ g.index_offset = Rank(S, g.start_price)
        /\ g.index_offset + g.count = Rank(S, g.end_price) + 1
    <3>1. S \subseteq Int
      BY DEF FiniteNumbers
    <3>2. /\ g.start_price \in S /\ g.end_price \in S
          /\ g.index_offset = Rank(S, g.start_price)
          /\ g.index_offset + g.count = Rank(S, g.end_price) + 1
      BY <2>3 DEF Laid
    <3> QED
      BY <3>1, <3>2
  <2>5. Rank(S, g.start_price) <= Rank(S, p) /\ Rank(S, p) <= Rank(S, g.end_price)
        /\ Rank(S, g.end_price) \in Nat
    BY <2>3, <2>4, RankIs
  <2>6. g.index_offset <= x /\ x < g.index_offset + g.count
    BY <1>1, <2>1, <2>3, <2>4, <2>5
  <2>7. k \in holding
    BY <1>1, <2>3, <2>6 DEF g
  <2> QED
    BY <2>7
<1>5. /\ Laid(S, s) /\ s.index_offset \in Nat /\ s.count \in Nat
      /\ s.index_offset <= x /\ x < s.index_offset + s.count
  <2>1. Min(holding) \in holding
    BY <1>1, <1>4, MinOf
  <2>2. Min(holding) \in 1 .. Len(segs)
    BY <1>1, <2>1
  <2>3. s.index_offset <= x /\ x < Count(s.index_offset + s.count)
    BY <2>1
  <2> QED
    BY <1>3, <2>2, <2>3
<1> HIDE DEF holding, s
<1> DEFINE i == x - s.index_offset
<1>6. i \in Nat /\ i < s.count /\ s.index_offset + i = x
  BY <1>1, <1>5
<1>7. index_to_price(lad, x) = s.start_price + i * s.tick
  BY <1>2, <1>4
<1> HIDE DEF i
<1>8. s.start_price + i * s.tick \in S
      /\ Rank(S, s.start_price + i * s.tick) = s.index_offset + i
  BY <1>5, <1>6 DEF Laid
<1> QED
  BY <1>6, <1>7, <1>8

-----------------------------------------------------------------------------
(***************************************************************************)
(* The invariant of build, for a schedule with its edges on both ticks: it *)
(* stands at a price of the band or past its end, and the segments so far  *)
(* hold and number the prices below.                                       *)
(***************************************************************************)
OrderableOf(price, bps) ==
  {p \in -1 .. 2 * price + 2 : is_tick_aligned(p) /\ Within(price, bps, p)}

BuildCovers ==
  pc = "build" =>
    /\ build.band_lo = LoOf(reference_price, band_bps)
    /\ build.band_hi = HiOf(reference_price, band_bps)
    /\ build.cur > build.band_hi \/ build.cur \in OrderableOf(reference_price, band_bps)
    /\ build.cur <= PriceMax
    /\ Cardinality(OrderableOf(reference_price, band_bps)) < CountMod =>
         Walked(OrderableOf(reference_price, band_bps), build.segments, build.cur, build.offset)

LadderCovers ==
  pc = "ready" /\ Cardinality(OrderableOf(reference_price, band_bps)) < CountMod =>
    LaidOut(OrderableOf(reference_price, band_bps), ladder)

CInv == LInv /\ BuildCovers /\ LadderCovers

LEMMA OrderableIs == Orderable = OrderableOf(reference_price, band_bps)
BY DEF Orderable, OrderableOf, Prices, InBand, Within

LEMMA OrderableBand ==
  ASSUME EdgesOnBothTicks, NEW price, NEW bps, Checked(price, bps)
  PROVE  BandOf(OrderableOf(price, bps), LoOf(price, bps), HiOf(price, bps))
BY BandIs DEF OrderableOf

LEMMA BandBounds ==
  ASSUME NEW S, NEW lo, NEW hi, BandOf(S, lo, hi)
  PROVE  /\ FiniteNumbers(S) /\ S \subseteq Nat /\ lo \in Nat /\ hi \in Nat /\ lo <= hi
         /\ hi <= PriceMax /\ \A p \in S : lo <= p /\ p <= hi
<1>1. S \subseteq Nat /\ lo \in Nat /\ hi \in Nat /\ hi < PriceMax /\ FiniteNumbers(S)
  BY DEF BandOf, FiniteNumbers
<1>2. \A p \in S : lo <= p /\ p <= hi
  BY <1>1 DEF BandOf
<1>3. lo <= hi
  BY <1>2 DEF BandOf
<1> QED
  BY <1>1, <1>2, <1>3, ScheduleFacts

LEMMA NextCovers ==
  ASSUME EdgesOnBothTicks, CInv, [Next]_vars
  PROVE  CInv'
<1>1. LInv'
  BY NextLayout DEF CInv
<1>2. ASSUME NEW price \in References, NEW bps \in Bands, Configure(price, bps)
      PROVE  BuildCovers' /\ LadderCovers'
  <2> DEFINE S  == OrderableOf(price, bps)
             lo == LoOf(price, bps)
             hi == HiOf(price, bps)
  <2>1. /\ pc' = "build" /\ Checked(price, bps)
        /\ reference_price' = price /\ band_bps' = bps
        /\ build' = [cur |-> lo, band_lo |-> lo, band_hi |-> hi, segments |-> <<>>,
                     offset |-> 0]
    BY <1>2, ConfigureDoes
  <2>2. BandOf(S, lo, hi)
    BY <2>1, OrderableBand
  <2>3. lo \in Nat /\ lo <= PriceMax /\ lo \in S /\ FiniteNumbers(S) /\ S \subseteq Nat
        /\ \A p \in S : lo <= p
    <3> HIDE DEF S, lo, hi
    <3>1. lo \in S /\ PriceMax \in Nat
      BY <2>2, ScheduleFacts DEF BandOf
    <3>2. lo \in Nat /\ hi \in Nat /\ lo <= hi /\ hi <= PriceMax
          /\ FiniteNumbers(S) /\ S \subseteq Nat /\ \A p \in S : lo <= p
      BY <2>2, BandBounds
    <3> QED
      BY <3>1, <3>2
  <2> HIDE DEF S, lo, hi
  <2>4. Walked(S, <<>>, lo, 0)
    <3>1. \A p \in S : p >= lo /\ ~(p < lo)
      BY <2>3
    <3>2. Rank(S, lo) = 0
      <4>1. lo \in Int /\ \A p \in S : p >= lo
        BY <2>3, <3>1
      <4> QED
        BY <2>3, <4>1, RankEnds
    <3>3. << >> \in Seq(Segment) /\ Len(<< >>) = 0
      OBVIOUS
    <3> QED
      BY <3>1, <3>2, <3>3 DEF Walked
  <2>5. BuildCovers'
    BY <2>1, <2>3, <2>4 DEF BuildCovers, S, lo, hi
  <2> QED
    BY <2>1, <2>5 DEF LadderCovers
<1>3. ASSUME AddSegment PROVE BuildCovers' /\ LadderCovers'
  <2> DEFINE S    == OrderableOf(reference_price, band_bps)
             lo   == LoOf(reference_price, band_bps)
             hi   == HiOf(reference_price, band_bps)
             cur  == build.cur
             seg  == SegmentFrom(cur, build.band_hi, build.offset)
             next == seg.end_price + seg.tick
             s2   == Append(build.segments, seg)
             o2   == Count(build.offset + seg.count)
  <2>1. /\ pc = "build" /\ cur \in Int /\ build.band_hi \in Int /\ build.offset \in Nat
        /\ cur <= build.band_hi
        /\ build' = [cur |-> next, band_lo |-> build.band_lo, band_hi |-> build.band_hi,
                     segments |-> s2, offset |-> o2]
        /\ UNCHANGED <<pc, reference_price, band_bps, ladder, bitmap, occupied>>
    BY <1>3, AddSegmentDoes DEF CInv
  <2>2. build.band_lo = lo /\ build.band_hi = hi /\ (cur > hi \/ cur \in S)
        /\ (Cardinality(S) < CountMod => Walked(S, build.segments, cur, build.offset))
    BY <2>1 DEF CInv, BuildCovers
  <2>3. BandOf(S, lo, hi)
    BY <2>1, OrderableBand DEF CInv, LInv
  <2> HIDE DEF S, lo, hi
  <2>4. cur \in S
    BY <2>1, <2>2
  <2>5. seg.tick = tick_size(cur) /\ seg.end_price = regime_last(cur, hi)
    BY <2>1, <2>2, SegmentTyped
  <2>6. (next > hi \/ next \in S) /\ next <= PriceMax
    <3>1. LET last == regime_last(cur, hi)
              t    == tick_size(cur)
          IN (last + t > hi \/ last + t \in S) /\ last + t <= PriceMax
      BY <2>3, <2>4, LastIs
    <3> QED
      BY <2>5, <3>1
  <2>7. ASSUME Cardinality(S) < CountMod PROVE Walked(S, s2, next, o2)
    <3>1. seg = SegmentFrom(cur, hi, build.offset)
      BY <2>2
    <3> QED
      BY <2>2, <2>3, <2>4, <2>7, <3>1, StepWalks
  <2> HIDE DEF seg, next, s2, o2
  <2>8. BuildCovers'
    BY <2>1, <2>2, <2>6, <2>7 DEF BuildCovers, S, lo, hi
  <2> QED
    BY <2>1, <2>8 DEF LadderCovers
<1>4. ASSUME Commit PROVE BuildCovers' /\ LadderCovers'
  <2> DEFINE S  == OrderableOf(reference_price, band_bps)
             lo == LoOf(reference_price, band_bps)
             hi == HiOf(reference_price, band_bps)
  <2>1. /\ pc = "build" /\ pc' = "ready" /\ build.cur > build.band_hi
        /\ ladder' = [segments |-> build.segments, total_count |-> build.offset,
                      band_lo |-> build.band_lo, band_hi |-> build.band_hi]
        /\ UNCHANGED <<reference_price, band_bps>>
    BY <1>4 DEF Commit
  <2>2. build.band_lo = lo /\ build.band_hi = hi
        /\ (Cardinality(S) < CountMod => Walked(S, build.segments, build.cur, build.offset))
    BY <2>1 DEF CInv, BuildCovers
  <2>3. BandOf(S, lo, hi)
    BY <2>1, OrderableBand DEF CInv, LInv
  <2>4. build.cur \in Int
    BY DEF CInv, LInv, BuildTyped
  <2> HIDE DEF S, lo, hi
  <2>5. /\ FiniteNumbers(S) /\ S \subseteq Nat /\ lo \in Nat /\ hi \in Nat
        /\ \A p \in S : lo <= p /\ p <= hi
    BY <2>3, BandBounds
  <2>6. \A p \in S : p < build.cur
    BY <2>1, <2>2, <2>4, <2>5
  <2>7. ASSUME Cardinality(S) < CountMod PROVE LaidOut(S, ladder')
    <3>1. Walked(S, build.segments, build.cur, build.offset)
      BY <2>2, <2>7
    <3>2. build.offset = Cardinality(S)
      BY <2>4, <2>5, <2>6, <3>1, RankEnds DEF Walked
    <3>3. ladder'.segments = build.segments /\ ladder'.total_count = build.offset
          /\ ladder'.band_lo = lo /\ ladder'.band_hi = hi
      BY <2>1, <2>2
    <3>4. \A p \in S : \E k \in 1 .. Len(build.segments) :
            build.segments[k].start_price <= p /\ p <= build.segments[k].end_price
      BY <2>6, <3>1 DEF Walked
    <3>5. build.segments \in Seq(Segment)
          /\ \A k \in 1 .. Len(build.segments) : Laid(S, build.segments[k])
      BY <3>1 DEF Walked
    <3>6. lo \in Int /\ hi \in Int
      BY <2>5
    <3> QED
      BY <2>5, <3>2, <3>3, <3>4, <3>5, <3>6 DEF LaidOut
  <2>8. LadderCovers'
    BY <2>1, <2>7 DEF LadderCovers, S
  <2> QED
    BY <2>1, <2>8 DEF BuildCovers
<1>5. ASSUME \/ pc = "ready" /\ \E x \in Levels : Occupy(x) \/ Vacate(x)
             \/ UNCHANGED vars
      PROVE  BuildCovers' /\ LadderCovers'
  <2>1. UNCHANGED <<pc, reference_price, band_bps, build, ladder>>
    BY <1>5 DEF Occupy, Vacate, vars
  <2> QED
    BY <2>1 DEF CInv, BuildCovers, LadderCovers
<1>6. BuildCovers' /\ LadderCovers'
  BY <1>2, <1>3, <1>4, <1>5 DEF Next
<1> QED
  BY <1>1, <1>6 DEF CInv

LEMMA CoverInvariant ==
  ASSUME EdgesOnBothTicks
  PROVE  Spec => []CInv
<1>1. Init => CInv
  <2>1. Init => pc = "idle"
    BY DEF Init
  <2> QED
    BY <2>1, InitLayout DEF CInv, BuildCovers, LadderCovers
<1>2. CInv /\ [Next]_vars => CInv'
  BY NextCovers
<1> QED
  BY <1>1, <1>2, PTL DEF Spec

(***************************************************************************)
(* No step of the price arithmetic of configure and build exceeds a Price: *)
(* the bound configure puts on the reference price is enough for the band  *)
(* and for the first price after it (engine.cpp, price_ladder.cpp).        *)
(***************************************************************************)
THEOREM NoOverflowHolds ==
  ASSUME EdgesOnBothTicks
  PROVE  Spec => []NoOverflow
<1>1. CInv => NoOverflow
  <2> SUFFICES ASSUME CInv PROVE NoOverflow
    OBVIOUS
  <2>1. PriceMax \in Nat /\ kBpsPerUnit \in Nat \ {0}
    BY ScheduleFacts, LayoutAssumption
  <2>2. build.cur <= PriceMax
    <3>1. CASE pc = "build"
      BY <3>1 DEF CInv, BuildCovers
    <3>2. CASE pc # "build"
      BY <2>1, <3>2, NoBuildTyped DEF CInv, LInv
    <3> QED
      BY <3>1, <3>2
  <2>3. CASE pc = "idle"
    <3>1. reference_price = 0 /\ band_bps = 0
      BY <2>3 DEF CInv, LInv
    <3>2. 0 * 0 = 0 /\ Delta(0, 0) = 0
      BY <2>1 DEF Delta
    <3> QED
      BY <2>1, <2>2, <3>1, <3>2 DEF NoOverflow
  <2>4. CASE pc # "idle"
    <3> DEFINE price == reference_price
               d == Delta(price, band_bps)
    <3>1. Checked(price, band_bps)
      BY <2>4 DEF CInv, LInv
    <3>2. price \in Nat
      BY <3>1 DEF Checked
    <3>3. d \in 0 .. price /\ 4 * price <= PriceMax /\ price * band_bps <= PriceMax
      BY <3>1, DeltaIs
    <3> HIDE DEF d
    <3>4. price + d <= PriceMax
      BY <2>1, <3>2, <3>3
    <3> QED
      BY <2>2, <3>3, <3>4 DEF NoOverflow, d
  <2> QED
    BY <2>3, <2>4
<1> QED
  BY <1>1, CoverInvariant, PTL

(***************************************************************************)
(* A finished ladder has a level for every price an order may have in the  *)
(* band and for no other, whatever brackets the band crosses, as long as   *)
(* the number of levels fits its counter (price_ladder.hpp:13-16).         *)
(***************************************************************************)
THEOREM LadderCoversBandHolds ==
  ASSUME EdgesOnBothTicks
  PROVE  Spec => []LadderCoversBand
<1>1. CInv => LadderCoversBand
  <2> SUFFICES ASSUME CInv, pc = "ready", Countable PROVE Covers
    BY DEF LadderCoversBand
  <2> DEFINE S == Orderable
  <2>1. LaidOut(S, ladder)
    BY OrderableIs DEF CInv, LadderCovers, Countable
  <2>2. Checked(reference_price, band_bps) /\ reference_price \in Nat
    BY DEF CInv, LInv, Checked
  <2>3. FiniteNumbers(S) /\ S \subseteq Nat
    BY <2>2, OrderableIs, OrderableBand, BandBounds
  <2>4. Levels = 0 .. Cardinality(S) - 1 /\ Cardinality(S) \in Nat
    BY <2>1, <2>3, FS_CardinalityType DEF LaidOut, Levels, FiniteNumbers
  <2> HIDE DEF S
  <2>5. ASSUME NEW p \in Prices
        PROVE  IF p \in S THEN price_to_index(ladder, p) \in Levels
               ELSE price_to_index(ladder, p) = -1
    <3>1. p \in Int
      BY <2>2 DEF Prices
    <3>2. price_to_index(ladder, p) = IF p \in S THEN Rank(S, p) ELSE -1
      BY <2>1, <2>3, <3>1, IndexOfPrice
    <3>3. p \in S => Rank(S, p) \in Nat /\ Rank(S, p) < Cardinality(S)
      BY <2>3, <3>1, RankIs
    <3>4. p \in S => Rank(S, p) \in Levels
      BY <2>4, <3>3
    <3> QED
      BY <3>2, <3>4
  <2> QED
    BY <2>5 DEF Covers, S
<1> QED
  BY <1>1, CoverInvariant, PTL

(***************************************************************************)
(* A finished ladder is the ladder OrderBook assumes: not empty, dense and *)
(* ascending, with price_to_index and index_to_price inverse to each other *)
(* (price_ladder.cpp, order_book.cpp).                                     *)
(***************************************************************************)
THEOREM LadderServesBookHolds ==
  ASSUME EdgesOnBothTicks
  PROVE  Spec => []LadderServesBook
<1>1. CInv => LadderServesBook
  <2> SUFFICES ASSUME CInv, pc = "ready", Countable
               PROVE  /\ Book!IsLadder(reference_price)
                      /\ \A price \in Prices : price_to_index(ladder, price)
                                                 = Book!price_to_index(reference_price, price)
    BY DEF LadderServesBook
  <2> DEFINE S == Orderable
             P(x) == index_to_price(ladder, x)
             i == reference_price
             prices == [x \in Levels |-> P(x)]
             L == [j \in {i} |-> prices]
  <2>1. LaidOut(S, ladder) /\ Cardinality(S) < CountMod
    BY OrderableIs DEF CInv, LadderCovers, Countable
  <2>2. Checked(i, band_bps) /\ i \in Nat
    BY DEF CInv, LInv, Checked
  <2>3. FiniteNumbers(S) /\ S \subseteq Nat /\ S # {}
    <3>1. BandOf(S, LoOf(i, band_bps), HiOf(i, band_bps))
      BY <2>2, OrderableIs, OrderableBand
    <3>2. S # {}
      BY <3>1 DEF BandOf
    <3> QED
      BY <3>1, <3>2, BandBounds
  <2> DEFINE n == Cardinality(S)
  <2>4. Levels = 0 .. n - 1 /\ n \in Nat /\ n # 0
    BY <2>1, <2>3, FS_CardinalityType, FS_EmptySet DEF LaidOut, Levels, FiniteNumbers
  <2> HIDE DEF S, P, n
  <2>5. ASSUME NEW x \in Levels PROVE P(x) \in S /\ P(x) \in Nat /\ Rank(S, P(x)) = x
    <3>1. x \in 0 .. Cardinality(S) - 1
      BY <2>4 DEF n
    <3>2. P(x) \in S /\ Rank(S, P(x)) = x
      BY <2>1, <2>3, <3>1, PriceOfIndex DEF P
    <3> QED
      BY <2>3, <3>2
  <2>6. ASSUME NEW x \in Levels, NEW y \in Levels, x < y PROVE P(x) < P(y)
    <3> SUFFICES ASSUME P(y) <= P(x) PROVE FALSE
      BY <2>5
    <3>1. P(x) \in Int /\ P(y) \in Int /\ Rank(S, P(x)) = x /\ Rank(S, P(y)) = y
      BY <2>5
    <3>2. Rank(S, P(y)) <= Rank(S, P(x))
      BY <2>3, <3>1, RankIs
    <3> QED
      BY <2>4, <2>6, <3>1, <3>2
  <2>7. IsFiniteSet(Levels) /\ Cardinality(Levels) = n /\ Levels # {}
    <3>1. 0 \in Int /\ n - 1 \in Int /\ 0 \in Levels
      BY <2>4
    <3>2. IsFiniteSet(0 .. n - 1) /\ Cardinality(0 .. n - 1) = n
      BY <2>4, <3>1, FS_Interval
    <3> QED
      BY <2>4, <3>1, <3>2
  <2>8. /\ DOMAIN L[i] = Levels /\ \A x \in Levels : L[i][x] = P(x)
        /\ L[i] \in [Levels -> Int]
    BY <2>5
  <2>9. Book!Index(i) = Levels
    BY <2>8 DEF Book!Index, P
  <2>10. Book!IsLadder(i)
    <3>1. \A x, y \in Levels : x < y => L[i][x] < L[i][y]
      BY <2>6, <2>8
    <3>2. Levels = 0 .. Cardinality(Levels) - 1
      BY <2>4, <2>7
    <3> HIDE DEF L
    <3>3. /\ IsFiniteSet(Book!Index(i)) /\ Book!Index(i) # {}
          /\ Book!Index(i) = 0 .. Cardinality(Book!Index(i)) - 1
          /\ L[i] \in [Book!Index(i) -> Int]
          /\ \A x, y \in Book!Index(i) : x < y => L[i][x] < L[i][y]
      BY <2>7, <2>8, <2>9, <3>1, <3>2
    <3>4. Book!IsFiniteSet(Levels) /\ Book!Cardinality(Levels) = Cardinality(Levels)
      <4>1. IsFiniteSet(Levels)
        BY <2>7
      <4>2. Book!IsFiniteSet(Levels)
        BY <4>1 DEF Book!IsFiniteSet, IsFiniteSet
      <4>3. Book!Cardinality(Levels) = Cardinality(Levels)
        BY DEF Book!Cardinality, Cardinality
      <4> QED
        BY <4>2, <4>3
    <3> QED
      BY <2>9, <3>3, <3>4 DEF Book!IsLadder, L, P
  <2>11. ASSUME NEW p \in Prices
         PROVE  price_to_index(ladder, p) = Book!price_to_index(i, p)
    <3>1. p \in Int
      BY <2>2 DEF Prices
    <3>2. price_to_index(ladder, p) = IF p \in S THEN Rank(S, p) ELSE -1
      BY <2>1, <2>3, <3>1, IndexOfPrice
    <3>3. Book!price_to_index(i, p) = IF \E x \in Levels : P(x) = p
                                      THEN CHOOSE x \in Levels : P(x) = p
                                      ELSE -1
      BY <2>8, <2>9 DEF Book!price_to_index, P
    <3>4. CASE p \in S
      <4> DEFINE r == Rank(S, p)
      <4>1. r \in Nat /\ r < Cardinality(S)
        BY <2>3, <3>1, <3>4, RankIs
      <4>2. r \in Levels
        BY <2>4, <4>1 DEF n
      <4>3. Rank(S, P(r)) = r /\ P(r) \in S
        BY <2>5, <4>2
      <4>4. P(r) = p
        BY <2>3, <3>4, <4>3, RankTells
      <4>5. \A x \in Levels : P(x) = p => x = r
        BY <2>5
      <4> HIDE DEF r
      <4>6. (CHOOSE x \in Levels : P(x) = p) = r
        BY <4>2, <4>4, <4>5
      <4> QED
        BY <3>2, <3>3, <3>4, <4>2, <4>4, <4>6 DEF r
    <3>5. CASE p \notin S
      BY <2>5, <3>2, <3>3, <3>5
    <3> QED
      BY <3>4, <3>5
  <2> QED
    BY <2>10, <2>11
<1> QED
  BY <1>1, CoverInvariant, PTL

=============================================================================
