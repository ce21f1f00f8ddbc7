------------------------------ MODULE DataProofs ------------------------------
(***************************************************************************)
(* Laws of the data the modules are built from: induction over numbers and *)
(* finite sets in the form the provers can use (there is a least or a      *)
(* minimal counterexample), sums over finite sets, and remainders.         *)
(***************************************************************************)
EXTENDS Integers, FiniteSets, FiniteSetsExt, FiniteSetTheorems, TLAPS

\* A set of numbers that is not empty has a least member.
LEMMA LeastNumber ==
  ASSUME NEW T, T \subseteq Nat, T # {}
  PROVE  \E n \in T : \A m \in T : n <= m
<1> DEFINE R == OpToRel(<, Nat)
<1>1. IsWellFoundedOn(R, Nat)
  BY NatLessThanWellFounded
<1>2. PICK n \in T : \A m \in T : ~(<<m, n>> \in R)
  <2> HIDE DEF R
  <2> QED
    BY <1>1, WFMin
<1>3. \A m \in T : ~(m < n)
  BY <1>2 DEF OpToRel
<1> HIDE DEF R
<1> QED
  BY <1>2, <1>3

\* Min of FiniteSetsExt, a CHOOSE, is that member.
LEMMA MinOf ==
  ASSUME NEW S, S \subseteq Nat, S # {}
  PROVE  Min(S) \in S /\ \A s \in S : Min(S) <= s
<1>1. \E m \in S : \A s \in S : m <= s
  BY LeastNumber
<1> QED
  BY <1>1 DEF Min

\* A bounded one also has a greatest member,
LEMMA GreatestExists ==
  ASSUME NEW S, S \subseteq Nat, S # {}, NEW b \in Nat, \A s \in S : s <= b
  PROVE  \E m \in S : \A s \in S : m >= s
<1> DEFINE T == {b - s : s \in S}
<1>1. T \subseteq Nat
  <2>1. ASSUME NEW s \in S PROVE b - s \in Nat
    OBVIOUS
  <2> QED
    BY <2>1
<1>a. T # {}
  OBVIOUS
<1>2. PICK t \in T : \A u \in T : t <= u
  BY <1>1, <1>a, LeastNumber
<1>3. PICK m \in S : t = b - m
  OBVIOUS
<1>4. ASSUME NEW s \in S PROVE m >= s
  <2>1. b - m <= b - s
    BY <1>2, <1>3
  <2> QED
    BY <2>1
<1> QED
  BY <1>4

\* which is its Max.
LEMMA MaxOf ==
  ASSUME NEW S, S \subseteq Nat, S # {}, NEW b \in Nat, \A s \in S : s <= b
  PROVE  Max(S) \in S /\ \A s \in S : s <= Max(S)
<1>1. \E m \in S : \A s \in S : m >= s
  BY GreatestExists
<1> QED
  BY <1>1 DEF Max

LEMMA Induction ==
  ASSUME NEW S, 0 \in S, \A n \in Nat : n \in S => n + 1 \in S
  PROVE  \A n \in Nat : n \in S
<1> SUFFICES ASSUME Nat \ S # {} PROVE FALSE
  OBVIOUS
<1>1. PICK n \in Nat \ S : \A m \in Nat \ S : n <= m
  BY LeastNumber
<1>2. n # 0 /\ n - 1 \in Nat /\ ~(n <= n - 1) /\ n - 1 + 1 = n
  BY <1>1
<1>3. n - 1 \in S
  BY <1>1, <1>2
<1> QED
  BY <1>1, <1>2, <1>3

\* A family of subsets of a finite set that is not empty has a minimal member.
LEMMA MinimalSubset ==
  ASSUME NEW S, IsFiniteSet(S), NEW F, F \subseteq SUBSET S, F # {}
  PROVE  \E T \in F : \A U \in F : U \subseteq T => U = T
<1> DEFINE C == {Cardinality(T) : T \in F}
<1>1. \A T \in F : IsFiniteSet(T) /\ Cardinality(T) \in Nat
  BY FS_Subset, FS_CardinalityType
<1>2. PICK n \in C : \A m \in C : n <= m
  <2>1. C \subseteq Nat /\ C # {}
    BY <1>1
  <2> HIDE DEF C
  <2> QED
    BY <2>1, LeastNumber
<1>3. PICK T \in F : n = Cardinality(T)
  BY <1>2
<1>4. ASSUME NEW U \in F, U \subseteq T PROVE U = T
  <2>1. Cardinality(U) <= Cardinality(T)
    BY <1>1, <1>4, FS_Subset
  <2>2. Cardinality(T) <= Cardinality(U)
    BY <1>2, <1>3
  <2>3. Cardinality(T) = Cardinality(U)
    BY <1>1, <2>1, <2>2
  <2> QED
    BY <1>1, <1>4, <2>3, FS_Subset
<1> QED
  BY <1>3, <1>4

-----------------------------------------------------------------------------
(***************************************************************************)
(* Sums.  SumFunctionOnSet chooses the elements in an order of its own;    *)
(* the laws say that the order does not matter.                            *)
(***************************************************************************)
Chosen(T) == CHOOSE x \in T : TRUE

SumStep(f, h, T) == IF T = {} THEN 0 ELSE f[Chosen(T)] + h[T \ {Chosen(T)}]

Sums(f, S, h) == h = [T \in SUBSET S |-> SumStep(f, h, T)]

LEMMA SumDefinition ==
  ASSUME NEW f, NEW S
  PROVE  SumFunctionOnSet(f, S) = (CHOOSE h : Sums(f, S, h))[S]
BY DEF SumFunctionOnSet, FoldFunctionOnSet, MapThenFoldSet, Sums, SumStep, Chosen

LEMMA SumsUnique ==
  ASSUME NEW f, NEW S, NEW S2, IsFiniteSet(S), NEW h, NEW h2, Sums(f, S, h), Sums(f, S2, h2),
         NEW T \in SUBSET S, T \in SUBSET S2
  PROVE  h[T] = h2[T]
<1> DEFINE F == {U \in SUBSET T : h[U] # h2[U]}
<1> SUFFICES ASSUME F # {} PROVE FALSE
  OBVIOUS
<1>1. IsFiniteSet(T)
  BY FS_Subset
<1>2. PICK U \in F : \A V \in F : V \subseteq U => V = U
  <2>1. F \subseteq SUBSET T
    OBVIOUS
  <2> HIDE DEF F
  <2> QED
    BY <1>1, <2>1, MinimalSubset
<1>3. h[U] = SumStep(f, h, U) /\ h2[U] = SumStep(f, h2, U)
  BY DEF Sums
<1>4. U # {} => U \ {Chosen(U)} \subseteq U /\ U \ {Chosen(U)} # U
  BY DEF Chosen
<1>5. U # {} => h[U \ {Chosen(U)}] = h2[U \ {Chosen(U)}]
  BY <1>2, <1>4
<1> QED
  BY <1>3, <1>5 DEF SumStep

LEMMA SumsExist ==
  ASSUME NEW f, NEW S, IsFiniteSet(S)
  PROVE  \E h : Sums(f, S, h)
<1> DEFINE F == {T \in SUBSET S : ~\E h : Sums(f, T, h)}
<1> SUFFICES ASSUME F # {} PROVE FALSE
  BY DEF F
<1>1. PICK T \in F : \A U \in F : U \subseteq T => U = T
  <2>1. F \subseteq SUBSET S
    OBVIOUS
  <2> HIDE DEF F
  <2> QED
    BY <2>1, MinimalSubset
<1>2. \A U \in SUBSET T : U # T => \E h : Sums(f, U, h)
  BY <1>1
<1> DEFINE sum(U) == (CHOOSE h : Sums(f, U, h))[U]
           h0 == [U \in SUBSET T |-> IF U = {} THEN 0
                                     ELSE f[Chosen(U)] + sum(U \ {Chosen(U)})]
<1>3. ASSUME NEW U \in SUBSET T, U # {}
      PROVE  h0[U \ {Chosen(U)}] = sum(U \ {Chosen(U)})
  <2> DEFINE V == U \ {Chosen(U)}
             hV == CHOOSE h : Sums(f, V, h)
  <2>1. V \in SUBSET T /\ V # T
    BY <1>3 DEF Chosen
  <2>2. Sums(f, V, hV)
    BY <1>2, <2>1
  <2>3. hV[V] = SumStep(f, hV, V)
    BY <2>2 DEF Sums
  <2>4. CASE V = {}
    BY <2>1, <2>3, <2>4 DEF SumStep
  <2>5. CASE V # {}
    <3> DEFINE W == V \ {Chosen(V)}
               hW == CHOOSE h : Sums(f, W, h)
    <3>1. W \in SUBSET T /\ W # T /\ W \in SUBSET V
      BY <2>1, <2>5 DEF Chosen
    <3>2. Sums(f, W, hW)
      BY <1>2, <3>1
    <3>3. IsFiniteSet(W)
      BY <3>1, FS_Subset
    <3>4. hW[W] = hV[W]
      <4> HIDE DEF V, W, hV, hW
      <4> QED
        BY <2>2, <3>1, <3>2, <3>3, SumsUnique
    <3> QED
      BY <2>1, <2>3, <2>5, <3>4 DEF SumStep
  <2> QED
    BY <2>4, <2>5
<1>4. ASSUME NEW U \in SUBSET T PROVE h0[U] = SumStep(f, h0, U)
  <2>1. h0[U] = IF U = {} THEN 0 ELSE f[Chosen(U)] + sum(U \ {Chosen(U)})
    OBVIOUS
  <2> HIDE DEF h0, sum
  <2> QED
    BY <1>3, <2>1 DEF SumStep
<1>5. Sums(f, T, h0)
  <2>1. h0 = [U \in SUBSET T |-> h0[U]]
    OBVIOUS
  <2> HIDE DEF h0
  <2> QED
    BY <1>4, <2>1 DEF Sums
<1> QED
  BY <1>1, <1>5

\* The sum by whatever element Chosen takes first.
LEMMA SumByChosen ==
  ASSUME NEW f, NEW S, IsFiniteSet(S)
  PROVE  /\ SumFunctionOnSet(f, {}) = 0
         /\ S # {} => SumFunctionOnSet(f, S) =
                        f[Chosen(S)] + SumFunctionOnSet(f, S \ {Chosen(S)})
<1> DEFINE hOf(T) == CHOOSE h : Sums(f, T, h)
<1>1. \A T \in SUBSET S : Sums(f, T, hOf(T)) /\ IsFiniteSet(T)
  BY SumsExist, FS_Subset
<1>2. \A T \in SUBSET S : SumFunctionOnSet(f, T) = hOf(T)[T]
  BY SumDefinition
<1>3. \A T \in SUBSET S : hOf(T)[T] = SumStep(f, hOf(T), T)
  BY <1>1 DEF Sums
<1>4. SumFunctionOnSet(f, {}) = 0
  <2>1. SumFunctionOnSet(f, {}) = hOf({})[{}]
    BY SumDefinition
  <2>2. hOf({})[{}] = SumStep(f, hOf({}), {})
    BY <1>3
  <2> HIDE DEF hOf
  <2> QED
    BY <2>1, <2>2 DEF SumStep
<1>5. ASSUME S # {}
      PROVE  SumFunctionOnSet(f, S) = f[Chosen(S)] + SumFunctionOnSet(f, S \ {Chosen(S)})
  <2> DEFINE T == S \ {Chosen(S)}
  <2>1. hOf(S)[T] = hOf(T)[T]
    <3> HIDE DEF hOf
    <3> QED
      BY <1>1, SumsUnique
  <2> QED
    BY <1>2, <1>3, <1>5, <2>1 DEF SumStep
<1> QED
  BY <1>4, <1>5

\* A sum of numbers is a number.
LEMMA SumType ==
  ASSUME NEW f, NEW S, IsFiniteSet(S), \A x \in S : f[x] \in Nat
  PROVE  SumFunctionOnSet(f, S) \in Nat
<1> DEFINE F == {T \in SUBSET S : SumFunctionOnSet(f, T) \notin Nat}
<1> SUFFICES ASSUME F # {} PROVE FALSE
  OBVIOUS
<1>1. PICK T \in F : \A U \in F : U \subseteq T => U = T
  <2>1. F \subseteq SUBSET S
    OBVIOUS
  <2> HIDE DEF F
  <2> QED
    BY <2>1, MinimalSubset
<1>2. IsFiniteSet(T)
  BY FS_Subset
<1>3. T # {}
  <2>1. SumFunctionOnSet(f, T) \notin Nat
    OBVIOUS
  <2>2. SumFunctionOnSet(f, {}) = 0
    BY <1>2, SumByChosen
  <2> HIDE DEF F
  <2> QED
    BY <2>1, <2>2
<1>4. Chosen(T) \in T
  BY <1>3 DEF Chosen
<1>5. SumFunctionOnSet(f, T \ {Chosen(T)}) \in Nat
  BY <1>1, <1>4
<1>6. SumFunctionOnSet(f, T) = f[Chosen(T)] + SumFunctionOnSet(f, T \ {Chosen(T)})
  BY <1>2, <1>3, SumByChosen
<1> QED
  BY <1>4, <1>5, <1>6

\* Any element may be taken first.
LEMMA SumByElement ==
  ASSUME NEW f, NEW S, IsFiniteSet(S), \A x \in S : f[x] \in Nat, NEW e \in S
  PROVE  SumFunctionOnSet(f, S) = f[e] + SumFunctionOnSet(f, S \ {e})
<1> DEFINE F == {T \in SUBSET S : \E x \in T : SumFunctionOnSet(f, T) #
                                                 f[x] + SumFunctionOnSet(f, T \ {x})}
<1> SUFFICES ASSUME F # {} PROVE FALSE
  OBVIOUS
<1>1. PICK T \in F : \A U \in F : U \subseteq T => U = T
  <2>1. F \subseteq SUBSET S
    OBVIOUS
  <2> HIDE DEF F
  <2> QED
    BY <2>1, MinimalSubset
<1>2. PICK x \in T : SumFunctionOnSet(f, T) # f[x] + SumFunctionOnSet(f, T \ {x})
  OBVIOUS
<1> DEFINE c == Chosen(T)
<1>3. IsFiniteSet(T) /\ T \subseteq S
  BY FS_Subset
<1>4. c \in T
  BY DEF Chosen
<1>5. SumFunctionOnSet(f, T) = f[c] + SumFunctionOnSet(f, T \ {c})
  BY <1>3, SumByChosen
<1>6. x # c
  BY <1>2, <1>5
<1>7. T \ {c} \notin F /\ T \ {x} \notin F
  BY <1>1, <1>4
<1>8. SumFunctionOnSet(f, T \ {c}) = f[x] + SumFunctionOnSet(f, (T \ {c}) \ {x})
  BY <1>3, <1>6, <1>7
<1>9. SumFunctionOnSet(f, T \ {x}) = f[c] + SumFunctionOnSet(f, (T \ {x}) \ {c})
  BY <1>3, <1>4, <1>6, <1>7
<1>10. (T \ {c}) \ {x} = (T \ {x}) \ {c}
  OBVIOUS
<1>11. SumFunctionOnSet(f, (T \ {c}) \ {x}) \in Nat
  BY <1>3, FS_Subset, SumType
<1>12. f[c] \in Nat /\ f[x] \in Nat
  BY <1>3, <1>4
<1> HIDE DEF c, F
<1> QED
  BY <1>2, <1>5, <1>8, <1>9, <1>10, <1>11, <1>12

\* A sum depends on its terms alone.
LEMMA SumOfSame ==
  ASSUME NEW f, NEW g, NEW S, IsFiniteSet(S), \A x \in S : f[x] = g[x]
  PROVE  SumFunctionOnSet(f, S) = SumFunctionOnSet(g, S)
<1> DEFINE F == {T \in SUBSET S : SumFunctionOnSet(f, T) # SumFunctionOnSet(g, T)}
<1> SUFFICES ASSUME F # {} PROVE FALSE
  OBVIOUS
<1>1. PICK T \in F : \A U \in F : U \subseteq T => U = T
  <2>1. F \subseteq SUBSET S
    OBVIOUS
  <2> HIDE DEF F
  <2> QED
    BY <2>1, MinimalSubset
<1>2. IsFiniteSet(T)
  BY FS_Subset
<1>3. T # {}
  BY <1>2, SumByChosen
<1>4. Chosen(T) \in T
  BY <1>3 DEF Chosen
<1>5. SumFunctionOnSet(f, T \ {Chosen(T)}) = SumFunctionOnSet(g, T \ {Chosen(T)})
  BY <1>1, <1>4
<1> QED
  BY <1>2, <1>3, <1>4, <1>5, SumByChosen

\* The parts of a set add up to it.
LEMMA SumOfParts ==
  ASSUME NEW f, NEW S, NEW P, IsFiniteSet(S), IsFiniteSet(P), S \cap P = {},
         \A x \in S \cup P : f[x] \in Nat
  PROVE  SumFunctionOnSet(f, S \cup P) = SumFunctionOnSet(f, S) + SumFunctionOnSet(f, P)
<1> DEFINE F == {T \in SUBSET P : SumFunctionOnSet(f, S \cup T) #
                                    SumFunctionOnSet(f, S) + SumFunctionOnSet(f, T)}
<1> SUFFICES ASSUME F # {} PROVE FALSE
  OBVIOUS
<1>1. PICK T \in F : \A U \in F : U \subseteq T => U = T
  <2>1. F \subseteq SUBSET P
    OBVIOUS
  <2> HIDE DEF F
  <2> QED
    BY <2>1, MinimalSubset
<1>2. IsFiniteSet(T) /\ T \subseteq P
  BY FS_Subset
<1>3. SumFunctionOnSet(f, S) \in Nat
  BY SumType
<1>4. T # {}
  <2>1. SumFunctionOnSet(f, {}) = 0
    BY <1>2, SumByChosen
  <2>2. SumFunctionOnSet(f, S \cup T) # SumFunctionOnSet(f, S) + SumFunctionOnSet(f, T)
    OBVIOUS
  <2> HIDE DEF F
  <2>3. SumFunctionOnSet(f, S) + 0 = SumFunctionOnSet(f, S) /\ S \cup {} = S
    BY <1>3
  <2> QED
    BY <2>1, <2>2, <2>3, Zenon
<1>5. PICK x \in T : TRUE
  BY <1>4
<1> DEFINE U == T \ {x}
<1>6. SumFunctionOnSet(f, S \cup U) = SumFunctionOnSet(f, S) + SumFunctionOnSet(f, U)
  BY <1>1, <1>5
<1>7. SumFunctionOnSet(f, T) = f[x] + SumFunctionOnSet(f, U)
  BY <1>2, SumByElement
<1>8. SumFunctionOnSet(f, S \cup T) = f[x] + SumFunctionOnSet(f, S \cup U)
  <2>1. IsFiniteSet(S \cup T)
    BY <1>2, FS_Union
  <2>2. (S \cup T) \ {x} = S \cup U
    BY <1>2
  <2>3. \A y \in S \cup T : f[y] \in Nat
    BY <1>2
  <2> QED
    BY <2>1, <2>2, <2>3, SumByElement
<1>9. SumFunctionOnSet(f, U) \in Nat /\ f[x] \in Nat
  <2>1. IsFiniteSet(U) /\ U \subseteq P
    BY <1>2, FS_RemoveElement
  <2> QED
    BY <1>2, <2>1, SumType
<1>10. SumFunctionOnSet(f, S \cup T) # SumFunctionOnSet(f, S) + SumFunctionOnSet(f, T)
  OBVIOUS
<1> HIDE DEF F, U
<1> QED
  BY <1>3, <1>6, <1>7, <1>8, <1>9, <1>10

\* A part adds up to no more than the whole.
LEMMA SumOfPart ==
  ASSUME NEW f, NEW S, IsFiniteSet(S), NEW P \in SUBSET S, \A x \in S : f[x] \in Nat
  PROVE  SumFunctionOnSet(f, P) <= SumFunctionOnSet(f, S)
<1>1. IsFiniteSet(P) /\ IsFiniteSet(S \ P) /\ S = P \cup (S \ P)
  BY FS_Subset
<1>2. SumFunctionOnSet(f, S) = SumFunctionOnSet(f, P) + SumFunctionOnSet(f, S \ P)
  <2>1. SumFunctionOnSet(f, P \cup (S \ P)) = SumFunctionOnSet(f, P) + SumFunctionOnSet(f, S \ P)
    BY <1>1, SumOfParts
  <2> QED
    BY <1>1, <2>1
<1>3. SumFunctionOnSet(f, P) \in Nat /\ SumFunctionOnSet(f, S \ P) \in Nat
  BY <1>1, SumType
<1> QED
  BY <1>2, <1>3

\* Smaller terms add up to no more.
LEMMA SumOfSmaller ==
  ASSUME NEW f, NEW g, NEW S, IsFiniteSet(S),
         \A x \in S : f[x] \in Nat /\ g[x] \in Nat /\ f[x] <= g[x]
  PROVE  SumFunctionOnSet(f, S) <= SumFunctionOnSet(g, S)
<1> DEFINE F == {T \in SUBSET S : ~(SumFunctionOnSet(f, T) <= SumFunctionOnSet(g, T))}
<1> SUFFICES ASSUME F # {} PROVE FALSE
  OBVIOUS
<1>1. PICK T \in F : \A U \in F : U \subseteq T => U = T
  <2>1. F \subseteq SUBSET S
    OBVIOUS
  <2> HIDE DEF F
  <2> QED
    BY <2>1, MinimalSubset
<1>2. IsFiniteSet(T) /\ T \subseteq S
  BY FS_Subset
<1>3. ~(SumFunctionOnSet(f, T) <= SumFunctionOnSet(g, T))
  OBVIOUS
<1>4. T # {}
  <2>1. SumFunctionOnSet(f, {}) = 0 /\ SumFunctionOnSet(g, {}) = 0
    BY <1>2, SumByChosen
  <2> HIDE DEF F
  <2> QED
    BY <1>3, <2>1
<1> DEFINE c == Chosen(T)
           R == T \ {c}
<1>5. c \in T
  BY <1>4 DEF Chosen
<1>6. SumFunctionOnSet(f, R) <= SumFunctionOnSet(g, R)
  BY <1>1, <1>5
<1>7. /\ SumFunctionOnSet(f, T) = f[c] + SumFunctionOnSet(f, R)
      /\ SumFunctionOnSet(g, T) = g[c] + SumFunctionOnSet(g, R)
  BY <1>2, <1>4, SumByChosen
<1>8. SumFunctionOnSet(f, R) \in Nat /\ SumFunctionOnSet(g, R) \in Nat
  BY <1>2, FS_Subset, SumType
<1>9. f[c] \in Nat /\ g[c] \in Nat /\ f[c] <= g[c]
  BY <1>2, <1>5
<1> HIDE DEF c, R, F
<1> QED
  BY <1>3, <1>6, <1>7, <1>8, <1>9

\* The sum over a set is the sum of the sums over blocks it falls into.
LEMMA SumOfBlocks ==
  ASSUME NEW B, IsFiniteSet(B), NEW block, NEW f, NEW g,
         \A b \in B : IsFiniteSet(block[b]) /\ g[b] = SumFunctionOnSet(f, block[b]),
         \A b, c \in B : b # c => block[b] \cap block[c] = {},
         \A b \in B : \A x \in block[b] : f[x] \in Nat
  PROVE  SumFunctionOnSet(f, UNION {block[b] : b \in B}) = SumFunctionOnSet(g, B)
<1> DEFINE All(C) == UNION {block[b] : b \in C}
           F == {C \in SUBSET B : SumFunctionOnSet(f, All(C)) # SumFunctionOnSet(g, C)}
<1> SUFFICES ASSUME F # {} PROVE FALSE
  OBVIOUS
<1>1. PICK C \in F : \A U \in F : U \subseteq C => U = C
  <2>1. F \subseteq SUBSET B
    OBVIOUS
  <2> HIDE DEF F
  <2> QED
    BY <2>1, MinimalSubset
<1>2. IsFiniteSet(C) /\ C \subseteq B
  BY FS_Subset
<1>3. SumFunctionOnSet(f, All(C)) # SumFunctionOnSet(g, C)
  OBVIOUS
<1>4. C # {}
  <2>1. All({}) = {}
    OBVIOUS
  <2> HIDE DEF All, F
  <2> QED
    BY <1>2, <1>3, <2>1, SumByChosen
<1>5. PICK b \in C : TRUE
  BY <1>4
<1> DEFINE D == C \ {b}
<1>6. SumFunctionOnSet(f, All(D)) = SumFunctionOnSet(g, D)
  BY <1>1, <1>5
<1>7. All(C) = All(D) \cup block[b] /\ All(D) \cap block[b] = {}
  BY <1>2
<1>8. IsFiniteSet(D) /\ D \subseteq B
  BY <1>2, FS_RemoveElement
<1>9. IsFiniteSet(All(D)) /\ IsFiniteSet(block[b])
  <2>1. IsFiniteSet({block[d] : d \in D})
    <3> DEFINE blocks == {block[d] : d \in D}
    <3>1. [d \in D |-> block[d]] \in Surjection(D, blocks)
      BY DEF Surjection
    <3>2. IsFiniteSet(blocks)
      <4> HIDE DEF blocks, D
      <4> QED
        BY <1>8, <3>1, FS_Surjection
    <3> QED
      BY <3>2
  <2>2. \A T \in {block[d] : d \in D} : IsFiniteSet(T)
    BY <1>8
  <2> QED
    BY <1>2, <2>1, <2>2, FS_UNION
<1>10. \A x \in All(D) \cup block[b] : f[x] \in Nat
  BY <1>2
<1>11. SumFunctionOnSet(f, All(C)) = SumFunctionOnSet(f, All(D)) + g[b]
  <2>1. g[b] = SumFunctionOnSet(f, block[b])
    BY <1>2
  <2> HIDE DEF All, D
  <2> QED
    BY <1>7, <1>9, <1>10, <2>1, SumOfParts
<1> HIDE DEF D
<1>12. \A c \in C : g[c] \in Nat
  BY <1>2, SumType
<1>13. SumFunctionOnSet(g, C) = g[b] + SumFunctionOnSet(g, D)
  BY <1>2, <1>12, SumByElement DEF D
<1>14. SumFunctionOnSet(g, D) \in Nat /\ g[b] \in Nat
  <2>1. D \subseteq C
    BY DEF D
  <2> QED
    BY <1>8, <1>12, <2>1, SumType
<1> HIDE DEF All, F, D
<1> QED
  BY <1>3, <1>6, <1>11, <1>13, <1>14

-----------------------------------------------------------------------------
(***************************************************************************)
(* Remainders: a word keeps a sum's remainder, whatever was cut before.    *)
(***************************************************************************)
LEMMA Divided ==
  ASSUME NEW a \in Int, NEW m \in Nat \ {0}
  PROVE  /\ a % m \in 0 .. m - 1 /\ a \div m \in Int
         /\ a = m * (a \div m) + (a % m)
OBVIOUS

LEMMA RemainderIs ==
  ASSUME NEW q \in Int, NEW m \in Nat \ {0}, NEW r \in 0 .. m - 1
  PROVE  (m * q + r) % m = r
OBVIOUS

LEMMA RemainderOfSum ==
  ASSUME NEW a \in Int, NEW b \in Int, NEW m \in Nat \ {0}
  PROVE  /\ ((a % m) + b) % m = (a + b) % m
         /\ ((a % m) - b) % m = (a - b) % m
         /\ a \in 0 .. m - 1 => a % m = a
<1>1. ASSUME NEW c \in Int PROVE ((a % m) + c) % m = (a + c) % m
  <2> DEFINE q == a \div m
             r == (a % m) + c
             p == r \div m
             s == r % m
  <2>1. a = m * q + (a % m) /\ q \in Int /\ a % m \in Int
    BY Divided
  <2>2. r = m * p + s /\ p \in Int /\ s \in 0 .. m - 1
    <3>1. r \in Int
      BY <2>1
    <3> HIDE DEF r
    <3> QED
      BY <3>1, Divided
  <2> HIDE DEF q, p, s
  <2>3. a + c = m * q + r
    BY <2>1
  <2> HIDE DEF r
  <2>4. a + c = m * (q + p) + s
    BY <2>1, <2>2, <2>3
  <2>5. (m * (q + p) + s) % m = s
    BY <2>1, <2>2, RemainderIs
  <2> QED
    BY <2>4, <2>5 DEF s, r
<1>2. -b \in Int /\ a + (-b) = a - b /\ (a % m) + (-b) = (a % m) - b
  OBVIOUS
<1>3. ((a % m) + (-b)) % m = (a + (-b)) % m
  BY <1>1, <1>2
<1>4. a \in 0 .. m - 1 => a % m = a
  <2>1. a \in 0 .. m - 1 => (m * 0 + a) % m = a
    BY RemainderIs
  <2> QED
    BY <2>1
<1> QED
  BY <1>1, <1>2, <1>3, <1>4

\* Cutting a number to a word never makes it greater.
LEMMA RemainderAtMost ==
  ASSUME NEW a \in Nat, NEW m \in Nat \ {0}
  PROVE  a % m \in Nat /\ a % m <= a
<1>1. a % m \in 0 .. m - 1
  BY Divided
<1>2. CASE a < m
  BY <1>2, RemainderOfSum
<1>3. CASE a >= m
  BY <1>1, <1>3
<1> QED
  BY <1>2, <1>3

\* Counting on from any number, a circle of m places is gone round in m steps:
\* no place comes twice,
LEMMA RoundDiffers ==
  ASSUME NEW h \in Int, NEW m \in Nat \ {0}, NEW i \in 0 .. m - 1, NEW j \in 0 .. m - 1,
         (h + i) % m = (h + j) % m
  PROVE  i = j
<1>1. \A k \in 0 .. m - 1 : (((h + k) % m) - h) % m = k
  <2>1. ASSUME NEW k \in 0 .. m - 1 PROVE (((h + k) % m) - h) % m = k
    <3>1. (((h + k) % m) - h) % m = ((h + k) - h) % m
      <4>1. h + k \in Int
        OBVIOUS
      <4> QED
        BY <4>1, RemainderOfSum
    <3>2. (h + k) - h = k
      OBVIOUS
    <3>3. k % m = k
      BY RemainderOfSum
    <3> QED
      BY <3>1, <3>2, <3>3
  <2> QED
    BY <2>1
<1> QED
  BY <1>1

\* and every place comes.
LEMMA RoundReaches ==
  ASSUME NEW h \in Int, NEW m \in Nat \ {0}, NEW x \in 0 .. m - 1
  PROVE  \E d \in 0 .. m - 1 : (h + d) % m = x
<1> DEFINE a == x - h
           d == a % m
<1>1. a \in Int /\ a + h = x
  OBVIOUS
<1> HIDE DEF a
<1>2. d \in 0 .. m - 1
  BY <1>1, Divided
<1>3. (d + h) % m = (a + h) % m
  BY <1>1, RemainderOfSum
<1>4. x % m = x
  BY RemainderOfSum
<1>5. d + h = h + d
  BY <1>2
<1>6. (h + d) % m = x
  BY <1>1, <1>3, <1>4, <1>5
<1> QED
  BY <1>2, <1>6

\* Quotients: numbers in blocks of m.
LEMMA QuotientBounds ==
  ASSUME NEW a \in Nat, NEW b \in Nat, NEW m \in Nat \ {0}
  PROVE  /\ a \div m \in Nat
         /\ a \div m < b <=> a < b * m
         /\ a \div m = b /\ a % m = 0 <=> a = b * m
<1> DEFINE q == a \div m
           r == a % m
<1>1. q \in Int /\ r \in 0 .. m - 1 /\ a = m * q + r
  BY Divided
<1> HIDE DEF q, r
<1>2. q >= 0
  <2>1. ASSUME q <= -1 PROVE m * q <= -m
    BY <1>1, <2>1
  <2> QED
    BY <1>1, <2>1
<1>3. q < b => a < b * m
  <2>1. ASSUME q + 1 <= b PROVE m * (q + 1) <= b * m
    BY <1>1, <1>2, <2>1
  <2>2. m * (q + 1) = m * q + m
    BY <1>1
  <2> QED
    BY <1>1, <1>2, <2>1, <2>2
<1>4. q >= b => a >= b * m
  <2>1. ASSUME q >= b PROVE m * q >= b * m
    BY <1>1, <1>2, <2>1
  <2> QED
    BY <1>1, <1>2, <2>1
<1>5. a = b * m => q = b /\ r = 0
  <2>1. ASSUME a = b * m PROVE q = b
    <3>1. q < b + 1
      <4>1. ASSUME q >= b + 1 PROVE m * q >= m * (b + 1)
        BY <1>1, <1>2, <4>1
      <4>2. m * (b + 1) = b * m + m
        OBVIOUS
      <4> QED
        BY <1>1, <1>2, <2>1, <4>1, <4>2
    <3>2. q >= b
      BY <1>1, <1>2, <1>3, <2>1
    <3> QED
      BY <1>1, <3>1, <3>2
  <2> QED
    BY <1>1, <2>1
<1>6. q = b /\ r = 0 => a = b * m
  BY <1>1
<1>7. q \in Nat
  BY <1>1, <1>2
<1>8. a < b * m => q < b
  BY <1>1, <1>4, <1>7
<1>9. a \div m = q /\ a % m = r
  BY DEF q, r
<1> QED
  BY <1>3, <1>5, <1>6, <1>7, <1>8, <1>9

LEMMA QuotientTells ==
  ASSUME NEW a \in Nat, NEW b \in Nat, NEW m \in Nat \ {0},
         a \div m = b \div m, a % m = b % m
  PROVE  a = b
<1>1. a = m * (a \div m) + (a % m) /\ b = m * (b \div m) + (b % m)
  BY Divided
<1> QED
  BY <1>1

===============================================================================
