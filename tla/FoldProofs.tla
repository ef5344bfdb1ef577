----------------------------- MODULE FoldProofs ------------------------------
(***************************************************************************)
(* Induction, and what the folds of the models compute.  The induction     *)
(* theorems of the library take a predicate as a parameter; here it is a   *)
(* set, the arguments it is true of.                                       *)
(***************************************************************************)
EXTENDS Functions, Selection, FiniteSetTheorems, SequenceTheorems, TLAPS

(* Whatever holds of no element, and of one element more than any set it   *)
(* holds of, holds of a finite set.                                        *)
LEMMA FiniteInduction ==
  ASSUME NEW S, IsFiniteSet(S), NEW Good, {} \in Good,
         \A T \in SUBSET S : \A x \in S \ T : T \in Good => T \cup {x} \in Good
  PROVE  S \in Good
<1> DEFINE Bad == (SUBSET S) \ Good
<1>1. SUFFICES ASSUME S \notin Good PROVE FALSE
  OBVIOUS
<1>2. IsWellFoundedOn(StrictSubsetOrdering(S), FiniteSubsetsOf(S))
  BY FS_StrictSubsetOrderingWellFounded
<1>3. Bad \subseteq FiniteSubsetsOf(S) /\ Bad # {}
  BY <1>1, FS_FiniteSubsetsOfFinite
<1>4. PICK T \in Bad : \A U \in Bad : <<U, T>> \notin StrictSubsetOrdering(S)
  BY <1>2, <1>3, WFMin
<1>5. PICK x \in T : TRUE
  OBVIOUS
<1>6. <<T \ {x}, T>> \in StrictSubsetOrdering(S)
  BY <1>5 DEF StrictSubsetOrdering
<1>7. T \ {x} \in Good
  BY <1>4, <1>5, <1>6
<1>8. (T \ {x}) \cup {x} = T
  BY <1>5
<1>9. QED  BY <1>5, <1>7, <1>8

LEMMA NumberInduction ==
  ASSUME NEW Good, 0 \in Good, \A n \in Nat : n \in Good => n + 1 \in Good
  PROVE  Nat \subseteq Good
<1> DEFINE Bad == Nat \ Good
           Less == {p \in Nat \X Nat : p[1] < p[2]}
<1>1. SUFFICES ASSUME Bad # {} PROVE FALSE
  OBVIOUS
<1>2. IsWellFoundedOn(Less, Nat)
  BY NatLessThanWellFounded DEF OpToRel
<1> HIDE DEF Less
<1>3. PICK n \in Bad : \A m \in Bad : <<m, n>> \notin Less
  BY <1>1, <1>2, WFMin
<1>4. n - 1 \in Nat /\ n - 1 < n /\ (n - 1) + 1 = n
  OBVIOUS
<1>5. <<n - 1, n>> \in Less
  BY <1>4 DEF Less
<1>6. QED  BY <1>3, <1>4, <1>5

-----------------------------------------------------------------------------
(* The sum of a function on a finite set is recursive over its subsets.    *)
Chosen(s) == CHOOSE x \in s : TRUE
SumStep(f, g, s) == IF s = {} THEN 0 ELSE f[Chosen(s)] + g[s \ {Chosen(s)}]
PartialSums(f, S) == CHOOSE g : g = [s \in SUBSET S |-> SumStep(f, g, s)]

LEMMA SumIs == \A f, S : SumFunctionOnSet(f, S) = PartialSums(f, S)[S]
  BY DEF SumFunctionOnSet, FoldFunctionOnSet, MapThenFoldSet, PartialSums, SumStep, Chosen

LEMMA Smaller ==
  ASSUME NEW S, IsFiniteSet(S), NEW s \in SUBSET S, s # {}
  PROVE  /\ Chosen(s) \in s /\ IsFiniteSet(s) /\ s \ {Chosen(s)} \in SUBSET S
         /\ Cardinality(s) \in Nat /\ Cardinality(s \ {Chosen(s)}) = Cardinality(s) - 1
<1>1. Chosen(s) \in s
  BY DEF Chosen
<1>2. IsFiniteSet(s)
  BY FS_Subset
<1>3. QED  BY <1>1, <1>2, FS_RemoveElement, FS_CardinalityType

(* The recursion is well founded: it is right for sets up to any size.     *)
LEMMA SumsExist ==
  ASSUME NEW f, NEW S, IsFiniteSet(S)
  PROVE  \A s \in SUBSET S : PartialSums(f, S)[s] = SumStep(f, PartialSums(f, S), s)
<1> DEFINE Right(n, g) == /\ g = [s \in SUBSET S |-> g[s]]
                          /\ \A s \in SUBSET S : Cardinality(s) <= n => g[s] = SumStep(f, g, s)
           Good == {n \in Nat : \E g : Right(n, g)}
<1>1. 0 \in Good
  <2> DEFINE g == [s \in SUBSET S |-> 0]
  <2>1. ASSUME NEW s \in SUBSET S, Cardinality(s) <= 0 PROVE s = {}
    BY <2>1, FS_Subset, FS_EmptySet, FS_CardinalityType
  <2>2. Right(0, g)
    BY <2>1 DEF SumStep
  <2>3. QED  BY <2>2
<1>2. ASSUME NEW n \in Nat, n \in Good PROVE n + 1 \in Good
  <2>1. PICK g : Right(n, g)
    BY <1>2
  <2> DEFINE h == [s \in SUBSET S |-> SumStep(f, g, s)]
  <2>2. ASSUME NEW s \in SUBSET S, Cardinality(s) <= n + 1 PROVE h[s] = SumStep(f, h, s)
    <3>1. CASE s = {}
      BY <3>1 DEF SumStep
    <3>2. CASE s # {}
      <4> DEFINE r == s \ {Chosen(s)}
      <4>1. r \in SUBSET S /\ Cardinality(r) <= n
        BY <2>2, <3>2, Smaller
      <4>2. h[r] = g[r]
        BY <2>1, <4>1
      <4>3. QED  BY <3>2, <4>2 DEF SumStep
    <3>3. QED  BY <3>1, <3>2
  <2>3. h = [s \in SUBSET S |-> h[s]]
    OBVIOUS
  <2> HIDE DEF h
  <2>4. Right(n + 1, h)
    BY <2>2, <2>3
  <2> HIDE DEF Right
  <2>5. QED  BY <2>4
<1>3. Cardinality(S) \in Good
  <2> HIDE DEF Good
  <2>1. Nat \subseteq Good
    BY <1>1, <1>2, NumberInduction
  <2>2. QED  BY <2>1, FS_CardinalityType
<1>4. PICK g : Right(Cardinality(S), g)
  BY <1>3
<1>5. \A s \in SUBSET S : Cardinality(s) <= Cardinality(S)
  BY FS_Subset
<1>6. \A s \in SUBSET S : g[s] = SumStep(f, g, s)
  BY <1>4, <1>5
<1>7. g = [s \in SUBSET S |-> SumStep(f, g, s)]
  BY <1>4, <1>6
<1> DEFINE h == PartialSums(f, S)
<1>8. h = [s \in SUBSET S |-> SumStep(f, h, s)]
  BY <1>7 DEF PartialSums
<1> HIDE DEF h
<1>9. \A s \in SUBSET S : h[s] = SumStep(f, h, s)
  BY <1>8
<1>10. QED  BY <1>9 DEF h

LEMMA SumsAgree ==
  ASSUME NEW f, NEW S, IsFiniteSet(S), NEW U \in SUBSET S
  PROVE  \A s \in SUBSET U : PartialSums(f, U)[s] = PartialSums(f, S)[s]
<1> DEFINE Alike(n) == \A s \in SUBSET U : Cardinality(s) <= n => PartialSums(f, U)[s] = PartialSums(f, S)[s]
           Good == {n \in Nat : Alike(n)}
<1>1. IsFiniteSet(U)
  BY FS_Subset
<1>2. /\ \A s \in SUBSET U : PartialSums(f, U)[s] = SumStep(f, PartialSums(f, U), s)
      /\ \A s \in SUBSET U : PartialSums(f, S)[s] = SumStep(f, PartialSums(f, S), s)
  BY <1>1, SumsExist
<1>3. ASSUME NEW s \in SUBSET U, s = {} PROVE PartialSums(f, U)[s] = PartialSums(f, S)[s]
  BY <1>2, <1>3 DEF SumStep
<1>4. Alike(0)
  <2>1. ASSUME NEW s \in SUBSET U, Cardinality(s) <= 0 PROVE s = {}
    BY <1>1, <2>1, FS_Subset, FS_EmptySet, FS_CardinalityType
  <2>2. QED  BY <1>3, <2>1
<1>5. ASSUME NEW n \in Nat, Alike(n) PROVE Alike(n + 1)
  <2>1. ASSUME NEW s \in SUBSET U, Cardinality(s) <= n + 1, s # {}
        PROVE  PartialSums(f, U)[s] = PartialSums(f, S)[s]
    <3> DEFINE r == s \ {Chosen(s)}
    <3>1. r \in SUBSET U /\ Cardinality(r) <= n
      BY <1>1, <2>1, Smaller
    <3>2. PartialSums(f, U)[r] = PartialSums(f, S)[r]
      BY <1>5, <3>1
    <3>3. QED  BY <1>2, <2>1, <3>2 DEF SumStep
  <2>2. QED  BY <1>3, <2>1
<1>6. Cardinality(U) \in Good
  <2>1. 0 \in Good /\ \A n \in Nat : n \in Good => n + 1 \in Good
    BY <1>4, <1>5
  <2> HIDE DEF Good
  <2>2. Nat \subseteq Good
    BY <2>1, NumberInduction
  <2>3. QED  BY <1>1, <2>2, FS_CardinalityType
<1>7. QED  BY <1>1, <1>6, FS_Subset

LEMMA SumUnfold ==
  ASSUME NEW f, NEW S, IsFiniteSet(S)
  PROVE  SumFunctionOnSet(f, S) =
           IF S = {} THEN 0 ELSE f[Chosen(S)] + SumFunctionOnSet(f, S \ {Chosen(S)})
<1>1. PartialSums(f, S)[S] = SumStep(f, PartialSums(f, S), S)
  BY SumsExist
<1>2. CASE S = {}
  BY <1>1, <1>2, SumIs DEF SumStep
<1>3. CASE S # {}
  <2> DEFINE r == S \ {Chosen(S)}
  <2>1. PartialSums(f, r)[r] = PartialSums(f, S)[r]
    BY SumsAgree
  <2>2. QED  BY <1>1, <1>3, <2>1, SumIs DEF SumStep
<1>4. QED  BY <1>2, <1>3

(* Any element may be taken off, not only the chosen one; the sum of       *)
(* natural numbers is a natural number.                                    *)
Naturally(f, S) == \A x \in S : f[x] \in Nat

LEMMA SumParts ==
  ASSUME NEW f, NEW S, IsFiniteSet(S), Naturally(f, S)
  PROVE  /\ SumFunctionOnSet(f, S) \in Nat
         /\ \A x \in S : SumFunctionOnSet(f, S) = f[x] + SumFunctionOnSet(f, S \ {x})
<1> DEFINE Parts(T) == /\ SumFunctionOnSet(f, T) \in Nat
                       /\ \A x \in T : SumFunctionOnSet(f, T) = f[x] + SumFunctionOnSet(f, T \ {x})
           UpTo(n) == \A T \in SUBSET S : Cardinality(T) <= n => Parts(T)
           Good == {n \in Nat : UpTo(n)}
<1>1. ASSUME NEW T \in SUBSET S PROVE IsFiniteSet(T) /\ Cardinality(T) \in Nat
  BY FS_Subset, FS_CardinalityType
<1>2. ASSUME NEW T \in SUBSET S, T = {} PROVE Parts(T)
  BY <1>1, <1>2, SumUnfold
<1>3. UpTo(0)
  <2>1. ASSUME NEW T \in SUBSET S, Cardinality(T) <= 0 PROVE T = {}
    BY <1>1, <2>1, FS_EmptySet
  <2>2. QED  BY <1>2, <2>1
<1>4. ASSUME NEW n \in Nat, UpTo(n) PROVE UpTo(n + 1)
  <2> SUFFICES ASSUME NEW T \in SUBSET S, Cardinality(T) <= n + 1, T # {} PROVE Parts(T)
    BY <1>2
  <2> DEFINE c == Chosen(T)
  <2>1. c \in T /\ T \ {c} \in SUBSET S /\ f[c] \in Nat
    BY Smaller DEF Naturally
  <2>2. ASSUME NEW x \in T PROVE Parts(T \ {x})
    <3>1. Cardinality(T \ {x}) <= n
      BY <1>1, FS_RemoveElement
    <3>2. QED  BY <1>4, <3>1
  <2>3. SumFunctionOnSet(f, T) = f[c] + SumFunctionOnSet(f, T \ {c})
    BY <1>1, SumUnfold
  <2>4. ASSUME NEW x \in T PROVE SumFunctionOnSet(f, T) = f[x] + SumFunctionOnSet(f, T \ {x})
    <3>1. CASE x = c
      BY <2>3, <3>1
    <3>2. CASE x # c
      <4> DEFINE rest == SumFunctionOnSet(f, (T \ {c}) \ {x})
      <4>1. (T \ {c}) \ {x} = (T \ {x}) \ {c} /\ x \in T \ {c} /\ c \in T \ {x}
        BY <2>1, <3>2
      <4>2. SumFunctionOnSet(f, T \ {c}) = f[x] + rest
        BY <2>1, <2>2, <4>1
      <4>3. SumFunctionOnSet(f, T \ {x}) = f[c] + rest
        BY <2>2, <4>1
      <4>4. rest \in Nat /\ f[x] \in Nat
        <5>1. (T \ {c}) \ {x} \in SUBSET S /\ (T \ {c}) \ {x} \subseteq T \ {x}
          OBVIOUS
        <5>2. Cardinality((T \ {c}) \ {x}) <= Cardinality(T \ {x})
          BY <1>1, <5>1, FS_Subset
        <5>3. Cardinality(T \ {x}) = Cardinality(T) - 1
          BY <1>1, FS_RemoveElement
        <5>4. Cardinality((T \ {c}) \ {x}) <= n
          BY <1>1, <5>1, <5>2, <5>3
        <5>5. QED  BY <1>4, <5>1, <5>4 DEF Naturally
      <4> HIDE DEF rest
      <4>5. QED  BY <2>1, <2>3, <4>2, <4>3, <4>4
    <3>3. QED  BY <3>1, <3>2
  <2>5. SumFunctionOnSet(f, T) \in Nat
    BY <2>1, <2>2, <2>3
  <2>6. QED  BY <2>4, <2>5
<1> HIDE DEF UpTo
<1>5. Cardinality(S) \in Good
  <2>1. 0 \in Good /\ \A n \in Nat : n \in Good => n + 1 \in Good
    BY <1>3, <1>4
  <2> HIDE DEF Good
  <2>2. Nat \subseteq Good
    BY <2>1, NumberInduction
  <2>3. QED  BY <1>1, <2>2
<1>6. Cardinality(S) <= Cardinality(S)
  BY <1>1
<1>7. QED  BY <1>5, <1>6 DEF UpTo

LEMMA SumWith ==
  ASSUME NEW f, NEW S, IsFiniteSet(S), Naturally(f, S), NEW T \in SUBSET S, NEW x \in S \ T
  PROVE  /\ SumFunctionOnSet(f, T) \in Nat /\ f[x] \in Nat
         /\ SumFunctionOnSet(f, T \cup {x}) = f[x] + SumFunctionOnSet(f, T)
<1>1. /\ IsFiniteSet(T) /\ IsFiniteSet(T \cup {x})
      /\ Naturally(f, T) /\ Naturally(f, T \cup {x}) /\ f[x] \in Nat
  BY FS_Subset DEF Naturally
<1>2. (T \cup {x}) \ {x} = T
  OBVIOUS
<1>3. QED  BY <1>1, <1>2, SumParts

LEMMA SumEmpty == \A f : SumFunctionOnSet(f, {}) = 0
  BY SumUnfold, FS_EmptySet

(* Of two functions with one below the other the sums are so, too.         *)
LEMMA SumBelow ==
  ASSUME NEW f, NEW g, NEW S, IsFiniteSet(S), Naturally(f, S), Naturally(g, S),
         \A x \in S : f[x] <= g[x]
  PROVE  SumFunctionOnSet(f, S) <= SumFunctionOnSet(g, S)
<1> DEFINE Good == {T \in SUBSET S : SumFunctionOnSet(f, T) <= SumFunctionOnSet(g, T)}
<1>1. {} \in Good
  BY SumEmpty
<1>2. ASSUME NEW T \in SUBSET S, NEW x \in S \ T, T \in Good PROVE T \cup {x} \in Good
  BY <1>2, SumWith
<1>3. S \in Good
  <2> HIDE DEF Good
  <2>1. QED  BY <1>1, <1>2, FiniteInduction
<1>4. QED  BY <1>3

LEMMA SumAlike ==
  ASSUME NEW f, NEW g, NEW S, IsFiniteSet(S), Naturally(f, S), \A x \in S : f[x] = g[x]
  PROVE  SumFunctionOnSet(f, S) = SumFunctionOnSet(g, S)
<1>1. Naturally(g, S) /\ \A x \in S : f[x] <= g[x] /\ g[x] <= f[x]
  BY DEF Naturally
<1>2. /\ SumFunctionOnSet(f, S) <= SumFunctionOnSet(g, S)
      /\ SumFunctionOnSet(g, S) <= SumFunctionOnSet(f, S)
  BY <1>1, SumBelow
<1>3. SumFunctionOnSet(f, S) \in Nat /\ SumFunctionOnSet(g, S) \in Nat
  BY <1>1, SumParts
<1>4. QED  BY <1>2, <1>3

(* What is added to one value is added to the sum.                         *)
LEMMA SumPut ==
  ASSUME NEW f, NEW g, NEW S, IsFiniteSet(S), Naturally(f, S), NEW x \in S, NEW n \in Nat,
         g[x] = f[x] + n, \A y \in S \ {x} : g[y] = f[y]
  PROVE  SumFunctionOnSet(g, S) = SumFunctionOnSet(f, S) + n
<1>1. /\ Naturally(g, S) /\ Naturally(f, S \ {x}) /\ IsFiniteSet(S \ {x})
      /\ \A y \in S \ {x} : f[y] = g[y]
  BY FS_Subset DEF Naturally
<1>2. /\ SumFunctionOnSet(f, S) = f[x] + SumFunctionOnSet(f, S \ {x})
      /\ SumFunctionOnSet(g, S) = g[x] + SumFunctionOnSet(g, S \ {x})
  BY <1>1, SumParts
<1>3. SumFunctionOnSet(f, S \ {x}) = SumFunctionOnSet(g, S \ {x})
  BY <1>1, SumAlike
<1>4. SumFunctionOnSet(f, S \ {x}) \in Nat /\ f[x] \in Nat
  BY <1>1, SumParts DEF Naturally
<1>5. QED  BY <1>2, <1>3, <1>4

(* One more for each member of a set adds the size of the set.             *)
LEMMA SumCounts ==
  ASSUME NEW f, NEW g, NEW S, IsFiniteSet(S), Naturally(f, S), NEW A \in SUBSET S,
         \A x \in S : g[x] = f[x] + IF x \in A THEN 1 ELSE 0
  PROVE  SumFunctionOnSet(g, S) = SumFunctionOnSet(f, S) + Cardinality(A)
<1> DEFINE Counted(T) == SumFunctionOnSet(g, T) = SumFunctionOnSet(f, T) + Cardinality(A \cap T)
           Good == {T \in SUBSET S : Counted(T)}
<1>0. Naturally(g, S)
  BY DEF Naturally
<1>1. {} \in Good
  <2>1. A \cap {} = {} /\ Cardinality({}) = 0
    BY FS_EmptySet
  <2>2. QED  BY <2>1, SumEmpty
<1>2. ASSUME NEW T \in SUBSET S, NEW x \in S \ T, T \in Good PROVE T \cup {x} \in Good
  <2>1. /\ SumFunctionOnSet(f, T) \in Nat /\ f[x] \in Nat
        /\ SumFunctionOnSet(f, T \cup {x}) = f[x] + SumFunctionOnSet(f, T)
        /\ SumFunctionOnSet(g, T \cup {x}) = g[x] + SumFunctionOnSet(g, T)
    BY <1>0, SumWith
  <2>2. IsFiniteSet(A \cap T) /\ Cardinality(A \cap T) \in Nat
    BY FS_Subset, FS_CardinalityType
  <2>3. Cardinality(A \cap (T \cup {x})) = Cardinality(A \cap T) + IF x \in A THEN 1 ELSE 0
    <3>1. CASE x \in A
      <4>1. A \cap (T \cup {x}) = (A \cap T) \cup {x} /\ x \notin A \cap T
        BY <3>1
      <4>2. QED  BY <2>2, <3>1, <4>1, FS_AddElement
    <3>2. CASE x \notin A
      <4>1. A \cap (T \cup {x}) = A \cap T
        BY <3>2
      <4>2. Cardinality(A \cap (T \cup {x})) = Cardinality(A \cap T)
        BY <4>1, Zenon
      <4>3. QED  BY <2>2, <3>2, <4>2
    <3>3. QED  BY <3>1, <3>2
  <2>4. Counted(T)
    BY <1>2
  <2>5. g[x] = f[x] + IF x \in A THEN 1 ELSE 0
    OBVIOUS
  <2>6. Counted(T \cup {x})
    BY <2>1, <2>2, <2>3, <2>4, <2>5
  <2>7. QED  BY <2>6
<1>3. S \in Good
  <2> HIDE DEF Good
  <2>1. QED  BY <1>1, <1>2, FiniteInduction
<1>4. A \cap S = A
  OBVIOUS
<1>5. QED  BY <1>3, <1>4

LEMMA SumZero ==
  ASSUME NEW f, NEW S, IsFiniteSet(S), \A x \in S : f[x] = 0
  PROVE  SumFunctionOnSet(f, S) = 0
<1> DEFINE Good == {T \in SUBSET S : SumFunctionOnSet(f, T) = 0}
<1>0. Naturally(f, S)
  BY DEF Naturally
<1>1. {} \in Good
  BY SumEmpty
<1>2. ASSUME NEW T \in SUBSET S, NEW x \in S \ T, T \in Good PROVE T \cup {x} \in Good
  BY <1>0, <1>2, SumWith
<1>3. S \in Good
  <2> HIDE DEF Good
  <2>1. QED  BY <1>1, <1>2, FiniteInduction
<1>4. QED  BY <1>3

-----------------------------------------------------------------------------
(* What Selection collects, after each member of the sequence.             *)
CollectStep(g, list, places, n) ==
  IF n = 0 THEN <<>> ELSE IF n \in places THEN Append(g[n - 1], list[n]) ELSE g[n - 1]
Collecting(list, places) ==
  CHOOSE g : g = [n \in 0..Len(list) |-> CollectStep(g, list, places, n)]

LEMMA CollectedIs == \A list, places : Collected(list, places) = Collecting(list, places)
  BY DEF Collected, Collecting, CollectStep

LEMMA CollectedUnfolds ==
  ASSUME NEW S, NEW list \in Seq(S), NEW places
  PROVE  \A n \in 0..Len(list) : Collected(list, places)[n] =
           IF n = 0 THEN <<>>
           ELSE IF n \in places THEN Append(Collected(list, places)[n - 1], list[n])
           ELSE Collected(list, places)[n - 1]
<1> DEFINE N == Len(list)
           Right(m, g) == \A k \in 0..N : k <= m => g[k] = CollectStep(g, list, places, k)
           Good == {m \in Nat : \E g : Right(m, g)}
<1>0. N \in Nat
  OBVIOUS
<1> HIDE DEF N
<1>1. 0 \in Good
  <2> DEFINE g == [k \in 0..N |-> <<>>]
  <2>1. Right(0, g)
    BY <1>0 DEF CollectStep
  <2>2. QED  BY <2>1
<1>2. ASSUME NEW m \in Nat, m \in Good PROVE m + 1 \in Good
  <2>1. PICK g : Right(m, g)
    BY <1>2
  <2> DEFINE h == [k \in 0..N |-> CollectStep(g, list, places, k)]
  <2>2. ASSUME NEW k \in 0..N, k <= m + 1 PROVE h[k] = CollectStep(h, list, places, k)
    <3>1. CASE k = 0
      BY <3>1 DEF CollectStep
    <3>2. CASE k # 0
      <4>1. k - 1 \in 0..N /\ k - 1 <= m
        BY <1>0, <2>2, <3>2
      <4>2. h[k - 1] = g[k - 1]
        BY <2>1, <4>1
      <4>3. QED  BY <4>2 DEF CollectStep
    <3>3. QED  BY <3>1, <3>2
  <2>3. Right(m + 1, h)
    BY <2>2
  <2> HIDE DEF h, Right
  <2>4. QED  BY <2>3
<1>3. Nat \subseteq Good
  <2> HIDE DEF Good
  <2>1. QED  BY <1>1, <1>2, NumberInduction
<1>4. PICK g : Right(N, g)
  BY <1>0, <1>3
<1> DEFINE h == [k \in 0..N |-> g[k]]
<1>5. \A k \in 0..N : h[k] = CollectStep(h, list, places, k)
  BY <1>0, <1>4 DEF CollectStep
<1>6. h = [k \in 0..N |-> CollectStep(h, list, places, k)]
  BY <1>5
<1> HIDE DEF h
<1> DEFINE t == Collecting(list, places)
<1>7. t = [k \in 0..N |-> CollectStep(t, list, places, k)]
  BY <1>6 DEF Collecting, N
<1> HIDE DEF t
<1>8. \A k \in 0..N : t[k] = CollectStep(t, list, places, k)
  BY <1>7
<1>9. QED  BY <1>8, CollectedIs DEF t, N, CollectStep

(* The same, from one place to the next.                                   *)
LEMMA CollectedSteps ==
  ASSUME NEW S, NEW list \in Seq(S), NEW places
  PROVE  /\ Collected(list, places)[0] = <<>>
         /\ \A n \in 0..Len(list) : n + 1 \in 0..Len(list) =>
              Collected(list, places)[n + 1] =
                IF n + 1 \in places THEN Append(Collected(list, places)[n], list[n + 1])
                ELSE Collected(list, places)[n]
<1> DEFINE c == Collected(list, places)
           N == Len(list)
<1>1. /\ N \in Nat
      /\ \A n \in 0..N : c[n] = IF n = 0 THEN <<>> ELSE IF n \in places
                               THEN Append(c[n - 1], list[n]) ELSE c[n - 1]
  BY CollectedUnfolds
<1> HIDE DEF c, N
<1>2. c[0] = <<>>
  BY <1>1
<1>3. ASSUME NEW n \in 0..N, n + 1 \in 0..N
      PROVE  c[n + 1] = IF n + 1 \in places THEN Append(c[n], list[n + 1]) ELSE c[n]
  <2>1. n + 1 # 0 /\ (n + 1) - 1 = n
    BY <1>1
  <2>2. QED  BY <1>1, <1>3, <2>1
<1>4. QED  BY <1>2, <1>3 DEF c, N

(* Each member of the collection stands at one of the places, before those *)
(* that come after it; and every place is taken.                           *)
TakenFrom(got, list, places, n) ==
  /\ got = [i \in 1..Len(got) |-> got[i]] /\ Len(got) \in Nat
  /\ \E at \in [1..Len(got) -> places \cap 1..n] :
       /\ \A i \in 1..Len(got) : got[i] = list[at[i]]
       /\ \A i, j \in 1..Len(got) : i < j => at[i] < at[j]
       /\ \A k \in places \cap 1..n : \E i \in 1..Len(got) : at[i] = k

LEMMA CollectedMeans ==
  ASSUME NEW S, NEW list \in Seq(S), NEW places
  PROVE  \A n \in 0..Len(list) : /\ Collected(list, places)[n] \in Seq(S)
                                 /\ TakenFrom(Collected(list, places)[n], list, places, n)
<1> DEFINE c == Collected(list, places)
           Holds(n) == c[n] \in Seq(S) /\ TakenFrom(c[n], list, places, n)
           Good == {n \in Nat : n <= Len(list) => Holds(n)}
<1>0. /\ Len(list) \in Nat
      /\ \A n \in 0..Len(list) : c[n] = IF n = 0 THEN <<>> ELSE IF n \in places
                                        THEN Append(c[n - 1], list[n]) ELSE c[n - 1]
  BY CollectedUnfolds
<1> HIDE DEF c
<1>1. 0 \in Good
  <2>0. 0 \in 0..Len(list)
    BY <1>0
  <2>1. c[0] = <<>> /\ Len(c[0]) = 0 /\ c[0] \in Seq(S)
    <3>1. c[0] = IF 0 = 0 THEN <<>> ELSE IF 0 \in places THEN Append(c[0 - 1], list[0]) ELSE c[0 - 1]
      BY <1>0, <2>0, Zenon
    <3>2. c[0] = <<>>
      BY <3>1
    <3>3. <<>> \in Seq(S) /\ Len(<<>>) = 0
      OBVIOUS
    <3>4. QED  BY <3>2, <3>3, Zenon
  <2>2. places \cap 1..0 = {} /\ 1..Len(c[0]) = {}
    BY <2>1
  <2> DEFINE at == [i \in 1..0 |-> 0]
  <2>3. at \in [1..Len(c[0]) -> places \cap 1..0] /\ c[0] = [i \in 1..Len(c[0]) |-> c[0][i]]
    BY <2>1, <2>2
  <2>4. TakenFrom(c[0], list, places, 0)
    <3> HIDE DEF at
    <3>1. QED  BY <2>1, <2>2, <2>3 DEF TakenFrom
  <2>5. QED  BY <2>1, <2>4
<1>2. ASSUME NEW n \in Nat, n \in Good PROVE n + 1 \in Good
  <2> SUFFICES ASSUME n + 1 <= Len(list) PROVE Holds(n + 1)
    OBVIOUS
  <2>1. Holds(n) /\ n + 1 \in 1..Len(list) /\ list[n + 1] \in S
    BY <1>0, <1>2
  <2>2. c[n + 1] = IF n + 1 \in places THEN Append(c[n], list[n + 1]) ELSE c[n]
    BY <1>0
  <2>3. PICK at \in [1..Len(c[n]) -> places \cap 1..n] :
          /\ \A i \in 1..Len(c[n]) : c[n][i] = list[at[i]]
          /\ \A i, j \in 1..Len(c[n]) : i < j => at[i] < at[j]
          /\ \A k \in places \cap 1..n : \E i \in 1..Len(c[n]) : at[i] = k
    BY <2>1 DEF TakenFrom
  <2> DEFINE old == c[n]
             got == c[n + 1]
  <2>4. old \in Seq(S) /\ Len(old) \in Nat /\ old = [i \in 1..Len(old) |-> old[i]]
    BY <2>1
  <2> HIDE DEF Holds, old, got
  <2>5. CASE n + 1 \in places
    <3> DEFINE to == [i \in 1..(Len(old) + 1) |-> IF i = Len(old) + 1 THEN n + 1 ELSE at[i]]
    <3>1. got = Append(old, list[n + 1])
      BY <2>2, <2>5 DEF old, got
    <3>2. /\ got \in Seq(S) /\ Len(got) = Len(old) + 1 /\ got[Len(old) + 1] = list[n + 1]
          /\ \A i \in 1..Len(old) : got[i] = old[i]
      BY <2>1, <2>4, <3>1
    <3>3. places \cap 1..(n + 1) = (places \cap 1..n) \cup {n + 1}
      BY <2>5
    <3>4. to \in [1..Len(got) -> places \cap 1..(n + 1)]
      BY <2>3, <2>4, <3>2, <3>3 DEF old
    <3>5. \A i \in 1..Len(old) : to[i] = at[i] /\ at[i] \in 1..n
      <4>1. at \in [1..Len(old) -> places \cap 1..n]
        BY <2>3 DEF old
      <4>2. \A i \in 1..Len(old) : i \in 1..(Len(old) + 1) /\ i # Len(old) + 1
        BY <2>4
      <4>3. QED  BY <4>1, <4>2
    <3>6. to[Len(got)] = n + 1
      BY <2>4, <3>2
    <3>7. \A i \in 1..Len(got) : i \in 1..Len(old) \/ i = Len(got)
      BY <2>4, <3>2
    <3> HIDE DEF to
    <3>8. \A i \in 1..Len(got) : got[i] = list[to[i]]
      BY <2>3, <3>2, <3>5, <3>6, <3>7 DEF old
    <3>9. \A i, j \in 1..Len(got) : i < j => to[i] < to[j]
      <4>1. SUFFICES ASSUME NEW i \in 1..Len(got), NEW j \in 1..Len(got), i < j PROVE to[i] < to[j]
        OBVIOUS
      <4>2. i \in 1..Len(old)
        BY <2>4, <3>2, <4>1
      <4>3. CASE j \in 1..Len(old)
        BY <2>3, <3>5, <4>1, <4>2, <4>3 DEF old
      <4>4. CASE j = Len(got)
        BY <3>5, <3>6, <4>2, <4>4
      <4>5. QED  BY <3>7, <4>3, <4>4
    <3>10. \A k \in places \cap 1..(n + 1) : \E i \in 1..Len(got) : to[i] = k
      <4>1. SUFFICES ASSUME NEW k \in places \cap 1..(n + 1) PROVE \E i \in 1..Len(got) : to[i] = k
        OBVIOUS
      <4>2. CASE k = n + 1
        BY <2>4, <3>2, <3>6, <4>2
      <4>3. CASE k \in places \cap 1..n
        <5>1. PICK i \in 1..Len(old) : at[i] = k
          BY <2>3, <4>3 DEF old
        <5>2. QED  BY <2>4, <3>2, <3>5, <5>1
      <4>4. QED  BY <3>3, <4>2, <4>3
    <3>11. got = [i \in 1..Len(got) |-> got[i]] /\ Len(got) \in Nat
      BY <3>2
    <3>12. TakenFrom(got, list, places, n + 1)
      BY <3>4, <3>8, <3>9, <3>10, <3>11 DEF TakenFrom
    <3>13. QED  BY <3>2, <3>12 DEF got, Holds
  <2>6. CASE n + 1 \notin places
    <3>1. got = old
      BY <2>2, <2>6 DEF old, got
    <3>2. places \cap 1..(n + 1) = places \cap 1..n
      BY <2>6
    <3>3. TakenFrom(old, list, places, n)
      BY <2>1 DEF Holds, old
    <3>4. TakenFrom(old, list, places, n + 1)
      BY <3>2, <3>3 DEF TakenFrom
    <3>5. QED  BY <2>4, <3>1, <3>4 DEF Holds, got
  <2>7. QED  BY <2>5, <2>6
<1>3. Nat \subseteq Good
  <2> HIDE DEF Good
  <2>1. QED  BY <1>1, <1>2, NumberInduction
<1>4. QED  BY <1>0, <1>3 DEF c
-----------------------------------------------------------------------------
(* A set of numbers has a least member.                                    *)
LEMMA LeastExists ==
  ASSUME NEW S, S \subseteq Nat, S # {}
  PROVE  \E j \in S : \A k \in S : j <= k
<1> DEFINE Less == {p \in Nat \X Nat : p[1] < p[2]}
<1>1. IsWellFoundedOn(Less, Nat)
  BY NatLessThanWellFounded DEF OpToRel
<1> HIDE DEF Less
<1>2. IsWellFoundedOn(Less, S)
  BY <1>1, IsWellFoundedOnSubset
<1>3. PICK j \in S : \A k \in S : <<k, j>> \notin Less
  BY <1>2, WFMin
<1>4. ASSUME NEW k \in S PROVE j <= k
  <2>1. j \in Nat /\ k \in Nat /\ ~(k < j)
    BY <1>3 DEF Less
  <2>2. QED  BY <2>1
<1>5. QED  BY <1>4

(* A function given by its first value and its steps exists.               *)
Stepwise(f, N, init, F) ==
  f[0] = init /\ \A n \in 0..N : n # 0 => f[n] = F[<<f[n - 1], n>>]

LEMMA StepsExist ==
  ASSUME NEW V, NEW init \in V, NEW N \in Nat, NEW F \in [V \X (1..N) -> V]
  PROVE  \E f \in [0..N -> V] : Stepwise(f, N, init, F)
<1> DEFINE Good == {m \in Nat : m <= N => \E f \in [0..m -> V] : Stepwise(f, m, init, F)}
<1>1. 0 \in Good
  <2> DEFINE f == [k \in 0..0 |-> init]
  <2>1. f \in [0..0 -> V] /\ f[0] = init /\ \A n \in 0..0 : n = 0
    OBVIOUS
  <2> HIDE DEF f
  <2>2. Stepwise(f, 0, init, F)
    BY <2>1 DEF Stepwise
  <2>3. QED  BY <2>1, <2>2
<1>2. ASSUME NEW m \in Nat, m \in Good PROVE m + 1 \in Good
  <2> SUFFICES ASSUME m + 1 <= N
               PROVE  \E f \in [0..(m + 1) -> V] : Stepwise(f, m + 1, init, F)
    OBVIOUS
  <2>1. PICK f \in [0..m -> V] : Stepwise(f, m, init, F)
    BY <1>2
  <2> DEFINE last == F[<<f[m], m + 1>>]
             h == [k \in 0..(m + 1) |-> IF k = m + 1 THEN last ELSE f[k]]
  <2>2. last \in V
    <3>1. f[m] \in V /\ m + 1 \in 1..N
      BY <2>1
    <3>2. QED  BY <3>1
  <2> HIDE DEF last
  <2>3. ASSUME NEW k \in 0..(m + 1) PROVE h[k] \in V
    <3>1. CASE k = m + 1
      BY <2>2, <3>1
    <3>2. CASE k # m + 1
      <4>1. k \in 0..m
        BY <3>2
      <4>2. QED  BY <2>1, <3>2, <4>1
    <3>3. QED  BY <3>1, <3>2
  <2>4. h \in [0..(m + 1) -> V]
    BY <2>3
  <2>5. h[0] = init
    <3>1. 0 \in 0..(m + 1) /\ 0 # m + 1
      OBVIOUS
    <3>2. QED  BY <2>1, <3>1 DEF Stepwise
  <2>6. ASSUME NEW n \in 0..(m + 1), n # 0 PROVE h[n] = F[<<h[n - 1], n>>]
    <3>1. n - 1 \in 0..(m + 1) /\ n - 1 # m + 1
      BY <2>6
    <3>2. h[n - 1] = f[n - 1]
      BY <3>1
    <3>3. CASE n = m + 1
      <4>1. n - 1 = m
        BY <3>3
      <4>2. QED  BY <3>2, <3>3, <4>1 DEF last
    <3>4. CASE n # m + 1
      <4>1. n \in 0..m
        BY <3>4
      <4>2. f[n] = F[<<f[n - 1], n>>]
        BY <2>1, <2>6, <4>1 DEF Stepwise
      <4>3. QED  BY <3>2, <3>4, <4>2
    <3>5. QED  BY <3>3, <3>4
  <2> HIDE DEF h
  <2>7. Stepwise(h, m + 1, init, F)
    BY <2>5, <2>6 DEF Stepwise
  <2>8. QED  BY <2>4, <2>7
<1>3. Nat \subseteq Good
  <2> HIDE DEF Good
  <2>1. QED  BY <1>1, <1>2, NumberInduction
<1>4. N \in Good
  BY <1>3
<1>5. QED  BY <1>4
-----------------------------------------------------------------------------
(* Products and quotients.                                                 *)
LEMMA TimesKeepsOrder ==
  ASSUME NEW i \in Nat, NEW n \in Nat, NEW d \in Nat, i <= n
  PROVE  i * d \in Nat /\ n * d \in Nat /\ i * d <= n * d /\ (n + 1) * d = n * d + d
OBVIOUS

LEMMA QuotientBounds ==
  ASSUME NEW n \in Nat, NEW d \in Nat \ {0}
  PROVE  /\ n \div d \in Nat /\ n % d \in 0..(d - 1)
         /\ (n \div d) * d <= n /\ n < (n \div d + 1) * d
         /\ n % d = n - (n \div d) * d
OBVIOUS

(* A quotient is known by what is left.                                    *)
LEMMA QuotientIs ==
  ASSUME NEW n \in Nat, NEW d \in Nat \ {0}, NEW q \in Nat, q * d <= n, n < (q + 1) * d
  PROVE  n \div d = q
<1> DEFINE p == n \div d
<1>1. p \in Nat /\ p * d <= n /\ n < (p + 1) * d
  BY QuotientBounds
<1> HIDE DEF p
<1>2. ASSUME p < q PROVE FALSE
  <2>1. p + 1 <= q /\ p + 1 \in Nat
    BY <1>1, <1>2
  <2>2. (p + 1) * d <= q * d
    BY <2>1, TimesKeepsOrder
  <2> QED BY <1>1, <2>1, <2>2, TimesKeepsOrder
<1>3. ASSUME q < p PROVE FALSE
  <2>1. q + 1 <= p /\ q + 1 \in Nat
    BY <1>1, <1>3
  <2>2. (q + 1) * d <= p * d
    BY <1>1, <2>1, TimesKeepsOrder
  <2> QED BY <1>1, <2>1, <2>2, TimesKeepsOrder
<1>4. p = q
  BY <1>1, <1>2, <1>3
<1> QED BY <1>4 DEF p
-----------------------------------------------------------------------------
(* Concatenation, place by place.                                          *)
Joins(c, a, b) ==
  /\ Len(c) = Len(a) + Len(b)
  /\ \A k \in 1..Len(a) : c[k] = a[k]
  /\ \A k \in 1..Len(b) : c[Len(a) + k] = b[k]

LEMMA ConcatIs ==
  ASSUME NEW S, NEW a \in Seq(S), NEW b \in Seq(S)
  PROVE  a \o b \in Seq(S) /\ Joins(a \o b, a, b)
<1>1. /\ a \o b \in Seq(S) /\ Len(a \o b) = Len(a) + Len(b)
      /\ \A k \in 1..(Len(a) + Len(b)) :
           (a \o b)[k] = IF k <= Len(a) THEN a[k] ELSE b[k - Len(a)]
  BY ConcatProperties
<1> DEFINE c == a \o b
           l == Len(a)
           m == Len(b)
<1>2. l \in Nat /\ m \in Nat /\ \A k \in 1..(l + m) : c[k] = IF k <= l THEN a[k] ELSE b[k - l]
  BY <1>1
<1> HIDE DEF c, l, m
<1>3. \A k \in 1..l : c[k] = a[k]
  BY <1>2
<1>4. ASSUME NEW k \in 1..m PROVE c[l + k] = b[k]
  <2>1. l + k \in 1..(l + m) /\ ~(l + k <= l) /\ (l + k) - l = k
    BY <1>2
  <2>2. QED  BY <1>2, <2>1
<1>5. QED  BY <1>1, <1>3, <1>4 DEF c, l, m, Joins

LEMMA Joined ==
  ASSUME NEW S, NEW w \in Seq(S), NEW t \in Seq(S), NEW s \in Seq(S),
         Len(s) = Len(w) + Len(t), \A k \in 1..Len(w) : w[k] = s[k],
         \A k \in 1..Len(t) : t[k] = s[Len(w) + k]
  PROVE  w \o t = s
<1>1. /\ w \o t \in Seq(S) /\ Len(w \o t) = Len(w) + Len(t)
      /\ \A k \in 1..(Len(w) + Len(t)) :
           (w \o t)[k] = IF k <= Len(w) THEN w[k] ELSE t[k - Len(w)]
  BY ConcatProperties
<1> DEFINE x == w \o t
           l == Len(w)
<1>2. l \in Nat /\ Len(t) \in Nat
  OBVIOUS
<1> HIDE DEF x, l
<1>3. ASSUME NEW k \in 1..Len(s) PROVE x[k] = s[k]
  <2>1. CASE k <= l
    <3>1. k \in 1..l /\ k \in 1..(l + Len(t))
      BY <1>2, <2>1 DEF l
    <3>2. QED  BY <1>1, <2>1, <3>1 DEF x, l
  <2>2. CASE ~(k <= l)
    <3>1. k - l \in 1..Len(t) /\ k \in 1..(l + Len(t)) /\ l + (k - l) = k
      BY <1>2, <2>2 DEF l
    <3>2. x[k] = t[k - l]
      BY <1>1, <2>2, <3>1 DEF x, l
    <3>3. t[k - l] = s[l + (k - l)]
      BY <3>1 DEF l
    <3>4. QED  BY <3>1, <3>2, <3>3
  <2>3. QED  BY <2>1, <2>2
<1>4. x \in Seq(S) /\ Len(x) = Len(s)
  BY <1>1 DEF x
<1>5. x = s
  BY <1>3, <1>4
<1>6. QED  BY <1>5 DEF x
-----------------------------------------------------------------------------
(* Collecting from the first places collects a beginning.                  *)
LEMMA CollectsBeginning ==
  ASSUME NEW S, NEW list \in Seq(S), NEW m \in 0..Len(list)
  PROVE  Selected(list, 1..m) = SubSeq(list, 1, m)
<1> DEFINE c == Collected(list, 1..m)
           N == Len(list)
           Holds(n) == /\ n <= m => c[n] = SubSeq(list, 1, n)
                       /\ n >= m => c[n] = SubSeq(list, 1, m)
           Good == {n \in Nat : n <= N => Holds(n)}
<1>1. /\ N \in Nat /\ m \in Nat /\ m <= N /\ c[0] = <<>>
      /\ \A n \in 0..N : n + 1 \in 0..N =>
           c[n + 1] = IF n + 1 \in 1..m THEN Append(c[n], list[n + 1]) ELSE c[n]
  BY CollectedSteps
<1> HIDE DEF c
<1>2. 0 \in Good
  <2>1. SubSeq(list, 1, 0) = <<>>
    BY SubSeqEmpty
  <2>2. c[0] = SubSeq(list, 1, 0) /\ (0 >= m => m = 0)
    BY <1>1, <2>1
  <2>3. Holds(0)
    BY <2>2
  <2> HIDE DEF Holds
  <2>4. QED  BY <2>3
<1>3. ASSUME NEW n \in Nat, n \in Good PROVE n + 1 \in Good
  <2> SUFFICES ASSUME n + 1 <= N PROVE Holds(n + 1)
    OBVIOUS
  <2>1. n \in 0..N /\ n + 1 \in 0..N /\ n + 1 \in 1..N /\ Holds(n)
    BY <1>1, <1>3
  <2>2. c[n + 1] = IF n + 1 \in 1..m THEN Append(c[n], list[n + 1]) ELSE c[n]
    BY <1>1, <2>1
  <2>3. CASE n + 1 <= m
    <3>1. c[n] = SubSeq(list, 1, n) /\ c[n + 1] = Append(c[n], list[n + 1])
      BY <1>1, <2>1, <2>2, <2>3
    <3>2. SubSeq(list, 1, n + 1) = Append(SubSeq(list, 1, n), list[n + 1])
      <4>1. list \in Seq(S) /\ 1 \in 1..(N + 1) /\ n \in 0..(N - 1)
        BY <1>1, <2>1
      <4>2. QED  BY <2>1, <4>1
    <3>3. n + 1 >= m => n + 1 = m
      BY <1>1, <2>3
    <3>4. QED  BY <3>1, <3>2, <3>3
  <2>4. CASE ~(n + 1 <= m)
    <3>1. c[n + 1] = c[n] /\ c[n] = SubSeq(list, 1, m)
      BY <1>1, <2>1, <2>2, <2>4
    <3>2. QED  BY <2>4, <3>1
  <2>5. QED  BY <2>3, <2>4
<1>4. Nat \subseteq Good
  <2> HIDE DEF Good
  <2>1. QED  BY <1>2, <1>3, NumberInduction
<1>5. Holds(N)
  BY <1>1, <1>4
<1>6. c[N] = SubSeq(list, 1, m)
  BY <1>1, <1>5
<1>7. QED  BY <1>6 DEF Selected, c

(* Places that do not pass add nothing.                                    *)
LEMMA CollectsNothing ==
  ASSUME NEW S, NEW list \in Seq(S), NEW places, NEW i \in 0..Len(list), NEW j \in i..Len(list),
         \A k \in (i + 1)..j : k \notin places
  PROVE  Collected(list, places)[j] = Collected(list, places)[i]
<1> DEFINE c == Collected(list, places)
           N == Len(list)
           Good == {d \in Nat : i + d <= j => c[i + d] = c[i]}
<1>1. /\ N \in Nat /\ i \in Nat /\ j \in Nat /\ i <= j /\ j <= N
      /\ \A n \in 0..N : n + 1 \in 0..N =>
           c[n + 1] = IF n + 1 \in places THEN Append(c[n], list[n + 1]) ELSE c[n]
  BY CollectedSteps
<1> HIDE DEF c
<1>2. 0 \in Good
  BY <1>1
<1>3. ASSUME NEW d \in Nat, d \in Good PROVE d + 1 \in Good
  <2> SUFFICES ASSUME i + (d + 1) <= j PROVE c[i + (d + 1)] = c[i]
    OBVIOUS
  <2> DEFINE n == i + d
  <2>1. n + 1 = i + (d + 1) /\ n \in 0..N /\ n + 1 \in 0..N /\ n + 1 \in (i + 1)..j /\ n <= j
    BY <1>1
  <2>2. c[n] = c[i]
    BY <1>3, <2>1
  <2> HIDE DEF n
  <2>3. c[n + 1] = c[n]
    BY <1>1, <2>1
  <2>4. QED  BY <2>1, <2>2, <2>3
<1>4. Nat \subseteq Good
  <2> HIDE DEF Good
  <2>1. QED  BY <1>2, <1>3, NumberInduction
<1> DEFINE d == j - i
<1>5. d \in Nat /\ i + d = j /\ j <= j
  BY <1>1
<1> HIDE DEF d
<1>6. d \in Good
  <2> HIDE DEF Good
  <2>1. QED  BY <1>4, <1>5
<1>7. QED  BY <1>5, <1>6 DEF c

(* What is collected from places whose members are in a set is of the set. *)
LEMMA CollectsWithin ==
  ASSUME NEW S, NEW list \in Seq(S), NEW places, NEW T,
         \A i \in 1..Len(list) : i \in places => list[i] \in T
  PROVE  Selected(list, places) \in Seq(T)
<1> DEFINE got == Selected(list, places)
           N == Len(list)
<1>1. N \in Nat /\ N \in 0..N
  OBVIOUS
<1>2. TakenFrom(got, list, places, N)
  BY <1>1, CollectedMeans DEF Selected
<1> HIDE DEF got
<1>3. PICK at \in [1..Len(got) -> places \cap 1..N] : \A i \in 1..Len(got) : got[i] = list[at[i]]
  BY <1>2 DEF TakenFrom
<1>4. \A i \in 1..Len(got) : got[i] \in T
  BY <1>3
<1>5. got = [i \in 1..Len(got) |-> got[i]] /\ Len(got) \in Nat
  BY <1>2 DEF TakenFrom
<1>6. QED  BY <1>4, <1>5 DEF got
=============================================================================
