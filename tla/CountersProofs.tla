--------------------------- MODULE CountersProofs ---------------------------
(***************************************************************************)
(* The sums a sweep of the monitoring thread reports, for any number of    *)
(* capture threads and any bounds.  While a sweep runs, a counter it has   *)
(* read may have grown since and one it has not read may have grown since  *)
(* the sweep began; Sandwich says how far the partial sum may therefore be *)
(* from the true one on either side.  First what sums over finite sets are *)
(* (SumOfIntegers), and how they change with their summands.               *)
(***************************************************************************)
EXTENDS Counters, FiniteSetTheorems, TLAPS

-----------------------------------------------------------------------------
(* Induction is stated with a set: the principles of the library are       *)
(* stated with an operator and cannot be instantiated by the provers.      *)

\* A set of naturals that is not empty has a smallest element.
LEMMA Smallest ==
  ASSUME NEW T \in SUBSET Nat, T # {}
  PROVE  \E x \in T : \A y \in T : x <= y
<1> DEFINE R == OpToRel(<, Nat)
<1>1. IsWellFoundedOn(R, Nat)
  BY NatLessThanWellFounded
<1>2. \A x, y \in Nat : x < y => <<x, y>> \in R
  BY Zenon DEF OpToRel
<1> HIDE DEF R
<1>3. \E x \in T : \A y \in T : ~(<<y, x>> \in R)
  BY <1>1, WFMin
<1>4. PICK x \in T : \A y \in T : ~(<<y, x>> \in R)
  BY <1>3
<1>5. \A y \in T : ~(y < x)
  BY <1>2, <1>4
<1> QED
  BY <1>4, <1>5

\* A set that has 0 and with each number the next one has all numbers.
LEMMA NatSetInduction ==
  ASSUME NEW S, 0 \in S, \A n \in Nat : n \in S => n + 1 \in S
  PROVE  Nat \subseteq S
<1>1. SUFFICES ASSUME Nat \ S # {} PROVE FALSE
  OBVIOUS
<1>2. PICK x \in Nat \ S : \A y \in Nat \ S : x <= y
  BY <1>1, Smallest
<1>3. x - 1 \in Nat /\ (x - 1) + 1 = x
  BY <1>2
<1>4. x - 1 \in S
  BY <1>2, <1>3
<1> QED
  BY <1>2, <1>3, <1>4

-----------------------------------------------------------------------------
(* Sums over finite sets.  SumFunctionOnSet(F, S) is the value at S of a   *)
(* function chosen because it satisfies a recursive equation: the lemmas   *)
(* show that such a function exists and that the order in which it takes   *)
(* the elements makes no difference.                                       *)

\* What is in P as soon as all smaller subsets with one element less are, is
\* every subset of a finite set.
LEMMA SubsetInduction ==
  ASSUME NEW S, IsFiniteSet(S), NEW P,
         \A s \in SUBSET S : (\A x \in s : s \ {x} \in P) => s \in P
  PROVE  SUBSET S \subseteq P
<1> DEFINE Q == {n \in Nat : \A s \in SUBSET S : Cardinality(s) = n => s \in P}
<1>1. \A s \in SUBSET S : IsFiniteSet(s) /\ Cardinality(s) \in Nat
  BY FS_Subset, FS_CardinalityType
<1>2. 0 \in Q
  <2> SUFFICES ASSUME NEW s \in SUBSET S, Cardinality(s) = 0
               PROVE  s \in P
    OBVIOUS
  <2>1. s = {}
    BY <1>1, FS_EmptySet
  <2> QED
    BY <2>1
<1>3. ASSUME NEW n \in Nat, n \in Q
      PROVE  n + 1 \in Q
  <2> SUFFICES ASSUME NEW s \in SUBSET S, Cardinality(s) = n + 1
               PROVE  s \in P
    OBVIOUS
  <2>1. ASSUME NEW x \in s
        PROVE  s \ {x} \in P
    <3>1. Cardinality(s \ {x}) = n
      BY <1>1, FS_RemoveElement
    <3> QED
      BY <1>3, <3>1
  <2> QED
    BY <2>1
<1>4. Nat \subseteq Q
  <2> HIDE DEF Q
  <2> QED
    BY <1>2, <1>3, NatSetInduction
<1> QED
  BY <1>1, <1>4

\* The element a sum takes first, and the equation of the function of sums.
First(s) == CHOOSE x \in s : TRUE

Adds(g, F, S) ==
  g = [s \in SUBSET S |-> IF s = {} THEN 0 ELSE F[First(s)] + g[s \ {First(s)}]]

LEMMA SumIs ==
  ASSUME NEW F, NEW S
  PROVE  SumFunctionOnSet(F, S) = (CHOOSE g : Adds(g, F, S))[S]
BY DEF SumFunctionOnSet, FoldFunctionOnSet, MapThenFoldSet, Adds, First

LEMMA FirstIn ==
  ASSUME NEW s, s # {}
  PROVE  First(s) \in s
BY DEF First

\* The function exists: it is built for the sets of 0, 1, 2, ... elements.
LEMMA AddsExists ==
  ASSUME NEW S, IsFiniteSet(S), NEW F, \A x \in S : F[x] \in Int
  PROVE  \E g : Adds(g, F, S)
<1> DEFINE Upto(n) == {s \in SUBSET S : Cardinality(s) <= n}
           Step(g, s) == IF s = {} THEN 0 ELSE F[First(s)] + g[s \ {First(s)}]
           Good(g, n) == g \in [Upto(n) -> Int] /\ \A s \in Upto(n) : g[s] = Step(g, s)
           Q == {n \in Nat : \E g : Good(g, n)}
<1>1. \A s \in SUBSET S : IsFiniteSet(s) /\ Cardinality(s) \in Nat
  BY FS_Subset, FS_CardinalityType
<1>2. \A s \in SUBSET S : s # {} =>
         /\ First(s) \in S /\ F[First(s)] \in Int
         /\ s \ {First(s)} \in SUBSET S
         /\ Cardinality(s \ {First(s)}) = Cardinality(s) - 1
  BY <1>1, FirstIn, FS_RemoveElement
<1>3. 0 \in Q
  <2> DEFINE g == [s \in Upto(0) |-> 0]
  <2>1. \A s \in Upto(0) : s = {}
    BY <1>1, FS_EmptySet
  <2>2. Good(g, 0)
    BY <2>1
  <2> QED
    BY <2>2
<1>4. ASSUME NEW n \in Nat, n \in Q
      PROVE  n + 1 \in Q
  <2>1. PICK g : Good(g, n)
    BY <1>4
  <2> DEFINE h == [s \in Upto(n + 1) |-> Step(g, s)]
  <2>2. \A s \in Upto(n + 1) : s # {} => s \ {First(s)} \in Upto(n)
    BY <1>1, <1>2
  <2>3. \A s \in Upto(n + 1) : Step(g, s) \in Int
    BY <1>2, <2>1, <2>2
  <2>4. \A s \in Upto(n) : s \in Upto(n + 1) /\ h[s] = g[s]
    BY <1>1, <2>1
  <2>5. \A s \in Upto(n + 1) : Step(h, s) = Step(g, s)
    BY <2>2, <2>4
  <2>6. \E f : Good(f, n + 1)
    <3>1. h \in [Upto(n + 1) -> Int]
      BY <2>3
    <3>2. \A s \in Upto(n + 1) : h[s] = Step(h, s)
      BY <2>5
    <3>3. Good(h, n + 1)
      BY <3>1, <3>2
    <3> HIDE DEF h, Good
    <3> QED
      BY <3>3
  <2> HIDE DEF Good
  <2> QED
    BY <2>6
<1>5. Nat \subseteq Q
  <2> HIDE DEF Q
  <2> QED
    BY <1>3, <1>4, NatSetInduction
<1>6. Cardinality(S) \in Nat /\ Upto(Cardinality(S)) = SUBSET S
  BY <1>1, FS_CardinalityType, FS_Subset
<1>7. PICK g : Good(g, Cardinality(S))
  BY <1>5, <1>6
<1>8. g = [s \in SUBSET S |-> g[s]]
  BY <1>6, <1>7
<1>9. \A s \in SUBSET S : g[s] = Step(g, s)
  BY <1>6, <1>7
<1>10. Adds(g, F, S)
  BY <1>8, <1>9 DEF Adds
<1> QED
  BY <1>10

\* Its values are integers, and any element may be taken first.
LEMMA AddsInAnyOrder ==
  ASSUME NEW S, IsFiniteSet(S), NEW F, \A x \in S : F[x] \in Int,
         NEW g, Adds(g, F, S), NEW T \in SUBSET S
  PROVE  g[T] \in Int /\ \A x \in T : g[T] = F[x] + g[T \ {x}]
<1>1. \A s \in SUBSET S : s # {} => /\ First(s) \in s
                                     /\ g[s] = F[First(s)] + g[s \ {First(s)}]
  BY FirstIn DEF Adds
<1>2. g[{}] = 0
  BY DEF Adds
<1>3. \A s \in SUBSET S : g[s] \in Int
  <2> DEFINE P == {s \in SUBSET S : g[s] \in Int}
  <2>1. ASSUME NEW s \in SUBSET S, \A x \in s : s \ {x} \in P
        PROVE  s \in P
    <3>1. CASE s = {}
      BY <1>2, <3>1
    <3>2. CASE s # {}
      <4>1. First(s) \in s /\ g[s] = F[First(s)] + g[s \ {First(s)}]
        BY <1>1, <3>2
      <4>2. F[First(s)] \in Int /\ g[s \ {First(s)}] \in Int
        BY <2>1, <4>1
      <4> QED
        BY <4>1, <4>2
    <3> QED
      BY <3>1, <3>2
  <2>2. SUBSET S \subseteq P
    <3> HIDE DEF P
    <3> QED
      BY <2>1, SubsetInduction
  <2> QED
    BY <2>2
<1> DEFINE P == {s \in SUBSET S : \A x \in s : g[s] = F[x] + g[s \ {x}]}
<1>4. ASSUME NEW s \in SUBSET S, \A x \in s : s \ {x} \in P
      PROVE  s \in P
  <2> SUFFICES ASSUME NEW x \in s, x # First(s)
               PROVE  g[s] = F[x] + g[s \ {x}]
    BY <1>1
  <2> DEFINE c == First(s)
  <2>1. c \in s /\ g[s] = F[c] + g[s \ {c}]
    BY <1>1
  <2>2. x # c
    OBVIOUS
  <2> HIDE DEF c
  <2>3. g[s \ {c}] = F[x] + g[(s \ {c}) \ {x}]
    BY <1>4, <2>1, <2>2
  <2>4. g[s \ {x}] = F[c] + g[(s \ {x}) \ {c}]
    BY <1>4, <2>1, <2>2
  <2>5. (s \ {c}) \ {x} = (s \ {x}) \ {c}
    OBVIOUS
  <2>6. /\ F[c] \in Int /\ F[x] \in Int /\ g[(s \ {c}) \ {x}] \in Int
        /\ g[s \ {x}] = F[c] + g[(s \ {c}) \ {x}]
    BY <1>3, <2>1, <2>4, <2>5
  <2> DEFINE rest == g[(s \ {c}) \ {x}]
             Fc == F[c]
             Fx == F[x]
  <2>7. g[s] = Fc + (Fx + rest) /\ g[s \ {x}] = Fc + rest
    BY <2>1, <2>3, <2>6
  <2>8. rest \in Int /\ Fc \in Int /\ Fx \in Int
    BY <2>6
  <2> QED
    <3>1. Fx + g[s \ {x}] = g[s]
      <4> HIDE DEF rest, Fc, Fx
      <4> QED
        BY <2>7, <2>8
    <3> QED
      BY <3>1
<1>5. SUBSET S \subseteq P
  <2> HIDE DEF P
  <2> QED
    BY <1>4, SubsetInduction
<1> QED
  BY <1>3, <1>5

\* The function of the sums over the subsets of S is the one over the subsets
\* of a subset, too.
LEMMA SumOfSubset ==
  ASSUME NEW S, IsFiniteSet(S), NEW F, \A x \in S : F[x] \in Int,
         NEW g, Adds(g, F, S), NEW T \in SUBSET S
  PROVE  SumFunctionOnSet(F, T) = g[T]
<1> DEFINE h == CHOOSE f : Adds(f, F, T)
           P == {s \in SUBSET T : h[s] = g[s]}
<1>1. IsFiniteSet(T) /\ \A x \in T : F[x] \in Int
  BY FS_Subset
<1>2. Adds(h, F, T)
  BY <1>1, AddsExists
<1> HIDE DEF h
<1>3. ASSUME NEW s \in SUBSET T, \A x \in s : s \ {x} \in P
      PROVE  s \in P
  <2>1. CASE s = {}
    BY <1>2, <2>1 DEF Adds
  <2>2. CASE s # {}
    <3>1. First(s) \in s
      BY <2>2, FirstIn
    <3>2. h[s \ {First(s)}] = g[s \ {First(s)}]
      BY <1>3, <3>1
    <3>3. h[s] = F[First(s)] + h[s \ {First(s)}]
      BY <1>2, <2>2 DEF Adds
    <3>4. g[s] = F[First(s)] + g[s \ {First(s)}]
      BY <2>2 DEF Adds
    <3> QED
      BY <3>2, <3>3, <3>4
  <2> QED
    BY <2>1, <2>2
<1>4. SUBSET T \subseteq P
  <2> HIDE DEF P
  <2> QED
    BY <1>1, <1>3, SubsetInduction
<1> QED
  BY <1>4, SumIs DEF h

\* A sum of integers is an integer, 0 if there are none, and any of them plus
\* the sum of the others.
LEMMA SumOfIntegers ==
  ASSUME NEW S, IsFiniteSet(S), NEW F, \A x \in S : F[x] \in Int
  PROVE  /\ SumFunctionOnSet(F, S) \in Int
         /\ S = {} => SumFunctionOnSet(F, S) = 0
         /\ \A x \in S : SumFunctionOnSet(F, S) = F[x] + SumFunctionOnSet(F, S \ {x})
<1>1. PICK g : Adds(g, F, S)
  BY AddsExists
<1>2. \A T \in SUBSET S : SumFunctionOnSet(F, T) = g[T]
  BY <1>1, SumOfSubset
<1>3. g[S] \in Int /\ \A x \in S : g[S] = F[x] + g[S \ {x}]
  <2>1. S \in SUBSET S
    OBVIOUS
  <2>2. g[S] \in Int
    BY <1>1, <2>1, AddsInAnyOrder
  <2>3. ASSUME NEW x \in S
        PROVE  g[S] = F[x] + g[S \ {x}]
    BY <1>1, <2>1, AddsInAnyOrder
  <2> QED
    BY <2>2, <2>3
<1>4. g[{}] = 0
  BY <1>1 DEF Adds
<1> QED
  BY <1>2, <1>3, <1>4

\* Greater summands, greater sum.
LEMMA SumIsMonotonic ==
  ASSUME NEW S, IsFiniteSet(S), NEW F, NEW G,
         \A x \in S : F[x] \in Int /\ G[x] \in Int /\ F[x] <= G[x]
  PROVE  SumFunctionOnSet(F, S) <= SumFunctionOnSet(G, S)
<1> DEFINE P == {s \in SUBSET S : SumFunctionOnSet(F, s) <= SumFunctionOnSet(G, s)}
<1>1. ASSUME NEW s \in SUBSET S, \A x \in s : s \ {x} \in P
      PROVE  s \in P
  <2>1. IsFiniteSet(s) /\ \A x \in s : IsFiniteSet(s \ {x})
    BY FS_Subset
  <2>2. CASE s = {}
    <3>1. SumFunctionOnSet(F, s) = 0 /\ SumFunctionOnSet(G, s) = 0
      BY <2>1, <2>2, SumOfIntegers
    <3> QED
      BY <3>1
  <2>3. ASSUME NEW x \in s
        PROVE  s \in P
    <3>1. SumFunctionOnSet(F, s) = F[x] + SumFunctionOnSet(F, s \ {x})
      BY <2>1, SumOfIntegers
    <3>2. SumFunctionOnSet(G, s) = G[x] + SumFunctionOnSet(G, s \ {x})
      BY <2>1, SumOfIntegers
    <3>3. SumFunctionOnSet(F, s \ {x}) \in Int /\ SumFunctionOnSet(G, s \ {x}) \in Int
      BY <2>1, SumOfIntegers
    <3>4. SumFunctionOnSet(F, s \ {x}) <= SumFunctionOnSet(G, s \ {x})
      BY <1>1
    <3> QED
      BY <3>1, <3>2, <3>3, <3>4
  <2> QED
    BY <2>2, <2>3
<1>2. SUBSET S \subseteq P
  <2> HIDE DEF P
  <2> QED
    BY <1>1, SubsetInduction
<1> QED
  BY <1>2

\* The sum of zeros.
LEMMA SumOfZeros ==
  ASSUME NEW S, IsFiniteSet(S), NEW F, \A x \in S : F[x] = 0
  PROVE  SumFunctionOnSet(F, S) = 0
<1> DEFINE P == {s \in SUBSET S : SumFunctionOnSet(F, s) = 0}
<1>1. ASSUME NEW s \in SUBSET S, \A x \in s : s \ {x} \in P
      PROVE  s \in P
  <2>1. IsFiniteSet(s)
    BY FS_Subset
  <2>2. CASE s = {}
    BY <2>1, <2>2, SumOfIntegers
  <2>3. ASSUME NEW x \in s
        PROVE  s \in P
    <3>1. SumFunctionOnSet(F, s) = F[x] + SumFunctionOnSet(F, s \ {x})
      BY <2>1, SumOfIntegers
    <3>2. F[x] = 0 /\ SumFunctionOnSet(F, s \ {x}) = 0
      BY <1>1
    <3> QED
      BY <3>1, <3>2
  <2> QED
    BY <2>2, <2>3
<1>2. SUBSET S \subseteq P
  <2> HIDE DEF P
  <2> QED
    BY <1>1, SubsetInduction
<1> QED
  BY <1>2

\* Equal summands, equal sum.
LEMMA SumOfEquals ==
  ASSUME NEW S, IsFiniteSet(S), NEW F, NEW G,
         \A x \in S : F[x] \in Int /\ G[x] = F[x]
  PROVE  SumFunctionOnSet(G, S) = SumFunctionOnSet(F, S)
<1>1. SumFunctionOnSet(F, S) \in Int /\ SumFunctionOnSet(G, S) \in Int
  BY SumOfIntegers
<1>2. SumFunctionOnSet(F, S) <= SumFunctionOnSet(G, S)
  BY SumIsMonotonic
<1>3. SumFunctionOnSet(G, S) <= SumFunctionOnSet(F, S)
  BY SumIsMonotonic
<1> QED
  BY <1>1, <1>2, <1>3

\* The sum of naturals.
LEMMA SumOfNaturals ==
  ASSUME NEW S, IsFiniteSet(S), NEW F, \A x \in S : F[x] \in Nat
  PROVE  SumFunctionOnSet(F, S) \in Nat
<1> DEFINE Z == [x \in S |-> 0]
<1>1. \A x \in S : Z[x] \in Int /\ Z[x] = 0 /\ F[x] \in Int /\ Z[x] <= F[x]
  OBVIOUS
<1> HIDE DEF Z
<1>2. SumFunctionOnSet(Z, S) <= SumFunctionOnSet(F, S)
  BY <1>1, SumIsMonotonic
<1>3. SumFunctionOnSet(Z, S) = 0
  BY <1>1, SumOfZeros
<1>4. SumFunctionOnSet(F, S) \in Int
  BY <1>1, SumOfIntegers
<1> QED
  BY <1>2, <1>3, <1>4

\* A change of one summand changes the sum by as much.
LEMMA SumChanges ==
  ASSUME NEW S, IsFiniteSet(S), NEW F, NEW G, NEW x \in S,
         \A y \in S : F[y] \in Int /\ G[y] \in Int,
         \A y \in S \ {x} : G[y] = F[y]
  PROVE  SumFunctionOnSet(G, S) = SumFunctionOnSet(F, S) + (G[x] - F[x])
<1>1. IsFiniteSet(S \ {x})
  BY FS_Subset
<1>2. SumFunctionOnSet(F, S \ {x}) \in Int
  BY <1>1, SumOfIntegers
<1>3. SumFunctionOnSet(G, S \ {x}) = SumFunctionOnSet(F, S \ {x})
  BY <1>1, SumOfEquals
<1>4. SumFunctionOnSet(F, S) = F[x] + SumFunctionOnSet(F, S \ {x})
  BY SumOfIntegers
<1>5. SumFunctionOnSet(G, S) = G[x] + SumFunctionOnSet(G, S \ {x})
  BY SumOfIntegers
<1> QED
  BY <1>2, <1>3, <1>4, <1>5

-----------------------------------------------------------------------------
(* The invariant.                                                          *)

\* The sum of the counters f of the threads of T, when c are the counters.
SumOf(c, f, T) == SumFunctionOnSet([t \in Threads |-> c[t][f]], T)

\* The threads whose counter f the running sweep has read.
Read(f) == {t \in Threads : t < at \/ (t = at /\ f \notin pending)}

\* The partial sum is at most what was read, and with what is still to be read
\* at least the true sum when the sweep began.
Sandwich ==
  at # 0 => \A f \in Loaded :
              /\ sums[f] <= SumOf(counters, f, Read(f))
              /\ before[f] <= sums[f] + SumOf(counters, f, Threads \ Read(f))

IndInv == TypeOK /\ Sandwich /\ WithinSweep /\ PacketsOnce

-----------------------------------------------------------------------------
(* The sums.                                                               *)

LEMMA LoadedAreFields == Loaded \subseteq Fields
BY DEF Loaded, Fields

LEMMA ThreadsFinite == IsFiniteSet(Threads)
BY ThreadsAssumption, FS_Interval DEF Threads

LEMMA SumOfType ==
  ASSUME NEW c \in [Threads -> Counts], NEW f \in Fields, NEW T \in SUBSET Threads
  PROVE  /\ SumOf(c, f, T) \in Int
         /\ T = {} => SumOf(c, f, T) = 0
         /\ \A t \in T : SumOf(c, f, T) = c[t][f] + SumOf(c, f, T \ {t})
<1> DEFINE F == [t \in Threads |-> c[t][f]]
<1>1. IsFiniteSet(T) /\ \A t \in T : F[t] \in Int /\ F[t] = c[t][f]
  BY ThreadsFinite, FS_Subset DEF Counts
<1> HIDE DEF F
<1>2. /\ SumFunctionOnSet(F, T) \in Int
      /\ T = {} => SumFunctionOnSet(F, T) = 0
      /\ \A t \in T : SumFunctionOnSet(F, T) = F[t] + SumFunctionOnSet(F, T \ {t})
  BY <1>1, SumOfIntegers
<1> QED
  BY <1>1, <1>2 DEF SumOf, F

LEMMA TrueSumIs ==
  ASSUME NEW f \in Loaded
  PROVE  TrueSums[f] = SumOf(counters, f, Threads)
BY DEF TrueSums, SumOf, SumFunction

LEMMA TrueSumsType == TypeOK => TrueSums \in Sums
<1> SUFFICES ASSUME TypeOK, NEW f \in Loaded
             PROVE  TrueSums[f] \in Nat
  BY DEF TrueSums, Sums
<1> DEFINE F == [t \in Threads |-> counters[t][f]]
<1>1. \A t \in Threads : F[t] \in Nat
  BY LoadedAreFields DEF TypeOK, Counts
<1>2. TrueSums[f] = SumFunctionOnSet(F, Threads)
  BY DEF TrueSums, SumFunction
<1> HIDE DEF F
<1> QED
  BY <1>1, <1>2, ThreadsFinite, SumOfNaturals

\* When counters grow, so do their sums.
LEMMA SumOfGrows ==
  ASSUME NEW c \in [Threads -> Counts], NEW d \in [Threads -> Counts],
         NEW f \in Fields, NEW T \in SUBSET Threads,
         \A t \in T : c[t][f] <= d[t][f]
  PROVE  SumOf(c, f, T) <= SumOf(d, f, T)
<1> DEFINE F == [t \in Threads |-> c[t][f]]
           G == [t \in Threads |-> d[t][f]]
<1>1. IsFiniteSet(T) /\ \A t \in T : F[t] \in Int /\ G[t] \in Int /\ F[t] <= G[t]
  BY ThreadsFinite, FS_Subset DEF Counts
<1> HIDE DEF F, G
<1>2. SumFunctionOnSet(F, T) <= SumFunctionOnSet(G, T)
  BY <1>1, SumIsMonotonic
<1> QED
  BY <1>2 DEF SumOf, F, G

-----------------------------------------------------------------------------
(* Initially nothing is counted and no sweep runs.                         *)

LEMMA InitIndInv == Init => IndInv
<1> SUFFICES ASSUME Init PROVE IndInv
  OBVIOUS
<1>1. TypeOK
  BY ThreadsAssumption DEF Init, TypeOK, Counts, Sums, None, Threads
<1>2. Sandwich
  BY DEF Init, Sandwich
<1>3. WithinSweep
  BY DEF Init, WithinSweep, None
<1>4. PacketsOnce
  <2>1. DOMAIN stats = Threads /\ \A t \in Threads : stats[t] = 0
    BY DEF Init
  <2>2. SumFunction(stats) = 0
    BY <2>1, ThreadsFinite, SumOfZeros DEF SumFunction
  <2> QED
    BY <2>2 DEF Init, PacketsOnce
<1> QED
  BY <1>1, <1>2, <1>3, <1>4 DEF IndInv

LEMMA StutterIndInv == IndInv /\ UNCHANGED vars => IndInv'
BY DEF IndInv, vars, capture, TypeOK, Sandwich, WithinSweep, PacketsOnce, SumOf, Read

-----------------------------------------------------------------------------
(* The capture threads and the kernel leave the monitor's variables alone. *)

\* A step that lets the counters grow keeps the partial sum where it must be.
LEMMA GrowthKeepsSandwich ==
  ASSUME TypeOK, Sandwich, TypeOK', UNCHANGED <<at, pending, sums, before>>,
         \A t \in Threads, f \in Fields : counters[t][f] <= counters'[t][f]
  PROVE  Sandwich'
<1> SUFFICES ASSUME at # 0, NEW f \in Loaded
             PROVE  /\ sums[f] <= SumOf(counters', f, Read(f))
                    /\ before[f] <= sums[f] + SumOf(counters', f, Threads \ Read(f))
  BY DEF Sandwich, Read
<1> DEFINE R == Read(f)
           U == Threads \ Read(f)
<1>1. sums[f] <= SumOf(counters, f, R) /\ before[f] <= sums[f] + SumOf(counters, f, U)
  BY DEF Sandwich
<1>2. R \in SUBSET Threads /\ U \in SUBSET Threads
  BY DEF Read
<1> HIDE DEF R, U
<1>3. counters \in [Threads -> Counts] /\ counters' \in [Threads -> Counts] /\ f \in Fields
  BY LoadedAreFields DEF TypeOK
<1>4. /\ SumOf(counters, f, R) \in Int /\ SumOf(counters, f, U) \in Int
      /\ SumOf(counters', f, R) \in Int /\ SumOf(counters', f, U) \in Int
  BY <1>2, <1>3, SumOfType
<1>5. /\ SumOf(counters, f, R) <= SumOf(counters', f, R)
      /\ SumOf(counters, f, U) <= SumOf(counters', f, U)
  BY <1>2, <1>3, SumOfGrows
<1>6. sums[f] \in Int /\ before[f] \in Int
  BY DEF TypeOK, Sums
<1>7. /\ sums[f] <= SumOf(counters', f, R)
      /\ before[f] <= sums[f] + SumOf(counters', f, U)
  BY <1>1, <1>4, <1>5, <1>6
<1> QED
  BY <1>7 DEF R, U

\* The steps of a thread that touch neither its counters nor the statistics.
LEMMA OpenSocketIndInv ==
  ASSUME IndInv, NEW t \in Threads, OpenSocket(t)
  PROVE  IndInv'
BY DEF IndInv, OpenSocket, UnchangedMonitor, TypeOK, Sandwich, WithinSweep,
       PacketsOnce, SumOf, Read

\* A packet more, in the kernel's statistics.
LEMMA ArriveIndInv ==
  ASSUME IndInv, NEW t \in Threads, Arrive(t)
  PROVE  IndInv'
<1>1. TypeOK'
  BY DEF IndInv, Arrive, UnchangedMonitor, TypeOK
<1>2. Sandwich' /\ WithinSweep'
  BY DEF IndInv, Arrive, UnchangedMonitor, Sandwich, WithinSweep, SumOf, Read
<1>3. PacketsOnce'
  <2>1. /\ DOMAIN stats = Threads /\ DOMAIN stats' = Threads
        /\ \A s \in Threads : stats[s] \in Int /\ stats'[s] \in Int
        /\ stats'[t] - stats[t] = 1 /\ \A s \in Threads \ {t} : stats'[s] = stats[s]
    BY DEF IndInv, Arrive, TypeOK
  <2>2. SumFunctionOnSet(stats', Threads)
          = SumFunctionOnSet(stats, Threads) + (stats'[t] - stats[t])
    BY <2>1, ThreadsFinite, SumChanges
  <2>3. SumFunctionOnSet(stats, Threads) \in Int
    BY <2>1, ThreadsFinite, SumOfIntegers
  <2>4. SumFunction(stats)' = SumFunction(stats) + 1 /\ SumFunction(stats) \in Int
    BY <2>1, <2>2, <2>3 DEF SumFunction
  <2>5. arrived' = arrived + 1 /\ UNCHANGED <<reported, at, packets>>
    BY DEF Arrive, UnchangedMonitor
  <2>6. reported \in Int /\ packets \in Int /\ arrived \in Int
    BY DEF IndInv, TypeOK
  <2> QED
    BY <2>4, <2>5, <2>6 DEF IndInv, PacketsOnce
<1> QED
  BY <1>1, <1>2, <1>3 DEF IndInv

\* Counters that grow.
LEMMA GrowthIndInv ==
  ASSUME IndInv, TypeOK', UnchangedMonitor, UNCHANGED <<stats, arrived>>,
         \A t \in Threads, f \in Fields : counters[t][f] <= counters'[t][f]
  PROVE  IndInv'
<1>1. Sandwich'
  BY GrowthKeepsSandwich DEF IndInv, UnchangedMonitor
<1>2. WithinSweep' /\ PacketsOnce'
  BY DEF IndInv, UnchangedMonitor, WithinSweep, PacketsOnce
<1> QED
  BY <1>1, <1>2 DEF IndInv

LEMMA IncrementGrows ==
  ASSUME TypeOK, NEW t \in Threads, NEW f \in Fields, Increment(t, f)
  PROVE  /\ counters' \in [Threads -> Counts]
         /\ \A s \in Threads, g \in Fields : counters[s][g] <= counters'[s][g]
BY DEF TypeOK, Increment, Counts

LEMMA RejectIndInv ==
  ASSUME IndInv, NEW t \in Threads, Reject(t)
  PROVE  IndInv'
<1>1. PICK f \in Fields : TypeOK /\ Increment(t, f)
  BY DEF IndInv, Reject, Fields
<1>2. TypeOK'
  BY <1>1, IncrementGrows DEF TypeOK, Reject, UnchangedMonitor
<1> QED
  BY <1>1, <1>2, IncrementGrows, GrowthIndInv DEF Reject

LEMMA AcceptIndInv ==
  ASSUME IndInv, NEW t \in Threads, Accept(t)
  PROVE  IndInv'
<1>1. TypeOK /\ Increment(t, "valid") /\ "valid" \in Fields
  BY DEF IndInv, Accept, Fields
<1>2. TypeOK'
  BY <1>1, IncrementGrows DEF TypeOK, Accept, UnchangedMonitor
<1> QED
  BY <1>1, <1>2, IncrementGrows, GrowthIndInv DEF Accept

LEMMA CountKindIndInv ==
  ASSUME IndInv, NEW t \in Threads, CountKind(t)
  PROVE  IndInv'
<1>1. TypeOK /\ "kind" \in Fields
  BY DEF IndInv, Fields
<1>2. /\ counters' \in [Threads -> Counts]
      /\ \A s \in Threads, g \in Fields : counters[s][g] <= counters'[s][g]
  <2>1. CASE Increment(t, "kind")
    BY <1>1, <2>1, IncrementGrows
  <2>2. CASE UNCHANGED counters
    BY <1>1, <2>2 DEF TypeOK, Counts
  <2> QED
    BY <2>1, <2>2 DEF CountKind
<1>3. TypeOK'
  BY <1>1, <1>2 DEF TypeOK, CountKind, UnchangedMonitor
<1> QED
  BY <1>2, <1>3, GrowthIndInv DEF CountKind

-----------------------------------------------------------------------------
(* The monitoring thread.                                                  *)

\* Nothing is read yet.
LEMMA StartSweepIndInv ==
  ASSUME IndInv, StartSweep
  PROVE  IndInv'
<1>1. TypeOK'
  <2>1. before' \in Sums
    BY TrueSumsType DEF IndInv, StartSweep
  <2>2. at' = 1 /\ at' \in 0 .. NumThreads + 1 /\ at' \in Threads
    BY ThreadsAssumption DEF StartSweep, Threads
  <2> QED
    BY <2>1, <2>2 DEF IndInv, StartSweep, capture, StartSums, TypeOK, Sums, None
<1>2. Sandwich'
  <2> SUFFICES ASSUME NEW f \in Loaded
               PROVE  /\ sums'[f] <= SumOf(counters', f, Read(f)')
                      /\ before'[f] <= sums'[f] + SumOf(counters', f, Threads \ Read(f)')
    BY DEF Sandwich
  <2>1. Read(f)' = {}
    BY DEF Read, StartSweep, Threads
  <2>2. sums'[f] = 0 /\ counters' = counters /\ before'[f] = SumOf(counters, f, Threads)
    BY TrueSumIs DEF StartSweep, StartSums, None, capture
  <2>3. SumOf(counters, f, {}) = 0 /\ SumOf(counters, f, Threads) \in Int
    BY LoadedAreFields, SumOfType DEF IndInv, TypeOK
  <2>4. Threads \ {} = Threads
    OBVIOUS
  <2> QED
    BY <2>1, <2>2, <2>3, <2>4
<1>3. WithinSweep' /\ PacketsOnce'
  BY DEF IndInv, StartSweep, StartSums, capture, WithinSweep, PacketsOnce, TypeOK
<1> QED
  BY <1>1, <1>2, <1>3 DEF IndInv

\* What was still to be read of the counter loses the thread, what was read
\* gains it.
LEMMA ReadCounterIndInv ==
  ASSUME IndInv, NEW f \in Loaded, ReadCounter(f)
  PROVE  IndInv'
<1>1. TypeOK'
  <2>1. at \in Threads /\ counters[at][f] \in Nat
    BY LoadedAreFields DEF IndInv, ReadCounter, TypeOK, Counts
  <2>2. sums' \in Sums
    BY <2>1 DEF IndInv, ReadCounter, TypeOK, Sums
  <2>3. pending' \subseteq Loaded /\ at' = at
    BY DEF IndInv, ReadCounter, TypeOK
  <2> QED
    BY <2>1, <2>2, <2>3 DEF IndInv, ReadCounter, capture, TypeOK
<1>2. Sandwich'
  <2> SUFFICES ASSUME NEW g \in Loaded
               PROVE  /\ sums'[g] <= SumOf(counters, g, Read(g)')
                      /\ before[g] <= sums'[g] + SumOf(counters, g, Threads \ Read(g)')
    BY DEF Sandwich, ReadCounter, capture
  <2>1. at \in Threads /\ at # 0 /\ f \in pending
    BY DEF ReadCounter, Threads
  <2>2. /\ sums[g] <= SumOf(counters, g, Read(g))
        /\ before[g] <= sums[g] + SumOf(counters, g, Threads \ Read(g))
    BY <2>1 DEF IndInv, Sandwich
  <2>3. CASE g # f
    <3>1. Read(g)' = Read(g) /\ sums'[g] = sums[g]
      BY <2>3 DEF Read, ReadCounter, IndInv, TypeOK
    <3> QED
      BY <2>2, <3>1
  <2>4. CASE g = f
    <3> DEFINE R == Read(f)
               U == Threads \ Read(f)
               c == counters[at][f]
    <3>1. at \notin R /\ R \in SUBSET Threads
      BY <2>1 DEF Read, Threads
    <3>2. Read(f)' = R \cup {at}
      BY <2>1 DEF Read, ReadCounter
    <3>3. Threads \ Read(f)' = U \ {at} /\ at \in U /\ U \in SUBSET Threads
      BY <2>1, <3>1, <3>2
    <3>4. (R \cup {at}) \ {at} = R /\ R \cup {at} \in SUBSET Threads
      BY <2>1, <3>1
    <3>5. /\ counters \in [Threads -> Counts] /\ f \in Fields
          /\ c \in Int /\ sums[f] \in Int /\ before[f] \in Int
      BY <2>1, LoadedAreFields DEF IndInv, TypeOK, Counts, Sums
    <3>6. sums'[f] = sums[f] + c
      BY DEF ReadCounter, IndInv, TypeOK, Sums
    <3>7. sums[f] <= SumOf(counters, f, R) /\ before[f] <= sums[f] + SumOf(counters, f, U)
      BY <2>2, <2>4
    <3> HIDE DEF R, U, c
    <3>8. SumOf(counters, f, R \cup {at}) = c + SumOf(counters, f, R)
      BY <3>4, <3>5, SumOfType DEF c
    <3>9. SumOf(counters, f, U) = c + SumOf(counters, f, U \ {at})
      BY <3>3, <3>5, SumOfType DEF c
    <3>10. U \ {at} \in SUBSET Threads
      BY <3>3
    <3>11. SumOf(counters, f, R) \in Int /\ SumOf(counters, f, U \ {at}) \in Int
      BY <3>1, <3>5, <3>10, SumOfType
    <3>12. /\ sums'[f] <= SumOf(counters, f, R \cup {at})
           /\ before[f] <= sums'[f] + SumOf(counters, f, U \ {at})
      BY <3>5, <3>6, <3>7, <3>8, <3>9, <3>11
    <3> QED
      BY <2>4, <3>2, <3>3, <3>12
  <2> QED
    BY <2>3, <2>4
<1>3. WithinSweep' /\ PacketsOnce'
  BY DEF IndInv, ReadCounter, capture, WithinSweep, PacketsOnce
<1> QED
  BY <1>1, <1>2, <1>3 DEF IndInv

\* The statistics move from the kernel into the sum, or stay where they are.
LEMMA GatherStatsIndInv ==
  ASSUME IndInv, GatherStats
  PROVE  IndInv'
<1>1. at \in Threads /\ at # 0 /\ pending = {} /\ at' = at + 1 /\ pending' = ToRead(at')
  BY DEF GatherStats, After, Threads
<1>2. TypeOK'
  <2>1. at' \in 0 .. NumThreads + 1 /\ pending' \subseteq Loaded
        /\ (pending' # {} => at' \in Threads)
    BY <1>1, ThreadsAssumption DEF ToRead, Threads
  <2>2. packets' \in Nat /\ stats' \in [Threads -> Nat]
    BY DEF IndInv, TypeOK, GatherStats, TakeStats, SkipStats
  <2> QED
    BY <2>1, <2>2 DEF IndInv, TypeOK, GatherStats
<1>3. Sandwich'
  <2>1. \A f \in Loaded : Read(f)' = Read(f)
    BY <1>1, ThreadsAssumption DEF Read, ToRead, Threads
  <2> QED
    BY <1>1, <2>1 DEF IndInv, Sandwich, GatherStats
<1>4. PacketsOnce'
  <2>0. at' # 0 /\ UNCHANGED <<reported, arrived>>
    BY <1>1, ThreadsAssumption DEF Threads, GatherStats
  <2>1. CASE TakeStats(at)
    <3>1. /\ DOMAIN stats = Threads /\ DOMAIN stats' = Threads
          /\ \A s \in Threads : stats[s] \in Int /\ stats'[s] \in Int
          /\ stats'[at] = 0 /\ \A s \in Threads \ {at} : stats'[s] = stats[s]
      BY <1>1, <2>1 DEF IndInv, TypeOK, TakeStats
    <3>2. SumFunctionOnSet(stats', Threads)
            = SumFunctionOnSet(stats, Threads) + (stats'[at] - stats[at])
      BY <1>1, <3>1, ThreadsFinite, SumChanges
    <3>3. SumFunctionOnSet(stats, Threads) \in Int
      BY <3>1, ThreadsFinite, SumOfIntegers
    <3>4. SumFunction(stats)' = SumFunction(stats) - stats[at] /\ SumFunction(stats) \in Int
      BY <1>1, <3>1, <3>2, <3>3 DEF SumFunction
    <3>5. packets' = packets + stats[at]
      BY <2>1 DEF TakeStats
    <3>6. reported \in Int /\ packets \in Int /\ arrived \in Int /\ stats[at] \in Int
      BY <1>1 DEF IndInv, TypeOK
    <3> QED
      BY <1>1, <2>0, <3>4, <3>5, <3>6 DEF IndInv, PacketsOnce
  <2>2. CASE SkipStats(at)
    BY <1>1, <2>0, <2>2 DEF IndInv, PacketsOnce, SkipStats
  <2> QED
    BY <2>1, <2>2 DEF GatherStats
<1>5. WithinSweep'
  BY DEF IndInv, WithinSweep, GatherStats
<1> QED
  BY <1>2, <1>3, <1>4, <1>5 DEF IndInv

\* Everything is read: the sums are between the true ones then and now.
LEMMA ReportIndInv ==
  ASSUME IndInv, Report
  PROVE  IndInv'
<1>1. \A f \in Loaded : TrueSums[f] \in Int /\ TrueSums[f] = SumOf(counters, f, Threads)
  BY LoadedAreFields, TrueSumIs, SumOfType DEF IndInv, TypeOK
<1>2. at = NumThreads + 1 /\ at # 0
  BY ThreadsAssumption DEF Report, Swept
<1>3. \A f \in Loaded : before[f] <= sums[f] /\ sums[f] <= TrueSums[f]
  <2> TAKE f \in Loaded
  <2>1. Read(f) = Threads /\ Threads \ Threads = {}
    BY <1>2, ThreadsAssumption DEF Read, Threads
  <2>2. SumOf(counters, f, {}) = 0
    BY LoadedAreFields, SumOfType DEF IndInv, TypeOK
  <2>3. sums[f] \in Int /\ before[f] \in Int
    BY DEF IndInv, TypeOK, Sums
  <2> QED
    BY <1>1, <1>2, <2>1, <2>2, <2>3 DEF IndInv, Sandwich
<1>4. TrueSums \in Sums
  BY TrueSumsType DEF IndInv
<1>5. TypeOK'
  BY <1>4, ThreadsAssumption DEF IndInv, TypeOK, Report, capture
<1>6. Sandwich'
  BY DEF Sandwich, Report
<1>7. WithinSweep'
  BY <1>3 DEF WithinSweep, Report
<1>8. PacketsOnce'
  BY <1>2 DEF IndInv, TypeOK, PacketsOnce, Report, capture
<1> QED
  BY <1>5, <1>6, <1>7, <1>8 DEF IndInv

-----------------------------------------------------------------------------
LEMMA NextIndInv == IndInv /\ [Next]_vars => IndInv'
<1> SUFFICES ASSUME IndInv, [Next]_vars
             PROVE  IndInv'
  OBVIOUS
<1>1. ASSUME NEW t \in Threads, Capture(t)
      PROVE  IndInv'
  BY <1>1, OpenSocketIndInv, ArriveIndInv, RejectIndInv, AcceptIndInv,
     CountKindIndInv DEF Capture
<1>2. ASSUME Monitor
      PROVE  IndInv'
  BY <1>2, StartSweepIndInv, ReadCounterIndInv, GatherStatsIndInv, ReportIndInv
     DEF Monitor
<1>3. CASE UNCHANGED vars
  BY <1>3, StutterIndInv
<1> QED
  BY <1>1, <1>2, <1>3 DEF Next

\* The types, what a report may say of counters that move while they are read
\* (WithinSweep), and that no packet is reported twice or never (PacketsOnce),
\* for any number of capture threads: vmars_poll_counters.
THEOREM Invariance == Spec => []IndInv
BY InitIndInv, NextIndInv, PTL DEF Spec

\* Counters that move while they are read are reported with a value of the sweep.
THEOREM ReportsAreTrue == Spec => []WithinSweep
<1>1. IndInv => WithinSweep
  BY DEF IndInv
<1> QED
  BY <1>1, Invariance, PTL

\* Statistics that fetching resets are reported once.
THEOREM NoPacketTwice == Spec => []PacketsOnce
<1>1. IndInv => PacketsOnce
  BY DEF IndInv
<1> QED
  BY <1>1, Invariance, PTL

\* Every variable keeps its type, for any number of threads and messages.
THEOREM TypeCorrect == Spec => []TypeOK
<1>1. IndInv => TypeOK
  BY DEF IndInv
<1> QED
  BY <1>1, Invariance, PTL

=============================================================================
