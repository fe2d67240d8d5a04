---------------------------- MODULE JodieProofs ----------------------------
(***************************************************************************)
(* Proofs about the gauge client, for every batch, size of packet and      *)
(* buffer and set of lengths of lines, and however many flushes fail.      *)
(*                                                                         *)
(* IndInv adds to the properties of Jodie that a client which has sent a   *)
(* datagram has a clean buffer.  LinesOnceInOrder needs to know how        *)
(* FlattenSeq of the community modules grows with its argument: it is a    *)
(* recursive function, which the first part shows to exist.                *)
(***************************************************************************)
EXTENDS Jodie, FiniteSetTheorems, SequenceTheorems, TLAPS

-----------------------------------------------------------------------------
(* Induction is stated with a set: the principles of the library are       *)
(* stated with an operator and cannot be instantiated by the provers.      *)

\* A set of naturals that is not empty has a smallest element.
LEMMA Smallest ==
  ASSUME NEW T \in SUBSET Nat, T # {}
  PROVE  \E x \in T : \A y \in T : x <= y
<1> DEFINE R == OpToRel(<, Nat)
<1>1. IsWellFoundedOn(R, Nat)
  BY NatLessThanWellFounded
<1>2. \A x, y \in Nat : x < y => <<x, y>> \in R
  BY Zenon DEF OpToRel
<1> HIDE DEF R
<1>3. \E x \in T : \A y \in T : ~(<<y, x>> \in R)
  BY <1>1, WFMin
<1>4. PICK x \in T : \A y \in T : ~(<<y, x>> \in R)
  BY <1>3
<1>5. \A y \in T : ~(y < x)
  BY <1>2, <1>4
<1> QED
  BY <1>4, <1>5

\* A set of numbers up to n that is not empty has a greatest element.
LEMMA Greatest ==
  ASSUME NEW n \in Nat, NEW T \in SUBSET (0 .. n), T # {}
  PROVE  \E x \in T : \A y \in T : y <= x
<1> DEFINE U == {k \in 0 .. n : n - k \in T}
<1>1. PICK t \in T : TRUE
  OBVIOUS
<1>2. n - t \in U /\ U \in SUBSET Nat
  OBVIOUS
<1> HIDE DEF U
<1>3. PICK k \in U : \A j \in U : k <= j
  BY <1>2, Smallest
<1>4. \A y \in T : n - y \in U
  BY DEF U
<1>5. k \in 0 .. n /\ n - k \in T
  BY DEF U
<1> QED
  BY <1>3, <1>4, <1>5

\* A set that has 0 and with each number the next one has all numbers.
LEMMA NatSetInduction ==
  ASSUME NEW S, 0 \in S, \A n \in Nat : n \in S => n + 1 \in S
  PROVE  Nat \subseteq S
<1>1. SUFFICES ASSUME Nat \ S # {} PROVE FALSE
  OBVIOUS
<1>2. PICK x \in Nat \ S : \A y \in Nat \ S : x <= y
  BY <1>1, Smallest
<1>3. x - 1 \in Nat /\ (x - 1) + 1 = x
  BY <1>2
<1>4. x - 1 \in S
  BY <1>2, <1>3
<1> QED
  BY <1>2, <1>3, <1>4

\* The same up to a bound.
LEMMA IntervalInduction ==
  ASSUME NEW S, NEW n \in Nat, 0 \in S,
         \A k \in 0 .. n - 1 : k \in S => k + 1 \in S
  PROVE  0 .. n \subseteq S
<1> DEFINE T == {k \in Nat : k <= n => k \in S}
<1>1. 0 \in T
  OBVIOUS
<1>2. \A k \in Nat : k \in T => k + 1 \in T
  OBVIOUS
<1>3. Nat \subseteq T
  <2> HIDE DEF T
  <2> QED
    BY <1>1, <1>2, NatSetInduction
<1> QED
  BY <1>3

-----------------------------------------------------------------------------
(* FlattenSeq.                                                             *)

\* f[i] is the concatenation of the first i sequences of s, i from 1 to n.
Flattens(f, s, n) ==
  f = [i \in 1 .. n |-> IF i = 1 THEN s[i] ELSE f[i - 1] \o s[i]]

LEMMA FlattenIs ==
  ASSUME NEW s, Len(s) # 0
  PROVE  FlattenSeq(s) = (CHOOSE f : Flattens(f, s, Len(s)))[Len(s)]
BY DEF FlattenSeq, Flattens

\* The function exists: it is extended from 1 .. n to 1 .. n + 1.
LEMMA FlattensExists ==
  ASSUME NEW s, NEW n \in Nat
  PROVE  \E f : Flattens(f, s, n)
<1> DEFINE Q == {k \in Nat : \E f : Flattens(f, s, k)}
<1>1. 0 \in Q
  <2>1. Flattens([i \in 1 .. 0 |-> i], s, 0)
    BY DEF Flattens
  <2> QED
    BY <2>1
<1>2. ASSUME NEW k \in Nat, k \in Q
      PROVE  k + 1 \in Q
  <2>1. PICK f : Flattens(f, s, k)
    BY <1>2
  <2> DEFINE g == [i \in 1 .. k + 1 |-> IF i = 1 THEN s[1]
                                        ELSE f[i - 1] \o s[i]]
  <2>2. ASSUME NEW i \in 1 .. k
        PROVE  g[i] = f[i]
    <3>1. f[i] = IF i = 1 THEN s[i] ELSE f[i - 1] \o s[i]
      BY <2>1, Zenon DEF Flattens
    <3>2. i \in 1 .. k + 1
      OBVIOUS
    <3> QED
      BY <3>1, <3>2
  <2>3. \A i \in 1 .. k + 1 : i # 1 => i - 1 \in 1 .. k
    OBVIOUS
  <2>4. g = [i \in 1 .. k + 1 |-> IF i = 1 THEN s[i] ELSE g[i - 1] \o s[i]]
    BY <2>2, <2>3
  <2> HIDE DEF g
  <2>5. Flattens(g, s, k + 1)
    BY <2>4 DEF Flattens
  <2> QED
    BY <2>5
<1> HIDE DEF Q
<1>3. Nat \subseteq Q
  BY <1>1, <1>2, NatSetInduction
<1> QED
  BY <1>3 DEF Q

\* What it is for a prefix is what it is for the whole.
LEMMA FlattensAgree ==
  ASSUME NEW n \in Nat, NEW s, NEW t, \A i \in 1 .. n : t[i] = s[i],
         NEW f, Flattens(f, s, n), NEW g, Flattens(g, t, n + 1)
  PROVE  \A i \in 1 .. n : g[i] = f[i]
<1> DEFINE S == {k \in 0 .. n : k = 0 \/ g[k] = f[k]}
<1>1. 0 \in S
  OBVIOUS
<1>2. ASSUME NEW k \in 0 .. n - 1, k \in S
      PROVE  k + 1 \in S
  <2>1. k + 1 \in 1 .. n /\ k + 1 \in 1 .. n + 1 /\ t[k + 1] = s[k + 1]
    OBVIOUS
  <2>2. f[k + 1] = IF k + 1 = 1 THEN s[k + 1] ELSE f[(k + 1) - 1] \o s[k + 1]
    BY <2>1, Zenon DEF Flattens
  <2>3. g[k + 1] = IF k + 1 = 1 THEN t[k + 1] ELSE g[(k + 1) - 1] \o t[k + 1]
    BY <2>1, Zenon DEF Flattens
  <2>4. (k + 1) - 1 = k /\ (k + 1 # 1 => k # 0)
    OBVIOUS
  <2>5. g[k + 1] = f[k + 1]
    BY <1>2, <2>1, <2>2, <2>3, <2>4
  <2> QED
    BY <2>5
<1> HIDE DEF S
<1>3. 0 .. n \subseteq S
  BY <1>1, <1>2, IntervalInduction
<1> QED
  BY <1>3 DEF S

\* Of no sequence the concatenation is empty, and one more sequence is put behind
\* the others.
LEMMA FlattenGrows ==
  ASSUME NEW T, NEW s \in Seq(Seq(T)), NEW x \in Seq(T)
  PROVE  FlattenSeq(Append(s, x)) = IF s = <<>> THEN x ELSE FlattenSeq(s) \o x
<1> DEFINE n == Len(s)
           t == Append(s, x)
           f == CHOOSE h : Flattens(h, s, n)
           g == CHOOSE h : Flattens(h, t, n + 1)
<1>1. n \in Nat /\ Len(t) = n + 1 /\ Len(t) # 0 /\ t[n + 1] = x
  OBVIOUS
<1>2. \A i \in 1 .. n : t[i] = s[i]
  OBVIOUS
<1>3. Flattens(f, s, n) /\ Flattens(g, t, n + 1)
  <2> HIDE DEF n, t
  <2>1. n + 1 \in Nat
    BY <1>1
  <2>2. (\E h : Flattens(h, s, n)) /\ (\E h : Flattens(h, t, n + 1))
    BY <1>1, <2>1, FlattensExists
  <2> QED
    BY <2>2, Zenon
<1>4. FlattenSeq(t) = g[n + 1]
  <2>1. FlattenSeq(t) = (CHOOSE h : Flattens(h, t, Len(t)))[Len(t)]
    BY <1>1, FlattenIs
  <2> HIDE DEF n, t
  <2> QED
    BY <1>1, <2>1, Zenon
<1>5. n # 0 => FlattenSeq(s) = f[n]
  BY FlattenIs
<1> HIDE DEF f, g
<1>6. g[n + 1] = IF n + 1 = 1 THEN t[n + 1] ELSE g[(n + 1) - 1] \o t[n + 1]
  <2>1. n + 1 \in 1 .. n + 1
    BY <1>1
  <2> QED
    BY <1>3, <2>1, Zenon DEF Flattens
<1>7. \A i \in 1 .. n : g[i] = f[i]
  <2>1. n \in Nat
    BY <1>1
  <2> HIDE DEF n, t
  <2> QED
    BY ONLY <2>1, <1>2, <1>3, FlattensAgree, SMTT(30)
<1>8. CASE s = <<>>
  <2>1. n + 1 = 1
    BY <1>8
  <2> HIDE DEF n, t
  <2>2. FlattenSeq(t) = x
    BY <1>1, <1>4, <1>6, <2>1
  <2> QED
    BY <1>8, <2>2, Zenon DEF t
<1>9. CASE s # <<>>
  <2>1. n # 0 /\ n \in 1 .. n /\ (n + 1) - 1 = n /\ n + 1 # 1
    BY <1>9
  <2> HIDE DEF n, t
  <2>2. g[n + 1] = f[n] \o x
    BY <1>1, <1>6, <1>7, <2>1
  <2>3. FlattenSeq(t) = FlattenSeq(s) \o x
    BY <1>4, <1>5, <2>1, <2>2
  <2> QED
    BY <1>9, <2>3, Zenon DEF t
<1> QED
  BY <1>8, <1>9

\* Of no sequence it is the empty one.
LEMMA FlattenOfNone == FlattenSeq(<<>>) = <<>>
BY DEF FlattenSeq

\* It is a sequence of the elements of its sequences.
LEMMA FlattenType ==
  ASSUME NEW T, NEW s \in Seq(Seq(T))
  PROVE  FlattenSeq(s) \in Seq(T)
<1> DEFINE n == Len(s)
           f == CHOOSE h : Flattens(h, s, n)
           S == {k \in 0 .. n : k = 0 \/ f[k] \in Seq(T)}
<1>1. CASE s = <<>>
  <2>1. <<>> \in Seq(T)
    OBVIOUS
  <2> HIDE DEF n, f, S
  <2> QED
    BY <1>1, <2>1, FlattenOfNone, Zenon
<1>2. CASE s # <<>>
  <2>1. n \in Nat /\ n # 0
    BY <1>2
  <2>2. Flattens(f, s, n) /\ FlattenSeq(s) = f[n]
    BY <2>1, FlattensExists, FlattenIs
  <2> HIDE DEF f
  <2>3. ASSUME NEW k \in 0 .. n - 1, k \in S
        PROVE  k + 1 \in S
    <3>1. k + 1 \in 1 .. n /\ s[k + 1] \in Seq(T)
      BY <2>1
    <3>2. f[k + 1] = IF k + 1 = 1 THEN s[k + 1] ELSE f[(k + 1) - 1] \o s[k + 1]
      BY <2>2, <3>1, Zenon DEF Flattens
    <3>3. (k + 1) - 1 = k /\ (k + 1 # 1 => k # 0)
      OBVIOUS
    <3>4. f[k + 1] \in Seq(T)
      BY <2>3, <3>1, <3>2, <3>3
    <3> QED
      BY <3>4
  <2>4. 0 \in S
    BY <2>1
  <2> HIDE DEF S
  <2>5. 0 .. n \subseteq S
    BY <2>1, <2>3, <2>4, IntervalInduction
  <2> QED
    BY <2>1, <2>2, <2>5 DEF S
<1> QED
  BY <1>1, <1>2

-----------------------------------------------------------------------------
(* The lines that have been sent, one datagram after the other.            *)

Datagrams == [lines : Seq(1 .. MaxLines), rest : BOOLEAN]
LinesOf(ds) == [i \in DOMAIN ds |-> ds[i].lines]
SentLines(ds) == FlattenSeq(LinesOf(ds))

LEMMA LinesType ==
  ASSUME NEW ds \in Seq(Datagrams)
  PROVE  /\ LinesOf(ds) \in Seq(Seq(1 .. MaxLines))
         /\ SentLines(ds) \in Seq(1 .. MaxLines)
<1>1. LinesOf(ds) \in Seq(Seq(1 .. MaxLines))
  <2>1. ASSUME NEW i \in 1 .. Len(ds)
        PROVE  ds[i].lines \in Seq(1 .. MaxLines)
    <3>1. ds[i] \in Datagrams
      OBVIOUS
    <3> QED
      BY ONLY <3>1 DEF Datagrams
  <2> QED
    BY <2>1 DEF LinesOf
<1> QED
  BY <1>1, FlattenType DEF SentLines

\* One more datagram: its lines are behind all the others.
LEMMA LinesGrow ==
  ASSUME NEW ds \in Seq(Datagrams), NEW d \in Datagrams
  PROVE  SentLines(Append(ds, d)) = SentLines(ds) \o d.lines
<1> DEFINE es == Append(ds, d)
           s == LinesOf(ds)
<1>1. d.lines \in Seq(1 .. MaxLines) /\ es \in Seq(Datagrams)
  BY DEF Datagrams
<1>2. s \in Seq(Seq(1 .. MaxLines)) /\ Len(s) = Len(ds)
  BY LinesType DEF LinesOf
<1>3. LinesOf(es) = Append(s, d.lines)
  <2>0. Append(s, d.lines) \in Seq(Seq(1 .. MaxLines))
    BY <1>1, <1>2
  <2>1. Append(s, d.lines) \in Seq(Seq(1 .. MaxLines)) /\ LinesOf(es) \in Seq(Seq(1 .. MaxLines))
    <3> HIDE DEF es, s
    <3> QED
      BY ONLY <2>0, <1>1, LinesType
  <2>2. Len(es) = Len(ds) + 1 /\ Len(LinesOf(es)) = Len(es)
    BY DEF LinesOf
  <2>3. Len(LinesOf(es)) = Len(Append(s, d.lines))
    BY <1>1, <1>2, <2>2
  <2>4. ASSUME NEW i \in 1 .. Len(ds) + 1
        PROVE  LinesOf(es)[i] = Append(s, d.lines)[i]
    <3>1. LinesOf(es)[i] = es[i].lines
      BY <2>2 DEF LinesOf
    <3>2. CASE i = Len(ds) + 1
      <4>1. es[i] = d
        BY <3>2
      <4>2. Append(s, d.lines)[i] = d.lines
        BY <1>1, <1>2, <3>2
      <4> QED
        BY <3>1, <4>1, <4>2
    <3>3. CASE i # Len(ds) + 1
      <4>1. i \in 1 .. Len(ds) /\ es[i] = ds[i]
        BY <3>3
      <4>2. Append(s, d.lines)[i] = s[i]
        BY <1>1, <1>2, <4>1
      <4>3. s[i] = ds[i].lines
        BY <4>1 DEF LinesOf
      <4> QED
        BY <3>1, <4>1, <4>2, <4>3
    <3> QED
      BY <3>2, <3>3
  <2> HIDE DEF es, s
  <2> QED
    BY <2>1, <2>2, <2>3, <2>4, SeqEqual
<1> HIDE DEF es, s
<1>4. FlattenSeq(Append(s, d.lines)) = IF s = <<>> THEN d.lines ELSE FlattenSeq(s) \o d.lines
  BY <1>1, <1>2, FlattenGrows
<1>5. s = <<>> => FlattenSeq(s) \o d.lines = d.lines
  BY <1>1, FlattenOfNone
<1> QED
  BY <1>3, <1>4, <1>5 DEF SentLines, es, s

-----------------------------------------------------------------------------
(* The invariant.                                                          *)

Whole == SentLines(datagrams) \o buffer = [k \in 1 .. logged |-> k]

\* A client that has sent something has a clean buffer.
CleanOnceSent == datagrams # <<>> => ~dirty

\* The inductive invariant.
IndInv == TypeOK /\ Whole /\ IndexBounded /\ RestOnlyFirst /\ CleanOnceSent

LEMMA LongestIs == Longest \in Lengths /\ Longest \in Nat /\ \A k \in Lengths : k <= Longest
<1>1. Lengths \in SUBSET (0 .. PacketSize) /\ Lengths # {}
  BY LengthsAssumption
<1>2. PacketSize \in Nat
  BY LengthsAssumption
<1>3. \E n \in Lengths : \A k \in Lengths : k <= n
  BY ONLY <1>1, <1>2, Greatest
<1>4. Longest \in Lengths /\ \A k \in Lengths : k <= Longest
  BY <1>3, Zenon DEF Longest
<1> QED
  BY <1>1, <1>2, <1>4

\* One more failure makes room for one more of the longest lines.
LEMMA Rooms ==
  ASSUME NEW l \in Nat, NEW m \in Nat, NEW n \in Nat, m <= n
  PROVE  /\ m * l \in Nat /\ n * l \in Nat /\ m * l <= n * l
         /\ (m + 1) * l = m * l + l
<1>1. n = m + (n - m) /\ n - m \in Nat
  OBVIOUS
<1>2. PICK d \in Nat : n = m + d
  BY <1>1
<1>3. n * l = m * l + d * l /\ d * l \in Nat /\ m * l \in Nat
  BY <1>2
<1> QED
  BY <1>3

\* One more line.
LEMMA LineBehind ==
  ASSUME NEW n \in Nat, NEW s \in Seq(1 .. MaxLines), NEW b \in Seq(1 .. MaxLines),
         s \o b = [k \in 1 .. n |-> k]
  PROVE  s \o Append(b, n + 1) = [k \in 1 .. n + 1 |-> k]
<1> DEFINE t == s \o Append(b, n + 1)
           u == s \o b
<1>1. Append(b, n + 1) \in Seq(Nat) /\ s \in Seq(Nat) /\ b \in Seq(Nat)
  <2>1. b \in Seq(Nat) /\ s \in Seq(Nat)
    BY BoundsAssumption
  <2> QED
    BY <2>1
<1>a. \A i \in 1 .. Len(s) + Len(b) : u[i] = IF i <= Len(s) THEN s[i] ELSE b[i - Len(s)]
  BY ONLY <1>1
<1>b. \A i \in 1 .. n : u[i] = i
  <2> HIDE DEF u
  <2>1. u = [k \in 1 .. n |-> k]
    BY Zenon DEF u
  <2> QED
    BY ONLY <2>1
<1>2. Len(u) = n
  <2>1. Len([k \in 1 .. n |-> k]) = n
    OBVIOUS
  <2> QED
    BY <2>1
<1>3. Len(u) = Len(s) + Len(b) /\ Len(Append(b, n + 1)) = Len(b) + 1
      /\ Len(s) \in Nat /\ Len(b) \in Nat
  BY <1>1
<1>4. Len(t) = n + 1 /\ t \in Seq(Nat)
  BY <1>1, <1>2, <1>3
<1> HIDE DEF u
<1>5. ASSUME NEW i \in 1 .. n + 1
      PROVE  t[i] = i
  <2>1. t[i] = IF i <= Len(s) THEN s[i] ELSE Append(b, n + 1)[i - Len(s)]
    BY <1>1, <1>2, <1>3, SMTT(20)
  <2>2. CASE i <= Len(s)
    <3>1. u[i] = s[i] /\ i \in 1 .. n
      BY ONLY n \in Nat, i \in 1 .. n + 1, <1>a, <1>2, <1>3, <2>2
    <3> QED
      BY <1>b, <2>1, <2>2, <3>1
  <2>3. CASE i > Len(s) /\ i <= n
    <3>1. u[i] = b[i - Len(s)] /\ i - Len(s) \in 1 .. Len(b)
      BY ONLY n \in Nat, i \in 1 .. n + 1, <1>a, <1>2, <1>3, <2>3
    <3>2. Append(b, n + 1)[i - Len(s)] = b[i - Len(s)]
      BY <1>1, <3>1
    <3> QED
      BY ONLY n \in Nat, i \in 1 .. n + 1, <1>b, <1>2, <1>3, <2>1, <2>3, <3>1, <3>2
  <2>4. CASE i = n + 1
    <3>1. i - Len(s) = Len(b) + 1 /\ ~(i <= Len(s))
      <4>1. n = Len(s) + Len(b)
        BY ONLY <1>2, <1>3
      <4> QED
        BY ONLY <4>1, <1>3, <2>4
    <3>2. Append(b, n + 1)[Len(b) + 1] = n + 1
      BY <1>1
    <3> QED
      BY <2>1, <2>4, <3>1, <3>2
  <2> QED
    BY <1>3, <2>2, <2>3, <2>4
<1> HIDE DEF t
<1>6. DOMAIN t = 1 .. n + 1 /\ t = [i \in DOMAIN t |-> t[i]]
  BY <1>4
<1>7. t = [k \in 1 .. n + 1 |-> k]
  BY <1>5, <1>6
<1> QED
  BY <1>7 DEF t

-----------------------------------------------------------------------------
(* Every step keeps it.                                                    *)

LEMMA InitInv == Init => IndInv
<1> SUFFICES ASSUME Init
             PROVE  IndInv
  OBVIOUS
<1>1. buffer = <<>> /\ index = 0 /\ dirty \in BOOLEAN /\ logged = 0 /\ batch = 0
      /\ datagrams = <<>> /\ failures = 0 /\ failed = 0 /\ overrun = FALSE
  BY DEF Init
<1>2. /\ PacketSize \in Nat /\ MaxLines \in Nat /\ MaxFailures \in Nat /\ Batch \in Nat
      /\ BufferSize \in Nat /\ PacketSize < BufferSize
  BY LengthsAssumption, BoundsAssumption, BatchAssumption
<1>3. 0 * Longest = 0
  BY <1>2, LongestIs
<1>4. TypeOK
  <2>1. /\ buffer \in Seq(1 .. MaxLines)
        /\ datagrams \in Seq([lines : Seq(1 .. MaxLines), rest : BOOLEAN])
    BY <1>1
  <2>2. /\ index \in 0 .. BufferSize - 1 /\ logged \in 0 .. MaxLines /\ batch \in 0 .. Batch
        /\ failures \in 0 .. failed /\ failed \in 0 .. MaxFailures
    BY <1>1, <1>2
  <2>3. dirty \in BOOLEAN /\ overrun \in BOOLEAN
    BY <1>1
  <2> QED
    BY <2>1, <2>2, <2>3 DEF TypeOK
<1>5. Whole
  <2>1. SentLines(datagrams) = <<>>
    <3>1. LinesOf(<<>>) = <<>>
      BY DEF LinesOf
    <3> QED
      BY <1>1, <3>1, FlattenOfNone DEF SentLines
  <2>2. <<>> \o <<>> = [k \in 1 .. 0 |-> k]
    OBVIOUS
  <2> QED
    BY <1>1, <2>1, <2>2 DEF Whole
<1>6. IndexBounded
  BY <1>1, <1>2, <1>3 DEF IndexBounded
<1>7. RestOnlyFirst /\ CleanOnceSent
  BY <1>1 DEF RestOnlyFirst, CleanOnceSent
<1> QED
  BY <1>4, <1>5, <1>6, <1>7 DEF IndInv

\* What a datagram that is sent does to the history.
LEMMA SentKeeps ==
  ASSUME IndInv, NEW rest \in BOOLEAN, Sent(rest)
  PROVE  /\ datagrams' \in Seq(Datagrams) /\ datagrams' # <<>>
         /\ SentLines(datagrams)' = [k \in 1 .. logged |-> k]
         /\ SentLines(datagrams)' \in Seq(1 .. MaxLines)
         /\ ~dirty' /\ failures' = 0 /\ failed' = failed
         /\ \A i \in DOMAIN datagrams' : datagrams'[i].rest => i = 1
<1> DEFINE d == [lines |-> buffer, rest |-> rest]
<1>1. datagrams \in Seq(Datagrams) /\ buffer \in Seq(1 .. MaxLines)
  BY DEF IndInv, TypeOK, Datagrams
<1>2. d \in Datagrams /\ d.lines = buffer /\ d.rest = rest
  BY <1>1 DEF Datagrams
<1>3. datagrams' = Append(datagrams, d) /\ (rest => dirty)
      /\ dirty' = FALSE /\ failures' = 0 /\ failed' = failed
  BY DEF Sent
<1> HIDE DEF d
<1>4. datagrams' \in Seq(Datagrams) /\ Len(datagrams') = Len(datagrams) + 1
      /\ datagrams' # <<>>
  BY <1>1, <1>2, <1>3
<1>5. SentLines(datagrams)' = SentLines(datagrams) \o buffer
  BY <1>1, <1>2, <1>3, LinesGrow DEF SentLines, LinesOf
<1>6. SentLines(datagrams)' = [k \in 1 .. logged |-> k]
  BY <1>5 DEF IndInv, Whole
<1>7. SentLines(datagrams)' \in Seq(1 .. MaxLines)
  <2>1. SentLines(datagrams) \in Seq(1 .. MaxLines)
    BY <1>1, LinesType
  <2> QED
    BY <1>1, <1>5, <2>1
<1>8. ASSUME NEW i \in DOMAIN datagrams', datagrams'[i].rest
      PROVE  i = 1
  <2>1. i \in 1 .. Len(datagrams) + 1
    BY <1>4
  <2>2. CASE i \in 1 .. Len(datagrams)
    <3>1. datagrams'[i] = datagrams[i] /\ i \in DOMAIN datagrams
      BY <1>1, <1>2, <1>3, <2>2
    <3> QED
      BY <1>8, <3>1 DEF IndInv, RestOnlyFirst
  <2>3. CASE i = Len(datagrams) + 1
    <3>1. datagrams'[i] = d
      BY <1>1, <1>2, <1>3, <2>3
    <3>2. dirty
      BY <1>2, <1>3, <1>8, <3>1
    <3>3. datagrams = <<>>
      BY <3>2 DEF IndInv, CleanOnceSent
    <3> QED
      BY <2>3, <3>3
  <2> QED
    BY <1>1, <2>1, <2>2, <2>3
<1> QED
  BY <1>3, <1>4, <1>6, <1>7, <1>8

\* A line that fits, or that does not and follows a flush, succeeded or failed.
LEMMA LineInv ==
  ASSUME IndInv, NEW n \in Lengths, LogLine(n)
  PROVE  IndInv'
<1>1. /\ PacketSize \in Nat /\ MaxLines \in Nat /\ MaxFailures \in Nat /\ Batch \in Nat
      /\ BufferSize \in Nat /\ PacketSize < BufferSize
      /\ n \in Nat /\ n <= PacketSize /\ n <= Longest /\ Longest \in Nat
  BY LengthsAssumption, BoundsAssumption, BatchAssumption, LongestIs
<1>2. /\ buffer \in Seq(1 .. MaxLines) /\ datagrams \in Seq(Datagrams)
      /\ index \in Nat /\ logged \in 0 .. MaxLines /\ batch \in 0 .. Batch
      /\ failures \in 0 .. failed /\ failed \in 0 .. MaxFailures /\ dirty \in BOOLEAN
  BY DEF IndInv, TypeOK, Datagrams
<1>3. /\ index <= PacketSize + failures * Longest
      /\ SentLines(datagrams) \o buffer = [k \in 1 .. logged |-> k]
      /\ SentLines(datagrams) \in Seq(1 .. MaxLines)
  BY <1>2, LinesType DEF IndInv, IndexBounded, Whole
<1>4. batch < Batch /\ logged < MaxLines /\ overrun = FALSE
  BY DEF LogLine, IndInv, TypeOK
<1>5. logged' \in {logged, logged + 1} /\ batch' \in {batch, batch + 1}
  BY DEF LogLine, PutLine, AfterFailure
<1>6. logged' \in 0 .. MaxLines /\ batch' \in 0 .. Batch
  BY <1>1, <1>2, <1>4, <1>5
<1>7. \A lines \in Seq(1 .. MaxLines) : Append(lines, logged + 1) \in Seq(1 .. MaxLines)
  BY <1>1, <1>2, <1>4
<1>8. ASSUME /\ failures' \in 0 .. failed' /\ failed' \in 0 .. MaxFailures
             /\ index' \in 0 .. BufferSize - 1
             /\ index' <= PacketSize + failures' * Longest
             /\ overrun' \in BOOLEAN
             /\ overrun' => BufferSize <= PacketSize + failures' * Longest
             /\ buffer' \in Seq(1 .. MaxLines) /\ datagrams' \in Seq(Datagrams)
             /\ dirty' \in BOOLEAN
      PROVE  TypeOK' /\ IndexBounded'
  <2>1. IndexBounded'
    BY <1>8 DEF IndexBounded, Longest
  <2>2. TypeOK'
    BY <1>6, <1>8 DEF TypeOK, Datagrams
  <2> QED
    BY <2>1, <2>2
<1>9. CASE Fits(n) /\ PutLine(buffer, index, n) /\ UNCHANGED <<dirty, datagrams, failures, failed>>
  <2>1. buffer' = Append(buffer, logged + 1) /\ index' = index + n
        /\ UNCHANGED <<dirty, datagrams, failures, failed, overrun>>
        /\ n + index <= PacketSize /\ logged' = logged + 1
    BY <1>9 DEF PutLine, Fits
  <2>2. failures * Longest \in Nat
    BY <1>1, <1>2, Rooms
  <2>3. TypeOK' /\ IndexBounded'
    <3>1. index' \in 0 .. BufferSize - 1 /\ index' <= PacketSize + failures' * Longest
      BY <1>1, <1>2, <2>1, <2>2
    <3>2. buffer' \in Seq(1 .. MaxLines)
      BY <1>2, <1>7, <2>1
    <3> QED
      BY <1>2, <1>4, <1>8, <2>1, <3>1, <3>2
  <2>4. Whole'
    <3>1. SentLines(datagrams) \o Append(buffer, logged + 1) = [k \in 1 .. logged + 1 |-> k]
      <4>1. logged \in Nat
        BY <1>2
      <4> QED
        BY ONLY <4>1, <1>2, <1>3, LineBehind
    <3>2. SentLines(datagrams)' = SentLines(datagrams)
      BY <2>1 DEF SentLines, LinesOf
    <3> QED
      BY <2>1, <3>1, <3>2 DEF Whole
  <2>5. RestOnlyFirst' /\ CleanOnceSent'
    BY <2>1 DEF IndInv, RestOnlyFirst, CleanOnceSent
  <2> QED
    BY <2>3, <2>4, <2>5 DEF IndInv
<1>10. ASSUME NEW rest \in BOOLEAN, Sent(rest), PutLine(<<>>, 0, n)
       PROVE  IndInv'
  <2>1. /\ datagrams' \in Seq(Datagrams) /\ datagrams' # <<>>
        /\ SentLines(datagrams)' = [k \in 1 .. logged |-> k]
        /\ SentLines(datagrams)' \in Seq(1 .. MaxLines)
        /\ ~dirty' /\ failures' = 0 /\ failed' = failed /\ dirty' = FALSE
        /\ \A i \in DOMAIN datagrams' : datagrams'[i].rest => i = 1
    BY <1>10, SentKeeps DEF Sent
  <2>2. buffer' = Append(<<>>, logged + 1) /\ index' = n /\ <<>> \in Seq(1 .. MaxLines)
        /\ logged' = logged + 1 /\ overrun' = FALSE
    BY <1>1, <1>4, <1>10 DEF PutLine
  <2>3. TypeOK' /\ IndexBounded'
    <3>1. buffer' \in Seq(1 .. MaxLines)
      BY <1>7, <2>2
    <3>2. 0 * Longest = 0
      BY <1>1
    <3>3. index' <= PacketSize + failures' * Longest
      BY <1>1, <2>1, <2>2, <3>2
    <3>4. /\ failures' \in 0 .. failed' /\ failed' \in 0 .. MaxFailures
          /\ index' \in 0 .. BufferSize - 1
      BY ONLY <1>1, <1>2, <2>1, <2>2
    <3>5. dirty' \in BOOLEAN
      BY <2>1
    <3> QED
      BY <1>8, <2>1, <2>2, <3>1, <3>3, <3>4, <3>5
  <2>4. Whole'
    <3> DEFINE s == SentLines(datagrams)'
    <3>1. s \in Seq(1 .. MaxLines) /\ s = [k \in 1 .. logged |-> k] /\ logged \in Nat
      BY <1>2, <2>1
    <3>2. s \o <<>> = s
      BY <3>1
    <3>3. buffer' = Append(<<>>, logged + 1) /\ <<>> \in Seq(1 .. MaxLines)
      BY <2>2
    <3> HIDE DEF s
    <3>4. s \o <<>> = [k \in 1 .. logged |-> k]
      BY <3>1, <3>2
    <3>5. s \o Append(<<>>, logged + 1) = [k \in 1 .. logged + 1 |-> k]
      BY ONLY <3>1, <3>3, <3>4, LineBehind
    <3> QED
      BY <2>2, <3>3, <3>5 DEF Whole, s
  <2>5. RestOnlyFirst' /\ CleanOnceSent'
    BY <2>1 DEF RestOnlyFirst, CleanOnceSent
  <2> QED
    BY <2>3, <2>4, <2>5 DEF IndInv
<1>11. CASE NotSent /\ AfterFailure(n)
  <2>1. /\ failed < MaxFailures /\ failed' = failed + 1 /\ failures' = failures + 1
        /\ UNCHANGED <<dirty, datagrams>>
    BY <1>11 DEF NotSent
  <2>2. (failures + 1) * Longest = failures * Longest + Longest /\ failures * Longest \in Nat
    BY <1>1, <1>2, Rooms
  <2>3. failures' \in 0 .. failed' /\ failed' \in 0 .. MaxFailures
    BY <1>1, <1>2, <2>1
  <2>4. index + n <= PacketSize + failures' * Longest
    BY <1>1, <1>2, <1>3, <2>1, <2>2
  <2>5. SentLines(datagrams)' = SentLines(datagrams)
    BY <2>1 DEF SentLines, LinesOf
  <2>6. CASE index + n < BufferSize /\ PutLine(buffer, index, n)
    <3>1. /\ buffer' = Append(buffer, logged + 1) /\ index' = index + n
          /\ logged' = logged + 1 /\ overrun' = FALSE
      BY <1>4, <2>6 DEF PutLine
    <3>2. index' \in 0 .. BufferSize - 1 /\ index' <= PacketSize + failures' * Longest
      BY <1>1, <1>2, <2>4, <2>6, <3>1
    <3>3. buffer' \in Seq(1 .. MaxLines)
      BY <1>2, <1>7, <3>1
    <3>4. TypeOK' /\ IndexBounded'
      BY <1>2, <1>8, <2>1, <2>3, <3>1, <3>2, <3>3
    <3>5. SentLines(datagrams) \o Append(buffer, logged + 1) = [k \in 1 .. logged + 1 |-> k]
      <4>1. logged \in Nat
        BY <1>2
      <4> QED
        BY ONLY <4>1, <1>2, <1>3, LineBehind
    <3>6. Whole'
      BY <2>5, <3>1, <3>5 DEF Whole
    <3> QED
      BY <2>1, <3>4, <3>6 DEF IndInv, RestOnlyFirst, CleanOnceSent
  <2>7. CASE index + n >= BufferSize /\ overrun' = TRUE
             /\ UNCHANGED <<buffer, index, logged, batch>>
    <3>1. index' \in 0 .. BufferSize - 1 /\ buffer' \in Seq(1 .. MaxLines)
      BY <1>2, <2>7 DEF IndInv, TypeOK
    <3>2. /\ index' <= PacketSize + failures' * Longest
          /\ BufferSize <= PacketSize + failures' * Longest
      BY <1>1, <1>2, <2>1, <2>2, <2>4, <2>7
    <3>3. TypeOK' /\ IndexBounded'
      BY <1>2, <1>8, <2>1, <2>3, <2>7, <3>1, <3>2
    <3>4. Whole'
      BY <1>3, <2>5, <2>7 DEF Whole
    <3> QED
      BY <2>1, <3>3, <3>4 DEF IndInv, RestOnlyFirst, CleanOnceSent
  <2> QED
    BY <1>11, <2>6, <2>7 DEF AfterFailure
<1> QED
  BY <1>9, <1>10, <1>11 DEF LogLine

\* The flush at the end of a batch.
LEMMA FlushInv ==
  ASSUME IndInv, FlushBatch
  PROVE  IndInv'
<1>1. /\ PacketSize \in Nat /\ MaxLines \in Nat /\ MaxFailures \in Nat /\ Batch \in Nat
      /\ Longest \in Nat /\ BufferSize \in Nat /\ PacketSize < BufferSize
  BY LengthsAssumption, BoundsAssumption, BatchAssumption, LongestIs
<1>2. /\ buffer \in Seq(1 .. MaxLines) /\ datagrams \in Seq(Datagrams)
      /\ index \in 0 .. BufferSize - 1
      /\ logged \in 0 .. MaxLines /\ batch \in 0 .. Batch
      /\ failures \in 0 .. failed /\ failed \in 0 .. MaxFailures /\ dirty \in BOOLEAN
  BY DEF IndInv, TypeOK, Datagrams
<1>3. /\ index <= PacketSize + failures * Longest
      /\ SentLines(datagrams) \o buffer = [k \in 1 .. logged |-> k]
  BY DEF IndInv, IndexBounded, Whole
<1>4. batch' = 0 /\ logged' = logged /\ overrun = FALSE /\ overrun' = FALSE
  BY DEF FlushBatch, IndInv, TypeOK
<1>5. failures * Longest \in Nat
      /\ (failures + 1) * Longest = failures * Longest + Longest
  <2>1. failures \in Nat
    BY <1>2
  <2> QED
    BY <1>1, <2>1, Rooms
<1>6. ASSUME NEW rest \in BOOLEAN, Sent(rest), buffer' = <<>>, index' = 0
      PROVE  IndInv'
  <2>1. /\ datagrams' \in Seq(Datagrams) /\ datagrams' # <<>>
        /\ SentLines(datagrams)' = [k \in 1 .. logged |-> k]
        /\ SentLines(datagrams)' \in Seq(1 .. MaxLines)
        /\ ~dirty' /\ failures' = 0 /\ failed' = failed /\ dirty' = FALSE
        /\ \A i \in DOMAIN datagrams' : datagrams'[i].rest => i = 1
    BY <1>6, SentKeeps DEF Sent
  <2>2. buffer' \in Seq(1 .. MaxLines)
    BY <1>6
  <2>3. index' \in 0 .. BufferSize - 1
    BY <1>1, <1>6
  <2>4. failures' \in 0 .. failed' /\ failed' \in 0 .. MaxFailures /\ batch' \in 0 .. Batch
    BY <1>1, <1>2, <1>4, <2>1
  <2>5. TypeOK'
    BY <1>2, <1>4, <2>1, <2>2, <2>3, <2>4 DEF TypeOK, Datagrams, Longest
  <2>6. Whole'
    <3> DEFINE s == SentLines(datagrams)'
    <3>1. s \in Seq(1 .. MaxLines) /\ s = [k \in 1 .. logged |-> k]
      BY <2>1
    <3>2. s \o <<>> = s
      BY <3>1
    <3> HIDE DEF s
    <3>3. s \o <<>> = [k \in 1 .. logged |-> k]
      BY ONLY <3>1, <3>2
    <3> QED
      BY <1>4, <1>6, <3>3 DEF Whole, s
  <2>7. IndexBounded'
    <3>1. 0 * Longest = 0
      BY <1>1
    <3>2. index' <= PacketSize + failures' * Longest
      BY <1>1, <1>6, <2>1, <3>1
    <3> QED
      BY <1>4, <3>2 DEF IndexBounded, Longest
  <2>8. RestOnlyFirst' /\ CleanOnceSent'
    BY <2>1 DEF RestOnlyFirst, CleanOnceSent
  <2> QED
    BY <2>5, <2>6, <2>7, <2>8 DEF IndInv
<1>7. CASE NotSent /\ UNCHANGED <<buffer, index>>
  <2>1. /\ failed < MaxFailures /\ failed' = failed + 1 /\ failures' = failures + 1
        /\ UNCHANGED <<dirty, datagrams, buffer, index>>
    BY <1>7 DEF NotSent
  <2>2. failures' \in 0 .. failed' /\ failed' \in 0 .. MaxFailures /\ batch' \in 0 .. Batch
    BY <1>1, <1>2, <1>4, <2>1
  <2>3. TypeOK'
    BY <1>2, <1>4, <2>1, <2>2 DEF TypeOK, Datagrams, Longest
  <2>4. Whole'
    BY <1>3, <1>4, <2>1 DEF Whole, SentLines, LinesOf
  <2>5. IndexBounded'
    <3>1. index \in Nat
      BY <1>1, <1>2
    <3>2. index' <= PacketSize + failures' * Longest
      BY <1>1, <1>3, <1>5, <2>1, <3>1
    <3> QED
      BY <1>4, <3>2 DEF IndexBounded, Longest
  <2>6. RestOnlyFirst' /\ CleanOnceSent'
    BY <2>1 DEF IndInv, RestOnlyFirst, CleanOnceSent
  <2> QED
    BY <2>3, <2>4, <2>5, <2>6 DEF IndInv
<1> QED
  BY <1>6, <1>7 DEF FlushBatch

LEMMA StutterInv ==
  ASSUME IndInv, UNCHANGED vars
  PROVE  IndInv'
BY DEF IndInv, TypeOK, Whole, IndexBounded, RestOnlyFirst, CleanOnceSent, SentLines,
       LinesOf, Longest, vars

\* The invariant holds whatever the lines and however often sendto fails.
THEOREM Invariance == Spec => []IndInv
<1>1. Init => IndInv
  BY InitInv
<1>2. IndInv /\ [Next]_vars => IndInv'
  <2> SUFFICES ASSUME IndInv, [Next]_vars
               PROVE  IndInv'
    OBVIOUS
  <2>1. ASSUME NEW n \in Lengths,
               LogGauge(n) \/ LogCounter(n) \/ LogPercent(n) \/ LogTiming(n) \/ LogStatus(n)
        PROVE  IndInv'
    BY <2>1, LineInv DEF LogGauge, LogCounter, LogPercent, LogTiming, LogStatus
  <2>2. CASE FlushBatch
    BY <2>2, FlushInv
  <2>3. CASE UNCHANGED vars
    BY <2>3, StutterInv
  <2> QED
    BY <2>1, <2>2, <2>3 DEF Next
<1> QED
  BY <1>1, <1>2, PTL DEF Spec

-----------------------------------------------------------------------------
(* The properties that TLC checks on small instances.                      *)

\* Every variable of the client keeps its type: send_index stays in the buffer for
\* as long as no line runs past its end.
THEOREM TypeCorrect == Spec => []TypeOK
<1>1. IndInv => TypeOK
  BY DEF IndInv
<1> QED
  BY <1>1, Invariance, PTL

\* Until a line runs past the end of send_buffer, no line that was logged is lost,
\* sent twice or sent out of turn, whatever flushes fail, at the end of a batch or
\* when a packet is full.
THEOREM LinesAreSentOnce == Spec => []LinesOnceInOrder
<1>1. IndInv => LinesOnceInOrder
  BY Zenon DEF IndInv, Whole, LinesOnceInOrder, SentLines, LinesOf
<1> QED
  BY <1>1, Invariance, PTL

\* send_index passes the end of a packet only by a line for each flush that failed
\* since one succeeded, and a line runs past the end of send_buffer only after so
\* many failures in a row: 2048 bytes to the packet's 1400 hold out no longer.
THEOREM IndexIsBounded == Spec => []IndexBounded
<1>1. IndInv => IndexBounded
  BY DEF IndInv
<1> QED
  BY <1>1, Invariance, PTL

\* Bytes nobody logged leave a duplicated client with its first datagram or never.
THEOREM OnlyFirstHasRest == Spec => []RestOnlyFirst
<1>1. IndInv => RestOnlyFirst
  BY DEF IndInv
<1> QED
  BY <1>1, Invariance, PTL

=============================================================================
