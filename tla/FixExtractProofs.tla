-------------------------- MODULE FixExtractProofs --------------------------
(***************************************************************************)
(* Proofs about the extraction of FIX messages, for any streams, messages, *)
(* BodyLengths, segments, losses and segments sent again.                  *)
(*                                                                         *)
(* What a payload holds is a contiguous stretch of its stream, and the     *)
(* search finds exactly the beginnings of messages in it, as long as it    *)
(* does not leave it (SearchIs); what begins with a message has one        *)
(* verdict, but for a wrong BodyLength (VerdictOnMessage).  A fragment may *)
(* be anything.  Two invariants say what it has to do with the stream:     *)
(* StreamInv, of the streams that came in order and whose BodyLengths are  *)
(* right, with Pos(s), what buf_remaining says of how far into stream s    *)
(* the handler is; Uncut, of every stream, with Reached(s), where the      *)
(* handler really is.  Both are shown for each way the handler moves on.   *)
(*                                                                         *)
(* Last, the search itself: what module Matcher has of boyermoore_search   *)
(* finds the first occurrence (FirstFound), which is what FixExtract takes *)
(* it for (SearchIsTheLoop).                                               *)
(***************************************************************************)
EXTENDS FixExtract, FiniteSetTheorems, SequenceTheorems, TLAPS

-----------------------------------------------------------------------------
(* The invariants of one stream: p is the position, f the fragment, rep    *)
(* what has been reported, imp the impaired messages, e the errors, l how  *)
(* many segments were lost or sent again.                                  *)

\* The cells of a stream, and the stretch of it from position p to position q.
StreamCells(s) == ({0} \cup ToSet(Sent[s])) \X Nat
Piece(s, p, q) == SubSeq(Text[s], p + 1, q)

\* Position p is inside the i-th message.
Inside(s, i, p) == i \in DOMAIN Sent[s] /\ Before(s, i) < p /\ p < EndOf(s, i)

\* The fragment is what has gone by of the message that p is inside of.
Exact(s, p, f) == \E i \in DOMAIN Sent[s] : Inside(s, i, p) /\ f = Piece(s, Before(s, i), p)

\* The fragment does not begin with a complete message that is well stated.
Unfinished(f) ==
  \A m \in Messages \ Misstated : Len(f) >= MsgLen[m] => SubSeq(f, 1, MsgLen[m]) # Body(m)

Kept(s, f) == f \in Seq(StreamCells(s)) /\ Unfinished(f)

\* What is reported are undamaged messages of the stream, or mixtures.
Known(s, rep) == rep \in Seq({Mixture} \cup (ToSet(Sent[s]) \ Damaged))

\* Where in the stream the reported messages end: one after the other, up to p.
InOrder(s, p, rep) ==
  \E at \in [DOMAIN rep -> Nat] :
    \A k \in DOMAIN rep : rep[k] # Mixture =>
       /\ at[k] \in DOMAIN Sent[s] /\ Sent[s][at[k]] = rep[k] /\ EndOf(s, at[k]) <= p
       /\ \A l \in DOMAIN rep : l < k /\ rep[l] # Mixture => at[l] < at[k]

\* The messages of which nothing is said: damaged, with a wrong BodyLength, or
\* impaired.
Excused(imp) == Damaged \cup Misstated \cup imp

\* Any other message that fits has been reported when it has gone by, and is the
\* fragment while it goes by.
Uncut(s, p, f, rep, imp) ==
  \A i \in DOMAIN Sent[s] :
    Sent[s][i] \notin Excused(imp) /\ FitsFragment(Sent[s][i]) =>
      /\ EndOf(s, i) <= p => Sent[s][i] \in ToSet(rep)
      /\ Inside(s, i, p) => f = Piece(s, Before(s, i), p)

\* A fragment that does not begin with the beginning of a message.
Headless(f) == f # <<>> /\ f[1] # CellOf(0, 1) /\ Len(f) < HeaderLen

\* Without losses a fragment is exact, or cannot become a message.
Pure(s, p, f, rep) ==
  /\ Mixture \notin ToSet(rep)
  /\ f = <<>> \/ Headless(f) \/ Exact(s, p, f)

\* The messages that have gone by and were not reported.
Missed(s, p, rep) ==
  {Sent[s][i] : i \in {j \in DOMAIN Sent[s] : EndOf(s, j) <= p}} \ ToSet(rep)

\* The message that p is inside of has been given up: cells of it beyond its
\* pattern are not in the fragment any more, and an error was counted for them.
GivenUp(s, p, f) ==
  /\ ~Exact(s, p, f)
  /\ \E i \in DOMAIN Sent[s] :
        Inside(s, i, p) /\ Len(f) + (PatternLen - 1) < p - Before(s, i)

\* Every missed message has its error, and so has the one that is given up.
Marked(s, p, f, rep, e) ==
  Cardinality(Missed(s, p, rep)) + (IF GivenUp(s, p, f) THEN 1 ELSE 0) <= e

\* Every message of s fits behind a fragment.
AllFitBehind(s) == \A m \in ToSet(Sent[s]) : FitsBehindFragment(m)

StreamInv(s, p, f, rep, e, l) ==
  /\ Kept(s, f)
  /\ Known(s, rep)
  /\ InOrder(s, p, rep)
  /\ l = 0 /\ AllFit(s) => Pure(s, p, f, rep)
  /\ l = 0 /\ AllFitBehind(s) => Marked(s, p, f, rep, e)

-----------------------------------------------------------------------------
(* The invariant.                                                          *)

ErrorsOf(k) == k.corrupt + k.checksum + k.parsing
Errors == ErrorsOf(counters)

\* How many cells of stream s the handler is done with, according to its count.
Pos(s) == IF s = stream THEN wire[s] - remaining ELSE wire[s]

\* Where the payload begins in its stream.
Start == wire[stream] - Len(data)

\* The payload holds the whole pattern of the current message.
Current == curr # 0 /\ curr + PatternLen - 1 <= Len(data)

\* Where in stream s the handler is.
Reached(s) == IF s = stream /\ Current THEN Start + curr - 1 ELSE wire[s]

\* Position p of stream s is where a message begins.
Begins(s, p) == \E i \in DOMAIN Sent[s] : Before(s, i) = p

\* The payload is the last stretch of its stream that has gone by.
Payloads ==
  /\ \A s \in Streams : wire[s] <= Len(Text[s])
  /\ Len(data) <= wire[stream]
  /\ data = Piece(stream, Start, wire[stream])
  /\ pc = "idle" => curr = 0 /\ data = <<>>
  /\ pc # "idle" => /\ CutAt(stream, wire[stream]) \subseteq impaired
                    /\ Overtaken(stream, Start, wire[stream]) \subseteq impaired

\* What the loop takes for the payload ends where buf_remaining says, and behind
\* the payload only when the loop is astray; in the payload the handler stands at
\* the beginning of a message.
Looping ==
  curr # 0 =>
    /\ curr + remaining = Len(data) + Len(beyond) + 1
    /\ remaining >= PatternLen /\ Len(beyond) < curr
    /\ ~Astray => beyond = <<>>
    /\ Current => Begins(stream, Start + curr - 1)

\* When the loop has ended, what is left is not of a message that Uncut is about.
Ending ==
  curr = 0 =>
    /\ beyond = <<>> /\ remaining <= Len(data)
    /\ remaining > 0 =>
         \A i \in DOMAIN Sent[stream] :
           Inside(stream, i, wire[stream]) => Sent[stream][i] \in Misstated \cup impaired

\* As long as the stream is orderly it is the cut pattern of one.
Counting ==
  Orderly(stream) =>
    /\ remaining > 0 => Begins(stream, Pos(stream))
    /\ curr = 0 => remaining < PatternLen

Handling == Payloads /\ Looping /\ Ending /\ Counting

IndInv ==
  /\ TypeOK
  /\ Handling
  /\ \A s \in Streams :
       /\ Orderly(s) => StreamInv(s, Pos(s), fragment[s], reported[s], Errors, jumps)
       /\ Uncut(s, Reached(s), fragment[s], reported[s], impaired)

-----------------------------------------------------------------------------
(* Induction is stated with a set: the principles of the library are       *)
(* stated with an operator and cannot be instantiated by the provers.      *)

\* A set of naturals that is not empty has a smallest element.
LEMMA Smallest ==
  ASSUME NEW T \in SUBSET Nat, T # {}
  PROVE  \E x \in T : \A y \in T : x <= y
<1> DEFINE R == OpToRel(<, Nat)
<1>1. IsWellFoundedOn(R, Nat)
  BY NatLessThanWellFounded
<1>2. \A x, y \in Nat : x < y => <<x, y>> \in R
  BY Zenon DEF OpToRel
<1> HIDE DEF R
<1>3. \E x \in T : \A y \in T : ~(<<y, x>> \in R)
  BY <1>1, WFMin
<1>4. PICK x \in T : \A y \in T : ~(<<y, x>> \in R)
  BY <1>3
<1>5. \A y \in T : ~(y < x)
  BY <1>2, <1>4
<1> QED
  BY <1>4, <1>5

\* A set that has 0 and with each number the next one has all numbers.
LEMMA NatSetInduction ==
  ASSUME NEW S, 0 \in S, \A n \in Nat : n \in S => n + 1 \in S
  PROVE  Nat \subseteq S
<1>1. SUFFICES ASSUME Nat \ S # {} PROVE FALSE
  OBVIOUS
<1>2. PICK x \in Nat \ S : \A y \in Nat \ S : x <= y
  BY <1>1, Smallest
<1>3. x - 1 \in Nat /\ (x - 1) + 1 = x
  BY <1>2
<1>4. x - 1 \in S
  BY <1>2, <1>3
<1> QED
  BY <1>2, <1>3, <1>4

\* The same up to a bound.
LEMMA IntervalInduction ==
  ASSUME NEW S, NEW n \in Nat, 0 \in S,
         \A k \in 0 .. n - 1 : k \in S => k + 1 \in S
  PROVE  0 .. n \subseteq S
<1> DEFINE T == {k \in Nat : k <= n => k \in S}
<1>1. 0 \in T
  OBVIOUS
<1>2. \A k \in Nat : k \in T => k + 1 \in T
  OBVIOUS
<1>3. Nat \subseteq T
  <2> HIDE DEF T
  <2> QED
    BY <1>1, <1>2, NatSetInduction
<1> QED
  BY <1>3

-----------------------------------------------------------------------------
(* FlattenSeq.                                                             *)

\* f[i] is the concatenation of the first i sequences of s, i from 1 to n.
Flattens(f, s, n) ==
  f = [i \in 1 .. n |-> IF i = 1 THEN s[i] ELSE f[i - 1] \o s[i]]

LEMMA FlattenIs ==
  ASSUME NEW s, Len(s) # 0
  PROVE  FlattenSeq(s) = (CHOOSE f : Flattens(f, s, Len(s)))[Len(s)]
BY DEF FlattenSeq, Flattens

\* The function exists: it is extended from 1 .. n to 1 .. n + 1.
LEMMA FlattensExists ==
  ASSUME NEW s, NEW n \in Nat
  PROVE  \E f : Flattens(f, s, n)
<1> DEFINE Q == {k \in Nat : \E f : Flattens(f, s, k)}
<1>1. 0 \in Q
  <2>1. Flattens([i \in 1 .. 0 |-> i], s, 0)
    BY DEF Flattens
  <2> QED
    BY <2>1
<1>2. ASSUME NEW k \in Nat, k \in Q
      PROVE  k + 1 \in Q
  <2>1. PICK f : Flattens(f, s, k)
    BY <1>2
  <2> DEFINE g == [i \in 1 .. k + 1 |-> IF i = 1 THEN s[1]
                                        ELSE f[i - 1] \o s[i]]
  <2>2. ASSUME NEW i \in 1 .. k
        PROVE  g[i] = f[i]
    <3>1. f[i] = IF i = 1 THEN s[i] ELSE f[i - 1] \o s[i]
      BY <2>1, Zenon DEF Flattens
    <3>2. i \in 1 .. k + 1
      OBVIOUS
    <3> QED
      BY <3>1, <3>2
  <2>3. \A i \in 1 .. k + 1 : i # 1 => i - 1 \in 1 .. k
    OBVIOUS
  <2>4. g = [i \in 1 .. k + 1 |-> IF i = 1 THEN s[i] ELSE g[i - 1] \o s[i]]
    BY <2>2, <2>3
  <2> HIDE DEF g
  <2>5. Flattens(g, s, k + 1)
    BY <2>4 DEF Flattens
  <2> QED
    BY <2>5
<1> HIDE DEF Q
<1>3. Nat \subseteq Q
  BY <1>1, <1>2, NatSetInduction
<1> QED
  BY <1>3 DEF Q

\* What it is for a prefix is what it is for the whole.
LEMMA FlattensAgree ==
  ASSUME NEW n \in Nat, NEW s, NEW t, \A i \in 1 .. n : t[i] = s[i],
         NEW f, Flattens(f, s, n), NEW g, Flattens(g, t, n + 1)
  PROVE  \A i \in 1 .. n : g[i] = f[i]
<1> DEFINE S == {k \in 0 .. n : k = 0 \/ g[k] = f[k]}
<1>1. 0 \in S
  OBVIOUS
<1>2. ASSUME NEW k \in 0 .. n - 1, k \in S
      PROVE  k + 1 \in S
  <2>1. k + 1 \in 1 .. n /\ k + 1 \in 1 .. n + 1 /\ t[k + 1] = s[k + 1]
    OBVIOUS
  <2>2. f[k + 1] = IF k + 1 = 1 THEN s[k + 1] ELSE f[(k + 1) - 1] \o s[k + 1]
    BY <2>1, Zenon DEF Flattens
  <2>3. g[k + 1] = IF k + 1 = 1 THEN t[k + 1] ELSE g[(k + 1) - 1] \o t[k + 1]
    BY <2>1, Zenon DEF Flattens
  <2>4. (k + 1) - 1 = k /\ (k + 1 # 1 => k # 0)
    OBVIOUS
  <2>5. g[k + 1] = f[k + 1]
    BY <1>2, <2>1, <2>2, <2>3, <2>4
  <2> QED
    BY <2>5
<1> HIDE DEF S
<1>3. 0 .. n \subseteq S
  BY <1>1, <1>2, IntervalInduction
<1> QED
  BY <1>3 DEF S

\* Of no sequence the concatenation is empty, and one more sequence is put behind
\* the others.
LEMMA FlattenGrows ==
  ASSUME NEW T, NEW s \in Seq(Seq(T)), NEW x \in Seq(T)
  PROVE  FlattenSeq(Append(s, x)) = IF s = <<>> THEN x ELSE FlattenSeq(s) \o x
<1> DEFINE n == Len(s)
           t == Append(s, x)
           f == CHOOSE h : Flattens(h, s, n)
           g == CHOOSE h : Flattens(h, t, n + 1)
<1>1. n \in Nat /\ Len(t) = n + 1 /\ Len(t) # 0 /\ t[n + 1] = x
  OBVIOUS
<1>2. \A i \in 1 .. n : t[i] = s[i]
  OBVIOUS
<1>3. Flattens(f, s, n) /\ Flattens(g, t, n + 1)
  <2> HIDE DEF n, t
  <2>1. n + 1 \in Nat
    BY <1>1
  <2>2. (\E h : Flattens(h, s, n)) /\ (\E h : Flattens(h, t, n + 1))
    BY <1>1, <2>1, FlattensExists
  <2> QED
    BY <2>2, Zenon
<1>4. FlattenSeq(t) = g[n + 1]
  <2>1. FlattenSeq(t) = (CHOOSE h : Flattens(h, t, Len(t)))[Len(t)]
    BY <1>1, FlattenIs
  <2> HIDE DEF n, t
  <2> QED
    BY <1>1, <2>1, Zenon
<1>5. n # 0 => FlattenSeq(s) = f[n]
  BY FlattenIs
<1> HIDE DEF f, g
<1>6. g[n + 1] = IF n + 1 = 1 THEN t[n + 1] ELSE g[(n + 1) - 1] \o t[n + 1]
  <2>1. n + 1 \in 1 .. n + 1
    BY <1>1
  <2> QED
    BY <1>3, <2>1, Zenon DEF Flattens
<1>7. \A i \in 1 .. n : g[i] = f[i]
  <2>1. n \in Nat
    BY <1>1
  <2> HIDE DEF n, t
  <2> QED
    BY ONLY <2>1, <1>2, <1>3, FlattensAgree, SMTT(30)
<1>8. CASE s = <<>>
  <2>1. n + 1 = 1
    BY <1>8
  <2> HIDE DEF n, t
  <2>2. FlattenSeq(t) = x
    BY <1>1, <1>4, <1>6, <2>1
  <2> QED
    BY <1>8, <2>2, Zenon DEF t
<1>9. CASE s # <<>>
  <2>1. n # 0 /\ n \in 1 .. n /\ (n + 1) - 1 = n /\ n + 1 # 1
    BY <1>9
  <2> HIDE DEF n, t
  <2>2. g[n + 1] = f[n] \o x
    BY <1>1, <1>6, <1>7, <2>1
  <2>3. FlattenSeq(t) = FlattenSeq(s) \o x
    BY <1>4, <1>5, <2>1, <2>2
  <2> QED
    BY <1>9, <2>3, Zenon DEF t
<1> QED
  BY <1>8, <1>9

\* Of no sequence it is the empty one.
LEMMA FlattenOfNone == FlattenSeq(<<>>) = <<>>
BY DEF FlattenSeq

\* It is a sequence of the elements of its sequences.
LEMMA FlattenType ==
  ASSUME NEW T, NEW s \in Seq(Seq(T))
  PROVE  FlattenSeq(s) \in Seq(T)
<1> DEFINE n == Len(s)
           f == CHOOSE h : Flattens(h, s, n)
           S == {k \in 0 .. n : k = 0 \/ f[k] \in Seq(T)}
<1>1. CASE s = <<>>
  <2>1. <<>> \in Seq(T)
    OBVIOUS
  <2> HIDE DEF n, f, S
  <2> QED
    BY <1>1, <2>1, FlattenOfNone, Zenon
<1>2. CASE s # <<>>
  <2>1. n \in Nat /\ n # 0
    BY <1>2
  <2>2. Flattens(f, s, n) /\ FlattenSeq(s) = f[n]
    BY <2>1, FlattensExists, FlattenIs
  <2> HIDE DEF f
  <2>3. ASSUME NEW k \in 0 .. n - 1, k \in S
        PROVE  k + 1 \in S
    <3>1. k + 1 \in 1 .. n /\ s[k + 1] \in Seq(T)
      BY <2>1
    <3>2. f[k + 1] = IF k + 1 = 1 THEN s[k + 1] ELSE f[(k + 1) - 1] \o s[k + 1]
      BY <2>2, <3>1, Zenon DEF Flattens
    <3>3. (k + 1) - 1 = k /\ (k + 1 # 1 => k # 0)
      OBVIOUS
    <3>4. f[k + 1] \in Seq(T)
      BY <2>3, <3>1, <3>2, <3>3
    <3> QED
      BY <3>4
  <2>4. 0 \in S
    BY <2>1
  <2> HIDE DEF S
  <2>5. 0 .. n \subseteq S
    BY <2>1, <2>3, <2>4, IntervalInduction
  <2> QED
    BY <2>1, <2>2, <2>5 DEF S
<1> QED
  BY <1>1, <1>2

-----------------------------------------------------------------------------
(* Where the messages lie in a stream.                                     *)

LEMMA Concat ==
  ASSUME NEW C, NEW u \in Seq(C), NEW v \in Seq(C)
  PROVE  /\ u \o v \in Seq(C)
         /\ Len(u) \in Nat /\ Len(v) \in Nat /\ Len(u \o v) = Len(u) + Len(v)
         /\ \A q \in 1 .. Len(u) : (u \o v)[q] = u[q]
         /\ \A k \in 1 .. Len(v) : (u \o v)[Len(u) + k] = v[k]
<1>1. Len(u) \in Nat /\ Len(v) \in Nat
  OBVIOUS
<1>2. /\ u \o v \in Seq(C) /\ Len(u \o v) = Len(u) + Len(v)
      /\ \A i \in 1 .. Len(u) + Len(v) :
           (u \o v)[i] = IF i <= Len(u) THEN u[i] ELSE v[i - Len(u)]
  BY ConcatProperties
<1>3. \A q \in 1 .. Len(u) : q \in 1 .. Len(u) + Len(v) /\ q <= Len(u)
  BY <1>1
<1>4. \A k \in 1 .. Len(v) : /\ Len(u) + k \in 1 .. Len(u) + Len(v)
                             /\ ~(Len(u) + k <= Len(u)) /\ (Len(u) + k) - Len(u) = k
  BY <1>1
<1> QED
  BY <1>1, <1>2, <1>3, <1>4

\* Sequences b[1], b[2], ... put one behind the other: t[m] is the first m.
Joined(C, n, b, t, size, upto) ==
  /\ size \in [1 .. n -> Nat] /\ upto \in [0 .. n -> Nat]
  /\ \A k \in 1 .. n : b[k] \in Seq(C) /\ Len(b[k]) = size[k]
  /\ \A k \in 0 .. n : t[k] \in Seq(C) /\ Len(t[k]) = upto[k]
  /\ upto[0] = 0 /\ \A k \in 1 .. n : t[k] = t[k - 1] \o b[k]

\* Where each of them lies.
Laid(n, b, t, size, upto) ==
  \A m \in 0 .. n :
    /\ \A i \in 1 .. m : upto[i] = upto[i - 1] + size[i] /\ upto[i] <= upto[m]
    /\ \A i \in 1 .. m : \A k \in 1 .. size[i] : t[m][upto[i - 1] + k] = b[i][k]
    /\ \A p \in Nat : p < upto[m] => \E i \in 1 .. m : upto[i - 1] <= p /\ p < upto[i]

LEMMA JoinedAreLaid ==
  ASSUME NEW C, NEW n \in Nat, NEW b, NEW t, NEW size, NEW upto,
         Joined(C, n, b, t, size, upto)
  PROVE  Laid(n, b, t, size, upto)
<1>0. /\ size \in [1 .. n -> Nat] /\ upto \in [0 .. n -> Nat]
      /\ \A k \in 1 .. n : b[k] \in Seq(C) /\ Len(b[k]) = size[k]
      /\ \A k \in 0 .. n : t[k] \in Seq(C) /\ Len(t[k]) = upto[k]
      /\ upto[0] = 0 /\ \A k \in 1 .. n : t[k] = t[k - 1] \o b[k]
  BY DEF Joined
<1> DEFINE A(m) == \A i \in 1 .. m : upto[i] = upto[i - 1] + size[i] /\ upto[i] <= upto[m]
           B(m) == \A i \in 1 .. m : \A k \in 1 .. size[i] : t[m][upto[i - 1] + k] = b[i][k]
           D(m) == \A p \in Nat : p < upto[m] =>
                     \E i \in 1 .. m : upto[i - 1] <= p /\ p < upto[i]
           S == {m \in 0 .. n : A(m) /\ B(m) /\ D(m)}
<1>1. 0 \in S
  <2>1. 1 .. 0 = {} /\ 0 \in 0 .. n
    OBVIOUS
  <2>2. A(0) /\ B(0) /\ D(0)
    BY <1>0, <2>1
  <2> HIDE DEF A, B, D
  <2> QED
    BY <2>1, <2>2
<1>2. ASSUME NEW m \in 0 .. n - 1, m \in S
      PROVE  m + 1 \in S
  <2> DEFINE j == m + 1
  <2>1. /\ j \in 1 .. n /\ j \in 0 .. n /\ m \in 0 .. n /\ j - 1 = m /\ j \in 1 .. j
        /\ 1 .. m \subseteq 1 .. j /\ 1 .. m \subseteq 1 .. n
        /\ \A i \in 1 .. j : i \in 1 .. m \/ i = j
    OBVIOUS
  <2>2. t[m] \in Seq(C) /\ b[j] \in Seq(C) /\ t[j] = t[m] \o b[j]
    <3> HIDE DEF j
    <3> QED
      BY <1>0, <2>1
  <2>3. /\ upto[m] \in Nat /\ size[j] \in Nat /\ upto[j] = upto[m] + size[j]
        /\ \A q \in 1 .. upto[m] : t[j][q] = t[m][q]
        /\ \A k \in 1 .. size[j] : t[j][upto[m] + k] = b[j][k]
    <3> DEFINE u == t[m]
               v == b[j]
    <3>1. /\ u \in Seq(C) /\ v \in Seq(C) /\ t[j] = u \o v
          /\ Len(u) = upto[m] /\ Len(v) = size[j] /\ Len(t[j]) = upto[j]
      <4> HIDE DEF j
      <4> QED
        BY <1>0, <2>1, <2>2
    <3> HIDE DEF u, v, j
    <3>2. /\ Len(u) \in Nat /\ Len(v) \in Nat /\ Len(u \o v) = Len(u) + Len(v)
          /\ \A q \in 1 .. Len(u) : (u \o v)[q] = u[q]
          /\ \A k \in 1 .. Len(v) : (u \o v)[Len(u) + k] = v[k]
      <4>1. u \in Seq(C) /\ v \in Seq(C)
        BY <3>1
      <4> QED
        BY ONLY <4>1, Concat, SMTT(30)
    <3>3. t[m] = u /\ b[j] = v
      BY DEF u, v
    <3>4. size[j] \in Nat /\ upto[m] \in Nat
      BY <1>0, <2>1
    <3> QED
      BY ONLY <3>1, <3>2, <3>3, <3>4
  <2>4. A(m) /\ B(m) /\ D(m)
    BY <1>2
  <2> HIDE DEF S, j
  <2>5. \A i \in 1 .. m : upto[i - 1] \in Nat /\ upto[i] \in Nat /\ size[i] \in Nat
    <3>1. \A i \in 1 .. m : i - 1 \in 0 .. n /\ i \in 0 .. n /\ i \in 1 .. n
      OBVIOUS
    <3> QED
      BY <1>0, <3>1
  <2>6. A(j)
    <3> SUFFICES ASSUME NEW i \in 1 .. j
                 PROVE  upto[i] = upto[i - 1] + size[i] /\ upto[i] <= upto[j]
      OBVIOUS
    <3>1. CASE i = j
      BY <2>1, <2>3, <3>1
    <3>2. CASE i \in 1 .. m
      BY <2>3, <2>4, <2>5, <3>2
    <3> QED
      BY <2>1, <3>1, <3>2
  <2>7. B(j)
    <3> SUFFICES ASSUME NEW i \in 1 .. j, NEW k \in 1 .. size[i]
                 PROVE  t[j][upto[i - 1] + k] = b[i][k]
      OBVIOUS
    <3>1. CASE i = j
      BY <2>1, <2>3, <3>1
    <3>2. CASE i \in 1 .. m
      <4>1. upto[i] = upto[i - 1] + size[i] /\ upto[i] <= upto[m]
        BY <2>4, <3>2
      <4>2. upto[i - 1] \in Nat /\ upto[i] \in Nat /\ size[i] \in Nat
        BY <2>5, <3>2
      <4>3. upto[i - 1] + k \in 1 .. upto[m]
        BY <2>3, <4>1, <4>2
      <4> QED
        BY <2>3, <2>4, <3>2, <4>3
    <3> QED
      BY <2>1, <3>1, <3>2
  <2>8. D(j)
    <3> SUFFICES ASSUME NEW p \in Nat, p < upto[j]
                 PROVE  \E i \in 1 .. j : upto[i - 1] <= p /\ p < upto[i]
      OBVIOUS
    <3>1. CASE p < upto[m]
      BY <2>1, <2>4, <3>1
    <3>2. CASE upto[m] <= p
      BY <2>1, <3>2
    <3> QED
      BY <2>3, <3>1, <3>2
  <2> HIDE DEF A, B, D
  <2>9. j \in S
    BY <2>1, <2>6, <2>7, <2>8 DEF S
  <2> QED
    BY <2>9 DEF j
<1> HIDE DEF S
<1>3. 0 .. n \subseteq S
  BY <1>1, <1>2, IntervalInduction
<1> QED
  BY <1>3 DEF S, Laid

LEMMA LengthsAre ==
  /\ PatternLen \in Nat /\ 1 <= PatternLen /\ HeaderLen \in Nat /\ PatternLen < HeaderLen
  /\ \A m \in Messages :
       /\ m \in Nat /\ m # 0 /\ m # Mixture /\ MsgLen[m] \in Nat
       /\ HeaderLen + 1 < MsgLen[m] /\ HeaderLen + PatternLen <= MsgLen[m]
BY LengthsAssumption DEF Messages, Mixture

LEMMA StatedAre ==
  /\ Misstated \subseteq Messages /\ Understated \subseteq Misstated
  /\ \A m \in Messages :
       /\ Stated[m] \in Nat /\ (Stated[m] # 0 => HeaderLen + 1 < Stated[m])
       /\ m \notin Misstated => Stated[m] = MsgLen[m]
       /\ m \notin Understated => Stated[m] = 0 \/ MsgLen[m] <= Stated[m]
<1>1. \A m \in Messages : Stated[m] \in {0} \cup {n \in Nat : n > HeaderLen + 1}
  BY StatedAssumption DEF Messages
<1>2. HeaderLen \in Nat /\ \A m \in Messages : MsgLen[m] \in Nat
  BY LengthsAre
<1> QED
  BY <1>1, <1>2 DEF Misstated, Understated

LEMMA SentAre ==
  ASSUME NEW s \in Streams
  PROVE  /\ Sent[s] \in Seq(Messages) /\ Len(Sent[s]) \in Nat
         /\ DOMAIN Sent[s] = 1 .. Len(Sent[s])
         /\ \A i \in DOMAIN Sent[s] : Sent[s][i] \in Messages /\ Sent[s][i] \in ToSet(Sent[s])
         /\ ToSet(Sent[s]) \subseteq Messages
         /\ \A m \in ToSet(Sent[s]) : \E i \in DOMAIN Sent[s] : Sent[s][i] = m
<1>1. Sent[s] \in Seq(Messages)
  BY SentAssumption DEF Messages
<1> QED
  BY <1>1 DEF ToSet

\* A header's cells are the pattern's; no other cell is like one of them.
LEMMA CellsAre ==
  ASSUME NEW m \in Messages, NEW k \in 1 .. MsgLen[m]
  PROVE  /\ Body(m)[k] = CellOf(m, k) /\ CellOf(m, k) \in {0, m} \X Nat
         /\ k <= HeaderLen => CellOf(m, k) = CellOf(0, k)
         /\ CellOf(m, k) = CellOf(0, 1) => k = 1
         /\ k > HeaderLen => CellOf(m, k) = <<m, k>>
<1>1. HeaderLen \in Nat /\ 1 <= HeaderLen /\ m # 0 /\ m \in Nat
  BY LengthsAre
<1>2. Body(m)[k] = CellOf(m, k)
  BY DEF Body
<1> QED
  BY <1>1, <1>2 DEF CellOf

LEMMA BodyIs ==
  ASSUME NEW m \in Messages
  PROVE  /\ Body(m) \in Seq({0, m} \X Nat) /\ Len(Body(m)) = MsgLen[m]
<1>1. MsgLen[m] \in Nat
  BY LengthsAre
<1>2. \A k \in 1 .. MsgLen[m] : CellOf(m, k) \in {0, m} \X Nat
  BY CellsAre
<1> QED
  BY <1>1, <1>2 DEF Body

\* Where the messages of a stream begin and end, and what is there.
LEMMA TextIs ==
  ASSUME NEW s \in Streams
  PROVE  /\ Text[s] \in Seq(StreamCells(s)) /\ Len(Text[s]) \in Nat
         /\ \A i \in DOMAIN Sent[s] :
              /\ Before(s, i) \in Nat /\ EndOf(s, i) \in Nat
              /\ EndOf(s, i) = Before(s, i) + MsgLen[Sent[s][i]]
              /\ EndOf(s, i) <= Len(Text[s])
              /\ \A k \in 1 .. MsgLen[Sent[s][i]] :
                    Text[s][Before(s, i) + k] = CellOf(Sent[s][i], k)
         /\ \A i, j \in DOMAIN Sent[s] :
              /\ i < j => EndOf(s, i) <= Before(s, j)
              /\ j = i + 1 => EndOf(s, i) = Before(s, j)
         /\ \A p \in Nat : p < Len(Text[s]) =>
              \E i \in DOMAIN Sent[s] : Before(s, i) <= p /\ p < EndOf(s, i)
<1> DEFINE C == StreamCells(s)
           n == Len(Sent[s])
           b == Bodies[s]
           t == [k \in 0 .. n |-> FlattenSeq(SubSeq(b, 1, k))]
           size == [i \in 1 .. n |-> MsgLen[Sent[s][i]]]
           upto == [k \in 0 .. n |-> Len(t[k])]
<1>1. /\ n \in Nat /\ DOMAIN Sent[s] = 1 .. n
      /\ \A i \in 1 .. n : Sent[s][i] \in Messages /\ Sent[s][i] \in ToSet(Sent[s])
  BY SentAre
<1>2. /\ b \in Seq(Seq(C)) /\ Len(b) = n
      /\ \A i \in 1 .. n : b[i] = Body(Sent[s][i]) /\ b[i] \in Seq(C) /\ Len(b[i]) = size[i]
  <2>1. b = [i \in 1 .. n |-> Body(Sent[s][i])]
    BY <1>1 DEF Bodies
  <2>2. ASSUME NEW i \in 1 .. n
        PROVE  Body(Sent[s][i]) \in Seq(C) /\ Len(Body(Sent[s][i])) = size[i]
    <3>1. {0, Sent[s][i]} \X Nat \subseteq C
      BY <1>1 DEF StreamCells
    <3> HIDE DEF C
    <3> QED
      BY <1>1, <3>1, BodyIs, SeqMonotonic
  <2> HIDE DEF C, size, b
  <2> QED
    BY <1>1, <2>1, <2>2
<1>3. ASSUME NEW k \in 0 .. n
      PROVE  /\ SubSeq(b, 1, k) \in Seq(Seq(C)) /\ Len(SubSeq(b, 1, k)) = k
             /\ t[k] \in Seq(C) /\ Len(t[k]) = upto[k] /\ upto[k] \in Nat
  <2> HIDE DEF b, C
  <2>1. SubSeq(b, 1, k) \in Seq(Seq(C)) /\ Len(SubSeq(b, 1, k)) = k
    BY <1>1, <1>2
  <2>2. FlattenSeq(SubSeq(b, 1, k)) \in Seq(C)
    BY <2>1, FlattenType
  <2> QED
    BY <2>1, <2>2
<1>4. t[0] = <<>> /\ upto[0] = 0
  <2>1. SubSeq(b, 1, 0) = <<>> /\ 0 \in 0 .. n
    BY <1>1
  <2>2. FlattenSeq(SubSeq(b, 1, 0)) = <<>>
    BY <2>1, FlattenOfNone
  <2> HIDE DEF b
  <2> QED
    BY <2>1, <2>2
<1>5. ASSUME NEW k \in 1 .. n
      PROVE  t[k] = t[k - 1] \o b[k]
  <2>1. /\ k - 1 \in 0 .. n /\ k \in 0 .. n
        /\ SubSeq(b, 1, k - 1) \in Seq(Seq(C)) /\ Len(SubSeq(b, 1, k - 1)) = k - 1
        /\ b[k] \in Seq(C) /\ t[k - 1] \in Seq(C)
    <3>1. k - 1 \in 0 .. n /\ k \in 0 .. n
      <4> HIDE DEF n
      <4> QED
        BY <1>1
    <3> HIDE DEF n, t, b, C
    <3> QED
      BY <1>2, <1>3, <3>1
  <2>2. SubSeq(b, 1, k) = Append(SubSeq(b, 1, k - 1), b[k])
    <3> HIDE DEF b, C, t
    <3>1. SubSeq(b, 1, k) = SubSeq(b, 1, k - 1) \o <<b[k]>>
      <4>1. 1 \in 1 .. Len(b) /\ k \in 1 .. Len(b)
        <5> HIDE DEF n
        <5> QED
          BY <1>1, <1>2
      <4> HIDE DEF n
      <4> QED
        BY <4>1, <1>2, SubSeqRecursiveSecond
    <3> QED
      BY <2>1, <3>1, AppendIsConcat
  <2> DEFINE u == SubSeq(b, 1, k - 1)
             x == b[k]
  <2>3. t[k] = FlattenSeq(Append(u, x)) /\ t[k - 1] = FlattenSeq(u)
    BY <2>1, <2>2
  <2>4. u \in Seq(Seq(C)) /\ x \in Seq(C)
    BY <2>1
  <2> HIDE DEF u, x, t, b, C
  <2>5. t[k] = IF u = <<>> THEN x ELSE FlattenSeq(u) \o x
    BY <2>3, <2>4, FlattenGrows
  <2>6. u = <<>> => t[k - 1] \o x = x
    BY <2>3, <2>4, FlattenOfNone, ConcatEmptySeq
  <2>7. t[k] = t[k - 1] \o x
    BY <2>3, <2>5, <2>6
  <2> QED
    BY <2>7 DEF x
<1>6. size \in [1 .. n -> Nat]
  BY <1>1, LengthsAre
<1>7. upto \in [0 .. n -> Nat]
  BY <1>3
<1>8. Text[s] = t[n]
  <2>1. SubSeq(b, 1, n) = b /\ n \in 0 .. n
    <3> HIDE DEF b, C, n
    <3> QED
      BY <1>1, <1>2, SubSeqFull
  <2> QED
    BY <2>1 DEF Text
<1>9. \A i \in 1 .. n : /\ Before(s, i) = upto[i - 1] /\ i - 1 \in 0 .. n /\ i \in 0 .. n
                        /\ EndOf(s, i) = Before(s, i) + size[i]
  <2> TAKE i \in 1 .. n
  <2>1. i - 1 \in 0 .. n /\ i \in 0 .. n
    BY <1>1
  <2> HIDE DEF b
  <2> QED
    BY <2>1 DEF Before, EndOf, b
<1> HIDE DEF C, n, b, t, size, upto
<1>10. Laid(n, b, t, size, upto)
  <2>1. n \in Nat /\ Joined(C, n, b, t, size, upto)
    BY <1>1, <1>2, <1>3, <1>4, <1>5, <1>6, <1>7 DEF Joined
  <2> QED
    BY ONLY <2>1, JoinedAreLaid, Zenon
<1>11. \A i \in 1 .. n : EndOf(s, i) = upto[i] /\ upto[i] <= upto[n]
  <2>1. n \in 0 .. n
    BY <1>1
  <2> QED
    BY <1>9, <1>10, <2>1 DEF Laid
<1>12. Text[s] \in Seq(C) /\ Len(Text[s]) = upto[n] /\ upto[n] \in Nat /\ n \in 0 .. n
  BY <1>1, <1>3, <1>8
<1>13. ASSUME NEW i \in 1 .. n
       PROVE  /\ Before(s, i) \in Nat /\ EndOf(s, i) \in Nat
              /\ EndOf(s, i) = Before(s, i) + MsgLen[Sent[s][i]]
              /\ EndOf(s, i) <= Len(Text[s])
              /\ \A k \in 1 .. MsgLen[Sent[s][i]] :
                    Text[s][Before(s, i) + k] = CellOf(Sent[s][i], k)
  <2>1. size[i] = MsgLen[Sent[s][i]]
    BY DEF size
  <2>2. upto[i - 1] \in Nat /\ upto[i] \in Nat
    BY <1>7, <1>9
  <2>3. \A k \in 1 .. size[i] : Text[s][upto[i - 1] + k] = b[i][k]
    BY <1>8, <1>10, <1>12 DEF Laid
  <2>4. ASSUME NEW k \in 1 .. size[i]
        PROVE  b[i][k] = CellOf(Sent[s][i], k)
    <3>1. Sent[s][i] \in Messages /\ k \in 1 .. MsgLen[Sent[s][i]] /\ b[i] = Body(Sent[s][i])
      BY <1>1, <1>2, <2>1
    <3> QED
      BY <3>1, CellsAre
  <2> QED
    BY <1>9, <1>11, <1>12, <2>1, <2>2, <2>3, <2>4
<1>14. ASSUME NEW i \in 1 .. n, NEW j \in 1 .. n
       PROVE  /\ i < j => EndOf(s, i) <= Before(s, j)
              /\ j = i + 1 => EndOf(s, i) = Before(s, j)
  <2>1. i < j => i \in 1 .. j - 1 /\ j - 1 \in 0 .. n
    BY <1>1
  <2>2. i < j => upto[i] <= upto[j - 1]
    BY <1>10, <2>1 DEF Laid
  <2>3. j = i + 1 => j - 1 = i
    BY <1>1
  <2> QED
    BY <1>9, <1>11, <2>2, <2>3
<1>15. ASSUME NEW p \in Nat, p < Len(Text[s])
       PROVE  \E i \in 1 .. n : Before(s, i) <= p /\ p < EndOf(s, i)
  <2>1. PICK i \in 1 .. n : upto[i - 1] <= p /\ p < upto[i]
    BY <1>10, <1>12, <1>15 DEF Laid
  <2> QED
    BY <1>9, <1>11, <2>1
<1> QED
  BY <1>1, <1>12, <1>13, <1>14, <1>15 DEF C

-----------------------------------------------------------------------------
(* Stretches of a stream, and what the search finds in them.               *)

LEMMA PieceIs ==
  ASSUME NEW s \in Streams, NEW p \in Nat, NEW q \in Nat, p <= q, q <= Len(Text[s])
  PROVE  /\ Piece(s, p, q) \in Seq(StreamCells(s)) /\ Len(Piece(s, p, q)) = q - p
         /\ \A k \in 1 .. q - p : Piece(s, p, q)[k] = Text[s][p + k]
<1> DEFINE t == Text[s]
           C == StreamCells(s)
<1>1. t \in Seq(C)
  BY TextIs
<1> HIDE DEF t, C
<1>2. \A i \in p + 1 .. q : t[i] \in C
  <2>1. Len(t) \in Nat /\ q <= Len(t)
    BY <1>1 DEF t
  <2> QED
    BY <1>1, <2>1
<1>3. p + 1 \in Int /\ q \in Int
  OBVIOUS
<1>4. /\ SubSeq(t, p + 1, q) \in Seq(C)
      /\ Len(SubSeq(t, p + 1, q)) = IF p + 1 <= q THEN q - (p + 1) + 1 ELSE 0
      /\ \A i \in 1 .. q - (p + 1) + 1 : SubSeq(t, p + 1, q)[i] = t[(p + 1) + i - 1]
  BY ONLY <1>2, <1>3, SubSeqProperties
<1>5. q - (p + 1) + 1 = q - p /\ \A i \in 1 .. q - p : (p + 1) + i - 1 = p + i
  OBVIOUS
<1> QED
  BY <1>4, <1>5 DEF Piece, t, C

LEMMA PiecesJoin ==
  ASSUME NEW s \in Streams, NEW p \in Nat, NEW q \in Nat, NEW r \in Nat,
         p <= q, q <= r, r <= Len(Text[s])
  PROVE  Piece(s, p, q) \o Piece(s, q, r) = Piece(s, p, r)
<1> DEFINE t == Text[s]
           C == StreamCells(s)
<1>1. t \in Seq(C) /\ Len(t) \in Nat /\ r <= Len(t)
  BY TextIs
<1> HIDE DEF t, C
<1>2. /\ p + 1 \in 1 .. Len(t) + 1 /\ q \in (p + 1) - 1 .. Len(t) /\ r \in q .. Len(t)
  BY <1>1
<1>3. SubSeq(t, p + 1, q) \o SubSeq(t, q + 1, r) = SubSeq(t, p + 1, r)
  BY <1>1, <1>2, ConcatAdjacentSubSeq
<1> QED
  BY <1>3 DEF Piece, t

\* Cells a .. b of the stretch d from w to q, which are the stretch from x to y.
PartOf(d, s, w, q, a, b, x, y, v) ==
  /\ d = Piece(s, w, q) /\ v = SubSeq(d, a, b)
  /\ s \in Streams /\ w \in Nat /\ q \in Nat /\ q <= Len(Text[s])
  /\ a \in Nat /\ b \in Nat /\ 1 <= a /\ a <= b + 1
  /\ x \in Nat /\ y \in Nat /\ x = w + a - 1 /\ y = w + b /\ y <= q

LEMMA PieceOfPiece ==
  ASSUME NEW d, NEW s, NEW w, NEW q, NEW a, NEW b, NEW x, NEW y, NEW v,
         PartOf(d, s, w, q, a, b, x, y, v)
  PROVE  v = Piece(s, x, y)
<1> /\ d = Piece(s, w, q) /\ v = SubSeq(d, a, b)
    /\ s \in Streams /\ w \in Nat /\ q \in Nat /\ q <= Len(Text[s])
    /\ a \in Nat /\ b \in Nat /\ 1 <= a /\ a <= b + 1
    /\ x \in Nat /\ y \in Nat /\ x = w + a - 1 /\ y = w + b /\ y <= q
  BY DEF PartOf
<1> DEFINE u == Piece(s, x, y)
           C == StreamCells(s)
<1>0. PICK n \in Nat : n = q - w /\ b <= n
  OBVIOUS
<1>1. /\ d \in Seq(C) /\ Len(d) = n /\ \A k \in 1 .. n : d[k] = Text[s][w + k]
  <2>1. w <= q /\ s \in Streams /\ w \in Nat /\ q \in Nat /\ q <= Len(Text[s])
    OBVIOUS
  <2>2. /\ Piece(s, w, q) \in Seq(StreamCells(s)) /\ Len(Piece(s, w, q)) = q - w
        /\ \A k \in 1 .. q - w : Piece(s, w, q)[k] = Text[s][w + k]
    BY ONLY <2>1, PieceIs
  <2>3. q - w = n /\ d = Piece(s, w, q)
    BY <1>0
  <2> QED
    BY ONLY <2>2, <2>3 DEF C
<1>2. /\ u \in Seq(C) /\ Len(u) = b - a + 1
      /\ \A k \in 1 .. b - a + 1 : u[k] = Text[s][x + k]
  <2>1. /\ x <= y /\ y <= Len(Text[s]) /\ y - x = b - a + 1
        /\ s \in Streams /\ x \in Nat /\ y \in Nat
    BY TextIs
  <2>2. /\ Piece(s, x, y) \in Seq(StreamCells(s)) /\ Len(Piece(s, x, y)) = y - x
        /\ \A k \in 1 .. y - x : Piece(s, x, y)[k] = Text[s][x + k]
    BY ONLY <2>1, PieceIs
  <2> QED
    BY <2>1, <2>2
<1>3. /\ v \in Seq(C) /\ Len(v) = b - a + 1
      /\ \A k \in 1 .. b - a + 1 : v[k] = d[a + k - 1]
  <2>1. \A i \in a .. b : d[i] \in C
    <3> HIDE DEF C
    <3> QED
      BY <1>0, <1>1
  <2> HIDE DEF C
  <2>2. a \in Int /\ b \in Int
    OBVIOUS
  <2>3. /\ SubSeq(d, a, b) \in Seq(C)
        /\ Len(SubSeq(d, a, b)) = IF a <= b THEN b - a + 1 ELSE 0
        /\ \A i \in 1 .. b - a + 1 : SubSeq(d, a, b)[i] = d[a + i - 1]
    BY ONLY <2>1, <2>2, SubSeqProperties
  <2> QED
    BY <2>3
<1> HIDE DEF u, C
<1>4. \A k \in 1 .. Len(v) : v[k] = u[k]
  <2> TAKE k \in 1 .. Len(v)
  <2>1. k \in 1 .. b - a + 1 /\ a + k - 1 \in 1 .. n /\ w + (a + k - 1) = x + k
    <3>1. k \in 1 .. b - a + 1
      BY ONLY <1>3, k \in 1 .. Len(v)
    <3>2. /\ a \in Nat /\ b \in Nat /\ w \in Nat /\ n \in Nat
          /\ 1 <= a /\ b <= n /\ x = w + a - 1
      BY <1>0
    <3> QED
      BY ONLY <3>1, <3>2
  <2>2. v[k] = d[a + k - 1]
    BY ONLY <1>3, <2>1
  <2>3. d[a + k - 1] = Text[s][x + k]
    <3>1. d[a + k - 1] = Text[s][w + (a + k - 1)]
      BY ONLY <1>1, <2>1
    <3> QED
      BY ONLY <2>1, <3>1
  <2>4. u[k] = Text[s][x + k]
    BY ONLY <1>2, <2>1
  <2> QED
    BY <2>2, <2>3, <2>4
<1>5. v = u
  BY <1>2, <1>3, <1>4, SeqEqual
<1> QED
  BY <1>5 DEF u

\* The pattern lies exactly where messages begin.
LEMMA PatternIs ==
  ASSUME NEW s \in Streams, NEW q \in Nat, q + PatternLen <= Len(Text[s])
  PROVE  (\A k \in 1 .. PatternLen : Text[s][q + k] = CellOf(0, k)) <=> Begins(s, q)
<1>1. /\ PatternLen \in Nat /\ 1 <= PatternLen /\ PatternLen < HeaderLen /\ HeaderLen \in Nat
      /\ Len(Text[s]) \in Nat
  BY LengthsAre, TextIs
<1>2. ASSUME \A k \in 1 .. PatternLen : Text[s][q + k] = CellOf(0, k)
      PROVE  Begins(s, q)
  <2>1. PICK i \in DOMAIN Sent[s] : Before(s, i) <= q /\ q < EndOf(s, i)
    <3>1. q < Len(Text[s])
      BY <1>1
    <3> QED
      BY <3>1, TextIs
  <2> DEFINE m == Sent[s][i]
             k == q - Before(s, i) + 1
  <2>2. /\ m \in Messages /\ Before(s, i) \in Nat
        /\ EndOf(s, i) = Before(s, i) + MsgLen[m] /\ MsgLen[m] \in Nat
        /\ \A l \in 1 .. MsgLen[m] : Text[s][Before(s, i) + l] = CellOf(m, l)
    BY SentAre, TextIs, LengthsAre
  <2>3. k \in 1 .. MsgLen[m] /\ Before(s, i) + k = q + 1 /\ (k = 1 => Before(s, i) = q)
    BY <2>1, <2>2
  <2> HIDE DEF m, k
  <2>4. CellOf(m, k) = CellOf(0, 1)
    <3>1. 1 \in 1 .. PatternLen
      BY <1>1
    <3>2. Text[s][q + 1] = CellOf(0, 1)
      BY <1>2, <3>1
    <3> QED
      BY <2>2, <2>3, <3>2
  <2>5. k = 1
    BY <2>2, <2>3, <2>4, CellsAre
  <2> QED
    BY <2>3, <2>5 DEF Begins
<1>3. ASSUME Begins(s, q), NEW k \in 1 .. PatternLen
      PROVE  Text[s][q + k] = CellOf(0, k)
  <2>1. PICK i \in DOMAIN Sent[s] : Before(s, i) = q
    BY <1>3 DEF Begins
  <2> DEFINE m == Sent[s][i]
  <2>2. m \in Messages /\ \A l \in 1 .. MsgLen[m] : Text[s][Before(s, i) + l] = CellOf(m, l)
    BY SentAre, TextIs
  <2> HIDE DEF m
  <2>3. k \in 1 .. MsgLen[m] /\ k <= HeaderLen
    BY <1>1, <2>2, LengthsAre
  <2> QED
    BY <2>1, <2>2, <2>3, CellsAre
<1> QED
  BY <1>2, <1>3

-----------------------------------------------------------------------------
(* What the parser makes of cells.                                         *)

\* The cells begin with a header.
Headed(f) == \A k \in 1 .. HeaderLen : f[k] = CellOf(0, k)

\* The cell after the header is the BodyLength of message m.
Names(f, m) == m # 0 /\ f[HeaderLen + 1][1] = m /\ f[HeaderLen + 1][2] = HeaderLen + 1

LEMMA OutcomesAre ==
  ASSUME NEW f, Len(f) \in Nat
  PROVE  /\ Len(f) < HeaderLen => Outcomes(f) = {TooShort(f)}
         /\ Len(f) >= HeaderLen /\ ~Headed(f) =>
              Outcomes(f) = {Result("invalidType", Len(f), Mixture)}
         /\ Len(f) = HeaderLen /\ Headed(f) => Outcomes(f) = {TooShort(f)}
         /\ Len(f) > HeaderLen /\ Headed(f) /\ ~Names(f, f[HeaderLen + 1][1]) =>
              Outcomes(f) = {TooShort(f)} \cup
                            {Result(code, consumed, Mixture) :
                               code \in {"checksum", "tagInvalid", "ok"},
                               consumed \in HeaderLen + 1 .. Len(f)}
         /\ \A m : Len(f) > HeaderLen /\ Headed(f) /\ Names(f, m) =>
              /\ Stated[m] = 0 => Outcomes(f) = {Result("tagInvalid", Len(f), Mixture)}
              /\ Stated[m] # 0 =>
                   /\ Len(f) < Stated[m] => Outcomes(f) = {TooShort(f)}
                   /\ ~(Len(f) < Stated[m]) /\ SubSeq(f, 1, Stated[m]) # Body(m) =>
                        Outcomes(f) = {Result(code, Stated[m], Mixture) :
                                         code \in {"checksum", "tagInvalid", "ok"}}
                   /\ ~(Len(f) < Stated[m]) /\ SubSeq(f, 1, Stated[m]) = Body(m) =>
                        Outcomes(f) = {Result(IF m \in Damaged THEN "checksum" ELSE "ok",
                                              Stated[m], m)}
<1>1. HeaderLen \in Nat
  BY LengthsAre
<1> DEFINE n == Len(f)
           id == f[HeaderLen + 1][1]
<1>2. Outcomes(f) =
        IF n < HeaderLen THEN {TooShort(f)}
        ELSE IF ~Headed(f) THEN {Result("invalidType", n, Mixture)}
        ELSE IF n = HeaderLen THEN {TooShort(f)}
        ELSE IF ~Names(f, id)
          THEN {TooShort(f)} \cup
               {Result(code, consumed, Mixture) :
                  code \in {"checksum", "tagInvalid", "ok"}, consumed \in HeaderLen + 1 .. n}
        ELSE IF Stated[id] = 0 THEN {Result("tagInvalid", n, Mixture)}
        ELSE IF n < Stated[id] THEN {TooShort(f)}
        ELSE IF SubSeq(f, 1, Stated[id]) # Body(id)
          THEN {Result(code, Stated[id], Mixture) : code \in {"checksum", "tagInvalid", "ok"}}
        ELSE IF id \in Damaged THEN {Result("checksum", Stated[id], id)}
        ELSE {Result("ok", Stated[id], id)}
  BY DEF Outcomes, Headed, Names
<1>3. \A m : Names(f, m) => m = id
  BY DEF Names
<1> HIDE DEF id
<1> QED
  BY <1>1, <1>2, <1>3 DEF id

LEMMA OutcomeOfWhole ==
  ASSUME NEW f, NEW m, Len(f) \in Nat, Len(f) > HeaderLen, Headed(f), Names(f, m),
         Stated[m] # 0, ~(Len(f) < Stated[m]), SubSeq(f, 1, Stated[m]) = Body(m)
  PROVE  Outcomes(f) = {Result(IF m \in Damaged THEN "checksum" ELSE "ok", Stated[m], m)}
<1>1. HeaderLen \in Nat
  BY LengthsAre
<1>2. /\ ~(Len(f) < HeaderLen) /\ Len(f) # HeaderLen
      /\ ~(\E k \in 1 .. HeaderLen : f[k] # CellOf(0, k))
  BY <1>1 DEF Headed
<1>3. f[HeaderLen + 1][1] = m /\ m # 0 /\ f[HeaderLen + 1][2] = HeaderLen + 1
  BY DEF Names
<1>4. Outcomes(f) = IF m \in Damaged THEN {Result("checksum", Stated[m], m)}
                    ELSE {Result("ok", Stated[m], m)}
  BY ONLY <1>2, <1>3, Stated[m] # 0, ~(Len(f) < Stated[m]), SubSeq(f, 1, Stated[m]) = Body(m)
     DEF Outcomes
<1> QED
  BY <1>4

\* The three kinds of verdicts on cells of messages D: they are too short, they are
\* one of the messages, or they are neither.
Verdict(D, f, r) ==
  /\ r.consumed \in 0 .. Len(f)
  /\ r.code \in {"tooShort", "invalidType", "checksum", "tagInvalid", "ok"}
  /\ r.code = "tooShort" => r = TooShort(f) /\ r.consumed = Len(f) /\ Unfinished(f)
  /\ r.msg = Mixture \/ /\ r.msg \in D \ Misstated
                        /\ r.code = IF r.msg \in Damaged THEN "checksum" ELSE "ok"
                        /\ MsgLen[r.msg] <= Len(f)
                        /\ SubSeq(f, 1, MsgLen[r.msg]) = Body(r.msg)

LEMMA VerdictIs ==
  ASSUME NEW D \in SUBSET Messages, NEW f \in Seq(({0} \cup D) \X Nat), NEW r \in Outcomes(f)
  PROVE  Verdict(D, f, r)
<1> USE DEF Verdict
<1> DEFINE n == Len(f)
           c == f[HeaderLen + 1]
<1>1. /\ n \in Nat /\ HeaderLen \in Nat /\ 1 <= HeaderLen /\ 0 \notin Messages
      /\ \A m \in Messages : MsgLen[m] \in Nat /\ HeaderLen + 1 < MsgLen[m]
  BY LengthsAre DEF Mixture
<1>2. \A m \in Messages : MsgLen[m] <= n /\ SubSeq(f, 1, MsgLen[m]) = Body(m) =>
         /\ n > HeaderLen /\ Headed(f) /\ Names(f, m)
  <2> TAKE m \in Messages
  <2> HAVE MsgLen[m] <= n /\ SubSeq(f, 1, MsgLen[m]) = Body(m)
  <2>1. \A k \in 1 .. MsgLen[m] : SubSeq(f, 1, MsgLen[m])[k] = f[k]
    BY <1>1
  <2>2. \A k \in 1 .. MsgLen[m] : f[k] = CellOf(m, k)
    <3>1. \A k \in 1 .. MsgLen[m] : Body(m)[k] = CellOf(m, k)
      BY CellsAre
    <3>2. SubSeq(f, 1, MsgLen[m]) = Body(m)
      OBVIOUS
    <3> QED
      BY ONLY <2>1, <3>1, <3>2
  <2>3. HeaderLen + 1 \in 1 .. MsgLen[m] /\ 1 .. HeaderLen \subseteq 1 .. MsgLen[m]
    BY <1>1
  <2>4. Headed(f)
    BY <2>2, <2>3, CellsAre DEF Headed
  <2>5. f[HeaderLen + 1] = <<m, HeaderLen + 1>>
    BY <1>1, <2>2, <2>3, CellsAre
  <2> QED
    BY <1>1, <2>4, <2>5 DEF Names
<1>3. CASE n < HeaderLen \/ (n = HeaderLen /\ Headed(f))
  <2>1. r = TooShort(f)
    BY <1>1, <1>3, OutcomesAre
  <2>2. Unfinished(f)
    BY <1>1, <1>2, <1>3 DEF Unfinished
  <2> QED
    BY <1>1, <2>1, <2>2 DEF TooShort, Result
<1>4. CASE n >= HeaderLen /\ ~Headed(f)
  <2>1. r = Result("invalidType", n, Mixture)
    BY <1>1, <1>4, OutcomesAre
  <2> QED
    BY <1>1, <2>1 DEF Result
<1>5. CASE n > HeaderLen /\ Headed(f) /\ ~Names(f, c[1])
  <2>1. \/ r = TooShort(f)
        \/ \E code \in {"checksum", "tagInvalid", "ok"}, consumed \in HeaderLen + 1 .. n :
              r = Result(code, consumed, Mixture)
    BY <1>1, <1>5, OutcomesAre
  <2>2. Unfinished(f)
    <3>1. \A m : Names(f, m) => m = c[1]
      BY DEF Names
    <3> QED
      BY <1>1, <1>2, <1>5, <3>1 DEF Unfinished
  <2>3. CASE r = TooShort(f)
    BY <1>1, <2>2, <2>3 DEF TooShort, Result
  <2>4. ASSUME NEW code \in {"checksum", "tagInvalid", "ok"}, NEW consumed \in HeaderLen + 1 .. n,
               r = Result(code, consumed, Mixture)
        PROVE  /\ r.consumed \in 0 .. n /\ r.msg = Mixture
               /\ r.code \in {"checksum", "tagInvalid", "ok"}
    BY <1>1, <2>4 DEF Result
  <2> QED
    BY <2>1, <2>3, <2>4
<1>6. CASE n > HeaderLen /\ Headed(f) /\ Names(f, c[1])
  <2>1. PICK m : m = c[1]
    OBVIOUS
  <2>2. Names(f, m) /\ m # 0
    BY <1>6, <2>1 DEF Names
  <2>3. m \in D /\ m \in Messages
    <3>1. c \in ({0} \cup D) \X Nat
      BY <1>1, <1>6
    <3>2. c[1] \in {0} \cup D
      <4> HIDE DEF c
      <4> QED
        BY <3>1
    <3> QED
      BY <2>1, <2>2, <3>2
  <2>4. MsgLen[m] \in Nat /\ Stated[m] \in Nat
    BY <1>1, <2>3, StatedAre
  <2>0. Len(f) \in Nat /\ Len(f) > HeaderLen /\ Headed(f)
    BY <1>1, <1>6
  <2>5. CASE Stated[m] = 0
    <3>1. r = Result("tagInvalid", n, Mixture)
      BY <2>0, <2>2, <2>5, OutcomesAre
    <3> QED
      BY <1>1, <3>1 DEF Result
  <2>6. CASE Stated[m] # 0 /\ n < Stated[m]
    <3>1. r = TooShort(f)
      BY <2>0, <2>2, <2>6, OutcomesAre
    <3>2. \A l \in Messages : Names(f, l) => l = m
      BY <2>1 DEF Names
    <3>3. Unfinished(f)
      <4> SUFFICES ASSUME NEW l \in Messages \ Misstated, n >= MsgLen[l],
                          SubSeq(f, 1, MsgLen[l]) = Body(l)
                   PROVE  FALSE
        BY DEF Unfinished
      <4>1. l = m
        BY <1>1, <1>2, <3>2
      <4> QED
        BY <1>1, <2>4, <2>6, <4>1, StatedAre
    <3> QED
      BY <1>1, <3>1, <3>3 DEF TooShort, Result
  <2>7. CASE /\ Stated[m] # 0 /\ ~(n < Stated[m])
             /\ SubSeq(f, 1, Stated[m]) # Body(m)
    <3>1. PICK code \in {"checksum", "tagInvalid", "ok"} : r = Result(code, Stated[m], Mixture)
      <4>1. Outcomes(f) = {Result(code, Stated[m], Mixture) :
                             code \in {"checksum", "tagInvalid", "ok"}}
        BY ONLY <2>0, <2>2, <2>7, n = Len(f), OutcomesAre
      <4> QED
        BY <4>1
    <3> QED
      BY <1>1, <2>4, <2>7, <3>1 DEF Result
  <2>8. CASE /\ Stated[m] # 0 /\ ~(n < Stated[m])
             /\ SubSeq(f, 1, Stated[m]) = Body(m)
    <3>1. r = Result(IF m \in Damaged THEN "checksum" ELSE "ok", Stated[m], m)
      <4>1. Outcomes(f) = {Result(IF m \in Damaged THEN "checksum" ELSE "ok", Stated[m], m)}
        BY <2>0, <2>2, <2>8, OutcomeOfWhole
      <4> QED
        BY <4>1
    <3>2. Stated[m] = MsgLen[m]
      <4>1. Len(SubSeq(f, 1, Stated[m])) = Stated[m]
        BY <1>1, <2>4, <2>8
      <4>2. Len(Body(m)) = MsgLen[m]
        BY <2>3, BodyIs
      <4> QED
        BY ONLY <2>8, <4>1, <4>2
    <3> QED
      BY <1>1, <2>3, <2>4, <2>8, <3>1, <3>2 DEF Result, Misstated
  <2> QED
    BY <2>5, <2>6, <2>7, <2>8
<1> QED
  BY <1>1, <1>3, <1>4, <1>5, <1>6

\* What begins with a message, or is the beginning of one, has one verdict unless
\* the BodyLength is wrong; it is consumed whole unless it is too small.
LEMMA VerdictOnMessage ==
  ASSUME NEW m \in Messages, NEW f \in Seq(Cells), f # <<>>,
         \A k \in 1 .. MsgLen[m] : k <= Len(f) => f[k] = CellOf(m, k)
  PROVE  /\ m \notin Misstated =>
              /\ Len(f) < MsgLen[m] => Outcomes(f) = {TooShort(f)}
              /\ MsgLen[m] <= Len(f) =>
                   Outcomes(f) = {Result(IF m \in Damaged THEN "checksum" ELSE "ok",
                                         MsgLen[m], m)}
         /\ m \notin Understated /\ Len(f) = MsgLen[m] =>
              \A r \in Outcomes(f) : r.consumed = Len(f)
         /\ f[1] = CellOf(0, 1)
<1>1. /\ MsgLen[m] \in Nat /\ HeaderLen \in Nat /\ 1 <= HeaderLen /\ HeaderLen + 1 < MsgLen[m]
      /\ m # 0 /\ Len(f) \in Nat /\ Len(f) >= 1
  BY LengthsAre
<1>2. \A k \in 1 .. MsgLen[m] : k <= HeaderLen => CellOf(m, k) = CellOf(0, k)
  BY CellsAre
<1>3. Len(f) >= HeaderLen => Headed(f)
  BY <1>1, <1>2 DEF Headed
<1>4. Len(f) > HeaderLen => Names(f, m)
  <2>1. HeaderLen + 1 \in 1 .. MsgLen[m] /\ HeaderLen + 1 > HeaderLen
    BY <1>1
  <2>2. CellOf(m, HeaderLen + 1) = <<m, HeaderLen + 1>>
    BY <2>1, CellsAre
  <2>3. Len(f) > HeaderLen => f[HeaderLen + 1] = <<m, HeaderLen + 1>>
    BY <1>1, <2>1, <2>2
  <2> QED
    BY <1>1, <2>3 DEF Names
<1>5. MsgLen[m] <= Len(f) => SubSeq(f, 1, MsgLen[m]) = Body(m)
  <2> HAVE MsgLen[m] <= Len(f)
  <2> DEFINE u == SubSeq(f, 1, MsgLen[m])
             v == Body(m)
  <2>1. u \in Seq(Cells) /\ Len(u) = MsgLen[m] /\ \A k \in 1 .. MsgLen[m] : u[k] = f[k]
    BY <1>1
  <2>2. v \in Seq(Cells)
    <3>1. {0, m} \X Nat \subseteq Cells
      BY DEF Cells
    <3>2. v \in Seq({0, m} \X Nat)
      BY BodyIs
    <3> HIDE DEF v
    <3> QED
      BY <3>1, <3>2, SeqMonotonic
  <2>3. Len(v) = MsgLen[m] /\ \A k \in 1 .. MsgLen[m] : v[k] = CellOf(m, k)
    BY BodyIs, CellsAre
  <2> HIDE DEF u, v
  <2>4. \A k \in 1 .. MsgLen[m] : u[k] = v[k]
    BY <1>1, <2>1, <2>3
  <2>5. u = v
    BY <2>1, <2>2, <2>3, <2>4, SeqEqual
  <2> QED
    BY <2>5 DEF u, v
<1>6. f[1] = CellOf(0, 1)
  <2>1. 1 \in 1 .. MsgLen[m]
    BY <1>1
  <2> QED
    BY <1>1, <1>2, <2>1
<1>7. \/ Len(f) < HeaderLen
      \/ Len(f) = HeaderLen /\ Headed(f)
      \/ Len(f) > HeaderLen /\ Headed(f) /\ Names(f, m)
  BY <1>1, <1>3, <1>4
<1>8. m \notin Misstated => Stated[m] = MsgLen[m] /\ Stated[m] # 0
  BY <1>1, StatedAre
<1>9. m \notin Misstated /\ Len(f) < MsgLen[m] => Outcomes(f) = {TooShort(f)}
  BY <1>1, <1>7, <1>8, OutcomesAre
<1>10. m \notin Misstated /\ MsgLen[m] <= Len(f) =>
         Outcomes(f) = {Result(IF m \in Damaged THEN "checksum" ELSE "ok", MsgLen[m], m)}
  <2> HAVE m \notin Misstated /\ MsgLen[m] <= Len(f)
  <2>1. Len(f) \in Nat /\ Len(f) > HeaderLen /\ ~(Len(f) < MsgLen[m]) /\ Headed(f) /\ Names(f, m)
    BY <1>1, <1>7
  <2>2. SubSeq(f, 1, MsgLen[m]) = Body(m)
    BY <1>5
  <2> QED
    BY <1>8, <2>1, <2>2, OutcomeOfWhole
<1>11. ASSUME m \notin Understated, Len(f) = MsgLen[m], NEW r \in Outcomes(f)
       PROVE  r.consumed = Len(f)
  <2>1. Len(f) \in Nat /\ Len(f) > HeaderLen /\ Headed(f) /\ Names(f, m)
    BY <1>1, <1>7, <1>11
  <2>2. /\ Stated[m] \in Nat /\ (Stated[m] = 0 \/ Len(f) <= Stated[m])
    BY <1>11, StatedAre
  <2>3. CASE Stated[m] = 0
    <3>1. r = Result("tagInvalid", Len(f), Mixture)
      BY <2>1, <2>3, OutcomesAre
    <3> QED
      BY <3>1 DEF Result
  <2>4. CASE Stated[m] # 0 /\ Len(f) < Stated[m]
    <3>1. r = TooShort(f)
      BY <2>1, <2>4, OutcomesAre
    <3> QED
      BY <3>1 DEF TooShort, Result
  <2>5. CASE Stated[m] # 0 /\ Len(f) = Stated[m]
    <3>1. ~(Len(f) < Stated[m])
      BY <1>1, <2>5
    <3>2. \/ \E code \in {"checksum", "tagInvalid", "ok"} : r = Result(code, Stated[m], Mixture)
          \/ r = Result(IF m \in Damaged THEN "checksum" ELSE "ok", Stated[m], m)
      BY <2>1, <2>5, <3>1, OutcomesAre
    <3> QED
      BY <2>5, <3>2 DEF Result
  <2> QED
    BY <1>1, <2>2, <2>3, <2>4, <2>5
<1> QED
  BY <1>6, <1>9, <1>10, <1>11

\* A stretch that begins with a message.
LEMMA VerdictOnPiece ==
  ASSUME NEW s \in Streams, NEW i \in DOMAIN Sent[s],
         NEW q \in Nat, Before(s, i) < q, q <= Len(Text[s]),
         NEW m, m = Sent[s][i], NEW f, f = Piece(s, Before(s, i), q)
  PROVE  /\ m \notin Misstated =>
              /\ q < EndOf(s, i) => Outcomes(f) = {TooShort(f)}
              /\ EndOf(s, i) <= q =>
                   Outcomes(f) = {Result(IF m \in Damaged THEN "checksum" ELSE "ok",
                                         MsgLen[m], m)}
         /\ f # <<>> /\ f[1] = CellOf(0, 1)
<1> DEFINE B == Before(s, i)
<1>1. /\ B \in Nat /\ m \in Messages /\ MsgLen[m] \in Nat /\ EndOf(s, i) = B + MsgLen[m]
  BY SentAre, TextIs, LengthsAre
<1>2. /\ f \in Seq(StreamCells(s)) /\ Len(f) = q - B
      /\ \A k \in 1 .. q - B : f[k] = Text[s][B + k]
  <2>1. B \in Nat /\ B <= q /\ f = Piece(s, B, q)
    BY <1>1
  <2> HIDE DEF B
  <2> QED
    BY <2>1, PieceIs
<1>3. \A k \in 1 .. MsgLen[m] : Text[s][B + k] = CellOf(m, k)
  BY TextIs
<1>4. f \in Seq(Cells)
  <2>1. StreamCells(s) \subseteq Cells
    BY SentAre DEF StreamCells, Cells
  <2> QED
    BY <1>2, <2>1, SeqMonotonic
<1> HIDE DEF B
<1>5. B < q
  BY DEF B
<1>6. f # <<>> /\ Len(f) \in Nat
  BY <1>1, <1>2, <1>5
<1>7. \A k \in 1 .. MsgLen[m] : k <= Len(f) => f[k] = CellOf(m, k)
  <2> TAKE k \in 1 .. MsgLen[m]
  <2> HAVE k <= Len(f)
  <2>1. k \in 1 .. q - B
    BY <1>1, <1>2
  <2> QED
    BY <1>2, <1>3, <2>1
<1>8. /\ q < EndOf(s, i) => Len(f) < MsgLen[m]
      /\ EndOf(s, i) <= q => MsgLen[m] <= Len(f)
  BY <1>1, <1>2
<1> QED
  BY <1>1, <1>4, <1>6, <1>7, <1>8, VerdictOnMessage

\* What has no head is too short or of no known type.
LEMMA VerdictOnHeadless ==
  ASSUME NEW f, Len(f) \in Nat, f[1] # CellOf(0, 1)
  PROVE  /\ Len(f) < HeaderLen => Outcomes(f) = {TooShort(f)}
         /\ ~(Len(f) < HeaderLen) => Outcomes(f) = {Result("invalidType", Len(f), Mixture)}
<1>1. HeaderLen \in Nat /\ 1 \in 1 .. HeaderLen
  BY LengthsAre
<1>2. ~Headed(f)
  BY <1>1 DEF Headed
<1> QED
  BY <1>1, <1>2, OutcomesAre

-----------------------------------------------------------------------------
(* Positions.                                                              *)

\* Messages do not overlap, and each is longer than a header and a pattern.
LEMMA PlacesAre ==
  ASSUME NEW s \in Streams, NEW i \in DOMAIN Sent[s]
  PROVE  /\ Before(s, i) \in Nat /\ EndOf(s, i) \in Nat /\ EndOf(s, i) <= Len(Text[s])
         /\ Before(s, i) + HeaderLen + PatternLen <= EndOf(s, i)
         /\ Before(s, i) + PatternLen < EndOf(s, i) /\ Before(s, i) < EndOf(s, i)
         /\ Sent[s][i] \in Messages /\ MsgLen[Sent[s][i]] \in Nat
         /\ EndOf(s, i) = Before(s, i) + MsgLen[Sent[s][i]]
         /\ \A j \in DOMAIN Sent[s] :
              /\ Before(s, j) \in Nat /\ EndOf(s, j) \in Nat /\ Before(s, j) < EndOf(s, j)
              /\ Before(s, i) < EndOf(s, j) /\ Before(s, j) < EndOf(s, i) => i = j
              /\ EndOf(s, i) < EndOf(s, j) => EndOf(s, i) <= Before(s, j)
<1>1. \A j \in DOMAIN Sent[s] :
        /\ Before(s, j) \in Nat /\ EndOf(s, j) \in Nat /\ EndOf(s, j) <= Len(Text[s])
        /\ Sent[s][j] \in Messages /\ EndOf(s, j) = Before(s, j) + MsgLen[Sent[s][j]]
  BY SentAre, TextIs
<1>2. \A m \in Messages : MsgLen[m] \in Nat /\ HeaderLen + PatternLen <= MsgLen[m]
  BY LengthsAre
<1>3. PatternLen \in Nat /\ HeaderLen \in Nat /\ 1 <= PatternLen /\ PatternLen < HeaderLen
  BY LengthsAre
<1>4. \A j \in DOMAIN Sent[s] : /\ Before(s, j) + HeaderLen + PatternLen <= EndOf(s, j)
                                /\ Before(s, j) + PatternLen < EndOf(s, j)
                                /\ Before(s, j) < EndOf(s, j)
  <2> TAKE j \in DOMAIN Sent[s]
  <2>1. PICK b, e, l \in Nat : b = Before(s, j) /\ e = EndOf(s, j) /\ l = MsgLen[Sent[s][j]]
    BY <1>1, <1>2
  <2>2. e = b + l /\ HeaderLen + PatternLen <= l
    BY <1>1, <1>2, <2>1
  <2>3. b + HeaderLen + PatternLen <= e /\ b + PatternLen < e /\ b < e
    BY ONLY <1>3, <2>2, b \in Nat, e \in Nat, l \in Nat
  <2> QED
    BY <2>1, <2>3
<1>5. ASSUME NEW j \in DOMAIN Sent[s]
      PROVE  /\ Before(s, i) < EndOf(s, j) /\ Before(s, j) < EndOf(s, i) => i = j
             /\ EndOf(s, i) < EndOf(s, j) => EndOf(s, i) <= Before(s, j)
  <2>1. i \in Int /\ j \in Int
    BY SentAre
  <2>2. i < j => EndOf(s, i) <= Before(s, j)
    BY TextIs
  <2>3. j < i => EndOf(s, j) <= Before(s, i)
    BY TextIs
  <2>4. i < j \/ j < i \/ i = j
    BY <2>1
  <2> QED
    BY <1>1, <1>4, <2>2, <2>3, <2>4
<1> QED
  BY <1>1, <1>2, <1>4, <1>5

\* Where a message ends another one begins, or the stream ends.
LEMMA NextBegins ==
  ASSUME NEW s \in Streams, NEW i \in DOMAIN Sent[s], EndOf(s, i) < Len(Text[s])
  PROVE  \E j \in DOMAIN Sent[s] : Before(s, j) = EndOf(s, i)
<1>1. EndOf(s, i) \in Nat
  BY PlacesAre
<1>2. PICK j \in DOMAIN Sent[s] : Before(s, j) <= EndOf(s, i) /\ EndOf(s, i) < EndOf(s, j)
  BY <1>1, TextIs
<1>3. EndOf(s, i) <= Before(s, j) /\ Before(s, j) \in Nat
  BY <1>2, PlacesAre
<1> QED
  BY <1>1, <1>2, <1>3

\* No message is inside of where another begins or ends.
LEMMA BordersAreOutside ==
  ASSUME NEW s \in Streams, NEW i \in DOMAIN Sent[s], NEW j \in DOMAIN Sent[s]
  PROVE  /\ ~Inside(s, i, Before(s, j)) /\ ~Inside(s, i, EndOf(s, j))
         /\ \A p \in Nat : Inside(s, i, p) /\ Inside(s, j, p) => i = j
<1>1. /\ Before(s, i) \in Nat /\ EndOf(s, i) \in Nat /\ Before(s, i) < EndOf(s, i)
      /\ Before(s, j) \in Nat /\ EndOf(s, j) \in Nat /\ Before(s, j) < EndOf(s, j)
      /\ Before(s, i) < EndOf(s, j) /\ Before(s, j) < EndOf(s, i) => i = j
  BY PlacesAre
<1> QED
  BY <1>1 DEF Inside

\* A stretch begins like a message exactly where one begins.
LEMMA HeadIs ==
  ASSUME NEW s \in Streams, NEW q \in Nat, q < Len(Text[s])
  PROVE  Text[s][q + 1] = CellOf(0, 1) <=> Begins(s, q)
<1>1. PICK i \in DOMAIN Sent[s] : Before(s, i) <= q /\ q < EndOf(s, i)
  BY TextIs
<1> DEFINE m == Sent[s][i]
           k == q - Before(s, i) + 1
<1>2. /\ m \in Messages /\ MsgLen[m] \in Nat /\ Before(s, i) \in Nat
      /\ EndOf(s, i) = Before(s, i) + MsgLen[m]
  BY PlacesAre
<1>3. \A l \in 1 .. MsgLen[m] : Text[s][Before(s, i) + l] = CellOf(m, l)
  BY TextIs
<1>4. k \in 1 .. MsgLen[m] /\ Before(s, i) + k = q + 1 /\ (k = 1 <=> Before(s, i) = q)
  BY <1>1, <1>2
<1> HIDE DEF m, k
<1>5. CellOf(m, k) = CellOf(0, 1) => k = 1
  BY <1>2, <1>4, CellsAre
<1>6. k = 1 => CellOf(m, k) = CellOf(0, 1)
  <2>1. 1 <= HeaderLen
    BY LengthsAre
  <2> QED
    BY <1>2, <1>4, <2>1, CellsAre
<1>7. Text[s][q + 1] = CellOf(0, 1) <=> k = 1
  BY <1>3, <1>4, <1>5, <1>6
<1>8. Begins(s, q) => Before(s, i) = q
  <2>1. ASSUME NEW j \in DOMAIN Sent[s], Before(s, j) = q
        PROVE  Before(s, i) = q
    <3>1. ~Inside(s, i, Before(s, j))
      BY BordersAreOutside
    <3> QED
      BY <1>1, <1>2, <2>1, <3>1 DEF Inside
  <2> QED
    BY <2>1 DEF Begins
<1> QED
  BY <1>4, <1>7, <1>8 DEF Begins

\* The first n cells of d are those of stream s behind w.
Shows(d, n, s, w) ==
  /\ s \in Streams /\ w \in Nat /\ n \in Nat /\ w + n <= Len(Text[s])
  /\ \A k \in 1 .. n : d[k] = Text[s][w + k]

\* A search from cell from to cell N has found first: as long as that lies in the
\* first n cells it is the beginning of a message, and no message before it has
\* its whole pattern in them.
Located(n, s, w, from, N, first) ==
  /\ first \in Nat
  /\ first # 0 => /\ from <= first /\ first + PatternLen - 1 <= N
                  /\ first <= n => Begins(s, w + first - 1)
  /\ \A i \in DOMAIN Sent[s] :
       w + from - 1 <= Before(s, i) /\ Before(s, i) + PatternLen <= w + n =>
         first # 0 /\ w + first - 1 <= Before(s, i)

LEMMA SearchIs ==
  ASSUME NEW d, NEW n, NEW s, NEW w, Shows(d, n, s, w), NEW N \in Nat, n <= N,
         NEW from \in Nat, 1 <= from
  PROVE  Located(n, s, w, from, N, Search(d, from, N))
<1> USE DEF Shows
<1>0. PICK first : first = Search(d, from, N)
  OBVIOUS
<1> DEFINE M == {p \in from .. N - PatternLen + 1 :
                   \A k \in 1 .. PatternLen : d[p + k - 1] = CellOf(0, k)}
<1>1. PatternLen \in Nat /\ 1 <= PatternLen /\ Len(Text[s]) \in Nat
  BY LengthsAre, TextIs
<1>2. first = IF M = {} THEN 0 ELSE CHOOSE p \in M : \A q \in M : p <= q
  BY <1>0 DEF Search
<1>3. M \subseteq from .. N - PatternLen + 1 /\ M \in SUBSET Nat
  BY <1>1
<1>4. ASSUME NEW p \in M, p <= n
      PROVE  Begins(s, w + p - 1)
  <2>1. p \in Nat /\ 1 <= p /\ d[p + 1 - 1] = CellOf(0, 1)
    BY <1>1, <1>3
  <2>2. p + 1 - 1 = p /\ p \in 1 .. n /\ w + p - 1 \in Nat /\ (w + p - 1) + 1 = w + p
        /\ w + p - 1 < Len(Text[s])
    BY <1>1, <1>4, <2>1
  <2>3. Text[s][(w + p - 1) + 1] = CellOf(0, 1)
    BY <2>1, <2>2
  <2> QED
    BY ONLY <2>2, <2>3, s \in Streams, HeadIs
<1>5. ASSUME NEW i \in DOMAIN Sent[s],
             w + from - 1 <= Before(s, i), Before(s, i) + PatternLen <= w + n
      PROVE  \E p \in M : w + p - 1 = Before(s, i)
  <2> DEFINE p == Before(s, i) - w + 1
  <2>1. Before(s, i) \in Nat
    BY TextIs
  <2>2. p \in from .. N - PatternLen + 1 /\ w + p - 1 = Before(s, i)
    BY <1>1, <1>5, <2>1
  <2>3. \A k \in 1 .. PatternLen : p + k - 1 \in 1 .. n /\ w + (p + k - 1) = Before(s, i) + k
    <3>1. PICK b \in Nat : b = Before(s, i)
      BY <2>1
    <3>2. p \in Nat /\ 1 <= p /\ w + p - 1 = b /\ b + PatternLen <= w + n
      <4>1. from \in Nat /\ 1 <= from /\ w \in Nat
        BY <1>1
      <4>2. p >= from /\ p \in Int
        BY <2>2
      <4>3. w + p - 1 = b /\ b + PatternLen <= w + n
        BY <1>5, <2>2, <3>1
      <4> HIDE DEF p
      <4> QED
        BY ONLY <4>1, <4>2, <4>3
    <3> HIDE DEF p
    <3> QED
      BY ONLY <1>1, <3>1, <3>2, w \in Nat, n \in Nat
  <2>4. \A k \in 1 .. PatternLen : Text[s][Before(s, i) + k] = CellOf(0, k)
    <3>1. Before(s, i) + PatternLen <= Len(Text[s]) /\ Begins(s, Before(s, i))
      BY <1>1, <1>5, <2>1 DEF Begins
    <3> QED
      BY <2>1, <3>1, PatternIs
  <2>5. \A k \in 1 .. PatternLen : d[p + k - 1] = CellOf(0, k)
    BY <2>3, <2>4
  <2> QED
    BY <2>2, <2>5
<1> HIDE DEF M
<1>6. M # {} => first \in M /\ \A q \in M : first <= q
  <2>1. M # {} => \E p \in M : \A q \in M : p <= q
    BY <1>3, Smallest
  <2> QED
    BY <1>2, <2>1
<1>7. ASSUME NEW i \in DOMAIN Sent[s],
             w + from - 1 <= Before(s, i), Before(s, i) + PatternLen <= w + n
      PROVE  first # 0 /\ w + first - 1 <= Before(s, i)
  <2>1. PICK p \in M : w + p - 1 = Before(s, i)
    BY <1>5, <1>7
  <2>2. first \in M /\ first <= p
    BY <1>6, <2>1
  <2>3. first \in Nat /\ p \in Nat /\ from <= first
    BY <1>3, <2>1, <2>2
  <2> QED
    BY <2>1, <2>2, <2>3
<1>8. M # {} => /\ first \in Nat /\ from <= first /\ first + PatternLen - 1 <= N
                /\ first <= n => Begins(s, w + first - 1)
  <2>1. M # {} => first \in from .. N - PatternLen + 1 /\ first \in Nat
    BY <1>3, <1>6
  <2> QED
    BY <1>1, <1>4, <1>6, <2>1
<1>9. M = {} => first = 0
  BY <1>2
<1>10. /\ first \in Nat
       /\ first # 0 => /\ from <= first /\ first + PatternLen - 1 <= N
                       /\ first <= n => Begins(s, w + first - 1)
  BY ONLY <1>8, <1>9
<1> QED
  BY <1>0, <1>7, <1>10 DEF Located

\* An exact fragment begins with the beginning of its message.
LEMMA ExactIs ==
  ASSUME NEW s \in Streams, NEW i, NEW p \in Nat, Inside(s, i, p),
         NEW f, f = Piece(s, Before(s, i), p)
  PROVE  /\ f \in Seq(StreamCells(s)) /\ Len(f) = p - Before(s, i)
         /\ f # <<>> /\ f[1] = CellOf(0, 1) /\ ~Headless(f)
         /\ Sent[s][i] \notin Misstated => Unfinished(f)
<1>1. /\ i \in DOMAIN Sent[s] /\ Before(s, i) < p /\ p < EndOf(s, i)
      /\ Before(s, i) \in Nat /\ EndOf(s, i) \in Nat /\ Len(Text[s]) \in Nat
      /\ EndOf(s, i) <= Len(Text[s])
  BY PlacesAre, TextIs DEF Inside
<1>2. p <= Len(Text[s]) /\ Before(s, i) <= p
  BY <1>1
<1>3. f \in Seq(StreamCells(s)) /\ Len(f) = p - Before(s, i)
  BY <1>1, <1>2, PieceIs
<1>4. /\ Sent[s][i] \notin Misstated => Outcomes(f) = {TooShort(f)}
      /\ f # <<>> /\ f[1] = CellOf(0, 1)
  <2>1. PICK m : m = Sent[s][i]
    OBVIOUS
  <2> QED
    BY <1>1, <1>2, <2>1, VerdictOnPiece
<1>5. ASSUME Sent[s][i] \notin Misstated
      PROVE  Unfinished(f)
  <2>1. TooShort(f) \in Outcomes(f) /\ TooShort(f).code = "tooShort"
    BY <1>4, <1>5 DEF TooShort, Result
  <2> DEFINE D == ToSet(Sent[s])
             r == TooShort(f)
  <2>2. D \in SUBSET Messages /\ f \in Seq(({0} \cup D) \X Nat) /\ r \in Outcomes(f)
    BY <1>3, <2>1, SentAre DEF StreamCells
  <2> HIDE DEF D, r
  <2>3. Verdict(D, f, r)
    BY ONLY <2>2, VerdictIs, Zenon
  <2> QED
    BY <2>1, <2>3 DEF Verdict, r
<1> QED
  BY <1>3, <1>4, <1>5 DEF Headless

-----------------------------------------------------------------------------
(* How the handler moves from position w of a stream to position p, the    *)
(* fragment from f to g, what is reported from rep to out and the errors   *)
(* from e to c.                                                            *)

\* No message whose whole pattern arrived begins between w and p, and one that is
\* cut at p is impaired.
NoPattern(s, w, p, imp) ==
  /\ w \in Nat /\ p \in Nat /\ w < p /\ p <= Len(Text[s])
  /\ \A j \in DOMAIN Sent[s] : w <= Before(s, j) =>
       /\ p < Before(s, j) + PatternLen
       /\ Inside(s, j, p) => Sent[s][j] \in imp

\* StartFragment, ContinueFragment and SkipPrefix.
Started(s, w, p, f, rep, e, g, out, c) ==
  /\ f = <<>> /\ out = rep
  /\ \/ p - w < PatternLen /\ g = Piece(s, w, p) /\ c = e
     \/ g = <<>> /\ c = e + 1
Continued(s, w, p, f, rep, e, g, out, c) ==
  /\ f # <<>> /\ Len(f) + (p - w) < Capacity
  /\ \E r \in Outcomes(f \o Piece(s, w, p)) :
       /\ out = IF r.code = "ok" THEN Append(rep, r.msg) ELSE rep
       /\ c = IF r.code \in {"invalidType", "checksum", "tagInvalid"} THEN e + 1 ELSE e
       /\ g = IF r.code = "tooShort" THEN f \o Piece(s, w, p) ELSE <<>>
Skipped(s, w, p, f, rep, e, g, out, c) ==
  /\ f # <<>> /\ ~(Len(f) + (p - w) < Capacity)
  /\ g = f /\ out = rep /\ c = e

PrefixMove(s, w, p, f, rep, e, g, out, c) ==
  \/ Started(s, w, p, f, rep, e, g, out, c)
  \/ Continued(s, w, p, f, rep, e, g, out, c)
  \/ Skipped(s, w, p, f, rep, e, g, out, c)

\* The messages that begin before position p are well stated.
Sound(s, p) == \A i \in DOMAIN Sent[s] : Before(s, i) < p => Sent[s][i] \notin Misstated

\* What a move makes of an exact fragment that fits, and of a headless one.
ExactMove(s, w, p, f, rep, e, g, out, c) ==
  \A i \in DOMAIN Sent[s] :
    Inside(s, i, w) /\ f = Piece(s, Before(s, i), w)
      /\ FitsFragment(Sent[s][i]) /\ Sent[s][i] \notin Misstated =>
      /\ p < EndOf(s, i) => g = Piece(s, Before(s, i), p) /\ out = rep /\ c = e
      /\ EndOf(s, i) <= p =>
           /\ g = <<>>
           /\ Sent[s][i] \in Damaged => out = rep /\ c = e + 1
           /\ Sent[s][i] \notin Damaged => out = Append(rep, Sent[s][i]) /\ c = e
HeadlessMove(s, w, p, f, rep, e, g, out, c) ==
  Headless(f) =>
    /\ out = rep
    /\ \/ g = f /\ c = e /\ ~(Len(f) + (p - w) < Capacity)
       \/ Headless(g) /\ c = e /\ Len(g) = Len(f) + (p - w)
       \/ g = <<>> /\ c = e + 1

\* A message fits as long as no other one whose pattern is whole has begun.
LEMMA ExactFits ==
  ASSUME NEW s \in Streams, NEW w, NEW p, NEW imp, NoPattern(s, w, p, imp),
         NEW i \in DOMAIN Sent[s], Inside(s, i, w)
  PROVE  /\ p < EndOf(s, i) + PatternLen
         /\ FitsFragment(Sent[s][i]) => p - Before(s, i) < Capacity
<1>1. w \in Nat /\ p \in Nat /\ w < p /\ p <= Len(Text[s]) /\ Len(Text[s]) \in Nat
  BY TextIs DEF NoPattern
<1>2. /\ Before(s, i) \in Nat /\ EndOf(s, i) \in Nat /\ Before(s, i) < w /\ w < EndOf(s, i)
      /\ Sent[s][i] \in Messages /\ MsgLen[Sent[s][i]] \in Nat
      /\ EndOf(s, i) = Before(s, i) + MsgLen[Sent[s][i]]
  BY PlacesAre DEF Inside
<1>3. PatternLen \in Nat /\ 1 <= PatternLen /\ Capacity \in Nat
  BY LengthsAre, SegmentAssumption
<1>4. p < EndOf(s, i) + PatternLen
  <2>1. CASE EndOf(s, i) < p
    <3>1. PICK j \in DOMAIN Sent[s] : Before(s, j) = EndOf(s, i)
      <4>1. EndOf(s, i) < Len(Text[s])
        BY <1>1, <1>2, <2>1
      <4> QED
        BY <4>1, NextBegins
    <3>2. w <= Before(s, j)
      BY <1>1, <1>2, <3>1
    <3> QED
      BY <3>1, <3>2 DEF NoPattern
  <2>2. CASE p <= EndOf(s, i)
    BY <1>1, <1>2, <1>3, <2>2
  <2> QED
    BY <1>1, <1>2, <2>1, <2>2
<1>5. FitsFragment(Sent[s][i]) => p - Before(s, i) < Capacity
  BY <1>1, <1>2, <1>3, <1>4 DEF FitsFragment
<1> QED
  BY <1>4, <1>5

LEMMA ExactMoves ==
  ASSUME NEW s \in Streams, NEW w, NEW p, NEW imp, NoPattern(s, w, p, imp),
         NEW f, NEW rep, NEW e, NEW g, NEW out, NEW c,
         PrefixMove(s, w, p, f, rep, e, g, out, c)
  PROVE  ExactMove(s, w, p, f, rep, e, g, out, c)
<1> SUFFICES ASSUME NEW i \in DOMAIN Sent[s],
                    Inside(s, i, w), f = Piece(s, Before(s, i), w),
                    FitsFragment(Sent[s][i]), Sent[s][i] \notin Misstated
             PROVE  /\ p < EndOf(s, i) => g = Piece(s, Before(s, i), p) /\ out = rep /\ c = e
                    /\ EndOf(s, i) <= p =>
                         /\ g = <<>>
                         /\ Sent[s][i] \in Damaged => out = rep /\ c = e + 1
                         /\ Sent[s][i] \notin Damaged =>
                              out = Append(rep, Sent[s][i]) /\ c = e
  BY DEF ExactMove
<1> DEFINE B == Before(s, i)
           m == Sent[s][i]
           x == f \o Piece(s, w, p)
<1>1. /\ w \in Nat /\ p \in Nat /\ w < p /\ p <= Len(Text[s]) /\ B \in Nat /\ B < w
      /\ EndOf(s, i) \in Nat
  BY PlacesAre DEF NoPattern, Inside
<1>2. f # <<>> /\ Len(f) = w - B
  BY <1>1, ExactIs
<1>3. Len(f) + (p - w) < Capacity
  <2>1. p - B < Capacity
    BY ExactFits
  <2> QED
    BY <1>1, <1>2, <2>1
<1>4. x = Piece(s, B, p)
  <2>1. B <= w /\ w <= p
    BY <1>1
  <2> QED
    BY <1>1, <2>1, PiecesJoin
<1>5. /\ p < EndOf(s, i) => Outcomes(x) = {TooShort(x)}
      /\ EndOf(s, i) <= p =>
           Outcomes(x) = {Result(IF m \in Damaged THEN "checksum" ELSE "ok", MsgLen[m], m)}
  <2>1. B < p
    BY <1>1
  <2> HIDE DEF x, m
  <2> QED
    BY <1>1, <1>4, <2>1, VerdictOnPiece DEF m
<1> HIDE DEF x, m
<1>6. PICK r \in Outcomes(x) :
        /\ out = IF r.code = "ok" THEN Append(rep, r.msg) ELSE rep
        /\ c = IF r.code \in {"invalidType", "checksum", "tagInvalid"} THEN e + 1 ELSE e
        /\ g = IF r.code = "tooShort" THEN x ELSE <<>>
  BY <1>2, <1>3 DEF PrefixMove, Started, Continued, Skipped, x
<1>7. p < EndOf(s, i) => r.code = "tooShort"
  BY <1>5 DEF TooShort, Result
<1>8. EndOf(s, i) <= p => /\ r.code = IF m \in Damaged THEN "checksum" ELSE "ok"
                          /\ r.msg = m
  BY <1>5 DEF Result
<1> QED
  BY <1>4, <1>6, <1>7, <1>8 DEF m

LEMMA HeadlessMoves ==
  ASSUME NEW s \in Streams, NEW w, NEW p, NEW imp, NoPattern(s, w, p, imp),
         NEW f, NEW rep, NEW e, NEW g, NEW out, NEW c, Kept(s, f),
         PrefixMove(s, w, p, f, rep, e, g, out, c)
  PROVE  HeadlessMove(s, w, p, f, rep, e, g, out, c)
<1> SUFFICES ASSUME Headless(f)
             PROVE  /\ out = rep
                    /\ \/ g = f /\ c = e /\ ~(Len(f) + (p - w) < Capacity)
                       \/ Headless(g) /\ c = e /\ Len(g) = Len(f) + (p - w)
                       \/ g = <<>> /\ c = e + 1
  BY DEF HeadlessMove
<1> DEFINE P == Piece(s, w, p)
           C == StreamCells(s)
           x == f \o P
<1>1. f \in Seq(C) /\ f # <<>> /\ f[1] # CellOf(0, 1)
  BY DEF Headless, Kept
<1>2. P \in Seq(C) /\ Len(P) = p - w
  <2>1. w \in Nat /\ p \in Nat /\ w <= p /\ p <= Len(Text[s])
    BY DEF NoPattern
  <2> QED
    BY <2>1, PieceIs
<1> HIDE DEF C, P
<1>3. Len(x) \in Nat /\ Len(x) = Len(f) + (p - w) /\ x[1] # CellOf(0, 1) /\ x # <<>>
  <2>1. /\ x \in Seq(C) /\ Len(f) \in Nat /\ Len(P) \in Nat /\ Len(x) = Len(f) + Len(P)
        /\ \A q \in 1 .. Len(f) : x[q] = f[q]
    <3>1. f \in Seq(C) /\ P \in Seq(C)
      BY <1>1, <1>2
    <3> QED
      BY ONLY <3>1, Concat DEF x
  <2>2. 1 \in 1 .. Len(f)
    BY <1>1
  <2> HIDE DEF x
  <2>3. x[1] = f[1] /\ Len(x) # 0
    BY <2>1, <2>2
  <2> QED
    BY <1>1, <1>2, <2>1, <2>3
<1>4. CASE Continued(s, w, p, f, rep, e, g, out, c)
  <2>1. PICK r \in Outcomes(x) :
          /\ out = IF r.code = "ok" THEN Append(rep, r.msg) ELSE rep
          /\ c = IF r.code \in {"invalidType", "checksum", "tagInvalid"} THEN e + 1 ELSE e
          /\ g = IF r.code = "tooShort" THEN x ELSE <<>>
    BY <1>4 DEF Continued, P
  <2> HIDE DEF x
  <2>2. CASE Len(x) < HeaderLen
    <3>1. r.code = "tooShort"
      BY <1>3, <2>2, VerdictOnHeadless DEF TooShort, Result
    <3>2. Headless(x)
      BY <1>3, <2>2 DEF Headless
    <3> QED
      BY <1>3, <2>1, <3>1, <3>2
  <2>3. CASE ~(Len(x) < HeaderLen)
    <3>1. r.code = "invalidType"
      BY <1>3, <2>3, VerdictOnHeadless DEF Result
    <3> QED
      BY <2>1, <3>1
  <2> QED
    BY <2>2, <2>3
<1>5. CASE Skipped(s, w, p, f, rep, e, g, out, c)
  BY <1>5 DEF Skipped
<1>6. CASE Started(s, w, p, f, rep, e, g, out, c)
  BY <1>1, <1>6 DEF Started
<1> QED
  BY <1>4, <1>5, <1>6 DEF PrefixMove

-----------------------------------------------------------------------------
(* What is reported.                                                       *)

LEMMA InOrderLater ==
  ASSUME NEW s \in Streams, NEW w \in Nat, NEW p \in Nat, w <= p, NEW rep, InOrder(s, w, rep)
  PROVE  InOrder(s, p, rep)
<1>1. PICK at \in [DOMAIN rep -> Nat] :
        \A k \in DOMAIN rep : rep[k] # Mixture =>
          /\ at[k] \in DOMAIN Sent[s] /\ Sent[s][at[k]] = rep[k] /\ EndOf(s, at[k]) <= w
          /\ \A l \in DOMAIN rep : l < k /\ rep[l] # Mixture => at[l] < at[k]
  BY DEF InOrder
<1>2. \A k \in DOMAIN rep : rep[k] # Mixture => EndOf(s, at[k]) \in Nat
  BY <1>1, TextIs
<1>3. \A k \in DOMAIN rep : rep[k] # Mixture => EndOf(s, at[k]) <= p
  BY <1>1, <1>2
<1> QED
  BY <1>1, <1>3 DEF InOrder

\* A mixture, or a message that ends behind all those reported, is added.
LEMMA InOrderAppends ==
  ASSUME NEW s \in Streams, NEW w \in Nat, NEW p \in Nat, w <= p,
         NEW rep, Known(s, rep), InOrder(s, w, rep), NEW m,
         m = Mixture \/ \E a \in DOMAIN Sent[s] : /\ Sent[s][a] = m
                                                  /\ w < EndOf(s, a) /\ EndOf(s, a) <= p
  PROVE  InOrder(s, p, Append(rep, m))
<1> DEFINE n == Len(rep)
           out == Append(rep, m)
<1>1. /\ n \in Nat /\ DOMAIN rep = 1 .. n /\ DOMAIN out = 1 .. n + 1
      /\ out[n + 1] = m /\ \A k \in 1 .. n : out[k] = rep[k]
  BY DEF Known
<1> HIDE DEF n, out
<1>2. PICK at \in [1 .. n -> Nat] :
        \A k \in 1 .. n : rep[k] # Mixture =>
          /\ at[k] \in DOMAIN Sent[s] /\ Sent[s][at[k]] = rep[k] /\ EndOf(s, at[k]) <= w
          /\ \A l \in 1 .. n : l < k /\ rep[l] # Mixture => at[l] < at[k]
  BY <1>1 DEF InOrder
<1>3. PICK a \in Nat :
        m # Mixture => /\ a \in DOMAIN Sent[s] /\ Sent[s][a] = m
                       /\ w < EndOf(s, a) /\ EndOf(s, a) <= p
  <2>1. DOMAIN Sent[s] \subseteq Nat
    BY SentAre
  <2>2. CASE m = Mixture
    BY <2>2
  <2>3. CASE m # Mixture
    BY <2>1, <2>3
  <2> QED
    BY <2>2, <2>3
<1>4. ASSUME NEW k \in 1 .. n, rep[k] # Mixture
      PROVE  EndOf(s, at[k]) <= p /\ (m # Mixture => at[k] < a)
  <2>1. at[k] \in DOMAIN Sent[s] /\ EndOf(s, at[k]) <= w /\ EndOf(s, at[k]) \in Nat
    BY <1>2, <1>4, TextIs
  <2>2. ASSUME m # Mixture
        PROVE  at[k] < a
    <3>1. PICK b : b = at[k]
      OBVIOUS
    <3>2. a \in DOMAIN Sent[s] /\ w < EndOf(s, a) /\ EndOf(s, a) \in Nat
      BY <1>3, <2>2, TextIs
    <3>3. b \in DOMAIN Sent[s] /\ EndOf(s, b) <= w /\ EndOf(s, b) \in Nat /\ b \in Nat
      BY <2>1, <3>1, SentAre
    <3>4. Before(s, a) \in Nat /\ Before(s, b) \in Nat /\ Before(s, b) < EndOf(s, b)
      BY <3>2, <3>3, PlacesAre
    <3>5. a < b => EndOf(s, a) <= Before(s, b)
      BY <3>2, <3>3, TextIs
    <3>6. a # b
      BY <3>2, <3>3
    <3> QED
      BY <3>1, <3>2, <3>3, <3>4, <3>5, <3>6
  <2> QED
    BY <2>1, <2>2
<1> DEFINE new == [k \in 1 .. n + 1 |-> IF k = n + 1 THEN a ELSE at[k]]
<1>5. /\ new \in [1 .. n + 1 -> Nat] /\ new[n + 1] = a
      /\ \A k \in 1 .. n : new[k] = at[k] /\ k # n + 1 /\ k \in 1 .. n + 1 /\ k < n + 1
      /\ \A k \in 1 .. n + 1 : k = n + 1 \/ k \in 1 .. n
  BY <1>1, <1>2
<1> HIDE DEF new
<1>6. ASSUME NEW k \in 1 .. n + 1, out[k] # Mixture
      PROVE  /\ new[k] \in DOMAIN Sent[s] /\ Sent[s][new[k]] = out[k] /\ EndOf(s, new[k]) <= p
             /\ \A l \in 1 .. n + 1 : l < k /\ out[l] # Mixture => new[l] < new[k]
  <2>1. CASE k = n + 1
    <3>1. /\ new[k] \in DOMAIN Sent[s] /\ Sent[s][new[k]] = out[k] /\ EndOf(s, new[k]) <= p
      BY <1>1, <1>3, <1>5, <1>6, <2>1
    <3>2. ASSUME NEW l \in 1 .. n + 1, l < k, out[l] # Mixture
          PROVE  new[l] < new[k]
      <4>1. l \in 1 .. n
        BY <1>1, <1>5, <2>1, <3>2
      <4> QED
        BY <1>1, <1>4, <1>5, <1>6, <2>1, <3>2, <4>1
    <3> QED
      BY <3>1, <3>2
  <2>2. CASE k \in 1 .. n
    <3>1. rep[k] # Mixture /\ rep[k] = out[k] /\ new[k] = at[k]
      BY <1>1, <1>5, <1>6, <2>2
    <3>2. ASSUME NEW l \in 1 .. n + 1, l < k, out[l] # Mixture
          PROVE  new[l] < new[k]
      <4>1. l \in 1 .. n
        BY <1>1, <1>5, <2>2, <3>2
      <4> QED
        BY <1>1, <1>2, <1>5, <2>2, <3>1, <3>2, <4>1
    <3> QED
      BY <1>2, <1>4, <2>2, <3>1, <3>2
  <2> QED
    BY <1>5, <2>1, <2>2
<1>7. new \in [DOMAIN out -> Nat]
  BY <1>1, <1>5
<1>8. \A k \in DOMAIN out : out[k] # Mixture =>
        /\ new[k] \in DOMAIN Sent[s] /\ Sent[s][new[k]] = out[k] /\ EndOf(s, new[k]) <= p
        /\ \A l \in DOMAIN out : l < k /\ out[l] # Mixture => new[l] < new[k]
  BY <1>1, <1>6
<1>9. InOrder(s, p, out)
  BY <1>7, <1>8, Zenon DEF InOrder
<1> QED
  BY <1>9 DEF out

\* A message the fragment is completed to ends among the cells it is completed
\* with: its last cell tells which one it is.
LEMMA CompletedHere ==
  ASSUME NEW s \in Streams, NEW w \in Nat, NEW p \in Nat, w <= p, p <= Len(Text[s]),
         NEW f \in Seq(StreamCells(s)), Unfinished(f),
         NEW m \in Messages \ Misstated, NEW x, x = f \o Piece(s, w, p),
         MsgLen[m] <= Len(x), SubSeq(x, 1, MsgLen[m]) = Body(m)
  PROVE  \E a \in DOMAIN Sent[s] : Sent[s][a] = m /\ w < EndOf(s, a) /\ EndOf(s, a) <= p
<1> DEFINE P == Piece(s, w, p)
           C == StreamCells(s)
           L == MsgLen[m]
           n == Len(f)
<1>1. P \in Seq(C) /\ Len(P) = p - w /\ \A k \in 1 .. p - w : P[k] = Text[s][w + k]
  BY PieceIs
<1>2. f \in Seq(C) /\ x = f \o P
  OBVIOUS
<1> HIDE DEF C, P
<1>3. /\ x \in Seq(C) /\ n \in Nat /\ Len(x) = n + (p - w)
      /\ \A q \in 1 .. n : x[q] = f[q]
      /\ \A k \in 1 .. p - w : x[n + k] = P[k]
  <2>1. f \in Seq(C) /\ P \in Seq(C)
    BY <1>1, <1>2
  <2>2. /\ f \o P \in Seq(C) /\ Len(f) \in Nat /\ Len(P) \in Nat
        /\ Len(f \o P) = Len(f) + Len(P)
        /\ \A q \in 1 .. Len(f) : (f \o P)[q] = f[q]
        /\ \A k \in 1 .. Len(P) : (f \o P)[Len(f) + k] = P[k]
    BY ONLY <2>1, Concat, SMTT(30)
  <2> QED
    BY ONLY <1>1, <1>2, <2>2
<1>4. /\ L \in Nat /\ HeaderLen \in Nat /\ PatternLen \in Nat /\ HeaderLen + 1 < L
      /\ m # 0 /\ L \in 1 .. L /\ L <= Len(x)
  BY LengthsAre
<1>5. \A k \in 1 .. L : x[k] = Body(m)[k]
  <2>1. \A k \in 1 .. L : SubSeq(x, 1, L)[k] = x[k]
    BY <1>3, <1>4
  <2> QED
    BY <2>1
<1>6. n < L
  <2>1. CASE L <= n
    <3>1. SubSeq(f, 1, L) = SubSeq(x, 1, L)
      <4> DEFINE u == SubSeq(f, 1, L)
                 v == SubSeq(x, 1, L)
      <4>1. /\ u \in Seq(C) /\ v \in Seq(C) /\ Len(u) = L /\ Len(v) = L
            /\ \A k \in 1 .. L : u[k] = f[k] /\ v[k] = x[k]
        BY <1>2, <1>3, <1>4, <2>1
      <4>2. \A k \in 1 .. L : f[k] = x[k]
        BY <1>3, <1>4, <2>1
      <4> HIDE DEF u, v
      <4>3. u = v
        <5>1. \A k \in 1 .. L : u[k] = v[k]
          BY <4>1, <4>2
        <5> QED
          BY ONLY <4>1, <5>1, SeqEqual
      <4> QED
        BY <4>3 DEF u, v
    <3> QED
      BY <2>1, <3>1 DEF Unfinished
  <2> QED
    BY <1>3, <1>4, <2>1
<1>7. x[L] = <<m, L>>
  <2>1. Body(m)[L] = CellOf(m, L) /\ (L > HeaderLen => CellOf(m, L) = <<m, L>>)
    BY <1>4, CellsAre
  <2> QED
    BY <1>4, <1>5, <2>1
<1> HIDE DEF n, L
<1> DEFINE q == w + (L - n) - 1
<1>8. L - n \in 1 .. p - w /\ n + (L - n) = L /\ q \in Nat /\ q + 1 = w + (L - n)
  BY <1>3, <1>4, <1>6
<1>9. Text[s][q + 1] = <<m, L>> /\ q < Len(Text[s]) /\ w <= q /\ q < p
  <2>1. x[L] = Text[s][w + (L - n)]
    BY <1>1, <1>3, <1>8
  <2>2. Len(Text[s]) \in Nat
    BY TextIs
  <2>3. w <= q /\ q < p /\ q < Len(Text[s])
    BY <1>8, <2>2
  <2> QED
    BY <1>7, <1>8, <2>1, <2>3
<1> HIDE DEF q
<1>10. PICK a \in DOMAIN Sent[s] : Before(s, a) <= q /\ q < EndOf(s, a)
  BY <1>8, <1>9, TextIs
<1> DEFINE k == q - Before(s, a) + 1
           l == Sent[s][a]
<1>11. /\ l \in Messages /\ MsgLen[l] \in Nat /\ Before(s, a) \in Nat
       /\ EndOf(s, a) = Before(s, a) + MsgLen[l]
       /\ \A j \in 1 .. MsgLen[l] : Text[s][Before(s, a) + j] = CellOf(l, j)
  BY PlacesAre, TextIs
<1>12. k \in 1 .. MsgLen[l] /\ Before(s, a) + k = q + 1
  BY <1>8, <1>10, <1>11
<1> HIDE DEF l
<1>13. CellOf(l, k) = <<m, L>>
  BY <1>9, <1>11, <1>12
<1>14. m = l /\ k = L
  <2>1. k > HeaderLen => CellOf(l, k) = <<l, k>>
    BY <1>11, <1>12, CellsAre
  <2>2. ~(k > HeaderLen) => CellOf(l, k) = <<0, k>>
    BY <1>4, <1>12 DEF CellOf
  <2> QED
    BY <1>4, <1>13, <2>1, <2>2
<1>15. EndOf(s, a) = q + 1
  <2>1. MsgLen[l] = L
    BY <1>14 DEF L
  <2> QED
    BY <1>8, <1>11, <1>12, <1>14, <2>1
<1> QED
  BY <1>8, <1>9, <1>14, <1>15 DEF l

\* A move keeps no finished fragment, and what it reports is a message of the
\* stream that ends among the cells it consumed, or a mixture.
LEMMA PrefixReports ==
  ASSUME NEW s \in Streams, NEW w, NEW p, NEW imp, NoPattern(s, w, p, imp),
         NEW f, NEW rep, NEW e \in Nat, NEW g, NEW out, NEW c,
         Kept(s, f), Known(s, rep), InOrder(s, w, rep),
         PrefixMove(s, w, p, f, rep, e, g, out, c)
  PROVE  /\ Kept(s, g) /\ Known(s, out) /\ InOrder(s, p, out)
         /\ ToSet(rep) \subseteq ToSet(out)
         /\ c \in Nat /\ e <= c /\ c <= e + 1
<1> DEFINE P == Piece(s, w, p)
           C == StreamCells(s)
           x == f \o P
<1>1. w \in Nat /\ p \in Nat /\ w <= p /\ p <= Len(Text[s])
  BY DEF NoPattern
<1>2. P \in Seq(C) /\ Len(P) = p - w
  BY <1>1, PieceIs
<1>3. InOrder(s, p, rep)
  BY <1>1, InOrderLater
<1>4. Kept(s, <<>>)
  <2>1. <<>> \in Seq(C) /\ Len(<<>>) = 0
    OBVIOUS
  <2>2. \A m \in Messages : MsgLen[m] \in Nat /\ 0 < MsgLen[m]
    BY LengthsAre
  <2> HIDE DEF C
  <2> QED
    BY <2>1, <2>2 DEF Kept, Unfinished, C
<1> HIDE DEF P, C
<1>5. CASE Started(s, w, p, f, rep, e, g, out, c)
  <2>1. out = rep /\ c \in Nat /\ e <= c /\ c <= e + 1
    BY <1>5 DEF Started
  <2>2. CASE g = <<>>
    BY <1>3, <1>4, <2>1, <2>2
  <2>3. CASE p - w < PatternLen /\ g = P
    <3>1. PatternLen \in Nat /\ \A m \in Messages : MsgLen[m] \in Nat /\ PatternLen < MsgLen[m]
      BY LengthsAre
    <3>2. Unfinished(g)
      BY <1>1, <1>2, <2>3, <3>1 DEF Unfinished
    <3>3. Kept(s, g)
      BY <1>2, <2>3, <3>2 DEF Kept, C
    <3> QED
      BY <1>3, <2>1, <3>3
  <2> QED
    BY <1>5, <2>2, <2>3 DEF Started, P
<1>6. CASE Skipped(s, w, p, f, rep, e, g, out, c)
  BY <1>3, <1>6 DEF Skipped
<1>7. CASE Continued(s, w, p, f, rep, e, g, out, c)
  <2>1. PICK r \in Outcomes(x) :
          /\ out = IF r.code = "ok" THEN Append(rep, r.msg) ELSE rep
          /\ c = IF r.code \in {"invalidType", "checksum", "tagInvalid"} THEN e + 1 ELSE e
          /\ g = IF r.code = "tooShort" THEN x ELSE <<>>
    BY <1>7 DEF Continued, P
  <2>2. x \in Seq(C) /\ f \in Seq(C) /\ Unfinished(f) /\ x = f \o Piece(s, w, p)
    <3>1. f \in Seq(C) /\ Unfinished(f)
      BY DEF Kept, C
    <3> QED
      BY <1>2, <3>1 DEF P
  <2> HIDE DEF x
  <2>3. /\ r.code = "tooShort" => Unfinished(x)
        /\ r.msg = Mixture \/ /\ r.msg \in ToSet(Sent[s]) \ Misstated
                              /\ r.code = IF r.msg \in Damaged THEN "checksum" ELSE "ok"
                              /\ MsgLen[r.msg] <= Len(x)
                              /\ SubSeq(x, 1, MsgLen[r.msg]) = Body(r.msg)
    <3> DEFINE D == ToSet(Sent[s])
    <3>1. D \in SUBSET Messages /\ x \in Seq(({0} \cup D) \X Nat) /\ r \in Outcomes(x)
      BY <2>2, SentAre DEF C, StreamCells
    <3> HIDE DEF D
    <3>2. Verdict(D, x, r)
      BY ONLY <3>1, VerdictIs, Zenon
    <3> QED
      BY <3>2 DEF Verdict, D
  <2>4. Kept(s, g)
    BY <1>4, <2>1, <2>2, <2>3 DEF Kept, C
  <2>5. CASE r.code # "ok"
    <3>1. out = rep
      BY <2>1, <2>5
    <3> QED
      BY <1>3, <2>1, <2>4, <3>1
  <2>6. CASE r.code = "ok"
    <3>1. PICK m : m = r.msg
      OBVIOUS
    <3>2. out = Append(rep, m) /\ c = e
      BY <2>1, <2>6, <3>1
    <3>3. m = Mixture \/ /\ m \in ToSet(Sent[s]) \ Damaged
                         /\ \E a \in DOMAIN Sent[s] : /\ Sent[s][a] = m
                                                      /\ w < EndOf(s, a) /\ EndOf(s, a) <= p
      <4> SUFFICES ASSUME m # Mixture
                   PROVE  /\ m \in ToSet(Sent[s]) \ Damaged
                          /\ \E a \in DOMAIN Sent[s] : /\ Sent[s][a] = m
                                                       /\ w < EndOf(s, a) /\ EndOf(s, a) <= p
        OBVIOUS
      <4>1. /\ m \in ToSet(Sent[s]) /\ m \notin Misstated /\ m \notin Damaged
            /\ MsgLen[m] <= Len(x) /\ SubSeq(x, 1, MsgLen[m]) = Body(m)
        BY <2>3, <2>6, <3>1
      <4>2. m \in Messages
        BY <4>1, SentAre
      <4> QED
        BY <1>1, <2>2, <4>1, <4>2, CompletedHere DEF C
    <3>4. InOrder(s, p, Append(rep, m))
      BY <1>1, <3>3, InOrderAppends
    <3>5. Known(s, Append(rep, m)) /\ ToSet(rep) \subseteq ToSet(Append(rep, m))
      <4>1. m \in {Mixture} \cup (ToSet(Sent[s]) \ Damaged)
        BY <3>3
      <4> DEFINE T == {Mixture} \cup (ToSet(Sent[s]) \ Damaged)
      <4>2. rep \in Seq(T) /\ m \in T
        BY <4>1 DEF Known
      <4> HIDE DEF T
      <4>3. Append(rep, m) \in Seq(T)
        BY <4>2
      <4>4. ToSet(rep) \subseteq ToSet(Append(rep, m))
        BY <4>2 DEF ToSet
      <4> QED
        BY <4>3, <4>4 DEF Known, T
    <3> QED
      BY <2>4, <3>2, <3>4, <3>5
  <2> QED
    BY <2>5, <2>6
<1> QED
  BY <1>5, <1>6, <1>7 DEF PrefixMove

-----------------------------------------------------------------------------
(* What is missed.                                                         *)

LEMMA LastIsAdded ==
  ASSUME NEW T, NEW rep \in Seq(T), NEW m \in T
  PROVE  /\ Append(rep, m) \in Seq(T) /\ m \in ToSet(Append(rep, m))
         /\ ToSet(rep) \subseteq ToSet(Append(rep, m))
         /\ ToSet(Append(rep, m)) \subseteq ToSet(rep) \cup {m}
<1> DEFINE out == Append(rep, m)
           n == Len(rep)
<1>1. /\ out \in Seq(T) /\ n \in Nat /\ DOMAIN rep = 1 .. n /\ DOMAIN out = 1 .. n + 1
      /\ out[n + 1] = m /\ \A k \in 1 .. n : out[k] = rep[k] /\ k \in 1 .. n + 1
      /\ n + 1 \in 1 .. n + 1 /\ \A k \in 1 .. n + 1 : k = n + 1 \/ k \in 1 .. n
  OBVIOUS
<1> HIDE DEF out, n
<1>2. /\ out \in Seq(T) /\ m \in ToSet(out)
      /\ ToSet(rep) \subseteq ToSet(out) /\ ToSet(out) \subseteq ToSet(rep) \cup {m}
  BY <1>1 DEF ToSet
<1> QED
  BY <1>2 DEF out

\* An unimpaired message that fits is never abandoned.
LEMMA PrefixUncut ==
  ASSUME NEW s \in Streams, NEW w, NEW p, NEW imp, NEW imp2, imp \subseteq imp2,
         NoPattern(s, w, p, imp2),
         NEW f, NEW rep, NEW e, NEW g, NEW out, NEW c,
         ExactMove(s, w, p, f, rep, e, g, out, c),
         Uncut(s, w, f, rep, imp), rep \in Seq({Mixture} \cup Messages),
         ToSet(rep) \subseteq ToSet(out)
  PROVE  Uncut(s, p, g, out, imp2)
<1> SUFFICES ASSUME NEW i \in DOMAIN Sent[s],
                    Sent[s][i] \notin Excused(imp2), FitsFragment(Sent[s][i])
             PROVE  /\ EndOf(s, i) <= p => Sent[s][i] \in ToSet(out)
                    /\ Inside(s, i, p) => g = Piece(s, Before(s, i), p)
  BY DEF Uncut
<1> DEFINE m == Sent[s][i]
<1>0. m \notin Damaged /\ m \notin Misstated /\ m \notin imp2
  BY DEF Excused
<1>1. /\ EndOf(s, i) <= w => m \in ToSet(rep)
      /\ Inside(s, i, w) => f = Piece(s, Before(s, i), w)
  BY DEF Uncut, Excused
<1>2. /\ w \in Nat /\ p \in Nat /\ w < p
      /\ Before(s, i) \in Nat /\ EndOf(s, i) \in Nat
      /\ Before(s, i) + PatternLen < EndOf(s, i) /\ PatternLen \in Nat
  BY PlacesAre, LengthsAre DEF NoPattern
<1>3. CASE w <= Before(s, i)
  BY <1>0, <1>2, <1>3 DEF NoPattern
<1>4. CASE EndOf(s, i) <= w
  BY <1>1, <1>2, <1>4 DEF Inside
<1>5. CASE Before(s, i) < w /\ w < EndOf(s, i)
  <2>1. /\ p < EndOf(s, i) => g = Piece(s, Before(s, i), p)
        /\ EndOf(s, i) <= p => out = Append(rep, m)
    BY <1>0, <1>1, <1>5 DEF Inside, ExactMove
  <2>2. m \in ToSet(Append(rep, m))
    <3> DEFINE T == {Mixture} \cup Messages
    <3>1. rep \in Seq(T) /\ m \in T
      BY SentAre
    <3> HIDE DEF T, m
    <3> QED
      BY ONLY <3>1, LastIsAdded
  <2> QED
    BY <2>1, <2>2 DEF Inside
<1> QED
  BY <1>2, <1>3, <1>4, <1>5

\* Where nothing was lost and every message fits, a fragment is exact or headless.
LEMMA PrefixPure ==
  ASSUME NEW s \in Streams, NEW w, NEW p, NEW imp, NoPattern(s, w, p, imp), AllFit(s),
         NEW f, NEW rep, NEW e, NEW g, NEW out, NEW c, Kept(s, f), Known(s, rep),
         PrefixMove(s, w, p, f, rep, e, g, out, c),
         Pure(s, w, f, rep), Sound(s, w)
  PROVE  Pure(s, p, g, out)
<1>1. w \in Nat /\ p \in Nat /\ w < p /\ p <= Len(Text[s]) /\ Len(Text[s]) \in Nat
  BY TextIs DEF NoPattern
<1>2. Mixture \notin ToSet(rep)
  BY DEF Pure
<1>3. CASE f = <<>>
  <2>1. out = rep
    BY <1>3 DEF PrefixMove, Started, Continued, Skipped
  <2>2. CASE g = <<>>
    BY <1>2, <2>1, <2>2 DEF Pure
  <2>3. CASE g = Piece(s, w, p) /\ p - w < PatternLen
    <3>1. Len(g) = p - w /\ g[1] = Text[s][w + 1] /\ g \in Seq(StreamCells(s))
      <4>1. w <= p /\ 1 \in 1 .. p - w
        BY <1>1
      <4> QED
        BY <1>1, <2>3, <4>1, PieceIs
    <3>2. PatternLen \in Nat /\ HeaderLen \in Nat /\ PatternLen < HeaderLen
      BY LengthsAre
    <3>3. CASE Begins(s, w)
      <4>1. PICK j \in DOMAIN Sent[s] : Before(s, j) = w
        BY <3>3 DEF Begins
      <4>2. Before(s, j) + PatternLen < EndOf(s, j) /\ EndOf(s, j) \in Nat
        BY PlacesAre
      <4>3. Inside(s, j, p) /\ g = Piece(s, Before(s, j), p)
        BY <1>1, <2>3, <3>2, <4>1, <4>2 DEF Inside
      <4> QED
        BY <1>2, <2>1, <4>3 DEF Pure, Exact
    <3>4. CASE ~Begins(s, w)
      <4>1. w < Len(Text[s])
        BY <1>1
      <4>2. g[1] # CellOf(0, 1)
        BY <1>1, <3>1, <3>4, <4>1, HeadIs
      <4>3. g # <<>> /\ Len(g) < HeaderLen
        BY <1>1, <2>3, <3>1, <3>2
      <4> QED
        BY <1>2, <2>1, <4>2, <4>3 DEF Pure, Headless
    <3> QED
      BY <3>3, <3>4
  <2> QED
    BY <1>3, <2>2, <2>3 DEF PrefixMove, Started, Continued, Skipped
<1>4. CASE Headless(f)
  <2>1. HeadlessMove(s, w, p, f, rep, e, g, out, c)
    BY HeadlessMoves
  <2> QED
    BY <1>2, <1>4, <2>1 DEF HeadlessMove, Pure
<1>5. CASE Exact(s, w, f)
  <2>1. PICK i \in DOMAIN Sent[s] : Inside(s, i, w) /\ f = Piece(s, Before(s, i), w)
    BY <1>5 DEF Exact
  <2>2. /\ FitsFragment(Sent[s][i]) /\ Sent[s][i] # Mixture /\ Sent[s][i] \in ToSet(Sent[s])
        /\ Sent[s][i] \notin Misstated
    BY <2>1, SentAre, LengthsAre DEF AllFit, Sound, Inside
  <2>3. ExactMove(s, w, p, f, rep, e, g, out, c)
    BY ExactMoves
  <2>4. CASE p < EndOf(s, i)
    <3>1. g = Piece(s, Before(s, i), p) /\ out = rep
      BY <2>1, <2>2, <2>3, <2>4 DEF ExactMove
    <3>2. Inside(s, i, p)
      <4>1. Before(s, i) \in Nat /\ EndOf(s, i) \in Nat
        BY PlacesAre
      <4> QED
        BY <1>1, <2>1, <2>4, <4>1 DEF Inside
    <3> QED
      BY <1>2, <3>1, <3>2 DEF Pure, Exact
  <2>5. CASE EndOf(s, i) <= p
    <3>1. /\ g = <<>>
          /\ \/ out = rep
             \/ Sent[s][i] \notin Damaged /\ out = Append(rep, Sent[s][i])
      BY <2>1, <2>2, <2>3, <2>5 DEF ExactMove
    <3>2. ASSUME Sent[s][i] \notin Damaged
          PROVE  Mixture \notin ToSet(Append(rep, Sent[s][i]))
      <4>1. PICK m : m = Sent[s][i]
        OBVIOUS
      <4> DEFINE T == {Mixture} \cup (ToSet(Sent[s]) \ Damaged)
      <4>2. rep \in Seq(T) /\ m \in T /\ m # Mixture
        BY <2>2, <3>2, <4>1 DEF Known
      <4> HIDE DEF T
      <4>3. Mixture \notin ToSet(Append(rep, m))
        BY <1>2, <4>2 DEF ToSet
      <4> QED
        BY <4>1, <4>3
    <3> QED
      BY <1>2, <3>1, <3>2 DEF Pure
  <2>6. EndOf(s, i) \in Nat
    BY PlacesAre
  <2> QED
    BY <1>1, <2>4, <2>5, <2>6
<1> QED
  BY <1>3, <1>4, <1>5 DEF Pure

\* The messages that were missed can be counted.
LEMMA MissedIs ==
  ASSUME NEW s \in Streams, NEW p, NEW rep, NEW U, NEW m,
         U \subseteq Missed(s, p, rep) \cup {m}
  PROVE  /\ Cardinality(U) \in Nat /\ Cardinality(Missed(s, p, rep)) \in Nat
         /\ Cardinality(U) <= Cardinality(Missed(s, p, rep)) + 1
         /\ U \subseteq Missed(s, p, rep) => Cardinality(U) <= Cardinality(Missed(s, p, rep))
<1> DEFINE n == Len(Sent[s])
           M == Missed(s, p, rep)
<1>1. IsFiniteSet(ToSet(Sent[s]))
  <2>1. n \in Nat /\ DOMAIN Sent[s] = 1 .. n /\ Sent[s] \in Seq(Messages)
    BY SentAre
  <2>2. Sent[s] \in Surjection(1 .. n, ToSet(Sent[s]))
    BY <2>1 DEF Surjection, ToSet
  <2>3. IsFiniteSet(1 .. n)
    BY <2>1, FS_Interval
  <2> HIDE DEF n
  <2> QED
    BY <2>2, <2>3, FS_Surjection
<1>2. M \subseteq ToSet(Sent[s])
  BY SentAre DEF Missed
<1> HIDE DEF M
<1>3. IsFiniteSet(M)
  BY <1>1, <1>2, FS_Subset
<1>4. IsFiniteSet(M \cup {m}) /\ Cardinality(M \cup {m}) <= Cardinality(M) + 1
  <2>1. Cardinality(M) \in Nat
    BY <1>3, FS_CardinalityType
  <2>2. /\ IsFiniteSet(M \cup {m})
        /\ Cardinality(M \cup {m}) = IF m \in M THEN Cardinality(M) ELSE Cardinality(M) + 1
    BY <1>3, FS_AddElement
  <2> QED
    BY <2>1, <2>2
<1>5. U \subseteq M \cup {m}
  BY DEF M
<1>6. IsFiniteSet(U) /\ Cardinality(U) <= Cardinality(M \cup {m})
  BY <1>4, <1>5, FS_Subset
<1>7. U \subseteq M => Cardinality(U) <= Cardinality(M)
  BY <1>3, FS_Subset
<1>8. Cardinality(U) \in Nat /\ Cardinality(M) \in Nat /\ Cardinality(M \cup {m}) \in Nat
  BY <1>3, <1>4, <1>6, FS_CardinalityType
<1>9. Cardinality(U) <= Cardinality(M) + 1
  BY <1>4, <1>6, <1>8
<1> QED
  BY <1>7, <1>8, <1>9 DEF M

\* What is exact has not been given up.
LEMMA GivenUpIs ==
  ASSUME NEW s \in Streams, NEW p \in Nat, NEW i \in DOMAIN Sent[s], Inside(s, i, p), NEW f
  PROVE  /\ f = Piece(s, Before(s, i), p) => ~GivenUp(s, p, f)
         /\ f = <<>> \/ Headless(f) =>
              (GivenUp(s, p, f) <=> Len(f) + (PatternLen - 1) < p - Before(s, i))
<1>1. ASSUME f = Piece(s, Before(s, i), p)
      PROVE  ~GivenUp(s, p, f)
  BY <1>1 DEF GivenUp, Exact
<1>2. ASSUME f = <<>> \/ Headless(f)
      PROVE  ~Exact(s, p, f)
  <2>1. ASSUME NEW j \in DOMAIN Sent[s], Inside(s, j, p), f = Piece(s, Before(s, j), p)
        PROVE  FALSE
    <3>1. f # <<>> /\ ~Headless(f)
      BY <2>1, ExactIs
    <3> QED
      BY <1>2, <3>1
  <2> QED
    BY <2>1 DEF Exact
<1>3. \A j \in DOMAIN Sent[s] : Inside(s, j, p) => j = i
  BY BordersAreOutside
<1> QED
  BY <1>1, <1>2, <1>3 DEF GivenUp

\* At most the message that w is inside of ends between w and p, and nothing is
\* given up that begins between them.
LEMMA PrefixPasses ==
  ASSUME NEW s \in Streams, NEW w, NEW p, NEW imp, NoPattern(s, w, p, imp),
         NEW rep, NEW out, ToSet(rep) \subseteq ToSet(out), NEW g \in Seq(StreamCells(s))
  PROVE  \E a \in DOMAIN Sent[s] :
           /\ Before(s, a) <= w /\ w < EndOf(s, a)
           /\ p < EndOf(s, a) => Missed(s, p, out) \subseteq Missed(s, w, rep)
           /\ EndOf(s, a) <= p => Before(s, a) < w
           /\ Missed(s, p, out) \subseteq Missed(s, w, rep) \cup {Sent[s][a]}
           /\ EndOf(s, a) <= p \/ Before(s, a) = w => ~GivenUp(s, p, g)
<1>1. w \in Nat /\ p \in Nat /\ w < p /\ p <= Len(Text[s]) /\ Len(Text[s]) \in Nat
  BY TextIs DEF NoPattern
<1>2. PICK a \in DOMAIN Sent[s] : Before(s, a) <= w /\ w < EndOf(s, a)
  <2>1. w < Len(Text[s])
    BY <1>1
  <2> QED
    BY <1>1, <2>1, TextIs
<1>3. PatternLen \in Nat /\ 1 <= PatternLen
  BY LengthsAre
<1>4. ASSUME NEW j \in DOMAIN Sent[s]
      PROVE  /\ Before(s, j) \in Nat /\ EndOf(s, j) \in Nat
             /\ Before(s, j) + PatternLen < EndOf(s, j)
             /\ w <= Before(s, j) => p < Before(s, j) + PatternLen
             /\ EndOf(s, j) <= p => EndOf(s, j) <= w \/ j = a
             /\ EndOf(s, a) <= p \/ Before(s, a) = w =>
                  (Inside(s, j, p) => p - Before(s, j) <= PatternLen - 1)
  <2>1. /\ Before(s, j) \in Nat /\ EndOf(s, j) \in Nat
        /\ Before(s, j) + PatternLen < EndOf(s, j)
        /\ Before(s, a) \in Nat /\ EndOf(s, a) \in Nat
        /\ Before(s, j) < EndOf(s, a) /\ Before(s, a) < EndOf(s, j) => j = a
    BY PlacesAre
  <2>2. w <= Before(s, j) => p < Before(s, j) + PatternLen
    BY DEF NoPattern
  <2>3. ASSUME EndOf(s, j) <= p
        PROVE  EndOf(s, j) <= w \/ j = a
    <3>1. Before(s, j) < w
      BY <1>1, <1>3, <2>1, <2>2, <2>3
    <3> QED
      BY <1>1, <1>2, <2>1, <3>1
  <2>4. ASSUME EndOf(s, a) <= p \/ Before(s, a) = w, Inside(s, j, p)
        PROVE  p - Before(s, j) <= PatternLen - 1
    <3>1. Before(s, j) < p /\ p < EndOf(s, j)
      BY <2>4 DEF Inside
    <3>2. w <= Before(s, j)
      <4>1. CASE EndOf(s, a) <= p
        <5>1. j # a
          BY <1>1, <2>1, <3>1, <4>1
        <5> QED
          BY <1>1, <1>2, <2>1, <3>1, <4>1, <5>1
      <4>2. CASE Before(s, a) = w
        BY <1>1, <1>2, <2>1, <3>1, <4>2
      <4> QED
        BY <2>4, <4>1, <4>2
    <3> QED
      BY <1>1, <1>3, <2>1, <2>2, <3>2
  <2> QED
    BY <2>1, <2>2, <2>3, <2>4
<1>5. Missed(s, p, out) \subseteq Missed(s, w, rep) \cup {Sent[s][a]}
  BY <1>4 DEF Missed
<1>6. p < EndOf(s, a) => Missed(s, p, out) \subseteq Missed(s, w, rep)
  <2> HAVE p < EndOf(s, a)
  <2>1. EndOf(s, a) \in Nat
    BY <1>4
  <2>2. \A j \in DOMAIN Sent[s] : EndOf(s, j) <= p => EndOf(s, j) <= w
    BY <1>1, <1>4, <2>1
  <2> QED
    BY <2>2 DEF Missed
<1>7. EndOf(s, a) <= p => Before(s, a) < w
  <2>1. /\ Before(s, a) \in Nat /\ EndOf(s, a) \in Nat
        /\ Before(s, a) + PatternLen < EndOf(s, a)
        /\ w <= Before(s, a) => p < Before(s, a) + PatternLen
    BY <1>4
  <2> QED
    BY <1>1, <1>3, <2>1
<1>8. ASSUME EndOf(s, a) <= p \/ Before(s, a) = w
      PROVE  ~GivenUp(s, p, g)
  <2>1. Len(g) \in Nat
    OBVIOUS
  <2>2. ASSUME NEW j \in DOMAIN Sent[s], Inside(s, j, p)
        PROVE  ~(Len(g) + (PatternLen - 1) < p - Before(s, j))
    <3>1. p - Before(s, j) <= PatternLen - 1 /\ Before(s, j) \in Nat
      BY <1>4, <1>8, <2>2
    <3> QED
      BY <1>1, <1>3, <2>1, <3>1
  <2> QED
    BY <2>2 DEF GivenUp
<1> QED
  BY <1>2, <1>5, <1>6, <1>7, <1>8

\* A message is given up, or missed, only with an error or once it is given up.
LEMMA PrefixGivesUp ==
  ASSUME NEW s \in Streams, NEW w, NEW p, NEW imp, NoPattern(s, w, p, imp), AllFitBehind(s),
         NEW f, NEW rep, NEW e, NEW g, NEW out, NEW c, Kept(s, f), Known(s, rep),
         PrefixMove(s, w, p, f, rep, e, g, out, c), Pure(s, w, f, rep), Sound(s, w),
         NEW a \in DOMAIN Sent[s], Inside(s, a, w)
  PROVE  /\ p < EndOf(s, a) /\ GivenUp(s, p, g) => GivenUp(s, w, f) \/ c = e + 1
         /\ EndOf(s, a) <= p =>
              Sent[s][a] \in ToSet(out) \/ GivenUp(s, w, f) \/ c = e + 1
<1> DEFINE B == Before(s, a)
           m == Sent[s][a]
<1>1. /\ w \in Nat /\ p \in Nat /\ w < p /\ B \in Nat /\ B < w /\ w < EndOf(s, a)
      /\ EndOf(s, a) \in Nat /\ m \in Messages /\ MsgLen[m] \in Nat
      /\ EndOf(s, a) = B + MsgLen[m] /\ p <= Len(Text[s])
  BY PlacesAre DEF NoPattern, Inside
<1>2. /\ PatternLen \in Nat /\ HeaderLen \in Nat /\ 1 <= PatternLen /\ PatternLen < HeaderLen
      /\ HeaderLen + PatternLen <= MsgLen[m] /\ Capacity \in Nat
      /\ (HeaderLen - 1) + MsgLen[m] + (PatternLen - 1) < Capacity /\ FitsFragment(m)
      /\ Sent[s][a] \notin Misstated
  <2>1. (HeaderLen - 1) + MsgLen[m] + (PatternLen - 1) < Capacity
    BY SentAre DEF AllFitBehind, FitsBehindFragment
  <2>2. /\ PatternLen \in Nat /\ HeaderLen \in Nat /\ 1 <= PatternLen /\ PatternLen < HeaderLen
        /\ HeaderLen + PatternLen <= MsgLen[m] /\ Capacity \in Nat
    BY <1>1, LengthsAre, SegmentAssumption
  <2>3. Sent[s][a] \notin Misstated
    BY <1>1 DEF Sound
  <2>4. FitsFragment(m)
    BY ONLY <1>1, <2>1, <2>2 DEF FitsFragment
  <2> QED
    BY ONLY <2>1, <2>2, <2>3, <2>4
<1>3. p < EndOf(s, a) => Inside(s, a, p)
  BY <1>1 DEF Inside
<1>4. p < EndOf(s, a) + PatternLen
  BY ExactFits
<1>5. f = <<>> \/ Headless(f) =>
        (GivenUp(s, w, f) <=> Len(f) + (PatternLen - 1) < w - B)
  BY <1>1, GivenUpIs
<1>6. p < EndOf(s, a) /\ (g = <<>> \/ Headless(g)) =>
        (GivenUp(s, p, g) <=> Len(g) + (PatternLen - 1) < p - B)
  BY <1>1, <1>3, GivenUpIs
<1>7. Len(f) \in Nat /\ Len(<<>>) = 0
  BY DEF Kept
<1> HIDE DEF B, m
<1>8. CASE f = <<>>
  <2>1. \/ p - w < PatternLen /\ g = Piece(s, w, p) /\ out = rep /\ c = e
        \/ c = e + 1
    BY <1>8 DEF PrefixMove, Started, Continued, Skipped
  <2>2. CASE p - w < PatternLen /\ g = Piece(s, w, p)
    <3>1. EndOf(s, a) <= p => PatternLen - 1 < w - B
      BY <1>1, <1>2, <2>2
    <3>2. Len(g) = p - w
      <4>1. w \in Nat /\ p \in Nat /\ w <= p /\ p <= Len(Text[s])
        BY <1>1
      <4>2. Len(Piece(s, w, p)) = p - w
        BY <4>1, PieceIs
      <4> QED
        BY <2>2, <4>2
    <3>3. GivenUp(s, p, g) => \E i \in DOMAIN Sent[s] :
             Inside(s, i, p) /\ Len(g) + (PatternLen - 1) < p - Before(s, i)
      BY DEF GivenUp
    <3>4. p < EndOf(s, a) /\ GivenUp(s, p, g) => Len(g) + (PatternLen - 1) < p - B
      <4>1. p < EndOf(s, a) => \A i \in DOMAIN Sent[s] : Inside(s, i, p) => i = a
        BY <1>1, <1>3, BordersAreOutside
      <4> QED
        BY <3>3, <4>1 DEF B
    <3>5. p < EndOf(s, a) /\ GivenUp(s, p, g) => PatternLen - 1 < w - B
      BY <1>1, <1>2, <3>2, <3>4
    <3>6. PatternLen - 1 < w - B => GivenUp(s, w, f)
      BY <1>1, <1>2, <1>5, <1>7, <1>8
    <3> QED
      BY <3>1, <3>5, <3>6
  <2> QED
    BY <2>1, <2>2
<1>9. CASE Headless(f)
  <2>1. Len(f) < HeaderLen
    BY <1>9 DEF Headless
  <2>2. \/ g = f /\ c = e /\ ~(Len(f) + (p - w) < Capacity)
        \/ Headless(g) /\ c = e /\ Len(g) = Len(f) + (p - w)
        \/ g = <<>> /\ c = e + 1
    <3>1. HeadlessMove(s, w, p, f, rep, e, g, out, c)
      BY HeadlessMoves
    <3> QED
      BY <1>9, <3>1 DEF HeadlessMove
  <2>3. Len(f) + (p - w) < Capacity
    <3>1. PICK k, l, x \in Nat : k = Len(f) /\ l = MsgLen[m] /\ x = EndOf(s, a)
      BY <1>1, <1>7
    <3>2. /\ k < HeaderLen /\ p < x + PatternLen /\ x = B + l /\ B < w
          /\ (HeaderLen - 1) + l + (PatternLen - 1) < Capacity
          /\ w \in Nat /\ p \in Nat /\ B \in Nat
          /\ HeaderLen \in Nat /\ PatternLen \in Nat /\ Capacity \in Nat
      BY <1>1, <1>2, <1>4, <2>1, <3>1
    <3>3. k + (p - w) < Capacity
      BY ONLY <3>2, k \in Nat, l \in Nat, x \in Nat
    <3> QED
      BY <3>1, <3>3
  <2>4. CASE Headless(g) /\ Len(g) = Len(f) + (p - w)
    <3>1. Len(g) < HeaderLen
      BY <2>4 DEF Headless
    <3>2. EndOf(s, a) <= p => Len(f) + (PatternLen - 1) < w - B
      <4>1. PICK k, l, x \in Nat : k = Len(f) /\ l = MsgLen[m] /\ x = EndOf(s, a)
        BY <1>1, <1>7
      <4>2. /\ k + (p - w) < HeaderLen /\ x = B + l /\ HeaderLen + PatternLen <= l
            /\ w \in Nat /\ p \in Nat /\ B \in Nat
            /\ HeaderLen \in Nat /\ PatternLen \in Nat
        BY <1>1, <1>2, <2>4, <3>1, <4>1
      <4>3. x <= p => k + (PatternLen - 1) < w - B
        BY ONLY <4>2, k \in Nat, l \in Nat, x \in Nat
      <4> QED
        BY <4>1, <4>3
    <3>3. p < EndOf(s, a) /\ GivenUp(s, p, g) => Len(f) + (PatternLen - 1) < w - B
      BY <1>1, <1>2, <1>6, <1>7, <2>4
    <3> QED
      BY <1>5, <1>9, <3>2, <3>3
  <2> QED
    BY <2>2, <2>3, <2>4
<1>10. CASE Exact(s, w, f)
  <2>1. f = Piece(s, Before(s, a), w)
    <3>1. PICK i \in DOMAIN Sent[s] : Inside(s, i, w) /\ f = Piece(s, Before(s, i), w)
      BY <1>10 DEF Exact
    <3>2. i = a
      BY <1>1, <3>1, BordersAreOutside
    <3> QED
      BY <3>1, <3>2
  <2>2. ExactMove(s, w, p, f, rep, e, g, out, c)
    BY ExactMoves
  <2>3. /\ p < EndOf(s, a) => g = Piece(s, Before(s, a), p)
        /\ EndOf(s, a) <= p => c = e + 1 \/ out = Append(rep, Sent[s][a])
    BY <1>2, <2>1, <2>2 DEF ExactMove, m
  <2>4. p < EndOf(s, a) => ~GivenUp(s, p, g)
    BY <1>1, <1>3, <2>3, GivenUpIs
  <2>5. Sent[s][a] \notin Damaged => Sent[s][a] \in ToSet(Append(rep, Sent[s][a]))
    <3> HAVE Sent[s][a] \notin Damaged
    <3>1. PICK l : l = Sent[s][a]
      OBVIOUS
    <3> DEFINE T == {Mixture} \cup (ToSet(Sent[s]) \ Damaged)
    <3>2. rep \in Seq(T) /\ l \in T
      <4>1. l \in ToSet(Sent[s]) /\ l \notin Damaged
        BY <3>1, SentAre
      <4>2. rep \in Seq(T)
        BY DEF Known
      <4> QED
        BY <4>1, <4>2
    <3> HIDE DEF T
    <3>3. l \in ToSet(Append(rep, l))
      <4> DEFINE x == Append(rep, l)
      <4>1. Len(rep) + 1 \in DOMAIN x /\ x[Len(rep) + 1] = l
        BY <3>2
      <4> HIDE DEF x
      <4>2. l \in ToSet(x)
        BY <4>1 DEF ToSet
      <4> QED
        BY <4>2 DEF x
    <3> QED
      BY <3>1, <3>3
  <2>6. EndOf(s, a) <= p /\ Sent[s][a] \in Damaged => c = e + 1
    BY <1>2, <2>1, <2>2 DEF ExactMove, m
  <2> QED
    BY <2>3, <2>4, <2>5, <2>6
<1> QED
  BY <1>8, <1>9, <1>10 DEF Pure

\* Where nothing was lost and every message fits behind a fragment, each missed
\* message keeps its error.
LEMMA PrefixMarks ==
  ASSUME NEW s \in Streams, NEW w, NEW p, NEW imp, NoPattern(s, w, p, imp), AllFitBehind(s),
         NEW f, NEW rep, NEW e \in Nat, NEW g, NEW out, NEW c,
         Kept(s, f), Known(s, rep), InOrder(s, w, rep),
         PrefixMove(s, w, p, f, rep, e, g, out, c),
         Pure(s, w, f, rep), Marked(s, w, f, rep, e), Sound(s, w)
  PROVE  Marked(s, p, g, out, c)
<1>1. /\ g \in Seq(StreamCells(s)) /\ ToSet(rep) \subseteq ToSet(out)
      /\ c \in Nat /\ e <= c /\ c <= e + 1
  BY PrefixReports DEF Kept
<1>2. PICK a \in DOMAIN Sent[s] :
        /\ Before(s, a) <= w /\ w < EndOf(s, a)
        /\ p < EndOf(s, a) => Missed(s, p, out) \subseteq Missed(s, w, rep)
        /\ EndOf(s, a) <= p => Before(s, a) < w
        /\ Missed(s, p, out) \subseteq Missed(s, w, rep) \cup {Sent[s][a]}
        /\ EndOf(s, a) <= p \/ Before(s, a) = w => ~GivenUp(s, p, g)
  BY <1>1, PrefixPasses
<1>3. w \in Nat /\ p \in Nat /\ Before(s, a) \in Nat /\ EndOf(s, a) \in Nat
  BY PlacesAre DEF NoPattern
<1>4. Before(s, a) < w =>
        /\ p < EndOf(s, a) /\ GivenUp(s, p, g) => GivenUp(s, w, f) \/ c = e + 1
        /\ EndOf(s, a) <= p =>
             Sent[s][a] \in ToSet(out) \/ GivenUp(s, w, f) \/ c = e + 1
  <2> HAVE Before(s, a) < w
  <2>1. Inside(s, a, w)
    BY <1>2 DEF Inside
  <2> QED
    BY <2>1, PrefixGivesUp
<1> DEFINE X == Cardinality(Missed(s, w, rep))
           Y == Cardinality(Missed(s, p, out))
<1>5. /\ X \in Nat /\ Y \in Nat /\ Y <= X + 1
      /\ Missed(s, p, out) \subseteq Missed(s, w, rep) => Y <= X
  BY <1>2, MissedIs
<1>6. Sent[s][a] \in ToSet(out) => Missed(s, p, out) \subseteq Missed(s, w, rep)
  BY <1>2 DEF Missed
<1>7. X + (IF GivenUp(s, w, f) THEN 1 ELSE 0) <= e
  BY DEF Marked
<1> HIDE DEF X, Y
<1>8. Y + (IF GivenUp(s, p, g) THEN 1 ELSE 0) <= c
  <2>1. CASE p < EndOf(s, a)
    <3>1. Y <= X /\ (GivenUp(s, p, g) => GivenUp(s, w, f) \/ c = e + 1)
      BY <1>2, <1>3, <1>4, <1>5, <2>1
    <3> QED
      BY <1>1, <1>5, <1>7, <3>1
  <2>2. CASE EndOf(s, a) <= p
    <3>1. ~GivenUp(s, p, g) /\ (Y <= X \/ GivenUp(s, w, f) \/ c = e + 1)
      BY <1>2, <1>3, <1>4, <1>5, <1>6, <2>2
    <3> QED
      BY <1>1, <1>5, <1>7, <3>1
  <2> QED
    BY <1>3, <2>1, <2>2
<1> QED
  BY <1>8 DEF Marked, Y

-----------------------------------------------------------------------------
(* The invariant of a stream is kept however the handler moves.            *)

LEMMA AllFitIs ==
  ASSUME NEW s \in Streams, AllFitBehind(s)
  PROVE  AllFit(s)
<1> SUFFICES ASSUME NEW m \in ToSet(Sent[s])
             PROVE  FitsFragment(m)
  BY DEF AllFit
<1>1. MsgLen[m] \in Nat /\ HeaderLen \in Nat /\ PatternLen \in Nat /\ Capacity \in Nat
  BY SentAre, LengthsAre, SegmentAssumption
<1>2. (HeaderLen - 1) + MsgLen[m] + (PatternLen - 1) < Capacity
  BY DEF AllFitBehind, FitsBehindFragment
<1>3. 1 <= PatternLen /\ PatternLen < HeaderLen
  BY LengthsAre
<1> QED
  BY <1>1, <1>2, <1>3 DEF FitsFragment

\* What is known of a stream stays true when errors are counted, segments are lost
\* or sent again, or more messages are impaired.
LEMMA FrameKeeps ==
  ASSUME NEW s \in Streams, NEW p, NEW f, NEW rep, NEW e \in Nat, NEW l,
         StreamInv(s, p, f, rep, e, l),
         NEW c \in Nat, e <= c, NEW l2, l2 = 0 => l = 0
  PROVE  StreamInv(s, p, f, rep, c, l2)
<1>2. Marked(s, p, f, rep, e) => Marked(s, p, f, rep, c)
  <2>1. Cardinality(Missed(s, p, rep)) \in Nat
    BY MissedIs
  <2> QED
    BY <2>1 DEF Marked
<1> QED
  BY <1>2 DEF StreamInv

LEMMA UncutStays ==
  ASSUME NEW s, NEW p, NEW f, NEW rep, NEW imp, Uncut(s, p, f, rep, imp),
         NEW imp2, imp \subseteq imp2
  PROVE  Uncut(s, p, f, rep, imp2)
BY DEF Uncut, Excused

\* The cells before the first message of a payload.
LEMMA PrefixKeeps ==
  ASSUME NEW s \in Streams, NEW w, NEW p, NEW f, NEW rep, NEW imp, NEW e \in Nat, NEW l,
         StreamInv(s, w, f, rep, e, l), Sound(s, w), NoPattern(s, w, p, imp),
         NEW g, NEW out, NEW c, PrefixMove(s, w, p, f, rep, e, g, out, c)
  PROVE  /\ StreamInv(s, p, g, out, c, l)
         /\ c \in Nat /\ e <= c
<1>1. /\ Kept(s, f) /\ Known(s, rep) /\ InOrder(s, w, rep)
      /\ l = 0 /\ AllFit(s) => Pure(s, w, f, rep)
      /\ l = 0 /\ AllFitBehind(s) => Marked(s, w, f, rep, e)
  BY DEF StreamInv
<1>2. /\ Kept(s, g) /\ Known(s, out) /\ InOrder(s, p, out)
      /\ ToSet(rep) \subseteq ToSet(out) /\ c \in Nat /\ e <= c
  BY <1>1, PrefixReports
<1>4. l = 0 /\ AllFit(s) => Pure(s, p, g, out)
  BY <1>1, PrefixPure
<1>5. l = 0 /\ AllFitBehind(s) => Marked(s, p, g, out, c)
  BY <1>1, AllFitIs, PrefixMarks
<1> QED
  BY <1>2, <1>4, <1>5 DEF StreamInv

\* A whole message.
LEMMA MessageKeeps ==
  ASSUME NEW s \in Streams, NEW j \in DOMAIN Sent[s],
         NEW f, NEW rep, NEW e \in Nat, NEW l,
         StreamInv(s, Before(s, j), f, rep, e, l),
         NEW m, m = Sent[s][j], NEW out, NEW c,
         m \in Damaged => out = rep /\ c = e + 1,
         m \notin Damaged => out = Append(rep, m) /\ c = e
  PROVE  /\ StreamInv(s, EndOf(s, j), f, out, c, l)
         /\ c \in Nat /\ e <= c
<1>0. PICK w, p : w = Before(s, j) /\ p = EndOf(s, j)
  OBVIOUS
<1>1. /\ Kept(s, f) /\ Known(s, rep) /\ InOrder(s, w, rep)
      /\ l = 0 /\ AllFit(s) => Pure(s, w, f, rep)
      /\ l = 0 /\ AllFitBehind(s) => Marked(s, w, f, rep, e)
  BY <1>0 DEF StreamInv
<1>2. /\ w \in Nat /\ p \in Nat /\ w < p /\ m \in Messages /\ m # Mixture
      /\ m \in ToSet(Sent[s])
  BY <1>0, PlacesAre, SentAre, LengthsAre
<1>3. c \in Nat /\ e <= c
  OBVIOUS
<1>4. /\ Known(s, out) /\ ToSet(rep) \subseteq ToSet(out)
      /\ m \notin Damaged => m \in ToSet(out)
      /\ Mixture \notin ToSet(rep) => Mixture \notin ToSet(out)
  <2> DEFINE T == {Mixture} \cup (ToSet(Sent[s]) \ Damaged)
  <2>1. rep \in Seq(T)
    BY <1>1 DEF Known
  <2>2. CASE m \in Damaged
    BY <1>1, <2>2
  <2>3. CASE m \notin Damaged
    <3>1. m \in T
      BY <1>2, <2>3
    <3> HIDE DEF T
    <3>2. /\ out \in Seq(T) /\ DOMAIN out = 1 .. Len(rep) + 1 /\ Len(rep) \in Nat
          /\ DOMAIN rep = 1 .. Len(rep)
          /\ \A k \in 1 .. Len(rep) : out[k] = rep[k]
          /\ out[Len(rep) + 1] = m
      BY <2>1, <2>3, <3>1
    <3>3. /\ ToSet(rep) \subseteq ToSet(out) /\ m \in ToSet(out)
          /\ ToSet(out) \subseteq ToSet(rep) \cup {m}
      BY <3>2 DEF ToSet
    <3> QED
      BY <1>2, <3>2, <3>3 DEF Known, T
  <2> QED
    BY <2>2, <2>3
<1>5. InOrder(s, p, out)
  <2>1. InOrder(s, p, rep)
    BY <1>1, <1>2, InOrderLater
  <2>2. InOrder(s, p, Append(rep, m))
    BY <1>0, <1>1, <1>2, InOrderAppends
  <2> QED
    BY <2>1, <2>2
<1>6. \A i \in DOMAIN Sent[s] : /\ ~Inside(s, i, p) /\ ~Inside(s, i, w)
                                /\ EndOf(s, i) <= p => EndOf(s, i) <= w \/ i = j
  <2> TAKE i \in DOMAIN Sent[s]
  <2>1. ~Inside(s, i, p) /\ ~Inside(s, i, w)
    BY <1>0, BordersAreOutside
  <2>2. /\ Before(s, i) \in Nat /\ EndOf(s, i) \in Nat /\ Before(s, i) < EndOf(s, i)
        /\ Before(s, j) < EndOf(s, i) /\ Before(s, i) < EndOf(s, j) => i = j
    BY PlacesAre
  <2> QED
    BY <1>0, <1>2, <2>1, <2>2
<1>8. Pure(s, w, f, rep) => Pure(s, p, f, out)
  BY <1>4, <1>6 DEF Pure, Exact
<1>9. Marked(s, w, f, rep, e) => Marked(s, p, f, out, c)
  <2> DEFINE X == Cardinality(Missed(s, w, rep))
             Y == Cardinality(Missed(s, p, out))
  <2>1. Missed(s, p, out) \subseteq Missed(s, w, rep) \cup {m}
    BY <1>4, <1>6 DEF Missed
  <2>2. m \notin Damaged => Missed(s, p, out) \subseteq Missed(s, w, rep)
    BY <1>4, <1>6 DEF Missed
  <2>3. /\ X \in Nat /\ Y \in Nat /\ Y <= X + 1
        /\ Missed(s, p, out) \subseteq Missed(s, w, rep) => Y <= X
    BY <2>1, MissedIs
  <2>4. ~GivenUp(s, p, f)
    BY <1>6 DEF GivenUp
  <2>5. Marked(s, w, f, rep, e) => X + (IF GivenUp(s, w, f) THEN 1 ELSE 0) <= e
    BY DEF Marked
  <2> HIDE DEF X, Y
  <2>6. Marked(s, w, f, rep, e) => Y <= c
    BY <2>2, <2>3, <2>5
  <2>7. Y <= c => Y + (IF GivenUp(s, p, f) THEN 1 ELSE 0) <= c
    BY <1>3, <2>3, <2>4
  <2> QED
    BY <2>6, <2>7 DEF Marked, Y
<1>10. StreamInv(s, p, f, out, c, l)
  BY <1>1, <1>4, <1>5, <1>8, <1>9 DEF StreamInv
<1> QED
  BY <1>0, <1>3, <1>10

\* The beginning of a message that the payload ends in becomes the fragment.
LEMMA BeginningKeeps ==
  ASSUME NEW s \in Streams, NEW j \in DOMAIN Sent[s], NEW q \in Nat, Inside(s, j, q),
         Sent[s][j] \notin Misstated,
         NEW f, NEW rep, NEW e \in Nat, NEW l, StreamInv(s, Before(s, j), f, rep, e, l)
  PROVE  StreamInv(s, q, Piece(s, Before(s, j), q), rep, e, l)
<1>0. PICK w, g : w = Before(s, j) /\ g = Piece(s, w, q)
  OBVIOUS
<1>1. /\ Known(s, rep) /\ InOrder(s, w, rep)
      /\ l = 0 /\ AllFit(s) => Pure(s, w, f, rep)
      /\ l = 0 /\ AllFitBehind(s) => Marked(s, w, f, rep, e)
  BY <1>0 DEF StreamInv
<1>2. w \in Nat /\ w < q /\ q < EndOf(s, j) /\ EndOf(s, j) \in Nat
  BY <1>0, PlacesAre DEF Inside
<1>3. Kept(s, g)
  BY <1>0, ExactIs DEF Kept
<1>4. InOrder(s, q, rep)
  BY <1>1, <1>2, InOrderLater
<1>5. \A i \in DOMAIN Sent[s] : /\ EndOf(s, i) <= q => EndOf(s, i) <= w
                                /\ Inside(s, i, q) => i = j
                                /\ ~Inside(s, i, w)
  <2> TAKE i \in DOMAIN Sent[s]
  <2>1. ~Inside(s, i, w) /\ (Inside(s, i, q) => i = j)
    BY <1>0, BordersAreOutside
  <2>2. /\ Before(s, i) \in Nat /\ EndOf(s, i) \in Nat /\ Before(s, i) < EndOf(s, i)
        /\ Before(s, j) < EndOf(s, i) /\ Before(s, i) < EndOf(s, j) => i = j
    BY PlacesAre
  <2> QED
    BY <1>0, <1>2, <2>1, <2>2
<1>7. Exact(s, q, g)
  BY <1>0 DEF Exact
<1>8. Pure(s, w, f, rep) => Pure(s, q, g, rep)
  BY <1>7 DEF Pure
<1>9. Marked(s, w, f, rep, e) => Marked(s, q, g, rep, e)
  <2> DEFINE X == Cardinality(Missed(s, w, rep))
             Y == Cardinality(Missed(s, q, rep))
  <2>1. Missed(s, q, rep) \subseteq Missed(s, w, rep)
    BY <1>5 DEF Missed
  <2>2. X \in Nat /\ Y \in Nat /\ Y <= X
    BY <2>1, MissedIs
  <2>3. ~GivenUp(s, q, g)
    BY <1>7 DEF GivenUp
  <2>4. Marked(s, w, f, rep, e) => X + (IF GivenUp(s, w, f) THEN 1 ELSE 0) <= e
    BY DEF Marked
  <2> HIDE DEF X, Y
  <2>5. Marked(s, w, f, rep, e) => Y + (IF GivenUp(s, q, g) THEN 1 ELSE 0) <= e
    BY <2>2, <2>3, <2>4
  <2> QED
    BY <2>5 DEF Marked, Y
<1>10. StreamInv(s, q, g, rep, e, l)
  BY <1>1, <1>3, <1>4, <1>8, <1>9 DEF StreamInv
<1> QED
  BY <1>0, <1>10

\* A segment that was lost.
LEMMA LossKeeps ==
  ASSUME NEW s \in Streams, NEW w \in Nat, NEW p \in Nat, w <= p,
         NEW f, NEW rep, NEW e, NEW l, StreamInv(s, w, f, rep, e, l), NEW l2, l2 # 0
  PROVE  StreamInv(s, p, f, rep, e, l2)
<1>1. Kept(s, f) /\ Known(s, rep) /\ InOrder(s, w, rep)
  BY DEF StreamInv
<1>2. InOrder(s, p, rep)
  BY <1>1, InOrderLater
<1> QED
  BY <1>1, <1>2 DEF StreamInv

\* How the handler, or a segment that goes by, gets from position b of a stream to
\* position z.
LEMMA UncutPasses ==
  ASSUME NEW s \in Streams, NEW b \in Nat, NEW z \in Nat,
         NEW f, NEW rep, NEW imp, Uncut(s, b, f, rep, imp),
         NEW imp2, imp \subseteq imp2, NEW g, NEW out, ToSet(rep) \subseteq ToSet(out),
         \A k \in DOMAIN Sent[s] :
           \/ EndOf(s, k) <= b /\ EndOf(s, k) <= z
           \/ Sent[s][k] \in Excused(imp2)
           \/ z <= Before(s, k)
           \/ EndOf(s, k) <= z /\ Sent[s][k] \in ToSet(out)
           \/ z < EndOf(s, k) /\ g = Piece(s, Before(s, k), z)
  PROVE  Uncut(s, z, g, out, imp2)
<1> SUFFICES ASSUME NEW k \in DOMAIN Sent[s],
                    Sent[s][k] \notin Excused(imp2), FitsFragment(Sent[s][k])
             PROVE  /\ EndOf(s, k) <= z => Sent[s][k] \in ToSet(out)
                    /\ Inside(s, k, z) => g = Piece(s, Before(s, k), z)
  BY DEF Uncut
<1>1. EndOf(s, k) <= b => Sent[s][k] \in ToSet(rep)
  BY DEF Uncut, Excused
<1>2. Before(s, k) \in Nat /\ EndOf(s, k) \in Nat /\ Before(s, k) < EndOf(s, k)
  BY PlacesAre
<1> QED
  BY <1>1, <1>2 DEF Inside

-----------------------------------------------------------------------------
(* The handler's steps.                                                    *)

\* An error adds one to one of the counters.
LEMMA CountersAre ==
  ASSUME TypeOK
  PROVE  /\ Errors \in Nat
         /\ \A code : /\ Counted(code) \in [{"corrupt", "checksum", "parsing"} -> Nat]
                      /\ ErrorsOf(Counted(code)) =
                           IF code \in {"invalidType", "checksum", "tagInvalid"}
                           THEN Errors + 1 ELSE Errors
         /\ \A k : k = [counters EXCEPT !.corrupt = @ + 1] =>
              /\ k \in [{"corrupt", "checksum", "parsing"} -> Nat]
              /\ ErrorsOf(k) = Errors + 1
<1> DEFINE D == {"corrupt", "checksum", "parsing"}
<1>1. counters \in [D -> Nat]
  BY DEF TypeOK
<1>2. \A x \in D : counters[x] \in Nat /\ [counters EXCEPT ![x] = @ + 1] \in [D -> Nat]
  BY <1>1
<1>3. Errors \in Nat
  BY <1>1, <1>2 DEF Errors, ErrorsOf
<1>4. \A x \in D : ErrorsOf([counters EXCEPT ![x] = @ + 1]) = Errors + 1
  <2> TAKE x \in D
  <2> DEFINE k == [counters EXCEPT ![x] = @ + 1]
  <2>1. \A y \in D : k[y] = IF y = x THEN counters[y] + 1 ELSE counters[y]
    BY <1>1
  <2> HIDE DEF k
  <2>2. x = "corrupt" \/ x = "checksum" \/ x = "parsing"
    OBVIOUS
  <2>3. "corrupt" # "checksum" /\ "corrupt" # "parsing" /\ "checksum" # "parsing"
    OBVIOUS
  <2>4. ErrorsOf(k) = Errors + 1
    BY <1>2, <2>1, <2>2, <2>3 DEF Errors, ErrorsOf
  <2> QED
    BY <2>4 DEF k
<1>5. ASSUME NEW code
      PROVE  /\ Counted(code) \in [D -> Nat]
             /\ ErrorsOf(Counted(code)) =
                  IF code \in {"invalidType", "checksum", "tagInvalid"}
                  THEN Errors + 1 ELSE Errors
  <2>1. CASE code = "checksum"
    <3>1. Counted(code) = [counters EXCEPT !["checksum"] = @ + 1]
      BY <2>1 DEF Counted
    <3> QED
      BY <1>2, <1>4, <2>1, <3>1
  <2>2. CASE code \in {"tagInvalid", "invalidType"}
    <3>1. Counted(code) = [counters EXCEPT !["parsing"] = @ + 1]
      BY <2>2 DEF Counted
    <3> QED
      BY <1>2, <1>4, <2>2, <3>1
  <2>3. CASE code \notin {"checksum", "tagInvalid", "invalidType"}
    <3>1. Counted(code) = counters
      BY <2>3 DEF Counted
    <3> QED
      BY <1>1, <2>3, <3>1 DEF Errors
  <2> QED
    BY <2>1, <2>2, <2>3
<1> QED
  BY <1>2, <1>3, <1>4, <1>5

\* Between packets nothing remains of the last one.
LEMMA IdleIs ==
  ASSUME IndInv, pc = "idle"
  PROVE  /\ curr = 0 /\ data = <<>> /\ beyond = <<>> /\ remaining = 0
         /\ \A t \in Streams : Pos(t) = wire[t] /\ Reached(t) = wire[t]
<1>1. /\ curr = 0 /\ data = <<>> /\ beyond = <<>> /\ remaining \in Nat /\ remaining <= Len(data)
      /\ wire \in [Streams -> Nat]
  BY DEF IndInv, Handling, Payloads, Ending, TypeOK
<1>2. remaining = 0
  BY <1>1
<1> QED
  BY <1>1, <1>2 DEF Pos, Reached, Current

\* A stream that is orderly was orderly, and every BodyLength that has gone by is right.
LEMMA OrderlyWas ==
  ASSUME NEW s \in Streams, wire[s] \in Nat, wire'[s] \in Nat, wire[s] <= wire'[s],
         resent \subseteq resent', Orderly(s)'
  PROVE  Orderly(s) /\ Sound(s, wire[s]) /\ Sound(s, wire'[s])
<1>1. s \notin resent' /\ \A i \in DOMAIN Sent[s] :
                            Before(s, i) < wire'[s] => Sent[s][i] \notin Misstated
  BY DEF Orderly, Misled
<1>2. \A i \in DOMAIN Sent[s] : Before(s, i) \in Nat
  BY PlacesAre
<1>3. \A i \in DOMAIN Sent[s] : Before(s, i) < wire[s] => Before(s, i) < wire'[s]
  BY <1>2
<1> QED
  BY <1>1, <1>3 DEF Orderly, Misled, Sound

\* Only one stream moves.
LEMMA MoveKeeps ==
  ASSUME IndInv, NEW s \in Streams, NEW g \in Seq(Cells), NEW out \in Seq({Mixture} \cup Messages),
         Handling', pc' \in {"idle", "loop", "undefined"}, stream' \in Streams,
         wire' \in [Streams -> Nat], curr' \in Nat, remaining' \in Nat,
         data' \in Seq(Cells), beyond' \in Seq(Cells),
         counters' \in [{"corrupt", "checksum", "parsing"} -> Nat],
         jumps' \in 0 .. MaxJumps, jumps' = 0 => jumps = 0, resent' \subseteq Streams,
         impaired' \subseteq Messages, impaired \subseteq impaired', Errors <= Errors',
         fragment' = [fragment EXCEPT ![s] = g], reported' = [reported EXCEPT ![s] = out],
         \A t \in Streams : t # s =>
           Pos(t)' = Pos(t) /\ Reached(t)' = Reached(t) /\ (Orderly(t)' => Orderly(t)),
         Orderly(s)' => StreamInv(s, Pos(s)', g, out, Errors', jumps'),
         Uncut(s, Reached(s)', g, out, impaired')
  PROVE  IndInv'
<1>1. TypeOK /\ \A t \in Streams :
                  /\ Orderly(t) => StreamInv(t, Pos(t), fragment[t], reported[t], Errors, jumps)
                  /\ Uncut(t, Reached(t), fragment[t], reported[t], impaired)
  BY DEF IndInv
<1>2. Errors \in Nat /\ Errors' \in Nat
  BY <1>1, CountersAre DEF Errors, ErrorsOf
<1>3. /\ fragment \in [Streams -> Seq(Cells)]
      /\ reported \in [Streams -> Seq({Mixture} \cup Messages)]
  BY <1>1 DEF TypeOK
<1>4. ASSUME NEW t \in Streams
      PROVE  /\ Orderly(t)' => StreamInv(t, Pos(t)', fragment'[t], reported'[t], Errors', jumps')
             /\ Uncut(t, Reached(t)', fragment'[t], reported'[t], impaired')
  <2>1. CASE t = s
    BY <1>3, <2>1
  <2>2. CASE t # s
    <3>1. /\ Pos(t)' = Pos(t) /\ fragment'[t] = fragment[t] /\ reported'[t] = reported[t]
          /\ Reached(t)' = Reached(t) /\ (Orderly(t)' => Orderly(t))
      BY <1>3, <2>2
    <3>2. Orderly(t) => StreamInv(t, Pos(t), fragment[t], reported[t], Errors', jumps')
      BY <1>1, <1>2, FrameKeeps
    <3>3. Uncut(t, Reached(t), fragment[t], reported[t], impaired')
      BY <1>1, UncutStays
    <3> QED
      BY <3>1, <3>2, <3>3
  <2> QED
    BY <2>1, <2>2
<1>5. TypeOK'
  <2>1. /\ fragment' \in [Streams -> Seq(Cells)]
        /\ reported' \in [Streams -> Seq({Mixture} \cup Messages)]
    BY <1>3
  <2> QED
    BY <2>1 DEF TypeOK
<1> QED
  BY <1>4, <1>5 DEF IndInv

\* What a stretch of a stream consists of.
LEMMA PieceCells ==
  ASSUME NEW s \in Streams, NEW p \in Nat, NEW q \in Nat, p <= q, q <= Len(Text[s])
  PROVE  Piece(s, p, q) \in Seq(Cells)
<1>1. Piece(s, p, q) \in Seq(StreamCells(s))
  BY PieceIs
<1>2. StreamCells(s) \subseteq Cells
  BY SentAre DEF StreamCells, Cells
<1> QED
  BY <1>1, <1>2, SeqMonotonic

\* What a packet holds before its first message: first is where the message is in
\* the packet, p where it is in the stream.
Searched(s, w, n, q, d, first, prefix, p, imp) ==
  /\ s \in Streams /\ w \in Nat /\ n \in Nat /\ q \in Nat
  /\ 1 <= n /\ q = w + n /\ q <= Len(Text[s])
  /\ d = Piece(s, w, q) /\ first = Search(d, 1, n)
  /\ prefix = IF first = 0 THEN d ELSE SubSeq(d, 1, first - 1)
  /\ p = IF first = 0 THEN q ELSE w + first - 1
  /\ CutAt(s, q) \subseteq imp
Found(s, w, n, q, d, first, prefix, p, imp) ==
  /\ d \in Seq(Cells) /\ Len(d) = n
  /\ first \in 0 .. n /\ (first # 0 => Begins(s, p) /\ first + PatternLen - 1 <= n)
  /\ p \in Nat /\ w <= p /\ p <= q /\ prefix = Piece(s, w, p) /\ Len(prefix) = p - w
  /\ first # 1 => NoPattern(s, w, p, imp)

LEMMA PrefixIs ==
  ASSUME NEW s, NEW w, NEW n, NEW q, NEW d, NEW first, NEW prefix, NEW p, NEW imp,
         Searched(s, w, n, q, d, first, prefix, p, imp)
  PROVE  Found(s, w, n, q, d, first, prefix, p, imp)
<1>0. /\ s \in Streams /\ w \in Nat /\ n \in Nat /\ q \in Nat
      /\ 1 <= n /\ q = w + n /\ q <= Len(Text[s])
      /\ d = Piece(s, w, q) /\ first = Search(d, 1, n)
      /\ prefix = IF first = 0 THEN d ELSE SubSeq(d, 1, first - 1)
      /\ p = IF first = 0 THEN q ELSE w + first - 1
      /\ CutAt(s, q) \subseteq imp
  BY DEF Searched
<1> USE <1>0
<1>1. w <= q /\ q - w = n /\ Len(Text[s]) \in Nat
  BY TextIs
<1>2. d \in Seq(Cells) /\ Len(d) = n /\ d \in Seq(StreamCells(s))
  BY <1>1, PieceIs, PieceCells
<1>3. PatternLen \in Nat /\ 1 <= PatternLen
  BY LengthsAre
<1>4. /\ first \in Nat
      /\ first # 0 => /\ 1 <= first /\ first + PatternLen - 1 <= n
                      /\ Begins(s, w + first - 1)
      /\ \A i \in DOMAIN Sent[s] :
           w + 1 - 1 <= Before(s, i) /\ Before(s, i) + PatternLen <= w + n =>
             first # 0 /\ w + first - 1 <= Before(s, i)
  <2>1. 1 \in Nat /\ 1 <= 1 /\ n <= n /\ n \in Nat
    OBVIOUS
  <2>2. Shows(d, n, s, w)
    <3>1. \A k \in 1 .. q - w : Piece(s, w, q)[k] = Text[s][w + k]
      BY <1>1, PieceIs
    <3> QED
      BY <1>1, <3>1 DEF Shows
  <2>3. Located(n, s, w, 1, n, Search(d, 1, n))
    BY ONLY <2>1, <2>2, SearchIs, Zenon
  <2>4. first # 0 => first <= n
    BY <1>3, <2>3 DEF Located
  <2> QED
    BY <2>3, <2>4 DEF Located
<1>5. /\ first \in 0 .. n /\ (first # 0 => first + PatternLen - 1 <= n)
      /\ p \in Nat /\ w <= p /\ p <= q /\ (first # 1 => w < p)
  BY <1>1, <1>3, <1>4
<1>6. first # 0 => Begins(s, p)
  BY <1>4
<1>7. prefix = Piece(s, w, p) /\ Len(prefix) = p - w
  <2>1. CASE first = 0
    BY <1>1, <1>2, <2>1
  <2>2. CASE first # 0
    <3>0. 1 \in Nat /\ first - 1 \in Nat
      BY <1>1, <1>5, <2>2
    <3>1. PICK a, b \in Nat : a = 1 /\ b = first - 1
      BY <3>0, Zenon
    <3>2. PartOf(d, s, w, q, a, b, w, p, prefix) /\ p <= Len(Text[s])
      BY <1>1, <1>4, <1>5, <2>2, <3>1 DEF PartOf
    <3>3. prefix = Piece(s, w, p)
      BY ONLY <3>2, PieceOfPiece, Zenon
    <3>4. Len(Piece(s, w, p)) = p - w
      BY <1>5, <3>2, PieceIs
    <3> QED
      BY <3>3, <3>4
  <2> QED
    BY <2>1, <2>2
<1>8. first # 1 => NoPattern(s, w, p, imp)
  <2> HAVE first # 1
  <2>1. ASSUME NEW j \in DOMAIN Sent[s], w <= Before(s, j)
        PROVE  p < Before(s, j) + PatternLen /\ (Inside(s, j, p) => Sent[s][j] \in imp)
    <3>1. Before(s, j) \in Nat
      BY PlacesAre
    <3>2. Before(s, j) + PatternLen <= q => first # 0 /\ p <= Before(s, j)
      BY <1>4, <2>1, <3>1
    <3>3. p < Before(s, j) + PatternLen
      BY <1>3, <1>5, <3>1, <3>2
    <3>4. first = 0 => (Inside(s, j, p) => Sent[s][j] \in imp)
      BY <3>3 DEF Inside, CutAt
    <3>5. first # 0 => ~Inside(s, j, p)
      BY <1>6, BordersAreOutside DEF Begins
    <3> QED
      BY <3>3, <3>4, <3>5
  <2>2. p <= Len(Text[s])
    BY <1>1, <1>5
  <2> QED
    BY <1>5, <2>1, <2>2 DEF NoPattern
<1> QED
  BY <1>2, <1>5, <1>6, <1>7, <1>8 DEF Found

LEMMA ReceiveKeeps ==
  ASSUME IndInv, NEW s \in Streams, NEW n \in 1 .. MaxSegment, Receive(s, n)
  PROVE  IndInv'
<1>0. PICK w, d, first, prefix :
        /\ w = wire[s] /\ d = Payload(s, n) /\ first = Search(d, 1, n)
        /\ prefix = IF first = 0 THEN d ELSE SubSeq(d, 1, first - 1)
  OBVIOUS
<1>1. TypeOK /\ Payloads
  BY DEF IndInv, Handling
<1>2. /\ pc = "idle" /\ w + n <= Len(Text[s])
      /\ pc' = "loop" /\ stream' = s /\ data' = d /\ curr' = first
      /\ remaining' = n - Len(prefix) /\ beyond' = <<>>
      /\ \/ first = 1 /\ UNCHANGED <<fragment, reported, counters>>
         \/ first # 1 /\ StartFragment(s, d)
         \/ first # 1 /\ ContinueFragment(s, prefix)
         \/ first # 1 /\ SkipPrefix(s, prefix)
      /\ wire' = [wire EXCEPT ![s] = @ + n]
      /\ impaired' = impaired \cup CutAt(s, w + n) \cup Overtaken(s, w, w + n)
      /\ jumps' = jumps /\ resent' = resent
  BY <1>0, Zenon DEF Receive, AfterPrefix
<1>3. /\ wire \in [Streams -> Nat] /\ fragment \in [Streams -> Seq(Cells)]
      /\ reported \in [Streams -> Seq({Mixture} \cup Messages)]
      /\ counters \in [{"corrupt", "checksum", "parsing"} -> Nat]
      /\ jumps \in 0 .. MaxJumps /\ resent \subseteq Streams /\ impaired \subseteq Messages
      /\ \A t \in Streams : wire[t] <= Len(Text[t])
  BY <1>1 DEF TypeOK, Payloads
<1>4. w \in Nat /\ n \in Nat /\ 1 <= n /\ w + n \in Nat /\ w <= w + n
  <2>1. MaxSegment \in Nat
    BY SegmentAssumption
  <2> QED
    BY <1>0, <1>3, <2>1
<1>5. PICK q \in Nat : q = w + n
  BY <1>4
<1>6. /\ CutAt(s, q) \subseteq impaired' /\ Overtaken(s, w, q) \subseteq impaired'
      /\ impaired \subseteq impaired' /\ impaired' \subseteq Messages
  <2>1. CutAt(s, q) \subseteq Messages /\ Overtaken(s, w, q) \subseteq Messages
    BY SentAre DEF CutAt, Overtaken
  <2> QED
    BY <1>2, <1>3, <1>5, <2>1
<1>7. PICK p : p = IF first = 0 THEN q ELSE w + first - 1
  OBVIOUS
<1>8. /\ d \in Seq(Cells) /\ Len(d) = n /\ d = Piece(s, w, q)
      /\ first \in 0 .. n /\ (first # 0 => Begins(s, p) /\ first + PatternLen - 1 <= n)
      /\ p \in Nat /\ w <= p /\ p <= q /\ prefix = Piece(s, w, p) /\ Len(prefix) = p - w
      /\ first # 1 => NoPattern(s, w, p, impaired')
  <2>1. PICK imp : imp = impaired'
    OBVIOUS
  <2>2. d = Piece(s, w, q)
    BY <1>0, <1>5 DEF Payload, Piece
  <2>3. Searched(s, w, n, q, d, first, prefix, p, imp)
    BY <1>0, <1>2, <1>4, <1>5, <1>6, <1>7, <2>1, <2>2 DEF Searched
  <2>4. Found(s, w, n, q, d, first, prefix, p, imp)
    BY ONLY <2>3, PrefixIs, Zenon
  <2> QED
    BY <2>1, <2>2, <2>4 DEF Found
<1>9. remaining' \in Nat /\ remaining' = q - p /\ q - remaining' = p
  BY <1>2, <1>4, <1>5, <1>8
<1>10. /\ wire' \in [Streams -> Nat] /\ wire'[s] = q
       /\ \A t \in Streams : t # s => wire'[t] = wire[t]
  BY <1>0, <1>2, <1>3, <1>5
<1>11. Len(data') = n /\ Start' = w /\ (Current' <=> first # 0)
  <2>1. first # 0 => first + PatternLen - 1 <= n
    BY <1>8
  <2>2. Start' = q - n /\ q - n = w
    BY <1>2, <1>4, <1>5, <1>8, <1>10 DEF Start
  <2> QED
    BY <1>2, <1>8, <2>1, <2>2 DEF Current
<1>12. /\ Pos(s)' = p /\ Reached(s)' = p
       /\ \A t \in Streams : t # s => Pos(t)' = Pos(t) /\ Reached(t)' = Reached(t)
  <2>1. \A t \in Streams : Pos(t) = wire[t] /\ Reached(t) = wire[t]
    BY <1>2, IdleIs
  <2>2. \A t \in Streams : t # s => Pos(t)' = wire'[t] /\ Reached(t)' = wire'[t]
    BY <1>2 DEF Pos, Reached
  <2>3. Pos(s)' = wire'[s] - remaining'
    BY <1>2 DEF Pos
  <2>4. Reached(s)' = IF Current' THEN Start' + curr' - 1 ELSE wire'[s]
    BY <1>2 DEF Reached
  <2>5. Reached(s)' = p
    BY <1>2, <1>7, <1>10, <1>11, <2>4
  <2> QED
    BY <1>9, <1>10, <2>1, <2>2, <2>3, <2>5
<1>13. Handling'
  <2>1. Payloads'
    <3>1. \A t \in Streams : wire'[t] <= Len(Text[t])
      <4>1. ASSUME NEW t \in Streams
            PROVE  wire'[t] <= Len(Text[t])
        BY <1>2, <1>3, <1>5, <1>10
      <4> QED
        BY <4>1
    <3>2. Len(data') <= wire'[stream']
      BY <1>2, <1>4, <1>5, <1>10, <1>11
    <3>3. data' = Piece(stream', Start', wire'[stream'])
      BY <1>2, <1>8, <1>10, <1>11
    <3>4. /\ CutAt(stream', wire'[stream']) \subseteq impaired'
          /\ Overtaken(stream', Start', wire'[stream']) \subseteq impaired'
      BY <1>2, <1>6, <1>10, <1>11
    <3> QED
      BY <1>2, <3>1, <3>2, <3>3, <3>4 DEF Payloads
  <2>2. Looping'
    <3>1. first # 0 => first + (q - p) = n + 1 /\ q - p >= PatternLen /\ 0 < first
      BY <1>4, <1>5, <1>7, <1>8, LengthsAre
    <3>2. Current' => Begins(stream', Start' + curr' - 1)
      BY <1>2, <1>7, <1>8, <1>11
    <3>3. Len(beyond') = 0
      BY <1>2
    <3> QED
      BY <1>2, <1>9, <1>11, <3>1, <3>2, <3>3 DEF Looping
  <2>3. first = 0 => remaining' = 0
    BY <1>7, <1>9
  <2>4. Ending'
    BY <1>2, <1>11, <2>3 DEF Ending
  <2>5. Counting'
    <3>1. remaining' > 0 => Begins(stream', Pos(s)')
      BY <1>2, <1>8, <1>12, <2>3
    <3>2. Pos(stream') \in Nat <=> Pos(stream') \in Nat
      OBVIOUS
    <3>3. (remaining > 0 => Begins(stream, Pos(stream)))'
      BY <1>2, <3>1 DEF Pos
    <3>4. (curr = 0 => remaining < PatternLen)'
      BY <1>2, <2>3, LengthsAre
    <3> QED
      BY <3>3, <3>4 DEF Counting
  <2> QED
    BY <2>1, <2>2, <2>4, <2>5 DEF Handling
<1>14. PICK f, rep, e : f = fragment[s] /\ rep = reported[s] /\ e = Errors
  OBVIOUS
<1>15. /\ Orderly(s) => StreamInv(s, w, f, rep, e, jumps)
       /\ Uncut(s, w, f, rep, impaired)
       /\ f \in Seq(Cells) /\ rep \in Seq({Mixture} \cup Messages)
  <2>1. Pos(s) = w /\ Reached(s) = w
    BY <1>0, <1>2, IdleIs
  <2> QED
    BY <1>3, <1>14, <2>1 DEF IndInv
<1>16. /\ e \in Nat
       /\ \A code : /\ Counted(code) \in [{"corrupt", "checksum", "parsing"} -> Nat]
                    /\ ErrorsOf(Counted(code)) =
                         IF code \in {"invalidType", "checksum", "tagInvalid"}
                         THEN e + 1 ELSE e
       /\ \A k : k = [counters EXCEPT !.corrupt = @ + 1] =>
            k \in [{"corrupt", "checksum", "parsing"} -> Nat] /\ ErrorsOf(k) = e + 1
       /\ Errors' = ErrorsOf(counters')
  BY <1>1, <1>14, CountersAre DEF Errors
<1>17. Orderly(s)' => Orderly(s) /\ Sound(s, w)
  <2>1. wire[s] \in Nat /\ wire'[s] \in Nat /\ wire[s] <= wire'[s]
    BY <1>0, <1>4, <1>5, <1>10
  <2> QED
    BY <1>0, <1>2, <2>1, OrderlyWas
<1>18. \E g, out, c : /\ fragment' = [fragment EXCEPT ![s] = g] /\ g \in Seq(Cells)
                      /\ reported' = [reported EXCEPT ![s] = out]
                      /\ out \in Seq({Mixture} \cup Messages)
                      /\ Errors' = c /\ c \in Nat /\ e <= c
                      /\ counters' \in [{"corrupt", "checksum", "parsing"} -> Nat]
                      /\ Orderly(s)' => StreamInv(s, p, g, out, c, jumps)
                      /\ Uncut(s, p, g, out, impaired')
  <2>1. fragment = [fragment EXCEPT ![s] = f] /\ reported = [reported EXCEPT ![s] = rep]
    BY <1>3, <1>14
  <2>2. CASE first = 1 /\ UNCHANGED <<fragment, reported, counters>>
    <3>1. p = w
      BY <1>4, <1>7, <2>2
    <3>2. Uncut(s, p, f, rep, impaired')
      BY <1>6, <1>15, <3>1, UncutStays
    <3>3. Errors' = e /\ counters' \in [{"corrupt", "checksum", "parsing"} -> Nat]
      BY <1>3, <1>14, <1>16, <2>2 DEF Errors
    <3>4. Orderly(s)' => StreamInv(s, p, f, rep, e, jumps)
      BY <1>15, <1>17, <3>1
    <3> QED
      BY <1>15, <1>16, <2>1, <2>2, <3>2, <3>3, <3>4
  <2>3. ASSUME NEW g, NEW out, NEW c, PrefixMove(s, w, p, f, rep, e, g, out, c), first # 1,
               ToSet(rep) \subseteq ToSet(out)
        PROVE  /\ Orderly(s)' => StreamInv(s, p, g, out, c, jumps)
               /\ Uncut(s, p, g, out, impaired')
    <3>1. PICK imp2 : imp2 = impaired'
      OBVIOUS
    <3>2. NoPattern(s, w, p, imp2) /\ impaired \subseteq imp2
      BY <1>6, <1>8, <2>3, <3>1
    <3>3. ExactMove(s, w, p, f, rep, e, g, out, c)
      BY ONLY <2>3, <3>2, ExactMoves, s \in Streams
    <3>4. Uncut(s, p, g, out, imp2)
      BY ONLY <1>15, <2>3, <3>2, <3>3, PrefixUncut, s \in Streams
    <3>5. Orderly(s)' => StreamInv(s, p, g, out, c, jumps)
      <4> HAVE Orderly(s)'
      <4>1. StreamInv(s, w, f, rep, e, jumps) /\ Sound(s, w)
        BY <1>15, <1>17
      <4> QED
        BY ONLY <1>16, <2>3, <3>2, <4>1, PrefixKeeps, s \in Streams
    <3> QED
      BY <3>1, <3>4, <3>5
  <2>4. CASE first # 1 /\ StartFragment(s, d)
    <3>1. f = <<>> /\ reported' = [reported EXCEPT ![s] = rep]
      BY <1>14, <2>1, <2>4 DEF StartFragment, HasFragment
    <3>2. CASE Len(d) < PatternLen /\ PutFragment(s, d) /\ UNCHANGED counters
      <4>1. first = 0
        BY <1>4, <1>8, <3>2, LengthsAre
      <4>2. p = q /\ d = Piece(s, w, p) /\ p - w < PatternLen
        BY <1>4, <1>5, <1>7, <1>8, <3>2, <4>1
      <4>3. PrefixMove(s, w, p, f, rep, e, d, rep, e)
        BY <3>1, <4>2 DEF PrefixMove, Started
      <4>4. fragment' = [fragment EXCEPT ![s] = d]
        BY <3>2 DEF PutFragment
      <4>5. Errors' = e /\ counters' \in [{"corrupt", "checksum", "parsing"} -> Nat]
        BY <1>3, <1>14, <1>16, <3>2 DEF Errors
      <4>6. /\ Orderly(s)' => StreamInv(s, p, d, rep, e, jumps)
            /\ Uncut(s, p, d, rep, impaired')
        BY ONLY <2>3, <2>4, <4>3
      <4>7. /\ fragment' = [fragment EXCEPT ![s] = d] /\ d \in Seq(Cells)
            /\ reported' = [reported EXCEPT ![s] = rep]
            /\ rep \in Seq({Mixture} \cup Messages)
            /\ Errors' = e /\ e \in Nat /\ e <= e
            /\ counters' \in [{"corrupt", "checksum", "parsing"} -> Nat]
            /\ Orderly(s)' => StreamInv(s, p, d, rep, e, jumps)
            /\ Uncut(s, p, d, rep, impaired')
        BY <1>8, <1>15, <1>16, <3>1, <4>4, <4>5, <4>6
      <4> QED
        BY ONLY <4>7, Zenon
    <3>3. CASE /\ Len(d) >= PatternLen
               /\ counters' = [counters EXCEPT !.corrupt = @ + 1] /\ UNCHANGED fragment
      <4>1. PrefixMove(s, w, p, f, rep, e, <<>>, rep, e + 1)
        BY <3>1 DEF PrefixMove, Started
      <4>2. Errors' = e + 1 /\ counters' \in [{"corrupt", "checksum", "parsing"} -> Nat]
        BY <1>16, <3>3
      <4>3. fragment' = [fragment EXCEPT ![s] = <<>>] /\ <<>> \in Seq(Cells)
        BY <1>15, <2>1, <3>1, <3>3
      <4>4. e + 1 \in Nat /\ e <= e + 1
        BY <1>16
      <4> QED
        BY <1>15, <2>3, <2>4, <3>1, <4>1, <4>2, <4>3, <4>4
    <3> QED
      BY <2>4, <3>2, <3>3 DEF StartFragment
  <2>5. CASE first # 1 /\ ContinueFragment(s, prefix)
    <3>1. f # <<>> /\ Len(f) + (p - w) < Capacity
      BY <1>8, <1>14, <2>5 DEF ContinueFragment, HasFragment, HasCapacity
    <3>2. PICK r \in Outcomes(f \o prefix) :
            /\ Report(s, r) /\ counters' = Counted(r.code) /\ GrowFragment(s, prefix, r.code)
      BY <1>14, <2>5 DEF ContinueFragment
    <3>3. PICK g, out, c :
            /\ out = IF r.code = "ok" THEN Append(rep, r.msg) ELSE rep
            /\ c = IF r.code \in {"invalidType", "checksum", "tagInvalid"} THEN e + 1 ELSE e
            /\ g = IF r.code = "tooShort" THEN f \o prefix ELSE <<>>
      OBVIOUS
    <3>4. PrefixMove(s, w, p, f, rep, e, g, out, c)
      BY <1>8, <3>1, <3>3 DEF PrefixMove, Continued
    <3>5. f \o prefix \in Seq(Cells) /\ g \in Seq(Cells)
      <4>1. p <= Len(Text[s])
        BY <1>2, <1>4, <1>5, <1>8, TextIs
      <4>2. prefix \in Seq(Cells)
        BY <1>4, <1>8, <4>1, PieceCells
      <4> QED
        BY <1>15, <3>3, <4>2
    <3>6. r.msg \in {Mixture} \cup Messages
      <4>1. Messages \in SUBSET Messages /\ f \o prefix \in Seq(({0} \cup Messages) \X Nat)
        BY <3>5 DEF Cells
      <4>2. Verdict(Messages, f \o prefix, r)
        BY ONLY <3>2, <4>1, VerdictIs
      <4> QED
        BY <4>2 DEF Verdict
    <3>7. out \in Seq({Mixture} \cup Messages) /\ ToSet(rep) \subseteq ToSet(out)
      BY <1>15, <3>3, <3>6, LastIsAdded
    <3>8. Errors' = c /\ counters' \in [{"corrupt", "checksum", "parsing"} -> Nat]
          /\ c \in Nat /\ e <= c
      BY <1>16, <3>2, <3>3
    <3>9. fragment' = [fragment EXCEPT ![s] = g]
      BY <1>14, <3>2, <3>3 DEF GrowFragment, PutFragment, RemoveFragment
    <3>10. reported' = [reported EXCEPT ![s] = out]
      BY <1>14, <2>1, <3>2, <3>3 DEF Report
    <3> QED
      BY <2>3, <2>5, <3>4, <3>5, <3>7, <3>8, <3>9, <3>10
  <2>6. CASE first # 1 /\ SkipPrefix(s, prefix)
    <3>1. PrefixMove(s, w, p, f, rep, e, f, rep, e)
      BY <1>8, <1>14, <2>6 DEF SkipPrefix, HasFragment, HasCapacity, PrefixMove, Skipped
    <3>2. Errors' = e /\ counters' \in [{"corrupt", "checksum", "parsing"} -> Nat]
      BY <1>3, <1>14, <1>16, <2>6 DEF Errors, SkipPrefix
    <3>3. fragment' = fragment /\ reported' = reported
      BY <2>6 DEF SkipPrefix
    <3> QED
      BY <1>15, <1>16, <2>1, <2>3, <2>6, <3>1, <3>2, <3>3
  <2> QED
    BY <1>2, <2>2, <2>4, <2>5, <2>6
<1>19. PICK g, out, c : /\ fragment' = [fragment EXCEPT ![s] = g] /\ g \in Seq(Cells)
                        /\ reported' = [reported EXCEPT ![s] = out]
                        /\ out \in Seq({Mixture} \cup Messages)
                        /\ Errors' = c /\ c \in Nat /\ e <= c
                        /\ counters' \in [{"corrupt", "checksum", "parsing"} -> Nat]
                        /\ Orderly(s)' => StreamInv(s, p, g, out, c, jumps)
                        /\ Uncut(s, p, g, out, impaired')
  BY <1>18
<1>20. \A t \in Streams : t # s => (Orderly(t)' => Orderly(t))
  BY <1>2, <1>10 DEF Orderly, Misled
<1>21. /\ Errors <= Errors'
       /\ Orderly(s)' => StreamInv(s, Pos(s)', g, out, Errors', jumps')
       /\ Uncut(s, Reached(s)', g, out, impaired')
  BY <1>2, <1>12, <1>14, <1>19
<1>22. /\ pc' \in {"idle", "loop", "undefined"} /\ stream' \in Streams /\ data' \in Seq(Cells)
       /\ curr' \in Nat /\ remaining' \in Nat /\ beyond' \in Seq(Cells)
       /\ jumps' \in 0 .. MaxJumps /\ (jumps' = 0 => jumps = 0) /\ resent' \subseteq Streams
  BY <1>2, <1>3, <1>8, <1>9
<1> QED
  BY ONLY IndInv, s \in Streams, <1>6, <1>10, <1>12, <1>13, <1>19, <1>20, <1>21, <1>22, MoveKeeps

LEMMA NothingBetween ==
  ASSUME NEW s \in Streams, NEW w \in Nat, w <= Len(Text[s])
  PROVE  Piece(s, w, w) = <<>>
<1>1. Piece(s, w, w) \in Seq(StreamCells(s)) /\ Len(Piece(s, w, w)) = 0
  BY PieceIs
<1> QED
  BY <1>1

\* The handler is done with its packet.
LEMMA RestingIs ==
  ASSUME wire' \in [Streams -> Nat], \A t \in Streams : wire'[t] <= Len(Text[t]),
         stream' \in Streams, data' = <<>>, curr' = 0, remaining' = 0, beyond' = <<>>,
         pc' = "idle"
  PROVE  Handling' /\ \A t \in Streams : Pos(t)' = wire'[t] /\ Reached(t)' = wire'[t]
<1>1. Piece(stream', wire'[stream'], wire'[stream']) = <<>>
  BY NothingBetween
<1>2. wire'[stream'] - Len(data') = wire'[stream'] /\ Len(data') = 0 /\ 0 < PatternLen
  BY LengthsAre
<1>3. Start' = wire'[stream'] /\ data' = Piece(stream', Start', wire'[stream'])
  BY <1>1, <1>2 DEF Start
<1>4. Len(data') <= wire'[stream']
  BY <1>2
<1>5. Payloads'
  BY <1>3, <1>4 DEF Payloads
<1>6. Looping' /\ Ending' /\ Counting'
  BY <1>2 DEF Looping, Ending, Counting
<1>7. \A t \in Streams : Pos(t)' = wire'[t] /\ Reached(t)' = wire'[t]
  <2>1. \A t \in Streams :
          /\ Pos(t)' = IF t = stream' THEN wire'[t] - remaining' ELSE wire'[t]
          /\ Reached(t)' = wire'[t]
    BY DEF Pos, Reached, Current
  <2> QED
    BY <2>1
<1> QED
  BY <1>5, <1>6, <1>7 DEF Handling

\* A segment goes by unseen, or the stream begins again at an earlier position.
LEMMA JumpKeeps ==
  ASSUME IndInv, pc = "idle", jumps < MaxJumps, NEW s \in Streams, NEW q \in Nat, NEW l \in Nat,
         q <= Len(Text[s]), l <= wire[s], l <= q, wire' = [wire EXCEPT ![s] = q],
         jumps' = jumps + 1, resent' \subseteq Streams, resent \subseteq resent',
         s \in resent' \/ wire[s] <= q, impaired' = impaired \cup Touched(s, l, q),
         UNCHANGED <<fragment, packet, reported, counters>>
  PROVE  IndInv'
<1>1. TypeOK /\ Payloads
  BY DEF IndInv, Handling
<1>2. /\ fragment' = fragment /\ reported' = reported /\ counters' = counters
      /\ pc' = pc /\ stream' = stream /\ data' = data /\ curr' = curr
      /\ remaining' = remaining /\ beyond' = beyond
  BY DEF packet
<1>3. /\ wire \in [Streams -> Nat] /\ fragment \in [Streams -> Seq(Cells)]
      /\ reported \in [Streams -> Seq({Mixture} \cup Messages)]
      /\ counters \in [{"corrupt", "checksum", "parsing"} -> Nat]
      /\ jumps \in 0 .. MaxJumps /\ MaxJumps \in Nat /\ impaired \subseteq Messages
      /\ stream \in Streams /\ \A t \in Streams : wire[t] <= Len(Text[t])
  BY <1>1, SegmentAssumption DEF TypeOK, Payloads
<1>4. PICK w, f, rep, imp2 :
        /\ w = wire[s] /\ f = fragment[s] /\ rep = reported[s] /\ imp2 = impaired'
  OBVIOUS
<1>5. curr = 0 /\ data = <<>> /\ remaining = 0 /\ beyond = <<>>
  BY IdleIs
<1>6. /\ wire' \in [Streams -> Nat] /\ wire'[s] = q /\ w \in Nat
      /\ \A t \in Streams : t # s => wire'[t] = wire[t]
  BY <1>3, <1>4
<1>7. \A t \in Streams : wire'[t] <= Len(Text[t])
  <2>1. ASSUME NEW t \in Streams
        PROVE  wire'[t] <= Len(Text[t])
    BY <1>3, <1>6
  <2> QED
    BY <2>1
<1>8. Handling' /\ \A t \in Streams : Pos(t)' = wire'[t] /\ Reached(t)' = wire'[t]
  BY <1>2, <1>3, <1>5, <1>6, <1>7, RestingIs
<1>9. \A t \in Streams : Pos(t) = wire[t] /\ Reached(t) = wire[t]
  BY IdleIs
<1>10. /\ Orderly(s) => StreamInv(s, w, f, rep, Errors, jumps)
       /\ Uncut(s, w, f, rep, impaired)
       /\ f \in Seq(Cells) /\ rep \in Seq({Mixture} \cup Messages)
  BY <1>3, <1>4, <1>9 DEF IndInv
<1>11. /\ impaired \subseteq imp2 /\ imp2 \subseteq Messages
       /\ \A i \in DOMAIN Sent[s] :
            Before(s, i) < q /\ l < EndOf(s, i) => Sent[s][i] \in imp2
  <2>1. imp2 = impaired \cup Touched(s, l, q)
    BY <1>4
  <2>2. Touched(s, l, q) \subseteq Messages
    BY SentAre DEF Touched
  <2>3. \A i \in DOMAIN Sent[s] :
            Before(s, i) < q /\ l < EndOf(s, i) => Sent[s][i] \in Touched(s, l, q)
    BY DEF Touched
  <2> QED
    BY <1>3, <2>1, <2>2, <2>3
<1>12. Uncut(s, q, f, rep, imp2)
  <2>1. ASSUME NEW k \in DOMAIN Sent[s]
        PROVE  \/ EndOf(s, k) <= w /\ EndOf(s, k) <= q
               \/ Sent[s][k] \in Excused(imp2)
               \/ q <= Before(s, k)
               \/ EndOf(s, k) <= q /\ Sent[s][k] \in ToSet(rep)
               \/ q < EndOf(s, k) /\ f = Piece(s, Before(s, k), q)
    <3>1. Before(s, k) \in Nat /\ EndOf(s, k) \in Nat
      BY PlacesAre
    <3>2. Sent[s][k] \in imp2 => Sent[s][k] \in Excused(imp2)
      BY DEF Excused
    <3>3. EndOf(s, k) <= l => EndOf(s, k) <= w /\ EndOf(s, k) <= q
      BY <1>4, <1>6, <3>1
    <3> QED
      BY <1>11, <3>1, <3>2, <3>3
  <2>2. ToSet(rep) \subseteq ToSet(rep)
    OBVIOUS
  <2>3. s \in Streams /\ q \in Nat /\ w \in Nat
    BY <1>6
  <2>4. Uncut(s, w, f, rep, impaired) /\ impaired \subseteq imp2
    BY <1>10, <1>11
  <2> QED
    BY ONLY <2>1, <2>2, <2>3, <2>4, UncutPasses
<1>13. jumps' # 0 /\ jumps' \in 0 .. MaxJumps
  BY <1>3
<1>14. Errors' = Errors /\ Errors \in Nat
  BY <1>1, <1>2, CountersAre DEF Errors
<1>15. Orderly(s)' => StreamInv(s, q, f, rep, Errors', jumps')
  <2> HAVE Orderly(s)'
  <2>1. w <= q
    BY <1>4 DEF Orderly
  <2>2. Orderly(s)
    BY <1>3, <1>4, <1>6, <2>1, OrderlyWas
  <2>3. StreamInv(s, w, f, rep, Errors, jumps)
    BY <1>10, <2>2
  <2> QED
    BY <1>6, <1>13, <1>14, <2>1, <2>3, LossKeeps
<1>16. \A t \in Streams : t # s =>
         Pos(t)' = Pos(t) /\ Reached(t)' = Reached(t) /\ (Orderly(t)' => Orderly(t))
  BY <1>6, <1>8, <1>9 DEF Orderly, Misled
<1>17. /\ pc' \in {"idle", "loop", "undefined"} /\ stream' \in Streams /\ data' \in Seq(Cells)
       /\ curr' \in Nat /\ remaining' \in Nat /\ beyond' \in Seq(Cells)
       /\ counters' \in [{"corrupt", "checksum", "parsing"} -> Nat]
       /\ impaired' \subseteq Messages /\ impaired \subseteq impaired' /\ Errors <= Errors'
       /\ fragment' = [fragment EXCEPT ![s] = f] /\ reported' = [reported EXCEPT ![s] = rep]
       /\ (jumps' = 0 => jumps = 0)
       /\ Orderly(s)' => StreamInv(s, Pos(s)', f, rep, Errors', jumps')
       /\ Uncut(s, Reached(s)', f, rep, impaired')
  BY <1>2, <1>3, <1>4, <1>5, <1>6, <1>8, <1>11, <1>12, <1>13, <1>14, <1>15
<1> QED
  BY ONLY IndInv, s \in Streams, resent' \subseteq Streams,
          <1>6, <1>8, <1>10, <1>13, <1>16, <1>17, MoveKeeps

\* A segment goes by unseen.
LEMMA LoseKeeps ==
  ASSUME IndInv, NEW s \in Streams, NEW n \in Nat, Lose(s, n)
  PROVE  IndInv'
<1>1. wire[s] \in Nat /\ resent \subseteq Streams
  BY DEF IndInv, TypeOK
<1>2. PICK q, w \in Nat : w = wire[s] /\ q = wire[s] + n
  BY <1>1
<1>3. /\ pc = "idle" /\ jumps < MaxJumps /\ q <= Len(Text[s]) /\ w <= wire[s] /\ w <= q
      /\ wire' = [wire EXCEPT ![s] = q] /\ jumps' = jumps + 1
      /\ resent' \subseteq Streams /\ resent \subseteq resent' /\ wire[s] <= q
      /\ impaired' = impaired \cup Touched(s, w, q)
      /\ UNCHANGED <<fragment, packet, reported, counters>>
  BY <1>1, <1>2 DEF Lose
<1> QED
  BY <1>2, <1>3, JumpKeeps

\* The end of the stream is sent again.
LEMMA RewindKeeps ==
  ASSUME IndInv, NEW s \in Streams, NEW n \in Nat, Rewind(s, n)
  PROVE  IndInv'
<1>1. wire[s] \in Nat /\ wire[s] <= Len(Text[s]) /\ resent \subseteq Streams /\ n <= wire[s]
  BY DEF IndInv, TypeOK, Handling, Payloads, Rewind
<1>2. PICK q \in Nat : q = wire[s] - n
  BY <1>1
<1>3. /\ pc = "idle" /\ jumps < MaxJumps /\ q <= Len(Text[s]) /\ q <= wire[s] /\ q <= q
      /\ wire' = [wire EXCEPT ![s] = q] /\ jumps' = jumps + 1
      /\ resent' \subseteq Streams /\ resent \subseteq resent' /\ s \in resent'
      /\ impaired' = impaired \cup Touched(s, q, q)
      /\ UNCHANGED <<fragment, packet, reported, counters>>
  BY <1>1, <1>2, TextIs DEF Rewind
<1> QED
  BY <1>2, <1>3, JumpKeeps

\* What is left of the payload becomes the fragment.
LEMMA FinishKeeps ==
  ASSUME IndInv, Finish
  PROVE  IndInv'
<1>0. PICK s, w, r, n, p, f, rep, e :
        /\ s = stream /\ w = wire[s] /\ r = remaining /\ n = Len(data) /\ p = Pos(s)
        /\ f = fragment[s] /\ rep = reported[s] /\ e = Errors
  OBVIOUS
<1>1. TypeOK /\ Handling /\ s \in Streams
  BY <1>0 DEF IndInv, TypeOK
<1>2. /\ curr = 0 /\ pc = "loop"
      /\ fragment' = IF r > 0 THEN [fragment EXCEPT ![s] = SubSeq(data, n - r + 1, n)]
                     ELSE fragment
      /\ pc' = "idle" /\ data' = <<>> /\ remaining' = 0
      /\ wire' = wire /\ stream' = stream /\ curr' = curr /\ reported' = reported
      /\ beyond' = beyond /\ counters' = counters /\ jumps' = jumps /\ resent' = resent
      /\ impaired' = impaired
  BY <1>0 DEF Finish, PutFragment, Leftover
<1>3. /\ wire \in [Streams -> Nat] /\ \A t \in Streams : wire[t] <= Len(Text[t])
      /\ fragment \in [Streams -> Seq(Cells)]
      /\ reported \in [Streams -> Seq({Mixture} \cup Messages)]
      /\ counters \in [{"corrupt", "checksum", "parsing"} -> Nat]
      /\ jumps \in 0 .. MaxJumps /\ resent \subseteq Streams /\ impaired \subseteq Messages
      /\ data \in Seq(Cells) /\ n \in Nat /\ r \in Nat /\ w \in Nat
  BY <1>0, <1>1 DEF TypeOK, Handling, Payloads
<1>4. /\ n <= w /\ data = Piece(s, w - n, w) /\ beyond = <<>> /\ r <= n /\ w <= Len(Text[s])
      /\ r > 0 => \A i \in DOMAIN Sent[s] :
                    Inside(s, i, w) => Sent[s][i] \in Misstated \cup impaired
      /\ Orderly(s) => r < PatternLen /\ (r > 0 => Begins(s, p))
  BY <1>0, <1>1, <1>2 DEF Handling, Payloads, Ending, Counting, Start
<1>5. p = w - r /\ p \in Nat /\ w - n \in Nat
  <2>1. p = w - r
    BY <1>0 DEF Pos
  <2> QED
    BY <1>3, <1>4, <2>1
<1>6. Handling' /\ \A t \in Streams : Pos(t)' = wire[t] /\ Reached(t)' = wire[t]
  <2>1. \A t \in Streams : wire'[t] <= Len(Text[t])
    BY <1>2, <1>3
  <2> QED
    BY <1>0, <1>1, <1>2, <1>3, <1>4, <2>1, RestingIs
<1>7. /\ \A t \in Streams : t # s => Pos(t) = wire[t]
      /\ \A t \in Streams : Reached(t) = wire[t]
  BY <1>0, <1>2 DEF Pos, Reached, Current
<1>8. e \in Nat /\ Errors' = e
  BY <1>0, <1>1, <1>2, CountersAre DEF Errors
<1>9. /\ Orderly(s) => StreamInv(s, p, f, rep, e, jumps)
      /\ Uncut(s, w, f, rep, impaired)
      /\ f \in Seq(Cells) /\ rep \in Seq({Mixture} \cup Messages)
  BY <1>0, <1>1, <1>3, <1>7 DEF IndInv
<1>10. PICK g : /\ fragment' = [fragment EXCEPT ![s] = g] /\ g \in Seq(Cells)
                /\ Orderly(s) => StreamInv(s, w, g, rep, e, jumps)
                /\ Uncut(s, w, g, rep, impaired)
  <2>1. CASE r = 0
    <3>1. p = w /\ fragment' = [fragment EXCEPT ![s] = f]
      BY <1>0, <1>2, <1>3, <1>5, <2>1
    <3> QED
      BY <1>9, <3>1
  <2>2. CASE r > 0
    <3>1. PICK g, a, x : /\ g = SubSeq(data, a, n) /\ a = n - r + 1 /\ x = w - n
                         /\ fragment' = [fragment EXCEPT ![s] = g]
      BY <1>2, <2>2
    <3>2. a \in Nat /\ 1 <= a /\ a <= n + 1 /\ p = x + a - 1 /\ w = x + n /\ x \in Nat
      BY <1>3, <1>4, <1>5, <2>2, <3>1
    <3>3. g \in Seq(Cells)
      BY <1>0, <1>3, <3>1, <3>2
    <3>4. Uncut(s, w, g, rep, impaired)
      <4>1. ASSUME NEW k \in DOMAIN Sent[s]
            PROVE  \/ EndOf(s, k) <= w /\ EndOf(s, k) <= w
                   \/ Sent[s][k] \in Excused(impaired)
                   \/ w <= Before(s, k)
                   \/ EndOf(s, k) <= w /\ Sent[s][k] \in ToSet(rep)
                   \/ w < EndOf(s, k) /\ g = Piece(s, Before(s, k), w)
        <5>1. Before(s, k) \in Nat /\ EndOf(s, k) \in Nat
          BY <1>1, PlacesAre
        <5>2. Inside(s, k, w) => Sent[s][k] \in Excused(impaired)
          BY <1>4, <2>2 DEF Excused
        <5> QED
          BY <1>3, <5>1, <5>2 DEF Inside
      <4>2. ToSet(rep) \subseteq ToSet(rep) /\ impaired \subseteq impaired
        OBVIOUS
      <4> QED
        BY ONLY <1>1, <1>3, <1>9, <4>1, <4>2, UncutPasses
    <3>5. Orderly(s) => StreamInv(s, w, g, rep, e, jumps)
      <4> HAVE Orderly(s)
      <4>1. PICK j \in DOMAIN Sent[s] : Before(s, j) = p
        BY <1>4, <2>2 DEF Begins
      <4>2. PartOf(data, s, x, w, a, n, p, w, g)
        <5>1. data = Piece(s, x, w)
          BY <1>4, <3>1
        <5> QED
          BY <1>1, <1>3, <1>4, <1>5, <3>1, <3>2, <5>1 DEF PartOf
      <4>3. g = Piece(s, p, w)
        BY ONLY <4>2, PieceOfPiece, Zenon
      <4>4. EndOf(s, j) \in Nat /\ Before(s, j) + PatternLen < EndOf(s, j)
        BY <1>1, PlacesAre
      <4>5. PatternLen \in Nat
        BY LengthsAre
      <4>6. Inside(s, j, w)
        BY <1>3, <1>4, <1>5, <2>2, <4>1, <4>4, <4>5 DEF Inside
      <4>7. Sent[s][j] \notin Misstated
        BY <1>0, <4>6 DEF Orderly, Misled, Inside
      <4>8. StreamInv(s, Before(s, j), f, rep, e, jumps)
        BY <1>9, <4>1
      <4>9. StreamInv(s, w, Piece(s, Before(s, j), w), rep, e, jumps)
        BY <1>1, <1>3, <1>8, <4>6, <4>7, <4>8, BeginningKeeps
      <4> QED
        BY <4>1, <4>3, <4>9
    <3> QED
      BY <3>1, <3>3, <3>4, <3>5
  <2> QED
    BY <1>3, <2>1, <2>2
<1>11. \A t \in Streams : Orderly(t)' => Orderly(t)
  BY <1>2 DEF Orderly, Misled
<1>12. \A t \in Streams : t # s =>
         Pos(t)' = Pos(t) /\ Reached(t)' = Reached(t) /\ (Orderly(t)' => Orderly(t))
  BY <1>6, <1>7, <1>11
<1>13. /\ pc' \in {"idle", "loop", "undefined"} /\ stream' \in Streams /\ data' \in Seq(Cells)
       /\ curr' \in Nat /\ remaining' \in Nat /\ beyond' \in Seq(Cells)
       /\ wire' \in [Streams -> Nat] /\ resent' \subseteq Streams
       /\ counters' \in [{"corrupt", "checksum", "parsing"} -> Nat]
       /\ jumps' \in 0 .. MaxJumps /\ (jumps' = 0 => jumps = 0)
       /\ impaired' \subseteq Messages /\ impaired \subseteq impaired' /\ Errors <= Errors'
       /\ reported' = [reported EXCEPT ![s] = rep]
       /\ Orderly(s)' => StreamInv(s, Pos(s)', g, rep, Errors', jumps')
       /\ Uncut(s, Reached(s)', g, rep, impaired')
  BY <1>0, <1>1, <1>2, <1>3, <1>4, <1>6, <1>8, <1>10, <1>11
<1> QED
  BY ONLY IndInv, <1>1, <1>6, <1>9, <1>10, <1>12, <1>13, MoveKeeps

\* The program may do anything: only its state is told from the others.
LEMMA UndefinedKeeps ==
  ASSUME IndInv, Undefined
  PROVE  IndInv'
<1>1. /\ pc = "loop" /\ pc' = "undefined" /\ wire' = wire /\ fragment' = fragment
      /\ stream' = stream /\ data' = data /\ curr' = curr /\ remaining' = remaining
      /\ beyond' = beyond /\ reported' = reported /\ counters' = counters /\ jumps' = jumps
      /\ resent' = resent /\ impaired' = impaired
  BY DEF Undefined
<1>2. TypeOK'
  BY <1>1 DEF IndInv, TypeOK
<1>3. Start' = Start /\ (Current' <=> Current) /\ (Astray' <=> Astray)
  BY <1>1 DEF Start, Current, Astray
<1>4. Payloads'
  BY <1>1, <1>3 DEF IndInv, Handling, Payloads
<1>5. Looping' /\ Ending'
  BY <1>1, <1>3 DEF IndInv, Handling, Looping, Ending
<1>6. \A s \in Streams : /\ Pos(s)' = Pos(s) /\ Reached(s)' = Reached(s)
                         /\ (Orderly(s)' <=> Orderly(s))
  BY <1>1, <1>3 DEF Pos, Reached, Orderly, Misled
<1>7. Counting'
  <2>1. stream \in Streams /\ stream' = stream
    BY <1>1 DEF IndInv, TypeOK
  <2>2. Pos(stream)' = Pos(stream) /\ (Orderly(stream)' <=> Orderly(stream))
    BY <1>1 DEF Pos, Orderly, Misled
  <2> QED
    BY <1>1, <2>1, <2>2 DEF IndInv, Handling, Counting
<1>8. Errors' = Errors
  BY <1>1 DEF Errors
<1>9. \A s \in Streams :
        /\ Orderly(s)' => StreamInv(s, Pos(s)', fragment'[s], reported'[s], Errors', jumps')
        /\ Uncut(s, Reached(s)', fragment'[s], reported'[s], impaired')
  BY <1>1, <1>6, <1>8 DEF IndInv
<1> QED
  BY <1>2, <1>4, <1>5, <1>7, <1>9 DEF IndInv, Handling

\* One iteration of the loop: the payload is the stretch from x to w of stream s and
\* n cells long, mem is what the loop takes for it and N cells long; the message at
\* cur is parsed.
Iterates(s, x, w, n, N, cur, r, mem, next, piece) ==
  /\ s \in Streams /\ x \in Nat /\ w \in Nat /\ n \in Nat /\ N \in Nat
  /\ cur \in Nat /\ r \in Nat /\ w = x + n /\ w <= Len(Text[s]) /\ n <= N
  /\ 1 <= cur /\ cur + r = N + 1 /\ PatternLen <= r
  /\ mem \in Seq(Cells) /\ Len(mem) = N /\ Shows(mem, n, s, x)
  /\ next = IF r > PatternLen THEN Search(mem, cur + PatternLen, cur + r - 1) ELSE 0
  /\ piece = SubSeq(mem, cur, (IF next = 0 THEN cur + r ELSE next) - 1)

\* Where the next message is, and what the piece before it holds.
Parses(s, x, w, n, N, cur, next, piece) ==
  /\ next \in Nat
  /\ next # 0 => /\ cur + PatternLen <= next /\ next + PatternLen - 1 <= N
                 /\ next <= n => Begins(s, x + next - 1)
  /\ \A i \in DOMAIN Sent[s] :
       x + cur + PatternLen - 1 <= Before(s, i) /\ Before(s, i) + PatternLen <= w =>
         next # 0 /\ x + next - 1 <= Before(s, i)
  /\ piece \in Seq(Cells) /\ Len(piece) \in Nat /\ piece # <<>>
  /\ cur + Len(piece) = IF next = 0 THEN N + 1 ELSE next
  /\ \A k \in 1 .. Len(piece) : cur + k - 1 <= n => piece[k] = Text[s][x + (cur + k - 1)]

LEMMA ParsesIs ==
  ASSUME NEW s, NEW x, NEW w, NEW n, NEW N, NEW cur, NEW r, NEW mem, NEW next, NEW piece,
         Iterates(s, x, w, n, N, cur, r, mem, next, piece)
  PROVE  Parses(s, x, w, n, N, cur, next, piece)
<1>0. /\ s \in Streams /\ x \in Nat /\ w \in Nat /\ n \in Nat /\ N \in Nat
      /\ cur \in Nat /\ r \in Nat /\ w = x + n /\ w <= Len(Text[s]) /\ n <= N
      /\ 1 <= cur /\ cur + r = N + 1 /\ PatternLen <= r
      /\ mem \in Seq(Cells) /\ Len(mem) = N /\ Shows(mem, n, s, x)
      /\ next = IF r > PatternLen THEN Search(mem, cur + PatternLen, cur + r - 1) ELSE 0
      /\ piece = SubSeq(mem, cur, (IF next = 0 THEN cur + r ELSE next) - 1)
  BY DEF Iterates
<1>1. PatternLen \in Nat /\ 1 <= PatternLen
  BY LengthsAre
<1>2. PICK from \in Nat : from = cur + PatternLen /\ 1 <= from
  BY <1>0, <1>1
<1>3. /\ next \in Nat
      /\ next # 0 => /\ from <= next /\ next + PatternLen - 1 <= N
                     /\ next <= n => Begins(s, x + next - 1)
      /\ \A i \in DOMAIN Sent[s] :
           x + from - 1 <= Before(s, i) /\ Before(s, i) + PatternLen <= w =>
             next # 0 /\ x + next - 1 <= Before(s, i)
  <2>1. CASE r > PatternLen
    <3>1. next = Search(mem, from, N)
      <4>1. cur + r - 1 = N
        BY <1>0
      <4> QED
        BY <1>0, <1>2, <2>1, <4>1
    <3>2. Located(n, s, x, from, N, Search(mem, from, N))
      BY ONLY <1>0, <1>2, SearchIs
    <3> QED
      BY <1>0, <3>1, <3>2 DEF Located
  <2>2. CASE ~(r > PatternLen)
    <3>1. next = 0 /\ r = PatternLen
      BY <1>0, <1>1, <2>2
    <3>2. ASSUME NEW i \in DOMAIN Sent[s], x + from - 1 <= Before(s, i)
          PROVE  ~(Before(s, i) + PatternLen <= w)
      <4>1. Before(s, i) \in Nat
        BY <1>0, PlacesAre
      <4> QED
        BY <1>0, <1>1, <1>2, <3>1, <3>2, <4>1
    <3> QED
      BY <3>1, <3>2
  <2> QED
    BY <2>1, <2>2
<1>4. PICK b \in Nat : b = IF next = 0 THEN N ELSE next - 1
  BY <1>0, <1>1, <1>2, <1>3
<1>5. b <= N /\ cur <= b /\ b + 1 = IF next = 0 THEN N + 1 ELSE next
  <2>1. CASE next = 0
    BY <1>0, <1>1, <1>4, <2>1
  <2>2. CASE next # 0
    <3>1. b = next - 1 /\ next \in Nat /\ from <= next /\ next + PatternLen - 1 <= N
      BY <1>3, <1>4, <2>2
    <3>2. N \in Nat /\ cur \in Nat
      BY <1>0
    <3> QED
      BY ONLY from \in Nat, b \in Nat, <1>1, <1>2, <2>2, <3>1, <3>2
  <2> QED
    BY <2>1, <2>2
<1>6. piece = SubSeq(mem, cur, b)
  <2>1. (IF next = 0 THEN cur + r ELSE next) - 1 = b
    BY <1>0, <1>3, <1>4
  <2> QED
    BY <1>0, <2>1
<1>7. /\ piece \in Seq(Cells) /\ Len(piece) = b - cur + 1
      /\ \A k \in 1 .. Len(piece) : piece[k] = mem[cur + k - 1]
  <2>1. cur \in Nat /\ 1 <= cur /\ b \in Nat /\ b <= Len(mem) /\ cur <= b /\ mem \in Seq(Cells)
    BY <1>0, <1>5
  <2> QED
    BY ONLY <1>6, <2>1
<1>8. piece # <<>> /\ Len(piece) \in Nat /\ cur + Len(piece) = b + 1
  BY <1>0, <1>5, <1>7
<1>9. \A k \in 1 .. Len(piece) : cur + k - 1 <= n => piece[k] = Text[s][x + (cur + k - 1)]
  <2> TAKE k \in 1 .. Len(piece)
  <2> HAVE cur + k - 1 <= n
  <2>1. cur + k - 1 \in 1 .. n
    BY <1>0, <1>8
  <2> QED
    BY <1>0, <1>7, <2>1 DEF Shows
<1>10. x + from - 1 = x + cur + PatternLen - 1
  BY <1>0, <1>1, <1>2
<1> QED
  BY <1>2, <1>3, <1>5, <1>7, <1>8, <1>9, <1>10 DEF Parses

\* The next message begins whole in the payload.
Whole(n, next) == next # 0 /\ next + PatternLen - 1 <= n

\* What is parsed of the j-th message, whose pattern the payload holds.
Meets(s, w, n, N, next, piece, j) ==
  /\ EndOf(s, j) <= w => MsgLen[Sent[s][j]] <= Len(piece)
  /\ EndOf(s, j) <= w \/ N = n =>
       \A k \in 1 .. MsgLen[Sent[s][j]] : k <= Len(piece) => piece[k] = CellOf(Sent[s][j], k)
  /\ ~Whole(n, next) =>
       \A i \in DOMAIN Sent[s] :
         i # j /\ Before(s, i) < w /\ Before(s, j) < EndOf(s, i) => Sent[s][i] \in CutAt(s, w)
  /\ N = n /\ w < EndOf(s, j) => next = 0 /\ piece = Piece(s, Before(s, j), w)

\* It ends where the next one begins.
Passes(s, x, w, n, next, piece, j) ==
  Whole(n, next) => /\ x + next - 1 = EndOf(s, j) /\ Len(piece) = MsgLen[Sent[s][j]]
                    /\ EndOf(s, j) < w /\ next <= n

LEMMA PassesIs ==
  ASSUME NEW s \in Streams, NEW x \in Nat, NEW w \in Nat, NEW n \in Nat, NEW N \in Nat,
         NEW cur \in Nat, w = x + n, w <= Len(Text[s]), 1 <= cur, NEW next, NEW piece,
         Parses(s, x, w, n, N, cur, next, piece),
         NEW j \in DOMAIN Sent[s], Before(s, j) = x + cur - 1
  PROVE  /\ Passes(s, x, w, n, next, piece, j)
         /\ next # 0 /\ next <= n => EndOf(s, j) <= x + next - 1
<1>1. PatternLen \in Nat /\ 1 <= PatternLen /\ Len(Text[s]) \in Nat
  BY LengthsAre, TextIs
<1>2. /\ Before(s, j) \in Nat /\ EndOf(s, j) \in Nat /\ Before(s, j) + PatternLen < EndOf(s, j)
      /\ MsgLen[Sent[s][j]] \in Nat /\ EndOf(s, j) = Before(s, j) + MsgLen[Sent[s][j]]
  BY PlacesAre
<1>3. /\ next \in Nat /\ Len(piece) \in Nat
      /\ next # 0 => /\ cur + PatternLen <= next
                     /\ next <= n => Begins(s, x + next - 1)
      /\ \A i \in DOMAIN Sent[s] :
           x + cur + PatternLen - 1 <= Before(s, i) /\ Before(s, i) + PatternLen <= w =>
             next # 0 /\ x + next - 1 <= Before(s, i)
      /\ cur + Len(piece) = IF next = 0 THEN N + 1 ELSE next
  BY DEF Parses
<1>4. next # 0 /\ next <= n => EndOf(s, j) <= x + next - 1
  <2> HAVE next # 0 /\ next <= n
  <2>1. PICK k \in DOMAIN Sent[s] : Before(s, k) = x + next - 1
    BY <1>3 DEF Begins
  <2>2. /\ Before(s, k) \in Nat /\ EndOf(s, k) \in Nat /\ Before(s, k) < EndOf(s, k)
        /\ Before(s, j) < EndOf(s, k) /\ Before(s, k) < EndOf(s, j) => j = k
    BY PlacesAre
  <2>3. Before(s, j) < Before(s, k)
    BY <1>1, <1>3, <2>1
  <2> QED
    BY <1>2, <2>1, <2>2, <2>3
<1>5. Whole(n, next) => /\ x + next - 1 = EndOf(s, j) /\ EndOf(s, j) < w /\ next <= n
  <2> HAVE Whole(n, next)
  <2>1. next # 0 /\ next + PatternLen - 1 <= n /\ next <= n
    BY <1>1, <1>3 DEF Whole
  <2>2. EndOf(s, j) + PatternLen <= w
    <3>1. next \in Nat /\ EndOf(s, j) <= x + next - 1
      BY <1>3, <1>4, <2>1
    <3> QED
      BY <1>1, <1>2, <2>1, <3>1
  <2>3. PICK i \in DOMAIN Sent[s] : Before(s, i) = EndOf(s, j)
    BY <1>1, <1>2, <2>2, NextBegins
  <2>4. x + cur + PatternLen - 1 <= Before(s, i)
    BY <1>1, <1>2, <2>3
  <2>5. x + next - 1 <= Before(s, i)
    BY <1>3, <2>2, <2>3, <2>4
  <2>6. next \in Nat /\ EndOf(s, j) <= x + next - 1
    BY <1>3, <1>4, <2>1
  <2>7. x + next - 1 = EndOf(s, j)
    <3>1. EndOf(s, j) \in Nat /\ x \in Nat
      BY <1>1, <1>2
    <3> QED
      BY ONLY <3>1, <2>3, <2>5, <2>6
  <2>8. EndOf(s, j) < w
    BY ONLY <1>1, <1>2, <2>2
  <2> QED
    BY ONLY <2>1, <2>7, <2>8
<1>6. Whole(n, next) => Len(piece) = MsgLen[Sent[s][j]]
  BY <1>1, <1>2, <1>3, <1>5 DEF Whole
<1> QED
  BY <1>4, <1>5, <1>6 DEF Passes

LEMMA MeetsIs ==
  ASSUME NEW s \in Streams, NEW x \in Nat, NEW w \in Nat, NEW n \in Nat, NEW N \in Nat,
         NEW cur \in Nat, w = x + n, w <= Len(Text[s]), n <= N, 1 <= cur, NEW next, NEW piece,
         Parses(s, x, w, n, N, cur, next, piece),
         NEW j \in DOMAIN Sent[s], Before(s, j) = x + cur - 1, cur + PatternLen - 1 <= n
  PROVE  Meets(s, w, n, N, next, piece, j)
<1>1. PatternLen \in Nat /\ 1 <= PatternLen /\ Len(Text[s]) \in Nat
  BY LengthsAre, TextIs
<1>2. /\ Before(s, j) \in Nat /\ EndOf(s, j) \in Nat /\ Before(s, j) + PatternLen < EndOf(s, j)
      /\ MsgLen[Sent[s][j]] \in Nat /\ EndOf(s, j) = Before(s, j) + MsgLen[Sent[s][j]]
  BY PlacesAre
<1>3. /\ next \in Nat /\ Len(piece) \in Nat /\ piece \in Seq(Cells)
      /\ next # 0 => next + PatternLen - 1 <= N
      /\ \A i \in DOMAIN Sent[s] :
           x + cur + PatternLen - 1 <= Before(s, i) /\ Before(s, i) + PatternLen <= w =>
             next # 0 /\ x + next - 1 <= Before(s, i)
      /\ cur + Len(piece) = IF next = 0 THEN N + 1 ELSE next
      /\ \A k \in 1 .. Len(piece) : cur + k - 1 <= n => piece[k] = Text[s][x + (cur + k - 1)]
  BY DEF Parses
<1>4. /\ next # 0 /\ next <= n => EndOf(s, j) <= x + next - 1
      /\ Whole(n, next) => EndOf(s, j) < w
  <2>1. /\ Passes(s, x, w, n, next, piece, j)
        /\ next # 0 /\ next <= n => EndOf(s, j) <= x + next - 1
    BY PassesIs
  <2> QED
    BY <2>1 DEF Passes
<1>5. EndOf(s, j) <= w => MsgLen[Sent[s][j]] <= Len(piece)
  <2> HAVE EndOf(s, j) <= w
  <2>1. CASE next # 0 /\ next <= n
    BY <1>2, <1>3, <1>4, <2>1
  <2>2. CASE ~(next # 0 /\ next <= n)
    <3>1. n + 1 <= cur + Len(piece)
      BY <1>3, <2>2
    <3> QED
      BY <1>2, <1>3, <3>1
  <2> QED
    BY <2>1, <2>2
<1>6. N = n \/ EndOf(s, j) <= w =>
        \A k \in 1 .. MsgLen[Sent[s][j]] : k <= Len(piece) => piece[k] = CellOf(Sent[s][j], k)
  <2> HAVE N = n \/ EndOf(s, j) <= w
  <2> TAKE k \in 1 .. MsgLen[Sent[s][j]]
  <2> HAVE k <= Len(piece)
  <2>1. k \in Nat /\ k \in 1 .. Len(piece)
    BY <1>2, <1>3
  <2>2. cur + k - 1 <= n
    <3>1. CASE EndOf(s, j) <= w
      BY <1>2, <2>1, <3>1
    <3>2. CASE N = n
      <4>1. cur + Len(piece) <= N + 1
        BY <1>1, <1>3
      <4> QED
        BY <1>3, <2>1, <3>2, <4>1
    <3> QED
      BY <3>1, <3>2
  <2>3. piece[k] = Text[s][x + (cur + k - 1)] /\ x + (cur + k - 1) = Before(s, j) + k
    BY <1>2, <1>3, <2>1, <2>2
  <2>4. Text[s][Before(s, j) + k] = CellOf(Sent[s][j], k)
    BY TextIs
  <2> QED
    BY <2>3, <2>4
<1>7. ~Whole(n, next) =>
        \A i \in DOMAIN Sent[s] :
          i # j /\ Before(s, i) < w /\ Before(s, j) < EndOf(s, i) => Sent[s][i] \in CutAt(s, w)
  <2> HAVE ~Whole(n, next)
  <2> TAKE i \in DOMAIN Sent[s]
  <2> HAVE i # j /\ Before(s, i) < w /\ Before(s, j) < EndOf(s, i)
  <2>1. /\ Before(s, i) \in Nat
        /\ Before(s, j) < EndOf(s, i) /\ Before(s, i) < EndOf(s, j) => j = i
    BY PlacesAre
  <2>2. x + cur + PatternLen - 1 <= Before(s, i)
    BY <1>1, <1>2, <2>1
  <2>3. ~(Before(s, i) + PatternLen <= w)
    BY <1>1, <1>3, <2>1, <2>2 DEF Whole
  <2> QED
    BY <1>1, <2>1, <2>3 DEF CutAt
<1>8. N = n /\ w < EndOf(s, j) => next = 0 /\ piece = Piece(s, Before(s, j), w)
  <2> HAVE N = n /\ w < EndOf(s, j)
  <2>1. next = 0
    BY <1>2, <1>3, <1>4 DEF Whole
  <2>2. Len(piece) = w - Before(s, j) /\ Before(s, j) <= w
    <3>1. cur + Len(piece) = n + 1 /\ Len(piece) \in Nat
      BY <1>3, <2>1
    <3>2. PICK c \in Nat : c = Len(piece)
      BY <3>1
    <3>3. n + 1 = cur + c
      BY <3>1, <3>2
    <3>4. Before(s, j) = x + cur - 1 /\ w = x + n
      OBVIOUS
    <3> QED
      BY ONLY x \in Nat, w \in Nat, n \in Nat, cur \in Nat, <3>2, <3>3, <3>4
  <2>3. PICK u : u = Piece(s, Before(s, j), w)
    OBVIOUS
  <2>4. /\ u \in Seq(StreamCells(s)) /\ Len(u) = w - Before(s, j)
        /\ \A k \in 1 .. w - Before(s, j) : u[k] = Text[s][Before(s, j) + k]
    BY ONLY s \in Streams, w \in Nat, w <= Len(Text[s]), <1>2, <2>2, <2>3, PieceIs
  <2>5. \A k \in 1 .. Len(piece) : piece[k] = u[k]
    <3> TAKE k \in 1 .. Len(piece)
    <3>1. cur + k - 1 <= n /\ x + (cur + k - 1) = Before(s, j) + k
      BY <1>2, <2>2
    <3> QED
      BY <1>3, <2>2, <2>4, <3>1
  <2>6. piece = u
    BY <1>3, <2>2, <2>4, <2>5
  <2> QED
    BY <2>1, <2>3, <2>6
<1> QED
  BY <1>5, <1>6, <1>7, <1>8 DEF Meets

\* The piece is parsed with outcome o, and the handler moves on from b to z.
Handled(s, x, w, n, N, cur, next, piece, imp, b, z, f, rep, o, g, out) ==
  /\ s \in Streams /\ x \in Nat /\ w \in Nat /\ n \in Nat /\ N \in Nat /\ cur \in Nat
  /\ w = x + n /\ w <= Len(Text[s]) /\ n <= N /\ 1 <= cur
  /\ Parses(s, x, w, n, N, cur, next, piece)
  /\ CutAt(s, w) \subseteq imp
  /\ b = IF cur + PatternLen - 1 <= n THEN x + cur - 1 ELSE w
  /\ z = IF Whole(n, next) THEN x + next - 1 ELSE w
  /\ cur + PatternLen - 1 <= n => Begins(s, x + cur - 1)
  /\ \/ N = n /\ cur + PatternLen - 1 <= n
     \/ \A i \in DOMAIN Sent[s] : Inside(s, i, w) => Sent[s][i] \in Misstated \cup imp
  /\ Uncut(s, b, f, rep, imp) /\ rep \in Seq({Mixture} \cup Messages)
  /\ o \in Outcomes(piece)
  /\ g = IF o.code = "tooShort" THEN piece ELSE f
  /\ out = IF o.code = "ok" THEN Append(rep, o.msg) ELSE rep

LEMMA PieceUncut ==
  ASSUME NEW s, NEW x, NEW w, NEW n, NEW N, NEW cur, NEW next, NEW piece, NEW imp, NEW b, NEW z,
         NEW f, NEW rep, NEW o, NEW g, NEW out,
         Handled(s, x, w, n, N, cur, next, piece, imp, b, z, f, rep, o, g, out)
  PROVE  Uncut(s, z, g, out, imp) /\ out \in Seq({Mixture} \cup Messages)
<1>1. /\ s \in Streams /\ x \in Nat /\ w \in Nat /\ n \in Nat /\ N \in Nat /\ cur \in Nat
      /\ w = x + n /\ w <= Len(Text[s]) /\ n <= N /\ 1 <= cur
      /\ CutAt(s, w) \subseteq imp
      /\ cur + PatternLen - 1 <= n => Begins(s, x + cur - 1)
      /\ \/ N = n /\ cur + PatternLen - 1 <= n
         \/ \A i \in DOMAIN Sent[s] : Inside(s, i, w) => Sent[s][i] \in Misstated \cup imp
      /\ Uncut(s, b, f, rep, imp) /\ rep \in Seq({Mixture} \cup Messages)
  BY DEF Handled
<1>2. Parses(s, x, w, n, N, cur, next, piece) /\ o \in Outcomes(piece)
  BY DEF Handled
<1>3. /\ b = IF cur + PatternLen - 1 <= n THEN x + cur - 1 ELSE w
      /\ z = IF Whole(n, next) THEN x + next - 1 ELSE w
      /\ g = IF o.code = "tooShort" THEN piece ELSE f
      /\ out = IF o.code = "ok" THEN Append(rep, o.msg) ELSE rep
  BY DEF Handled
<1>4. PatternLen \in Nat /\ 1 <= PatternLen
  BY LengthsAre
<1>5. next \in Nat /\ piece \in Seq(Cells) /\ piece # <<>> /\ Len(piece) \in Nat
      /\ (next # 0 => cur + PatternLen <= next)
  BY <1>2 DEF Parses
<1>6. out \in Seq({Mixture} \cup Messages) /\ ToSet(rep) \subseteq ToSet(out)
  <2>1. Messages \in SUBSET Messages /\ piece \in Seq(({0} \cup Messages) \X Nat)
    BY <1>5 DEF Cells
  <2>2. Verdict(Messages, piece, o)
    BY ONLY <1>2, <2>1, VerdictIs
  <2>3. o.msg \in {Mixture} \cup Messages
    BY <2>2 DEF Verdict
  <2> QED
    BY <1>1, <1>3, <2>3, LastIsAdded
<1>7. b \in Nat /\ z \in Nat /\ z <= w
  BY <1>1, <1>3, <1>4, <1>5 DEF Whole
<1>8. SUFFICES ASSUME NEW k \in DOMAIN Sent[s]
               PROVE  \/ EndOf(s, k) <= b /\ EndOf(s, k) <= z
                      \/ Sent[s][k] \in Excused(imp)
                      \/ z <= Before(s, k)
                      \/ EndOf(s, k) <= z /\ Sent[s][k] \in ToSet(out)
                      \/ z < EndOf(s, k) /\ g = Piece(s, Before(s, k), z)
  <2>1. imp \subseteq imp
    OBVIOUS
  <2> QED
    BY ONLY <1>1, <1>6, <1>7, <1>8, <2>1, UncutPasses
<1>9. /\ Before(s, k) \in Nat /\ EndOf(s, k) \in Nat /\ Before(s, k) < EndOf(s, k)
  BY <1>1, PlacesAre
<1>10. CASE ~(cur + PatternLen - 1 <= n)
  <2>1. b = w /\ z = w
    BY <1>1, <1>3, <1>4, <1>5, <1>10 DEF Whole
  <2>2. Inside(s, k, w) => Sent[s][k] \in Excused(imp)
    BY <1>1, <1>10 DEF Excused
  <2> QED
    BY <1>1, <1>9, <2>1, <2>2 DEF Inside
<1>11. CASE cur + PatternLen - 1 <= n
  <2>1. PICK j \in DOMAIN Sent[s] : Before(s, j) = x + cur - 1
    BY <1>1, <1>11 DEF Begins
  <2>2. b = Before(s, j)
    BY <1>3, <1>11, <2>1
  <2>3. Passes(s, x, w, n, next, piece, j) /\ Meets(s, w, n, N, next, piece, j)
    BY ONLY <1>1, <1>2, <1>11, <2>1, PassesIs, MeetsIs
  <2>4. PICK m \in Messages : m = Sent[s][j]
    BY <1>1, PlacesAre
  <2>5. /\ Before(s, j) \in Nat /\ EndOf(s, j) \in Nat /\ MsgLen[m] \in Nat
        /\ Before(s, j) + PatternLen < EndOf(s, j) /\ EndOf(s, j) = Before(s, j) + MsgLen[m]
        /\ Before(s, j) < EndOf(s, k) /\ Before(s, k) < EndOf(s, j) => j = k
    BY <1>1, <2>4, PlacesAre
  <2>6. m \notin Excused(imp) => m \notin Misstated /\ m \notin Damaged /\ m \notin imp
    BY DEF Excused
  <2>7. EndOf(s, j) <= w /\ m \notin Excused(imp) => m \in ToSet(out)
    <3> HAVE EndOf(s, j) <= w /\ m \notin Excused(imp)
    <3>1. /\ \A i \in 1 .. MsgLen[m] : i <= Len(piece) => piece[i] = CellOf(m, i)
          /\ MsgLen[m] <= Len(piece)
      BY <2>3, <2>4 DEF Meets
    <3>2. Outcomes(piece) = {Result(IF m \in Damaged THEN "checksum" ELSE "ok", MsgLen[m], m)}
      BY ONLY <1>5, <2>6, <3>1, VerdictOnMessage, m \in Messages,
              EndOf(s, j) <= w /\ m \notin Excused(imp)
    <3>3. o = Result("ok", MsgLen[m], m)
      BY <1>2, <2>6, <3>2
    <3>4. out = Append(rep, m)
      BY <1>3, <3>3 DEF Result
    <3>5. m \in {Mixture} \cup Messages
      OBVIOUS
    <3> QED
      BY ONLY <1>1, <3>4, <3>5, LastIsAdded
  <2>8. CASE Whole(n, next)
    <3>1. z = EndOf(s, j) /\ z < w
      BY <1>3, <2>3, <2>8 DEF Passes
    <3> QED
      BY <1>1, <1>9, <2>2, <2>4, <2>5, <2>7, <3>1
  <2>9. CASE ~Whole(n, next)
    <3>1. z = w /\ b < w
      BY <1>1, <1>3, <1>4, <1>11, <2>1, <2>2, <2>9
    <3>2. CASE k # j
      <4>1. Before(s, k) < w /\ Before(s, j) < EndOf(s, k) => Sent[s][k] \in Excused(imp)
        BY <1>1, <2>3, <2>9, <3>2 DEF Meets, Excused
      <4> QED
        BY <1>1, <1>7, <1>9, <2>2, <2>5, <3>1, <4>1
    <3>3. CASE k = j /\ EndOf(s, j) <= w
      BY <2>4, <2>7, <3>1, <3>3
    <3>4. CASE k = j /\ w < EndOf(s, j)
      <4>1. Inside(s, j, w)
        BY <2>2, <3>1, <3>4 DEF Inside
      <4>2. CASE N = n /\ m \notin Misstated
        <5>1. piece = Piece(s, Before(s, j), w) /\ Before(s, j) < w
          BY <2>2, <2>3, <3>1, <3>4, <4>2 DEF Meets
        <5>2. Outcomes(piece) = {TooShort(piece)}
          BY ONLY <1>1, <2>1, <2>4, <3>4, <4>2, <5>1, VerdictOnPiece
        <5>3. o.code = "tooShort"
          BY <1>2, <5>2 DEF TooShort, Result
        <5> QED
          BY <1>3, <3>1, <3>4, <5>1, <5>3
      <4>3. CASE ~(N = n /\ m \notin Misstated)
        <5>1. m \in Excused(imp)
          BY <1>1, <2>4, <4>1, <4>3 DEF Excused
        <5> QED
          BY <2>4, <3>4, <5>1
      <4> QED
        BY <4>2, <4>3
    <3> QED
      BY <1>1, <2>5, <3>2, <3>3, <3>4
  <2> QED
    BY <2>8, <2>9
<1> QED
  BY <1>10, <1>11

\* On an orderly stream the handler passes the message, or keeps its beginning.
Advances(s, x, w, n, cur, r, next, piece, j, f, rep, e, l, o, g, out, c) ==
  /\ s \in Streams /\ x \in Nat /\ w \in Nat /\ n \in Nat /\ cur \in Nat /\ r \in Nat
  /\ w = x + n /\ w <= Len(Text[s]) /\ 1 <= cur /\ cur + r = n + 1
  /\ Parses(s, x, w, n, n, cur, next, piece)
  /\ j \in DOMAIN Sent[s] /\ Before(s, j) = x + cur - 1 /\ cur + PatternLen - 1 <= n
  /\ Sent[s][j] \notin Misstated
  /\ StreamInv(s, Before(s, j), f, rep, e, l) /\ e \in Nat
  /\ o \in Outcomes(piece)
  /\ g = IF o.code = "tooShort" THEN piece ELSE f
  /\ out = IF o.code = "ok" THEN Append(rep, o.msg) ELSE rep
  /\ c = IF o.code \in {"invalidType", "checksum", "tagInvalid"} THEN e + 1 ELSE e

\* Then it counts right, and the stream agrees with its count.
Advanced(s, w, n, r, next, e, l, o, g, out, c) ==
  \E v \in Nat : /\ v <= w /\ r - o.consumed = w - v
                 /\ StreamInv(s, v, g, out, c, l) /\ c \in Nat /\ e <= c
                 /\ v < w => Begins(s, v)
                 /\ next = 0 => w - v < PatternLen

LEMMA AdvancedIs ==
  ASSUME NEW s, NEW x, NEW w, NEW n, NEW cur, NEW r, NEW next, NEW piece, NEW j,
         NEW f, NEW rep, NEW e, NEW l, NEW o, NEW g, NEW out, NEW c,
         Advances(s, x, w, n, cur, r, next, piece, j, f, rep, e, l, o, g, out, c)
  PROVE  Advanced(s, w, n, r, next, e, l, o, g, out, c)
<1>1. /\ s \in Streams /\ x \in Nat /\ w \in Nat /\ n \in Nat /\ cur \in Nat /\ r \in Nat
      /\ w = x + n /\ w <= Len(Text[s]) /\ 1 <= cur /\ cur + r = n + 1
      /\ j \in DOMAIN Sent[s] /\ Before(s, j) = x + cur - 1 /\ cur + PatternLen - 1 <= n
      /\ Sent[s][j] \notin Misstated /\ e \in Nat
  BY DEF Advances
<1>2. Parses(s, x, w, n, n, cur, next, piece) /\ n <= n
  BY <1>1 DEF Advances
<1>3. /\ StreamInv(s, Before(s, j), f, rep, e, l)
      /\ o \in Outcomes(piece)
      /\ g = IF o.code = "tooShort" THEN piece ELSE f
      /\ out = IF o.code = "ok" THEN Append(rep, o.msg) ELSE rep
      /\ c = IF o.code \in {"invalidType", "checksum", "tagInvalid"} THEN e + 1 ELSE e
  BY DEF Advances
<1>4. Passes(s, x, w, n, next, piece, j) /\ Meets(s, w, n, n, next, piece, j)
  BY ONLY <1>1, <1>2, PassesIs, MeetsIs
<1>5. PICK m \in Messages \ Misstated : m = Sent[s][j]
  BY <1>1, PlacesAre
<1>6. /\ Before(s, j) \in Nat /\ EndOf(s, j) \in Nat /\ MsgLen[m] \in Nat
      /\ Before(s, j) + PatternLen < EndOf(s, j) /\ EndOf(s, j) = Before(s, j) + MsgLen[m]
      /\ EndOf(s, j) <= Len(Text[s])
  BY <1>1, <1>5, PlacesAre
<1>7. PatternLen \in Nat /\ 1 <= PatternLen /\ Len(Text[s]) \in Nat
  BY <1>1, LengthsAre, TextIs
<1>8. piece \in Seq(Cells) /\ piece # <<>> /\ Len(piece) \in Nat
  BY <1>2 DEF Parses
<1>9. CASE w < EndOf(s, j)
  <2>1. /\ next = 0 /\ piece = Piece(s, Before(s, j), w) /\ Before(s, j) < w
    BY <1>1, <1>4, <1>6, <1>7, <1>9 DEF Meets
  <2>2. Outcomes(piece) = {TooShort(piece)}
    BY ONLY <1>1, <1>5, <1>9, <2>1, VerdictOnPiece
  <2>3. o.code = "tooShort" /\ o.consumed = Len(piece)
    BY <1>3, <2>2 DEF TooShort, Result
  <2>4. Len(piece) = w - Before(s, j)
    <3>1. PICK p \in Nat : p = Before(s, j)
      BY <1>6
    <3>2. p <= w /\ piece = Piece(s, p, w)
      BY <1>1, <2>1, <3>1
    <3>3. Len(Piece(s, p, w)) = w - p
      BY ONLY <1>1, <3>2, PieceIs
    <3> QED
      BY <3>1, <3>2, <3>3
  <2>5. r - o.consumed = w - w /\ w - w = 0
    BY <1>1, <2>3, <2>4
  <2>6. Inside(s, j, w)
    BY <1>1, <1>9, <2>1 DEF Inside
  <2>7. StreamInv(s, w, Piece(s, Before(s, j), w), rep, e, l)
    BY ONLY <1>1, <1>3, <2>6, BeginningKeeps
  <2>8. g = Piece(s, Before(s, j), w) /\ out = rep /\ c = e
    BY <1>3, <2>1, <2>3
  <2>9. w \in Nat /\ w <= w /\ e <= e /\ ~(w < w) /\ w - w < PatternLen
    BY <1>1, <1>7
  <2> QED
    BY <1>1, <2>5, <2>7, <2>8, <2>9 DEF Advanced
<1>10. CASE EndOf(s, j) <= w
  <2>1. PICK y \in Nat : y = EndOf(s, j)
    BY <1>6
  <2>2. /\ \A i \in 1 .. MsgLen[m] : i <= Len(piece) => piece[i] = CellOf(m, i)
        /\ MsgLen[m] <= Len(piece)
    BY <1>4, <1>5, <1>10 DEF Meets
  <2>3. Outcomes(piece) = {Result(IF m \in Damaged THEN "checksum" ELSE "ok", MsgLen[m], m)}
    BY ONLY <1>5, <1>8, <2>2, VerdictOnMessage
  <2>4. /\ o.code = (IF m \in Damaged THEN "checksum" ELSE "ok")
        /\ o.consumed = MsgLen[m] /\ o.msg = m
    BY <1>3, <2>3 DEF Result
  <2>5. r - o.consumed = w - y /\ y <= w
    <3>1. PICK p \in Nat, k \in Nat :
            p = Before(s, j) /\ k = MsgLen[m] /\ p = x + cur - 1 /\ y = p + k
      BY <1>1, <1>6, <2>1
    <3>2. o.consumed = k /\ y <= w
      BY <1>10, <2>1, <2>4, <3>1
    <3> QED
      BY ONLY <1>1, <2>1, <3>1, <3>2
  <2>6. /\ m \in Damaged => out = rep /\ c = e + 1
        /\ m \notin Damaged => out = Append(rep, m) /\ c = e
        /\ g = f
    BY <1>3, <2>4
  <2>7. StreamInv(s, y, f, out, c, l) /\ c \in Nat /\ e <= c
    BY ONLY <1>1, <1>3, <1>5, <2>1, <2>6, MessageKeeps
  <2>8. y < w => Begins(s, y)
    BY <1>1, <1>6, <1>7, <2>1, NextBegins DEF Begins
  <2>9. next = 0 => w - y < PatternLen
    <3> SUFFICES ASSUME next = 0, ~(w - y < PatternLen)
                 PROVE  FALSE
      OBVIOUS
    <3>1. y + PatternLen <= w /\ y < w
      BY <1>1, <1>7, <2>1
    <3>2. PICK i \in DOMAIN Sent[s] : Before(s, i) = y
      BY <2>8, <3>1 DEF Begins
    <3>3. x + cur + PatternLen - 1 <= y
      BY <1>1, <1>6, <1>7, <2>1
    <3> QED
      BY <1>2, <3>1, <3>2, <3>3 DEF Parses
  <2> QED
    BY <2>5, <2>6, <2>7, <2>8, <2>9 DEF Advanced
<1> QED
  BY <1>1, <1>6, <1>9, <1>10

\* What the iteration starts from.
LEMMA LoopIs ==
  ASSUME IndInv, pc # "idle", curr # 0
  PROVE  /\ Iterates(stream, Start, wire[stream], Len(data), Len(Memory), curr, remaining,
                     Memory, NextMessage, Parsed)
         /\ Len(Memory) = Len(data) + Len(beyond)
<1>1. /\ stream \in Streams /\ wire[stream] \in Nat /\ wire[stream] <= Len(Text[stream])
      /\ data \in Seq(Cells) /\ beyond \in Seq(Cells) /\ curr \in Nat /\ remaining \in Nat
      /\ Len(data) <= wire[stream] /\ data = Piece(stream, Start, wire[stream])
      /\ curr + remaining = Len(data) + Len(beyond) + 1
      /\ remaining >= PatternLen
  BY DEF IndInv, TypeOK, Handling, Payloads, Looping
<1>2. PICK s, w, n, x : s = stream /\ w = wire[stream] /\ n = Len(data) /\ x = Start
  OBVIOUS
<1>3. n \in Nat /\ x \in Nat /\ w = x + n /\ Len(beyond) \in Nat
  <2>1. x = w - n
    BY <1>2 DEF Start
  <2>2. n \in Nat /\ Len(beyond) \in Nat
    BY <1>1, <1>2
  <2>3. w \in Nat /\ n <= w
    BY <1>1, <1>2
  <2> QED
    BY ONLY <2>1, <2>2, <2>3
<1>4. Memory \in Seq(Cells) /\ Len(Memory) = n + Len(beyond)
      /\ \A k \in 1 .. n : Memory[k] = data[k]
  BY <1>1, <1>2 DEF Memory
<1>5. Shows(Memory, n, s, x)
  <2>1. x <= w /\ w <= Len(Text[s]) /\ w - x = n /\ s \in Streams /\ w \in Nat
    BY <1>1, <1>2, <1>3
  <2>2. \A k \in 1 .. n : Piece(s, x, w)[k] = Text[s][x + k]
    BY ONLY <1>3, <2>1, PieceIs
  <2> QED
    BY <1>1, <1>2, <1>3, <1>4, <2>1, <2>2 DEF Shows
<1>6. PatternLen \in Nat /\ 1 <= PatternLen
  BY LengthsAre
<1>7. 1 <= curr /\ n <= Len(Memory) /\ curr + remaining = Len(Memory) + 1 /\ Len(Memory) \in Nat
  BY <1>1, <1>2, <1>3, <1>4
<1>8. /\ NextMessage = IF remaining > PatternLen
                       THEN Search(Memory, curr + PatternLen, curr + remaining - 1) ELSE 0
      /\ Parsed = SubSeq(Memory, curr, (IF NextMessage = 0 THEN curr + remaining
                                                           ELSE NextMessage) - 1)
  BY DEF NextMessage, Parsed
<1>9. Iterates(s, x, w, n, Len(Memory), curr, remaining, Memory, NextMessage, Parsed)
  BY <1>1, <1>2, <1>3, <1>4, <1>5, <1>6, <1>7, <1>8 DEF Iterates
<1> QED
  BY <1>2, <1>4, <1>9

\* Astray, the handler may cut what the payload ends in: nothing is said of it.
LEMMA AstrayIs ==
  ASSUME IndInv, pc # "idle", Astray
  PROVE  /\ \A i \in DOMAIN Sent[stream] :
              Inside(stream, i, wire[stream]) => Sent[stream][i] \in Misstated \cup impaired
         /\ ~Orderly(stream)
<1>1. PICK s, w : s = stream /\ w = wire[stream]
  OBVIOUS
<1>2. s \in Streams /\ w \in Nat /\ Overtaken(s, Start, w) \subseteq impaired
  BY <1>1 DEF IndInv, TypeOK, Handling, Payloads
<1>3. PICK k \in DOMAIN Sent[s] : /\ Sent[s][k] \in Understated /\ Start <= Before(s, k)
                                  /\ Before(s, k) + PatternLen <= w
  BY <1>1 DEF Astray, Start
<1>4. /\ Before(s, k) \in Nat /\ PatternLen \in Nat /\ 1 <= PatternLen
      /\ Sent[s][k] \in Misstated
  BY <1>2, <1>3, PlacesAre, LengthsAre, StatedAre
<1>5. Before(s, k) < w
  BY <1>2, <1>3, <1>4
<1>6. ASSUME NEW i \in DOMAIN Sent[s], Inside(s, i, w)
      PROVE  Sent[s][i] \in Misstated \cup impaired
  <2>1. /\ Before(s, i) \in Nat /\ EndOf(s, i) \in Nat /\ Before(s, i) < w /\ w < EndOf(s, i)
        /\ Before(s, i) < EndOf(s, k) /\ Before(s, k) < EndOf(s, i) => i = k
        /\ EndOf(s, k) \in Nat /\ Before(s, k) < EndOf(s, k)
    BY <1>2, <1>6, PlacesAre DEF Inside
  <2>2. Before(s, k) < Before(s, i) \/ i = k
    BY <1>2, <1>4, <1>5, <2>1
  <2>3. Before(s, k) < Before(s, i) => Sent[s][i] \in Overtaken(s, Start, w)
    BY <1>3, <2>1 DEF Overtaken
  <2> QED
    BY <1>2, <1>4, <2>2, <2>3
<1> QED
  BY <1>1, <1>3, <1>4, <1>5, <1>6 DEF Orderly, Misled

\* The message at the handler's position is parsed.
LEMMA ExtractNextKeeps ==
  ASSUME IndInv, ExtractNext
  PROVE  IndInv'
<1>0. PICK s, x, w, n, N, cur, r, next, piece, f, rep, e :
        /\ s = stream /\ x = Start /\ w = wire[s] /\ n = Len(data) /\ N = Len(Memory)
        /\ cur = curr /\ r = remaining /\ next = NextMessage /\ piece = Parsed
        /\ f = fragment[s] /\ rep = reported[s] /\ e = Errors
  OBVIOUS
<1>1. TypeOK /\ Handling /\ s \in Streams
  BY <1>0 DEF IndInv, TypeOK
<1>2. PICK o \in Outcomes(piece) :
        /\ reported' = IF o.code = "ok" THEN [reported EXCEPT ![s] = Append(@, o.msg)]
                       ELSE reported
        /\ counters' = Counted(o.code)
        /\ remaining' = r - o.consumed
        /\ fragment' = IF o.code = "tooShort" THEN [fragment EXCEPT ![s] = piece]
                       ELSE fragment
        /\ ReadBeyond(next, Len(piece) - o.consumed)
  BY <1>0 DEF ExtractNext, Report, KeepTooShort, PutFragment
<1>3. /\ pc = "loop" /\ cur # 0 /\ curr' = next
      /\ wire' = wire /\ pc' = pc /\ stream' = stream /\ data' = data /\ jumps' = jumps
      /\ resent' = resent /\ impaired' = impaired
  BY <1>0 DEF ExtractNext
<1>4. /\ wire \in [Streams -> Nat] /\ \A t \in Streams : wire[t] <= Len(Text[t])
      /\ fragment \in [Streams -> Seq(Cells)]
      /\ reported \in [Streams -> Seq({Mixture} \cup Messages)]
      /\ counters \in [{"corrupt", "checksum", "parsing"} -> Nat]
      /\ jumps \in 0 .. MaxJumps /\ resent \subseteq Streams /\ impaired \subseteq Messages
      /\ data \in Seq(Cells) /\ beyond \in Seq(Cells)
  BY <1>1 DEF TypeOK, Handling, Payloads
<1>5. Iterates(s, x, w, n, N, cur, r, Memory, next, piece) /\ N = n + Len(beyond)
  BY <1>0, <1>3, LoopIs
<1>6. Parses(s, x, w, n, N, cur, next, piece)
  BY ONLY <1>5, ParsesIs
<1>7. /\ x \in Nat /\ w \in Nat /\ n \in Nat /\ N \in Nat /\ cur \in Nat /\ r \in Nat
      /\ w = x + n /\ w <= Len(Text[s]) /\ n <= N /\ 1 <= cur /\ cur + r = N + 1
      /\ PatternLen <= r
  BY <1>5 DEF Iterates
<1>8. /\ next \in Nat /\ piece \in Seq(Cells) /\ Len(piece) \in Nat /\ piece # <<>>
      /\ next # 0 => /\ cur + PatternLen <= next /\ next + PatternLen - 1 <= N
                     /\ next <= n => Begins(s, x + next - 1)
      /\ cur + Len(piece) = IF next = 0 THEN N + 1 ELSE next
  BY <1>6 DEF Parses
<1>9. PatternLen \in Nat /\ 1 <= PatternLen
  BY LengthsAre
<1>10. o.consumed \in 0 .. Len(piece)
  <2>1. Messages \in SUBSET Messages /\ piece \in Seq(({0} \cup Messages) \X Nat)
    BY <1>8 DEF Cells
  <2>2. Verdict(Messages, piece, o)
    BY ONLY <1>2, <2>1, VerdictIs
  <2> QED
    BY <2>2 DEF Verdict
<1>11. /\ Len(beyond) < cur /\ (~Astray => N = n)
       /\ cur + PatternLen - 1 <= n => Begins(s, x + cur - 1)
  <2>1. /\ Len(beyond) < cur /\ (~Astray => beyond = <<>>) /\ (Current => Begins(s, x + cur - 1))
    BY <1>0, <1>1, <1>3 DEF Handling, Looping
  <2>2. Current <=> cur + PatternLen - 1 <= n
    BY <1>0, <1>3 DEF Current
  <2>3. beyond = <<>> => N = n
    BY <1>5, <1>7
  <2> QED
    BY <2>1, <2>2, <2>3
<1>12. /\ N = n => cur + PatternLen - 1 <= n
       /\ next # 0 /\ N = n => Whole(n, next)
       /\ Whole(n, next) => next <= n
  BY <1>7, <1>8, <1>9 DEF Whole
<1>13. /\ CutAt(s, w) \subseteq impaired
       /\ \/ N = n /\ cur + PatternLen - 1 <= n
          \/ \A i \in DOMAIN Sent[s] : Inside(s, i, w) => Sent[s][i] \in Misstated \cup impaired
  <2>1. CutAt(s, w) \subseteq impaired
    BY <1>0, <1>1, <1>3 DEF Handling, Payloads
  <2>2. CASE Astray
    BY <1>0, <1>3, <2>1, <2>2, AstrayIs
  <2>3. CASE ~Astray
    BY <1>11, <1>12, <2>1, <2>3
  <2> QED
    BY <2>2, <2>3
<1>14. Start' = x /\ (Current' <=> Whole(n, next))
  BY <1>0, <1>3 DEF Start, Current, Whole
<1>15. PICK b, z : /\ b = IF cur + PatternLen - 1 <= n THEN x + cur - 1 ELSE w
                   /\ z = IF Whole(n, next) THEN x + next - 1 ELSE w
  OBVIOUS
<1>16. /\ Reached(s) = b /\ Reached(s)' = z
       /\ \A t \in Streams : t # s => /\ Reached(t)' = Reached(t) /\ Pos(t)' = Pos(t)
                                      /\ (Orderly(t)' => Orderly(t))
  <2>1. Reached(s) = b
    BY <1>0, <1>3, <1>15 DEF Reached, Current
  <2>2. Reached(s)' = IF Current' THEN Start' + curr' - 1 ELSE wire'[s]
    BY <1>0, <1>3 DEF Reached
  <2>3. Reached(s)' = z
    BY <1>0, <1>3, <1>14, <1>15, <2>2
  <2> QED
    BY <1>0, <1>3, <2>1, <2>3 DEF Reached, Pos, Orderly, Misled
<1>17. PICK g, out, c :
         /\ g = IF o.code = "tooShort" THEN piece ELSE f
         /\ out = IF o.code = "ok" THEN Append(rep, o.msg) ELSE rep
         /\ c = IF o.code \in {"invalidType", "checksum", "tagInvalid"} THEN e + 1 ELSE e
  OBVIOUS
<1>18. /\ fragment' = [fragment EXCEPT ![s] = g] /\ g \in Seq(Cells)
       /\ reported' = [reported EXCEPT ![s] = out]
  BY <1>0, <1>1, <1>2, <1>4, <1>8, <1>17
<1>19. /\ Errors' = c /\ e \in Nat /\ e <= c
       /\ counters' \in [{"corrupt", "checksum", "parsing"} -> Nat]
  <2>1. /\ e \in Nat /\ Counted(o.code) \in [{"corrupt", "checksum", "parsing"} -> Nat]
        /\ ErrorsOf(Counted(o.code)) =
             IF o.code \in {"invalidType", "checksum", "tagInvalid"} THEN e + 1 ELSE e
    BY <1>0, <1>1, CountersAre
  <2> QED
    BY <1>2, <1>17, <2>1 DEF Errors
<1>20. Uncut(s, z, g, out, impaired) /\ out \in Seq({Mixture} \cup Messages)
  <2>1. Uncut(s, b, f, rep, impaired) /\ rep \in Seq({Mixture} \cup Messages)
    BY <1>0, <1>1, <1>4, <1>16 DEF IndInv
  <2>2. PICK imp : imp = impaired
    OBVIOUS
  <2>3. Handled(s, x, w, n, N, cur, next, piece, imp, b, z, f, rep, o, g, out)
    BY ONLY <1>1, <1>2, <1>6, <1>7, <1>11, <1>13, <1>15, <1>17, <2>1, <2>2 DEF Handled
  <2>4. Uncut(s, z, g, out, imp) /\ out \in Seq({Mixture} \cup Messages)
    BY ONLY <2>3, PieceUncut
  <2> QED
    BY <2>2, <2>4
<1>21. Orderly(s) => /\ N = n /\ cur + PatternLen - 1 <= n
                     /\ Advanced(s, w, n, r, next, e, jumps, o, g, out, c)
  <2> HAVE Orderly(s)
  <2>1. N = n /\ cur + PatternLen - 1 <= n
    BY <1>0, <1>3, <1>11, <1>12, AstrayIs
  <2>2. PICK j \in DOMAIN Sent[s] : Before(s, j) = x + cur - 1
    BY <1>11, <2>1 DEF Begins
  <2>3. Pos(s) = w - r /\ w - r = x + cur - 1 /\ x + cur - 1 < w
    <3>1. w - r = x + cur - 1 /\ x + cur - 1 < w
      BY ONLY <1>7, <1>9, <2>1
    <3> QED
      BY <1>0, <3>1 DEF Pos
  <2>4. Sent[s][j] \notin Misstated
    BY <1>0, <2>2, <2>3 DEF Orderly, Misled
  <2>5. StreamInv(s, Before(s, j), f, rep, e, jumps)
    BY <1>0, <1>1, <2>2, <2>3 DEF IndInv
  <2>6. PICK l : l = jumps
    OBVIOUS
  <2>7. Advances(s, x, w, n, cur, r, next, piece, j, f, rep, e, l, o, g, out, c)
    BY ONLY <1>1, <1>2, <1>6, <1>7, <1>17, <1>19, <2>1, <2>2, <2>4, <2>5, <2>6 DEF Advances
  <2>8. Advanced(s, w, n, r, next, e, l, o, g, out, c)
    BY ONLY <2>7, AdvancedIs
  <2> QED
    BY <2>1, <2>6, <2>8
<1>22. PICK h : h = remaining' /\ h = r - o.consumed
  BY <1>2
<1>23. /\ h \in Nat /\ h <= n /\ (next # 0 => PatternLen <= h)
  <2>1. r <= n
    BY <1>4, <1>5, <1>7, <1>11
  <2>2. PICK k \in Nat : k = Len(piece)
    BY <1>8
  <2>3. PICK a \in Nat : a = o.consumed /\ a <= k
    BY <1>8, <1>10, <2>2
  <2>4. h = r - a /\ k <= r /\ (next # 0 => PatternLen <= r - k)
    <3>1. next = 0 => cur + k = N + 1
      BY <1>8, <2>2
    <3>2. next # 0 => cur + k = next /\ next + PatternLen - 1 <= N
      BY <1>8, <2>2
    <3> QED
      BY <1>7, <1>8, <1>9, <1>22, <2>3, <3>1, <3>2
  <2> QED
    BY <1>7, <1>9, <2>1, <2>3, <2>4
<1>24. /\ beyond' \in Seq(Cells)
       /\ next = 0 => beyond' = <<>>
       /\ next # 0 => Len(beyond') = Len(beyond) + (Len(piece) - o.consumed)
       /\ next # 0 /\ o.consumed = Len(piece) => beyond' = beyond
  <2>1. CASE next = 0
    BY <1>2, <2>1 DEF ReadBeyond
  <2>2. CASE next # 0
    <3>1. PICK k \in Nat : k = Len(piece) - o.consumed
      BY <1>8, <1>10
    <3>2. PICK cells \in [1 .. k -> Behind] : beyond' = beyond \o cells
      BY <1>2, <2>2, <3>1 DEF ReadBeyond
    <3>3. Behind \subseteq Cells
      BY SegmentAssumption DEF Cells, Messages
    <3>4. cells \in Seq(Cells) /\ Len(cells) = k
      BY <3>2, <3>3
    <3>5. k = 0 => cells = <<>>
      BY <3>4
    <3>6. beyond' \in Seq(Cells) /\ Len(beyond') = Len(beyond) + k /\ (k = 0 => beyond' = beyond)
      <4>1. beyond \in Seq(Cells)
        BY <1>4
      <4>2. beyond \o cells \in Seq(Cells) /\ Len(beyond \o cells) = Len(beyond) + k
        BY ONLY <3>4, <4>1
      <4>3. k = 0 => beyond \o cells = beyond
        BY ONLY <3>5, <4>1
      <4> QED
        BY ONLY <3>2, <4>2, <4>3
    <3>7. o.consumed = Len(piece) => k = 0
      BY <1>8, <3>1
    <3> QED
      BY <2>2, <3>1, <3>6, <3>7
  <2> QED
    BY <2>1, <2>2
<1>25. Payloads'
  BY <1>0, <1>1, <1>3, <1>14 DEF Handling, Payloads
<1>26. Looping'
  <2> SUFFICES ASSUME next # 0
               PROVE  /\ next + h = n + Len(beyond') + 1
                      /\ h >= PatternLen /\ Len(beyond') < next
                      /\ ~Astray' => beyond' = <<>>
                      /\ Whole(n, next) => Begins(s, x + next - 1)
    BY <1>0, <1>3, <1>14, <1>22 DEF Looping
  <2>1. PICK a, k, y \in Nat : a = o.consumed /\ k = Len(piece) /\ y = Len(beyond)
    BY <1>4, <1>8, <1>10
  <2>2. /\ a <= k /\ cur + k = next /\ h = r - a /\ N = n + y /\ y < cur
        /\ Len(beyond') = y + (k - a)
    BY <1>5, <1>8, <1>10, <1>11, <1>22, <1>24, <2>1
  <2>3. next + h = n + Len(beyond') + 1 /\ Len(beyond') < next
    <3>1. PICK v : v = Len(beyond')
      OBVIOUS
    <3>2. /\ v = y + (k - a) /\ cur + k = next /\ h = r - a /\ N = n + y /\ y < cur
          /\ cur + r = N + 1
      BY <1>7, <2>2, <3>1
    <3>3. next + h = n + v + 1
      BY ONLY <1>7, a \in Nat, k \in Nat, y \in Nat, <3>2
    <3>4. v < next
      BY ONLY <1>7, a \in Nat, k \in Nat, y \in Nat, <3>2
    <3> QED
      BY <3>1, <3>3, <3>4
  <2>4. ~Astray' => beyond' = <<>>
    <3> HAVE ~Astray'
    <3>1. \A i \in DOMAIN Sent[s] :
            Sent[s][i] \in Understated /\ x <= Before(s, i) /\ Before(s, i) + PatternLen <= w =>
              ~(Before(s, i) - x + 1 < next)
      BY <1>0, <1>3 DEF Astray, Start
    <3>2. ~Astray
      <4> SUFFICES ASSUME Astray
                   PROVE  FALSE
        OBVIOUS
      <4>1. PICK i \in DOMAIN Sent[s] :
              /\ Sent[s][i] \in Understated /\ x <= Before(s, i)
              /\ Before(s, i) + PatternLen <= w /\ Before(s, i) - x + 1 < cur
        BY <1>0, <1>3 DEF Astray, Start
      <4>2. Before(s, i) \in Nat
        BY <1>1, PlacesAre
      <4> QED
        BY <1>7, <1>8, <1>9, <3>1, <4>1, <4>2
    <3>3. N = n /\ cur + PatternLen - 1 <= n /\ Whole(n, next)
      BY <1>11, <1>12, <3>2
    <3>4. PICK j \in DOMAIN Sent[s] : Before(s, j) = x + cur - 1
      BY <1>11, <3>3 DEF Begins
    <3>5. Sent[s][j] \notin Understated
      <4>1. x <= Before(s, j) /\ Before(s, j) + PatternLen <= w /\ Before(s, j) - x + 1 < next
        BY <1>7, <1>8, <1>9, <3>3, <3>4
      <4> QED
        BY <3>1, <4>1
    <3>6. PICK m \in Messages : m = Sent[s][j]
      BY <1>1, PlacesAre
    <3>7. Passes(s, x, w, n, next, piece, j) /\ Meets(s, w, n, N, next, piece, j)
      BY ONLY <1>1, <1>6, <1>7, <3>3, <3>4, PassesIs, MeetsIs
    <3>8. /\ Len(piece) = MsgLen[m]
          /\ \A i \in 1 .. MsgLen[m] : i <= Len(piece) => piece[i] = CellOf(m, i)
      BY <3>3, <3>6, <3>7 DEF Passes, Meets
    <3>9. \A v \in Outcomes(piece) : v.consumed = Len(piece)
      BY ONLY <1>8, <3>5, <3>6, <3>8, VerdictOnMessage
    <3>10. beyond' = beyond
      BY <1>2, <1>24, <3>9
    <3> QED
      BY <1>0, <1>1, <1>3, <3>2, <3>10 DEF Handling, Looping
  <2>5. Whole(n, next) => Begins(s, x + next - 1)
    BY <1>8, <1>12
  <2> QED
    BY <1>23, <2>3, <2>4, <2>5
<1>27. Ending'
  <2> SUFFICES ASSUME next = 0, h > 0, NEW i \in DOMAIN Sent[s], Inside(s, i, w)
               PROVE  Sent[s][i] \in Misstated \cup impaired
    BY <1>0, <1>3, <1>22, <1>23, <1>24 DEF Ending
  <2>1. CASE N = n /\ cur + PatternLen - 1 <= n
    <3>1. PICK j \in DOMAIN Sent[s] : Before(s, j) = x + cur - 1
      BY <1>11, <2>1 DEF Begins
    <3>2. Meets(s, w, n, N, next, piece, j)
      BY ONLY <1>1, <1>6, <1>7, <2>1, <3>1, MeetsIs
    <3>3. /\ Before(s, i) \in Nat /\ EndOf(s, i) \in Nat /\ Before(s, i) < w /\ w < EndOf(s, i)
          /\ Before(s, j) < w
      BY <1>1, <1>7, <1>9, <2>1, <3>1, PlacesAre DEF Inside
    <3>4. CASE i # j
      <4>1. Sent[s][i] \in CutAt(s, w)
        BY <1>7, <3>1, <3>2, <3>3, <3>4 DEF Meets, Whole
      <4> QED
        BY <1>13, <4>1
    <3>5. CASE i = j
      <4> SUFFICES ASSUME Sent[s][j] \notin Misstated
                   PROVE  FALSE
        BY <3>5
      <4>1. piece = Piece(s, Before(s, j), w) /\ w < EndOf(s, j)
        BY <2>1, <3>2, <3>3, <3>5 DEF Meets
      <4>2. Outcomes(piece) = {TooShort(piece)}
        BY ONLY <1>1, <1>7, <3>1, <3>3, <4>1, VerdictOnPiece, Sent[s][j] \notin Misstated
      <4>3. o.consumed = Len(piece)
        BY <1>2, <4>2 DEF TooShort, Result
      <4>4. cur + Len(piece) = N + 1
        BY <1>8
      <4>5. h = 0
        BY <1>7, <1>8, <1>22, <4>3, <4>4
      <4> QED
        BY <4>5
    <3> QED
      BY <3>4, <3>5
  <2>2. CASE ~(N = n /\ cur + PatternLen - 1 <= n)
    BY <1>13, <2>2
  <2> QED
    BY <2>1, <2>2
<1>28. Orderly(s)' => /\ StreamInv(s, Pos(s)', g, out, Errors', jumps')
                      /\ h > 0 => Begins(s, Pos(s)')
                      /\ next = 0 => h < PatternLen
  <2> HAVE Orderly(s)'
  <2>1. Orderly(s)
    BY <1>3 DEF Orderly, Misled
  <2>2. PICK v \in Nat : /\ v <= w /\ h = w - v
                         /\ StreamInv(s, v, g, out, c, jumps)
                         /\ v < w => Begins(s, v)
                         /\ next = 0 => w - v < PatternLen
    BY <1>21, <1>22, <2>1 DEF Advanced
  <2>3. Pos(s)' = w - h
    BY <1>0, <1>3, <1>22 DEF Pos
  <2>4. Pos(s)' = v /\ (h > 0 => v < w)
    BY <1>7, <2>2, <2>3
  <2> QED
    BY <1>3, <1>19, <2>2, <2>4
<1>29. Counting'
  <2>1. stream' = s /\ curr' = next
    BY <1>0, <1>3
  <2>2. Orderly(stream)' <=> Orderly(s)'
    BY <2>1 DEF Orderly, Misled
  <2>3. Pos(stream)' = Pos(s)'
    BY <2>1 DEF Pos
  <2> QED
    BY <1>22, <1>28, <2>1, <2>2, <2>3 DEF Counting
<1>30. Handling'
  BY <1>25, <1>26, <1>27, <1>29 DEF Handling
<1>31. /\ pc' \in {"idle", "loop", "undefined"} /\ stream' \in Streams /\ data' \in Seq(Cells)
       /\ wire' \in [Streams -> Nat] /\ curr' \in Nat /\ remaining' \in Nat
       /\ jumps' \in 0 .. MaxJumps /\ (jumps' = 0 => jumps = 0) /\ resent' \subseteq Streams
       /\ impaired' \subseteq Messages /\ impaired \subseteq impaired' /\ Errors <= Errors'
       /\ Orderly(s)' => StreamInv(s, Pos(s)', g, out, Errors', jumps')
       /\ Uncut(s, Reached(s)', g, out, impaired')
  BY <1>0, <1>1, <1>3, <1>4, <1>8, <1>16, <1>19, <1>20, <1>22, <1>23, <1>28
<1> QED
  BY ONLY IndInv, <1>1, <1>16, <1>18, <1>19, <1>20, <1>24, <1>30, <1>31, MoveKeeps

-----------------------------------------------------------------------------
(* The theorems.                                                           *)

\* Before the first packet nothing is kept, reported or missed.
LEMMA NothingYet ==
  ASSUME NEW s \in Streams
  PROVE  StreamInv(s, 0, <<>>, <<>>, 0, 0) /\ Uncut(s, 0, <<>>, <<>>, {})
<1>1. \A i \in DOMAIN Sent[s] : ~(EndOf(s, i) <= 0) /\ ~Inside(s, i, 0)
  BY PlacesAre DEF Inside
<1>2. /\ Len(<<>>) = 0 /\ DOMAIN <<>> = {} /\ ToSet(<<>>) = {}
      /\ \A T : <<>> \in Seq(T)
  BY DEF ToSet
<1>3. Kept(s, <<>>) /\ Known(s, <<>>)
  <2>1. \A m \in Messages : ~(0 >= MsgLen[m])
    BY LengthsAre
  <2> QED
    BY <1>2, <2>1 DEF Kept, Known, Unfinished
<1>4. InOrder(s, 0, <<>>)
  <2>1. [k \in {} |-> 0] \in [{} -> Nat]
    OBVIOUS
  <2> QED
    BY <1>2, <2>1 DEF InOrder
<1>5. Uncut(s, 0, <<>>, <<>>, {})
  BY <1>1 DEF Uncut
<1>6. Pure(s, 0, <<>>, <<>>)
  BY <1>2 DEF Pure
<1>7. Marked(s, 0, <<>>, <<>>, 0)
  <2>1. Missed(s, 0, <<>>) = {}
    BY <1>1 DEF Missed
  <2>2. Cardinality(Missed(s, 0, <<>>)) = 0
    BY <2>1, FS_EmptySet
  <2>3. ~GivenUp(s, 0, <<>>)
    BY <1>1 DEF GivenUp
  <2> QED
    BY <2>2, <2>3 DEF Marked
<1> QED
  BY <1>3, <1>4, <1>5, <1>6, <1>7 DEF StreamInv

LEMMA InitKeeps == Init => IndInv
<1> SUFFICES ASSUME Init PROVE IndInv
  OBVIOUS
<1>1. /\ wire = [s \in Streams |-> 0] /\ fragment = [s \in Streams |-> <<>>]
      /\ pc = "idle" /\ stream \in Streams /\ data = <<>> /\ curr = 0 /\ remaining = 0
      /\ beyond = <<>> /\ reported = [s \in Streams |-> <<>>]
      /\ counters = [corrupt |-> 0, checksum |-> 0, parsing |-> 0]
      /\ jumps = 0 /\ resent = {} /\ impaired = {}
  BY DEF Init
<1>2. \A s \in Streams : wire[s] = 0 /\ fragment[s] = <<>> /\ reported[s] = <<>>
  BY <1>1
<1>3. Errors = 0 /\ counters \in [{"corrupt", "checksum", "parsing"} -> Nat]
  <2>1. counters.corrupt = 0 /\ counters.checksum = 0 /\ counters.parsing = 0
    BY <1>1
  <2> QED
    BY <1>1, <2>1 DEF Errors, ErrorsOf
<1>4. \A s \in Streams : Pos(s) = 0 /\ Reached(s) = 0
  BY <1>1, <1>2 DEF Pos, Reached, Current
<1>5. TypeOK
  <2>1. /\ wire \in [Streams -> Nat] /\ fragment \in [Streams -> Seq(Cells)]
        /\ reported \in [Streams -> Seq({Mixture} \cup Messages)]
    BY <1>1
  <2>2. data \in Seq(Cells) /\ beyond \in Seq(Cells) /\ jumps \in 0 .. MaxJumps
    BY <1>1, SegmentAssumption
  <2> QED
    BY <1>1, <1>3, <2>1, <2>2 DEF TypeOK
<1>6. Handling
  <2>1. \A s \in Streams : wire[s] <= Len(Text[s])
    BY <1>2, TextIs
  <2>2. Piece(stream, 0, 0) = <<>>
    BY <1>1, <1>2, <2>1, NothingBetween
  <2>3. Start = 0 /\ wire[stream] = 0 /\ Len(data) = 0 /\ 0 < PatternLen
    BY <1>1, <1>2, LengthsAre DEF Start
  <2> QED
    BY <1>1, <2>1, <2>2, <2>3 DEF Handling, Payloads, Looping, Ending, Counting
<1>7. \A s \in Streams :
        /\ StreamInv(s, Pos(s), fragment[s], reported[s], Errors, jumps)
        /\ Uncut(s, Reached(s), fragment[s], reported[s], impaired)
  BY <1>1, <1>2, <1>3, <1>4, NothingYet
<1> QED
  BY <1>5, <1>6, <1>7 DEF IndInv

LEMMA StutterKeeps ==
  ASSUME IndInv, UNCHANGED vars
  PROVE  IndInv'
<1>1. /\ wire' = wire /\ fragment' = fragment /\ pc' = pc /\ stream' = stream
      /\ data' = data /\ curr' = curr /\ remaining' = remaining /\ beyond' = beyond
      /\ reported' = reported /\ counters' = counters /\ jumps' = jumps
      /\ resent' = resent /\ impaired' = impaired
  BY DEF vars, packet
<1>2. TypeOK /\ Handling
  BY DEF IndInv
<1>3. /\ Errors' = Errors /\ Start' = Start /\ (Current' <=> Current) /\ (Astray' <=> Astray)
      /\ \A s \in Streams : /\ Pos(s)' = Pos(s) /\ Reached(s)' = Reached(s)
                            /\ (Orderly(s)' <=> Orderly(s))
  BY <1>1 DEF Errors, Start, Current, Astray, Pos, Reached, Orderly, Misled
<1>4. TypeOK'
  BY <1>1, <1>2 DEF TypeOK
<1>5. Payloads' /\ Looping' /\ Ending'
  BY <1>1, <1>2, <1>3 DEF Handling, Payloads, Looping, Ending
<1>6. Counting'
  <2>1. Pos(stream)' = Pos(stream) /\ (Orderly(stream)' <=> Orderly(stream))
    BY <1>1 DEF Pos, Orderly, Misled
  <2> QED
    BY <1>1, <1>2, <2>1 DEF Handling, Counting
<1>7. \A s \in Streams :
        /\ Orderly(s)' => StreamInv(s, Pos(s)', fragment'[s], reported'[s], Errors', jumps')
        /\ Uncut(s, Reached(s)', fragment'[s], reported'[s], impaired')
  BY <1>1, <1>3 DEF IndInv
<1> QED
  BY <1>4, <1>5, <1>6, <1>7 DEF IndInv, Handling

LEMMA NextKeeps == IndInv /\ [Next]_vars => IndInv'
<1> SUFFICES ASSUME IndInv, [Next]_vars PROVE IndInv'
  OBVIOUS
<1>1. CASE \E s \in Streams, n \in 1 .. MaxSegment : Receive(s, n)
  BY <1>1, ReceiveKeeps
<1>2. CASE \E jump \in Jumps : Lose(jump[1], jump[2]) \/ Rewind(jump[1], jump[2])
  <2>1. PICK jump \in Jumps : Lose(jump[1], jump[2]) \/ Rewind(jump[1], jump[2])
    BY <1>2
  <2>2. jump[1] \in Streams /\ jump[2] \in Nat
    BY SegmentAssumption
  <2> QED
    BY <2>1, <2>2, LoseKeeps, RewindKeeps
<1>3. CASE ExtractNext
  BY <1>3, ExtractNextKeeps
<1>4. CASE Finish
  BY <1>4, FinishKeeps
<1>5. CASE Undefined
  BY <1>5, UndefinedKeeps
<1>6. CASE UNCHANGED vars
  BY <1>6, StutterKeeps
<1> QED
  BY <1>1, <1>2, <1>3, <1>4, <1>5, <1>6 DEF Next

\* The invariant of the extraction: whatever the segments, the BodyLengths, the
\* segments lost or sent again and what the parser makes of a mixture, the handler
\* stands where a message begins as long as it is inside the payload, and the
\* fragment of each stream, what was reported for it and the error counters agree
\* with how far the handler is in the stream (vmars_extract_fix_messages).
THEOREM Invariance == Spec => []IndInv
BY InitKeeps, NextKeeps, PTL DEF Spec

\* Every variable has its type: a message is never parsed past what the loop takes
\* for the payload, so buf_remaining never goes below 0.
THEOREM TypeCorrect == Spec => []TypeOK
<1>1. IndInv => TypeOK
  BY DEF IndInv
<1> QED
  BY <1>1, Invariance, PTL

\* buf_remaining counts the cells from the current message to the payload's end,
\* unless a message with too small a BodyLength was parsed before in the payload.
THEOREM RemainingIsExact == Spec => []RemainingExact
<1>1. IndInv => RemainingExact
  <2> SUFFICES ASSUME IndInv, curr # 0, ~Astray
               PROVE  remaining = Len(data) - curr + 1
    BY DEF RemainingExact
  <2>1. /\ curr + remaining = Len(data) + Len(beyond) + 1 /\ beyond = <<>>
        /\ curr \in Nat /\ remaining \in Nat /\ data \in Seq(Cells)
    BY DEF IndInv, TypeOK, Handling, Looping
  <2>2. Len(data) \in Nat /\ Len(beyond) = 0
    BY <2>1
  <2> QED
    BY <2>1, <2>2
<1> QED
  BY <1>1, Invariance, PTL

\* Whatever is handed to process_for_latency_measurement for a stream that came in
\* order and whose BodyLengths are right is an undamaged message of that stream,
\* unless a segment was lost or a message does not fit the fragment buffer; what the
\* other streams carry does not matter.
THEOREM NothingMadeUp == Spec => []NoPhantom
<1>1. IndInv => NoPhantom
  <2> SUFFICES ASSUME IndInv, NEW s \in Streams, Orderly(s)
               PROVE  ToSet(reported[s])
                        \subseteq (ToSet(Sent[s]) \ Damaged)
                                    \cup (IF jumps = 0 /\ AllFit(s) THEN {} ELSE {Mixture})
    BY DEF NoPhantom
  <2>1. /\ Known(s, reported[s])
        /\ jumps = 0 /\ AllFit(s) => Mixture \notin ToSet(reported[s])
    BY DEF IndInv, StreamInv, Pure
  <2>2. ToSet(reported[s]) \subseteq {Mixture} \cup (ToSet(Sent[s]) \ Damaged)
    BY <2>1 DEF Known, ToSet
  <2> QED
    BY <2>1, <2>2
<1> QED
  BY <1>1, Invariance, PTL

\* The messages of a stream that came in order and whose BodyLengths are right are
\* reported at most once and in their order, whether they were parsed in a payload
\* or in a fragment, whatever was lost and whatever the other streams carry.
THEOREM OrderAndOnce == Spec => []InOrderOnce
<1>1. IndInv => InOrderOnce
  <2> SUFFICES ASSUME IndInv, NEW s \in Streams, Orderly(s),
                      NEW i \in DOMAIN reported[s], NEW j \in DOMAIN reported[s],
                      i < j, reported[s][i] # Mixture, reported[s][j] # Mixture
               PROVE  \E a, b \in DOMAIN Sent[s] :
                        /\ a < b /\ Sent[s][a] = reported[s][i]
                        /\ Sent[s][b] = reported[s][j]
    BY DEF InOrderOnce
  <2>1. PICK rep, p : rep = reported[s] /\ InOrder(s, p, rep)
    BY DEF IndInv, StreamInv
  <2>2. PICK at \in [DOMAIN rep -> Nat] :
          \A k \in DOMAIN rep : rep[k] # Mixture =>
             /\ at[k] \in DOMAIN Sent[s] /\ Sent[s][at[k]] = rep[k] /\ EndOf(s, at[k]) <= p
             /\ \A l \in DOMAIN rep : l < k /\ rep[l] # Mixture => at[l] < at[k]
    BY <2>1 DEF InOrder
  <2>3. /\ at[i] \in DOMAIN Sent[s] /\ at[j] \in DOMAIN Sent[s] /\ at[i] < at[j]
        /\ Sent[s][at[i]] = reported[s][i] /\ Sent[s][at[j]] = reported[s][j]
    BY <2>1, <2>2
  <2> QED
    BY <2>3
<1> QED
  BY <1>1, Invariance, PTL

\* Of any stream, a message that fits, whose checksum and BodyLength are right and
\* whose pattern arrived in one piece has been reported once it has gone by, wherever
\* else it was split and whatever the BodyLengths of the others say, unless it was
\* cut in a payload in which one with too small a BodyLength begins before it.
THEOREM UncutAreReported == Spec => []UncutPatternReported
<1>1. IndInv => UncutPatternReported
  <2> SUFFICES ASSUME IndInv, pc = "idle", NEW s \in Streams,
                      NEW m \in Passed(s) \ (Damaged \cup Misstated \cup impaired),
                      FitsFragment(m)
               PROVE  m \in ToSet(reported[s])
    BY DEF UncutPatternReported
  <2>1. PICK i \in DOMAIN Sent[s] : EndOf(s, i) <= wire[s] /\ m = Sent[s][i]
    BY DEF Passed
  <2>2. Reached(s) = wire[s]
    BY IdleIs
  <2>3. Uncut(s, wire[s], fragment[s], reported[s], impaired)
    BY <2>2 DEF IndInv
  <2> QED
    BY <2>1, <2>3 DEF Uncut, Excused
<1> QED
  BY <1>1, Invariance, PTL

\* Every message that has gone by without being reported left a mark in the error
\* counters of the capture thread, for a stream whose BodyLengths are right and whose
\* messages fit behind a fragment, as long as no segment is lost or sent again.
THEOREM MissesAreCounted == Spec => []MissesCounted
<1>1. IndInv => MissesCounted
  <2> SUFFICES ASSUME IndInv, pc = "idle", jumps = 0, NEW s \in Streams, Orderly(s),
                      \A m \in ToSet(Sent[s]) : FitsBehindFragment(m)
               PROVE  Cardinality(Passed(s) \ ToSet(reported[s]))
                        <= counters.corrupt + counters.checksum + counters.parsing
    BY DEF MissesCounted
  <2>1. Pos(s) = wire[s] /\ Errors = counters.corrupt + counters.checksum + counters.parsing
    BY IdleIs DEF Errors, ErrorsOf
  <2>2. AllFitBehind(s)
    BY DEF AllFitBehind
  <2>3. PICK X, c, e :
          /\ X = Missed(s, wire[s], reported[s]) /\ c = Cardinality(X) /\ e = Errors
          /\ c + (IF GivenUp(s, wire[s], fragment[s]) THEN 1 ELSE 0) <= e
    BY <2>1, <2>2 DEF IndInv, StreamInv, Marked
  <2>4. Passed(s) \ ToSet(reported[s]) = X
    BY <2>3 DEF Passed, Missed
  <2>5. c \in Nat /\ e \in Nat
    BY <2>3, MissedIs, CountersAre DEF IndInv
  <2>6. c <= e
    BY <2>3, <2>5
  <2> QED
    BY <2>1, <2>3, <2>4, <2>6
<1> QED
  BY <1>1, Invariance, PTL

-----------------------------------------------------------------------------
(* The search.  Matcher has the loop of boyermoore_search, Search above    *)
(* says what FixExtract takes it for.                                      *)

M == INSTANCE Matcher

\* f[i] is what the loop returns that begins with the window's end at place i.
Steps(f, pattern, text) ==
  f = [i \in 1 .. Len(text) + Len(pattern) |->
         IF i > Len(text) THEN 0
         ELSE IF M!EndsAt(pattern, text, i) THEN i - Len(pattern) + 1
         ELSE f[i + M!BadMatch(pattern, text[i])]]

\* Where the matches end that the loop may find from place i on.
MatchEnds(pattern, text, i) == {e \in i .. Len(text) : M!EndsAt(pattern, text, e)}

LEMMA SearchUnfolds ==
  ASSUME NEW pattern, NEW text
  PROVE  M!Search(pattern, text) = (CHOOSE f : Steps(f, pattern, text))[Len(pattern)]
BY DEF M!Search, Steps

\* A set of naturals up to n that is not empty has a largest element.
LEMMA Largest ==
  ASSUME NEW n \in Nat, NEW T \in SUBSET (0 .. n), T # {}
  PROVE  \E x \in T : \A y \in T : y <= x
<1> DEFINE U == {n - x : x \in T}
<1>1. U \in SUBSET Nat /\ U # {}
  <2>1. \A x \in T : n - x \in Nat
    OBVIOUS
  <2>2. U \subseteq Nat
    BY <2>1
  <2>3. PICK x : x \in T
    OBVIOUS
  <2>4. n - x \in U
    BY <2>3
  <2> QED
    BY <2>2, <2>4
<1>2. PICK u \in U : \A v \in U : u <= v
  <2> HIDE DEF U
  <2> QED
    BY <1>1, Smallest
<1>3. PICK x \in T : u = n - x
  OBVIOUS
<1>4. ASSUME NEW y \in T
      PROVE  y <= x
  <2>1. n - y \in U
    OBVIOUS
  <2>2. n - x <= n - y
    BY <1>2, <1>3, <2>1
  <2>3. x \in 0 .. n /\ y \in 0 .. n
    OBVIOUS
  <2> QED
    BY <2>2, <2>3
<1> QED
  BY <1>4

\* The last place of a character is one, or there is none.
LEMMA LastPlaceIs ==
  ASSUME NEW pattern, NEW m \in Nat, m = Len(pattern), 1 <= m, NEW c
  PROVE  /\ M!LastPlace(pattern, c) \in 0 .. m - 1
         /\ \A i \in 1 .. m - 1 : pattern[i] = c => i <= M!LastPlace(pattern, c)
<1> DEFINE places == {i \in 1 .. m - 1 : pattern[i] = c}
<1>1. M!LastPlace(pattern, c) =
        IF places = {} THEN 0 ELSE CHOOSE i \in places : \A j \in places : j <= i
  BY DEF M!LastPlace
<1>2. CASE places = {}
  BY <1>1, <1>2
<1>3. CASE places # {}
  <2>1. places \in SUBSET (0 .. m)
    OBVIOUS
  <2> DEFINE x == CHOOSE i \in places : \A j \in places : j <= i
  <2>2. x \in places /\ \A j \in places : j <= x
    <3> HIDE DEF places
    <3>1. \E i \in places : \A j \in places : j <= i
      BY <1>3, <2>1, Largest
    <3> QED
      BY <3>1
  <2>3. M!LastPlace(pattern, c) = x
    BY <1>1, <1>3
  <2> HIDE DEF x
  <2> QED
    BY <2>2, <2>3
<1> QED
  BY <1>2, <1>3

\* A match is never jumped over: the table moves the window to the next place at
\* which the character it ends in can lie in the pattern.
LEMMA NothingSkipped ==
  ASSUME NEW pattern, NEW m \in Nat, m = Len(pattern), 1 <= m,
         NEW text, NEW i \in Nat, NEW step, step = M!BadMatch(pattern, text[i])
  PROVE  /\ step \in 1 .. m
         /\ \A e \in Nat : i < e /\ e < i + step => ~M!EndsAt(pattern, text, e)
<1>1. PICK last : last = M!LastPlace(pattern, text[i])
  OBVIOUS
<1>2. /\ last \in 0 .. m - 1
      /\ \A k \in 1 .. m - 1 : pattern[k] = text[i] => k <= last
  BY <1>1, LastPlaceIs
<1>3. step = m - last
  BY <1>1 DEF M!BadMatch
<1>4. ASSUME NEW e \in Nat, i < e, e < i + step, M!EndsAt(pattern, text, e)
      PROVE  FALSE
  <2>1. \A k \in 1 .. m : text[e - m + k] = pattern[k]
    BY <1>4 DEF M!EndsAt
  <2>2. PICK k : k = m - (e - i)
    OBVIOUS
  <2>3. k \in 1 .. m /\ k \in 1 .. m - 1 /\ e - m + k = i /\ last < k
    BY <1>2, <1>3, <1>4, <2>2
  <2>4. text[i] = pattern[k]
    BY <2>1, <2>3
  <2> QED
    BY <1>2, <2>3, <2>4
<1> QED
  BY <1>2, <1>3, <1>4

\* Where the first match from place i on begins, 0 for none.
FirstFrom(pattern, text, i) ==
  IF MatchEnds(pattern, text, i) = {} THEN 0
  ELSE (CHOOSE e \in MatchEnds(pattern, text, i) :
          \A x \in MatchEnds(pattern, text, i) : e <= x) - Len(pattern) + 1

LEMMA FirstFromIs ==
  ASSUME NEW pattern, NEW m \in Nat, m = Len(pattern), 1 <= m,
         NEW text, NEW n \in Nat, n = Len(text), NEW i \in Nat, 1 <= i
  PROVE  FirstFrom(pattern, text, i) =
           IF i > n THEN 0
           ELSE IF M!EndsAt(pattern, text, i) THEN i - m + 1
           ELSE FirstFrom(pattern, text, i + M!BadMatch(pattern, text[i]))
<1> DEFINE E == MatchEnds(pattern, text, i)
<1>1. E = {e \in i .. n : M!EndsAt(pattern, text, e)}
  BY DEF MatchEnds
<1>2. FirstFrom(pattern, text, i) =
        IF E = {} THEN 0 ELSE (CHOOSE e \in E : \A x \in E : e <= x) - m + 1
  BY DEF FirstFrom
<1>3. CASE i > n
  <2>1. E = {}
    BY <1>1, <1>3
  <2> QED
    BY <1>2, <1>3, <2>1
<1>4. CASE i <= n /\ M!EndsAt(pattern, text, i)
  <2>1. i \in E /\ \A x \in E : x \in Nat /\ i <= x
    BY <1>1, <1>4
  <2> DEFINE c == CHOOSE e \in E : \A x \in E : e <= x
  <2>2. c \in E /\ \A x \in E : c <= x
    <3> HIDE DEF E
    <3> QED
      BY <2>1
  <2> HIDE DEF c
  <2>3. c = i
    <3> HIDE DEF E
    <3> QED
      BY <2>1, <2>2
  <2>4. E # {} /\ ~(i > n)
    BY <1>4, <2>1
  <2> HIDE DEF E
  <2>5. FirstFrom(pattern, text, i) = c - m + 1
    BY <1>2, <2>4 DEF c
  <2> QED
    BY <1>4, <2>3, <2>4, <2>5
<1>5. CASE i <= n /\ ~M!EndsAt(pattern, text, i)
  <2>1. PICK step, k : step = M!BadMatch(pattern, text[i]) /\ k = i + step
    OBVIOUS
  <2>2. /\ step \in 1 .. m
        /\ \A e \in Nat : i < e /\ e < i + step => ~M!EndsAt(pattern, text, e)
    BY <2>1, NothingSkipped
  <2>3. \A e \in i .. n : M!EndsAt(pattern, text, e) => e \in k .. n
    <3> TAKE e \in i .. n
    <3>1. HAVE M!EndsAt(pattern, text, e)
    <3>2. e # i /\ ~(i < e /\ e < i + step)
      BY <1>5, <2>2, <3>1
    <3> QED
      BY <2>1, <2>2, <3>2
  <2>4. k \in Nat /\ i <= k
    BY <2>1, <2>2
  <2>5. E = MatchEnds(pattern, text, k)
    BY <1>1, <2>3, <2>4 DEF MatchEnds
  <2>6. FirstFrom(pattern, text, i) = FirstFrom(pattern, text, k)
    BY <2>5 DEF FirstFrom
  <2> QED
    BY <1>5, <2>1, <2>6
<1> QED
  BY <1>3, <1>4, <1>5

\* The loop exists and finds the first match from where it begins.
LEMMA StepsAre ==
  ASSUME NEW pattern, NEW m \in Nat, m = Len(pattern), 1 <= m,
         NEW text, NEW n \in Nat, n = Len(text)
  PROVE  /\ \E f : Steps(f, pattern, text)
         /\ \A f : Steps(f, pattern, text) =>
              \A i \in 1 .. n + m : f[i] = FirstFrom(pattern, text, i)
<1> DEFINE g == [i \in 1 .. n + m |-> FirstFrom(pattern, text, i)]
<1>1. \A i \in 1 .. n + m : i <= n => /\ M!BadMatch(pattern, text[i]) \in 1 .. m
                                      /\ i + M!BadMatch(pattern, text[i]) \in 1 .. n + m
  <2> TAKE i \in 1 .. n + m
  <2>1. M!BadMatch(pattern, text[i]) \in 1 .. m
    BY NothingSkipped
  <2> QED
    BY <2>1
<1>2. \A i \in 1 .. n + m :
        FirstFrom(pattern, text, i) =
           IF i > n THEN 0
           ELSE IF M!EndsAt(pattern, text, i) THEN i - m + 1
           ELSE FirstFrom(pattern, text, i + M!BadMatch(pattern, text[i]))
  BY FirstFromIs
<1>3. Steps(g, pattern, text)
  <2>1. \A i \in 1 .. n + m :
          g[i] = IF i > n THEN 0
                 ELSE IF M!EndsAt(pattern, text, i) THEN i - m + 1
                 ELSE g[i + M!BadMatch(pattern, text[i])]
    BY <1>1, <1>2
  <2>2. g = [i \in 1 .. n + m |->
               IF i > n THEN 0
               ELSE IF M!EndsAt(pattern, text, i) THEN i - m + 1
               ELSE g[i + M!BadMatch(pattern, text[i])]]
    BY <2>1
  <2> HIDE DEF g
  <2> QED
    BY <2>2 DEF Steps
<1>4. ASSUME NEW f, Steps(f, pattern, text)
      PROVE  \A i \in 1 .. n + m : f[i] = FirstFrom(pattern, text, i)
  <2>1. \A i \in 1 .. n + m :
          f[i] = IF i > n THEN 0
                 ELSE IF M!EndsAt(pattern, text, i) THEN i - m + 1
                 ELSE f[i + M!BadMatch(pattern, text[i])]
    BY <1>4 DEF Steps
  <2> DEFINE T == {i \in 1 .. n + m : f[i] # FirstFrom(pattern, text, i)}
  <2>2. SUFFICES ASSUME T # {} PROVE FALSE
    OBVIOUS
  <2>3. PICK i \in T : \A y \in T : y <= i
    <3>1. T \in SUBSET (0 .. n + m) /\ n + m \in Nat
      OBVIOUS
    <3> HIDE DEF T
    <3> QED
      BY <2>2, <3>1, Largest
  <2>4. i \in 1 .. n + m /\ f[i] # FirstFrom(pattern, text, i)
    BY <2>3
  <2>5. i <= n /\ ~M!EndsAt(pattern, text, i)
    BY <1>2, <2>1, <2>4
  <2>6. PICK k : k = i + M!BadMatch(pattern, text[i])
    OBVIOUS
  <2>7. k \in 1 .. n + m /\ i < k
    BY <1>1, <2>4, <2>5, <2>6
  <2>8. k \notin T
    <3> HIDE DEF T
    <3> QED
      BY <2>3, <2>4, <2>7
  <2>9. f[k] = FirstFrom(pattern, text, k)
    BY <2>7, <2>8
  <2> QED
    BY <1>2, <2>1, <2>4, <2>5, <2>6, <2>9
<1> QED
  BY <1>3, <1>4

\* boyermoore_search returns the first occurrence of the pattern, for every
\* pattern that is not empty and every text.
THEOREM FirstFound ==
  ASSUME NEW pattern, Len(pattern) \in Nat \ {0}, NEW text, Len(text) \in Nat
  PROVE  M!Search(pattern, text) = M!FirstOccurrence(pattern, text)
<1>0. PICK m, n : m = Len(pattern) /\ n = Len(text)
  OBVIOUS
<1>1. m \in Nat /\ 1 <= m /\ n \in Nat /\ m \in 1 .. n + m
  BY <1>0
<1>2. M!Search(pattern, text) = FirstFrom(pattern, text, m)
  <2>1. PICK f : f = CHOOSE h : Steps(h, pattern, text)
    OBVIOUS
  <2>2. \E h : Steps(h, pattern, text)
    BY <1>0, <1>1, StepsAre
  <2>3. Steps(f, pattern, text)
    BY <2>1, <2>2, Zenon
  <2>4. \A i \in 1 .. n + m : f[i] = FirstFrom(pattern, text, i)
    BY <1>0, <1>1, <2>3, StepsAre
  <2>5. M!Search(pattern, text) = f[m]
    BY <1>0, <2>1, SearchUnfolds, Zenon
  <2> QED
    BY <1>1, <2>4, <2>5
<1> DEFINE starts == {i \in 1 .. n - m + 1 : M!EndsAt(pattern, text, i + m - 1)}
           E == {e \in m .. n : M!EndsAt(pattern, text, e)}
<1>3. M!FirstOccurrence(pattern, text) =
        IF starts = {} THEN 0 ELSE CHOOSE i \in starts : \A j \in starts : i <= j
  BY <1>0 DEF M!FirstOccurrence
<1>4. FirstFrom(pattern, text, m) =
        IF E = {} THEN 0 ELSE (CHOOSE e \in E : \A x \in E : e <= x) - m + 1
  <2>1. MatchEnds(pattern, text, m) = E
    BY <1>0 DEF MatchEnds
  <2> HIDE DEF E
  <2> QED
    BY <1>0, <2>1 DEF FirstFrom
<1>5. /\ \A e \in E : e \in Nat /\ m <= e /\ e - m + 1 \in starts
      /\ \A i \in starts : i \in Nat /\ 1 <= i /\ i + m - 1 \in E
  <2>1. \A e \in E : e \in Nat /\ m <= e /\ e - m + 1 \in starts
    <3> TAKE e \in E
    <3>1. /\ e \in Nat /\ m <= e /\ e - m + 1 \in 1 .. n - m + 1 /\ (e - m + 1) + m - 1 = e
      BY <1>1
    <3> QED
      BY <3>1
  <2>2. \A i \in starts : i \in Nat /\ 1 <= i /\ i + m - 1 \in E
    BY <1>1
  <2> QED
    BY <2>1, <2>2
<1> HIDE DEF starts, E
<1>6. CASE E = {}
  <2>1. starts = {}
    BY <1>5, <1>6
  <2> QED
    BY <1>2, <1>3, <1>4, <1>6, <2>1
<1>7. CASE E # {}
  <2>1. PICK a : a = CHOOSE e \in E : \A x \in E : e <= x
    OBVIOUS
  <2>2. PICK b : b = CHOOSE i \in starts : \A j \in starts : i <= j
    OBVIOUS
  <2>3. E \in SUBSET Nat /\ starts \in SUBSET Nat /\ starts # {}
    BY <1>5, <1>7
  <2>4. a \in E /\ \A x \in E : a <= x
    <3>1. \E e \in E : \A x \in E : e <= x
      BY <1>7, <2>3, Smallest
    <3> QED
      BY <2>1, <3>1
  <2>5. b \in starts /\ \A j \in starts : b <= j
    <3>1. \E i \in starts : \A j \in starts : i <= j
      BY <2>3, Smallest
    <3> QED
      BY <2>2, <3>1
  <2>6. a - m + 1 \in starts /\ b + m - 1 \in E /\ a \in Nat /\ b \in Nat
    BY <1>5, <2>4, <2>5
  <2>7. b <= a - m + 1 /\ a <= b + m - 1
    BY <2>4, <2>5, <2>6
  <2>8. a - m + 1 = b
    BY <1>1, <2>6, <2>7
  <2> QED
    BY <1>2, <1>3, <1>4, <1>7, <2>1, <2>2, <2>3, <2>8
<1> QED
  BY <1>6, <1>7

\* The pattern the matcher of fix.c is made for.
Pattern == [k \in 1 .. PatternLen |-> CellOf(0, k)]

\* What FixExtract takes boyermoore_search for is what the loop computes, in every
\* part from .. to of a payload.
THEOREM SearchIsTheLoop ==
  ASSUME NEW T, NEW d \in Seq(T), NEW from \in Nat, 1 <= from,
         NEW to \in Nat, to <= Len(d), from <= to + 1
  PROVE  Search(d, from, to) =
           LET found == M!Search(Pattern, SubSeq(d, from, to))
           IN  IF found = 0 THEN 0 ELSE from + found - 1
<1>0. PICK m, n, text :
        m = PatternLen /\ n = to - from + 1 /\ text = SubSeq(d, from, to)
  OBVIOUS
<1>1. /\ m \in Nat /\ 1 <= m /\ n \in Nat /\ Len(text) = n
      /\ \A j \in 1 .. n : text[j] = d[from + j - 1]
  <2>1. m \in Nat /\ 1 <= m /\ n \in Nat
    BY <1>0, LengthsAre
  <2>2. \A i \in from .. to : d[i] \in T
    OBVIOUS
  <2>3. from \in Int /\ to \in Int
    OBVIOUS
  <2>4. /\ Len(SubSeq(d, from, to)) = IF from <= to THEN to - from + 1 ELSE 0
        /\ \A i \in 1 .. to - from + 1 : SubSeq(d, from, to)[i] = d[from + i - 1]
    BY ONLY <2>2, <2>3, SubSeqProperties
  <2> QED
    BY <1>0, <2>1, <2>4
<1>2. Len(Pattern) = m /\ \A k \in 1 .. m : Pattern[k] = CellOf(0, k)
  BY <1>0, <1>1 DEF Pattern
<1>3. M!Search(Pattern, text) = M!FirstOccurrence(Pattern, text)
  BY <1>1, <1>2, FirstFound
<1> DEFINE starts == {i \in 1 .. n - m + 1 : M!EndsAt(Pattern, text, i + m - 1)}
           matches == {p \in from .. to - m + 1 :
                         \A k \in 1 .. m : d[p + k - 1] = CellOf(0, k)}
<1>4. M!FirstOccurrence(Pattern, text) =
        IF starts = {} THEN 0 ELSE CHOOSE i \in starts : \A j \in starts : i <= j
  BY <1>1, <1>2 DEF M!FirstOccurrence
<1>5. Search(d, from, to) =
        IF matches = {} THEN 0 ELSE CHOOSE p \in matches : \A q \in matches : p <= q
  BY <1>0 DEF Search
<1>6. \A i \in 1 .. n - m + 1 :
        /\ from + i - 1 \in from .. to - m + 1
        /\ i \in starts <=> from + i - 1 \in matches
  <2> TAKE i \in 1 .. n - m + 1
  <2>1. from + i - 1 \in from .. to - m + 1
    BY <1>0, <1>1
  <2>2. \A k \in 1 .. m : /\ (i + m - 1) - m + k = i + k - 1 /\ i + k - 1 \in 1 .. n
                          /\ from + (i + k - 1) - 1 = (from + i - 1) + k - 1
    BY <1>0, <1>1
  <2>3. \A k \in 1 .. m : text[(i + m - 1) - m + k] = d[(from + i - 1) + k - 1]
    BY <1>1, <2>2
  <2>4. M!EndsAt(Pattern, text, i + m - 1)
          <=> \A k \in 1 .. m : text[(i + m - 1) - m + k] = Pattern[k]
    BY <1>2 DEF M!EndsAt
  <2>5. M!EndsAt(Pattern, text, i + m - 1)
          <=> \A k \in 1 .. m : d[(from + i - 1) + k - 1] = CellOf(0, k)
    BY <1>2, <2>3, <2>4
  <2> QED
    BY <2>1, <2>5
<1>7. \A p \in matches : p \in Nat /\ p - from + 1 \in starts
  <2> TAKE p \in matches
  <2>1. p \in from .. to - m + 1
    OBVIOUS
  <2>2. PICK i : i = p - from + 1
    OBVIOUS
  <2>3. i \in 1 .. n - m + 1 /\ from + i - 1 = p /\ p \in Nat
    BY <1>0, <1>1, <2>1, <2>2
  <2> HIDE DEF starts, matches
  <2>4. i \in starts
    BY <1>6, <2>3
  <2> QED
    BY <2>2, <2>3, <2>4
<1>8. \A i \in starts : i \in Nat /\ 1 <= i /\ from + i - 1 \in matches
  BY <1>6
<1> HIDE DEF starts, matches
<1>9. CASE matches = {}
  <2>1. starts = {}
    BY <1>8, <1>9
  <2> QED
    BY <1>0, <1>3, <1>4, <1>5, <1>9, <2>1
<1>10. CASE matches # {}
  <2>1. PICK a : a = CHOOSE p \in matches : \A q \in matches : p <= q
    OBVIOUS
  <2>2. PICK b : b = CHOOSE i \in starts : \A j \in starts : i <= j
    OBVIOUS
  <2>3. matches \in SUBSET Nat /\ starts \in SUBSET Nat /\ starts # {}
    BY <1>7, <1>8, <1>10
  <2>4. a \in matches /\ \A q \in matches : a <= q
    <3>1. \E p \in matches : \A q \in matches : p <= q
      BY <1>10, <2>3, Smallest
    <3> QED
      BY <2>1, <3>1
  <2>5. b \in starts /\ \A j \in starts : b <= j
    <3>1. \E i \in starts : \A j \in starts : i <= j
      BY <2>3, Smallest
    <3> QED
      BY <2>2, <3>1
  <2>6. /\ a - from + 1 \in starts /\ from + b - 1 \in matches /\ a \in Nat /\ b \in Nat
        /\ 1 <= b
    BY <1>7, <1>8, <2>4, <2>5
  <2>7. b <= a - from + 1 /\ a <= from + b - 1
    BY <2>4, <2>5, <2>6
  <2>8. a = from + b - 1 /\ b # 0
    BY <2>6, <2>7
  <2>9. M!Search(Pattern, text) = b /\ Search(d, from, to) = a
    BY <1>3, <1>4, <1>5, <1>10, <2>1, <2>2, <2>3
  <2> QED
    BY <1>0, <2>8, <2>9
<1> QED
  BY <1>9, <1>10

=============================================================================
