------------------------ MODULE LatencyHandlerProofs ------------------------
(***************************************************************************)
(* Proofs about LatencyHandler, for any number of rings, conversations and *)
(* messages, any capacity, poll limit and clocks.                          *)
(*                                                                         *)
(* First the data: what the fold over the fields of a message yields, and  *)
(* from it the type and the key of each summary.  Two summaries of one     *)
(* kind of conversation share a key only when the conversation is the      *)
(* same, because no name contains the bar (KeysDiffer).                    *)
(*                                                                         *)
(* Then the inductive invariant IndInv: the order of a conversation's      *)
(* messages on the wire, the order of the summaries in and after each      *)
(* ring, the one place of each summary released, the turns of the rings,   *)
(* and the strict alternation of a conversation that one thread captures   *)
(* whole.  Every safety property of LatencyHandler follows from it.        *)
(***************************************************************************)
EXTENDS LatencyHandler, FiniteSetTheorems, SequenceTheorems, TLAPS

-----------------------------------------------------------------------------
(* Induction is stated with a set: the principles of the library are       *)
(* stated with an operator and cannot be instantiated by the provers.      *)

\* A set of naturals that is not empty has a smallest element.
LEMMA Smallest ==
  ASSUME NEW T \in SUBSET Nat, T # {}
  PROVE  \E x \in T : \A y \in T : x <= y
<1> DEFINE R == OpToRel(<, Nat)
<1>1. IsWellFoundedOn(R, Nat)
  BY NatLessThanWellFounded
<1>2. \A x, y \in Nat : x < y => <<x, y>> \in R
  BY Zenon DEF OpToRel
<1> HIDE DEF R
<1>3. \E x \in T : \A y \in T : ~(<<y, x>> \in R)
  BY <1>1, WFMin
<1>4. PICK x \in T : \A y \in T : ~(<<y, x>> \in R)
  BY <1>3
<1>5. \A y \in T : ~(y < x)
  BY <1>2, <1>4
<1> QED
  BY <1>4, <1>5

\* A set of numbers up to n that is not empty has a greatest element.
LEMMA Greatest ==
  ASSUME NEW n \in Nat, NEW T \in SUBSET (0 .. n), T # {}
  PROVE  \E x \in T : \A y \in T : y <= x
<1> DEFINE U == {k \in 0 .. n : n - k \in T}
<1>1. PICK t \in T : TRUE
  OBVIOUS
<1>2. n - t \in U /\ U \in SUBSET Nat
  OBVIOUS
<1> HIDE DEF U
<1>3. PICK k \in U : \A j \in U : k <= j
  BY <1>2, Smallest
<1>4. \A y \in T : n - y \in U
  BY DEF U
<1>5. k \in 0 .. n /\ n - k \in T
  BY DEF U
<1> QED
  BY <1>3, <1>4, <1>5

\* A set that has 0 and with each number the next one has all numbers.
LEMMA NatSetInduction ==
  ASSUME NEW S, 0 \in S, \A n \in Nat : n \in S => n + 1 \in S
  PROVE  Nat \subseteq S
<1>1. SUFFICES ASSUME Nat \ S # {} PROVE FALSE
  OBVIOUS
<1>2. PICK x \in Nat \ S : \A y \in Nat \ S : x <= y
  BY <1>1, Smallest
<1>3. x - 1 \in Nat /\ (x - 1) + 1 = x
  BY <1>2
<1>4. x - 1 \in S
  BY <1>2, <1>3
<1> QED
  BY <1>2, <1>3, <1>4

-----------------------------------------------------------------------------
(* The summaries of a conversation's messages.  Details is a fold, the     *)
(* value at the whole sequence of a function over the sets of its places   *)
(* that is chosen because it satisfies an equation.                        *)

Handled1(g, fields, s) ==
  IF s = {} THEN NoDetails ELSE HandleTag(g[s \ {Max(s)}], fields[Max(s)])

Handles(g, fields) == g = [s \in SUBSET (DOMAIN fields) |-> Handled1(g, fields, s)]

LEMMA DetailsIs ==
  ASSUME NEW fields
  PROVE  Details(fields) = (CHOOSE g : Handles(g, fields))[DOMAIN fields]
BY DEF Details, FoldLeft, MapThenFoldSet, Handles, Handled1

LEMMA MaxOfInterval ==
  ASSUME NEW n \in Nat, n # 0
  PROVE  /\ Max(1 .. n) = n /\ 1 .. n # {}
         /\ (1 .. n) \ {n} = 1 .. n - 1
BY DEF Max

LEMMA MaxIn ==
  ASSUME NEW n \in Nat, NEW s \in SUBSET (1 .. n), s # {}
  PROVE  Max(s) \in s
<1>1. s \in SUBSET (0 .. n)
  OBVIOUS
<1>2. \E x \in s : \A y \in s : x >= y
  BY <1>1, Greatest
<1> QED
  BY <1>2 DEF Max

LEMMA HandlesExists ==
  ASSUME NEW n \in Nat, NEW fields, DOMAIN fields = 1 .. n
  PROVE  \E g : Handles(g, fields)
<1> DEFINE S == 1 .. n
           Upto(k) == {s \in SUBSET S : Cardinality(s) <= k}
           Good(g, k) == g = [s \in Upto(k) |-> Handled1(g, fields, s)]
           Q == {k \in Nat : \E g : Good(g, k)}
<1>1. IsFiniteSet(S) /\ \A s \in SUBSET S : IsFiniteSet(s) /\ Cardinality(s) \in Nat
  <2>1. IsFiniteSet(S)
    BY FS_Interval
  <2> HIDE DEF S
  <2> QED
    BY <2>1, FS_Subset, FS_CardinalityType
<1>2. \A s \in SUBSET S : s # {} =>
         /\ s \ {Max(s)} \in SUBSET S
         /\ Cardinality(s \ {Max(s)}) = Cardinality(s) - 1
  BY <1>1, MaxIn, FS_RemoveElement
<1>3. 0 \in Q
  <2> DEFINE g == [s \in Upto(0) |-> NoDetails]
  <2>1. \A s \in Upto(0) : s = {}
    BY <1>1, FS_EmptySet
  <2>2. Good(g, 0)
    BY <2>1 DEF Handled1
  <2> QED
    BY <2>2
<1>4. ASSUME NEW k \in Nat, k \in Q
      PROVE  k + 1 \in Q
  <2>1. PICK g : Good(g, k)
    BY <1>4
  <2> DEFINE h == [s \in Upto(k + 1) |-> Handled1(g, fields, s)]
  <2>2. \A s \in Upto(k + 1) : s # {} => s \ {Max(s)} \in Upto(k)
    BY <1>1, <1>2, SMTT(20)
  <2>3. \A s \in Upto(k) : s \in Upto(k + 1) /\ g[s] = Handled1(g, fields, s)
    BY <1>1, <2>1
  <2>4. \A s \in Upto(k) : h[s] = g[s]
    BY <2>3
  <2>5. \A s \in Upto(k + 1) : Handled1(h, fields, s) = Handled1(g, fields, s)
    <3> HIDE DEF h, Good
    <3> QED
      BY <2>2, <2>4 DEF Handled1
  <2>6. h = [s \in Upto(k + 1) |-> Handled1(h, fields, s)]
    BY <2>5
  <2>7. \E f : Good(f, k + 1)
    <3> HIDE DEF h
    <3> QED
      BY <2>6
  <2> HIDE DEF Good
  <2> QED
    BY <2>7
<1>5. Nat \subseteq Q
  <2> HIDE DEF Q
  <2> QED
    BY <1>3, <1>4, NatSetInduction
<1>6. Cardinality(S) \in Nat /\ Upto(Cardinality(S)) = SUBSET S
  BY <1>1, FS_CardinalityType, FS_Subset
<1>7. PICK g : Good(g, Cardinality(S))
  BY <1>5, <1>6
<1>8. Handles(g, fields)
  BY <1>6, <1>7 DEF Handles
<1> QED
  BY <1>8

\* The details after each field.
LEMMA DetailsSteps ==
  ASSUME NEW n \in Nat, NEW fields, DOMAIN fields = 1 .. n
  PROVE  \E d : /\ d[0] = NoDetails
                /\ \A k \in 1 .. n : d[k] = HandleTag(d[k - 1], fields[k])
                /\ Details(fields) = d[n]
<1> DEFINE g == CHOOSE h : Handles(h, fields)
           d == [k \in 0 .. n |-> g[1 .. k]]
<1>1. Handles(g, fields)
  BY HandlesExists
<1> HIDE DEF g
<1>2. d[0] = NoDetails
  BY <1>1 DEF Handles, Handled1
<1>3. ASSUME NEW k \in 1 .. n
      PROVE  d[k] = HandleTag(d[k - 1], fields[k])
  <2>1. g[1 .. k] = Handled1(g, fields, 1 .. k)
    BY <1>1 DEF Handles
  <2>2. Max(1 .. k) = k /\ 1 .. k # {} /\ (1 .. k) \ {k} = 1 .. k - 1
    <3>1. k \in Nat /\ k # 0
      OBVIOUS
    <3> QED
      BY ONLY <3>1, MaxOfInterval
  <2>3. g[1 .. k] = HandleTag(g[1 .. k - 1], fields[k])
    BY <2>1, <2>2 DEF Handled1
  <2> QED
    BY <2>3
<1>4. Details(fields) = d[n]
  BY DetailsIs DEF g
<1> QED
  BY <1>2, <1>3, <1>4

\* fix_details_t, its members in order.
Record8(type, exec, status, id, sender, target, symbol, security) ==
  [type |-> type, exec |-> exec, status |-> status, id |-> id, sender |-> sender,
   target |-> target, symbol |-> symbol, security |-> security]

LEMMA HandleEach ==
  ASSUME NEW t, NEW e, NEW st, NEW i, NEW s, NEW r, NEW y, NEW c, NEW v
  PROVE
    /\ Len(v) \in {1, 2} =>
         HandleTag(Record8(t, e, st, i, s, r, y, c), Field(MsgType, v))
           = Record8(v, e, st, i, s, r, y, c)
    /\ HandleTag(Record8(t, e, st, i, s, r, y, c), Field(ExecType, v))
         = Record8(t, SubSeq(v, 1, 1), st, i, s, r, y, c)
    /\ HandleTag(Record8(t, e, st, i, s, r, y, c), Field(QuoteStatus, v))
         = Record8(t, e, StrToInt(v), i, s, r, y, c)
    /\ HandleTag(Record8(t, e, st, i, s, r, y, c), Field(ClOrdID, v))
         = Record8(t, e, st, v, s, r, y, c)
    /\ HandleTag(Record8(t, e, st, i, s, r, y, c), Field(QuoteID, v))
         = Record8(t, e, st, v, s, r, y, c)
    /\ HandleTag(Record8(t, e, st, i, s, r, y, c), Field(SenderCompID, v))
         = Record8(t, e, st, i, v, r, y, c)
    /\ HandleTag(Record8(t, e, st, i, s, r, y, c), Field(TargetCompID, v))
         = Record8(t, e, st, i, s, v, y, c)
    /\ HandleTag(Record8(t, e, st, i, s, r, y, c), Field(Symbol, v))
         = Record8(t, e, st, i, s, r, v, c)
    /\ HandleTag(Record8(t, e, st, i, s, r, y, c), Field(UnderlyingSymbol, v))
         = Record8(t, e, st, i, s, r, v, c)
    /\ HandleTag(Record8(t, e, st, i, s, r, y, c), Field(SecurityID, v))
         = Record8(t, e, st, i, s, r, y, v)
    /\ HandleTag(Record8(t, e, st, i, s, r, y, c), Field(UnderlyingSecurityID, v))
         = Record8(t, e, st, i, s, r, y, v)
BY DEF HandleTag, Record8, Field, MsgType, ExecType, QuoteStatus, ClOrdID, QuoteID,
       SenderCompID, TargetCompID, Symbol, UnderlyingSymbol, SecurityID, UnderlyingSecurityID

\* The fields of a message: one or two, then the parties, then the subject.
FieldsOf(c, role) ==
  TypeAndStatus(About[c].kind, role) \o Parties(About[c], role) \o Subject(About[c])

LEMMA TwoParts ==
  ASSUME NEW S, NEW p \in Seq(S), NEW q \in Seq(S)
  PROVE  /\ p \o q \in Seq(S) /\ Len(p) \in Nat /\ Len(p \o q) = Len(p) + Len(q)
         /\ \A i \in 1 .. Len(p) : (p \o q)[i] = p[i]
         /\ \A i \in 1 .. Len(q) : (p \o q)[Len(p) + i] = q[i]
<1>1. p \o q \in Seq(S) /\ Len(p \o q) = Len(p) + Len(q)
  BY ConcatProperties
<1>2. Len(p) \in Nat /\ Len(q) \in Nat
  BY LenProperties
<1>3. \A i \in 1 .. Len(p) + Len(q) :
         (p \o q)[i] = IF i <= Len(p) THEN p[i] ELSE q[i - Len(p)]
  BY ConcatProperties
<1>4. ASSUME NEW i \in 1 .. Len(q)
      PROVE  (p \o q)[Len(p) + i] = q[i]
  <2>1. /\ Len(p) + i \in 1 .. Len(p) + Len(q)
        /\ ~(Len(p) + i <= Len(p)) /\ (Len(p) + i) - Len(p) = i
    BY <1>2
  <2> QED
    BY <1>3, <2>1
<1> QED
  BY <1>1, <1>2, <1>3, <1>4

LEMMA ThreeParts ==
  ASSUME NEW S, NEW p \in Seq(S), NEW q \in Seq(S), NEW r \in Seq(S),
         Len(q) = 2, Len(r) = 3
  PROVE  LET f == p \o q \o r
             n == Len(p)
         IN  /\ DOMAIN f = 1 .. n + 5 /\ n \in Nat
             /\ \A i \in 1 .. n : f[i] = p[i]
             /\ f[n + 1] = q[1] /\ f[n + 2] = q[2]
             /\ f[n + 3] = r[1] /\ f[n + 4] = r[2] /\ f[n + 5] = r[3]
<1> DEFINE h == p \o q
           f == h \o r
           n == Len(p)
<1>1. /\ h \in Seq(S) /\ n \in Nat /\ Len(h) = n + 2
      /\ \A i \in 1 .. n : h[i] = p[i]
      /\ \A i \in 1 .. 2 : h[n + i] = q[i]
  <2>1. /\ h \in Seq(S) /\ n \in Nat /\ Len(h) = n + Len(q)
        /\ \A i \in 1 .. n : h[i] = p[i]
        /\ \A i \in 1 .. Len(q) : h[n + i] = q[i]
    BY TwoParts
  <2> QED
    BY <2>1
<1> HIDE DEF h, n
<1>2. /\ f \in Seq(S) /\ Len(f) = Len(h) + 3
      /\ \A i \in 1 .. Len(h) : f[i] = h[i]
      /\ \A i \in 1 .. 3 : f[Len(h) + i] = r[i]
  <2>1. /\ f \in Seq(S) /\ Len(f) = Len(h) + Len(r)
        /\ \A i \in 1 .. Len(h) : f[i] = h[i]
        /\ \A i \in 1 .. Len(r) : f[Len(h) + i] = r[i]
    <3>1. h \in Seq(S) /\ r \in Seq(S)
      BY <1>1
    <3> QED
      BY ONLY <3>1, TwoParts
  <2> QED
    BY <2>1
<1> HIDE DEF f
<1>3. DOMAIN f = 1 .. n + 5
  BY <1>1, <1>2, LenProperties
<1>4. \A i \in 1 .. n : f[i] = p[i]
  BY <1>1, <1>2
<1>5. \A i \in 1 .. 2 : n + i \in 1 .. Len(h) /\ f[n + i] = q[i]
  BY <1>1, <1>2
<1>6. f[(n + 2) + 1] = r[1] /\ f[(n + 2) + 2] = r[2] /\ f[(n + 2) + 3] = r[3]
  BY <1>1, <1>2
<1>7. (n + 2) + 1 = n + 3 /\ (n + 2) + 2 = n + 4 /\ (n + 2) + 3 = n + 5
  BY <1>1
<1> QED
  BY <1>1, <1>3, <1>4, <1>5, <1>6, <1>7 DEF f, h, n

Sender(c, role) == IF role = "request" THEN About[c].client ELSE About[c].server
Target(c, role) == IF role = "request" THEN About[c].server ELSE About[c].client

\* The last five fields, whatever the first one or two left.
LEMMA LastFive ==
  ASSUME NEW c \in Conversations, NEW role \in Roles, NEW S,
         NEW p \in Seq(S), p = TypeAndStatus(About[c].kind, role),
         Parties(About[c], role) \in Seq(S), Subject(About[c]) \in Seq(S)
  PROVE  /\ Len(p) \in Nat
         /\ \E d : /\ d[0] = NoDetails
                   /\ \A k \in 1 .. Len(p) : d[k] = HandleTag(d[k - 1], p[k])
                   /\ \A t, e, st :
                        d[Len(p)] = Record8(t, e, st, <<>>, <<>>, <<>>, <<>>, <<>>) =>
                          Details(FieldsOf(c, role))
                            = Record8(t, e, st, About[c].id, Sender(c, role), Target(c, role),
                                      About[c].symbol, About[c].security)
<1> DEFINE a == About[c]
           q == Parties(a, role)
           r == Subject(a)
           f == FieldsOf(c, role)
           n == Len(p)
<1>1. /\ Len(q) = 2
      /\ q[1] = Field(SenderCompID, Sender(c, role))
      /\ q[2] = Field(TargetCompID, Target(c, role))
  BY DEF Parties, Sender, Target
<1>2. /\ Len(r) = 3
      /\ \/ /\ r[1] = Field(ClOrdID, a.id) /\ r[2] = Field(SecurityID, a.security)
            /\ r[3] = Field(Symbol, a.symbol)
         \/ /\ r[1] = Field(QuoteID, a.id) /\ r[2] = Field(UnderlyingSymbol, a.symbol)
            /\ r[3] = Field(UnderlyingSecurityID, a.security)
  BY DEF Subject
<1>3. /\ DOMAIN f = 1 .. n + 5 /\ n \in Nat
      /\ \A i \in 1 .. n : f[i] = p[i]
      /\ f[n + 1] = q[1] /\ f[n + 2] = q[2]
      /\ f[n + 3] = r[1] /\ f[n + 4] = r[2] /\ f[n + 5] = r[3]
  <2>1. f = p \o q \o r /\ q \in Seq(S) /\ r \in Seq(S)
    BY DEF FieldsOf
  <2>2. Len(q) = 2 /\ Len(r) = 3
    BY <1>1, <1>2
  <2> HIDE DEF f, q, r, n
  <2>3. LET g == p \o q \o r
        IN  /\ DOMAIN g = 1 .. Len(p) + 5 /\ Len(p) \in Nat
            /\ \A i \in 1 .. Len(p) : g[i] = p[i]
            /\ g[Len(p) + 1] = q[1] /\ g[Len(p) + 2] = q[2]
            /\ g[Len(p) + 3] = r[1] /\ g[Len(p) + 4] = r[2] /\ g[Len(p) + 5] = r[3]
    <3>1. q \in Seq(S) /\ r \in Seq(S)
      BY <2>1
    <3> QED
      BY ONLY p \in Seq(S), <2>2, <3>1, ThreeParts, SMTT(20)
  <2> QED
    BY ONLY <2>1, <2>3, Zenon DEF n
<1> HIDE DEF q, r, f, n
<1>4. PICK d : /\ d[0] = NoDetails
               /\ \A k \in 1 .. n + 5 : d[k] = HandleTag(d[k - 1], f[k])
               /\ Details(f) = d[n + 5]
  <2>1. n + 5 \in Nat
    BY <1>3
  <2> QED
    BY <1>3, <2>1, DetailsSteps
<1>5. /\ d[n + 1] = HandleTag(d[n], q[1]) /\ d[n + 2] = HandleTag(d[n + 1], q[2])
      /\ d[n + 3] = HandleTag(d[n + 2], r[1]) /\ d[n + 4] = HandleTag(d[n + 3], r[2])
      /\ d[n + 5] = HandleTag(d[n + 4], r[3])
  BY <1>3, <1>4
<1>6. ASSUME NEW t, NEW e, NEW st,
             d[n] = Record8(t, e, st, <<>>, <<>>, <<>>, <<>>, <<>>)
      PROVE  d[n + 5] = Record8(t, e, st, a.id, Sender(c, role), Target(c, role),
                                a.symbol, a.security)
  <2> DEFINE s == Sender(c, role)
             g == Target(c, role)
  <2>1. d[n + 1] = Record8(t, e, st, <<>>, s, <<>>, <<>>, <<>>)
    <3>1. d[n + 1] = HandleTag(Record8(t, e, st, <<>>, <<>>, <<>>, <<>>, <<>>),
                              Field(SenderCompID, s))
      BY <1>1, <1>5, <1>6
    <3> QED
      BY <3>1, HandleEach
  <2>2. d[n + 2] = Record8(t, e, st, <<>>, s, g, <<>>, <<>>)
    <3>1. d[n + 2] = HandleTag(Record8(t, e, st, <<>>, s, <<>>, <<>>, <<>>),
                              Field(TargetCompID, g))
      BY <1>1, <1>5, <2>1
    <3> QED
      BY ONLY <3>1, HandleEach
  <2>3. d[n + 3] = Record8(t, e, st, a.id, s, g, <<>>, <<>>)
    <3>1. \E tag \in {ClOrdID, QuoteID} :
             d[n + 3] = HandleTag(Record8(t, e, st, <<>>, s, g, <<>>, <<>>),
                                  Field(tag, a.id))
      BY <1>2, <1>5, <2>2
    <3> QED
      BY <3>1, HandleEach
  <2>4. CASE r[2] = Field(SecurityID, a.security) /\ r[3] = Field(Symbol, a.symbol)
    <3>1. d[n + 4] = Record8(t, e, st, a.id, s, g, <<>>, a.security)
      <4>1. d[n + 4] = HandleTag(Record8(t, e, st, a.id, s, g, <<>>, <<>>),
                                Field(SecurityID, a.security))
        BY <1>5, <2>3, <2>4
      <4> QED
        BY <4>1, HandleEach
    <3>2. d[n + 5] = Record8(t, e, st, a.id, s, g, a.symbol, a.security)
      <4>1. d[n + 5] = HandleTag(Record8(t, e, st, a.id, s, g, <<>>, a.security),
                                Field(Symbol, a.symbol))
        BY <1>5, <2>4, <3>1
      <4> QED
        BY <4>1, HandleEach
    <3> QED
      BY <3>2
  <2>5. CASE /\ r[2] = Field(UnderlyingSymbol, a.symbol)
             /\ r[3] = Field(UnderlyingSecurityID, a.security)
    <3>1. d[n + 4] = Record8(t, e, st, a.id, s, g, a.symbol, <<>>)
      <4>1. d[n + 4] = HandleTag(Record8(t, e, st, a.id, s, g, <<>>, <<>>),
                                Field(UnderlyingSymbol, a.symbol))
        BY <1>5, <2>3, <2>5
      <4> QED
        BY <4>1, HandleEach
    <3>2. d[n + 5] = Record8(t, e, st, a.id, s, g, a.symbol, a.security)
      <4>1. d[n + 5] = HandleTag(Record8(t, e, st, a.id, s, g, a.symbol, <<>>),
                                Field(UnderlyingSecurityID, a.security))
        BY <1>5, <2>5, <3>1
      <4> QED
        BY <4>1, HandleEach
    <3> QED
      BY <3>2
  <2> QED
    BY <1>2, <2>4, <2>5
<1> QED
  BY <1>3, <1>4, <1>6, SMTT(20) DEF f, n

\* The type of each message.
TypeOf(kind, role) ==
  IF kind = "order"
  THEN IF role = "request" THEN NewOrderSingle ELSE ExecutionReport
  ELSE IF role = "request" THEN MassQuote ELSE MassQuoteAck

LEMMA KindsAre == \A c \in Conversations : About[c].kind \in {"order", "quote"}
BY ConversationsAssumption

LEMMA FirstField ==
  ASSUME NEW type, Len(type) = 1
  PROVE  HandleTag(NoDetails, Field(MsgType, type))
           = Record8(type, <<>>, 0, <<>>, <<>>, <<>>, <<>>, <<>>)
<1>1. NoDetails = Record8(<<>>, <<>>, 0, <<>>, <<>>, <<>>, <<>>, <<>>)
  BY DEF NoDetails, Record8
<1> QED
  BY <1>1, HandleEach

LEMMA DetailsAre ==
  ASSUME NEW c \in Conversations, NEW role \in Roles
  PROVE  \E e, st :
           /\ DetailsOf[c][role]
                = Record8(TypeOf(About[c].kind, role), e, st, About[c].id, Sender(c, role),
                          Target(c, role), About[c].symbol, About[c].security)
           /\ role = "other" /\ About[c].kind = "order" => e = SubSeq(<<70>>, 1, 1)
           /\ role = "other" /\ About[c].kind = "quote" => st = StrToInt(<<49>>)
<1> DEFINE k == About[c].kind
           p == TypeAndStatus(k, role)
           q == Parties(About[c], role)
           r == Subject(About[c])
           S == {p[1], p[2], q[1], q[2], r[1], r[2], r[3]}
           type == TypeOf(k, role)
<1>1. k \in {"order", "quote"} /\ role \in {"request", "answer", "other"}
  BY KindsAre DEF Roles
<1>2. /\ p[1] = Field(MsgType, type) /\ Len(type) = 1
      /\ role = "request" => p = <<p[1]>>
      /\ role # "request" => p = <<p[1], p[2]>>
      /\ role # "request" /\ k = "order" =>
           p[2] = Field(ExecType, IF role = "answer" THEN <<48>> ELSE <<70>>)
      /\ role # "request" /\ k = "quote" =>
           p[2] = Field(QuoteStatus, IF role = "answer" THEN <<48>> ELSE <<49>>)
  BY <1>1 DEF TypeAndStatus, TypeOf, NewOrderSingle, ExecutionReport, MassQuote, MassQuoteAck
<1>3. q = <<q[1], q[2]>> /\ r = <<r[1], r[2], r[3]>>
  BY DEF Parties, Subject
<1> HIDE DEF p, q, r, k, type
<1>4. p \in Seq(S) /\ q \in Seq(S) /\ r \in Seq(S)
  <2>1. /\ p[1] \in S /\ p[2] \in S /\ q[1] \in S /\ q[2] \in S
        /\ r[1] \in S /\ r[2] \in S /\ r[3] \in S
    OBVIOUS
  <2> HIDE DEF S
  <2>2. \A x, y, z \in S : /\ <<x>> \in Seq(S) /\ <<x, y>> \in Seq(S)
                           /\ <<x, y, z>> \in Seq(S)
    OBVIOUS
  <2>3. p \in Seq(S)
    BY <1>2, <2>1, <2>2
  <2>4. q \in Seq(S) /\ r \in Seq(S)
    BY <1>3, <2>1, <2>2
  <2> QED
    BY <2>3, <2>4
<1>5. Len(p) = IF role = "request" THEN 1 ELSE 2
  BY <1>2
<1>6. PICK d : /\ d[0] = NoDetails
               /\ \A i \in 1 .. Len(p) : d[i] = HandleTag(d[i - 1], p[i])
               /\ \A t, e, st :
                    d[Len(p)] = Record8(t, e, st, <<>>, <<>>, <<>>, <<>>, <<>>) =>
                      Details(FieldsOf(c, role))
                        = Record8(t, e, st, About[c].id, Sender(c, role), Target(c, role),
                                  About[c].symbol, About[c].security)
  BY <1>4, LastFive DEF p, q, r, k
<1>7. d[1] = Record8(type, <<>>, 0, <<>>, <<>>, <<>>, <<>>, <<>>)
  BY <1>2, <1>5, <1>6, FirstField
<1>8. DetailsOf[c][role] = Details(FieldsOf(c, role))
  BY DEF DetailsOf, FieldsOf
<1>9. CASE role = "request"
  BY <1>5, <1>6, <1>7, <1>8, <1>9 DEF type, k
<1>10. CASE role # "request" /\ k = "order"
  <2>1. \E v : /\ d[2] = HandleTag(Record8(type, <<>>, 0, <<>>, <<>>, <<>>, <<>>, <<>>),
                                   Field(ExecType, v))
               /\ role = "other" => v = <<70>>
    BY <1>1, <1>2, <1>5, <1>6, <1>7, <1>10
  <2>2. PICK v : /\ d[2] = Record8(type, SubSeq(v, 1, 1), 0, <<>>, <<>>, <<>>, <<>>, <<>>)
                 /\ role = "other" => v = <<70>>
    BY <2>1, HandleEach
  <2> QED
    <3>1. DetailsOf[c][role]
            = Record8(type, SubSeq(v, 1, 1), 0, About[c].id, Sender(c, role),
                      Target(c, role), About[c].symbol, About[c].security)
      BY <1>5, <1>6, <1>8, <1>10, <2>2
    <3> QED
      BY <1>10, <2>2, <3>1 DEF type, k
<1>11. CASE role # "request" /\ k = "quote"
  <2>1. \E v : /\ d[2] = HandleTag(Record8(type, <<>>, 0, <<>>, <<>>, <<>>, <<>>, <<>>),
                                   Field(QuoteStatus, v))
               /\ role = "other" => v = <<49>>
    BY <1>1, <1>2, <1>5, <1>6, <1>7, <1>11
  <2>2. PICK v : /\ d[2] = Record8(type, <<>>, StrToInt(v), <<>>, <<>>, <<>>, <<>>, <<>>)
                 /\ role = "other" => v = <<49>>
    BY <2>1, HandleEach
  <2> QED
    <3>1. DetailsOf[c][role]
            = Record8(type, <<>>, StrToInt(v), About[c].id, Sender(c, role),
                      Target(c, role), About[c].symbol, About[c].security)
      BY <1>5, <1>6, <1>8, <1>11, <2>2
    <3> QED
      BY <1>11, <2>2, <3>1 DEF type, k
<1> QED
  BY <1>1, <1>9, <1>10, <1>11

\* A rejected acknowledgement says 1.
LEMMA StrToIntOne == StrToInt(<<49>>) = 1
<1> DEFINE v == <<49>>
           Eq(g) == g = [s \in SUBSET {1} |->
                           IF s = {} THEN 0 ELSE g[s \ {Max(s)}] * 10 + v[Max(s)] - 48]
           h == [s \in SUBSET {1} |-> IF s = {} THEN 0 ELSE 1]
<1>1. Max({1}) = 1
  BY DEF Max
<1>2. \A s \in SUBSET {1} : s # {} => s = {1}
  OBVIOUS
<1>3. Eq(h)
  <2>1. ASSUME NEW s \in SUBSET {1}, s # {}
        PROVE  h[s] = h[s \ {Max(s)}] * 10 + v[Max(s)] - 48
    <3>1. s = {1} /\ {1} \ {1} = {}
      BY <1>2, <2>1
    <3> QED
      BY <1>1, <3>1
  <2> QED
    BY <2>1
<1> DEFINE g == CHOOSE f : Eq(f)
<1>4. Eq(g)
  <2> HIDE DEF Eq, h
  <2> QED
    BY <1>3
<1> HIDE DEF g
<1>5. g[{1}] = 1
  <2>1. g[{1}] = g[{1} \ {1}] * 10 + v[1] - 48
    BY <1>1, <1>4
  <2>2. g[{}] = 0
    BY <1>4
  <2>3. {1} \ {1} = {}
    OBVIOUS
  <2> QED
    BY <2>1, <2>2, <2>3
<1>6. Decimal(v) = g[{1}]
  <2>1. DOMAIN v = {1}
    OBVIOUS
  <2> QED
    BY <2>1 DEF Decimal, FoldLeft, MapThenFoldSet, g
<1>7. DigitsEnd(v, 1, 1) = 2 /\ StretchEnd(WhiteSpace, v, 1, 1) = 1 /\ v[1] \notin {Plus, Minus}
  BY DEF DigitsEnd, StretchEnd, DigitChars, WhiteSpace, Plus, Minus
<1>8. Len(v) = 1 /\ SubSeq(v, 1, 1) = v
  <2>1. v \in Seq(Int)
    OBVIOUS
  <2>2. Len(v) = 1
    OBVIOUS
  <2> HIDE DEF v
  <2> QED
    BY <2>1, <2>2, SubSeqFull
<1> HIDE DEF v
<1>9. StrToInt(v) = Decimal(SubSeq(v, 1, 1))
  BY <1>7, <1>8 DEF StrToInt, Atoi
<1>10. StrToInt(v) = 1
  BY <1>5, <1>6, <1>8, <1>9
<1> QED
  BY <1>10 DEF v

\* A fill and a rejected quote make no summary.
LEMMA OtherIsNoSummary ==
  \A c \in Conversations : ~ShouldProcess(DetailsOf[c]["other"])
<1> TAKE c \in Conversations
<1>1. "other" \in Roles
  BY DEF Roles
<1>2. PICK e, st :
        /\ DetailsOf[c]["other"]
             = Record8(TypeOf(About[c].kind, "other"), e, st, About[c].id, Sender(c, "other"),
                       Target(c, "other"), About[c].symbol, About[c].security)
        /\ About[c].kind = "order" => e = SubSeq(<<70>>, 1, 1)
        /\ About[c].kind = "quote" => st = StrToInt(<<49>>)
  BY <1>1, DetailsAre
<1>3. /\ DetailsOf[c]["other"].type = TypeOf(About[c].kind, "other")
      /\ DetailsOf[c]["other"].exec = e /\ DetailsOf[c]["other"].status = st
  BY <1>2 DEF Record8
<1>4. SubSeq(<<70>>, 1, 1) # <<48>>
  <2> DEFINE fill == SubSeq(<<70>>, 1, 1)
             new == <<48>>
  <2>1. fill[1] = 70
    OBVIOUS
  <2>2. new[1] = 48
    OBVIOUS
  <2>3. fill # new
    <3> HIDE DEF fill, new
    <3> QED
      BY ONLY <2>1, <2>2
  <2> QED
    BY <2>3
<1>5. StrToInt(<<49>>) # 0
  BY StrToIntOne
<1>6. /\ <<56>> # <<98>> /\ <<56>> # <<68>> /\ <<56>> # <<105>> /\ <<56>> # <<120, 114>>
      /\ <<56>> # <<120, 115>> /\ <<98>> # <<68>> /\ <<98>> # <<105>>
      /\ <<98>> # <<120, 114>> /\ <<98>> # <<120, 115>>
  OBVIOUS
<1> QED
  BY <1>2, <1>3, <1>4, <1>5, <1>6, KindsAre
     DEF ShouldProcess, TypeOf, Requests, NewOrderSingle, MassQuote, TraceReq,
         TraceRsp, ExecutionReport, MassQuoteAck

LEMMA SummaryIs ==
  ASSUME NEW c \in Conversations, NEW role \in Roles
  PROVE  /\ Summary[c][role].type = TypeOf(About[c].kind, role)
         /\ Summary[c][role].key
              = About[c].client \o <<Bar>> \o About[c].server \o <<Bar>>
                  \o About[c].id \o <<Bar>> \o Instrument(About[c])
<1> DEFINE d == DetailsOf[c][role]
           a == About[c]
<1>1. PICK e, st :
        d = Record8(TypeOf(a.kind, role), e, st, a.id, Sender(c, role), Target(c, role),
                    a.symbol, a.security)
  BY DetailsAre
<1>2. /\ d.type = TypeOf(a.kind, role) /\ d.id = a.id
      /\ d.sender = Sender(c, role) /\ d.target = Target(c, role)
      /\ d.symbol = a.symbol /\ d.security = a.security
  BY <1>1 DEF Record8
<1>3. Summary[c][role] = [type |-> d.type, key |-> Key(d)]
  BY DEF Summary
<1> HIDE DEF d
<1>4. role = "request" <=> d.type \in Requests
  <2>1. /\ <<56>> # <<68>> /\ <<56>> # <<105>> /\ <<56>> # <<120, 114>>
        /\ <<98>> # <<68>> /\ <<98>> # <<105>> /\ <<98>> # <<120, 114>>
    OBVIOUS
  <2> QED
    BY <1>2, <2>1, KindsAre DEF TypeOf, Requests, NewOrderSingle, MassQuote, TraceReq,
                    ExecutionReport, MassQuoteAck, Roles
<1>5. RemoteThenLocal(d)[1] = a.client /\ RemoteThenLocal(d)[2] = a.server
  BY <1>2, <1>4 DEF RemoteThenLocal, Sender, Target
<1>6. Instrument(d) = Instrument(a)
  BY <1>2 DEF Instrument
<1>7. Key(d) = a.client \o <<Bar>> \o a.server \o <<Bar>> \o a.id \o <<Bar>> \o Instrument(a)
  BY <1>2, <1>5, <1>6, Zenon DEF Key
<1>8. Summary[c][role].type = d.type /\ Summary[c][role].key = Key(d)
  BY <1>3
<1> QED
  BY <1>2, <1>7, <1>8, Zenon

\* A name without a bar starts after the last bar.
LEMMA Separated ==
  ASSUME NEW s \in Names, NEW t \in Names, NEW x \in Seq(Nat), NEW y \in Seq(Nat),
         x \o <<Bar>> \o s = y \o <<Bar>> \o t
  PROVE  s = t /\ x = y
<1>1. ASSUME NEW n \in Names
      PROVE  n \in Seq(Nat) /\ Len(n) \in Nat /\ \A i \in 1 .. Len(n) : n[i] # Bar
  <2>1. n \in Seq((0 .. 255) \ {Bar})
    BY <1>1 DEF Names
  <2>2. \A i \in 1 .. Len(n) : n[i] \in (0 .. 255) \ {Bar}
    BY <2>1, ElementOfSeq
  <2>3. (0 .. 255) \ {Bar} \subseteq Nat
    BY DEF Bar
  <2>4. n \in Seq(Nat)
    BY ONLY <2>1, <2>3, SeqMonotonic
  <2>5. Len(n) \in Nat
    BY <2>4, LenProperties
  <2> QED
    BY <2>2, <2>4, <2>5
<1>2. <<Bar>> \in Seq(Nat) /\ Len(<<Bar>>) = 1 /\ <<Bar>>[1] = Bar
  BY DEF Bar
<1>3. ASSUME NEW n \in Seq(Nat)
      PROVE  /\ n \o <<Bar>> \in Seq(Nat) /\ Len(n) \in Nat
             /\ Len(n \o <<Bar>>) = Len(n) + 1 /\ (n \o <<Bar>>)[Len(n) + 1] = Bar
  <2>1. /\ n \o <<Bar>> \in Seq(Nat) /\ Len(n \o <<Bar>>) = Len(n) + Len(<<Bar>>)
        /\ \A i \in 1 .. Len(<<Bar>>) : (n \o <<Bar>>)[Len(n) + i] = <<Bar>>[i]
    BY <1>2, TwoParts
  <2>2. Len(n) \in Nat
    BY LenProperties
  <2> QED
    BY <1>2, <2>1, <2>2
<1>4. PICK xb \in Seq(Nat) :
        xb = x \o <<Bar>> /\ Len(xb) = Len(x) + 1 /\ xb[Len(x) + 1] = Bar
  BY <1>3
<1>5. PICK yb \in Seq(Nat) :
        yb = y \o <<Bar>> /\ Len(yb) = Len(y) + 1 /\ yb[Len(y) + 1] = Bar
  BY <1>3
<1>6. /\ s \in Seq(Nat) /\ Len(s) \in Nat /\ \A i \in 1 .. Len(s) : s[i] # Bar
      /\ t \in Seq(Nat) /\ Len(t) \in Nat /\ \A i \in 1 .. Len(t) : t[i] # Bar
      /\ Len(x) \in Nat /\ Len(y) \in Nat
  BY <1>1, <1>3
<1>7. PICK u : u = xb \o s
  OBVIOUS
<1>8. u = yb \o t
  BY <1>4, <1>5, <1>7
<1>9. /\ Len(u) = Len(xb) + Len(s)
      /\ \A i \in 1 .. Len(xb) : u[i] = xb[i]
      /\ \A i \in 1 .. Len(s) : u[Len(xb) + i] = s[i]
  BY <1>6, <1>7, TwoParts
<1>10. /\ Len(u) = Len(yb) + Len(t)
       /\ \A i \in 1 .. Len(yb) : u[i] = yb[i]
       /\ \A i \in 1 .. Len(t) : u[Len(yb) + i] = t[i]
  BY <1>6, <1>8, TwoParts
<1>11. Len(s) = Len(t)
  <2>1. u[Len(x) + 1] = Bar /\ u[Len(y) + 1] = Bar
    BY <1>4, <1>5, <1>6, <1>9, <1>10
  <2>2. CASE Len(x) < Len(y)
    <3>1. Len(y) - Len(x) \in 1 .. Len(s) /\ Len(xb) + (Len(y) - Len(x)) = Len(y) + 1
      BY <1>4, <1>5, <1>6, <1>9, <1>10, <2>2
    <3> QED
      BY <1>6, <1>9, <2>1, <3>1
  <2>3. CASE Len(y) < Len(x)
    <3>1. Len(x) - Len(y) \in 1 .. Len(t) /\ Len(yb) + (Len(x) - Len(y)) = Len(x) + 1
      BY <1>4, <1>5, <1>6, <1>9, <1>10, <2>3
    <3> QED
      BY <1>6, <1>10, <2>1, <3>1
  <2>4. CASE Len(x) = Len(y)
    BY <1>4, <1>5, <1>6, <1>9, <1>10, <2>4, SMTT(20)
  <2>5. Len(x) \in Nat /\ Len(y) \in Nat
    BY <1>6
  <2> QED
    BY ONLY <2>2, <2>3, <2>4, <2>5
<1>12. Len(x) = Len(y) /\ Len(xb) = Len(yb)
  BY <1>4, <1>5, <1>6, <1>9, <1>10, <1>11, SMTT(20)
<1>13. s = t
  <2>1. \A i \in 1 .. Len(s) : s[i] = t[i]
    BY <1>9, <1>10, <1>11, <1>12
  <2> QED
    BY <1>6, <1>11, <2>1, SeqEqual
<1>14. x = y
  <2>1. xb = yb
    <3>1. \A i \in 1 .. Len(xb) : xb[i] = yb[i]
      BY <1>9, <1>10, <1>12
    <3> QED
      BY <1>12, <3>1, SeqEqual
  <2>2. x \o <<Bar>> = y \o <<Bar>>
    BY <1>4, <1>5, <2>1
  <2>3. x \in Seq(Nat) /\ y \in Seq(Nat) /\ <<Bar>> \in Seq(Nat)
    BY <1>2
  <2> QED
    BY ONLY <2>2, <2>3, ConcatSimplifications
<1> QED
  BY <1>13, <1>14

\* The messages of a conversation share a key; conversations of the same kind
\* have different ones.
LEMMA KeysDiffer ==
  ASSUME NEW c \in Conversations, NEW d \in Conversations,
         NEW role \in Roles, NEW role2 \in Roles,
         Summary[c][role].key = Summary[d][role2].key,
         About[c].kind = About[d].kind
  PROVE  c = d
<1>1. ASSUME NEW e \in Conversations
      PROVE  /\ About[e].client \in Names /\ About[e].server \in Names
             /\ About[e].id \in Names /\ Instrument(About[e]) \in Names
  BY ConversationsAssumption DEF Instrument
<1>2. \A n \in Names : n \in Seq(Nat)
  <2>1. (0 .. 255) \ {Bar} \subseteq Nat
    OBVIOUS
  <2> QED
    BY <2>1, SeqMonotonic DEF Names
<1>3. ASSUME NEW x \in Seq(Nat), NEW n \in Names
      PROVE  x \o <<Bar>> \o n \in Seq(Nat)
  <2>1. <<Bar>> \in Seq(Nat)
    BY DEF Bar
  <2>2. x \o <<Bar>> \in Seq(Nat)
    BY <2>1, ConcatProperties
  <2> QED
    BY <1>2, <2>2, ConcatProperties
<1> DEFINE w(e) == About[e].client
           x(e) == About[e].server
           y(e) == About[e].id
           z(e) == Instrument(About[e])
           wx(e) == w(e) \o <<Bar>> \o x(e)
           wxy(e) == wx(e) \o <<Bar>> \o y(e)
<1>4. wxy(c) \o <<Bar>> \o z(c) = wxy(d) \o <<Bar>> \o z(d)
  BY SummaryIs, Zenon
<1>5. ASSUME NEW e \in Conversations
      PROVE  /\ w(e) \in Seq(Nat) /\ x(e) \in Names /\ y(e) \in Names /\ z(e) \in Names
             /\ wx(e) \in Seq(Nat) /\ wxy(e) \in Seq(Nat)
  <2>1. w(e) \in Seq(Nat) /\ x(e) \in Names /\ y(e) \in Names /\ z(e) \in Names
    BY <1>1, <1>2
  <2> HIDE DEF w, x, y
  <2>2. wx(e) \in Seq(Nat)
    BY <1>3, <2>1
  <2> HIDE DEF wx
  <2>3. wxy(e) \in Seq(Nat)
    BY <1>3, <2>1, <2>2
  <2> QED
    BY <2>1, <2>2, <2>3
<1> HIDE DEF w, x, y, z, wxy
<1>6. z(c) = z(d) /\ wxy(c) = wxy(d)
  BY ONLY <1>4, <1>5, c \in Conversations, d \in Conversations, Separated
<1> HIDE DEF wx
<1>7. y(c) = y(d) /\ wx(c) = wx(d)
  <2>1. wx(c) \o <<Bar>> \o y(c) = wx(d) \o <<Bar>> \o y(d)
    BY <1>6 DEF wxy
  <2> QED
    BY ONLY <2>1, <1>5, c \in Conversations, d \in Conversations, Separated
<1>8. x(c) = x(d) /\ w(c) = w(d)
  <2>1. w(c) \o <<Bar>> \o x(c) = w(d) \o <<Bar>> \o x(d)
    BY <1>7 DEF wx
  <2> QED
    BY ONLY <2>1, <1>5, c \in Conversations, d \in Conversations, Separated
<1> QED
  BY <1>6, <1>7, <1>8, ConversationsAssumption DEF w, x, y, z

LEMMA UnorderedPairs ==
  ASSUME NEW u, NEW v, NEW x, NEW y, {u, v} = {x, y}
  PROVE  (u = x /\ v = y) \/ (u = y /\ v = x)
<1>1. \A w : w \in {u, v} <=> w \in {x, y}
  OBVIOUS
<1>2. u \in {x, y} /\ v \in {x, y} /\ x \in {u, v} /\ y \in {u, v}
  BY <1>1, Zenon
<1> QED
  BY ONLY <1>2

\* A complement under the same key is of the same conversation: one is its
\* request and the other its answer.
LEMMA Complements ==
  ASSUME NEW m \in Messages, NEW n \in Messages, m.role # "other", n.role # "other",
         KeyOf(m) = KeyOf(n), IsComplement(m, n)
  PROVE  IF IsBegin(m) THEN PairUp(m, n) ELSE PairUp(n, m)
<1>1. /\ m.conv \in Conversations /\ m.role \in Roles
      /\ n.conv \in Conversations /\ n.role \in Roles
  BY DEF Messages
<1>2. /\ Type(m) = TypeOf(About[m.conv].kind, m.role)
      /\ Type(n) = TypeOf(About[n.conv].kind, n.role)
  BY <1>1, SummaryIs DEF Type
<1>3. About[m.conv].kind \in {"order", "quote"} /\ About[n.conv].kind \in {"order", "quote"}
  BY <1>1, KindsAre
<1>4. m.role \in {"request", "answer"} /\ n.role \in {"request", "answer"}
  BY <1>1 DEF Roles
<1>5. /\ <<56>> # <<98>> /\ <<56>> # <<68>> /\ <<56>> # <<105>> /\ <<56>> # <<120, 114>>
      /\ <<56>> # <<120, 115>> /\ <<98>> # <<68>> /\ <<98>> # <<105>>
      /\ <<98>> # <<120, 114>> /\ <<98>> # <<120, 115>> /\ <<68>> # <<105>>
      /\ <<68>> # <<120, 114>> /\ <<68>> # <<120, 115>> /\ <<105>> # <<120, 114>>
      /\ <<105>> # <<120, 115>>
  OBVIOUS
<1>6. {Type(m), Type(n)} \in {{<<105>>, <<98>>}, {<<68>>, <<56>>}, {<<120, 114>>, <<120, 115>>}}
  BY DEF IsComplement, NewOrderSingle, MassQuote, TraceReq, TraceRsp, ExecutionReport,
         MassQuoteAck
<1>7. /\ Type(m) = IF About[m.conv].kind = "order"
                   THEN IF m.role = "request" THEN <<68>> ELSE <<56>>
                   ELSE IF m.role = "request" THEN <<105>> ELSE <<98>>
      /\ Type(n) = IF About[n.conv].kind = "order"
                   THEN IF n.role = "request" THEN <<68>> ELSE <<56>>
                   ELSE IF n.role = "request" THEN <<105>> ELSE <<98>>
  BY <1>2 DEF TypeOf, NewOrderSingle, MassQuote, ExecutionReport, MassQuoteAck
<1>8. IsBegin(m) <=> m.role = "request"
  BY <1>5, <1>7 DEF IsBegin, MassQuote, NewOrderSingle, TraceReq
<1>9. About[m.conv].kind = About[n.conv].kind /\ (m.role = "request" <=> n.role # "request")
  <2>1. \/ Type(m) = <<105>> /\ Type(n) = <<98>>
        \/ Type(m) = <<98>> /\ Type(n) = <<105>>
        \/ Type(m) = <<68>> /\ Type(n) = <<56>>
        \/ Type(m) = <<56>> /\ Type(n) = <<68>>
    <3> DEFINE tm == Type(m)
               tn == Type(n)
               q1 == <<105>>
               q2 == <<98>>
               o1 == <<68>>
               o2 == <<56>>
               t1 == <<120, 114>>
               t2 == <<120, 115>>
    <3>1. {tm, tn} = {q1, q2} \/ {tm, tn} = {o1, o2} \/ {tm, tn} = {t1, t2}
      BY <1>6
    <3>2. tm # t1 /\ tm # t2
      BY <1>5, <1>7
    <3> HIDE DEF tm, tn, q1, q2, o1, o2, t1, t2
    <3>3. \/ tm = q1 /\ tn = q2
          \/ tm = q2 /\ tn = q1
          \/ tm = o1 /\ tn = o2
          \/ tm = o2 /\ tn = o1
      BY ONLY <3>1, <3>2, UnorderedPairs
    <3> QED
      BY <3>3 DEF tm, tn, q1, q2, o1, o2
  <2> QED
    BY <1>3, <1>4, <1>5, <1>7, <2>1
<1>10. Summary[m.conv][m.role].key = Summary[n.conv][n.role].key
  BY DEF KeyOf
<1>11. m.conv = n.conv
  BY <1>1, <1>9, <1>10, KeysDiffer
<1> QED
  BY <1>4, <1>8, <1>9, <1>11 DEF PairUp

\* A request and an answer of a conversation are complements under one key.
LEMMA PairsComplement ==
  ASSUME NEW m \in Messages, NEW n \in Messages, PairUp(m, n)
  PROVE  /\ KeyOf(m) = KeyOf(n) /\ IsComplement(m, n) /\ IsComplement(n, m)
         /\ IsBegin(m) /\ ~IsBegin(n)
<1>1. /\ m.conv \in Conversations /\ m.role \in Roles /\ n.role \in Roles
      /\ n.conv = m.conv /\ m.role = "request" /\ n.role = "answer"
  BY DEF Messages, PairUp
<1>2. KeyOf(m) = KeyOf(n)
  BY <1>1, SummaryIs DEF KeyOf
<1>3. /\ Type(m) = TypeOf(About[m.conv].kind, "request")
      /\ Type(n) = TypeOf(About[m.conv].kind, "answer")
  BY <1>1, SummaryIs DEF Type
<1>4. About[m.conv].kind \in {"order", "quote"}
  BY <1>1, KindsAre
<1>5. /\ <<56>> # <<105>> /\ <<56>> # <<68>> /\ <<56>> # <<120, 114>>
      /\ <<98>> # <<105>> /\ <<98>> # <<68>> /\ <<98>> # <<120, 114>>
  OBVIOUS
<1> QED
  BY <1>2, <1>3, <1>4, <1>5
     DEF IsComplement, IsBegin, TypeOf, NewOrderSingle, MassQuote, TraceReq, TraceRsp,
         ExecutionReport, MassQuoteAck

-----------------------------------------------------------------------------
(* Sequences.                                                              *)

LEMMA Pops ==
  ASSUME NEW S, NEW s \in Seq(S), s # <<>>
  PROVE  /\ Tail(s) \in Seq(S) /\ Len(s) \in Nat \ {0} /\ Len(Tail(s)) = Len(s) - 1
         /\ Head(s) = s[1] /\ Head(s) \in S
         /\ \A i \in 1 .. Len(s) - 1 : Tail(s)[i] = s[i + 1]
         /\ ToSet(s) = {Head(s)} \cup ToSet(Tail(s))
<1>1. Tail(s) \in Seq(S) /\ Len(s) \in Nat \ {0} /\ Len(Tail(s)) = Len(s) - 1
  BY EmptySeq
<1>2. Head(s) = s[1] /\ Head(s) \in S /\ \A i \in 1 .. Len(s) - 1 : Tail(s)[i] = s[i + 1]
  BY <1>1
<1>3. DOMAIN s = 1 .. Len(s) /\ DOMAIN Tail(s) = 1 .. Len(s) - 1
  BY <1>1
<1>4. ASSUME NEW x \in ToSet(s)
      PROVE  x = Head(s) \/ x \in ToSet(Tail(s))
  <2>1. PICK i \in 1 .. Len(s) : x = s[i]
    BY <1>3, <1>4 DEF ToSet
  <2>2. CASE i = 1
    BY <1>2, <2>1, <2>2
  <2>3. CASE i # 1
    <3>1. i - 1 \in 1 .. Len(s) - 1 /\ (i - 1) + 1 = i
      BY <1>1, <2>3
    <3>2. x = Tail(s)[i - 1]
      BY <1>2, <2>1, <3>1
    <3> QED
      BY <1>3, <3>1, <3>2 DEF ToSet
  <2> QED
    BY <2>2, <2>3
<1>5. ASSUME NEW x \in ToSet(Tail(s))
      PROVE  x \in ToSet(s)
  <2>1. PICK i \in 1 .. Len(s) - 1 : x = Tail(s)[i]
    BY <1>3, <1>5 DEF ToSet
  <2>2. i + 1 \in 1 .. Len(s) /\ x = s[i + 1]
    BY <1>1, <1>2, <2>1
  <2> QED
    BY <1>3, <2>2 DEF ToSet
<1>6. Head(s) \in ToSet(s)
  BY <1>1, <1>2, <1>3 DEF ToSet
<1> QED
  BY <1>1, <1>2, <1>4, <1>5, <1>6

LEMMA Puts ==
  ASSUME NEW S, NEW s \in Seq(S), NEW x \in S
  PROVE  /\ Append(s, x) \in Seq(S) /\ Len(s) \in Nat /\ Len(Append(s, x)) = Len(s) + 1
         /\ Append(s, x)[Len(s) + 1] = x
         /\ \A i \in 1 .. Len(s) : Append(s, x)[i] = s[i]
         /\ ToSet(Append(s, x)) = ToSet(s) \cup {x}
<1>1. /\ Append(s, x) \in Seq(S) /\ Len(s) \in Nat /\ Len(Append(s, x)) = Len(s) + 1
      /\ Append(s, x)[Len(s) + 1] = x
      /\ \A i \in 1 .. Len(s) : Append(s, x)[i] = s[i]
  OBVIOUS
<1>2. DOMAIN s = 1 .. Len(s) /\ DOMAIN Append(s, x) = 1 .. Len(s) + 1
  BY <1>1
<1> DEFINE t == Append(s, x)
<1>3. /\ \A i \in 1 .. Len(s) : t[i] = s[i]
      /\ t[Len(s) + 1] = x /\ DOMAIN t = 1 .. Len(s) + 1
  BY <1>1, <1>2
<1> HIDE DEF t
<1>4. ToSet(t) = ToSet(s) \cup {x}
  BY <1>1, <1>2, <1>3 DEF ToSet
<1> QED
  BY <1>1, <1>4 DEF t

LEMMA MembersOf ==
  ASSUME NEW S, NEW s \in Seq(S)
  PROVE  /\ \A i \in 1 .. Len(s) : s[i] \in ToSet(s)
         /\ \A x \in ToSet(s) : \E i \in 1 .. Len(s) : x = s[i]
         /\ ToSet(s) \subseteq S
BY DEF ToSet

-----------------------------------------------------------------------------
(* The inductive invariant.                                                *)

\* The messages on the wire are numbered.
Wire ==
  /\ IsFiniteSet(onWire) /\ onWire \subseteq Messages
  /\ \A m \in onWire : m.serial <= Cardinality(onWire)
  /\ \A m, n \in onWire : m.serial = n.serial => m = n

\* m is the last message of n's conversation before n.
Before(m, n) ==
  /\ m.conv = n.conv /\ m.serial < n.serial
  /\ \A k \in onWire : k.conv = n.conv => k.serial <= m.serial \/ n.serial <= k.serial

\* What the message before an answer, before another one and before a request is.
Order ==
  \A n \in onWire :
    /\ n.role = "answer" => \E m \in onWire : Before(m, n) /\ m.role = "request"
    /\ n.role = "other" => \E m \in onWire : Before(m, n) /\ m.role = "answer"
    /\ n.role = "request" => \A m \in onWire : Before(m, n) => m.role # "request"

\* A ring holds summaries of messages its thread captured, in the order of the
\* wire, and what it released came before.
Captured(m, r, wire) == m \in wire /\ m.ring = r /\ m.role # "other"
Stream(r, inside, out, wire) ==
  /\ \A i \in 1 .. Len(inside) : Captured(inside[i], r, wire)
  /\ \A m \in ToSet(out) : Captured(m, r, wire)
  /\ \A i, j \in 1 .. Len(inside) : i < j => inside[i].serial < inside[j].serial
  /\ \A m \in ToSet(out), i \in 1 .. Len(inside) : m.serial < inside[i].serial
Streams == \A r \in Rings : Stream(r, rings[r], released[r], onWire)

\* Each summary released is in one place, and a key has one summary in the table.
Halves == UNION {{p[1], p[2]} : p \in matched}
Places ==
  /\ Handled = table \cup ignored \cup Halves
  /\ table \cap Halves = {}
  /\ \A m, n \in table : KeyOf(m) = KeyOf(n) => m = n
  /\ IsFiniteSet(matched)

\* The records released elsewhere since a ring's turn: MaxPolls - 1 of them in
\* each other turn that is over, and those of the turn that is not.
WaitsUpTo(r) ==
  CASE at = 0 -> (NumRings - r) * (MaxPolls - 1)
    [] at # 0 /\ r = at -> (NumRings - 1) * (MaxPolls - 1)
    [] at # 0 /\ r < at -> (at - r - 1) * (MaxPolls - 1) + (MaxPolls - limit)
    [] at # 0 /\ r > at -> (NumRings - r + at - 1) * (MaxPolls - 1) + (MaxPolls - limit)
Turns ==
  /\ at = 0 => limit = MaxPolls
  /\ \A r \in Rings : waited[r] <= WaitsUpTo(r)

\* A conversation that is alone in its key and captured whole by thread r: each
\* request released is paired with its own answer or is the last one and waits.
Own(c) == {m \in onWire : m.conv = c /\ m.role # "other"}
Whole(c, r) == OwnKey(c) /\ (\A m \in Own(c) : m.ring = r) /\ Own(c) \subseteq Published
Conversing ==
  \A c \in Conversations, r \in Rings :
    Whole(c, r) =>
      /\ \A p \in matched : p[1].conv = c =>
           /\ p[1].serial < p[2].serial
           /\ \A m \in Own(c) : ~(p[1].serial < m.serial /\ m.serial < p[2].serial)
      /\ \A m \in ignored : m.conv # c
      /\ \A m \in table : m.conv = c =>
           /\ m.role = "request"
           /\ \A k \in Handled : k.conv = c => k.serial <= m.serial

IndInv ==
  /\ TypeOK /\ Wire /\ Order /\ Streams /\ Places /\ TruePairs /\ CompletedExact /\ Turns /\ Conversing

-----------------------------------------------------------------------------
(* The initial states.                                                     *)

LEMMA InitIndInv == Init => IndInv
<1> SUFFICES ASSUME Init PROVE IndInv
  OBVIOUS
<1> USE DEF Init
<1>1. /\ NumRings \in Nat \ {0} /\ MaxPolls \in Nat \ {0, 1}
      /\ \A r \in Rings : r \in Nat /\ r <= NumRings
      /\ \A r \in Rings : rings[r] = <<>> /\ released[r] = <<>> /\ waited[r] = 0
  BY RingsAssumption, LimitsAssumption DEF Rings
<1>2. Handled = {} /\ Halves = {}
  BY <1>1 DEF Handled, Halves, ToSet
<1>3. TypeOK
  BY <1>1 DEF TypeOK
<1>4. IsFiniteSet({}) /\ Cardinality({}) = 0
  BY FS_EmptySet
<1>5. Wire /\ Order
  BY <1>4 DEF Wire, Order
<1>6. Streams
  BY <1>1 DEF Streams, Stream, ToSet
<1>7. Places
  BY <1>2, <1>4 DEF Places
<1>8. TruePairs
  BY DEF TruePairs
<1>9. CompletedExact
  <2>1. {p \in matched : Recordable(p)} = {}
    OBVIOUS
  <2> QED
    BY <1>4, <2>1 DEF CompletedExact
<1>10. Turns
  <2>1. ASSUME NEW r \in Rings
        PROVE  (NumRings - r) * (MaxPolls - 1) \in Nat
    <3>1. NumRings - r \in Nat /\ MaxPolls - 1 \in Nat
      BY <1>1
    <3> QED
      BY <3>1
  <2> QED
    BY <1>1, <2>1 DEF Turns, WaitsUpTo
<1>11. Conversing
  BY DEF Conversing
<1> QED
  BY <1>3, <1>5, <1>6, <1>7, <1>8, <1>9, <1>10, <1>11 DEF IndInv

-----------------------------------------------------------------------------
(* A message goes by.                                                      *)

Passing(r, c, role) ==
  [conv |-> c, role |-> role, ring |-> r, serial |-> Cardinality(onWire) + 1]

LEMMA PassingIs ==
  ASSUME IndInv, NEW r \in Rings, NEW c \in Conversations, NEW role \in Roles,
         Capture(r, c, role), NEW m, m = Passing(r, c, role)
  PROVE  /\ m \in Messages /\ m \notin onWire /\ onWire' = onWire \cup {m}
         /\ m.conv = c /\ m.role = role /\ m.ring = r /\ m.serial = Cardinality(onWire) + 1
         /\ \A n \in onWire : n \in Messages /\ n.serial \in Nat /\ n.serial < m.serial
         /\ Cardinality(onWire) \in Nat
         /\ \/ rings' = rings
            \/ /\ role # "other" /\ HasRoom(r)
               /\ rings' = [rings EXCEPT ![r] = Append(@, m)]
<1>1. Cardinality(onWire) \in Nat /\ Cardinality(onWire) < MaxMessages
  BY FS_CardinalityType DEF IndInv, Wire, Capture
<1>2. /\ m.conv = c /\ m.role = role /\ m.ring = r /\ m.serial = Cardinality(onWire) + 1
  BY DEF Passing
<1>3. m \in Messages
  BY <1>1, MessagesAssumption DEF Passing, Messages
<1>4. \A n \in onWire : n \in Messages /\ n.serial \in Nat /\ n.serial < m.serial
  BY <1>1, <1>2 DEF IndInv, Wire, Messages
<1>5. m \notin onWire
  <2> SUFFICES ASSUME m \in onWire PROVE FALSE
    OBVIOUS
  <2> QED
    BY <1>4
<1>6. onWire' = onWire \cup {m}
  BY DEF Capture, Passing
<1>7. \/ rings' = rings
      \/ /\ role # "other" /\ HasRoom(r)
         /\ rings' = [rings EXCEPT ![r] = Append(@, m)]
  BY OtherIsNoSummary DEF Capture, Passing
<1> QED
  BY <1>1, <1>2, <1>3, <1>4, <1>5, <1>6, <1>7

\* The last message of a conversation, when there is one.
LEMMA LatestIs ==
  ASSUME Wire, NEW c \in Conversations
  PROVE  \/ Latest(c) = "none" /\ \A n \in onWire : n.conv # c
         \/ \E m \in onWire : /\ m.conv = c /\ Latest(c) = m.role
                              /\ \A n \in onWire : n.conv = c => n.serial <= m.serial
<1> DEFINE own == {m \in onWire : m.conv = c}
           last == CHOOSE m \in own : \A n \in own : n.serial <= m.serial
<1>1. CASE own = {}
  BY <1>1 DEF Latest
<1>2. CASE own # {}
  <2> DEFINE T == {m.serial : m \in own}
  <2>1. Cardinality(onWire) \in Nat
    BY FS_CardinalityType DEF Wire
  <2>2. T \in SUBSET (0 .. Cardinality(onWire)) /\ T # {}
    BY <1>2, <2>1 DEF Wire, Messages
  <2> HIDE DEF T
  <2>3. PICK t \in T : \A u \in T : u <= t
    BY <2>1, <2>2, Greatest
  <2>4. \E m \in own : \A n \in own : n.serial <= m.serial
    BY <2>3 DEF T
  <2> HIDE DEF own
  <2>5. last \in own /\ \A n \in own : n.serial <= last.serial
    BY <2>4
  <2>6. Latest(c) = last.role
    BY <1>2 DEF Latest, own
  <2> HIDE DEF last
  <2> QED
    BY <2>5, <2>6 DEF own
<1> QED
  BY <1>1, <1>2

LEMMA CaptureWire ==
  ASSUME IndInv, NEW r \in Rings, NEW c \in Conversations, NEW role \in Roles,
         Capture(r, c, role)
  PROVE  Wire' /\ Order'
<1>1. PICK m : m = Passing(r, c, role)
  OBVIOUS
<1>2. /\ m \in Messages /\ m \notin onWire /\ onWire' = onWire \cup {m}
      /\ m.conv = c /\ m.role = role /\ m.serial = Cardinality(onWire) + 1
      /\ \A n \in onWire : n \in Messages /\ n.serial \in Nat /\ n.serial < m.serial
      /\ Cardinality(onWire) \in Nat
  BY <1>1, PassingIs
<1>3. Wire'
  <2>1. IsFiniteSet(onWire') /\ Cardinality(onWire') = Cardinality(onWire) + 1
    BY <1>2, FS_AddElement DEF IndInv, Wire
  <2>2. onWire' \subseteq Messages
    BY <1>2
  <2>3. \A n \in onWire' : n.serial <= Cardinality(onWire)'
    BY <1>2, <2>1 DEF IndInv, Wire
  <2>4. \A n, k \in onWire' : n.serial = k.serial => n = k
    BY <1>2 DEF IndInv, Wire
  <2> QED
    BY <2>1, <2>2, <2>3, <2>4 DEF Wire
<1>4. \A n, k \in onWire : Before(k, n)' <=> Before(k, n)
  BY <1>2 DEF Before
<1>5. \A n \in onWire : ~Before(m, n)'
  BY <1>2 DEF Before
<1>6. ASSUME NEW n \in onWire
      PROVE  /\ n.role = "answer" => \E k \in onWire' : Before(k, n)' /\ k.role = "request"
             /\ n.role = "other" => \E k \in onWire' : Before(k, n)' /\ k.role = "answer"
             /\ n.role = "request" => \A k \in onWire' : Before(k, n)' => k.role # "request"
  BY <1>2, <1>4, <1>5 DEF IndInv, Order
<1>7. /\ m.role = "answer" => \E k \in onWire' : Before(k, m)' /\ k.role = "request"
      /\ m.role = "other" => \E k \in onWire' : Before(k, m)' /\ k.role = "answer"
      /\ m.role = "request" => \A k \in onWire' : Before(k, m)' => k.role # "request"
  <2>1. MayFollow(c, role)
    BY DEF Capture
  <2>2. CASE Latest(c) = "none" /\ \A n \in onWire : n.conv # c
    <3>1. role = "request"
      BY <2>1, <2>2 DEF MayFollow, Roles
    <3>2. \A k \in onWire' : ~Before(k, m)'
      BY <1>2, <2>2 DEF Before
    <3> QED
      BY <1>2, <3>1, <3>2
  <2>3. ASSUME NEW k \in onWire, k.conv = c, Latest(c) = k.role,
               \A n \in onWire : n.conv = c => n.serial <= k.serial
        PROVE  /\ m.role = "answer" => \E n \in onWire' : Before(n, m)' /\ n.role = "request"
               /\ m.role = "other" => \E n \in onWire' : Before(n, m)' /\ n.role = "answer"
               /\ m.role = "request" => \A n \in onWire' : Before(n, m)' => n.role # "request"
    <3>1. Before(k, m)' /\ k \in onWire'
      BY <1>2, <2>3 DEF Before
    <3>2. \A n \in onWire' : Before(n, m)' => n = k
      <4> SUFFICES ASSUME NEW n \in onWire', Before(n, m)' PROVE n = k
        OBVIOUS
      <4>1. n.conv = c /\ n.serial < m.serial /\ (k.serial <= n.serial \/ m.serial <= k.serial)
        BY <1>2, <2>3, <3>1 DEF Before
      <4>2. n \in onWire
        BY <1>2, <4>1
      <4>3. n.serial <= k.serial /\ k.serial < m.serial
        BY <1>2, <2>3, <4>1, <4>2
      <4>4. n.serial = k.serial
        BY <1>2, <4>1, <4>2, <4>3
      <4> QED
        BY <4>2, <4>4 DEF IndInv, Wire
    <3> QED
      BY <1>2, <2>1, <2>3, <3>1, <3>2 DEF MayFollow, Roles
  <2> QED
    BY <2>2, <2>3, LatestIs DEF IndInv
<1>8. Order'
  BY <1>2, <1>6, <1>7 DEF Order
<1> QED
  BY <1>3, <1>8

LEMMA HandledIs ==
  ASSUME IndInv
  PROVE  /\ \A x : x \in Handled <=> \E r \in Rings : x \in ToSet(released[r])
         /\ \A x \in Handled : x \in onWire /\ x \in Messages /\ x.role # "other"
BY DEF IndInv, Streams, Stream, Wire, Captured, Handled

LEMMA PublishedIs ==
  \A x : x \in Published <=> \/ x \in Handled
                             \/ \E r \in Rings : x \in ToSet(rings[r])
BY DEF Published

LEMMA CaptureStreams ==
  ASSUME IndInv, NEW r \in Rings, NEW c \in Conversations, NEW role \in Roles,
         Capture(r, c, role)
  PROVE  Streams'
<1>1. PICK m : m = Passing(r, c, role)
  OBVIOUS
<1>2. /\ m \in Messages /\ m \notin onWire /\ onWire' = onWire \cup {m}
      /\ m.role = role /\ m.ring = r
      /\ \A n \in onWire : n \in Messages /\ n.serial \in Nat /\ n.serial < m.serial
      /\ \/ rings' = rings
         \/ /\ role # "other" /\ HasRoom(r)
            /\ rings' = [rings EXCEPT ![r] = Append(@, m)]
  BY <1>1, PassingIs
<1>3. released' = released
  BY DEF Capture
<1>4. ASSUME NEW q, NEW inside, NEW out, Stream(q, inside, out, onWire)
      PROVE  Stream(q, inside, out, onWire')
  BY <1>2, <1>4 DEF Stream, Captured
<1>5. \A q \in Rings : Stream(q, rings[q], released[q], onWire)
  BY DEF IndInv, Streams
<1>6. CASE rings' = rings
  BY <1>3, <1>4, <1>5, <1>6 DEF Streams
<1>7. CASE role # "other" /\ rings' = [rings EXCEPT ![r] = Append(@, m)]
  <2>1. rings[r] \in Seq(Messages) /\ rings \in [Rings -> Seq(Messages)]
    BY DEF IndInv, TypeOK
  <2> DEFINE s == rings[r]
             t == Append(s, m)
             n == Len(s)
             out == released[r]
  <2>2. /\ n \in Nat /\ Len(t) = n + 1 /\ t[n + 1] = m
        /\ \A i \in 1 .. n : t[i] = s[i]
    BY <1>2, <2>1, Puts
  <2>3. rings'[r] = t /\ \A q \in Rings : q # r => rings'[q] = rings[q]
    BY <1>7, <2>1
  <2>4. Stream(r, s, out, onWire) /\ Stream(r, s, out, onWire')
    BY <1>4, <1>5
  <2>5. out = released'[r]
    BY <1>3
  <2> HIDE DEF s, t, n, out
  <2>6. \A i \in 1 .. Len(t) : i \in 1 .. n \/ i = n + 1
    BY <2>2
  <2>7. /\ \A i \in 1 .. n : s[i] \in onWire
        /\ \A k \in ToSet(out) : k \in onWire
    BY <2>4 DEF Stream, Captured, n
  <2>8. \A i \in 1 .. Len(t) : Captured(t[i], r, onWire')
    BY <1>2, <1>7, <2>2, <2>4, <2>6 DEF Stream, Captured, n
  <2>9. \A i, j \in 1 .. Len(t) : i < j => t[i].serial < t[j].serial
    <3> SUFFICES ASSUME NEW i \in 1 .. Len(t), NEW j \in 1 .. Len(t), i < j
                 PROVE  t[i].serial < t[j].serial
      OBVIOUS
    <3>1. i \in 1 .. n
      BY <2>2
    <3>2. CASE j \in 1 .. n
      BY <2>2, <2>4, <3>1, <3>2 DEF Stream, n
    <3>3. CASE j = n + 1
      BY <1>2, <2>2, <2>7, <3>1, <3>3
    <3> QED
      BY <2>6, <3>2, <3>3
  <2>10. \A k \in ToSet(out), i \in 1 .. Len(t) : k.serial < t[i].serial
    BY <1>2, <2>2, <2>4, <2>6, <2>7 DEF Stream, n
  <2>11. Stream(r, t, out, onWire')
    BY <2>4, <2>8, <2>9, <2>10 DEF Stream
  <2> QED
    BY <1>3, <1>4, <1>5, <2>3, <2>5, <2>11 DEF Streams
<1> QED
  BY <1>2, <1>6, <1>7

LEMMA CaptureConversing ==
  ASSUME IndInv, NEW r \in Rings, NEW c \in Conversations, NEW role \in Roles,
         Capture(r, c, role)
  PROVE  Conversing'
<1>1. PICK m : m = Passing(r, c, role)
  OBVIOUS
<1>2. /\ m \in Messages /\ m \notin onWire /\ onWire' = onWire \cup {m}
      /\ \A n \in onWire : n \in Messages /\ n.serial \in Nat /\ n.serial < m.serial
      /\ \/ rings' = rings
         \/ rings' = [rings EXCEPT ![r] = Append(@, m)]
  BY <1>1, PassingIs
<1>3. /\ released' = released /\ table' = table /\ matched' = matched /\ ignored' = ignored
      /\ Handled' = Handled
  BY DEF Capture, Handled
<1>4. \A q \in Rings : \A x \in ToSet(rings'[q]) : x = m \/ x \in ToSet(rings[q])
  <2>1. rings[r] \in Seq(Messages) /\ rings \in [Rings -> Seq(Messages)]
    BY DEF IndInv, TypeOK
  <2>2. ToSet(Append(rings[r], m)) = ToSet(rings[r]) \cup {m}
    BY <1>2, <2>1, Puts
  <2>3. \A q \in Rings : \/ rings'[q] = rings[q]
                         \/ q = r /\ rings'[q] = Append(rings[r], m)
    BY <1>2, <2>1
  <2> TAKE q \in Rings
  <2>4. CASE rings'[q] = rings[q]
    BY <2>4
  <2>5. CASE q = r /\ rings'[q] = Append(rings[r], m)
    BY <2>2, <2>5
  <2> QED
    BY <2>3, <2>4, <2>5
<1>5. \A x \in Published' : x = m \/ x \in Published
  BY <1>3, <1>4 DEF Published
<1>6. ASSUME NEW d \in Conversations, NEW q \in Rings, Whole(d, q)'
      PROVE  Whole(d, q)
  <2>1. Own(d) \subseteq Own(d)' /\ m \notin Own(d)
    BY <1>2 DEF Own
  <2>2. Own(d)' \subseteq Published' /\ OwnKey(d) /\ \A n \in Own(d)' : n.ring = q
    BY <1>6 DEF Whole, OwnKey
  <2> QED
    BY <1>5, <2>1, <2>2 DEF Whole
<1>7. ASSUME NEW d \in Conversations, NEW q \in Rings, Whole(d, q)',
             NEW p \in matched, p[1].conv = d
      PROVE  /\ p[1].serial < p[2].serial
             /\ \A n \in Own(d)' : ~(p[1].serial < n.serial /\ n.serial < p[2].serial)
  <2>1. /\ p[1].serial < p[2].serial
        /\ \A n \in Own(d) : ~(p[1].serial < n.serial /\ n.serial < p[2].serial)
    BY <1>6, <1>7 DEF IndInv, Conversing
  <2>2. \A n \in Own(d)' : n \in Own(d) \/ n = m
    BY <1>2 DEF Own
  <2>3. p[2] \in onWire
    BY HandledIs DEF IndInv, TruePairs
  <2>4. ~(m.serial < p[2].serial)
    BY <1>2, <2>3 DEF Messages
  <2> QED
    BY <2>1, <2>2, <2>4
<1>8. ASSUME NEW d \in Conversations, NEW q \in Rings, Whole(d, q)'
      PROVE  /\ \A n \in ignored : n.conv # d
             /\ \A n \in table : n.conv = d =>
                  /\ n.role = "request"
                  /\ \A k \in Handled : k.conv = d => k.serial <= n.serial
  BY <1>6, <1>8 DEF IndInv, Conversing
<1> QED
  BY <1>3, <1>7, <1>8 DEF Conversing

LEMMA CaptureIndInv ==
  ASSUME IndInv, NEW r \in Rings, NEW c \in Conversations, NEW role \in Roles,
         Capture(r, c, role)
  PROVE  IndInv'
<1>1. /\ released' = released /\ at' = at /\ limit' = limit /\ table' = table
      /\ total' = total /\ completed' = completed /\ matched' = matched
      /\ ignored' = ignored /\ waited' = waited
  BY DEF Capture
<1>2. PICK m : m = Passing(r, c, role)
  OBVIOUS
<1>3. /\ m \in Messages /\ onWire' = onWire \cup {m}
      /\ \/ rings' = rings
         \/ rings' = [rings EXCEPT ![r] = Append(@, m)]
  BY <1>2, PassingIs
<1>4. rings' \in [Rings -> Seq(Messages)]
  <2>1. rings \in [Rings -> Seq(Messages)]
    BY DEF IndInv, TypeOK
  <2>2. Append(rings[r], m) \in Seq(Messages)
    BY <1>3, <2>1
  <2> QED
    BY <1>3, <2>1, <2>2
<1>5. Handled' = Handled /\ Halves' = Halves
  BY <1>1 DEF Handled, Halves
<1>6. TypeOK'
  BY <1>1, <1>3, <1>4 DEF IndInv, TypeOK, Waiting, KeyOf
<1>7. Places' /\ Turns'
  BY <1>1, <1>5 DEF IndInv, Places, Turns, WaitsUpTo, KeyOf
<1>8. TruePairs'
  BY <1>1, <1>5 DEF IndInv, TruePairs
<1>9. CompletedExact'
  BY <1>1 DEF IndInv, CompletedExact, Recordable, Latency, Time
<1>10. Wire' /\ Order' /\ Streams' /\ Conversing'
  BY CaptureWire, CaptureStreams, CaptureConversing
<1> QED
  BY <1>6, <1>7, <1>8, <1>9, <1>10 DEF IndInv

-----------------------------------------------------------------------------
(* The turns of the rings.                                                 *)

LEMMA Products ==
  ASSUME NEW a \in Nat, NEW k \in Nat
  PROVE  a * k \in Nat /\ (a + 1) * k = a * k + k
OBVIOUS

\* The bound has one form for each place of the turn.
LEMMA WaitsUpToIs ==
  ASSUME NEW r \in Rings, at \in 0 .. NumRings, limit \in 1 .. MaxPolls
  PROVE  /\ at = 0 => WaitsUpTo(r) = (NumRings - r) * (MaxPolls - 1)
         /\ r = at => WaitsUpTo(r) = (NumRings - 1) * (MaxPolls - 1)
         /\ r < at => WaitsUpTo(r) = (at - r - 1) * (MaxPolls - 1) + (MaxPolls - limit)
         /\ at # 0 /\ r > at =>
              WaitsUpTo(r) = (NumRings - r + at - 1) * (MaxPolls - 1) + (MaxPolls - limit)
         /\ WaitsUpTo(r) \in Nat
<1>1. /\ NumRings \in Nat \ {0} /\ MaxPolls - 1 \in Nat /\ r \in 1 .. NumRings
      /\ MaxPolls \in Nat /\ MaxPolls - limit \in Nat
  BY RingsAssumption, LimitsAssumption DEF Rings
<1> DEFINE k == MaxPolls - 1
<1>2. CASE at = 0
  <2>1. WaitsUpTo(r) = (NumRings - r) * k
    BY <1>2 DEF WaitsUpTo
  <2>2. NumRings - r \in Nat
    BY <1>1
  <2>3. (NumRings - r) * k \in Nat
    BY <1>1, <2>2, Products
  <2> QED
    BY <1>1, <1>2, <2>1, <2>3
<1>3. CASE r = at
  <2>1. WaitsUpTo(r) = (NumRings - 1) * k
    BY <1>1, <1>3 DEF WaitsUpTo
  <2>2. NumRings - 1 \in Nat
    BY <1>1
  <2>3. (NumRings - 1) * k \in Nat
    BY <1>1, <2>2, Products
  <2> QED
    BY <1>1, <1>3, <2>1, <2>3
<1>4. CASE r < at
  <2>1. WaitsUpTo(r) = (at - r - 1) * k + (MaxPolls - limit)
    BY <1>1, <1>4 DEF WaitsUpTo
  <2>2. at - r - 1 \in Nat
    BY <1>1, <1>4
  <2>3. (at - r - 1) * k \in Nat
    BY <1>1, <2>2, Products
  <2> QED
    BY <1>1, <1>4, <2>1, <2>3
<1>5. CASE at # 0 /\ r > at
  <2>1. WaitsUpTo(r) = (NumRings - r + at - 1) * k + (MaxPolls - limit)
    BY <1>1, <1>5 DEF WaitsUpTo
  <2>2. NumRings - r + at - 1 \in Nat
    BY <1>1, <1>5
  <2>3. (NumRings - r + at - 1) * k \in Nat
    BY <1>1, <2>2, Products
  <2> QED
    BY <1>1, <1>5, <2>1, <2>3
<1>6. at = 0 \/ r = at \/ r < at \/ (at # 0 /\ r > at)
  BY <1>1
<1> QED
  BY <1>2, <1>3, <1>4, <1>5, <1>6

LEMMA StartRoundTurns ==
  ASSUME TypeOK, Turns, StartRound
  PROVE  at' \in 0 .. NumRings /\ Turns'
<1>1. /\ at = 0 /\ at' = 1 /\ limit = MaxPolls /\ limit' = MaxPolls /\ waited' = waited
      /\ at \in 0 .. NumRings /\ limit \in 1 .. MaxPolls
      /\ NumRings \in Nat \ {0} /\ MaxPolls \in Nat
  BY RingsAssumption, LimitsAssumption DEF StartRound, Turns, TypeOK
<1>2. at' \in 0 .. NumRings
  BY <1>1
<1>3. ASSUME NEW r \in Rings
      PROVE  waited[r] <= WaitsUpTo(r)'
  <2>1. waited[r] <= (NumRings - r) * (MaxPolls - 1)
    BY <1>1, WaitsUpToIs DEF Turns
  <2>2. r \in 1 .. NumRings
    BY DEF Rings
  <2>3. CASE r = 1
    <3>1. WaitsUpTo(r)' = (NumRings - 1) * (MaxPolls - 1)
      BY <1>1, <2>3 DEF WaitsUpTo
    <3> QED
      BY <2>1, <2>3, <3>1
  <2>4. CASE r > 1
    <3>1. WaitsUpTo(r)' = (NumRings - r + 1 - 1) * (MaxPolls - 1) + (MaxPolls - MaxPolls)
      BY <1>1, <2>4, <2>2 DEF WaitsUpTo
    <3>2. NumRings - r + 1 - 1 = NumRings - r /\ NumRings - r \in Nat
      BY <1>1, <2>2
    <3>3. (NumRings - r) * (MaxPolls - 1) \in Nat
      BY <1>1, <3>2, LimitsAssumption, Products
    <3> QED
      BY <1>1, <2>1, <3>1, <3>2, <3>3
  <2> QED
    BY <2>2, <2>3, <2>4
<1> QED
  BY <1>1, <1>2, <1>3 DEF Turns

LEMMA NextRingTurns ==
  ASSUME TypeOK, Turns, NextRing
  PROVE  at' \in 0 .. NumRings /\ Turns'
<1>1. /\ at \in 1 .. NumRings /\ at' = After(at) /\ limit' = MaxPolls
      /\ waited' = [waited EXCEPT ![at] = 0] /\ waited \in [Rings -> Nat]
      /\ limit \in 1 .. MaxPolls /\ NumRings \in Nat \ {0}
      /\ MaxPolls \in Nat \ {0, 1} /\ MaxPolls - 1 \in Nat
  BY RingsAssumption, LimitsAssumption DEF NextRing, TypeOK, Rings
<1>2. at' \in 0 .. NumRings /\ at' = IF at = NumRings THEN 0 ELSE at + 1
  BY <1>1 DEF After
<1>3. ASSUME NEW r \in Rings, r = at
      PROVE  waited'[r] <= WaitsUpTo(r)'
  <2>1. WaitsUpTo(r)' \in Nat
    <3>1. at' = 0 \/ at' = r + 1
      BY <1>2, <1>3
    <3>2. r \in 1 .. NumRings
      BY DEF Rings
    <3>3. CASE at' = 0
      <4>1. WaitsUpTo(r)' = (NumRings - r) * (MaxPolls - 1)
        BY <3>3 DEF WaitsUpTo
      <4>2. NumRings - r \in Nat
        BY <1>1, <3>2
      <4> QED
        BY <1>1, <4>1, <4>2, Products
    <3>4. CASE at' = r + 1
      <4>1. WaitsUpTo(r)' = (r + 1 - r - 1) * (MaxPolls - 1) + (MaxPolls - MaxPolls)
        BY <1>1, <3>2, <3>4 DEF WaitsUpTo
      <4>2. r + 1 - r - 1 = 0 /\ 0 \in Nat /\ MaxPolls - MaxPolls = 0
        BY <1>1, <3>2
      <4>3. 0 * (MaxPolls - 1) \in Nat
        BY <1>1, Products
      <4> QED
        BY <4>1, <4>2, <4>3
    <3> QED
      BY <3>1, <3>3, <3>4
  <2> QED
    BY <1>1, <1>2, <1>3, <2>1
<1>4. ASSUME NEW r \in Rings, r # at
      PROVE  waited'[r] <= WaitsUpTo(r)'
  <2>1. /\ r \in 1 .. NumRings /\ waited[r] \in Nat /\ waited'[r] = waited[r]
        /\ waited[r] <= WaitsUpTo(r)
    BY <1>1, <1>4 DEF Rings, Turns
  <2> DEFINE k == MaxPolls - 1
  <2>2. CASE r < at
    <3>1. /\ at - r - 1 \in Nat /\ (at - r - 1) + 1 = at - r
          /\ WaitsUpTo(r) = (at - r - 1) * k + (MaxPolls - limit)
      BY <1>1, <2>1, <2>2, WaitsUpToIs
    <3>2. (at - r - 1) * k \in Nat /\ ((at - r - 1) + 1) * k = (at - r - 1) * k + k
      BY <1>1, <3>1, Products
    <3>3. waited[r] <= (at - r) * k
      BY <1>1, <2>1, <3>1, <3>2
    <3>4. CASE at = NumRings
      <4>1. WaitsUpTo(r)' = (NumRings - r) * k
        BY <1>2, <3>4 DEF WaitsUpTo
      <4> QED
        BY <2>1, <3>3, <3>4, <4>1
    <3>5. CASE at # NumRings
      <4>1. WaitsUpTo(r)' = (at + 1 - r - 1) * k + (MaxPolls - MaxPolls)
        BY <1>1, <1>2, <2>1, <2>2, <3>5 DEF WaitsUpTo
      <4>2. at + 1 - r - 1 = at - r /\ MaxPolls - MaxPolls = 0 /\ (at - r) * k \in Nat
        BY <1>1, <2>1, <3>1, <3>2
      <4> QED
        BY <2>1, <3>3, <4>1, <4>2
    <3> QED
      BY <3>4, <3>5
  <2>3. CASE r > at
    <3>1. /\ NumRings - r + at - 1 \in Nat /\ (NumRings - r + at - 1) + 1 = NumRings - r + at
          /\ WaitsUpTo(r) = (NumRings - r + at - 1) * k + (MaxPolls - limit)
          /\ at' = at + 1
      BY <1>1, <1>2, <2>1, <2>3, WaitsUpToIs
    <3>2. /\ (NumRings - r + at - 1) * k \in Nat
          /\ ((NumRings - r + at - 1) + 1) * k = (NumRings - r + at - 1) * k + k
      BY <1>1, <3>1, Products
    <3>3. waited[r] <= (NumRings - r + at) * k
      BY <1>1, <2>1, <3>1, <3>2
    <3>4. CASE r = at + 1
      <4>1. WaitsUpTo(r)' = (NumRings - 1) * k
        BY <1>1, <3>1, <3>4 DEF WaitsUpTo
      <4>2. NumRings - r + at = NumRings - 1
        BY <1>1, <3>4
      <4> QED
        BY <2>1, <3>3, <4>1, <4>2
    <3>5. CASE r > at + 1
      <4>1. WaitsUpTo(r)' = (NumRings - r + (at + 1) - 1) * k + (MaxPolls - MaxPolls)
        BY <1>1, <2>1, <3>1, <3>5 DEF WaitsUpTo
      <4>2. /\ NumRings - r + (at + 1) - 1 = NumRings - r + at /\ MaxPolls - MaxPolls = 0
            /\ (NumRings - r + at) * k \in Nat
        BY <1>1, <2>1, <3>1, <3>2
      <4> QED
        BY <2>1, <3>3, <4>1, <4>2
    <3> QED
      BY <1>1, <2>1, <2>3, <3>4, <3>5
  <2> QED
    BY <1>1, <1>4, <2>1, <2>2, <2>3
<1>5. \A r \in Rings : waited'[r] <= WaitsUpTo(r)'
  BY <1>3, <1>4
<1> QED
  BY <1>1, <1>2, <1>5 DEF Turns

LEMMA HandleRecordTurns ==
  ASSUME TypeOK, Turns, HandleRecord
  PROVE  Turns'
<1>1. /\ at \in 1 .. NumRings /\ at' = at /\ limit' = limit - 1
      /\ waited' = [r \in Rings |-> IF r = at THEN 0 ELSE waited[r] + 1]
      /\ waited \in [Rings -> Nat] /\ limit \in 1 .. MaxPolls /\ limit > 1
      /\ NumRings \in Nat \ {0} /\ MaxPolls \in Nat \ {0, 1}
  BY RingsAssumption, LimitsAssumption DEF HandleRecord, TypeOK, Rings, CountDown
<1>2. ASSUME NEW r \in Rings
      PROVE  waited'[r] <= WaitsUpTo(r)'
  <2>1. r \in 1 .. NumRings /\ waited[r] \in Nat /\ waited[r] <= WaitsUpTo(r)
    BY <1>1 DEF Rings, Turns
  <2>2. WaitsUpTo(r) \in Nat
    BY <1>1, WaitsUpToIs
  <2>3. CASE r = at
    <3>1. WaitsUpTo(r)' = WaitsUpTo(r) /\ waited'[r] = 0
      BY <1>1, <2>3 DEF WaitsUpTo
    <3> QED
      BY <2>2, <3>1
  <2>4. CASE r # at
    <3>1. waited'[r] = waited[r] + 1
      BY <1>1, <2>4
    <3>2. CASE r < at
      <4> DEFINE p == (at - r - 1) * (MaxPolls - 1)
      <4>1. /\ WaitsUpTo(r) = p + (MaxPolls - limit)
            /\ WaitsUpTo(r)' = p + (MaxPolls - (limit - 1))
        BY <1>1, <2>1, <3>2, WaitsUpToIs DEF WaitsUpTo
      <4>2. p \in Nat
        <5>1. at - r - 1 \in Nat /\ MaxPolls - 1 \in Nat
          BY <1>1, <2>1, <3>2
        <5> QED
          BY <5>1, Products
      <4> HIDE DEF p
      <4> QED
        BY <1>1, <2>1, <3>1, <4>1, <4>2
    <3>3. CASE r > at
      <4> DEFINE p == (NumRings - r + at - 1) * (MaxPolls - 1)
      <4>1. /\ WaitsUpTo(r) = p + (MaxPolls - limit)
            /\ WaitsUpTo(r)' = p + (MaxPolls - (limit - 1))
        BY <1>1, <2>1, <3>3, WaitsUpToIs DEF WaitsUpTo
      <4>2. p \in Nat
        <5>1. NumRings - r + at - 1 \in Nat /\ MaxPolls - 1 \in Nat
          BY <1>1, <2>1, <3>3
        <5> QED
          BY <5>1, Products
      <4> HIDE DEF p
      <4> QED
        BY <1>1, <2>1, <3>1, <4>1, <4>2
    <3> QED
      BY <1>1, <2>1, <2>4, <3>2, <3>3
  <2> QED
    BY <2>3, <2>4
<1> QED
  BY <1>1, <1>2 DEF Turns

\* Between two turns of a ring every other ring has at most one.
LEMMA TurnsBound == TypeOK /\ Turns => NoStarvation
<1> SUFFICES ASSUME TypeOK, Turns, NEW r \in Rings
             PROVE  waited[r] <= (NumRings - 1) * (MaxPolls - 1)
  BY DEF NoStarvation
<1>1. /\ NumRings \in Nat \ {0} /\ MaxPolls - 1 \in Nat /\ MaxPolls \in Nat
      /\ r \in 1 .. NumRings /\ at \in 0 .. NumRings /\ limit \in 1 .. MaxPolls
      /\ waited[r] \in Nat /\ waited[r] <= WaitsUpTo(r)
  BY RingsAssumption, LimitsAssumption DEF TypeOK, Turns, Rings
<1> DEFINE k == MaxPolls - 1
<1>2. \A a, b \in Nat : a <= b => a * k <= b * k
  BY <1>1
<1>3. CASE at = 0
  <2>1. /\ NumRings - r \in Nat /\ NumRings - 1 \in Nat /\ NumRings - r <= NumRings - 1
        /\ WaitsUpTo(r) = (NumRings - r) * k
    BY <1>1, <1>3, WaitsUpToIs
  <2>2. (NumRings - r) * k <= (NumRings - 1) * k
    BY <1>2, <2>1
  <2>3. (NumRings - r) * k \in Nat /\ (NumRings - 1) * k \in Nat
    BY <1>1, <2>1, Products
  <2> QED
    BY <1>1, <2>1, <2>2, <2>3
<1>4. CASE r = at
  BY <1>1, <1>4, WaitsUpToIs
<1>5. CASE r < at
  <2>1. /\ at - r - 1 \in Nat /\ NumRings - 1 \in Nat
        /\ (at - r - 1) + 1 \in Nat /\ (at - r - 1) + 1 <= NumRings - 1
        /\ WaitsUpTo(r) = (at - r - 1) * k + (MaxPolls - limit)
    BY <1>1, <1>5, WaitsUpToIs
  <2>2. ((at - r - 1) + 1) * k <= (NumRings - 1) * k
    BY <1>2, <2>1
  <2>3. /\ (at - r - 1) * k \in Nat /\ ((at - r - 1) + 1) * k = (at - r - 1) * k + k
        /\ (NumRings - 1) * k \in Nat
    BY <1>1, <2>1, Products
  <2> QED
    BY <1>1, <2>1, <2>2, <2>3
<1>6. CASE at # 0 /\ r > at
  <2> DEFINE t == NumRings - r + at - 1
  <2>1. /\ t \in Nat /\ NumRings - 1 \in Nat /\ t + 1 \in Nat /\ t + 1 <= NumRings - 1
        /\ WaitsUpTo(r) = t * k + (MaxPolls - limit)
    BY <1>1, <1>6, WaitsUpToIs
  <2>2. (t + 1) * k <= (NumRings - 1) * k
    BY <1>2, <2>1
  <2>3. t * k \in Nat /\ (t + 1) * k = t * k + k /\ (NumRings - 1) * k \in Nat
    BY <1>1, <2>1, Products
  <2> QED
    BY <1>1, <2>1, <2>2, <2>3
<1> QED
  BY <1>1, <1>3, <1>4, <1>5, <1>6

-----------------------------------------------------------------------------
(* A summary is handled and released.                                      *)

LEMMA HeadIs ==
  ASSUME IndInv, HandleRecord, NEW m, m = Head(rings[at])
  PROVE  /\ at \in Rings /\ m \in Messages /\ m \in onWire /\ m.ring = at /\ m.role # "other"
         /\ m \notin Handled
         /\ Stream(at, rings'[at], released'[at], onWire)
         /\ rings' = [rings EXCEPT ![at] = Tail(@)]
         /\ released' = [released EXCEPT ![at] = Append(@, m)]
         /\ rings' \in [Rings -> Seq(Messages)] /\ released' \in [Rings -> Seq(Messages)]
         /\ ToSet(rings[at]) = {m} \cup ToSet(rings'[at])
         /\ ToSet(released'[at]) = ToSet(released[at]) \cup {m}
         /\ \A k \in ToSet(released[at]) : k.serial < m.serial
<1> DEFINE s == rings[at]
           t == Tail(s)
           out == released[at]
<1>1. /\ at \in Rings /\ s # <<>>
      /\ rings' = [rings EXCEPT ![at] = Tail(@)]
      /\ released' = [released EXCEPT ![at] = Append(@, m)]
      /\ rings \in [Rings -> Seq(Messages)] /\ released \in [Rings -> Seq(Messages)]
  BY DEF HandleRecord, IndInv, TypeOK
<1>2. s \in Seq(Messages) /\ out \in Seq(Messages) /\ Stream(at, s, out, onWire)
  BY <1>1 DEF IndInv, Streams
<1>3. rings'[at] = t /\ released'[at] = Append(out, m)
  BY <1>1
<1> HIDE DEF s, out
<1>4. /\ t \in Seq(Messages) /\ Len(s) \in Nat \ {0} /\ Len(t) = Len(s) - 1
      /\ m = s[1] /\ m \in Messages
      /\ \A i \in 1 .. Len(s) - 1 : t[i] = s[i + 1]
      /\ ToSet(s) = {m} \cup ToSet(t)
  BY <1>1, <1>2, Pops DEF s
<1>5. Append(out, m) \in Seq(Messages) /\ ToSet(Append(out, m)) = ToSet(out) \cup {m}
  BY <1>2, <1>4, Puts
<1>6. rings' \in [Rings -> Seq(Messages)] /\ released' \in [Rings -> Seq(Messages)]
  BY <1>1, <1>4, <1>5 DEF s, out
<1>7. 1 \in 1 .. Len(s)
  BY <1>4
<1>8. m \in onWire /\ m.ring = at /\ m.role # "other" /\ Captured(m, at, onWire)
  BY <1>2, <1>4, <1>7 DEF Stream, Captured
<1>9. \A k \in ToSet(out) : k.serial < m.serial
  BY <1>2, <1>4, <1>7 DEF Stream
<1>10. m \notin Handled
  <2> SUFFICES ASSUME m \in Handled PROVE FALSE
    OBVIOUS
  <2>1. PICK r \in Rings : m \in ToSet(released[r])
    BY HandledIs
  <2>2. m.ring = r
    BY <2>1 DEF IndInv, Streams, Stream, Captured
  <2>3. m.serial < m.serial
    BY <1>8, <1>9, <2>1, <2>2 DEF out
  <2>4. m.serial \in Nat
    BY <1>4 DEF Messages
  <2> QED
    BY <2>3, <2>4
<1> HIDE DEF t
<1>11. \A i \in 1 .. Len(t) : i + 1 \in 1 .. Len(s) /\ t[i] = s[i + 1]
  BY <1>4
<1>12. Stream(at, t, Append(out, m), onWire)
  <2>1. \A i \in 1 .. Len(t) : Captured(t[i], at, onWire)
    BY <1>2, <1>11 DEF Stream
  <2>2. \A k \in ToSet(Append(out, m)) : Captured(k, at, onWire)
    BY <1>2, <1>5, <1>8 DEF Stream
  <2>3. ASSUME NEW i \in 1 .. Len(t), NEW j \in 1 .. Len(t), i < j
        PROVE  t[i].serial < t[j].serial
    <3>1. i + 1 \in 1 .. Len(s) /\ j + 1 \in 1 .. Len(s) /\ i + 1 < j + 1
      BY <1>11, <2>3
    <3>2. s[i + 1].serial < s[j + 1].serial
      BY <1>2, <3>1 DEF Stream
    <3> QED
      BY <1>11, <3>2
  <2>4. ASSUME NEW k \in ToSet(Append(out, m)), NEW i \in 1 .. Len(t)
        PROVE  k.serial < t[i].serial
    <3>1. i + 1 \in 1 .. Len(s) /\ 1 < i + 1 /\ t[i] = s[i + 1]
      BY <1>11
    <3>2. CASE k = m
      BY <1>2, <1>4, <1>7, <3>1, <3>2 DEF Stream
    <3>3. CASE k \in ToSet(out)
      BY <1>2, <3>1, <3>3 DEF Stream
    <3> QED
      BY <1>5, <3>2, <3>3
  <2> QED
    BY <2>1, <2>2, <2>3, <2>4 DEF Stream
<1> QED
  BY <1>1, <1>3, <1>4, <1>5, <1>6, <1>8, <1>9, <1>10, <1>12 DEF s, out

LEMMA HandleRecordSets ==
  ASSUME IndInv, HandleRecord, NEW m, m = Head(rings[at])
  PROVE  /\ Handled' = Handled \cup {m} /\ Published' = Published
         /\ Streams' /\ Wire' /\ Order' /\ onWire' = onWire
<1>1. onWire' = onWire
  BY DEF HandleRecord
<1>2. /\ at \in Rings
      /\ \A r \in Rings : r # at => rings'[r] = rings[r] /\ released'[r] = released[r]
  BY HeadIs DEF IndInv, TypeOK
<1>3. Streams'
  BY <1>1, <1>2, HeadIs DEF IndInv, Streams
<1>4. Wire' /\ Order'
  BY <1>1 DEF IndInv, Wire, Order, Before
<1>5. /\ ToSet(rings[at]) = {m} \cup ToSet(rings'[at])
      /\ ToSet(released'[at]) = ToSet(released[at]) \cup {m}
  BY HeadIs
<1>6. \A x : x \in Handled' <=> \E r \in Rings : x \in ToSet(released'[r])
  BY DEF Handled
<1>7. \A x : x \in Handled <=> \E r \in Rings : x \in ToSet(released[r])
  BY DEF Handled
<1>8. \A x : x \in Handled' <=> (x \in Handled \/ x = m)
  BY <1>2, <1>5, <1>6, <1>7
<1>9. \A x : x \in Published' <=>
                 (x \in Handled' \/ \E r \in Rings : x \in ToSet(rings'[r]))
  BY DEF Published
<1>10. \A x : x \in Published <=>
                  (x \in Handled \/ \E r \in Rings : x \in ToSet(rings[r]))
  BY DEF Published
<1>11. \A x : x \in Published' <=> x \in Published
  BY <1>2, <1>5, <1>8, <1>9, <1>10
<1> QED
  BY <1>1, <1>3, <1>4, <1>8, <1>11

\* The pair that a match finds: one half was in the table, the other is m.
LEMMA MatchIs ==
  ASSUME IndInv, HandleRecord, NEW m, m = Head(rings[at]), NEW n \in table, Match(m, n)
  PROVE  \E b, e \in Messages :
           /\ matched' = matched \cup {<<b, e>>} /\ PairUp(b, e)
           /\ (b = m /\ e = n) \/ (b = n /\ e = m)
           /\ total' = IF Recordable(<<b, e>>) THEN total + 1 ELSE total
<1>1. /\ m \in Messages /\ m.role # "other" /\ n \in Messages /\ n.role # "other"
  BY HeadIs, HandledIs DEF IndInv, Places
<1>2. KeyOf(m) = KeyOf(n) /\ IsComplement(m, n)
  BY DEF Match, Waiting
<1>3. IF IsBegin(m) THEN PairUp(m, n) ELSE PairUp(n, m)
  BY <1>1, <1>2, Complements
<1>4. CASE IsBegin(m)
  BY <1>1, <1>3, <1>4 DEF Match
<1>5. CASE ~IsBegin(m)
  BY <1>1, <1>3, <1>5 DEF Match
<1> QED
  BY <1>4, <1>5

LEMMA HalvesIs ==
  \A x : x \in Halves <=> \E p \in matched : x = p[1] \/ x = p[2]
BY DEF Halves

LEMMA HandlePlaces ==
  ASSUME IndInv, HandleRecord
  PROVE  Places' /\ TruePairs'
<1>1. PICK m : m = Head(rings[at])
  OBVIOUS
<1>2. m \notin Handled /\ m \in Messages
  BY <1>1, HeadIs
<1>3. Handled' = Handled \cup {m}
  BY <1>1, HandleRecordSets
<1>4. /\ Handled = table \cup ignored \cup Halves
      /\ table \cap Halves = {}
      /\ \A k, n \in table : KeyOf(k) = KeyOf(n) => k = n
      /\ IsFiniteSet(matched)
  BY DEF IndInv, Places
<1>5. /\ \A p \in matched : PairUp(p[1], p[2]) /\ p[1] \in Handled /\ p[2] \in Handled
      /\ \A p, q \in matched : p # q => p[1] # q[1] /\ p[2] # q[2]
  BY DEF IndInv, TruePairs
<1>6. /\ \A x : x \in Halves <=> \E p \in matched : x = p[1] \/ x = p[2]
      /\ \A x : x \in Halves' <=> \E p \in matched' : x = p[1] \/ x = p[2]
  BY DEF Halves
<1>7. ASSUME NEW n \in table, Match(m, n)
      PROVE  Places' /\ TruePairs'
  <2>1. PICK b, e \in Messages :
          /\ matched' = matched \cup {<<b, e>>} /\ PairUp(b, e)
          /\ (b = m /\ e = n) \/ (b = n /\ e = m)
          /\ total' = IF Recordable(<<b, e>>) THEN total + 1 ELSE total
    BY <1>1, <1>7, MatchIs
  <2>2. table' = table \ {n} /\ ignored' = ignored
    BY <1>7 DEF Match
  <2> DEFINE pair == <<b, e>>
  <2>3. pair[1] = b /\ pair[2] = e
    OBVIOUS
  <2> HIDE DEF pair
  <2>4. matched' = matched \cup {pair}
    BY <2>1 DEF pair
  <2>5. \A x : x \in Halves' <=> (x \in Halves \/ x = m \/ x = n)
    BY <1>6, <2>1, <2>3, <2>4
  <2>6. Handled' = table' \cup ignored' \cup Halves'
    BY <1>3, <1>4, <1>7, <2>2, <2>5
  <2>7. table' \cap Halves' = {}
    BY <1>2, <1>4, <2>2, <2>5
  <2>8. \A k, x \in table' : KeyOf(k) = KeyOf(x) => k = x
    BY <1>4, <2>2
  <2>9. IsFiniteSet(matched')
    BY <1>4, <2>4, FS_AddElement
  <2>10. Places'
    BY <2>6, <2>7, <2>8, <2>9 DEF Places, KeyOf
  <2>11. \A p \in matched : p[1] \in Halves /\ p[2] \in Halves
    BY <1>6
  <2>12. \A p \in matched : p[1] # b /\ p[2] # e
    BY <1>2, <1>4, <1>5, <1>7, <2>1, <2>11
  <2>13. \A p, q \in matched' : p # q => p[1] # q[1] /\ p[2] # q[2]
    BY <1>5, <2>3, <2>4, <2>12
  <2>14. \A p \in matched' : PairUp(p[1], p[2]) /\ p[1] \in Handled' /\ p[2] \in Handled'
    BY <1>3, <1>4, <1>5, <1>7, <2>1, <2>3, <2>4
  <2> QED
    BY <2>10, <2>13, <2>14 DEF TruePairs
<1>8. ASSUME matched' = matched
      PROVE  TruePairs' /\ Halves' = Halves
  <2>1. \A p \in matched' : PairUp(p[1], p[2]) /\ p[1] \in Handled' /\ p[2] \in Handled'
    BY <1>3, <1>5, <1>8
  <2> QED
    BY <1>5, <1>8, <2>1 DEF TruePairs, Halves
<1>9. ASSUME NEW n \in table, Ignore(m, n)
      PROVE  Places' /\ TruePairs'
  <2>1. matched' = matched /\ table' = table /\ ignored' = ignored \cup {m}
    BY <1>9 DEF Ignore
  <2>2. Places'
    BY <1>3, <1>4, <1>8, <2>1 DEF Places, KeyOf
  <2> QED
    BY <1>8, <2>1, <2>2
<1>10. ASSUME Store(m)
       PROVE  Places' /\ TruePairs'
  <2>1. matched' = matched /\ table' = table \cup {m} /\ ignored' = ignored
    BY <1>10 DEF Store
  <2>2. \A x \in table : KeyOf(x) # KeyOf(m)
    BY <1>10 DEF Store, Waiting
  <2>3. \A k, x \in table' : KeyOf(k) = KeyOf(x) => k = x
    BY <1>4, <2>1, <2>2
  <2>4. table' \cap Halves' = {}
    BY <1>2, <1>4, <1>8, <2>1
  <2>5. Places'
    BY <1>3, <1>4, <1>8, <2>1, <2>3, <2>4 DEF Places, KeyOf
  <2> QED
    BY <1>8, <2>1, <2>5
<1> QED
  BY <1>1, <1>7, <1>9, <1>10 DEF HandleRecord, CalculateLatency

LEMMA HandleCompleted ==
  ASSUME IndInv, HandleRecord
  PROVE  CompletedExact' /\ total' \in Nat /\ completed' \in Nat
<1>1. PICK m : m = Head(rings[at])
  OBVIOUS
<1>2. /\ completed' = completed /\ total \in Nat /\ completed \in Nat
      /\ completed + total = Cardinality({p \in matched : Recordable(p)})
      /\ IsFiniteSet(matched) /\ m \notin Handled
      /\ \A p \in matched : p[1] \in Handled /\ p[2] \in Handled
  BY <1>1, HeadIs DEF HandleRecord, IndInv, TypeOK, CompletedExact, Places, TruePairs
<1> DEFINE R == {p \in matched : Recordable(p)}
<1>3. ASSUME NEW n \in table, Match(m, n)
      PROVE  CompletedExact' /\ total' \in Nat
  <2>1. PICK b, e \in Messages :
          /\ matched' = matched \cup {<<b, e>>} /\ PairUp(b, e)
          /\ (b = m /\ e = n) \/ (b = n /\ e = m)
          /\ total' = IF Recordable(<<b, e>>) THEN total + 1 ELSE total
    BY <1>1, <1>3, MatchIs
  <2>2. <<b, e>> \notin matched
    BY <1>2, <2>1
  <2>3. IsFiniteSet(R) /\ R \subseteq matched
    BY <1>2, FS_Subset
  <2>4. CASE Recordable(<<b, e>>)
    <3>1. {p \in matched' : Recordable(p)} = R \cup {<<b, e>>}
      BY <2>1, <2>4
    <3>2. Cardinality(R \cup {<<b, e>>}) = Cardinality(R) + 1
      BY <2>2, <2>3, FS_AddElement
    <3>3. total' = total + 1
      BY <2>1, <2>4
    <3>4. completed' + total' = Cardinality({p \in matched' : Recordable(p)})
      <4>1. completed + total = Cardinality(R)
        BY <1>2
      <4> HIDE DEF R
      <4>2. completed' + total' = Cardinality(R \cup {<<b, e>>})
        BY <1>2, <3>2, <3>3, <4>1
      <4> QED
        BY <3>1, <4>2, Zenon
    <3> QED
      BY <1>2, <3>3, <3>4 DEF CompletedExact, Recordable, Latency, Time
  <2>5. CASE ~Recordable(<<b, e>>)
    <3>1. {p \in matched' : Recordable(p)} = R
      BY <2>1, <2>5
    <3>2. total' = total
      BY <2>1, <2>5
    <3> QED
      BY <1>2, <3>1, <3>2 DEF CompletedExact, Recordable, Latency, Time
  <2> QED
    BY <2>4, <2>5
<1>4. ASSUME matched' = matched, total' = total
      PROVE  CompletedExact' /\ total' \in Nat
  BY <1>2, <1>4 DEF CompletedExact, Recordable, Latency, Time
<1> QED
  BY <1>1, <1>2, <1>3, <1>4 DEF HandleRecord, CalculateLatency, Ignore, Store

\* After a message of the conversation there is a last one before m.
LEMMA PreviousIs ==
  ASSUME Wire, NEW m \in onWire, NEW x \in onWire, x.conv = m.conv, x.serial < m.serial
  PROVE  \E p \in onWire : Before(p, m) /\ x.serial <= p.serial
<1> DEFINE T == {k.serial : k \in {n \in onWire : n.conv = m.conv /\ n.serial < m.serial}}
<1>1. Cardinality(onWire) \in Nat
  BY FS_CardinalityType DEF Wire
<1>2. T \in SUBSET (0 .. Cardinality(onWire)) /\ x.serial \in T
  BY <1>1 DEF Wire, Messages
<1> HIDE DEF T
<1>3. PICK t \in T : \A u \in T : u <= t
  BY <1>1, <1>2, Greatest
<1>4. PICK p \in onWire : p.conv = m.conv /\ p.serial < m.serial /\ p.serial = t
  BY <1>3 DEF T
<1>5. \A k \in onWire : k.conv = m.conv /\ k.serial < m.serial => k.serial <= t
  BY <1>3 DEF T
<1>6. \A k \in onWire : k.serial \in Nat
  BY DEF Wire, Messages
<1> QED
  BY <1>2, <1>3, <1>4, <1>5, <1>6 DEF Before

\* Between two requests of a conversation there is an answer.
LEMMA BetweenRequests ==
  ASSUME Wire, Order, NEW x \in onWire, NEW m \in onWire, x.conv = m.conv,
         x.role = "request", m.role = "request", x.serial < m.serial
  PROVE  \E a \in onWire : /\ a.conv = m.conv /\ a.role = "answer"
                           /\ x.serial < a.serial /\ a.serial < m.serial
<1>1. PICK p \in onWire : Before(p, m) /\ x.serial <= p.serial
  BY PreviousIs
<1>2. p.role # "request" /\ p.conv = m.conv /\ p.serial < m.serial
  BY <1>1 DEF Order, Before
<1>3. p.role \in {"answer", "other"}
  BY <1>2 DEF Wire, Messages, Roles
<1>4. \A k, n \in onWire : k.serial \in Nat /\ (k.role # n.role => k.serial # n.serial)
  BY DEF Wire, Messages
<1>5. CASE p.role = "answer"
  BY <1>1, <1>2, <1>4, <1>5
<1>6. CASE p.role = "other"
  <2>1. PICK a \in onWire : Before(a, p) /\ a.role = "answer"
    BY <1>6 DEF Order
  <2>2. x.serial <= a.serial \/ p.serial <= x.serial
    BY <1>2, <2>1 DEF Before
  <2>3. x.serial # p.serial /\ x.serial # a.serial /\ a.serial < p.serial /\ a.conv = p.conv
    BY <1>4, <1>6, <2>1 DEF Before
  <2> QED
    BY <1>1, <1>2, <1>4, <2>1, <2>2, <2>3
<1> QED
  BY <1>3, <1>5, <1>6

\* A key has one use when its conversation is alone in it.
LEMMA OnlyUse ==
  ASSUME NEW c \in Conversations, OwnKey(c), NEW m \in Messages, NEW n \in Messages,
         m.conv = c, KeyOf(n) = KeyOf(m)
  PROVE  n.conv = c
<1>1. "request" \in Roles /\ m.role \in Roles /\ n.role \in Roles /\ n.conv \in Conversations
  BY DEF Messages, Roles
<1>2. KeyOf(m) = Summary[c]["request"].key /\ KeyOf(n) = Summary[n.conv]["request"].key
  BY <1>1, SummaryIs, ZenonT(30) DEF KeyOf
<1> QED
  BY <1>1, <1>2 DEF OwnKey

LEMMA SameKey ==
  ASSUME NEW m \in Messages, NEW n \in Messages, m.conv = n.conv
  PROVE  KeyOf(m) = KeyOf(n)
<1>1. m.role \in Roles /\ n.role \in Roles /\ n.conv \in Conversations
  BY DEF Messages
<1> QED
  BY <1>1, SummaryIs DEF KeyOf

\* What was released before the next summary of a whole conversation.
LEMMA WholeIs ==
  ASSUME IndInv, HandleRecord, NEW m, m = Head(rings[at]),
         NEW c \in Conversations, NEW q \in Rings, Whole(c, q), m.conv = c
  PROVE  /\ q = at
         /\ \A k \in Own(c) : k.serial < m.serial => k \in Handled
         /\ \A k \in Handled : k.conv = c => k \in Own(c) /\ k.serial < m.serial
<1>1. /\ at \in Rings /\ m \in Messages /\ m \in onWire /\ m.ring = at /\ m.role # "other"
      /\ Stream(at, rings'[at], released'[at], onWire)
      /\ ToSet(rings[at]) = {m} \cup ToSet(rings'[at])
      /\ ToSet(released'[at]) = ToSet(released[at]) \cup {m}
      /\ rings'[at] \in Seq(Messages)
      /\ \A k \in ToSet(released[at]) : k.serial < m.serial
  BY HeadIs
<1>2. q = at
  BY <1>1 DEF Whole, Own
<1>3. \A r \in Rings : Stream(r, rings[r], released[r], onWire)
  BY DEF IndInv, Streams
<1>4. \A n \in onWire : n.serial \in Nat
  BY DEF IndInv, Wire, Messages
<1>5. ASSUME NEW k \in Own(c), k.serial < m.serial
      PROVE  k \in Handled
  <2>1. k.ring = at /\ k \in Published /\ k \in onWire
    BY <1>2 DEF Whole, Own
  <2>2. ASSUME NEW r \in Rings, k \in ToSet(rings[r])
        PROVE  FALSE
    <3>1. rings[r] \in Seq(Messages)
      BY DEF IndInv, TypeOK
    <3>2. PICK i \in 1 .. Len(rings[r]) : k = rings[r][i]
      BY <2>2, <3>1, MembersOf
    <3>3. r = at
      BY <1>3, <2>1, <3>2 DEF Stream, Captured
    <3>4. k \in ToSet(rings'[at])
      BY <1>1, <1>4, <1>5, <2>1, <2>2, <3>3
    <3>5. PICK j \in 1 .. Len(rings'[at]) : k = rings'[at][j]
      BY <1>1, <3>4, MembersOf
    <3>6. m.serial < k.serial
      BY <1>1, <3>5 DEF Stream
    <3> QED
      BY <1>1, <1>4, <1>5, <2>1, <3>6
  <2> QED
    BY <2>1, <2>2, PublishedIs
<1>6. ASSUME NEW k \in Handled, k.conv = c
      PROVE  k \in Own(c) /\ k.serial < m.serial
  <2>1. k \in onWire /\ k.role # "other"
    BY HandledIs
  <2>2. k \in Own(c) /\ k.ring = at
    BY <1>2, <1>6, <2>1 DEF Whole, Own
  <2>3. PICK r \in Rings : k \in ToSet(released[r])
    BY HandledIs
  <2>4. r = at
    BY <1>3, <2>2, <2>3 DEF Stream, Captured
  <2> QED
    BY <1>1, <2>2, <2>3, <2>4
<1> QED
  BY <1>2, <1>5, <1>6

\* The request of the answer m waits when m is the next summary of its whole
\* conversation, and none waits when m is a request.
LEMMA WaitingIs ==
  ASSUME IndInv, HandleRecord, NEW m, m = Head(rings[at]),
         NEW c \in Conversations, NEW q \in Rings, Whole(c, q), m.conv = c
  PROVE  /\ m.role = "request" => Waiting(KeyOf(m)) = {}
         /\ m.role # "request" =>
              \E b \in table : Before(b, m) /\ Waiting(KeyOf(m)) = {b} /\ PairUp(b, m)
<1>1. m \in Messages /\ m \in onWire /\ m.role # "other"
  BY HeadIs
<1>2. /\ \A k \in Own(c) : k.serial < m.serial => k \in Handled
      /\ \A k \in Handled : k.conv = c => k \in Own(c) /\ k.serial < m.serial
  BY WholeIs
<1>3. /\ table \subseteq Handled /\ Handled = table \cup ignored \cup Halves
      /\ \A x \in Handled : x \in Messages /\ x \in onWire /\ x.role # "other"
      /\ \A x, y \in table : KeyOf(x) = KeyOf(y) => x = y
  BY HandledIs DEF IndInv, Places
<1>4. /\ \A x \in ignored : x.conv # c
      /\ \A x \in table : x.conv = c =>
           x.role = "request" /\ \A k \in Handled : k.conv = c => k.serial <= x.serial
      /\ \A p \in matched : p[1].conv = c => p[1].serial < p[2].serial
  BY DEF IndInv, Conversing
<1>5. \A x \in table : KeyOf(x) = KeyOf(m) => x.conv = c
  BY <1>1, <1>3, OnlyUse DEF Whole
<1>6. \A k \in onWire : k.serial \in Nat
  BY DEF IndInv, Wire, Messages
<1>7. ASSUME m.role = "request"
      PROVE  Waiting(KeyOf(m)) = {}
  <2> SUFFICES ASSUME NEW x \in table, KeyOf(x) = KeyOf(m) PROVE FALSE
    BY DEF Waiting
  <2>1. /\ x.conv = c /\ x.role = "request" /\ x \in Handled /\ x \in onWire
        /\ x.serial < m.serial
        /\ \A k \in Handled : k.conv = c => k.serial <= x.serial
    BY <1>2, <1>3, <1>4, <1>5
  <2>2. PICK a \in onWire : /\ a.conv = c /\ a.role = "answer"
                            /\ x.serial < a.serial /\ a.serial < m.serial
    BY <1>1, <1>7, <2>1, BetweenRequests DEF IndInv
  <2>3. a \in Handled
    BY <1>2, <2>2 DEF Own
  <2> QED
    BY <1>6, <2>1, <2>2, <2>3
<1>8. ASSUME m.role # "request"
      PROVE  \E b \in table : Before(b, m) /\ Waiting(KeyOf(m)) = {b} /\ PairUp(b, m)
  <2>1. m.role = "answer"
    BY <1>1, <1>8 DEF Messages, Roles
  <2>2. PICK b \in onWire : Before(b, m) /\ b.role = "request"
    BY <1>1, <2>1 DEF IndInv, Order
  <2>3. b.conv = c /\ b.serial < m.serial /\ b \in Own(c) /\ b \in Handled
    BY <1>2, <2>2 DEF Before, Own
  <2>4. b \notin Halves
    <3> SUFFICES ASSUME b \in Halves PROVE FALSE
      OBVIOUS
    <3>1. PICK p \in matched : b = p[1] \/ b = p[2]
      BY HalvesIs
    <3>2. PairUp(p[1], p[2]) /\ p[2] \in Handled
      BY DEF IndInv, TruePairs
    <3>3. b = p[1] /\ p[2].conv = c
      BY <2>2, <2>3, <3>1, <3>2 DEF PairUp
    <3>4. b.serial < p[2].serial
      BY <1>4, <2>3, <3>3
    <3>5. p[2].serial < m.serial /\ p[2] \in onWire
      BY <1>2, <1>3, <3>2, <3>3
    <3>6. p[2].serial <= b.serial \/ m.serial <= p[2].serial
      BY <2>2, <2>3, <3>3, <3>5 DEF Before
    <3> QED
      BY <1>1, <1>6, <2>2, <3>4, <3>5, <3>6
  <2>5. b \in table
    BY <1>3, <1>4, <2>3, <2>4
  <2>6. PairUp(b, m) /\ b \in Messages
    BY <1>3, <2>1, <2>2, <2>3 DEF PairUp
  <2>7. KeyOf(b) = KeyOf(m)
    BY <1>1, <2>6, PairsComplement
  <2>8. Waiting(KeyOf(m)) = {b}
    BY <1>3, <2>5, <2>7 DEF Waiting
  <2> QED
    BY <2>2, <2>5, <2>6, <2>8
<1> QED
  BY <1>7, <1>8

LEMMA HandleConversing ==
  ASSUME IndInv, HandleRecord
  PROVE  Conversing'
<1>1. PICK m : m = Head(rings[at])
  OBVIOUS
<1>2. /\ m \in Messages /\ m \in onWire /\ m.role # "other" /\ m \notin Handled
  BY <1>1, HeadIs
<1>3. Handled' = Handled \cup {m} /\ Published' = Published /\ onWire' = onWire
  BY <1>1, HandleRecordSets
<1>4. ASSUME NEW c \in Conversations, NEW q \in Rings, Whole(c, q)'
      PROVE  Whole(c, q) /\ Own(c)' = Own(c)
  BY <1>3, <1>4 DEF Whole, Own, OwnKey
<1>5. ASSUME NEW c \in Conversations, NEW q \in Rings, Whole(c, q)
      PROVE  /\ \A p \in matched : p[1].conv = c =>
                  /\ p[1].serial < p[2].serial
                  /\ \A k \in Own(c) : ~(p[1].serial < k.serial /\ k.serial < p[2].serial)
             /\ \A k \in ignored : k.conv # c
             /\ \A k \in table : k.conv = c =>
                  /\ k.role = "request"
                  /\ \A x \in Handled : x.conv = c => x.serial <= k.serial
  BY <1>5 DEF IndInv, Conversing
<1>6. ASSUME NEW n \in table, Match(m, n)
      PROVE  Conversing'
  <2>1. PICK b, e \in Messages :
          /\ matched' = matched \cup {<<b, e>>} /\ PairUp(b, e)
          /\ (b = m /\ e = n) \/ (b = n /\ e = m)
          /\ total' = IF Recordable(<<b, e>>) THEN total + 1 ELSE total
    BY <1>1, <1>6, MatchIs
  <2>2. table' = table \ {n} /\ ignored' = ignored /\ n \in Waiting(KeyOf(m))
    BY <1>6 DEF Match
  <2>3. <<b, e>>[1] = b /\ <<b, e>>[2] = e
    OBVIOUS
  <2>4. \A p \in matched' : p \in matched \/ (p[1] = b /\ p[2] = e)
    BY <2>1, <2>3
  <2>5. b.conv = m.conv /\ e.conv = m.conv
    BY <2>1 DEF PairUp
  <2> SUFFICES ASSUME NEW c \in Conversations, NEW q \in Rings, Whole(c, q)'
               PROVE  /\ \A p \in matched' : p[1].conv = c =>
                           /\ p[1].serial < p[2].serial
                           /\ \A k \in Own(c)' : ~(p[1].serial < k.serial /\ k.serial < p[2].serial)
                      /\ \A k \in ignored' : k.conv # c
                      /\ \A k \in table' : k.conv = c =>
                           /\ k.role = "request"
                           /\ \A x \in Handled' : x.conv = c => x.serial <= k.serial
    BY DEF Conversing
  <2>6. Whole(c, q) /\ Own(c)' = Own(c)
    BY <1>4
  <2>7. CASE m.conv # c
    BY <1>3, <1>5, <2>2, <2>4, <2>5, <2>6, <2>7
  <2>8. CASE m.conv = c
    <3>1. m.role # "request"
      BY <1>1, <2>2, <2>6, <2>8, WaitingIs
    <3>2. PICK r \in table : Before(r, m) /\ Waiting(KeyOf(m)) = {r} /\ PairUp(r, m)
      BY <1>1, <2>6, <2>8, <3>1, WaitingIs
    <3>3. n = r
      BY <2>2, <3>2
    <3>4. b = n /\ e = m
      BY <2>1, <3>1 DEF PairUp
    <3>5. /\ b.serial < e.serial
          /\ \A k \in Own(c) : ~(b.serial < k.serial /\ k.serial < e.serial)
      <4>1. \A k \in onWire : k.serial \in Nat
        BY DEF IndInv, Wire, Messages
      <4>2. b \in onWire /\ b.serial < e.serial
        BY <3>2, <3>3, <3>4, HandledIs DEF Before, IndInv, Places
      <4>3. ASSUME NEW k \in Own(c)
            PROVE  ~(b.serial < k.serial /\ k.serial < e.serial)
        <5>1. k \in onWire /\ k.conv = m.conv
          BY <2>8 DEF Own
        <5>2. k.serial <= b.serial \/ e.serial <= k.serial
          BY <3>2, <3>3, <3>4, <5>1 DEF Before
        <5> QED
          BY <1>2, <3>4, <4>1, <4>2, <5>1, <5>2
      <4> QED
        BY <4>2, <4>3
    <3>6. \A k \in table' : k.conv # c
      <4> SUFFICES ASSUME NEW k \in table', k.conv = c PROVE FALSE
        OBVIOUS
      <4>1. k \in table /\ k \in Messages /\ k # n
        BY <2>2, HandledIs DEF IndInv, Places
      <4>2. KeyOf(k) = KeyOf(m)
        BY <1>2, <2>8, <4>1, SameKey
      <4> QED
        BY <3>2, <3>3, <4>1, <4>2 DEF Waiting
    <3> QED
      BY <1>5, <2>2, <2>4, <2>6, <3>5, <3>6
  <2> QED
    BY <2>7, <2>8
<1>7. ASSUME matched' = matched,
             NEW c \in Conversations, NEW q \in Rings, Whole(c, q)'
      PROVE  /\ \A p \in matched' : p[1].conv = c =>
                  /\ p[1].serial < p[2].serial
                  /\ \A k \in Own(c)' : ~(p[1].serial < k.serial /\ k.serial < p[2].serial)
  BY <1>4, <1>5, <1>7
<1>8. ASSUME NEW n \in table, Ignore(m, n)
      PROVE  Conversing'
  <2>1. /\ matched' = matched /\ table' = table /\ ignored' = ignored \cup {m}
        /\ n \in Waiting(KeyOf(m)) /\ ~IsComplement(m, n)
    BY <1>8 DEF Ignore
  <2>2. ASSUME NEW c \in Conversations, NEW q \in Rings, Whole(c, q)'
        PROVE  m.conv # c
    <3> SUFFICES ASSUME m.conv = c PROVE FALSE
      OBVIOUS
    <3>1. Whole(c, q)
      BY <1>4, <2>2
    <3>2. m.role # "request"
      BY <1>1, <2>1, <3>1, WaitingIs
    <3>3. PICK r \in table : Waiting(KeyOf(m)) = {r} /\ PairUp(r, m)
      BY <1>1, <3>1, <3>2, WaitingIs
    <3>4. n = r /\ r \in Messages
      BY <2>1, <3>3, HandledIs DEF IndInv, Places
    <3> QED
      BY <1>2, <2>1, <3>3, <3>4, PairsComplement
  <2>3. ASSUME NEW c \in Conversations, NEW q \in Rings, Whole(c, q)'
        PROVE  /\ \A k \in ignored' : k.conv # c
               /\ \A k \in table' : k.conv = c =>
                    /\ k.role = "request"
                    /\ \A x \in Handled' : x.conv = c => x.serial <= k.serial
    BY <1>3, <1>4, <1>5, <2>1, <2>2, <2>3
  <2> QED
    BY <1>7, <2>1, <2>3 DEF Conversing
<1>9. ASSUME Store(m)
      PROVE  Conversing'
  <2>1. /\ matched' = matched /\ table' = table \cup {m} /\ ignored' = ignored
        /\ Waiting(KeyOf(m)) = {}
    BY <1>9 DEF Store
  <2>2. ASSUME NEW c \in Conversations, NEW q \in Rings, Whole(c, q)'
        PROVE  /\ \A k \in ignored' : k.conv # c
               /\ \A k \in table' : k.conv = c =>
                    /\ k.role = "request"
                    /\ \A x \in Handled' : x.conv = c => x.serial <= k.serial
    <3>1. Whole(c, q)
      BY <1>4, <2>2
    <3>2. CASE m.conv # c
      BY <1>3, <1>5, <2>1, <3>1, <3>2
    <3>3. CASE m.conv = c
      <4>1. m.role = "request"
        BY <1>1, <2>1, <3>1, <3>3, WaitingIs
      <4>2. \A k \in Handled : k.conv = c => k.serial < m.serial
        BY <1>1, <3>1, <3>3, WholeIs
      <4>3. \A k \in table : k.conv # c
        <5> SUFFICES ASSUME NEW k \in table, k.conv = c PROVE FALSE
          OBVIOUS
        <5>1. k \in Messages
          BY HandledIs DEF IndInv, Places
        <5>2. KeyOf(k) = KeyOf(m)
          BY <1>2, <3>3, <5>1, SameKey
        <5> QED
          BY <2>1, <5>2 DEF Waiting
      <4>4. m.serial \in Nat /\ \A k \in Handled : k.serial \in Nat
        BY <1>2, HandledIs DEF Messages
      <4>5. \A x \in Handled' : x.conv = c => x.serial <= m.serial
        BY <1>3, <4>2, <4>4
      <4> QED
        BY <1>5, <2>1, <3>1, <4>1, <4>3, <4>5
    <3> QED
      BY <3>2, <3>3
  <2> QED
    BY <1>7, <2>1, <2>2 DEF Conversing
<1> QED
  BY <1>1, <1>6, <1>8, <1>9 DEF HandleRecord, CalculateLatency

LEMMA HandleRecordIndInv ==
  ASSUME IndInv, HandleRecord
  PROVE  IndInv'
<1>1. PICK m : m = Head(rings[at])
  OBVIOUS
<1>2. /\ m \in Messages /\ rings' \in [Rings -> Seq(Messages)]
      /\ released' \in [Rings -> Seq(Messages)]
  BY <1>1, HeadIs
<1>3. Streams' /\ Wire' /\ Order'
  BY <1>1, HandleRecordSets
<1>4. Places' /\ TruePairs' /\ CompletedExact' /\ Turns' /\ Conversing'
  BY HandlePlaces, HandleCompleted, HandleRecordTurns, HandleConversing DEF IndInv
<1>5. TypeOK'
  <2>1. /\ onWire' \subseteq Messages /\ at' \in 0 .. NumRings
    BY DEF HandleRecord, IndInv, TypeOK
  <2>2. limit' \in 1 .. MaxPolls
    BY LimitsAssumption DEF HandleRecord, CountDown, IndInv, TypeOK
  <2>3. waited' \in [Rings -> Nat]
    BY DEF HandleRecord, IndInv, TypeOK
  <2>4. total' \in Nat /\ completed' \in Nat
    BY HandleCompleted
  <2>5. Handled' \subseteq Messages
    BY <1>1, <1>2, HandleRecordSets, HandledIs
  <2>6. table' \subseteq Messages /\ ignored' \subseteq Messages
    BY <1>4, <2>5 DEF Places
  <2>7. matched' \subseteq Messages \X Messages
    <3>1. matched \subseteq Messages \X Messages
      BY DEF IndInv, TypeOK
    <3>2. ASSUME NEW n \in table, Match(m, n)
          PROVE  matched' \subseteq Messages \X Messages
      <4>1. PICK b, e \in Messages : matched' = matched \cup {<<b, e>>}
        BY <1>1, <3>2, MatchIs
      <4> QED
        BY <3>1, <4>1
    <3> QED
      BY <1>1, <3>1, <3>2 DEF HandleRecord, CalculateLatency, Ignore, Store
  <2>8. \A k \in table' : Cardinality({n \in table' : KeyOf(n) = KeyOf(k)}) = 1
    <3> TAKE k \in table'
    <3>1. {n \in table' : KeyOf(n) = KeyOf(k)} = {k}
      BY <1>4 DEF Places, KeyOf
    <3> QED
      BY <3>1, FS_Singleton
  <2> QED
    BY <1>2, <2>1, <2>2, <2>3, <2>4, <2>6, <2>7, <2>8 DEF TypeOK, Waiting, KeyOf
<1> QED
  BY <1>3, <1>4, <1>5 DEF IndInv

\* The two steps that handle no summary.
LEMMA TurnIndInv ==
  ASSUME IndInv, StartRound \/ NextRing
  PROVE  IndInv'
<1>1. /\ onWire' = onWire /\ rings' = rings /\ released' = released /\ table' = table
      /\ matched' = matched /\ ignored' = ignored
  BY DEF StartRound, NextRing
<1>2. Handled' = Handled /\ Halves' = Halves /\ Published' = Published
  BY <1>1 DEF Handled, Halves, Published
<1>3. at' \in 0 .. NumRings /\ Turns'
  BY StartRoundTurns, NextRingTurns DEF IndInv
<1>4. completed' + total' = completed + total /\ completed' \in Nat /\ total' \in Nat
  <2>1. \/ completed' = completed + total /\ total' = 0
        \/ completed' = completed /\ total' = total
    BY DEF StartRound, NextRing, ReportSecond
  <2>2. completed \in Nat /\ total \in Nat
    BY DEF IndInv, TypeOK
  <2> QED
    BY <2>1, <2>2
<1>5. limit' \in 1 .. MaxPolls /\ waited' \in [Rings -> Nat]
  <2>1. limit \in 1 .. MaxPolls /\ waited \in [Rings -> Nat] /\ MaxPolls \in 1 .. MaxPolls
    BY LimitsAssumption DEF IndInv, TypeOK
  <2>2. CASE StartRound
    BY <2>1, <2>2 DEF StartRound
  <2>3. CASE NextRing
    BY <2>1, <2>3 DEF NextRing
  <2> QED
    BY <2>2, <2>3
<1>6. TypeOK'
  BY <1>1, <1>3, <1>4, <1>5 DEF IndInv, TypeOK, Waiting, KeyOf
<1>7. Wire' /\ Order' /\ Streams'
  BY <1>1 DEF IndInv, Wire, Order, Before, Streams
<1>8. Places' /\ TruePairs'
  BY <1>1, <1>2 DEF IndInv, Places, TruePairs, KeyOf
<1>9. CompletedExact'
  BY <1>1, <1>4 DEF IndInv, CompletedExact, Recordable, Latency, Time
<1>10. Conversing'
  BY <1>1, <1>2 DEF IndInv, Conversing, Whole, Own, OwnKey
<1> QED
  BY <1>3, <1>6, <1>7, <1>8, <1>9, <1>10 DEF IndInv

LEMMA StutterIndInv ==
  ASSUME IndInv, UNCHANGED vars
  PROVE  IndInv'
<1>1. /\ onWire' = onWire /\ rings' = rings /\ released' = released /\ table' = table
      /\ matched' = matched /\ ignored' = ignored /\ at' = at /\ limit' = limit
      /\ waited' = waited /\ total' = total /\ completed' = completed
  BY DEF vars
<1>2. Handled' = Handled /\ Halves' = Halves /\ Published' = Published
  BY <1>1 DEF Handled, Halves, Published
<1>3. TypeOK' /\ Wire' /\ Order' /\ Streams'
  BY <1>1 DEF IndInv, TypeOK, Waiting, KeyOf, Wire, Order, Before, Streams
<1>4. Places' /\ TruePairs'
  BY <1>1, <1>2 DEF IndInv, Places, TruePairs, KeyOf
<1>5. CompletedExact' /\ Turns'
  BY <1>1 DEF IndInv, CompletedExact, Recordable, Latency, Time, Turns, WaitsUpTo
<1>6. Conversing'
  BY <1>1, <1>2 DEF IndInv, Conversing, Whole, Own, OwnKey
<1> QED
  BY <1>3, <1>4, <1>5, <1>6 DEF IndInv

-----------------------------------------------------------------------------
(* The theorems.                                                           *)

\* The handler keeps its inductive invariant whatever the threads capture and
\* whichever rings it finds empty or full.
THEOREM Invariance == Spec => []IndInv
<1>1. Init => IndInv
  BY InitIndInv
<1>2. IndInv /\ [Next]_vars => IndInv'
  BY CaptureIndInv, HandleRecordIndInv, TurnIndInv, StutterIndInv DEF Next, Handler
<1> QED
  BY <1>1, <1>2, PTL DEF Spec

\* Every variable has its type and a key has at most one table entry.
THEOREM TypeCorrect == Spec => []TypeOK
<1>1. IndInv => TypeOK
  BY DEF IndInv
<1> QED
  BY <1>1, Invariance, PTL

\* A latency is the time from a request to an answer of the same conversation,
\* whichever the handler saw first, and no message counts twice.
THEOREM PairsAreTrue == Spec => []TruePairs
<1>1. IndInv => TruePairs
  BY DEF IndInv
<1> QED
  BY <1>1, Invariance, PTL

\* The reports and the histogram together count each recordable pair once.
THEOREM CountsAreExact == Spec => []CompletedExact
<1>1. IndInv => CompletedExact
  BY DEF IndInv
<1> QED
  BY <1>1, Invariance, PTL

\* No ring waits for more than one turn of MAX_POLLS - 1 summaries of each other
\* ring, however full those are.
THEOREM NoRingStarves == Spec => []NoStarvation
<1>1. IndInv => NoStarvation
  BY TurnsBound DEF IndInv
<1> QED
  BY <1>1, Invariance, PTL

LEMMA OnlyOne ==
  ASSUME NEW S, IsFiniteSet(S), Cardinality(S) <= 1, NEW x \in S, NEW y \in S
  PROVE  x = y
<1> SUFFICES ASSUME x # y PROVE FALSE
  OBVIOUS
<1>1. Cardinality({x, y}) = 2
  <2>1. IsFiniteSet({x}) /\ Cardinality({x}) = 1
    BY FS_Singleton
  <2>2. Cardinality({x} \cup {y}) = 2
    <3>1. y \notin {x}
      OBVIOUS
    <3>2. Cardinality({x} \cup {y}) = Cardinality({x}) + 1
      BY ONLY <2>1, <3>1, FS_AddElement
    <3> QED
      BY ONLY <2>1, <3>2
  <2>3. {x} \cup {y} = {x, y}
    OBVIOUS
  <2> QED
    BY <2>2, <2>3
<1>2. {x, y} \subseteq S
  OBVIOUS
<1>3. Cardinality({x, y}) <= Cardinality(S)
  BY <1>2, FS_Subset
<1>4. Cardinality(S) \in Nat
  BY FS_CardinalityType
<1> QED
  BY <1>1, <1>3, <1>4

LEMMA FoundPairs == IndInv => PairsFound
<1> SUFFICES ASSUME IndInv PROVE PairsFound
  OBVIOUS
<1>1. /\ Handled = table \cup ignored \cup Halves
      /\ \A x, y \in table : KeyOf(x) = KeyOf(y) => x = y
  BY DEF IndInv, Places
<1>2. \A p \in matched : PairUp(p[1], p[2]) /\ p[1] \in Handled /\ p[2] \in Handled
  BY DEF IndInv, TruePairs
<1>3. \A x \in Handled : x \in onWire /\ x \in Messages
  BY HandledIs
<1>4. \A x, y \in onWire : x.serial \in Nat /\ (x.serial = y.serial => x = y)
  BY DEF IndInv, Wire, Messages
<1>5. ASSUME NEW m \in Handled \ ignored, NEW n \in Handled \ ignored,
             PairUp(m, n), MadeOnce(m.conv)
      PROVE  <<m, n>> \in matched
  <2>1. /\ m \in onWire /\ n \in onWire /\ m \in Messages /\ n \in Messages
        /\ m.role = "request" /\ n.role = "answer" /\ n.conv = m.conv
    BY <1>3, <1>5 DEF PairUp
  <2>2. \A x \in onWire : x.conv = m.conv /\ x.role = "request" => x = m
    <3> DEFINE S == {x \in onWire : x.conv = m.conv /\ x.role = "request"}
    <3>1. IsFiniteSet(S) /\ Cardinality(S) <= 1 /\ m \in S
      BY <1>5, <2>1, FS_Subset DEF IndInv, Wire, MadeOnce
    <3>2. \A x \in S : x = m
      <4> HIDE DEF S
      <4> QED
        BY <3>1, OnlyOne
    <3> QED
      BY <3>2
  <2>3. \A x \in onWire : x.conv = m.conv /\ x.role = "answer" => Before(m, x)
    BY <2>1, <2>2 DEF IndInv, Order, Before
  <2>4. \A x \in onWire : x.conv = m.conv /\ x.role = "answer" => x = n
    <3> TAKE x \in onWire
    <3> HAVE x.conv = m.conv /\ x.role = "answer"
    <3>1. Before(m, n) /\ Before(m, x)
      BY <2>1, <2>3
    <3>2. m.serial < n.serial /\ m.serial < x.serial
      BY <3>1 DEF Before
    <3>3. n.serial <= x.serial /\ x.serial <= n.serial
      BY <1>4, <2>1, <3>1, <3>2 DEF Before
    <3> QED
      BY <1>4, <2>1, <3>3
  <2>5. m \notin table \/ n \notin table
    BY <1>1, <1>5, <2>1, PairsComplement
  <2>6. PICK p \in matched : m = p[1] \/ m = p[2] \/ n = p[1] \/ n = p[2]
    BY <1>1, <2>5, HalvesIs
  <2>7. PairUp(p[1], p[2]) /\ p[1] \in onWire /\ p[2] \in onWire
    BY <1>2, <1>3
  <2>8. p[1] = m /\ p[2] = n
    BY <2>1, <2>2, <2>4, <2>6, <2>7 DEF PairUp
  <2>9. p = <<p[1], p[2]>>
    BY DEF IndInv, TypeOK
  <2> QED
    BY <2>6, <2>8, <2>9
<1> QED
  BY <1>1, <1>5 DEF PairsFound, Halves

\* Every summary released is accounted for, and a request made once and its answer
\* are never both done with and unmatched.
THEOREM PairsAreFound == Spec => []PairsFound
BY FoundPairs, Invariance, PTL

LEMMA AnswersFollow == IndInv => NextAnswer
<1> SUFFICES ASSUME IndInv, NEW p \in matched, OwnKey(p[1].conv),
                    NEW own, own = {m \in onWire : m.conv = p[1].conv /\ m.role # "other"},
                    \A m \in own : m.ring = p[1].ring, own \subseteq Published
             PROVE  /\ p[1].serial < p[2].serial
                    /\ \A m \in own : ~(p[1].serial < m.serial /\ m.serial < p[2].serial)
  BY DEF NextAnswer
<1>1. p[1] \in Messages
  BY DEF IndInv, TypeOK
<1>2. p[1].conv \in Conversations /\ p[1].ring \in Rings
  BY <1>1 DEF Messages
<1>3. own = Own(p[1].conv)
  BY DEF Own
<1>4. Whole(p[1].conv, p[1].ring)
  BY <1>3 DEF Whole
<1> QED
  BY <1>2, <1>3, <1>4 DEF IndInv, Conversing

\* A request that is made again pairs with its own answer each time, when its key
\* has no other use and one thread captures and publishes the whole conversation.
THEOREM NextAnswerPairs == Spec => []NextAnswer
BY AnswersFollow, Invariance, PTL

-----------------------------------------------------------------------------
(* Each ring as the handler and its thread use it is the queue of RecordQueue. *)

Mapped(s) == [i \in DOMAIN s |-> Record(s[i])]
Delivered(out) == IF out = <<>> THEN <<>> ELSE Record(Last(out))

LEMMA MappedIs ==
  ASSUME NEW S, NEW s \in Seq(S)
  PROVE  /\ Mapped(s) \in Seq({Record(y) : y \in S}) /\ Len(Mapped(s)) = Len(s)
         /\ \A i \in 1 .. Len(s) : Mapped(s)[i] = Record(s[i])
<1> DEFINE T == {Record(y) : y \in S}
           f == Mapped(s)
<1>1. Len(s) \in Nat /\ DOMAIN s = 1 .. Len(s) /\ \A i \in 1 .. Len(s) : s[i] \in S
  OBVIOUS
<1>2. f = [i \in 1 .. Len(s) |-> Record(s[i])]
  BY <1>1 DEF Mapped
<1>3. f \in [1 .. Len(s) -> T]
  BY <1>1, <1>2
<1>4. \A i \in 1 .. Len(s) : f[i] = Record(s[i])
  BY <1>2
<1> HIDE DEF T, f
<1>5. f \in Seq(T) /\ Len(f) = Len(s)
  BY <1>1, <1>3, SeqDef
<1> QED
  BY <1>4, <1>5 DEF f, T

LEMMA MappedAppend ==
  ASSUME NEW S, NEW s \in Seq(S), NEW x \in S
  PROVE  Mapped(Append(s, x)) = Append(Mapped(s), Record(x))
<1> DEFINE T == {Record(y) : y \in S}
           f == Mapped(s)
           t == Append(s, x)
           g == Mapped(t)
           h == Append(f, Record(x))
<1>1. /\ t \in Seq(S) /\ Len(s) \in Nat /\ Len(t) = Len(s) + 1
      /\ t[Len(s) + 1] = x /\ \A i \in 1 .. Len(s) : t[i] = s[i]
  BY Puts
<1>2. f \in Seq(T) /\ Len(f) = Len(s) /\ \A i \in 1 .. Len(s) : f[i] = Record(s[i])
  BY MappedIs
<1> HIDE DEF t
<1>3. g \in Seq(T) /\ Len(g) = Len(t) /\ \A i \in 1 .. Len(t) : g[i] = Record(t[i])
  BY <1>1, MappedIs
<1>4. Record(x) \in T
  OBVIOUS
<1> HIDE DEF T, f, g
<1>5. /\ h \in Seq(T) /\ Len(h) = Len(f) + 1
      /\ h[Len(f) + 1] = Record(x) /\ \A i \in 1 .. Len(f) : h[i] = f[i]
  BY <1>2, <1>4, Puts
<1> HIDE DEF h
<1>6. Len(h) = Len(g)
  BY <1>1, <1>2, <1>3, <1>5
<1>7. ASSUME NEW i \in 1 .. Len(h)
      PROVE  h[i] = g[i]
  <2>1. CASE i \in 1 .. Len(s)
    BY <1>1, <1>2, <1>3, <1>5, <2>1
  <2>2. CASE i = Len(s) + 1
    BY <1>1, <1>2, <1>3, <1>5, <2>2
  <2> QED
    BY <1>1, <1>2, <1>5, <2>1, <2>2
<1>8. h = g
  BY <1>3, <1>5, <1>6, <1>7, SeqEqual
<1> QED
  BY <1>8 DEF f, g, h, t

LEMMA MappedTail ==
  ASSUME NEW S, NEW s \in Seq(S), s # <<>>
  PROVE  /\ Mapped(s) # <<>> /\ Head(Mapped(s)) = Record(Head(s))
         /\ Mapped(Tail(s)) = Tail(Mapped(s))
<1> DEFINE T == {Record(y) : y \in S}
           f == Mapped(s)
           t == Tail(s)
           g == Mapped(t)
           h == Tail(f)
<1>1. /\ t \in Seq(S) /\ Len(s) \in Nat \ {0} /\ Len(t) = Len(s) - 1
      /\ Head(s) = s[1] /\ \A i \in 1 .. Len(s) - 1 : t[i] = s[i + 1]
  BY Pops
<1>2. f \in Seq(T) /\ Len(f) = Len(s) /\ \A i \in 1 .. Len(s) : f[i] = Record(s[i])
  BY MappedIs
<1> HIDE DEF t
<1>3. g \in Seq(T) /\ Len(g) = Len(t) /\ \A i \in 1 .. Len(t) : g[i] = Record(t[i])
  BY <1>1, MappedIs
<1> HIDE DEF T, f, g
<1>4. f # <<>>
  BY <1>1, <1>2
<1>5. /\ h \in Seq(T) /\ Len(h) = Len(f) - 1 /\ Head(f) = f[1]
      /\ \A i \in 1 .. Len(f) - 1 : h[i] = f[i + 1]
  BY <1>2, <1>4, Pops
<1>6. Head(f) = Record(Head(s))
  <2>1. 1 \in 1 .. Len(s)
    BY <1>1
  <2> QED
    BY <1>1, <1>2, <1>5, <2>1
<1> HIDE DEF h
<1>7. Len(h) = Len(g)
  BY <1>1, <1>2, <1>3, <1>5
<1>8. ASSUME NEW i \in 1 .. Len(h)
      PROVE  h[i] = g[i]
  <2>1. i + 1 \in 1 .. Len(s) /\ i \in 1 .. Len(s) - 1 /\ i \in 1 .. Len(t)
    BY <1>1, <1>2, <1>5
  <2> QED
    BY <1>1, <1>2, <1>3, <1>5, <2>1
<1>9. h = g
  BY <1>3, <1>5, <1>7, <1>8, SeqEqual
<1> QED
  BY <1>4, <1>6, <1>9 DEF f, g, h, t

LEMMA QueueIs ==
  ASSUME NEW r \in Rings
  PROVE  /\ Ring(r)!Init <=> (Mapped(rings[r]) = <<>> /\ Used(r) = 0 /\ Delivered(released[r]) = <<>>)
         /\ (UNCHANGED Ring(r)!vars) <=>
              /\ Mapped(rings'[r]) = Mapped(rings[r])
              /\ Used(r)' = Used(r)
              /\ Delivered(released'[r]) = Delivered(released[r])
BY DEF Ring!Init, Ring!vars, Mapped, Delivered

LEMMA PutIs ==
  ASSUME NEW r \in Rings, NEW m \in Messages, HasRoom(r),
         Mapped(rings'[r]) = Append(Mapped(rings[r]), Record(m)),
         Used(r)' = Used(r) + Size, released'[r] = released[r]
  PROVE  Ring(r)!Next
<1>1. Len(Record(m)) = 4
  BY DEF Record
<1>2. Ring(r)!Size(Record(m)) = Size
  BY <1>1 DEF Ring!Size, Size
<1>3. Ring(r)!Put(Record(m))
  BY <1>2 DEF Ring!Put, HasRoom, Mapped
<1> QED
  BY <1>3 DEF Ring!Next

LEMMA TakeIs ==
  ASSUME NEW r \in Rings, NEW m \in Messages,
         Mapped(rings[r]) # <<>>, Head(Mapped(rings[r])) = Record(m),
         Mapped(rings'[r]) = Tail(Mapped(rings[r])),
         Used(r)' = Used(r) - Size, Delivered(released'[r]) = Record(m)
  PROVE  Ring(r)!Next
<1>1. Len(Record(m)) = 4
  BY DEF Record
<1>2. Ring(r)!Size(Record(m)) = Size
  BY <1>1 DEF Ring!Size, Size
<1>3. Ring(r)!Take
  BY <1>2 DEF Ring!Take, Mapped, Delivered
<1> QED
  BY <1>3 DEF Ring!Next

LEMMA UnchangedRing ==
  ASSUME NEW r \in Rings, rings'[r] = rings[r], released'[r] = released[r]
  PROVE  UNCHANGED Ring(r)!vars
BY QueueIs DEF Used

LEMMA UsedIs ==
  ASSUME NEW n \in Nat
  PROVE  Size * (n + 1) = Size * n + Size /\ Size * n \in Nat /\ Size \in Nat
<1>1. Size \in Nat
  BY RingsAssumption DEF Size
<1> QED
  BY <1>1

LEMMA CaptureQueues ==
  ASSUME IndInv, NEW r \in Rings, NEW c \in Conversations, NEW role \in Roles,
         Capture(r, c, role), NEW q \in Rings
  PROVE  UNCHANGED Ring(q)!vars \/ Ring(q)!Next
<1>1. PICK m : m = Passing(r, c, role)
  OBVIOUS
<1>2. /\ m \in Messages
      /\ \/ rings' = rings
         \/ HasRoom(r) /\ rings' = [rings EXCEPT ![r] = Append(@, m)]
  BY <1>1, PassingIs
<1>3. /\ rings \in [Rings -> Seq(Messages)] /\ rings[r] \in Seq(Messages)
      /\ released' = released
  BY DEF IndInv, TypeOK, Capture
<1>4. CASE rings'[q] = rings[q]
  BY <1>3, <1>4, UnchangedRing
<1>5. CASE q = r /\ HasRoom(r) /\ rings'[r] = Append(rings[r], m)
  <2>1. Mapped(rings'[r]) = Append(Mapped(rings[r]), Record(m))
    BY <1>2, <1>3, <1>5, MappedAppend
  <2>2. Len(rings'[r]) = Len(rings[r]) + 1 /\ Len(rings[r]) \in Nat
    BY <1>2, <1>3, <1>5, Puts
  <2>3. Used(r)' = Used(r) + Size
    BY <2>2, UsedIs DEF Used, Size
  <2> QED
    BY <1>2, <1>3, <1>5, <2>1, <2>3, PutIs
<1> QED
  BY <1>2, <1>3, <1>4, <1>5

LEMMA HandleQueues ==
  ASSUME IndInv, HandleRecord, NEW q \in Rings
  PROVE  UNCHANGED Ring(q)!vars \/ Ring(q)!Next
<1>1. PICK m : m = Head(rings[at])
  OBVIOUS
<1>2. /\ at \in Rings /\ m \in Messages
      /\ rings' = [rings EXCEPT ![at] = Tail(@)]
      /\ released' = [released EXCEPT ![at] = Append(@, m)]
  BY <1>1, HeadIs
<1>3. /\ rings \in [Rings -> Seq(Messages)] /\ rings[at] \in Seq(Messages)
      /\ released \in [Rings -> Seq(Messages)] /\ released[at] \in Seq(Messages)
      /\ rings[at] # <<>>
  BY <1>2 DEF IndInv, TypeOK, HandleRecord
<1>4. CASE q # at
  BY <1>2, <1>3, <1>4, UnchangedRing
<1>5. CASE q = at
  <2>1. rings'[q] = Tail(rings[q]) /\ released'[q] = Append(released[q], m)
    BY <1>2, <1>3, <1>5
  <2>2. /\ Mapped(rings[q]) # <<>> /\ Head(Mapped(rings[q])) = Record(m)
        /\ Mapped(rings'[q]) = Tail(Mapped(rings[q]))
    BY <1>1, <1>3, <1>5, <2>1, MappedTail
  <2>3. /\ Len(rings[q]) - 1 \in Nat /\ Len(rings'[q]) = Len(rings[q]) - 1
        /\ Len(rings[q]) = (Len(rings[q]) - 1) + 1
    BY <1>3, <1>5, <2>1, Pops
  <2>4. Used(q)' = Used(q) - Size
    <3> DEFINE n == Len(rings[q]) - 1
    <3>1. Used(q) = Size * (n + 1) /\ Size * Len(rings'[q]) = Size * n /\ n \in Nat
      BY <2>3 DEF Used
    <3> HIDE DEF n
    <3>2. Size * (n + 1) = Size * n + Size /\ Size * n \in Nat /\ Size \in Nat
      BY <3>1, UsedIs
    <3>3. Used(q)' = Size * Len(rings'[q])
      BY DEF Used, Size
    <3> QED
      BY <3>1, <3>2, <3>3
  <2>5. Delivered(released'[q]) = Record(m)
    <3>1. Append(released[q], m) # <<>> /\ Last(Append(released[q], m)) = m
      <4>1. /\ Len(Append(released[q], m)) = Len(released[q]) + 1
            /\ Len(released[q]) \in Nat
            /\ Append(released[q], m)[Len(released[q]) + 1] = m
        BY <1>2, <1>3, <1>5, Puts
      <4> DEFINE s == Append(released[q], m)
      <4>2. s # <<>>
        BY <1>2, <1>3, <1>5
      <4>3. s[Len(s)] = m
        BY <4>1
      <4> QED
        BY <4>2, <4>3 DEF Last
    <3> QED
      BY <2>1, <3>1 DEF Delivered
  <2> QED
    BY <1>2, <1>5, <2>2, <2>4, <2>5, TakeIs
<1> QED
  BY <1>4, <1>5

\* What the handler and the capture threads take a ring for is the queue that the
\* ring buffer was shown to implement.
THEOREM RingsBehave == Spec => RingsAreQueues
<1>1. Init => \A r \in Rings : Ring(r)!Init
  <2> SUFFICES ASSUME Init, NEW r \in Rings PROVE Ring(r)!Init
    OBVIOUS
  <2>1. rings[r] = <<>> /\ released[r] = <<>>
    BY DEF Init
  <2>2. Mapped(rings[r]) = <<>> /\ Delivered(released[r]) = <<>>
    BY <2>1 DEF Mapped, Delivered
  <2>3. Used(r) = 0
    BY <2>1, RingsAssumption DEF Used, Size
  <2> QED
    BY <2>2, <2>3, QueueIs
<1>2. IndInv /\ [Next]_vars
        => [\A r \in Rings : UNCHANGED Ring(r)!vars \/ Ring(r)!Next]_vars
  <2> SUFFICES ASSUME IndInv, Next
               PROVE  \A r \in Rings : UNCHANGED Ring(r)!vars \/ Ring(r)!Next
    OBVIOUS
  <2> TAKE q \in Rings
  <2>1. ASSUME StartRound \/ NextRing
        PROVE  UNCHANGED Ring(q)!vars
    <3>1. rings'[q] = rings[q] /\ released'[q] = released[q]
      BY <2>1 DEF StartRound, NextRing
    <3> QED
      BY <3>1, UnchangedRing
  <2> QED
    BY <2>1, CaptureQueues, HandleQueues DEF Next, Handler
<1> QED
  BY <1>1, <1>2, Invariance, PTL DEF Spec, RingsAreQueues

=============================================================================
