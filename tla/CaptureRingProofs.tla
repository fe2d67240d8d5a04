------------------------- MODULE CaptureRingProofs -------------------------
(***************************************************************************)
(* Proofs about the ring of blocks for every number and size of blocks and *)
(* every set of packets: IndInv is inductive, and every step of kernel and *)
(* thread implements a step of PacketFeed or leaves it unchanged.          *)
(*                                                                         *)
(* IndInv says of the number of blocks that wait what it is (Retired).  In *)
(* the proofs it is a number r of its own, that Retired is equal to.       *)
(***************************************************************************)
EXTENDS CaptureRing, FiniteSetTheorems, SequenceTheorems, TLAPS

-----------------------------------------------------------------------------
(* Induction is stated with a set: the principles of the library are       *)
(* stated with an operator and cannot be instantiated by the provers.      *)

\* A set of naturals that is not empty has a smallest element.
LEMMA Smallest ==
  ASSUME NEW T \in SUBSET Nat, T # {}
  PROVE  \E x \in T : \A y \in T : x <= y
<1> DEFINE R == OpToRel(<, Nat)
<1>1. IsWellFoundedOn(R, Nat)
  BY NatLessThanWellFounded
<1>2. \A x, y \in Nat : x < y => <<x, y>> \in R
  BY Zenon DEF OpToRel
<1> HIDE DEF R
<1>3. \E x \in T : \A y \in T : ~(<<y, x>> \in R)
  BY <1>1, WFMin
<1>4. PICK x \in T : \A y \in T : ~(<<y, x>> \in R)
  BY <1>3
<1>5. \A y \in T : ~(y < x)
  BY <1>2, <1>4
<1> QED
  BY <1>4, <1>5

\* A set that has 0 and with each number the next one has all numbers.
LEMMA NatSetInduction ==
  ASSUME NEW S, 0 \in S, \A n \in Nat : n \in S => n + 1 \in S
  PROVE  Nat \subseteq S
<1>1. SUFFICES ASSUME Nat \ S # {} PROVE FALSE
  OBVIOUS
<1>2. PICK x \in Nat \ S : \A y \in Nat \ S : x <= y
  BY <1>1, Smallest
<1>3. x - 1 \in Nat /\ (x - 1) + 1 = x
  BY <1>2
<1>4. x - 1 \in S
  BY <1>2, <1>3
<1> QED
  BY <1>2, <1>3, <1>4

\* The same up to a bound.
LEMMA IntervalInduction ==
  ASSUME NEW S, NEW n \in Nat, 0 \in S,
         \A k \in 0 .. n - 1 : k \in S => k + 1 \in S
  PROVE  0 .. n \subseteq S
<1> DEFINE T == {k \in Nat : k <= n => k \in S}
<1>1. 0 \in T
  OBVIOUS
<1>2. \A k \in Nat : k \in T => k + 1 \in T
  OBVIOUS
<1>3. Nat \subseteq T
  <2> HIDE DEF T
  <2> QED
    BY <1>1, <1>2, NatSetInduction
<1> QED
  BY <1>3

-----------------------------------------------------------------------------
(* Block numbers.                                                          *)

\* Everything is less than two laps away: the remainder is a subtraction.
LEMMA LessThanTwoLaps ==
  \A x \in 0 .. 2 * Blocks - 1 : x % Blocks = IF x < Blocks THEN x ELSE x - Blocks
<1>1. Blocks \in Nat \ {0}
  BY BlocksAssumption
<1> QED
  BY <1>1

\* The block d places after the thread's.
LEMMA AheadIs ==
  ASSUME block_num \in BlockNums, NEW d \in 0 .. Blocks
  PROVE  /\ Ahead(d) = IF block_num + d < Blocks THEN block_num + d
                                                 ELSE block_num + d - Blocks
         /\ Ahead(d) \in BlockNums
<1>1. Blocks \in Nat \ {0} /\ block_num \in 0 .. Blocks - 1
  BY BlocksAssumption DEF BlockNums
<1>2. block_num + d \in 0 .. 2 * Blocks - 1
  BY <1>1
<1> QED
  BY <1>1, <1>2, LessThanTwoLaps DEF Ahead, BlockNums

\* Blocks at different distances are different blocks.
LEMMA AheadDistinct ==
  ASSUME block_num \in BlockNums,
         NEW d \in 0 .. Blocks - 1, NEW e \in 0 .. Blocks - 1, d # e
  PROVE  Ahead(d) # Ahead(e)
<1>1. Blocks \in Nat \ {0} /\ block_num \in 0 .. Blocks - 1
  BY BlocksAssumption DEF BlockNums
<1>2. d \in 0 .. Blocks /\ e \in 0 .. Blocks
  BY <1>1
<1> QED
  BY <1>1, <1>2, AheadIs

\* The thread's own block is the one at distance 0, and again after a lap.
LEMMA AheadLap ==
  ASSUME block_num \in BlockNums
  PROVE  Ahead(0) = block_num /\ Ahead(Blocks) = block_num
<1>1. Blocks \in Nat \ {0} /\ block_num \in 0 .. Blocks - 1
  BY BlocksAssumption DEF BlockNums
<1> QED
  BY <1>1, AheadIs

-----------------------------------------------------------------------------
(* The blocks that wait.                                                   *)

\* BlocksInTurn with r blocks before the kernel's.
InTurn(r) ==
  /\ \A d \in 0 .. Blocks - 1 :
       block_status[Ahead(d)] = (IF d < r THEN "user" ELSE "kernel")
  /\ active = Ahead(r)
  /\ filling => r < Blocks
  /\ \A d \in 0 .. r - 1 : num_pkts[Ahead(d)] > 0
  /\ \A d \in 1 .. r - 1 : first[Ahead(d)] = End(Ahead(d - 1))
  /\ filling =>
       /\ End(active) = Len(captured)
       /\ r > 0 => first[active] = End(Ahead(r - 1))
       /\ r = 0 => first[active] = seen
  /\ ~filling => Len(captured) = (IF r > 0 THEN End(Ahead(r - 1)) ELSE seen)
  /\ r > 0 /\ pc # "walk" => first[block_num] = seen
  /\ pc = "walk" =>
       /\ r > 0
       /\ num = num_pkts[block_num]
       /\ first[block_num] + i = seen

\* Retired is a number of blocks.
LEMMA RetiredType ==
  ASSUME TypeOK
  PROVE  Retired \in 0 .. Blocks
<1>1. /\ Blocks \in Nat \ {0} /\ active \in 0 .. Blocks - 1
      /\ block_num \in 0 .. Blocks - 1
  BY BlocksAssumption DEF BlockNums, TypeOK
<1>2. active + Blocks - 1 - block_num \in 0 .. 2 * Blocks - 1
  BY <1>1
<1>3. (active + Blocks - 1 - block_num) % Blocks \in 0 .. Blocks - 1
  BY <1>1, <1>2, LessThanTwoLaps
<1> QED
  BY <1>1, <1>3 DEF Retired

\* When r blocks wait, Retired is r: there is no other way to count them.
LEMMA RetiredIs ==
  ASSUME TypeOK, NEW r \in 0 .. Blocks, InTurn(r)
  PROVE  Retired = r
<1>1. /\ Blocks \in Nat \ {0} /\ active \in 0 .. Blocks - 1
      /\ block_num \in 0 .. Blocks - 1 /\ block_num \in BlockNums
  BY BlocksAssumption DEF BlockNums, TypeOK
<1>2. block_status[block_num] = (IF 0 < r THEN "user" ELSE "kernel")
  BY <1>1, AheadLap DEF InTurn
<1>3. CASE r = 0
  BY <1>2, <1>3 DEF Retired
<1>4. CASE r > 0
  <2>1. active = IF block_num + r < Blocks THEN block_num + r
                                           ELSE block_num + r - Blocks
    BY <1>1, AheadIs DEF InTurn
  <2>2. active + Blocks - 1 - block_num \in 0 .. 2 * Blocks - 1
    BY <1>1
  <2>3. (active + Blocks - 1 - block_num) % Blocks = r - 1
    BY <1>1, <1>4, <2>1, <2>2, LessThanTwoLaps
  <2> QED
    BY <1>1, <1>2, <1>4, <2>3 DEF Retired
<1> QED
  BY <1>3, <1>4

\* Some number of blocks wait, in turn.
SomeInTurn == \E r \in 0 .. Blocks : InTurn(r)

\* IndInv, said with a number of its own.
LEMMA InTurnIff ==
  IndInv <=> TypeOK /\ SomeInTurn
<1>1. ASSUME IndInv
      PROVE  TypeOK /\ Retired \in 0 .. Blocks /\ InTurn(Retired)
  BY <1>1, RetiredType DEF IndInv, BlocksInTurn, InTurn
<1>2. ASSUME TypeOK, NEW r \in 0 .. Blocks, InTurn(r)
      PROVE  IndInv
  <2>1. Retired = r
    BY <1>2, RetiredIs
  <2> QED
    BY <1>2, <2>1 DEF IndInv, BlocksInTurn, InTurn
<1> QED
  BY <1>1, <1>2 DEF SomeInTurn

\* It holds in the next state when the next state has such a number.
LEMMA NextInTurn ==
  ASSUME TypeOK', NEW r \in 0 .. Blocks, InTurn(r)'
  PROVE  IndInv'
<1>1. TypeOK' /\ SomeInTurn' => IndInv'
  BY InTurnIff, PTL
<1> QED
  BY <1>1 DEF SomeInTurn

\* The packets of the blocks that wait are captured: every block after the
\* thread's adds at least one.
LEMMA Behind ==
  ASSUME TypeOK, NEW r \in 0 .. Blocks, InTurn(r)
  PROVE  /\ r > 0 => /\ End(Ahead(0)) + (r - 1) <= Len(captured)
                     /\ seen <= End(Ahead(0))
                     /\ pc # "walk" => seen < End(Ahead(0))
         /\ seen <= Len(captured)
<1>1. /\ Blocks \in Nat \ {0} /\ block_num \in BlockNums /\ active \in BlockNums
      /\ seen \in Nat /\ Len(captured) \in Nat
  BY BlocksAssumption DEF TypeOK
<1>2. \A b \in BlockNums : first[b] \in Nat /\ num_pkts[b] \in Nat /\ End(b) \in Nat
  BY BlocksAssumption DEF TypeOK, End
<1>3. \A d \in 0 .. Blocks : Ahead(d) \in BlockNums
  BY <1>1, AheadIs
<1>4. CASE r = 0
  <2>1. ~filling => Len(captured) = seen
    BY <1>4 DEF InTurn
  <2>2. filling => first[active] = seen /\ first[active] + num_pkts[active] = Len(captured)
    BY <1>4 DEF InTurn, End
  <2> QED
    BY <1>1, <1>2, <1>4, <2>1, <2>2
<1>5. CASE r > 0
  <2> DEFINE S == {d \in 0 .. r - 1 : End(Ahead(0)) + d <= End(Ahead(d))}
  <2>1. 0 \in S
    BY <1>1, <1>2, <1>3, <1>5
  <2>2. ASSUME NEW d \in 0 .. r - 2, d \in S
        PROVE  d + 1 \in S
    <3>1. d + 1 \in 1 .. r - 1 /\ d + 1 \in 0 .. r - 1 /\ d + 1 \in 0 .. Blocks
          /\ d \in 0 .. Blocks /\ (d + 1) - 1 = d /\ 0 \in 0 .. Blocks
      BY <1>1, <1>5
    <3>2. num_pkts[Ahead(d + 1)] > 0
      BY <3>1 DEF InTurn
    <3>3. first[Ahead(d + 1)] = End(Ahead(d))
      <4>1. first[Ahead(d + 1)] = End(Ahead((d + 1) - 1))
        BY <3>1 DEF InTurn
      <4> QED
        BY <4>1, <3>1
    <3>4. End(Ahead(d + 1)) = End(Ahead(d)) + num_pkts[Ahead(d + 1)]
      BY <3>3 DEF End
    <3>5. /\ End(Ahead(0)) \in Nat /\ End(Ahead(d)) \in Nat
          /\ num_pkts[Ahead(d + 1)] \in Nat
      BY <1>2, <1>3, <3>1
    <3>6. End(Ahead(0)) + d <= End(Ahead(d))
      BY <2>2
    <3>7. End(Ahead(0)) + (d + 1) <= End(Ahead(d + 1))
      BY <3>2, <3>4, <3>5, <3>6
    <3> QED
      BY <3>1, <3>7
  <2>3. 0 .. r - 1 \subseteq S
    <3>1. r - 1 \in Nat /\ (r - 1) - 1 = r - 2
      BY <1>5
    <3> HIDE DEF S
    <3> QED
      BY <2>1, <2>2, <3>1, IntervalInduction
  <2>4. End(Ahead(0)) + (r - 1) <= End(Ahead(r - 1))
    BY <1>5, <2>3
  <2>5. End(Ahead(r - 1)) <= Len(captured)
    <3>1. Ahead(r - 1) \in BlockNums
      BY <1>1, <1>3, <1>5
    <3>2. ~filling => Len(captured) = End(Ahead(r - 1))
      BY <1>5 DEF InTurn
    <3>3. filling => /\ first[active] = End(Ahead(r - 1))
                     /\ first[active] + num_pkts[active] = Len(captured)
      BY <1>5 DEF InTurn, End
    <3> QED
      BY <1>1, <1>2, <3>1, <3>2, <3>3
  <2>6. End(Ahead(0)) = first[block_num] + num_pkts[block_num]
    BY <1>1, AheadLap DEF End
  <2>7. num_pkts[block_num] > 0
    <3>1. 0 \in 0 .. r - 1
      BY <1>5
    <3> QED
      BY <1>1, <3>1, AheadLap DEF InTurn
  <2>8. CASE pc = "walk"
    <3>1. first[block_num] + i = seen /\ num = num_pkts[block_num]
      BY <2>8 DEF InTurn
    <3>2. i \in 0 .. num /\ num \in Nat
      BY DEF TypeOK
    <3>3. seen <= End(Ahead(0))
      BY <1>1, <1>2, <2>6, <3>1, <3>2
    <3> QED
      BY <1>1, <1>2, <1>3, <1>5, <2>4, <2>5, <2>8, <3>3
  <2>9. CASE pc # "walk"
    <3>1. first[block_num] = seen
      BY <1>5, <2>9 DEF InTurn
    <3>2. seen < End(Ahead(0))
      BY <1>1, <1>2, <2>6, <2>7, <3>1
    <3> QED
      BY <1>1, <1>2, <1>3, <1>5, <2>4, <2>5, <3>2
  <2> QED
    BY <2>8, <2>9
<1> QED
  BY <1>1, <1>4, <1>5

\* During a walk the packet it has come to is a captured one.
LEMMA CurrentIs ==
  ASSUME TypeOK, NEW r \in 0 .. Blocks, InTurn(r), pc = "walk", i < num
  PROVE  /\ seen + 1 \in 1 .. Len(captured)
         /\ Current = captured[seen + 1]
         /\ Current \in Packets
<1>1. /\ first[block_num] + i = seen /\ num = num_pkts[block_num] /\ r > 0
  BY DEF InTurn
<1>2. /\ block_num \in BlockNums /\ first[block_num] \in Nat
      /\ num_pkts[block_num] \in Nat /\ i \in Nat /\ seen \in Nat
      /\ captured \in Seq(Packets)
  BY DEF TypeOK
<1>3. End(Ahead(0)) = first[block_num] + num_pkts[block_num]
  BY <1>2, AheadLap DEF End
<1>4. End(Ahead(0)) + (r - 1) <= Len(captured)
  BY <1>1, Behind
<1>5. seen + 1 \in 1 .. Len(captured)
  BY <1>1, <1>2, <1>3, <1>4
<1> QED
  BY <1>1, <1>2, <1>5 DEF Current

-----------------------------------------------------------------------------
(* IndInv is inductive.                                                    *)

\* Nothing is captured and the first block is open.
LEMMA InitIndInv == Init => IndInv
<1> SUFFICES ASSUME Init PROVE IndInv
  OBVIOUS
<1>1. Blocks \in Nat \ {0} /\ PerBlock \in Nat \ {0} /\ 0 \in BlockNums
  BY BlocksAssumption DEF BlockNums
<1>2. TypeOK
  <2>1. captured \in Seq(Packets)
    BY DEF Init
  <2> QED
    BY <1>1, <2>1 DEF Init, TypeOK
<1>3. Retired = 0 /\ Ahead(0) = 0
  BY <1>1, AheadLap DEF Init, Retired
<1>4. \A d \in 0 .. Blocks - 1 : Ahead(d) \in BlockNums
  BY <1>1, AheadIs DEF Init
<1>5. BlocksInTurn
  BY <1>1, <1>3, <1>4 DEF Init, BlocksInTurn, End
<1> QED
  BY <1>2, <1>5 DEF IndInv

\* A step that changes nothing keeps it.
LEMMA StutterIndInv == ASSUME IndInv, UNCHANGED vars PROVE IndInv'
BY DEF IndInv, vars, kernelVars, blockVars, threadVars, TypeOK, BlocksInTurn,
       Retired, Ahead, End

\* A packet makes the open block and the captured packets longer by one.
LEMMA StoreIndInv ==
  ASSUME IndInv, NEW p \in Packets, Store(p)
  PROVE  IndInv'
<1> USE DEF Store, threadVars
<1>1. PICK r \in 0 .. Blocks : InTurn(r)
  BY InTurnIff DEF SomeInTurn
<1>2. /\ Blocks \in Nat \ {0} /\ PerBlock \in Nat \ {0}
      /\ block_num \in BlockNums /\ active \in BlockNums
      /\ captured \in Seq(Packets) /\ TypeOK
  BY BlocksAssumption DEF IndInv, TypeOK
<1>3. /\ Len(captured') = Len(captured) + 1 /\ captured' \in Seq(Packets)
      /\ Len(captured) \in Nat
  BY <1>2
<1>4. TypeOK'
  BY <1>2, <1>3 DEF TypeOK
<1>5. \A d \in 0 .. Blocks : Ahead(d) \in BlockNums /\ Ahead(d)' = Ahead(d)
  BY <1>2, AheadIs DEF Ahead
<1>6. r < Blocks /\ active = Ahead(r)
  BY <1>1 DEF InTurn
<1>7. \A d \in 0 .. r - 1 : Ahead(d) # active
  BY <1>2, <1>6, AheadDistinct
<1>8. \A b \in BlockNums :
        /\ End(b)' = IF b = active THEN End(b) + 1 ELSE End(b)
        /\ num_pkts'[b] = IF b = active THEN num_pkts[b] + 1 ELSE num_pkts[b]
  BY <1>2 DEF End, TypeOK
<1>9. InTurn(r)'
  <2>1. \A d \in 0 .. Blocks - 1 :
          block_status'[Ahead(d)'] = (IF d < r THEN "user" ELSE "kernel")
    BY <1>1, <1>2, <1>5 DEF InTurn
  <2>2. active' = Ahead(r)' /\ (filling' => r < Blocks)
    BY <1>2, <1>5, <1>6
  <2>3. \A d \in 0 .. r - 1 : num_pkts'[Ahead(d)'] > 0
    BY <1>1, <1>2, <1>5, <1>7, <1>8 DEF InTurn
  <2>4. \A d \in 1 .. r - 1 : first'[Ahead(d)'] = End(Ahead(d - 1))'
    BY <1>1, <1>2, <1>5, <1>7, <1>8 DEF InTurn
  <2>5. End(active)' = Len(captured')
    BY <1>1, <1>2, <1>3, <1>8 DEF InTurn
  <2>6. /\ r > 0 => first'[active'] = End(Ahead(r - 1))'
        /\ r = 0 => first'[active'] = seen'
    BY <1>1, <1>2, <1>5, <1>7, <1>8 DEF InTurn
  <2>7. /\ r > 0 /\ pc' # "walk" => first'[block_num'] = seen'
        /\ pc' = "walk" => /\ r > 0
                           /\ num' = num_pkts'[block_num']
                           /\ first'[block_num'] + i' = seen'
    <3>1. r > 0 => block_num # active
      BY <1>2, <1>7, AheadLap
    <3> QED
      BY <1>1, <1>2, <1>8, <3>1 DEF InTurn
  <2> QED
    BY <1>2, <2>1, <2>2, <2>3, <2>4, <2>5, <2>6, <2>7 DEF InTurn
<1> QED
  BY <1>4, <1>9, NextInTurn

\* Retiring the open block adds it to those that wait; the kernel moves on.
LEMMA RetireIndInv ==
  ASSUME IndInv, Retire
  PROVE  IndInv'
<1> USE DEF Retire, threadVars
<1>1. PICK r \in 0 .. Blocks : InTurn(r)
  BY InTurnIff DEF SomeInTurn
<1>2. /\ Blocks \in Nat \ {0} /\ block_num \in BlockNums /\ active \in BlockNums
      /\ TypeOK
  BY BlocksAssumption DEF IndInv, TypeOK
<1>3. r < Blocks /\ active = Ahead(r) /\ r + 1 \in 0 .. Blocks
  BY <1>1, <1>2 DEF InTurn
<1>4. NextActive = Ahead(r + 1) /\ NextActive \in BlockNums
  <2>1. Ahead(r + 1) \in BlockNums
    BY <1>2, <1>3, AheadIs
  <2>2. active + 1 \in 0 .. 2 * Blocks - 1 /\ active \in 0 .. Blocks - 1
    BY <1>2 DEF BlockNums
  <2>3. block_num \in 0 .. Blocks - 1
    BY <1>2 DEF BlockNums
  <2>4. NextActive = IF active + 1 < Blocks THEN active + 1 ELSE active + 1 - Blocks
    BY <1>2, <2>2 DEF NextActive
  <2>5. active = IF block_num + r < Blocks THEN block_num + r ELSE block_num + r - Blocks
    BY <1>2, <1>3, AheadIs
  <2>6. Ahead(r + 1) = IF block_num + (r + 1) < Blocks THEN block_num + (r + 1)
                                                       ELSE block_num + (r + 1) - Blocks
    BY <1>2, <1>3, AheadIs
  <2>7. NextActive = Ahead(r + 1)
    BY <1>2, <1>3, <2>2, <2>3, <2>4, <2>5, <2>6
  <2> QED
    BY <2>1, <2>7
<1>5. TypeOK'
  BY <1>2, <1>4 DEF TypeOK
<1>6. /\ \A d \in 0 .. Blocks : Ahead(d) \in BlockNums /\ Ahead(d)' = Ahead(d)
      /\ \A b \in BlockNums : End(b)' = End(b)
  BY <1>2, AheadIs DEF Ahead, End
<1>7. \A d \in 0 .. Blocks - 1 : d # r => Ahead(d) # active
  BY <1>2, <1>3, AheadDistinct
<1>8. InTurn(r + 1)'
  <2>1. \A d \in 0 .. Blocks - 1 :
          block_status'[Ahead(d)'] = (IF d < r + 1 THEN "user" ELSE "kernel")
    <3> SUFFICES ASSUME NEW d \in 0 .. Blocks - 1
                 PROVE block_status'[Ahead(d)'] = (IF d < r + 1 THEN "user" ELSE "kernel")
      OBVIOUS
    <3>1. Ahead(d) \in BlockNums /\ Ahead(d)' = Ahead(d)
      BY <1>2, <1>6
    <3>2. block_status \in [BlockNums -> {"kernel", "user"}]
      BY <1>2 DEF TypeOK
    <3>3. CASE d = r
      BY <1>2, <1>3, <3>1, <3>2, <3>3
    <3>4. CASE d # r
      <4>1. block_status'[Ahead(d)] = block_status[Ahead(d)]
        BY <1>7, <3>1, <3>2, <3>4
      <4>2. block_status[Ahead(d)] = (IF d < r THEN "user" ELSE "kernel")
        BY <1>1 DEF InTurn
      <4> QED
        BY <3>1, <3>4, <4>1, <4>2
    <3> QED
      BY <3>3, <3>4
  <2>2. active' = Ahead(r + 1)' /\ ~filling'
    BY <1>3, <1>4, <1>6
  <2>3. \A d \in 0 .. r : num_pkts'[Ahead(d)'] > 0
    BY <1>1, <1>2, <1>3, <1>6 DEF InTurn
  <2>4. \A d \in 1 .. r : first'[Ahead(d)'] = End(Ahead(d - 1))'
    <3>1. \A d \in 1 .. r : /\ d \in 0 .. Blocks /\ d - 1 \in 0 .. Blocks
                            /\ d = r \/ d \in 1 .. r - 1
      BY <1>2, <1>3
    <3>2. \A d \in 1 .. r : first[Ahead(d)] = End(Ahead(d - 1))
      BY <1>1, <1>3, <3>1 DEF InTurn
    <3> QED
      BY <1>6, <3>1, <3>2
  <2>5. Len(captured') = End(Ahead(r))'
    BY <1>1, <1>3, <1>6 DEF InTurn
  <2>6. pc' # "walk" => first'[block_num'] = seen'
    <3>1. CASE r = 0
      BY <1>1, <1>2, <1>3, <3>1, AheadLap DEF InTurn
    <3>2. CASE r > 0
      BY <1>1, <3>2 DEF InTurn
    <3> QED
      BY <3>1, <3>2
  <2>7. pc' = "walk" => /\ num' = num_pkts'[block_num']
                        /\ first'[block_num'] + i' = seen'
    BY <1>1 DEF InTurn
  <2>8. r + 1 > 0 /\ (r + 1) - 1 = r
    OBVIOUS
  <2> QED
    BY <2>1, <2>2, <2>3, <2>4, <2>5, <2>6, <2>7, <2>8 DEF InTurn
<1> QED
  BY <1>3, <1>5, <1>8, NextInTurn

\* The block that is opened is none of those that wait and begins where they end.
LEMMA OpenIndInv ==
  ASSUME IndInv, Open
  PROVE  IndInv'
<1> USE DEF Open, threadVars
<1>1. PICK r \in 0 .. Blocks : InTurn(r)
  BY InTurnIff DEF SomeInTurn
<1>2. /\ Blocks \in Nat \ {0} /\ block_num \in BlockNums /\ active \in BlockNums
      /\ Len(captured) \in Nat /\ PerBlock \in Nat /\ TypeOK
      /\ first \in [BlockNums -> Nat] /\ num_pkts \in [BlockNums -> 0 .. PerBlock]
  BY BlocksAssumption DEF IndInv, TypeOK
<1>3. r < Blocks /\ active = Ahead(r)
  <2>1. active = Ahead(r)
    BY <1>1 DEF InTurn
  <2>2. ASSUME r = Blocks PROVE FALSE
    <3>1. active = Ahead(0) /\ 0 \in 0 .. Blocks - 1 /\ 0 < r
      BY <1>2, <2>1, <2>2, AheadLap
    <3>2. block_status[Ahead(0)] = "user"
      BY <1>1, <3>1 DEF InTurn
    <3> QED
      BY <3>1, <3>2
  <2> QED
    BY <1>2, <2>1, <2>2
<1>4. TypeOK'
  BY <1>2 DEF TypeOK
<1>5. \A d \in 0 .. Blocks : Ahead(d) \in BlockNums /\ Ahead(d)' = Ahead(d)
  BY <1>2, AheadIs DEF Ahead
<1>6. \A d \in 0 .. r - 1 : Ahead(d) # active
  BY <1>2, <1>3, AheadDistinct
<1>7. \A b \in BlockNums \ {active} :
        first'[b] = first[b] /\ num_pkts'[b] = num_pkts[b] /\ End(b)' = End(b)
  BY <1>2 DEF End
<1>8. first'[active] = Len(captured) /\ num_pkts'[active] = 0
      /\ End(active)' = Len(captured)
  BY <1>2 DEF End
<1>9. InTurn(r)'
  <2>1. \A d \in 0 .. Blocks - 1 :
          block_status'[Ahead(d)'] = (IF d < r THEN "user" ELSE "kernel")
    BY <1>1, <1>2, <1>5 DEF InTurn
  <2>2. active' = Ahead(r)' /\ r < Blocks
    BY <1>2, <1>3, <1>5
  <2>3. \A d \in 0 .. r - 1 : num_pkts'[Ahead(d)'] > 0
    BY <1>1, <1>2, <1>5, <1>6, <1>7 DEF InTurn
  <2>4. \A d \in 1 .. r - 1 : first'[Ahead(d)'] = End(Ahead(d - 1))'
    BY <1>1, <1>2, <1>5, <1>6, <1>7 DEF InTurn
  <2>5. End(active)' = Len(captured')
    BY <1>8
  <2>6. /\ r > 0 => first'[active'] = End(Ahead(r - 1))'
        /\ r = 0 => first'[active'] = seen'
    BY <1>1, <1>2, <1>5, <1>6, <1>7, <1>8 DEF InTurn
  <2>7. /\ r > 0 /\ pc' # "walk" => first'[block_num'] = seen'
        /\ pc' = "walk" => /\ r > 0
                           /\ num' = num_pkts'[block_num']
                           /\ first'[block_num'] + i' = seen'
    <3>1. r > 0 => block_num # active
      BY <1>2, <1>6, AheadLap
    <3> QED
      BY <1>1, <1>2, <1>7, <3>1 DEF InTurn
  <2> QED
    BY <2>1, <2>2, <2>3, <2>4, <2>5, <2>6, <2>7 DEF InTurn
<1> QED
  BY <1>4, <1>9, NextInTurn

\* A walk starts at a block that waits.
LEMMA StartWalkIndInv ==
  ASSUME IndInv, StartWalk
  PROVE  IndInv'
<1> USE DEF StartWalk, kernelVars, blockVars
<1>1. PICK r \in 0 .. Blocks : InTurn(r)
  BY InTurnIff DEF SomeInTurn
<1>2. /\ Blocks \in Nat \ {0} /\ block_num \in BlockNums /\ TypeOK
      /\ PerBlock \in Nat \ {0} /\ first[block_num] \in Nat
  BY BlocksAssumption DEF IndInv, TypeOK
<1>3. r > 0
  <2>1. block_status[block_num] = (IF 0 < r THEN "user" ELSE "kernel")
    BY <1>1, <1>2, AheadLap DEF InTurn
  <2> QED
    BY <2>1
<1>4. TypeOK'
  BY <1>2 DEF TypeOK
<1>5. InTurn(r)'
  BY <1>1, <1>2, <1>3 DEF InTurn, Ahead, End
<1> QED
  BY <1>4, <1>5, NextInTurn

\* One packet of the walk is seen.
LEMMA DisplayIndInv ==
  ASSUME IndInv, Display
  PROVE  IndInv'
<1> USE DEF Display, kernelVars, blockVars
<1>1. PICK r \in 0 .. Blocks : InTurn(r)
  BY InTurnIff DEF SomeInTurn
<1>2. /\ Blocks \in Nat \ {0} /\ block_num \in BlockNums /\ TypeOK
      /\ PerBlock \in Nat \ {0} /\ first[block_num] \in Nat
      /\ i \in Nat /\ num \in Nat /\ seen \in Nat
  BY BlocksAssumption DEF IndInv, TypeOK
<1>3. Current \in Packets
  BY <1>1, <1>2, CurrentIs
<1>4. TypeOK'
  BY <1>2, <1>3 DEF TypeOK
<1>5. InTurn(r)'
  BY <1>1, <1>2, SMTT(20) DEF InTurn, Ahead, End
<1> QED
  BY <1>4, <1>5, NextInTurn

\* The block goes back to the kernel: one block less waits, and the thread
\* stands where the next one begins.
LEMMA FlushBlockIndInv ==
  ASSUME IndInv, FlushBlock
  PROVE  IndInv'
<1> USE DEF FlushBlock, Walked, kernelVars
<1>1. PICK r \in 0 .. Blocks : InTurn(r)
  BY InTurnIff DEF SomeInTurn
<1>2. /\ Blocks \in Nat \ {0} /\ block_num \in BlockNums /\ active \in BlockNums
      /\ block_num \in 0 .. Blocks - 1 /\ seen \in Nat /\ TypeOK
      /\ block_status \in [BlockNums -> {"kernel", "user"}]
  BY BlocksAssumption DEF IndInv, TypeOK, BlockNums
<1>3. r > 0 /\ r - 1 \in 0 .. Blocks /\ active = Ahead(r)
  BY <1>1, <1>2 DEF InTurn
<1>4. block_num' = Ahead(1) /\ Ahead(1) \in BlockNums /\ block_num' \in BlockNums
  <2>1. block_num' = Ahead(1)
    BY <1>2 DEF NextBlock, Ahead
  <2> QED
    BY <1>2, <2>1, AheadIs
<1>5. TypeOK'
  BY <1>2, <1>4 DEF TypeOK
<1>6. \A d \in 0 .. Blocks - 1 :
         Ahead(d)' = Ahead(d + 1) /\ d + 1 \in 0 .. Blocks /\ Ahead(d + 1) \in BlockNums
  <2> SUFFICES ASSUME NEW d \in 0 .. Blocks - 1
               PROVE  Ahead(d)' = Ahead(d + 1) /\ d + 1 \in 0 .. Blocks
                        /\ Ahead(d + 1) \in BlockNums
    OBVIOUS
  <2>1. d + 1 \in 0 .. Blocks /\ 1 \in 0 .. Blocks
    BY <1>2
  <2>2. /\ Ahead(d + 1) \in BlockNums
        /\ Ahead(d + 1) = IF block_num + (d + 1) < Blocks THEN block_num + (d + 1)
                                                          ELSE block_num + (d + 1) - Blocks
    BY <1>2, <2>1, AheadIs
  <2>3. block_num' = IF block_num + 1 < Blocks THEN block_num + 1 ELSE block_num + 1 - Blocks
    BY <1>2, <1>4, <2>1, AheadIs
  <2>4. block_num' + d \in 0 .. 2 * Blocks - 1
    BY <1>2, <2>3
  <2>5. Ahead(d)' = IF block_num' + d < Blocks THEN block_num' + d ELSE block_num' + d - Blocks
    <3>1. PICK x \in 0 .. 2 * Blocks - 1 : x = block_num' + d
      BY <2>4
    <3>2. Ahead(d)' = x % Blocks
      BY <3>1 DEF Ahead
    <3> QED
      BY <1>2, <2>3, <3>1, <3>2, LessThanTwoLaps
  <2> QED
    BY <1>2, <2>1, <2>2, <2>3, <2>5
<1>7. /\ \A b \in BlockNums : End(b)' = End(b) /\ End(b) = first[b] + num_pkts[b]
      /\ Ahead(0) = block_num /\ Ahead(Blocks) = block_num
  BY <1>2, AheadLap DEF End
<1>8. seen = End(Ahead(0))
  BY <1>1, <1>2, <1>7 DEF InTurn
<1>9. InTurn(r - 1)'
  <2>1. \A d \in 0 .. Blocks - 1 :
          block_status'[Ahead(d)'] = (IF d < r - 1 THEN "user" ELSE "kernel")
    <3> SUFFICES ASSUME NEW d \in 0 .. Blocks - 1
                 PROVE block_status'[Ahead(d)'] = (IF d < r - 1 THEN "user" ELSE "kernel")
      OBVIOUS
    <3>1. Ahead(d)' = Ahead(d + 1) /\ Ahead(d + 1) \in BlockNums
      BY <1>6
    <3>2. CASE d = Blocks - 1
      <4>1. Ahead(d + 1) = block_num
        BY <1>2, <1>7, <3>2
      <4> QED
        BY <1>2, <1>3, <3>1, <3>2, <4>1
    <3>3. CASE d # Blocks - 1
      <4>1. d + 1 \in 0 .. Blocks - 1 /\ 0 \in 0 .. Blocks - 1 /\ d + 1 # 0
        BY <1>2, <3>3
      <4>2. Ahead(d + 1) # block_num
        BY <1>2, <1>7, <4>1, AheadDistinct
      <4>3. block_status'[Ahead(d + 1)] = block_status[Ahead(d + 1)]
        BY <1>2, <3>1, <4>2
      <4>4. block_status[Ahead(d + 1)] = (IF d + 1 < r THEN "user" ELSE "kernel")
        BY <1>1, <4>1 DEF InTurn
      <4>5. (d + 1 < r) = (d < r - 1)
        BY <1>2
      <4> QED
        BY <3>1, <4>3, <4>4, <4>5
    <3> QED
      BY <3>2, <3>3
  <2>2. r - 1 \in 0 .. Blocks - 1 /\ (r - 1) + 1 = r
    BY <1>2, <1>3
  <2>3. active' = Ahead(r - 1)' /\ (filling' => r - 1 < Blocks)
    BY <1>2, <1>3, <1>6, <2>2
  <2>4. \A d \in 0 .. (r - 1) - 1 : num_pkts'[Ahead(d)'] > 0
    <3>1. \A d \in 0 .. (r - 1) - 1 : d \in 0 .. Blocks - 1 /\ d + 1 \in 0 .. r - 1
      BY <1>2, <1>3
    <3> QED
      BY <1>1, <1>6, <3>1 DEF InTurn
  <2>5. \A d \in 1 .. (r - 1) - 1 : first'[Ahead(d)'] = End(Ahead(d - 1))'
    <3> SUFFICES ASSUME NEW d \in 1 .. (r - 1) - 1
                 PROVE  first'[Ahead(d)'] = End(Ahead(d - 1))'
      OBVIOUS
    <3>1. /\ d \in 0 .. Blocks - 1 /\ d - 1 \in 0 .. Blocks - 1
          /\ d + 1 \in 1 .. r - 1 /\ (d - 1) + 1 = d /\ (d + 1) - 1 = d
          /\ d \in 0 .. Blocks
      BY <1>2, <1>3
    <3>2. first[Ahead(d + 1)] = End(Ahead((d + 1) - 1))
      BY <1>1, <3>1 DEF InTurn
    <3>3. Ahead(d)' = Ahead(d + 1) /\ Ahead(d - 1)' = Ahead(d) /\ Ahead(d) \in BlockNums
      BY <1>2, <1>6, <3>1, AheadIs
    <3>4. End(Ahead(d - 1))' = End(Ahead(d))
      BY <1>7, <3>3 DEF End
    <3> QED
      BY <3>1, <3>2, <3>3, <3>4
  <2>6. filling' =>
          /\ End(active)' = Len(captured')
          /\ r - 1 > 0 => first'[active'] = End(Ahead((r - 1) - 1))'
          /\ r - 1 = 0 => first'[active'] = seen'
    <3>1. ASSUME filling' PROVE End(active)' = Len(captured')
      BY <1>1, <1>2, <1>7, <3>1 DEF InTurn, End
    <3>2. ASSUME filling' PROVE first'[active'] = End(Ahead(r - 1))
      BY <1>1, <1>3, <3>2 DEF InTurn
    <3>3. ASSUME r - 1 > 0 PROVE End(Ahead((r - 1) - 1))' = End(Ahead(r - 1))
      <4>1. (r - 1) - 1 \in 0 .. Blocks - 1 /\ ((r - 1) - 1) + 1 = r - 1
        BY <1>2, <1>3, <3>3
      <4>2. Ahead((r - 1) - 1)' = Ahead(r - 1)
        BY <1>6, <4>1
      <4> QED
        BY <4>2 DEF End
    <3>4. ASSUME r - 1 = 0 PROVE End(Ahead(r - 1)) = seen'
      BY <1>8, <3>4
    <3> QED
      BY <3>1, <3>2, <3>3, <3>4
  <2>7. ~filling' =>
          Len(captured') = (IF r - 1 > 0 THEN End(Ahead((r - 1) - 1))' ELSE seen')
    <3>1. ASSUME ~filling' PROVE Len(captured') = End(Ahead(r - 1))
      BY <1>1, <1>3, <3>1 DEF InTurn
    <3>3. ASSUME r - 1 > 0 PROVE End(Ahead((r - 1) - 1))' = End(Ahead(r - 1))
      <4>1. (r - 1) - 1 \in 0 .. Blocks - 1 /\ ((r - 1) - 1) + 1 = r - 1
        BY <1>2, <1>3, <3>3
      <4>2. Ahead((r - 1) - 1)' = Ahead(r - 1)
        BY <1>6, <4>1
      <4> QED
        BY <4>2 DEF End
    <3>4. ASSUME r - 1 = 0 PROVE End(Ahead(r - 1)) = seen'
      BY <1>8, <3>4
    <3> QED
      BY <1>3, <3>1, <3>3, <3>4
  <2>8. r - 1 > 0 => first'[block_num'] = seen'
    <3>1. ASSUME r - 1 > 0 PROVE first[Ahead(1)] = End(Ahead(0))
      BY <1>1, <1>2, <3>1 DEF InTurn
    <3> QED
      BY <1>4, <1>8, <3>1
  <2> QED
    BY <2>1, <2>3, <2>4, <2>5, <2>6, <2>7, <2>8 DEF InTurn
<1> QED
  BY <1>3, <1>5, <1>9, NextInTurn

\* The invariant of the hand-over, for any ring: the blocks that wait are in
\* turn, and together they hold exactly the packets captured and not seen.
THEOREM Invariance == Spec => []IndInv
<1>1. Init => IndInv
  BY InitIndInv
<1>2. IndInv /\ [Next]_vars => IndInv'
  <2> SUFFICES ASSUME IndInv, [Next]_vars PROVE IndInv'
    OBVIOUS
  <2>1. ASSUME NEW p \in Packets, Store(p) PROVE IndInv'
    BY <2>1, StoreIndInv
  <2>2. CASE Retire
    BY <2>2, RetireIndInv
  <2>3. CASE Open
    BY <2>3, OpenIndInv
  <2>4. CASE Drop
    BY <2>4 DEF Drop, IndInv, blockVars, threadVars, TypeOK, BlocksInTurn,
                Retired, Ahead, End
  <2>5. CASE LookAway
    BY <2>5 DEF LookAway, IndInv, blockVars, kernelVars, TypeOK, BlocksInTurn,
                Retired, Ahead, End
  <2>6. CASE PollReturns
    BY <2>6 DEF PollReturns, IndInv, blockVars, kernelVars, TypeOK, BlocksInTurn,
                Retired, Ahead, End
  <2>7. CASE StartWalk
    BY <2>7, StartWalkIndInv
  <2>8. CASE Display
    BY <2>8, DisplayIndInv
  <2>9. CASE FlushBlock
    BY <2>9, FlushBlockIndInv
  <2>10. CASE UNCHANGED vars
    BY <2>10, StutterIndInv
  <2> QED
    BY <2>1, <2>2, <2>3, <2>4, <2>5, <2>6, <2>7, <2>8, <2>9, <2>10
       DEF Next, Kernel, Thread
<1> QED
  BY <1>1, <1>2, PTL DEF Spec

-----------------------------------------------------------------------------
(* Refinement.                                                             *)

\* Capturing a packet puts it behind those that wait.
LEMMA StoreCaptures ==
  ASSUME IndInv, NEW p \in Packets, Store(p)
  PROVE  Feed!Capture(p)
<1>1. PICK r \in 0 .. Blocks : InTurn(r)
  BY InTurnIff DEF SomeInTurn
<1>2. /\ captured \in Seq(Packets) /\ Len(captured) \in Nat /\ TypeOK
      /\ seen \in Nat /\ seen <= Len(captured)
  BY <1>1, Behind DEF IndInv, TypeOK
<1> DEFINE n == Len(captured)
           old == SubSeq(captured, seen + 1, n)
           new == SubSeq(captured', seen + 1, n + 1)
<1>3. /\ captured' = Append(captured, p) /\ seen' = seen
      /\ UNCHANGED <<extracted, dropped>>
  BY DEF Store, threadVars
<1>4. /\ captured' \in Seq(Packets) /\ Len(captured') = n + 1
      /\ \A k \in 1 .. n : captured'[k] = captured[k]
      /\ captured'[n + 1] = p
  BY <1>2, <1>3
<1>5. /\ old \in Seq(Packets) /\ Len(old) = n - seen
      /\ \A k \in 1 .. n - seen : old[k] = captured[seen + k]
  BY <1>2
<1>6. /\ new \in Seq(Packets) /\ Len(new) = n + 1 - seen
      /\ \A k \in 1 .. n + 1 - seen : new[k] = captured'[seen + k]
  BY <1>2, <1>4
<1> HIDE DEF n, old, new
<1>7. /\ Append(old, p) \in Seq(Packets) /\ Len(Append(old, p)) = n + 1 - seen
      /\ \A k \in 1 .. n - seen : Append(old, p)[k] = old[k]
      /\ Append(old, p)[n + 1 - seen] = p
  BY <1>2, <1>5 DEF n
<1>8. ASSUME NEW k \in 1 .. n + 1 - seen
      PROVE  new[k] = Append(old, p)[k]
  <2>1. CASE k = n + 1 - seen
    <3>1. seen + k = n + 1
      BY <1>2, <2>1 DEF n
    <3> QED
      BY <1>4, <1>6, <1>7, <2>1, <3>1
  <2>2. CASE k # n + 1 - seen
    <3>1. k \in 1 .. n - seen /\ seen + k \in 1 .. n
      BY <1>2, <2>2 DEF n
    <3> QED
      BY <1>4, <1>5, <1>6, <1>7, <3>1
  <2> QED
    BY <2>1, <2>2
<1>9. new = Append(old, p)
  BY <1>6, <1>7, <1>8, SeqEqual
<1> QED
  BY <1>3, <1>4, <1>9 DEF Feed!Capture, n, old, new

\* Displaying a packet takes the first of those that wait.
LEMMA DisplaySees ==
  ASSUME IndInv, Display
  PROVE  Feed!See
<1>1. PICK r \in 0 .. Blocks : InTurn(r)
  BY InTurnIff DEF SomeInTurn
<1>2. /\ captured \in Seq(Packets) /\ Len(captured) \in Nat /\ TypeOK
      /\ seen \in Nat
  BY DEF IndInv, TypeOK
<1>3. /\ seen + 1 \in 1 .. Len(captured) /\ Current = captured[seen + 1]
  BY <1>1, <1>2, CurrentIs DEF Display
<1> DEFINE w == SubSeq(captured, seen + 1, Len(captured))
<1>4. /\ Head(w) = captured[seen + 1]
      /\ Tail(w) = SubSeq(captured, (seen + 1) + 1, Len(captured))
  <2>1. Len(captured) \in seen + 1 .. Len(captured)
    BY <1>2, <1>3
  <2> QED
    BY <1>2, <1>3, <2>1, HeadTailOfSubSeq
<1>5. w # <<>>
  <2>1. Len(w) = Len(captured) - seen /\ Len(captured) - seen > 0
    BY <1>2, <1>3
  <2> HIDE DEF w
  <2>2. Len(<<>>) = 0
    OBVIOUS
  <2> QED
    BY <1>2, <2>1, <2>2
<1>6. /\ captured' = captured /\ dropped' = dropped /\ seen' = seen + 1
      /\ extracted' = IF IsWanted(Current) THEN <<Current>> ELSE extracted
  BY DEF Display, kernelVars
<1> QED
  BY <1>3, <1>4, <1>5, <1>6 DEF Feed!See

\* A packet is dropped only when every block but one holds packets not seen.
LEMMA DropsBehind ==
  ASSUME IndInv, Drop
  PROVE  Feed!Drop
<1>1. PICK r \in 0 .. Blocks : InTurn(r)
  BY InTurnIff DEF SomeInTurn
<1>2. /\ captured \in Seq(Packets) /\ Len(captured) \in Nat /\ TypeOK
      /\ seen \in Nat /\ Blocks \in Nat \ {0} /\ block_num \in BlockNums
  BY BlocksAssumption DEF IndInv, TypeOK
<1>3. r = Blocks
  <2>1. ASSUME r < Blocks PROVE FALSE
    <3>1. block_status[Ahead(r)] = "kernel"
      BY <1>1, <1>2, <2>1 DEF InTurn
    <3> QED
      BY <1>1, <3>1 DEF Drop, InTurn
  <2> QED
    BY <1>2, <2>1
<1>4. seen + (Blocks - 1) <= Len(captured)
  <2>1. block_num \in BlockNums /\ 0 \in 0 .. Blocks
    BY <1>2
  <2>2. End(Ahead(0)) \in Nat
    BY <1>2, <2>1, AheadIs DEF End, TypeOK
  <2>3. End(Ahead(0)) + (Blocks - 1) <= Len(captured) /\ seen <= End(Ahead(0))
    BY <1>1, <1>2, <1>3, Behind
  <2> QED
    BY <1>2, <2>2, <2>3
<1>5. Len(SubSeq(captured, seen + 1, Len(captured))) = Len(captured) - seen
  BY <1>2, <1>4
<1>6. UNCHANGED <<captured, seen, extracted>> /\ dropped' = dropped + 1
  BY DEF Drop, threadVars
<1> QED
  BY <1>2, <1>4, <1>5, <1>6 DEF Feed!Drop

\* Every behaviour of kernel and thread is a behaviour of the feed: what is
\* captured is seen once, in order and whole, whatever the speeds of the two.
THEOREM Refinement == Spec => ImplementsFeed
<1>1. Init => Feed!Init
  BY DEF Init, Feed!Init
<1>2. IndInv /\ [Next]_vars => [Feed!Next]_Feed!vars
  <2> SUFFICES ASSUME IndInv, [Next]_vars
               PROVE  \/ Feed!Next
                      \/ UNCHANGED <<SubSeq(captured, seen + 1, Len(captured)), extracted, dropped>>
    BY DEF Feed!vars
  <2>1. ASSUME NEW p \in Packets, Store(p) PROVE Feed!Next
    BY <2>1, StoreCaptures DEF Feed!Next
  <2>2. CASE Drop
    BY <2>2, DropsBehind DEF Feed!Next
  <2>3. CASE Display
    BY <2>3, DisplaySees DEF Feed!Next
  <2>4. CASE \/ Retire \/ Open \/ LookAway \/ PollReturns \/ StartWalk \/ FlushBlock
             \/ UNCHANGED vars
    <3>1. UNCHANGED <<captured, dropped, seen, extracted>>
      BY <2>4 DEF Retire, Open, LookAway, PollReturns, StartWalk, FlushBlock,
                  vars, kernelVars, threadVars
    <3> QED
      BY <3>1
  <2> QED
    BY <2>1, <2>2, <2>3, <2>4 DEF Next, Kernel, Thread
<1> QED
  BY <1>1, <1>2, Invariance, PTL DEF Spec, ImplementsFeed, Feed!Spec

=============================================================================
