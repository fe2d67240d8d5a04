--------------------------- MODULE SpscRbProofs ---------------------------
(***************************************************************************)
(* Proofs about the ring buffer for every capacity, header size, set of    *)
(* bodies, poll limit and bound on positions: IndInv is inductive, the     *)
(* invariants TLC checks follow from it, and every step implements a step  *)
(* of the abstract queue of module RecordQueue or leaves it unchanged.     *)
(*                                                                         *)
(* The arithmetic comes first: two positions less than Capacity apart have *)
(* different physical cells.  Everything the buffer holds rests on it.     *)
(***************************************************************************)
EXTENDS SpscRb, TLAPS

\* The types of the numeric constants, without the power of two.
LEMMA ConstantTypes ==
  /\ Capacity \in Nat \ {0} /\ Header \in Nat \ {0}
  /\ MaxPolls \in Nat \ {0, 1} /\ MaxPosition \in Nat
BY CapacityAssumption, HeaderAssumption, PollsAssumption, PositionAssumption

-----------------------------------------------------------------------------
(* Positions and physical cells.                                           *)

\* Quotient and remainder of a position by the capacity.
LEMMA DivMod ==
  ASSUME NEW C \in Nat \ {0}, NEW p \in Nat
  PROVE  /\ p \div C \in Nat
         /\ p = C * (p \div C) + (p % C)
         /\ p % C \in 0 .. C - 1
OBVIOUS

\* A larger quotient puts a multiple at least one capacity further.
LEMMA MultiplesApart ==
  ASSUME NEW C \in Nat \ {0}, NEW x \in Nat, NEW y \in Nat, x < y
  PROVE  C * x \in Nat /\ C * y \in Nat /\ C * y >= C * x + C
<1>1. PICK d \in Nat : y = x + 1 + d
  <2>1. y - x - 1 \in Nat
    OBVIOUS
  <2> QED
    BY <2>1
<1>2. C * y = C * x + C + C * d
  BY <1>1
<1>3. C * d \in Nat /\ C * x \in Nat
  OBVIOUS
<1> QED
  BY <1>2, <1>3

\* A remainder is determined by the number: no two decompositions differ.
LEMMA RemainderUnique ==
  ASSUME NEW C \in Nat \ {0}, NEW x \in Nat, NEW y \in Nat,
         NEW r \in 0 .. C - 1, NEW s \in 0 .. C - 1,
         C * x + r = C * y + s
  PROVE  r = s
<1>1. C * x \in Nat /\ C * y \in Nat
  OBVIOUS
<1>2. CASE x < y
  <2>1. C * y >= C * x + C
    BY <1>2, MultiplesApart
  <2> QED
    BY <2>1, <1>1
<1>3. CASE y < x
  <2>1. C * x >= C * y + C
    BY <1>3, MultiplesApart
  <2> QED
    BY <2>1, <1>1
<1>4. CASE x = y
  BY <1>4, <1>1
<1> QED
  BY <1>2, <1>3, <1>4

\* Positions less than one capacity apart have different remainders.
LEMMA ModDistinct ==
  ASSUME NEW C \in Nat \ {0}, NEW p \in Nat, NEW q \in Nat, p < q, q < p + C
  PROVE  p % C # q % C
<1> DEFINE x == p \div C
           y == q \div C
<1>1. x \in Nat /\ y \in Nat /\ p = C * x + (p % C) /\ q = C * y + (q % C)
  BY DivMod
<1>2. p % C \in Nat /\ q % C \in Nat
  BY DivMod
<1> HIDE DEF x, y
<1>3. SUFFICES ASSUME p % C = q % C PROVE FALSE
  OBVIOUS
<1>4. C * x \in Nat /\ C * y \in Nat
  BY <1>1
<1>5. CASE x < y
  <2>1. C * y >= C * x + C
    BY <1>1, <1>5, MultiplesApart
  <2> QED
    BY <2>1, <1>1, <1>2, <1>3, <1>4
<1>6. CASE y < x
  <2>1. C * x >= C * y + C
    BY <1>1, <1>6, MultiplesApart
  <2> QED
    BY <2>1, <1>1, <1>2, <1>3, <1>4
<1>7. CASE x = y
  BY <1>1, <1>2, <1>3, <1>4, <1>7
<1> QED
  BY <1>1, <1>5, <1>6, <1>7

\* An offset may be added before or after the remainder is taken.
LEMMA ModAdd ==
  ASSUME NEW C \in Nat \ {0}, NEW p \in Nat, NEW k \in Nat
  PROVE  ((p % C) + k) % C = (p + k) % C
<1> DEFINE x == p \div C
           m == (p % C) + k
           n == p + k
           y == m \div C
           z == n \div C
           r == m % C
           s == n % C
           w == x + y
<1>1. x \in Nat /\ p = C * x + (p % C) /\ m \in Nat /\ p % C \in Nat
  BY DivMod
<1>2. y \in Nat /\ m = C * y + r /\ r \in 0 .. C - 1
  <2> HIDE DEF m
  <2> QED
    BY <1>1, DivMod
<1>3. n \in Nat /\ z \in Nat /\ n = C * z + s /\ s \in 0 .. C - 1
  <2>1. n \in Nat
    OBVIOUS
  <2> HIDE DEF n
  <2> QED
    BY <2>1, DivMod
<1> HIDE DEF x, y, z, r, s
<1>4. C * x \in Nat /\ C * y \in Nat /\ C * z \in Nat
  BY <1>1, <1>2, <1>3
<1>5. w \in Nat /\ C * w = C * x + C * y
  BY <1>1, <1>2
<1>6. C * w + r = C * z + s
  BY <1>1, <1>2, <1>3, <1>4, <1>5
<1>7. r = s
  <2> HIDE DEF w
  <2> QED
    BY <1>2, <1>3, <1>5, <1>6, RemainderUnique
<1> QED
  BY <1>7 DEF r, s

\* The k-th cell after a record pointer is the cell of the k-th position after
\* the record's, wrapped or not.
LEMMA CellIsIndex ==
  ASSUME NEW p \in Nat, NEW k \in Nat
  PROVE  Cell(IndexOf(p), k) = IndexOf(p + k)
BY ConstantTypes, ModAdd DEF Cell, IndexOf

\* Every position, and every cell after a record pointer, is in the buffer.
LEMMA CellType ==
  /\ \A p \in Nat : IndexOf(p) \in Indices
  /\ \A r \in Indices, k \in Nat : Cell(r, k) \in Indices
<1>1. \A p \in Nat : p % Capacity \in 0 .. Capacity - 1
  BY ConstantTypes, DivMod
<1>2. \A r \in Indices, k \in Nat : r + k \in Nat
  BY ConstantTypes DEF Indices
<1> QED
  BY <1>1, <1>2 DEF Cell, IndexOf, Indices

\* Positions less than a capacity apart occupy different cells.
LEMMA IndexDistinct ==
  ASSUME NEW p \in Nat, NEW q \in Nat, p < q, q < p + Capacity
  PROVE  IndexOf(p) # IndexOf(q)
BY ConstantTypes, ModDistinct DEF IndexOf

-----------------------------------------------------------------------------
(* Where the records are.                                                  *)

\* The cells a record takes: a header and one cell per element of its body.
LEMMA RequiredType ==
  \A m \in Seq(Data) : /\ Len(m) \in Nat
                       /\ Required(m) \in Nat
                       /\ Required(m) = Header + Len(m)
                       /\ Len(m) < Required(m)
BY ConstantTypes DEF Required

\* A cell of the record being written is no cell of a position the latency
\* handler has yet to release, wrapped or not.
LEMMA ClaimedApart ==
  ASSUME TypeOK, CachesLag, ProducerInv, pPc # "idle",
         NEW k \in 0 .. Required(msg) - 1, NEW p \in head .. tail - 1
  PROVE  Cell(claimed, k) # IndexOf(p)
<1>1. /\ tail \in Nat /\ head \in Nat /\ headCache \in Nat
      /\ Required(msg) \in Nat /\ claimed = IndexOf(tail)
      /\ headCache <= head /\ Required(msg) <= Capacity - (tail - headCache)
  BY RequiredType, ConstantTypes DEF TypeOK, CachesLag, ProducerInv
<1>2. k \in Nat /\ p \in Nat /\ tail + k \in Nat
  BY <1>1
<1>3. p < tail + k /\ tail + k < p + Capacity
  BY <1>1, <1>2, ConstantTypes
<1>4. IndexOf(p) # IndexOf(tail + k)
  BY <1>2, <1>3, IndexDistinct
<1>5. Cell(claimed, k) = IndexOf(tail + k)
  BY <1>1, <1>2, CellIsIndex
<1> QED
  BY <1>4, <1>5

\* Two cells of the record being written differ: it never runs into itself.
LEMMA ClaimedCellsDiffer ==
  ASSUME TypeOK, CachesLag, ProducerInv, pPc # "idle",
         NEW j \in 0 .. Required(msg) - 1, NEW k \in 0 .. Required(msg) - 1,
         j # k
  PROVE  Cell(claimed, j) # Cell(claimed, k)
<1>1. /\ tail \in Nat /\ head \in Nat /\ headCache \in Nat
      /\ Required(msg) \in Nat /\ claimed = IndexOf(tail)
      /\ Required(msg) <= Capacity - (tail - headCache) /\ headCache <= tail
  BY RequiredType, ConstantTypes DEF TypeOK, CachesLag, ProducerInv
<1>2. /\ j \in Nat /\ k \in Nat /\ tail + j \in Nat /\ tail + k \in Nat
      /\ Required(msg) <= Capacity
  BY <1>1, ConstantTypes
<1>3. /\ Cell(claimed, j) = IndexOf(tail + j)
      /\ Cell(claimed, k) = IndexOf(tail + k)
  BY <1>1, <1>2, CellIsIndex
<1>4. CASE j < k
  <2>1. tail + j < tail + k /\ tail + k < (tail + j) + Capacity
    BY <1>1, <1>2, <1>4, ConstantTypes
  <2> QED
    BY <2>1, <1>2, <1>3, IndexDistinct
<1>5. CASE k < j
  <2>1. tail + k < tail + j /\ tail + j < (tail + k) + Capacity
    BY <1>1, <1>2, <1>5, ConstantTypes
  <2> QED
    BY <2>1, <1>2, <1>3, IndexDistinct
<1> QED
  BY <1>2, <1>4, <1>5

\* A cell of a queued record is the cell of a position between head and tail.
LEMMA RecordCell ==
  ASSUME TypeOK, Layout, InBounds,
         NEW i \in 1 .. Len(queue), NEW k \in 0 .. Required(queue[i]) - 1
  PROVE  /\ starts[i] \in Nat /\ queue[i] \in Seq(Data)
         /\ starts[i] + k \in head .. tail - 1
         /\ Cell(IndexOf(starts[i]), k) = IndexOf(starts[i] + k)
<1>1. starts[i] \in Nat /\ queue[i] \in Seq(Data)
  BY DEF TypeOK, Layout
<1>2. /\ Required(queue[i]) \in Nat
      /\ head <= starts[i] /\ starts[i] + Required(queue[i]) <= tail
  BY <1>1, RequiredType DEF InBounds, EndOf
<1>3. head \in Nat /\ tail \in Nat /\ k \in Nat
  BY <1>2, ConstantTypes DEF TypeOK
<1>4. starts[i] + k \in head .. tail - 1
  BY <1>1, <1>2, <1>3
<1>5. Cell(IndexOf(starts[i]), k) = IndexOf(starts[i] + k)
  BY <1>1, <1>3, CellIsIndex
<1> QED
  BY <1>1, <1>4, <1>5

\* A write confined to the cells of the record being written leaves every
\* queued record as it was.
LEMMA WriteSparesRecords ==
  ASSUME IndInv, pPc # "idle", UNCHANGED <<head, tail, queue, starts>>,
         \A c \in Indices :
            (\A k \in 0 .. Required(msg) - 1 : c # Cell(claimed, k))
              => buf'[c] = buf[c]
  PROVE  BufferHoldsQueue' /\ InBounds'
<1> USE DEF IndInv
<1>1. Layout' /\ InBounds'
  BY DEF BufferHoldsQueue, Layout, InBounds, EndOf, Required
<1>2. ASSUME NEW i \in 1 .. Len(queue), NEW k \in 0 .. Required(queue[i]) - 1
      PROVE  /\ buf'[Cell(IndexOf(starts[i]), k)] = buf[Cell(IndexOf(starts[i]), k)]
  <2>1. /\ starts[i] \in Nat /\ starts[i] + k \in head .. tail - 1
        /\ Cell(IndexOf(starts[i]), k) = IndexOf(starts[i] + k)
    BY RecordCell DEF BufferHoldsQueue
  <2>2. \A j \in 0 .. Required(msg) - 1 :
           Cell(claimed, j) # IndexOf(starts[i] + k)
    BY <2>1, ClaimedApart
  <2>3. IndexOf(starts[i] + k) \in Indices
    <3>1. head \in Nat /\ tail \in Int
      BY DEF TypeOK
    <3>2. starts[i] + k \in Nat
      BY <2>1, <3>1
    <3> QED
      BY <3>2, CellType
  <2> QED
    BY <2>1, <2>2, <2>3
<1>3. ASSUME NEW i \in 1 .. Len(queue)
      PROVE  /\ HoldsLength(IndexOf(starts[i]), queue[i])'
             /\ HoldsBody(IndexOf(starts[i]), queue[i], Len(queue[i]))'
  <2>1. queue[i] \in Seq(Data)
    BY DEF TypeOK
  <2>2. /\ HoldsLength(IndexOf(starts[i]), queue[i])
        /\ HoldsBody(IndexOf(starts[i]), queue[i], Len(queue[i]))
    BY DEF BufferHoldsQueue
  <2>3. \A k \in 0 .. Header - 1 : k \in 0 .. Required(queue[i]) - 1
    BY <2>1, RequiredType, ConstantTypes
  <2>4. \A k \in 1 .. Len(queue[i]) :
           Header + k - 1 \in 0 .. Required(queue[i]) - 1
    BY <2>1, RequiredType, ConstantTypes
  <2>5. HoldsLength(IndexOf(starts[i]), queue[i])'
    BY <1>2, <2>2, <2>3 DEF HoldsLength, IndexOf, Cell
  <2>6. HoldsBody(IndexOf(starts[i]), queue[i], Len(queue[i]))'
    BY <1>2, <2>2, <2>4 DEF HoldsBody, IndexOf, Cell
  <2> QED
    BY <2>5, <2>6
<1> QED
  BY <1>1, <1>3 DEF BufferHoldsQueue

-----------------------------------------------------------------------------
(* IndInv is inductive.                                                    *)

\* The positions are zero, the queue is empty, nobody is in a call.
LEMMA InitIndInv == Init => IndInv
<1> SUFFICES ASSUME Init PROVE IndInv
  OBVIOUS
<1> USE DEF Init
<1>1. 0 \in Indices /\ Capacity >= 0
  BY ConstantTypes DEF Indices
<1>2. TypeOK
  <2>1. buf \in [Indices -> Cells]
    BY DEF Cells
  <2>2. limit \in 1 .. MaxPolls
    BY ConstantTypes
  <2> QED
    BY <1>1, <2>1, <2>2, ConstantTypes DEF TypeOK
<1>3. CachesLag
  BY <1>1, ConstantTypes DEF CachesLag
<1>4. BufferHoldsQueue /\ InBounds
  BY DEF BufferHoldsQueue, Layout, InBounds
<1>5. ProducerInv /\ ConsumerInv
  BY DEF ProducerInv, ConsumerInv
<1> QED
  BY <1>2, <1>3, <1>4, <1>5 DEF IndInv

\* A step that changes nothing keeps it.
LEMMA StutterIndInv == ASSUME IndInv, UNCHANGED vars PROVE IndInv'
BY DEF IndInv, vars, shared, producer, consumer, history, TypeOK, CachesLag,
       BufferHoldsQueue, Layout, InBounds, EndOf, HoldsLength, HoldsBody,
       ProducerInv, ConsumerInv, IndexOf, Cell, Required

\* A granted claim: the record starts at the tail, with room for it when the
\* consumer is where the producer's copy of head says.
LEMMA GrantedIndInv ==
  ASSUME IndInv, NEW m \in Payloads, ClaimGranted(m),
         headCache' \in Nat, headCache <= headCache', headCache' <= head,
         Required(m) <= Capacity - (tail - headCache')
  PROVE  IndInv'
<1> USE DEF IndInv, ClaimGranted, shared, consumer, history
<1>1. m \in Seq(Data) /\ Required(m) \in Nat /\ Len(m) \in Nat
  BY PayloadsAssumption, RequiredType
<1>2. TypeOK'
  <2>1. tail \in Nat
    BY ConstantTypes DEF TypeOK
  <2>2. claimed' \in Indices /\ pPc' \in {"idle", "stamp", "fill"}
    BY <2>1, CellType
  <2> QED
    BY <1>1, <2>2 DEF TypeOK
<1>3. CachesLag'
  <2>1. headCache' <= head' /\ head' <= tail' /\ tailCache' <= tail'
    BY DEF CachesLag
  <2>2. tail \in Nat /\ tail' = tail
    BY ConstantTypes DEF TypeOK
  <2>3. tail - headCache' <= Capacity
    <3>1. tail - headCache' \in Int /\ Required(m) \in Nat /\ Capacity \in Nat
      BY <1>1, <2>2, ConstantTypes
    <3>2. Required(m) <= Capacity - (tail - headCache')
      OBVIOUS
    <3> QED
      BY <3>1, <3>2
  <2> QED
    BY <2>1, <2>2, <2>3 DEF CachesLag
<1>4. BufferHoldsQueue' /\ InBounds'
  BY DEF BufferHoldsQueue, Layout, InBounds, EndOf, HoldsLength, HoldsBody
<1>5. ProducerInv'
  BY <1>1 DEF ProducerInv, IndexOf, Required
<1>6. ConsumerInv'
  BY DEF ConsumerInv, IndexOf
<1> QED
  BY <1>2, <1>3, <1>4, <1>5, <1>6

\* Claiming changes the producer's locals only.
LEMMA ClaimIndInv ==
  ASSUME IndInv, NEW m \in Payloads, Claim(m)
  PROVE  IndInv'
<1>1. CASE ClaimCached(m)
  <2>1. ClaimGranted(m) /\ headCache' = headCache
    BY <1>1 DEF ClaimCached
  <2>2. Required(m) <= Capacity - (tail - headCache')
    BY <1>1, <2>1 DEF ClaimCached, Fits
  <2>3. headCache' \in Nat /\ headCache <= headCache' /\ headCache' <= head
    BY <2>1 DEF IndInv, TypeOK, CachesLag
  <2> QED
    BY <2>1, <2>2, <2>3, GrantedIndInv
<1>2. CASE ClaimRefreshed(m)
  <2>1. ClaimGranted(m) /\ headCache' = head
    BY <1>2 DEF ClaimRefreshed
  <2>2. Required(m) <= Capacity - (tail - headCache')
    BY <1>2, <2>1 DEF ClaimRefreshed, Fits
  <2>3. headCache' \in Nat /\ headCache <= headCache' /\ headCache' <= head
    BY <2>1 DEF IndInv, TypeOK, CachesLag
  <2> QED
    BY <2>1, <2>2, <2>3, GrantedIndInv
<1>3. CASE UNCHANGED vars
  BY <1>3, StutterIndInv
<1> QED
  BY <1>1, <1>2, <1>3 DEF Claim, ClaimTooLong, ClaimRefused

\* Stamping the length writes the header cells of the claimed record.
LEMMA StampIndInv ==
  ASSUME IndInv, StampLength
  PROVE  IndInv'
<1> USE DEF IndInv, StampLength, consumer, history
<1>1. /\ msg \in Seq(Data) /\ Len(msg) \in Nat /\ claimed \in Indices
      /\ pPc # "idle" /\ Required(msg) = Header + Len(msg)
  BY RequiredType DEF TypeOK
<1>2. \A k \in 0 .. Header - 1 : Cell(claimed, k) \in Indices
  BY <1>1, ConstantTypes, CellType
<1>3. TypeOK'
  BY <1>1 DEF TypeOK, Cells
<1>4. BufferHoldsQueue' /\ InBounds'
  <2>1. \A k \in 0 .. Header - 1 : k \in 0 .. Required(msg) - 1
    BY <1>1, ConstantTypes
  <2>2. \A c \in Indices :
           (\A k \in 0 .. Required(msg) - 1 : c # Cell(claimed, k))
             => buf'[c] = buf[c]
    BY <2>1
  <2> QED
    BY <1>1, <2>2, WriteSparesRecords
<1>5. ProducerInv'
  <2>1. HoldsLength(claimed, msg)'
    BY <1>2 DEF HoldsLength, Cell
  <2>2. HoldsBody(claimed, msg, filled)'
    BY <1>1 DEF HoldsBody, ProducerInv
  <2> QED
    BY <1>1, <2>1, <2>2 DEF ProducerInv, IndexOf, Required
<1>6. CachesLag' /\ ConsumerInv'
  BY DEF CachesLag, ConsumerInv, IndexOf
<1> QED
  BY <1>3, <1>4, <1>5, <1>6

\* Copying a cell of the body writes a cell of the claimed record that none of
\* its earlier cells shares.
LEMMA FillIndInv ==
  ASSUME IndInv, FillCell
  PROVE  IndInv'
<1> USE DEF IndInv, FillCell, consumer, history
<1> DEFINE new == Cell(claimed, Header + filled)
<1>1. /\ msg \in Seq(Data) /\ Len(msg) \in Nat /\ claimed \in Indices
      /\ pPc # "idle" /\ Required(msg) = Header + Len(msg)
      /\ filled \in 0 .. Len(msg) - 1 /\ Header \in Nat \ {0}
  <2>1. msg \in Seq(Data) /\ claimed \in Indices /\ filled \in Nat
    BY DEF TypeOK
  <2>2. Len(msg) \in Nat /\ Required(msg) = Header + Len(msg)
    BY <2>1, RequiredType
  <2>3. pPc # "idle" /\ filled < Len(msg)
    OBVIOUS
  <2> QED
    BY <2>1, <2>2, <2>3, ConstantTypes
<1>2. Header + filled \in 0 .. Required(msg) - 1 /\ Header + filled \in Nat
  BY <1>1
<1>3. new \in Indices /\ buf' = [buf EXCEPT ![new] = msg[filled + 1]]
  BY <1>1, <1>2, CellType
<1>4. TypeOK'
  <2>1. msg[filled + 1] \in Cells
    BY <1>1 DEF Cells
  <2>2. buf' \in [Indices -> Cells]
    BY <1>3, <2>1 DEF TypeOK
  <2>3. filled' \in Nat
    BY <1>1
  <2> QED
    BY <2>2, <2>3 DEF TypeOK
<1>5. BufferHoldsQueue' /\ InBounds'
  <2>1. \A c \in Indices :
           (\A k \in 0 .. Required(msg) - 1 : c # Cell(claimed, k))
             => buf'[c] = buf[c]
    BY <1>2, <1>3 DEF TypeOK
  <2> QED
    BY <1>1, <2>1, WriteSparesRecords
<1>6. ASSUME NEW k \in 0 .. Header + filled - 1
      PROVE  buf'[Cell(claimed, k)] = buf[Cell(claimed, k)]
  <2>1. k \in 0 .. Required(msg) - 1 /\ k # Header + filled /\ k \in Nat
    BY <1>1
  <2>2. Cell(claimed, k) # new
    BY <1>1, <1>2, <2>1, ClaimedCellsDiffer
  <2>3. Cell(claimed, k) \in Indices
    BY <1>1, <2>1, CellType
  <2> QED
    BY <1>3, <2>2, <2>3 DEF TypeOK
<1>7. ProducerInv'
  <2>1. HoldsLength(claimed, msg) /\ HoldsBody(claimed, msg, filled)
    BY DEF ProducerInv
  <2>2. HoldsLength(claimed, msg)'
    <3>1. \A k \in 0 .. Header - 1 : k \in 0 .. Header + filled - 1
      BY <1>1
    <3> QED
      BY <1>6, <2>1, <3>1 DEF HoldsLength, Cell
  <2>3. HoldsBody(claimed, msg, filled)'
    <3>1. ASSUME NEW k \in 1 .. filled + 1
          PROVE  buf'[Cell(claimed, Header + k - 1)] = msg[k]
      <4>1. CASE k = filled + 1
        <5>1. Header + k - 1 = Header + filled
          BY <1>1, <4>1
        <5> QED
          BY <1>1, <1>3, <4>1, <5>1 DEF TypeOK
      <4>2. CASE k \in 1 .. filled
        <5>1. Header + k - 1 \in 0 .. Header + filled - 1
          BY <1>1, <4>2
        <5> QED
          BY <1>6, <2>1, <4>2, <5>1 DEF HoldsBody
      <4> QED
        BY <1>1, <4>1, <4>2
    <3> QED
      BY <3>1 DEF HoldsBody, Cell
  <2> QED
    BY <1>1, <2>2, <2>3 DEF ProducerInv, IndexOf, Required
<1>8. CachesLag' /\ ConsumerInv'
  BY DEF CachesLag, ConsumerInv, IndexOf
<1> QED
  BY <1>4, <1>5, <1>7, <1>8

\* Publishing appends the record, complete, at the tail; the length read back
\* from the header is the length of the body.
LEMMA PublishFacts ==
  ASSUME IndInv, Publish
  PROVE  /\ msg \in Payloads /\ msg \in Seq(Data) /\ claimed = IndexOf(tail)
         /\ HoldsLength(claimed, msg) /\ HoldsBody(claimed, msg, Len(msg))
         /\ buf[claimed] = Len(msg) /\ tail \in Nat
         /\ tail' = tail + Required(msg)
         /\ queue' = Append(queue, msg) /\ starts' = Append(starts, tail)
<1> USE DEF IndInv, Publish, PublishRecord
<1>1. /\ msg \in Payloads /\ msg \in Seq(Data) /\ claimed = IndexOf(tail)
      /\ HoldsLength(claimed, msg) /\ HoldsBody(claimed, msg, Len(msg))
      /\ tail \in Nat
  BY ConstantTypes DEF TypeOK, ProducerInv
<1>2. buf[claimed] = Len(msg)
  <2>1. Cell(claimed, 0) = claimed
    <3>1. Cell(claimed, 0) = IndexOf(tail + 0)
      BY <1>1, CellIsIndex
    <3> QED
      BY <1>1, <3>1
  <2>2. 0 \in 0 .. Header - 1
    BY ConstantTypes
  <2> QED
    BY <1>1, <2>1, <2>2 DEF HoldsLength
<1>3. tail' = tail + Required(msg)
  <2>1. tail' = tail + Len(msg) + Header /\ Len(msg) \in Nat
    BY <1>1, <1>2
  <2> QED
    BY <1>1, <2>1, ConstantTypes DEF Required
<1> QED
  BY <1>1, <1>2, <1>3

\* Publishing the record being written preserves the invariant.
LEMMA PublishIndInv ==
  ASSUME IndInv, Publish
  PROVE  IndInv'
<1> USE DEF IndInv, Publish, PublishRecord, consumer
<1> DEFINE n == Len(queue) + 1
<1>1. /\ msg \in Payloads /\ msg \in Seq(Data) /\ claimed = IndexOf(tail)
      /\ HoldsLength(claimed, msg) /\ HoldsBody(claimed, msg, Len(msg))
      /\ tail \in Nat /\ tail' = tail + Required(msg)
      /\ queue' = Append(queue, msg) /\ starts' = Append(starts, tail)
  BY PublishFacts
<1>2. /\ Required(msg) \in Nat /\ tail + Required(msg) <= MaxPosition
      /\ Required(msg) <= Capacity - (tail - headCache)
  BY <1>1, RequiredType DEF ProducerInv
<1>3. /\ queue \in Seq(Seq(Data)) /\ starts \in Seq(Nat) /\ head \in Nat
      /\ headCache \in Nat /\ tailCache \in Nat
      /\ Len(starts) = Len(queue) /\ Len(queue) \in Nat
  BY DEF TypeOK, BufferHoldsQueue, Layout
<1>4. TypeOK'
  <2>1. queue' \in Seq(Seq(Data)) /\ starts' \in Seq(Nat)
    BY <1>1, <1>3
  <2>2. tail' \in 0 .. MaxPosition /\ claimed' \in Indices /\ msg' \in Seq(Data)
    BY <1>1, <1>2, ConstantTypes DEF Indices
  <2> QED
    BY <2>1, <2>2 DEF TypeOK
<1>5. CachesLag'
  BY <1>1, <1>2, <1>3, ConstantTypes DEF CachesLag
<1>6. /\ Len(queue') = n /\ Len(starts') = n
      /\ queue'[n] = msg /\ starts'[n] = tail
      /\ \A i \in 1 .. Len(queue) :
            queue'[i] = queue[i] /\ starts'[i] = starts[i] /\ EndOf(i)' = EndOf(i)
      /\ \A i \in 1 .. n : i = n => EndOf(i)' = tail'
  <2>1. /\ Len(queue') = n /\ Len(starts') = n
        /\ queue'[n] = msg /\ starts'[n] = tail
        /\ \A i \in 1 .. Len(queue) :
              queue'[i] = queue[i] /\ starts'[i] = starts[i]
    BY <1>1, <1>3
  <2> HIDE DEF IndInv, Publish, PublishRecord, consumer
  <2>2. \A i \in 1 .. Len(queue) : EndOf(i)' = EndOf(i)
    BY <2>1 DEF EndOf, Required
  <2>3. \A i \in 1 .. n : i = n => EndOf(i)' = starts'[i] + Required(msg)
    BY <2>1 DEF EndOf, Required
  <2>4. \A i \in 1 .. n : i = n => EndOf(i)' = tail'
    BY <2>1, <2>3, <1>1
  <2> QED
    BY <2>1, <2>2, <2>4
<1> HIDE DEF Publish, PublishRecord
<1>7. Layout'
  <2>1. queue = <<>> => head = tail
    BY DEF BufferHoldsQueue, Layout
  <2>2. queue # <<>> => starts[1] = head /\ EndOf(Len(queue)) = tail
    BY DEF BufferHoldsQueue, Layout
  <2>3. head' = head
    BY DEF Publish, PublishRecord
  <2>4. starts'[1] = head'
    <3>1. CASE queue = <<>>
      <4>1. n = 1
        BY <3>1
      <4> QED
        BY <1>6, <2>1, <2>3, <3>1, <4>1
    <3>2. CASE queue # <<>>
      <4>1. 1 \in 1 .. Len(queue)
        BY <1>3, <3>2
      <4> QED
        BY <1>6, <2>2, <2>3, <3>2, <4>1
    <3> QED
      BY <3>1, <3>2
  <2>5. \A i \in 1 .. Len(queue') - 1 : EndOf(i)' = starts'[i + 1]
    <3>1. \A i \in 1 .. Len(queue) - 1 : EndOf(i) = starts[i + 1]
      BY DEF BufferHoldsQueue, Layout
    <3>2. SUFFICES ASSUME NEW i \in 1 .. Len(queue)
                   PROVE  EndOf(i)' = starts'[i + 1]
      BY <1>3, <1>6
    <3>3. CASE i < Len(queue)
      <4>1. i + 1 \in 1 .. Len(queue) /\ i \in 1 .. Len(queue) - 1
        BY <1>3, <3>3
      <4> QED
        BY <1>6, <3>1, <4>1
    <3>4. CASE i = Len(queue)
      <4>1. queue # <<>> /\ i + 1 = n
        BY <1>3, <3>4
      <4> QED
        BY <1>6, <2>2, <3>4, <4>1
    <3> QED
      BY <1>3, <3>3, <3>4
  <2>6. queue' # <<>> /\ EndOf(Len(queue))' = tail'
    <3>1. n \in 1 .. n /\ queue' # <<>>
      BY <1>3, <1>6
    <3>2. PICK i \in 1 .. n : i = n
      BY <3>1
    <3>3. EndOf(Len(queue))' = EndOf(i)'
      BY <1>6, <3>2 DEF EndOf, Required
    <3> QED
      BY <1>6, <3>1, <3>2, <3>3
  <2>7. Len(starts') = Len(queue')
    BY <1>6
  <2> HIDE DEF IndInv, consumer
  <2> QED
    BY <2>4, <2>5, <2>6, <2>7 DEF Layout, EndOf, Required
<1>8. InBounds'
  <2>1. head' = head
    BY DEF Publish, PublishRecord
  <2>2. \A i \in 1 .. Len(queue) :
           /\ head <= starts[i] /\ EndOf(i) <= tail
           /\ EndOf(i) \in Nat
    BY <1>3, RequiredType DEF InBounds, EndOf
  <2>3. /\ \A i \in 1 .. Len(queue') : i \in 1 .. Len(queue) \/ i = n
        /\ head <= tail /\ tail <= tail'
    BY <1>1, <1>2, <1>3, <1>6 DEF CachesLag
  <2>4. ASSUME NEW i \in 1 .. Len(queue')
        PROVE  head' <= starts'[i] /\ EndOf(i)' <= tail'
    <3>1. CASE i \in 1 .. Len(queue)
      <4>1. EndOf(i)' = EndOf(i) /\ EndOf(i) <= tail /\ EndOf(i) \in Nat
        BY <1>6, <2>2, <3>1
      <4>2. starts'[i] = starts[i] /\ head <= starts[i]
        BY <1>6, <2>2, <3>1
      <4>3. EndOf(i) <= tail'
        BY <1>1, <1>2, <2>3, <4>1
      <4> QED
        BY <2>1, <4>1, <4>2, <4>3
    <3>2. CASE i = n
      <4>1. EndOf(i)' = tail' /\ starts'[i] = tail
        BY <1>3, <1>6, <3>2
      <4> QED
        BY <1>1, <1>2, <2>1, <2>3, <4>1
    <3> QED
      BY <2>3, <3>1, <3>2
  <2>5. ASSUME NEW i \in 1 .. Len(queue'), NEW j \in 1 .. Len(queue'), i < j
        PROVE  EndOf(i)' <= starts'[j]
    <3>1. i \in 1 .. Len(queue) /\ EndOf(i)' = EndOf(i)
      BY <1>3, <1>6, <2>5
    <3>2. CASE j \in 1 .. Len(queue)
      BY <1>6, <2>5, <3>1, <3>2 DEF InBounds
    <3>3. CASE j = n
      BY <1>6, <2>2, <3>1, <3>3
    <3> QED
      BY <2>3, <3>2, <3>3
  <2> QED
    BY <2>4, <2>5 DEF InBounds, EndOf
<1>9. BufferHoldsQueue'
  <2>1. buf' = buf
    BY DEF Publish, PublishRecord
  <2>2. ASSUME NEW i \in 1 .. Len(queue')
        PROVE  /\ HoldsLength(IndexOf(starts[i]), queue[i])'
               /\ HoldsBody(IndexOf(starts[i]), queue[i], Len(queue[i]))'
    <3>1. CASE i \in 1 .. Len(queue)
      <4>1. /\ HoldsLength(IndexOf(starts[i]), queue[i])
            /\ HoldsBody(IndexOf(starts[i]), queue[i], Len(queue[i]))
        BY <3>1 DEF BufferHoldsQueue
      <4> QED
        BY <1>6, <2>1, <3>1, <4>1 DEF HoldsLength, HoldsBody, IndexOf, Cell
    <3>2. CASE i = n
      BY <1>1, <1>6, <2>1, <3>2 DEF HoldsLength, HoldsBody, IndexOf, Cell
    <3> QED
      BY <1>3, <1>6, <3>1, <3>2
  <2> QED
    BY <1>7, <2>2 DEF BufferHoldsQueue
<1>10. ProducerInv'
  BY DEF Publish, PublishRecord, ProducerInv
<1>11. ConsumerInv'
  <2>1. UNCHANGED <<head, cPc, polled, got>>
    BY DEF Publish, PublishRecord
  <2>2. queue # <<>> => queue' # <<>> /\ queue'[1] = queue[1]
    BY <1>3, <1>6
  <2> QED
    BY <2>1, <2>2 DEF ConsumerInv, IndexOf
<1> QED
  BY <1>4, <1>5, <1>7, <1>8, <1>9, <1>10, <1>11

\* A step that leaves the shared memory, the producer and the history alone
\* leaves their invariants alone.
LEMMA ConsumerOnlyIndInv ==
  ASSUME IndInv, UNCHANGED <<shared, producer, history>>
  PROVE  /\ BufferHoldsQueue' /\ InBounds' /\ ProducerInv'
         /\ head' = head /\ tail' = tail /\ headCache' = headCache
         /\ queue' = queue /\ buf' = buf
<1> USE DEF IndInv, shared, producer, history
<1>1. BufferHoldsQueue' /\ InBounds'
  BY DEF BufferHoldsQueue, Layout, InBounds, EndOf, HoldsLength, HoldsBody,
         IndexOf, Cell, Required
<1>2. ProducerInv'
  BY DEF ProducerInv, HoldsLength, HoldsBody, IndexOf, Cell, Required
<1> QED
  BY <1>1, <1>2

\* Polling: what the consumer takes for the tail is a position the tail had,
\* and a record it returns is the oldest of the queue.
LEMMA PollIndInv ==
  ASSUME IndInv, PollEmpty \/ PollRecord \/ PollOverLimit
  PROVE  IndInv'
<1> USE DEF IndInv, EndTurn
<1>1. UNCHANGED <<shared, producer, history>>
  BY DEF PollEmpty, PollRecord, PollOverLimit
<1>2. /\ BufferHoldsQueue' /\ InBounds' /\ ProducerInv'
      /\ head' = head /\ tail' = tail /\ headCache' = headCache
      /\ queue' = queue /\ buf' = buf
  BY <1>1, ConsumerOnlyIndInv
<1>3. PollTail \in Nat /\ PollTail <= tail
  BY ConstantTypes DEF TypeOK, CachesLag, PollTail
<1>4. TypeOK'
  <2>1. limit' \in 1 .. MaxPolls
    BY ConstantTypes DEF TypeOK, PollEmpty, PollRecord, PollOverLimit
  <2>2. tailCache' \in Nat /\ tailCache' <= tail
    BY <1>3 DEF TypeOK, CachesLag, PollEmpty, PollRecord, PollOverLimit
  <2>3. IndexOf(head) \in Indices
    BY CellType DEF TypeOK
  <2>4. polled' \in Indices /\ cPc' \in {"poll", "read"} /\ got' \in Seq(Cells)
    <3>1. CASE PollRecord
      BY <2>3, <3>1 DEF PollRecord
    <3>2. CASE PollEmpty \/ PollOverLimit
      BY <3>2 DEF TypeOK, PollEmpty, PollOverLimit
    <3> QED
      BY <3>1, <3>2
  <2> QED
    BY <1>1, <2>1, <2>2, <2>4 DEF TypeOK, shared, producer, history
<1>5. CachesLag'
  BY <1>2, <1>3 DEF CachesLag, PollEmpty, PollRecord, PollOverLimit
<1>6. ConsumerInv'
  <2>1. CASE PollRecord
    <3>1. queue # <<>>
      <4>1. head < tail
        BY <1>3, <2>1, ConstantTypes DEF PollRecord, TypeOK
      <4> QED
        BY <4>1, ConstantTypes DEF TypeOK, BufferHoldsQueue, Layout
    <3>2. queue[1] \in Seq(Data)
      BY <3>1 DEF TypeOK
    <3> QED
      BY <1>2, <2>1, <3>1, <3>2 DEF ConsumerInv, PollRecord, IndexOf
  <2>2. CASE PollEmpty \/ PollOverLimit
    BY <1>2, <2>2 DEF ConsumerInv, PollEmpty, PollOverLimit
  <2> QED
    BY <2>1, <2>2
<1> QED
  BY <1>2, <1>4, <1>5, <1>6

\* The record the consumer reads is the oldest of the queue: its header holds
\* its length, its cells hold its body.
LEMMA ReadFacts ==
  ASSUME IndInv, cPc = "read"
  PROVE  /\ queue # <<>> /\ queue[1] \in Seq(Data) /\ starts[1] = head
         /\ polled = IndexOf(head) /\ head \in Nat
         /\ buf[polled] = Len(queue[1])
         /\ HoldsBody(polled, queue[1], Len(queue[1]))
<1> USE DEF IndInv
<1>1. /\ queue # <<>> /\ polled = IndexOf(head) /\ head \in Nat
      /\ queue \in Seq(Seq(Data))
  BY DEF ConsumerInv, TypeOK
<1>2. 1 \in 1 .. Len(queue) /\ starts[1] = head /\ queue[1] \in Seq(Data)
  BY <1>1 DEF BufferHoldsQueue, Layout
<1>3. /\ HoldsLength(polled, queue[1])
      /\ HoldsBody(polled, queue[1], Len(queue[1]))
  BY <1>1, <1>2 DEF BufferHoldsQueue
<1>4. buf[polled] = Len(queue[1])
  <2>1. Cell(polled, 0) = IndexOf(head + 0)
    BY <1>1, CellIsIndex
  <2>2. 0 \in 0 .. Header - 1
    BY ConstantTypes
  <2> QED
    BY <1>1, <1>3, <2>1, <2>2 DEF HoldsLength
<1> QED
  BY <1>1, <1>2, <1>3, <1>4

\* Reading a cell: what has been read is a prefix of the oldest record.
LEMMA ReadIndInv ==
  ASSUME IndInv, ReadCell
  PROVE  IndInv'
<1> USE DEF ReadCell
<1>1. /\ BufferHoldsQueue' /\ InBounds' /\ ProducerInv'
      /\ head' = head /\ tail' = tail /\ headCache' = headCache
      /\ queue' = queue /\ buf' = buf
  BY ConsumerOnlyIndInv
<1>2. /\ queue # <<>> /\ queue[1] \in Seq(Data)
      /\ polled = IndexOf(head) /\ head \in Nat
      /\ buf[polled] = Len(queue[1])
      /\ HoldsBody(polled, queue[1], Len(queue[1]))
  BY ReadFacts
<1> USE DEF IndInv
<1>3. /\ got \in Seq(Cells) /\ Len(got) \in Nat /\ Len(got) < Len(queue[1])
      /\ Len(queue[1]) \in Nat
      /\ Cell(polled, Header + Len(got)) \in Indices
  <2>1. got \in Seq(Cells) /\ Len(got) \in Nat /\ polled \in Indices
    BY DEF TypeOK
  <2>2. Cell(polled, Header + Len(got)) \in Indices
    BY <2>1, ConstantTypes, CellType
  <2> QED
    BY <1>2, <2>1, <2>2
<1>4. TypeOK'
  <2>1. got' \in Seq(Cells)
    BY <1>3 DEF TypeOK
  <2> QED
    BY <2>1 DEF TypeOK, shared, producer, history
<1>5. CachesLag'
  BY <1>1 DEF CachesLag
<1>6. ConsumerInv'
  <2>1. got'[Len(got) + 1] = queue[1][Len(got) + 1]
    <3>1. Len(got) + 1 \in 1 .. Len(queue[1])
      BY <1>3
    <3>2. Header + (Len(got) + 1) - 1 = Header + Len(got)
      BY <1>3, ConstantTypes
    <3>3. buf[Cell(polled, Header + (Len(got) + 1) - 1)] = queue[1][Len(got) + 1]
      BY <1>2, <3>1 DEF HoldsBody
    <3>4. got'[Len(got) + 1] = buf[Cell(polled, Header + Len(got))]
      BY <1>3
    <3> QED
      BY <3>2, <3>3, <3>4
  <2>2. \A k \in 1 .. Len(got) : got'[k] = queue[1][k]
    BY <1>3 DEF ConsumerInv
  <2>3. Len(got') = Len(got) + 1
    BY <1>3
  <2>4. \A k \in 1 .. Len(got') : got'[k] = queue'[1][k]
    BY <1>1, <1>3, <2>1, <2>2, <2>3
  <2> QED
    BY <1>1, <1>2, <1>3, <2>3, <2>4 DEF ConsumerInv, IndexOf
<1> QED
  BY <1>1, <1>4, <1>5, <1>6

\* Releasing removes the oldest record, read to its end and unchanged; the
\* head moves to where it ended.
LEMMA ReleaseFacts ==
  ASSUME IndInv, Release
  PROVE  /\ queue # <<>> /\ queue \in Seq(Seq(Data)) /\ starts \in Seq(Nat)
         /\ Len(starts) = Len(queue)
         /\ queue' = Tail(queue) /\ starts' = Tail(starts)
         /\ head' = EndOf(1) /\ EndOf(1) = head + Required(queue[1])
         /\ EndOf(1) \in Nat
         /\ delivered' = queue[1] /\ queue[1] \in Seq(Data)
<1> USE DEF IndInv, Release, ReleaseRecord
<1>1. /\ queue # <<>> /\ queue[1] \in Seq(Data) /\ starts[1] = head
      /\ polled = IndexOf(head) /\ head \in Nat
      /\ buf[polled] = Len(queue[1])
  BY ReadFacts
<1>2. Len(queue[1]) \in Nat /\ Required(queue[1]) = Header + Len(queue[1])
  BY <1>1, RequiredType
<1>3. head' = EndOf(1) /\ EndOf(1) \in Nat
  <2>1. head' = head + Header + Len(queue[1])
    BY <1>1
  <2>2. EndOf(1) = head + Required(queue[1])
    BY <1>1 DEF EndOf
  <2>3. Header \in Nat /\ head \in Nat /\ Len(queue[1]) \in Nat
    BY <1>1, <1>2, ConstantTypes
  <2> HIDE DEF IndInv, Release, ReleaseRecord
  <2> DEFINE l == Len(queue[1])
             e == EndOf(1)
  <2>4. e = head + (Header + l) /\ head' = head + Header + l
    BY <1>2, <2>1, <2>2
  <2> HIDE DEF l, e
  <2>5. l \in Nat
    BY <2>3 DEF l
  <2>6. head' = e /\ e \in Nat
    BY <2>3, <2>4, <2>5
  <2> QED
    BY <2>6 DEF e
<1>4. delivered' = queue[1]
  <2>1. got \in Seq(Cells) /\ Len(got) = Len(queue[1])
    BY <1>1 DEF TypeOK
  <2>2. \A k \in 1 .. Len(got) : got[k] = queue[1][k]
    BY DEF ConsumerInv
  <2>3. got = queue[1]
    BY <1>1, <2>1, <2>2
  <2> QED
    BY <2>3
<1>5. Len(starts) = Len(queue)
  BY DEF BufferHoldsQueue, Layout
<1> QED
  BY <1>1, <1>3, <1>4, <1>5 DEF TypeOK, EndOf

\* Releasing the record at the head preserves the invariant.
LEMMA ReleaseIndInv ==
  ASSUME IndInv, Release
  PROVE  IndInv'
<1> USE DEF IndInv
<1> DEFINE n == Len(queue)
<1>1. /\ queue # <<>> /\ queue \in Seq(Seq(Data)) /\ starts \in Seq(Nat)
      /\ Len(starts) = n
      /\ queue' = Tail(queue) /\ starts' = Tail(starts)
      /\ head' = EndOf(1) /\ EndOf(1) \in Nat
      /\ delivered' = queue[1] /\ queue[1] \in Seq(Data)
  BY ReleaseFacts
<1>2. /\ UNCHANGED <<buf, tail, producer, tailCache, limit>>
      /\ cPc' = "poll" /\ polled' = 0 /\ got' = <<>>
  BY DEF Release, ReleaseRecord
<1>3. /\ n \in Nat \ {0} /\ 1 \in 1 .. n
      /\ Len(queue') = n - 1 /\ Len(starts') = n - 1
      /\ \A i \in 1 .. n - 1 : /\ i + 1 \in 1 .. n
                               /\ queue'[i] = queue[i + 1]
                               /\ starts'[i] = starts[i + 1]
  BY <1>1
<1>4. \A i \in 1 .. n - 1 : EndOf(i)' = EndOf(i + 1)
  BY <1>3 DEF EndOf, Required
<1>5. TypeOK'
  <2>1. queue' \in Seq(Seq(Data)) /\ starts' \in Seq(Nat)
    BY <1>1
  <2>2. delivered' \in Seq(Cells) /\ got' \in Seq(Cells) /\ polled' \in Indices
    BY <1>1, <1>2, ConstantTypes DEF Cells, Indices
  <2> QED
    BY <1>1, <1>2, <2>1, <2>2 DEF TypeOK, producer
<1>6. head < head' /\ head' <= tail
  <2>1. head = starts[1] /\ EndOf(1) <= tail
    BY <1>1, <1>3 DEF BufferHoldsQueue, Layout, InBounds
  <2>2. Required(queue[1]) \in Nat \ {0} /\ head \in Nat
    BY <1>1, ConstantTypes DEF TypeOK, Required
  <2> QED
    BY <1>1, <2>1, <2>2 DEF EndOf
<1>7. CachesLag'
  <2>1. head \in Nat /\ headCache \in Nat /\ headCache <= head
    BY DEF TypeOK, CachesLag
  <2>2. headCache <= head'
    BY <1>1, <1>6, <2>1
  <2> QED
    BY <1>2, <1>6, <2>2 DEF CachesLag, producer
<1>8. Layout'
  <2>1. \A i \in 1 .. n - 1 : EndOf(i) = starts[i + 1]
    BY DEF BufferHoldsQueue, Layout
  <2>2. EndOf(n) = tail
    BY <1>1 DEF BufferHoldsQueue, Layout
  <2>3. queue' = <<>> => head' = tail'
    <3>1. queue' = <<>> => n = 1
      BY <1>3
    <3> QED
      BY <1>1, <1>2, <2>2, <3>1
  <2>4. queue' # <<>> => n > 1
    BY <1>1, <1>3
  <2>5. n > 1 => starts'[1] = head'
    <3>1. n > 1 => 1 \in 1 .. n - 1
      BY <1>3
    <3> QED
      BY <1>1, <1>3, <2>1, <3>1
  <2>6. n > 1 => EndOf(Len(queue))' = tail'
    <3>1. n > 1 => n - 1 \in 1 .. n - 1 /\ (n - 1) + 1 = n
      BY <1>3
    <3>2. EndOf(Len(queue))' = starts'[n - 1] + Required(queue'[n - 1])
      BY <1>3 DEF EndOf, Required
    <3>3. n > 1 => EndOf(Len(queue))' = EndOf(n)
      BY <1>3, <3>1, <3>2 DEF EndOf
    <3> QED
      BY <1>2, <2>2, <3>3
  <2>7. \A i \in 1 .. Len(queue') - 1 : EndOf(i)' = starts'[i + 1]
    <3>1. \A i \in 1 .. Len(queue') - 1 :
             i \in 1 .. n - 1 /\ i + 1 \in 1 .. n - 1
      BY <1>3
    <3> QED
      BY <1>3, <1>4, <2>1, <3>1
  <2>8. Len(starts') = Len(queue')
    BY <1>3
  <2> HIDE DEF IndInv, n
  <2> QED
    BY <2>3, <2>4, <2>5, <2>6, <2>7, <2>8 DEF Layout, EndOf, Required
<1>9. InBounds'
  <2>1. \A i \in 1 .. n - 1 : EndOf(1) <= starts[i + 1] /\ EndOf(i + 1) <= tail
    BY <1>3 DEF InBounds
  <2>2. \A i \in 1 .. Len(queue') : head' <= starts'[i] /\ EndOf(i)' <= tail'
    BY <1>1, <1>2, <1>3, <1>4, <2>1
  <2>3. \A i, j \in 1 .. n - 1 : i < j => EndOf(i + 1) <= starts[j + 1]
    BY <1>3 DEF InBounds
  <2>4. \A i, j \in 1 .. Len(queue') : i < j => EndOf(i)' <= starts'[j]
    BY <1>3, <1>4, <2>3
  <2> HIDE DEF IndInv, n
  <2> QED
    BY <2>2, <2>4 DEF InBounds, EndOf, Required
<1>10. BufferHoldsQueue'
  <2>1. ASSUME NEW i \in 1 .. Len(queue')
        PROVE  /\ HoldsLength(IndexOf(starts[i]), queue[i])'
               /\ HoldsBody(IndexOf(starts[i]), queue[i], Len(queue[i]))'
    <3>1. i \in 1 .. n - 1
      BY <1>3
    <3>2. /\ HoldsLength(IndexOf(starts[i + 1]), queue[i + 1])
          /\ HoldsBody(IndexOf(starts[i + 1]), queue[i + 1], Len(queue[i + 1]))
      BY <1>3, <3>1 DEF BufferHoldsQueue
    <3> HIDE DEF IndInv, n
    <3> QED
      BY <1>2, <1>3, <3>1, <3>2 DEF HoldsLength, HoldsBody, IndexOf, Cell
  <2> QED
    BY <1>8, <2>1 DEF BufferHoldsQueue
<1>11. ProducerInv'
  BY <1>2 DEF ProducerInv, HoldsLength, HoldsBody, IndexOf, Cell, Required,
              producer
<1>12. ConsumerInv'
  BY <1>2 DEF ConsumerInv
<1> QED
  BY <1>5, <1>7, <1>9, <1>10, <1>11, <1>12

\* Every step of either thread preserves the invariant.
LEMMA NextIndInv == IndInv /\ [Next]_vars => IndInv'
<1> SUFFICES ASSUME IndInv, [Next]_vars PROVE IndInv'
  OBVIOUS
<1>1. ASSUME NEW m \in Payloads, Claim(m) PROVE IndInv'
  BY <1>1, ClaimIndInv
<1>2. CASE StampLength
  BY <1>2, StampIndInv
<1>3. CASE FillCell
  BY <1>3, FillIndInv
<1>4. CASE Publish
  BY <1>4, PublishIndInv
<1>5. CASE PollEmpty \/ PollRecord \/ PollOverLimit
  BY <1>5, PollIndInv
<1>6. CASE ReadCell
  BY <1>6, ReadIndInv
<1>7. CASE Release
  BY <1>7, ReleaseIndInv
<1>8. CASE UNCHANGED vars
  BY <1>8, StutterIndInv
<1> QED
  BY <1>1, <1>2, <1>3, <1>4, <1>5, <1>6, <1>7, <1>8 DEF Next, InCall, Consume

-----------------------------------------------------------------------------
(* The theorems.                                                           *)

\* In every state of both threads' runs the positions, the caches, the buffer,
\* the queued records and both threads' locals agree.
THEOREM Invariance == Spec => []IndInv
<1>1. Init => IndInv
  BY InitIndInv
<1>2. IndInv /\ [Next]_vars => IndInv'
  BY NextIndInv
<1> QED
  BY <1>1, <1>2, PTL DEF Spec

\* Every variable keeps its type: positions never exceed their bound, the
\* drain loop's limit never leaves 1 .. MAX_POLLS.
THEOREM TypeCorrect == Spec => []TypeOK
<1>1. IndInv => TypeOK
  BY DEF IndInv
<1> QED
  BY <1>1, Invariance, PTL

\* A thread's cached copy of the other's position is never ahead of it.
THEOREM CachesNeverLead == Spec => []CachesLag
<1>1. IndInv => CachesLag
  BY DEF IndInv
<1> QED
  BY <1>1, Invariance, PTL

\* Between head and tail the buffer is exactly the published records, whatever
\* the producer is in the middle of.
THEOREM BufferIntact == Spec => []BufferHoldsQueue
<1>1. IndInv => BufferHoldsQueue
  BY DEF IndInv
<1> QED
  BY <1>1, Invariance, PTL

\* The record being written and the unreleased records share no cell.
THEOREM NoOverwrite == Spec => []ClaimSparesUnread
<1>1. IndInv => ClaimSparesUnread
  <2> SUFFICES ASSUME IndInv, pPc # "idle"
               PROVE  /\ Required(msg) <= Capacity
                      /\ \A k \in 0 .. Required(msg) - 1, p \in head .. tail - 1 :
                            Cell(claimed, k) # IndexOf(p)
    BY DEF ClaimSparesUnread
  <2>1. Required(msg) <= Capacity
    <3>1. tail \in Nat /\ headCache \in Nat /\ headCache <= tail
      BY ConstantTypes DEF IndInv, TypeOK, CachesLag
    <3>2. Required(msg) \in Nat
      BY RequiredType DEF IndInv, TypeOK
    <3>3. Required(msg) <= Capacity - (tail - headCache)
      BY DEF IndInv, ProducerInv
    <3> QED
      BY <3>1, <3>2, <3>3, ConstantTypes
  <2> QED
    BY <2>1, ClaimedApart DEF IndInv
<1> QED
  BY <1>1, Invariance, PTL

-----------------------------------------------------------------------------
(* Refinement: the two threads implement the bounded queue.                *)

\* Publishing a record is one Put of the abstract queue.
LEMMA PublishPuts ==
  ASSUME IndInv, Publish
  PROVE  \E m \in Payloads : Queue!Put(m)
<1>1. /\ msg \in Payloads /\ msg \in Seq(Data) /\ tail \in Nat
      /\ tail' = tail + Required(msg) /\ queue' = Append(queue, msg)
  BY PublishFacts
<1>2. head' = head /\ delivered' = delivered
  BY DEF Publish, PublishRecord
<1>3. /\ Required(msg) \in Nat /\ head \in Nat /\ headCache \in Nat
      /\ headCache <= head /\ Required(msg) <= Capacity - (tail - headCache)
  BY <1>1, RequiredType DEF IndInv, TypeOK, CachesLag, ProducerInv, Publish
<1>4. (tail - head) + Required(msg) <= Capacity
  BY <1>1, <1>3, ConstantTypes
<1>5. tail' - head' = (tail - head) + Required(msg)
  BY <1>1, <1>2, <1>3
<1>6. Queue!Put(msg)
  BY <1>1, <1>2, <1>4, <1>5 DEF Queue!Put, Queue!Size, Required
<1> QED
  BY <1>1, <1>6

\* Releasing a record is one Take of the abstract queue.
LEMMA ReleaseTakes == ASSUME IndInv, Release PROVE Queue!Take
<1>1. /\ queue # <<>> /\ queue \in Seq(Seq(Data))
      /\ queue' = Tail(queue) /\ delivered' = queue[1]
      /\ queue[1] \in Seq(Data) /\ head' = head + Required(queue[1])
  BY ReleaseFacts
<1>2. tail' = tail /\ head \in Nat /\ tail \in Nat
  BY ConstantTypes DEF Release, ReleaseRecord, IndInv, TypeOK
<1>3. Head(queue) = queue[1] /\ Required(queue[1]) \in Nat
  BY <1>1, RequiredType
<1>4. tail' - head' = (tail - head) - Required(queue[1])
  BY <1>1, <1>2, <1>3
<1> QED
  BY <1>1, <1>3, <1>4 DEF Queue!Take, Queue!Size, Required

\* Every behaviour of the ring buffer, the abstract occupancy being the
\* distance between the positions, is a behaviour of the bounded queue.
THEOREM Refinement == Spec => ImplementsQueue
<1>1. Init => Queue!Init
  BY DEF Init, Queue!Init
<1>2. IndInv /\ [Next]_vars => [Queue!Next]_Queue!vars
  <2> SUFFICES ASSUME IndInv, [Next]_vars
               PROVE  Queue!Next \/ UNCHANGED <<queue, tail - head, delivered>>
    BY DEF Queue!vars
  <2>1. ASSUME NEW m \in Payloads, Claim(m)
        PROVE  UNCHANGED <<queue, tail - head, delivered>>
    BY <2>1 DEF Claim, ClaimTooLong, ClaimCached, ClaimRefreshed, ClaimRefused,
                ClaimGranted, vars, shared, history
  <2>2. CASE StampLength \/ FillCell
    BY <2>2 DEF StampLength, FillCell, history
  <2>3. CASE Publish
    BY <2>3, PublishPuts DEF Queue!Next
  <2>4. CASE PollEmpty \/ PollRecord \/ PollOverLimit \/ ReadCell
    BY <2>4 DEF PollEmpty, PollRecord, PollOverLimit, ReadCell, shared, history
  <2>5. CASE Release
    BY <2>5, ReleaseTakes DEF Queue!Next
  <2>6. CASE UNCHANGED vars
    BY <2>6 DEF vars, shared, history
  <2> QED
    BY <2>1, <2>2, <2>3, <2>4, <2>5, <2>6 DEF Next, InCall, Consume
<1> QED
  BY <1>1, <1>2, Invariance, PTL DEF Spec, ImplementsQueue, Queue!Spec

=============================================================================
