------------------------------ MODULE SpscRb ------------------------------
(***************************************************************************)
(* The single-producer single-consumer ring buffer of src/src/spsc_rb.c,   *)
(* between one capture thread (src/src/fix.c claims, fills and publishes)  *)
(* and the latency handler (the drain loop of src/src/latency_handler.c    *)
(* polls, reads and releases).                                             *)
(*                                                                         *)
(* Memory.  The two threads share the buffer, tail_position (written by    *)
(* the producer only) and head_position (written by the consumer only).    *)
(* Each action makes at most one access to memory the other thread writes  *)
(* or reads, so TLC sees every interleaving of those accesses.             *)
(* Sequential consistency is what the build gives: on x86-64, the only     *)
(* platform src/src/atomic.h accepts, both positions are stored with a     *)
(* locked xchg, which drains the earlier plain stores to the record, loads *)
(* are not reordered with later accesses, and the ring's functions are in  *)
(* a translation unit of their own.                                        *)
(*                                                                         *)
(* The buffer is mapped twice, back to back, so a record that runs over    *)
(* the end continues at the start: the cell k places after the cell of a   *)
(* record pointer is the physical cell modulo Capacity.                    *)
(***************************************************************************)
EXTENDS Integers, Sequences

CONSTANTS
  Capacity,     \* cells in the buffer (a byte of the code is a cell)
  Header,       \* cells of vmars_rb_record_t
  Data,         \* values a cell of a record body can hold
  Payloads,     \* record bodies the producer may publish
  MaxPolls,     \* MAX_POLLS of the drain loop
  MaxPosition   \* bound: positions stay at or below it (int64_t in the code)

ASSUME CapacityAssumption ==
  /\ Capacity \in Nat \ {0}
  /\ \E n \in 0..Capacity : Capacity = 2^n
ASSUME HeaderAssumption   == Header \in Nat \ {0}
ASSUME PayloadsAssumption == Payloads \subseteq Seq(Data)
ASSUME PollsAssumption    == MaxPolls \in Nat \ {0, 1}
ASSUME PositionAssumption == MaxPosition \in Nat

VARIABLES
  buf,        \* the mapped buffer; a header cell holds the record's length
  head,       \* head_position: where the consumer reads next
  tail,       \* tail_position: where the producer writes next
  headCache,  \* head_cache_position, the producer's copy of head
  tailCache,  \* tail_cache_position, the consumer's copy of tail
  pPc,        \* where the producer is
  msg,        \* the record body being published
  claimed,    \* the record pointer claim returned, as an index
  filled,     \* cells of the body written so far
  cPc,        \* where the consumer is
  limit,      \* poll_limit of the current round
  polled,     \* the record pointer poll returned, as an index
  got,        \* cells of the body read so far
  queue,      \* history: the published records that are not released
  starts,     \* history: the position each of them starts at
  delivered   \* history: the record released last

shared == <<buf, head, tail>>
producer == <<headCache, pPc, msg, claimed, filled>>
consumer == <<tailCache, cPc, limit, polled, got>>
history == <<queue, starts, delivered>>
vars == <<shared, producer, consumer, history>>

Indices == 0 .. Capacity - 1

\* position & (capacity - 1), the capacity being a power of two.
IndexOf(p) == p % Capacity

\* The physical cell k places after the record pointer r.
Cell(r, k) == (r + k) % Capacity

Required(m) == Header + Len(m)

\* Faulty variant of Fits: the header is not counted.
FitsNoHeader(m, h) == Len(m) <= Capacity - (tail - h)

\* Is there room for m after the tail when the consumer is at position h?
Fits(m, h) == Required(m) <= Capacity - (tail - h)

-----------------------------------------------------------------------------
Init ==
  /\ buf = [i \in Indices |-> 0]
  /\ head = 0 /\ tail = 0 /\ headCache = 0 /\ tailCache = 0
  /\ pPc = "idle" /\ msg = <<>> /\ claimed = 0 /\ filled = 0
  /\ cPc = "poll" /\ limit = MaxPolls /\ polled = 0 /\ got = <<>>
  /\ queue = <<>> /\ starts = <<>> /\ delivered = <<>>

-----------------------------------------------------------------------------
(* The producer: vmars_spsc_rb_claim, the copy into the record,            *)
(* vmars_spsc_rb_publish.                                                  *)

\* claim with a body longer than the buffer: errno is EINVAL, NULL returned.
ClaimTooLong(m) ==
  /\ pPc = "idle"
  /\ Len(m) > Capacity
  /\ UNCHANGED vars

ClaimGranted(m) ==
  /\ tail + Required(m) <= MaxPosition
  /\ msg' = m
  /\ claimed' = IndexOf(tail)
  /\ filled' = 0
  /\ pPc' = "stamp"
  /\ UNCHANGED <<shared, consumer, history>>

\* The cached head already shows enough room: head_position is not loaded.
ClaimCached(m) ==
  /\ pPc = "idle"
  /\ Len(m) <= Capacity
  /\ Fits(m, headCache)
  /\ ClaimGranted(m)
  /\ UNCHANGED headCache

\* Faulty variant of ClaimRefreshed: the loaded head is not cached.
ClaimRefreshedNoStore(m) ==
  /\ pPc = "idle"
  /\ Len(m) <= Capacity
  /\ ~Fits(m, headCache)
  /\ Fits(m, head)
  /\ ClaimGranted(m)
  /\ UNCHANGED headCache

\* The cached head shows too little room, the loaded one enough.
ClaimRefreshed(m) ==
  /\ pPc = "idle"
  /\ Len(m) <= Capacity
  /\ ~Fits(m, headCache)
  /\ Fits(m, head)
  /\ ClaimGranted(m)
  /\ headCache' = head

\* Not enough room with the loaded head either: NULL, the message is dropped
\* and the cache keeps its old value.
ClaimRefused(m) ==
  /\ pPc = "idle"
  /\ Len(m) <= Capacity
  /\ ~Fits(m, headCache)
  /\ ~Fits(m, head)
  /\ UNCHANGED vars

\* record->length = length, over the cells of the header.
StampLength ==
  /\ pPc = "stamp"
  /\ buf' = [i \in Indices |->
               IF \E k \in 0 .. Header - 1 : i = Cell(claimed, k)
               THEN Len(msg) ELSE buf[i]]
  /\ pPc' = "fill"
  /\ UNCHANGED <<head, tail, headCache, msg, claimed, filled, consumer, history>>

\* Faulty variant of FillCell: the body is copied over the header.
FillCellNoHeader ==
  /\ pPc = "fill"
  /\ filled < Len(msg)
  /\ buf' = [buf EXCEPT ![Cell(claimed, filled)] = msg[filled + 1]]
  /\ filled' = filled + 1
  /\ UNCHANGED <<head, tail, headCache, pPc, msg, claimed, consumer, history>>

\* One cell of the body is copied into the record.
FillCell ==
  /\ pPc = "fill"
  /\ filled < Len(msg)
  /\ buf' = [buf EXCEPT ![Cell(claimed, Header + filled)] = msg[filled + 1]]
  /\ filled' = filled + 1
  /\ UNCHANGED <<head, tail, headCache, pPc, msg, claimed, consumer, history>>

\* The pointer must be the record at the tail (EINVAL otherwise); the new tail
\* is computed from the length in the record and stored with xchg.
PublishRecord ==
  /\ claimed = IndexOf(tail)
  /\ tail' = tail + buf[claimed] + Header
  /\ queue' = Append(queue, msg)
  /\ starts' = Append(starts, tail)
  /\ pPc' = "idle" /\ msg' = <<>> /\ claimed' = 0 /\ filled' = 0
  /\ UNCHANGED <<buf, head, headCache, consumer, delivered>>

\* Faulty variant of Publish: the body may be incomplete.
PublishEarly == pPc = "fill" /\ PublishRecord

Publish == pPc = "fill" /\ filled = Len(msg) /\ PublishRecord

-----------------------------------------------------------------------------
(* The consumer: one ring's turn in the drain loop of poll_ring_buffers.   *)

\* The tail vmars_spsc_rb_poll decides with: tail_position is loaded only when
\* the cached tail shows nothing to read.
PollTail == IF head < tailCache THEN tailCache ELSE tail

\* Faulty variant of EndTurn: the limit is not reset between turns.
EndTurnNoReset == limit' = limit - 1

\* The while loop ends; the next turn of this ring starts with a fresh limit.
EndTurn == limit' = MaxPolls

\* poll returns NULL: the cached tail keeps its old value.
PollEmpty ==
  /\ cPc = "poll"
  /\ PollTail <= head
  /\ EndTurn
  /\ UNCHANGED <<shared, producer, history, tailCache, cPc, polled, got>>

\* poll returns a record and --poll_limit > 0 still holds.
PollRecord ==
  /\ cPc = "poll"
  /\ PollTail > head
  /\ limit > 1
  /\ tailCache' = PollTail
  /\ limit' = limit - 1
  /\ polled' = IndexOf(head)
  /\ got' = <<>>
  /\ cPc' = "read"
  /\ UNCHANGED <<shared, producer, history>>

\* poll returns a record, the limit is used up: the record stays unreleased
\* and is polled again on the ring's next turn.
PollOverLimit ==
  /\ cPc = "poll"
  /\ PollTail > head
  /\ limit = 1
  /\ tailCache' = PollTail
  /\ EndTurn
  /\ UNCHANGED <<shared, producer, history, cPc, polled, got>>

\* calculate_latency reads a cell of the record.
ReadCell ==
  /\ cPc = "read"
  /\ Len(got) < buf[polled]
  /\ got' = Append(got, buf[Cell(polled, Header + Len(got))])
  /\ UNCHANGED <<shared, producer, history, tailCache, cPc, limit, polled>>

\* The pointer must be the record at the head (EINVAL otherwise); the new head
\* is computed from the length in the record and stored with xchg.
ReleaseRecord ==
  /\ polled = IndexOf(head)
  /\ head' = head + Header + buf[polled]
  /\ delivered' = got
  /\ queue' = Tail(queue)
  /\ starts' = Tail(starts)
  /\ cPc' = "poll" /\ polled' = 0 /\ got' = <<>>
  /\ UNCHANGED <<buf, tail, producer, tailCache, limit>>

\* Faulty variant of Release: the record may not be read to its end.
ReleaseUnread == cPc = "read" /\ queue # <<>> /\ ReleaseRecord

Release == cPc = "read" /\ Len(got) = buf[polled] /\ ReleaseRecord

-----------------------------------------------------------------------------
Claim(m) == ClaimTooLong(m) \/ ClaimCached(m) \/ ClaimRefreshed(m) \/ ClaimRefused(m)

InCall == StampLength \/ FillCell \/ Publish

Consume == PollEmpty \/ PollRecord \/ PollOverLimit \/ ReadCell \/ Release

Next == (\E m \in Payloads : Claim(m)) \/ InCall \/ Consume

Spec == Init /\ [][Next]_vars

\* The latency handler spins without blocking and a capture thread inside
\* claim ... publish waits for nobody: both run whenever they can.  Nothing
\* obliges a capture thread to have a message.
FairSpec == Spec /\ WF_vars(InCall) /\ WF_vars(Consume)

-----------------------------------------------------------------------------
(* Properties.                                                             *)

Cells == Nat \cup Data

\* Every variable has its type.  The positions of spsc_rb.h's descriptor are
\* never negative, the poll limit of the drain loop never runs below 1.
TypeOK ==
  /\ buf \in [Indices -> Cells]
  /\ head \in Nat /\ tail \in 0 .. MaxPosition
  /\ headCache \in Nat /\ tailCache \in Nat
  /\ pPc \in {"idle", "stamp", "fill"}
  /\ msg \in Seq(Data) /\ claimed \in Indices /\ filled \in Nat
  /\ cPc \in {"poll", "read"} /\ limit \in 1 .. MaxPolls
  /\ polled \in Indices /\ got \in Seq(Cells)
  /\ queue \in Seq(Seq(Data)) /\ starts \in Seq(Nat)
  /\ delivered \in Seq(Cells)

\* Positions are ordered and each cached position is an old value of the other
\* thread's: a stale cache may hide room or a record, never invent one.  The
\* last conjunct is why the claim's 32-bit subtraction never goes negative.
CachesLag ==
  /\ headCache <= head /\ head <= tail /\ tailCache <= tail
  /\ tail - headCache <= Capacity

\* Where record i of the queue ends, and the cells of a record's two parts.
EndOf(i) == starts[i] + Required(queue[i])
HoldsLength(r, m) == \A k \in 0 .. Header - 1 : buf[Cell(r, k)] = Len(m)
HoldsBody(r, m, n) == \A k \in 1 .. n : buf[Cell(r, Header + k - 1)] = m[k]

\* The unreleased records lie one after the other from head to tail.
Layout ==
  /\ Len(starts) = Len(queue)
  /\ queue = <<>> => head = tail
  /\ queue # <<>> => starts[1] = head /\ EndOf(Len(queue)) = tail
  /\ \A i \in 1 .. Len(queue) - 1 : EndOf(i) = starts[i + 1]

\* No claim, copy or publish ever changes a cell of a record the latency
\* handler has not released, and publish never exposes an unwritten cell: the
\* buffer between head and tail is exactly the published records.
BufferHoldsQueue ==
  /\ Layout
  /\ \A i \in 1 .. Len(queue) :
        /\ HoldsLength(IndexOf(starts[i]), queue[i])
        /\ HoldsBody(IndexOf(starts[i]), queue[i], Len(queue[i]))

\* The record being written never shares a cell with an unreleased one, not
\* even when it wraps, and never runs into itself (the claim's room check
\* against a head that may be stale).
ClaimSparesUnread ==
  pPc # "idle" =>
    /\ Required(msg) <= Capacity
    /\ \A k \in 0 .. Required(msg) - 1, p \in head .. tail - 1 :
          Cell(claimed, k) # IndexOf(p)

\* The abstract queue, the cells used being the distance of the positions.
Queue == INSTANCE RecordQueue WITH used <- tail - head

\* Publishing and releasing a record, spread over many steps of two threads,
\* look like single steps of a bounded queue: records come out in order,
\* once, unchanged, and never take more than the capacity.
ImplementsQueue == Queue!Spec

\* Whatever was published is eventually released: the poll limit postpones a
\* record to the next turn, it never parks it.
EveryRecordReleased ==
  \A p \in 0 .. MaxPosition - 1 : (p < tail) ~> (p < head)

-----------------------------------------------------------------------------
(* The inductive invariant behind the theorems of SpscRbProofs.            *)

ProducerInv ==
  /\ pPc # "idle" =>
        /\ claimed = IndexOf(tail)
        /\ msg \in Payloads
        /\ Required(msg) <= Capacity - (tail - headCache)
        /\ tail + Required(msg) <= MaxPosition
        /\ filled <= Len(msg)
  /\ pPc = "stamp" => filled = 0
  /\ pPc = "fill" => HoldsLength(claimed, msg) /\ HoldsBody(claimed, msg, filled)

ConsumerInv ==
  cPc = "read" =>
    /\ queue # <<>>
    /\ polled = IndexOf(head)
    /\ Len(got) <= Len(queue[1])
    /\ \A k \in 1 .. Len(got) : got[k] = queue[1][k]

\* Every record of the queue lies between head and tail, and the older one of
\* two records lies wholly before the other.
InBounds ==
  /\ \A i \in 1 .. Len(queue) : head <= starts[i] /\ EndOf(i) <= tail
  /\ \A i, j \in 1 .. Len(queue) : i < j => EndOf(i) <= starts[j]

\* What holds of head, tail, the caches, the buffer and both threads' locals
\* in every state, strong enough to be preserved by every step on its own.
IndInv ==
  /\ TypeOK
  /\ CachesLag
  /\ BufferHoldsQueue
  /\ InBounds
  /\ ProducerInv
  /\ ConsumerInv

=============================================================================
