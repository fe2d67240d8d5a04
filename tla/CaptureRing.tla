---------------------------- MODULE CaptureRing ----------------------------
(***************************************************************************)
(* The loop of a capture thread, vmars_poll_socket of src/src/packet.c,    *)
(* and the ring of TPACKET_V3 blocks it shares with the kernel.  The two   *)
(* synchronise on nothing but the status word of each block: the kernel    *)
(* fills a block while it is its own and retires it to the user when it is *)
(* full or when the timer of setup_socket runs out; the thread walks it    *)
(* and flushes it back.  SIGINT and the end of the loop are in Lifecycle.  *)
(*                                                                         *)
(* A block is described by the stretch of captured packets it holds.       *)
(***************************************************************************)
EXTENDS Integers, Sequences

CONSTANTS
  Blocks,      \* tp_block_nr, and the modulus of block_num
  PerBlock,    \* how many packets fit in a block
  Packets,     \* what may arrive: [ip, source, dest, length]
  Port,        \* ctx->port
  MaxPackets   \* bound: how many packets arrive

ASSUME BlocksAssumption == Blocks \in Nat \ {0} /\ PerBlock \in Nat \ {0}
ASSUME PacketsAssumption ==
  /\ \A p \in Packets :
       /\ DOMAIN p = {"ip", "source", "dest", "length"}
       /\ p.ip \in BOOLEAN /\ p.length \in Nat
  /\ MaxPackets \in Nat

BlockNums == 0 .. Blocks - 1

VARIABLES
  captured,      \* the packets stored in the ring so far
  dropped,       \* how many packets were dropped
  block_status,  \* whose each block is: "kernel" or "user"
  first,         \* how many packets were captured before the first one of each block
  num_pkts,      \* how many packets each block holds
  active,        \* the block the kernel fills, or fills next
  filling,       \* whether the kernel has opened it
  pc,            \* the thread's place: "look", "poll" or "walk"
  block_num,     \* the block the thread looks at
  num,           \* the local num_pkts of walk_block
  i,             \* the packets of the block seen so far
  seen,          \* the packets seen so far, over all blocks
  extracted      \* the packet handed to vmars_extract_fix_messages last

kernelVars == <<captured, dropped, active, filling>>
blockVars == <<block_status, first, num_pkts>>
threadVars == <<pc, block_num, num, i, seen, extracted>>
vars == <<kernelVars, blockVars, threadVars>>

-----------------------------------------------------------------------------
Init ==
  /\ captured = <<>>
  /\ dropped = 0
  /\ block_status = [b \in BlockNums |-> "kernel"]
  /\ first = [b \in BlockNums |-> 0]
  /\ num_pkts = [b \in BlockNums |-> 0]
  /\ active = 0
  /\ filling = TRUE
  /\ pc = "look"
  /\ block_num = 0
  /\ num = 0
  /\ i = 0
  /\ seen = 0
  /\ extracted = <<>>

-----------------------------------------------------------------------------
(* The kernel (net/packet), as far as the thread relies on it.             *)

NextActive == (active + 1) % Blocks

\* A packet goes to the block being filled.
Store(p) ==
  /\ Len(captured) + dropped < MaxPackets
  /\ filling
  /\ num_pkts[active] < PerBlock
  /\ captured' = Append(captured, p)
  /\ num_pkts' = [num_pkts EXCEPT ![active] = @ + 1]
  /\ UNCHANGED <<dropped, active, filling, block_status, first, threadVars>>

\* The block is full or the timer has run out; an empty block is not retired.
Retire ==
  /\ filling
  /\ num_pkts[active] > 0
  /\ block_status' = [block_status EXCEPT ![active] = "user"]
  /\ active' = NextActive
  /\ filling' = FALSE
  /\ UNCHANGED <<captured, dropped, first, num_pkts, threadVars>>

\* The next block is opened once it is the kernel's.
Open ==
  /\ ~filling
  /\ block_status[active] = "kernel"
  /\ filling' = TRUE
  /\ first' = [first EXCEPT ![active] = Len(captured)]
  /\ num_pkts' = [num_pkts EXCEPT ![active] = 0]
  /\ UNCHANGED <<captured, dropped, active, block_status, threadVars>>

\* As long as it is not, packets are dropped.
Drop ==
  /\ Len(captured) + dropped < MaxPackets
  /\ ~filling
  /\ block_status[active] = "user"
  /\ dropped' = dropped + 1
  /\ UNCHANGED <<captured, active, filling, blockVars, threadVars>>

Kernel == (\E p \in Packets : Store(p)) \/ Retire \/ Open \/ Drop

-----------------------------------------------------------------------------
(* The capture thread.                                                     *)

\* display passes over what is not IP, what concerns another port and what
\* carries no payload.  It takes every IP packet for a TCP segment.
IsWanted(p) == p.ip /\ (p.source = Port \/ p.dest = Port) /\ p.length # 0

\* The block is the kernel's: poll.
LookAway ==
  /\ pc = "look"
  /\ block_status[block_num] = "kernel"
  /\ pc' = "poll"
  /\ UNCHANGED <<kernelVars, blockVars, block_num, num, i, seen, extracted>>

\* Poll returns when the block retired last is the user's; it may be retired
\* between the look and the poll.
PollReturns ==
  /\ pc = "poll"
  /\ block_status[(active + Blocks - 1) % Blocks] = "user"
  /\ pc' = "look"
  /\ UNCHANGED <<kernelVars, blockVars, block_num, num, i, seen, extracted>>

\* Faulty variant of StartWalk: the block goes back before it is walked.
StartWalkFlushed ==
  /\ pc = "look"
  /\ block_status[block_num] = "user"
  /\ block_status' = [block_status EXCEPT ![block_num] = "kernel"]
  /\ pc' = "walk"
  /\ num' = num_pkts[block_num]
  /\ i' = 0
  /\ UNCHANGED <<kernelVars, first, num_pkts, block_num, seen, extracted>>

\* The block is the user's: walk_block reads how many packets it holds.
StartWalk ==
  /\ pc = "look"
  /\ block_status[block_num] = "user"
  /\ pc' = "walk"
  /\ num' = num_pkts[block_num]
  /\ i' = 0
  /\ UNCHANGED <<kernelVars, blockVars, block_num, seen, extracted>>

\* The packet the walk has come to.
Current == captured[first[block_num] + i + 1]

\* display of one packet.
Display ==
  /\ pc = "walk"
  /\ i < num
  /\ extracted' = IF IsWanted(Current) THEN <<Current>> ELSE extracted
  /\ i' = i + 1
  /\ seen' = seen + 1
  /\ UNCHANGED <<kernelVars, blockVars, pc, block_num, num>>

\* Faulty variant of Walked: the last packet of the block is passed over.
WalkedButLast == i >= num - 1

\* The loop of walk_block has come to its end.
Walked == i = num

\* Faulty variant of NextBlock: the thread's ring has a block less.
NextBlockOneLess == (block_num + 1) % (Blocks - 1)

NextBlock == (block_num + 1) % Blocks

\* flush_block after the last packet, and on to the next block.
FlushBlock ==
  /\ pc = "walk"
  /\ Walked
  /\ block_status' = [block_status EXCEPT ![block_num] = "kernel"]
  /\ block_num' = NextBlock
  /\ pc' = "look"
  /\ UNCHANGED <<kernelVars, first, num_pkts, num, i, seen, extracted>>

Thread == LookAway \/ PollReturns \/ StartWalk \/ Display \/ FlushBlock

-----------------------------------------------------------------------------
Next == Kernel \/ Thread

\* The thread is scheduled; the retire timer runs out again and again, and the
\* kernel then opens a block that has come back.  Nothing obliges packets to come.
Spec == Init /\ [][Next]_vars /\ WF_vars(Thread) /\ WF_vars(Retire) /\ WF_vars(Open)

-----------------------------------------------------------------------------
(* Properties.                                                             *)

\* Every variable has its type; the walk never runs past the packets of its block.
TypeOK ==
  /\ captured \in Seq(Packets)
  /\ dropped \in Nat
  /\ block_status \in [BlockNums -> {"kernel", "user"}]
  /\ first \in [BlockNums -> Nat]
  /\ num_pkts \in [BlockNums -> 0 .. PerBlock]
  /\ active \in BlockNums
  /\ filling \in BOOLEAN
  /\ pc \in {"look", "poll", "walk"}
  /\ block_num \in BlockNums
  /\ num \in 0 .. PerBlock
  /\ i \in 0 .. num
  /\ seen \in Nat
  /\ extracted \in {<<>>} \cup {<<p>> : p \in Packets}

\* How many blocks lie before the kernel's, from the thread's on.
Retired ==
  IF block_status[block_num] = "user"
    THEN ((active + Blocks - 1 - block_num) % Blocks) + 1 ELSE 0

\* The block at distance d from the thread's.
Ahead(d) == (block_num + d) % Blocks

\* The packet after the last one of a block.
End(b) == first[b] + num_pkts[b]

\* The blocks the thread has not flushed are the ones from its own to the one
\* before the kernel's, none of them empty.  Each holds the packets after those of
\* the one before, up to the last packet captured, and the walk stands where
\* the packets seen end.
BlocksInTurn ==
  /\ \A d \in 0 .. Blocks - 1 :
       block_status[Ahead(d)] = (IF d < Retired THEN "user" ELSE "kernel")
  /\ active = Ahead(Retired)
  /\ filling => Retired < Blocks
  /\ \A d \in 0 .. Retired - 1 : num_pkts[Ahead(d)] > 0
  /\ \A d \in 1 .. Retired - 1 : first[Ahead(d)] = End(Ahead(d - 1))
  /\ filling =>
       /\ End(active) = Len(captured)
       /\ Retired > 0 => first[active] = End(Ahead(Retired - 1))
       /\ Retired = 0 => first[active] = seen
  /\ ~filling =>
       Len(captured) = (IF Retired > 0 THEN End(Ahead(Retired - 1)) ELSE seen)
  /\ Retired > 0 /\ pc # "walk" => first[block_num] = seen
  /\ pc = "walk" =>
       /\ Retired > 0
       /\ num = num_pkts[block_num]
       /\ first[block_num] + i = seen

\* Types and the turn of the blocks together are what every step preserves.
IndInv == TypeOK /\ BlocksInTurn

\* The hand-over of blocks implements the feed: every captured packet is seen
\* once, in order, whole (the kernel does not write a block that is being
\* walked), and one is dropped only when all other blocks have packets waiting.
Feed == INSTANCE PacketFeed WITH
  waiting <- SubSeq(captured, seen + 1, Len(captured)),
  Backlog <- Blocks - 1

ImplementsFeed == Feed!Spec

\* Every captured packet is seen: the thread does not sleep through a block, and
\* a packet that comes alone is not left in a block that never fills.
EveryPacketSeen ==
  \A n \in 1 .. MaxPackets : Len(captured) >= n ~> seen >= n

=============================================================================
