----------------------------- MODULE PacketFeed -----------------------------
(***************************************************************************)
(* What the ring of blocks that a capture thread shares with the kernel    *)
(* promises (src/src/packet.c), with no blocks and no hand-over: packets   *)
(* are seen once and in the order of their capture, the ones that concern  *)
(* nobody are passed over, and the kernel drops a packet only when the     *)
(* thread is behind.  Module CaptureRing is shown to implement this.       *)
(***************************************************************************)
EXTENDS Integers, Sequences

CONSTANTS
  Packets,     \* the packets that may arrive
  IsWanted(_), \* whether a packet's payload is to be extracted
  Backlog      \* how many packets wait at least when one is dropped

VARIABLES
  waiting,     \* the packets captured and not seen yet, oldest first
  extracted,   \* the packet whose payload was extracted last, <<>> at first
  dropped      \* how many packets were dropped

vars == <<waiting, extracted, dropped>>

Init ==
  /\ waiting = <<>>
  /\ extracted = <<>>
  /\ dropped = 0

Capture(p) ==
  /\ waiting' = Append(waiting, p)
  /\ UNCHANGED <<extracted, dropped>>

Drop ==
  /\ Len(waiting) >= Backlog
  /\ dropped' = dropped + 1
  /\ UNCHANGED <<waiting, extracted>>

See ==
  /\ waiting # <<>>
  /\ waiting' = Tail(waiting)
  /\ extracted' = IF IsWanted(Head(waiting)) THEN <<Head(waiting)>> ELSE extracted
  /\ UNCHANGED dropped

Next == (\E p \in Packets : Capture(p)) \/ Drop \/ See

Spec == Init /\ [][Next]_vars

=============================================================================
