--------------------------- MODULE MCFixExtract ---------------------------
(* Small instances of FixExtract for TLC. *)
EXTENDS FixExtract

CONSTANTS s1, s2   \* two streams

TwoStreams == {s1, s2}

\* Messages of the shortest length, and longer ones than the fragment buffer.
MCMsgLen == <<5,11,5,5,8,12>>

\* A stream whose second message is damaged; on the other the first message states
\* one cell too few and is too long for the fragment buffer, the second is sound.
MCSent == [s \in TwoStreams |-> IF s = s1 THEN <<1,3>> ELSE <<6,4>>]
MCStated == <<5,11,5,5,8,11>>
SecondDamaged == {3}

\* Cells of a packet of no stream's behind a payload.
MCBehind == {<<0,0>>}

\* As many cells as a message has are lost or sent again.
MCJumps == {<<s1, 5>>}

\* Three messages on one stream, none of them damaged.
OneStream == {s1}
SentThree == [s \in OneStream |-> <<1, 5, 3>>]
NoneDamaged == {}
NoJumps == {}
StatedRight == MCMsgLen

=============================================================================
