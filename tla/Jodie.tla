------------------------------- MODULE Jodie -------------------------------
(***************************************************************************)
(* The gauge client of src/src/jodie_client.c as its two threads use it:   *)
(* each logs a batch of lines once a second and flushes.  Every  client is *)
(* used by one thread only; two clients share nothing but the socket.      *)
(*                                                                         *)
(* A line is a whole "name value time type=gauge" text, of which only the  *)
(* length matters.  The socket does not block, so sendto may fail; then    *)
(* the lines stay in the buffer.  flush sends the bytes up to the first    *)
(* NUL, not send_index bytes: a client made by jodie_dup has a send_buffer *)
(* nobody has cleared and may send what it held, until the first datagram  *)
(* is out and the buffer is cleared.                                       *)
(*                                                                         *)
(* Nothing checks that a line still fits send_buffer: after enough flushes *)
(* that failed a line runs past its end.  What the program does from then  *)
(* on is not defined: the model only notes that it has happened.           *)
(***************************************************************************)
EXTENDS Integers, Sequences, SequencesExt

CONSTANTS
  Batch,        \* lines a thread logs between two flushes
  Lengths,      \* the lengths a line can have
  PacketSize,   \* PACKET_SIZE
  BufferSize,   \* BUFFER_SIZE
  MaxLines,     \* bound: lines logged
  MaxFailures   \* bound: flushes that fail

ASSUME BatchAssumption == Batch \in Nat \ {0}
ASSUME LengthsAssumption ==
  /\ PacketSize \in Nat /\ BufferSize \in Nat /\ PacketSize < BufferSize
  /\ Lengths # {} /\ Lengths \subseteq 1 .. PacketSize
ASSUME BoundsAssumption == MaxLines \in Nat /\ MaxFailures \in Nat

VARIABLES
  buffer,     \* the lines in send_buffer
  index,      \* send_index
  dirty,      \* may there be something but NULs behind the lines?
  logged,     \* history: lines logged so far; they are numbered from 1
  batch,      \* lines of the current batch
  datagrams,  \* history: what has been sent, [lines |-> .., rest |-> BOOLEAN]
  failures,   \* history: failed flushes since the last one that succeeded
  failed,     \* flushes that failed so far
  overrun     \* has a line run past the end of send_buffer?

vars == <<buffer, index, dirty, logged, batch, datagrams, failures, failed, overrun>>

\* jodie_init clears the buffer; after jodie_dup it is as the stack was.
Init ==
  /\ buffer = <<>> /\ index = 0
  /\ dirty \in BOOLEAN
  /\ logged = 0 /\ batch = 0
  /\ datagrams = <<>>
  /\ failures = 0 /\ failed = 0
  /\ overrun = FALSE

\* Faulty variant of Sent: the buffer is not cleared.
SentUncleared(rest) ==
  /\ rest => dirty
  /\ datagrams' = Append(datagrams, [lines |-> buffer, rest |-> rest])
  /\ failures' = 0
  /\ UNCHANGED <<dirty, failed>>

\* sendto succeeds: the datagram is the buffer's lines and perhaps a rest.
Sent(rest) ==
  /\ rest => dirty
  /\ datagrams' = Append(datagrams, [lines |-> buffer, rest |-> rest])
  /\ dirty' = FALSE
  /\ failures' = 0
  /\ UNCHANGED failed

\* sendto fails.
NotSent ==
  /\ failed < MaxFailures
  /\ failed' = failed + 1
  /\ failures' = failures + 1
  /\ UNCHANGED <<dirty, datagrams>>

\* Faulty variant of Fits: a full packet is not flushed.
FitsAlways(n) == TRUE

\* Does a line of length n still fit the packet?
Fits(n) == n + index <= PacketSize

\* The next line, of length n, is put behind lines that take start bytes.
PutLine(lines, start, n) ==
  /\ buffer' = Append(lines, logged + 1)
  /\ index' = start + n
  /\ logged' = logged + 1
  /\ batch' = batch + 1
  /\ UNCHANGED overrun

\* Faulty variant of AfterFailure: the line replaces what was not sent.
AfterFailureFresh(n) == PutLine(<<>>, 0, n)

\* The result of the flush is not looked at: the line is put behind the others,
\* past the packet size, and past the end of the buffer if need be.  (A NUL has to
\* be left before the end: flush sends what strlen finds.)
AfterFailure(n) ==
  \/ index + n < BufferSize /\ PutLine(buffer, index, n)
  \/ /\ index + n >= BufferSize
     /\ overrun' = TRUE
     /\ UNCHANGED <<buffer, index, logged, batch>>

\* A line of length n: first the packet is flushed if it is full.  (A call with a
\* name longer than half the buffer returns at once and changes nothing.)
LogLine(n) ==
  /\ ~overrun
  /\ batch < Batch
  /\ logged < MaxLines
  /\ \/ Fits(n) /\ PutLine(buffer, index, n)
           /\ UNCHANGED <<dirty, datagrams, failures, failed>>
     \/ ~Fits(n) /\ \E rest \in BOOLEAN : Sent(rest) /\ PutLine(<<>>, 0, n)
     \/ ~Fits(n) /\ NotSent /\ AfterFailure(n)

\* jodie_logGauge, the only one of the five that vmars calls.
LogGauge(n) == LogLine(n)

\* The other four differ in the text of the line.
LogCounter(n) == LogLine(n)
LogPercent(n) == LogLine(n)
LogTiming(n) == LogLine(n)
LogStatus(n) == LogLine(n)

\* jodie_flush at the end of a batch.
FlushBatch ==
  /\ ~overrun
  /\ batch = Batch
  /\ batch' = 0
  /\ UNCHANGED <<logged, overrun>>
  /\ \/ \E rest \in BOOLEAN : Sent(rest) /\ buffer' = <<>> /\ index' = 0
     \/ NotSent /\ UNCHANGED <<buffer, index>>

Next ==
  \/ \E n \in Lengths :
       LogGauge(n) \/ LogCounter(n) \/ LogPercent(n) \/ LogTiming(n) \/ LogStatus(n)
  \/ FlushBatch

Spec == Init /\ [][Next]_vars

-----------------------------------------------------------------------------
(* Properties.                                                             *)

Longest == CHOOSE n \in Lengths : \A k \in Lengths : k <= n

\* Every variable has its type; send_index never leaves the buffer, as long as the
\* lines themselves have not.
TypeOK ==
  /\ buffer \in Seq(1 .. MaxLines)
  /\ index \in 0 .. BufferSize - 1
  /\ dirty \in BOOLEAN
  /\ logged \in 0 .. MaxLines /\ batch \in 0 .. Batch
  /\ datagrams \in Seq([lines : Seq(1 .. MaxLines), rest : BOOLEAN])
  /\ failures \in 0 .. failed /\ failed \in 0 .. MaxFailures
  /\ overrun \in BOOLEAN

\* Failed flushes neither lose nor repeat nor reorder a line: what has been
\* sent and what is buffered is what has been logged, up to the line, if there
\* is one, that runs past the end of send_buffer.  How many failures that takes
\* is what IndexBounded says.
LinesOnceInOrder ==
  FlattenSeq([i \in DOMAIN datagrams |-> datagrams[i].lines]) \o buffer
    = [k \in 1 .. logged |-> k]

\* The packet size is a limit only as long as flushes succeed: each flush that
\* failed since may have let one more line in.  And nothing but that makes a line
\* run past the end of the buffer: it takes as many failures in a row as there
\* are longest lines between the packet size and the end.
IndexBounded ==
  /\ index <= PacketSize + failures * Longest
  /\ overrun => BufferSize <= PacketSize + failures * Longest

\* The bytes nobody logged, left in a duplicated client's buffer, can reach the
\* wire in its first datagram and in no other.
RestOnlyFirst == \A i \in DOMAIN datagrams : datagrams[i].rest => i = 1

=============================================================================
