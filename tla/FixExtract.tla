---------------------------- MODULE FixExtract ----------------------------
(***************************************************************************)
(* Finding FIX messages in TCP payloads: vmars_extract_fix_messages and    *)
(* the fragment map of src/src/fix.c, the accept or reject decision of     *)
(* src/src/fixparser.c and the search of src/src/simpleboyermoore.c, run   *)
(* by one capture thread over the streams it captures.                     *)
(*                                                                         *)
(* Data.  A stream is the concatenation of its messages; a message is a    *)
(* run of cells: the pattern searched for ("8=FIX.4."), the rest of the    *)
(* fixed header, a cell for BodyLength, then body and checksum.  A header  *)
(* cell is the same in every message, any other cell tells its message     *)
(* apart, and no body contains the pattern.  How far the parser goes       *)
(* depends on the BodyLength it reads, which may be wrong.  TCP hands the  *)
(* stream over in segments cut anywhere; a segment may never be seen       *)
(* (packet loss in the capture) or be sent again.                          *)
(*                                                                         *)
(* The handler runs to its end before the thread handles another packet:   *)
(* Receive is its part before the loop, ExtractNext one iteration, Finish  *)
(* its part after the loop.  Where it leaves the memory it may use, it may *)
(* read on (ExtractNext) or do anything: Undefined, the last step.         *)
(***************************************************************************)
EXTENDS Integers, Sequences, FiniteSets, SequencesExt

CONSTANTS
  Streams,      \* the ipv4_stream_t keys
  Sent,         \* the messages of each stream, in order
  MsgLen,       \* the length of each message, in cells
  Stated,       \* the length its BodyLength states, 0 when that is no number
  Damaged,      \* the messages whose checksum is wrong
  PatternLen,   \* matcher->len
  HeaderLen,    \* INITIAL_HEADER_LEN
  Capacity,     \* fragment_t.capacity
  Behind,       \* cells the memory behind a payload may hold
  MaxSegment,   \* bound: cells of a segment
  Jumps,        \* bound: streams and how many of their cells are lost or sent again
  MaxJumps      \* bound: segments lost or sent again

ASSUME LengthsAssumption ==
  /\ PatternLen \in Nat \ {0} /\ HeaderLen \in Nat /\ PatternLen < HeaderLen
  /\ \A m \in DOMAIN MsgLen : m \in Nat \ {0} /\ MsgLen[m] \in Nat
  \* After the header come at least a digit and the end of BodyLength, a
  \* character of body and the 7 of the checksum: more than the pattern's 8.
  /\ \A m \in DOMAIN MsgLen :
        MsgLen[m] > HeaderLen + 1 /\ MsgLen[m] >= HeaderLen + PatternLen
ASSUME StatedAssumption ==
  Stated \in [DOMAIN MsgLen -> {0} \cup {n \in Nat : n > HeaderLen + 1}]
ASSUME SentAssumption ==
  /\ Sent \in [Streams -> Seq(DOMAIN MsgLen)]
  /\ Damaged \subseteq DOMAIN MsgLen
ASSUME SegmentAssumption ==
  /\ Capacity \in Nat /\ PatternLen <= Capacity
  /\ Behind \subseteq ({0} \cup DOMAIN MsgLen) \X Nat
  /\ MaxSegment \in Nat /\ Jumps \subseteq Streams \X (Nat \ {0}) /\ MaxJumps \in Nat

VARIABLES
  wire,       \* cells of each stream that have gone by
  fragment,   \* the fragment kept for each stream, <<>> when the map has none
  pc,         \* "idle" between packets, "loop" in the handler, "undefined"
  stream,     \* the packet's stream
  data,       \* the packet's payload
  curr,       \* curr_fix_messsage as an index into data, 0 for NULL
  remaining,  \* buf_remaining
  beyond,     \* what the loop takes for payload behind the payload's end
  reported,   \* the messages handed to process_for_latency_measurement
  counters,   \* the error counters of the capture thread
  jumps,      \* segments lost or sent again
  resent,     \* history: streams of which a segment was sent again
  impaired    \* history: messages whose cells did not come one after the other
              \* or whose pattern was cut, see Receive, Lose and Rewind

packet == <<pc, stream, data, curr, remaining, beyond>>
vars == <<wire, fragment, packet, reported, counters, jumps, resent, impaired>>

-----------------------------------------------------------------------------
(* Streams and what the parser makes of a piece of one.                    *)

Messages == DOMAIN MsgLen
Cells == ({0} \cup Messages) \X Nat

\* The messages with a wrong BodyLength, and those for which it is too small.
Misstated == {m \in Messages : Stated[m] # MsgLen[m]}
Understated == {m \in Messages : Stated[m] # 0 /\ Stated[m] < MsgLen[m]}

CellOf(m, k) == IF k <= HeaderLen THEN <<0, k>> ELSE <<m, k>>

Body(m) == [k \in 1 .. MsgLen[m] |-> CellOf(m, k)]

\* A stream's cells, and the positions before and at its i-th message's end.
Bodies == [s \in Streams |-> [i \in DOMAIN Sent[s] |-> Body(Sent[s][i])]]
Text == [s \in Streams |-> FlattenSeq(Bodies[s])]
Before(s, i) == Len(FlattenSeq(SubSeq(Bodies[s], 1, i - 1)))
EndOf(s, i) == Before(s, i) + MsgLen[Sent[s][i]]

\* boyermoore_search over cells from .. to of d: the first match, 0 for NULL.
Search(d, from, to) ==
  LET matches == {p \in from .. to - PatternLen + 1 :
                    \A k \in 1 .. PatternLen : d[p + k - 1] = CellOf(0, k)}
  IN  IF matches = {} THEN 0 ELSE CHOOSE p \in matches : \A q \in matches : p <= q

Result(code, consumed, msg) == [code |-> code, consumed |-> consumed, msg |-> msg]

\* A message the parser accepts whose cells are not those of one message.
Mixture == 0

\* Faulty variant of TooShort: one cell too many is reported as consumed.
TooShortOneMore(s) == Result("tooShort", Len(s) + 1, Mixture)

\* A message that is too short consumes everything it was given.
TooShort(s) == Result("tooShort", Len(s), Mixture)

\* What vmars_fix_parse_msg can return for s.  What is accepted or rejected ends
\* where the BodyLength says.  Cells that are not one message of the stream may
\* or may not have a matching checksum (a byte) and tags, and what follows a
\* header may not be a BodyLength: then every outcome counts.
Outcomes(s) ==
  LET n == Len(s)
      id == s[HeaderLen + 1][1]
      len == Stated[id]
  IN  IF n < HeaderLen
        THEN {TooShort(s)}
      ELSE IF \E k \in 1 .. HeaderLen : s[k] # CellOf(0, k)
        THEN {Result("invalidType", n, Mixture)}
      ELSE IF n = HeaderLen
        THEN {TooShort(s)}
      ELSE IF id = 0 \/ s[HeaderLen + 1][2] # HeaderLen + 1
        THEN {TooShort(s)} \cup
             {Result(code, consumed, Mixture) :
                code \in {"checksum", "tagInvalid", "ok"}, consumed \in HeaderLen + 1 .. n}
      ELSE IF len = 0
        THEN {Result("tagInvalid", n, Mixture)}
      ELSE IF n < len
        THEN {TooShort(s)}
      ELSE IF SubSeq(s, 1, len) # Body(id)
        THEN {Result(code, len, Mixture) : code \in {"checksum", "tagInvalid", "ok"}}
      ELSE IF id \in Damaged
        THEN {Result("checksum", len, id)}
      ELSE {Result("ok", len, id)}

-----------------------------------------------------------------------------
Init ==
  /\ wire = [s \in Streams |-> 0]
  /\ fragment = [s \in Streams |-> <<>>]
  /\ pc = "idle" /\ stream \in Streams /\ data = <<>> /\ curr = 0 /\ remaining = 0
  /\ beyond = <<>>
  /\ reported = [s \in Streams |-> <<>>]
  /\ counters = [corrupt |-> 0, checksum |-> 0, parsing |-> 0]
  /\ jumps = 0 /\ resent = {}
  /\ impaired = {}

\* Faulty variant of Counted: an unknown message type is not an error.
CountedTagsOnly(code) ==
  CASE code = "checksum" -> [counters EXCEPT !.checksum = @ + 1]
    [] code = "tagInvalid" -> [counters EXCEPT !.parsing = @ + 1]
    [] OTHER -> counters

\* The counter try_parse_fix_message adds to.
Counted(code) ==
  CASE code = "checksum" -> [counters EXCEPT !.checksum = @ + 1]
    [] code \in {"tagInvalid", "invalidType"} -> [counters EXCEPT !.parsing = @ + 1]
    [] OTHER -> counters

\* process_for_latency_measurement is called for an accepted message.
Report(s, r) ==
  reported' = IF r.code = "ok" THEN [reported EXCEPT ![s] = Append(@, r.msg)] ELSE reported

-----------------------------------------------------------------------------
(* A packet arrives.                                                       *)

\* Cells from .. of the stream go by and reach the capture thread.
Payload(s, n) == SubSeq(Text[s], wire[s] + 1, wire[s] + n)

\* The messages of stream s that begin before position q and end after position p,
\* those whose pattern a cut at position p divides, and those that a payload from
\* p to q ends in when the BodyLength of one before them in it is too small.
Touched(s, p, q) ==
  {Sent[s][i] : i \in {j \in DOMAIN Sent[s] :
                         Before(s, j) < q /\ p < EndOf(s, j)}}
CutAt(s, p) ==
  {Sent[s][i] : i \in {j \in DOMAIN Sent[s] :
                         Before(s, j) < p /\ p < Before(s, j) + PatternLen}}
Overtaken(s, p, q) ==
  {Sent[s][i] : i \in {j \in DOMAIN Sent[s] :
      /\ Before(s, j) < q /\ q < EndOf(s, j)
      /\ \E k \in DOMAIN Sent[s] : /\ Sent[s][k] \in Understated
                                  /\ p <= Before(s, k) /\ Before(s, k) < Before(s, j)}}

\* get_fragment returns one.
HasFragment(s) == fragment[s] # <<>>

\* The fragment buffer has room for the piece; put_fragment does not ask.
Holds(piece) == Len(piece) <= Capacity

\* put_fragment: whatever the map holds for the stream is overwritten.
PutFragment(s, piece) == fragment' = [fragment EXCEPT ![s] = piece]

\* remove_fragment
RemoveFragment(s) == fragment' = [fragment EXCEPT ![s] = <<>>]

\* The fragment has grown by the prefix; it is removed unless it is too short.
GrowFragment(s, prefix, code) ==
  IF code = "tooShort"
  THEN PutFragment(s, fragment[s] \o prefix)
  ELSE RemoveFragment(s)

\* fragment->len + fragment_len < fragment->capacity
HasCapacity(s, prefix) == Len(fragment[s]) + Len(prefix) < Capacity

\* The payload does not begin with a message and the map holds no fragment: it
\* is kept when it is shorter than the pattern, counted as corrupt otherwise.
StartFragment(s, d) ==
  /\ ~HasFragment(s)
  /\ UNCHANGED reported
  /\ \/ /\ Len(d) < PatternLen
        /\ PutFragment(s, d)
        /\ UNCHANGED counters
     \/ /\ Len(d) >= PatternLen
        /\ counters' = [counters EXCEPT !.corrupt = @ + 1]
        /\ UNCHANGED fragment

\* Faulty variant of ContinueFragment: the map is not keyed by the stream.
ContinueAnyFragment(s, prefix) ==
  \E t \in Streams :
    /\ HasFragment(t) /\ HasCapacity(t, prefix)
    /\ \E r \in Outcomes(fragment[t] \o prefix) :
          /\ Report(s, r)
          /\ counters' = Counted(r.code)
          /\ GrowFragment(t, prefix, r.code)

\* Faulty variant of ContinueFragment: the fragment is never removed.
ContinueAndKeep(s, prefix) ==
  /\ HasFragment(s) /\ HasCapacity(s, prefix)
  /\ \E r \in Outcomes(fragment[s] \o prefix) :
        /\ Report(s, r)
        /\ counters' = Counted(r.code)
        /\ GrowFragment(s, prefix, "tooShort")

\* The cells before the first message continue the fragment the map holds; the
\* fragment is parsed and kept only when it is still too short.
ContinueFragment(s, prefix) ==
  /\ HasFragment(s) /\ HasCapacity(s, prefix)
  /\ \E r \in Outcomes(fragment[s] \o prefix) :
        /\ Report(s, r)
        /\ counters' = Counted(r.code)
        /\ GrowFragment(s, prefix, r.code)

\* The fragment would not fit: the cells before the first message are skipped.
SkipPrefix(s, prefix) ==
  /\ HasFragment(s) /\ ~HasCapacity(s, prefix)
  /\ UNCHANGED <<fragment, reported, counters>>

\* Faulty variant of AfterPrefix: the prefix still counts.
AfterNothing(n, prefix) == n

\* buf_remaining once the cells before the first message are dealt with.
AfterPrefix(n, prefix) == n - Len(prefix)

\* The handler up to its loop: the first message is searched, what comes
\* before it belongs to a fragment.
Receive(s, n) ==
  LET d == Payload(s, n)
      first == Search(d, 1, n)
      prefix == IF first = 0 THEN d ELSE SubSeq(d, 1, first - 1)
  IN  /\ pc = "idle"
      /\ wire[s] + n <= Len(Text[s])
      /\ pc' = "loop" /\ stream' = s /\ data' = d
      /\ curr' = first
      /\ remaining' = AfterPrefix(n, prefix) /\ beyond' = <<>>
      /\ \/ first = 1 /\ UNCHANGED <<fragment, reported, counters>>
         \/ first # 1 /\ StartFragment(s, d)
         \/ first # 1 /\ ContinueFragment(s, prefix)
         \/ first # 1 /\ SkipPrefix(s, prefix)
      /\ wire' = [wire EXCEPT ![s] = @ + n]
      /\ impaired' = impaired \cup CutAt(s, wire[s] + n)
                              \cup Overtaken(s, wire[s], wire[s] + n)
      /\ UNCHANGED <<jumps, resent>>

\* The segment goes by unseen.
Lose(s, n) ==
  /\ pc = "idle"
  /\ jumps < MaxJumps
  /\ wire[s] + n <= Len(Text[s])
  /\ wire' = [wire EXCEPT ![s] = @ + n]
  /\ jumps' = jumps + 1
  /\ impaired' = impaired \cup Touched(s, wire[s], wire[s] + n)
  /\ UNCHANGED <<fragment, packet, reported, counters, resent>>

\* The stream's last n cells are sent again; the handler looks at no sequence number.
Rewind(s, n) ==
  /\ pc = "idle"
  /\ jumps < MaxJumps
  /\ n <= wire[s]
  /\ wire' = [wire EXCEPT ![s] = @ - n]
  /\ jumps' = jumps + 1
  /\ resent' = resent \cup {s}
  /\ impaired' = impaired \cup Touched(s, wire[s] - n, wire[s] - n)
  /\ UNCHANGED <<fragment, packet, reported, counters>>

-----------------------------------------------------------------------------
(* The loop.                                                               *)

\* What the loop takes for the payload.
Memory == data \o beyond

\* Where the message after curr begins, 0 for NULL.
NextMessage ==
  IF remaining > PatternLen
  THEN Search(Memory, curr + PatternLen, curr + remaining - 1)
  ELSE 0

\* The cells up to the next message, which are parsed.
Parsed ==
  LET next == NextMessage
  IN  SubSeq(Memory, curr, (IF next = 0 THEN curr + remaining ELSE next) - 1)

\* The loop goes on at next behind a message that consumed less than its cells:
\* buf_remaining counts as many cells more, which lie behind the payload.
ReadBeyond(next, n) ==
  IF next = 0 THEN beyond' = <<>>
  ELSE \E cells \in [1 .. n -> Behind] : beyond' = beyond \o cells

\* Faulty variant of KeepTooShort: a fragment in the map is not overwritten.
KeepTooShortIfNone(r, piece) ==
  IF r.code = "tooShort" /\ fragment[stream] = <<>>
  THEN PutFragment(stream, piece)
  ELSE UNCHANGED fragment

\* A message that is too short becomes the stream's fragment.
KeepTooShort(r, piece) ==
  IF r.code = "tooShort"
  THEN PutFragment(stream, piece)
  ELSE UNCHANGED fragment

\* One iteration: the cells up to the next message are parsed.
ExtractNext ==
  /\ pc = "loop"
  /\ curr # 0
  /\ \E r \in Outcomes(Parsed) :
        /\ r.code = "tooShort" => Holds(Parsed)
        /\ Report(stream, r)
        /\ counters' = Counted(r.code)
        /\ remaining' = remaining - r.consumed
        /\ KeepTooShort(r, Parsed)
        /\ ReadBeyond(NextMessage, Len(Parsed) - r.consumed)
  /\ curr' = NextMessage
  /\ UNCHANGED <<wire, pc, stream, data, jumps, resent, impaired>>

\* What the last message did not consume.
Leftover == SubSeq(data, Len(data) - remaining + 1, Len(data))

\* It becomes the stream's fragment.
Finish ==
  /\ pc = "loop"
  /\ curr = 0
  /\ IF remaining > 0
     THEN Holds(Leftover) /\ PutFragment(stream, Leftover)
     ELSE UNCHANGED fragment
  /\ pc' = "idle" /\ data' = <<>> /\ remaining' = 0
  /\ UNCHANGED <<wire, stream, curr, beyond, reported, counters, jumps, resent, impaired>>

\* The loop reads behind the payload, or put_fragment writes behind its buffer:
\* then the program may do anything.
Undefined ==
  /\ pc = "loop"
  /\ \/ beyond # <<>>
     \/ /\ curr # 0 => TooShort(Parsed) \in Outcomes(Parsed)
        /\ ~Holds(IF curr = 0 THEN Leftover ELSE Parsed)
  /\ pc' = "undefined"
  /\ UNCHANGED <<wire, fragment, stream, data, curr, remaining, beyond, reported,
                 counters, jumps, resent, impaired>>

Next ==
  \/ \E s \in Streams, n \in 1 .. MaxSegment : Receive(s, n)
  \/ \E jump \in Jumps : Lose(jump[1], jump[2]) \/ Rewind(jump[1], jump[2])
  \/ ExtractNext
  \/ Finish
  \/ Undefined

Spec == Init /\ [][Next]_vars

-----------------------------------------------------------------------------
(* Properties.                                                             *)

\* Every variable has its type.
TypeOK ==
  /\ wire \in [Streams -> Nat]
  /\ fragment \in [Streams -> Seq(Cells)]
  /\ pc \in {"idle", "loop", "undefined"} /\ stream \in Streams
  /\ data \in Seq(Cells) /\ beyond \in Seq(Cells)
  /\ curr \in Nat /\ remaining \in Nat
  /\ reported \in [Streams -> Seq({Mixture} \cup Messages)]
  /\ counters \in [{"corrupt", "checksum", "parsing"} -> Nat]
  /\ jumps \in 0 .. MaxJumps /\ resent \subseteq Streams
  /\ impaired \subseteq Messages

\* A message with a wrong BodyLength has begun on the stream.
Misled(s) ==
  \E i \in DOMAIN Sent[s] : Sent[s][i] \in Misstated /\ Before(s, i) < wire[s]

\* The stream came in its order, and every BodyLength in it is right.
Orderly(s) == s \notin resent /\ ~Misled(s)

\* The payload holds, before the current message, the pattern of one whose
\* BodyLength is too small.
Astray ==
  LET start == wire[stream] - Len(data)
  IN  \E i \in DOMAIN Sent[stream] :
        /\ Sent[stream][i] \in Understated
        /\ start <= Before(stream, i)
        /\ Before(stream, i) + PatternLen <= wire[stream]
        /\ curr = 0 \/ Before(stream, i) - start + 1 < curr

\* buf_remaining counts exactly the cells from the current message to the end
\* of the payload, so the next search never leaves the payload, until the loop is
\* past a message whose BodyLength is too small: no other wrong BodyLength, wrong
\* checksum, loss or leftover fragment brings it out of step.
RemainingExact ==
  pc = "loop" /\ curr # 0 /\ ~Astray => remaining = Len(data) - curr + 1

\* While a stream comes in its order and every BodyLength in it is right, its
\* messages are reported at most once and in their order, whatever is lost, and
\* whatever the other streams carry.
InOrderOnce ==
  \A s \in Streams : Orderly(s) =>
    \A i, j \in DOMAIN reported[s] :
       i < j /\ reported[s][i] # Mixture /\ reported[s][j] # Mixture =>
         \E a, b \in DOMAIN Sent[s] :
            a < b /\ Sent[s][a] = reported[s][i] /\ Sent[s][b] = reported[s][j]

\* The fragment buffer has room for the message and the cut pattern of the next.
FitsFragment(m) == MsgLen[m] + PatternLen <= Capacity

\* Every message of s fits: put_fragment and line 447 never leave anything out.
AllFit(s) == \A m \in ToSet(Sent[s]) : FitsFragment(m)

\* While a stream comes in its order and every BodyLength in it is right, what is
\* reported for it is one of its messages: fragments are never completed with
\* another stream's cells.  Cells of the stream that do not belong together are
\* taken for a message only after a segment was lost or a message too long for
\* the fragment buffer was skipped in part.
NoPhantom ==
  \A s \in Streams : Orderly(s) =>
    ToSet(reported[s])
      \subseteq (ToSet(Sent[s]) \ Damaged)
                  \cup (IF jumps = 0 /\ AllFit(s) THEN {} ELSE {Mixture})

\* The messages of a stream that have gone by.
Passed(s) == {Sent[s][i] : i \in {j \in DOMAIN Sent[s] : EndOf(s, j) <= wire[s]}}

\* Once all its cells have gone by, a sound message whose pattern arrived in one
\* piece has been reported, wherever the rest of it was split, whatever was lost,
\* sent again or left over before it, and whatever BodyLength the others state;
\* unless it was cut by the end of a payload in which a message with too small a
\* BodyLength begins before it: cells behind the payload are then taken for its.
UncutPatternReported ==
  pc = "idle" =>
    \A s \in Streams : \A m \in Passed(s) \ (Damaged \cup Misstated \cup impaired) :
      FitsFragment(m) => m \in ToSet(reported[s])

\* What the tests expect of any split of a stream: every message is reported.
EveryMessageReported ==
  pc = "idle" =>
    \A s \in Streams : Passed(s) \ Damaged \subseteq ToSet(reported[s])

\* The fragment buffer has room for the message and the cut pattern of the next
\* behind a fragment that belongs to neither: one never grows to HeaderLen cells.
FitsBehindFragment(m) ==
  (HeaderLen - 1) + MsgLen[m] + (PatternLen - 1) < Capacity

\* A message that is missed leaves a mark in the counters of the capture thread:
\* a corrupt message, a wrong checksum or a parsing error, the last of which no
\* report shows.  This holds while no segment is lost or sent again, for a stream
\* whose BodyLengths are right and whose messages all fit the fragment buffer:
\* what is skipped otherwise is not counted anywhere.
MissesCounted ==
  pc = "idle" /\ jumps = 0 =>
    \A s \in Streams :
      Orderly(s) /\ (\A m \in ToSet(Sent[s]) : FitsBehindFragment(m)) =>
        Cardinality(Passed(s) \ ToSet(reported[s]))
          <= counters.corrupt + counters.checksum + counters.parsing

=============================================================================
