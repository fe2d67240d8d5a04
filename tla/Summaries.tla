----------------------------- MODULE Summaries -----------------------------
(***************************************************************************)
(* What a capture thread makes of the tags of a message: handle_tag and    *)
(* process_for_latency_measurement of src/src/fix.c.  The tags become the  *)
(* details, the details of a message that qualifies become a summary: the  *)
(* message type and a key that a request and its answer share.             *)
(*                                                                         *)
(* A character is its ASCII code, a value a sequence of characters, a      *)
(* field a tag number and a value.                                         *)
(***************************************************************************)
EXTENDS Integers, Sequences, SequencesExt

\* Tags of src/src/fixparser.h.
ClOrdID == 11
MsgType == 35
SecurityID == 48
SenderCompID == 49
Symbol == 55
TargetCompID == 56
QuoteID == 117
ExecType == 150
QuoteStatus == 297
UnderlyingSecurityID == 309
UnderlyingSymbol == 311

\* Message types: D, i, xr and the answers to them, 8, b, xs.
NewOrderSingle == <<68>>
MassQuote == <<105>>
TraceReq == <<120, 114>>
ExecutionReport == <<56>>
MassQuoteAck == <<98>>
TraceRsp == <<120, 115>>

Bar == 124
Plus == 43
Minus == 45
DigitChars == 48 .. 57
WhiteSpace == 9 .. 13 \cup {32}

Field(tag, value) == [tag |-> tag, value |-> value]

\* The number a sequence of digits forms; nine of them at most fit an int for sure,
\* and what more of them make in the code is not defined.
Decimal(digits) == FoldLeft(LAMBDA n, c : n * 10 + c - 48, 0, digits)

\* The first place from .. to of s where there is none of chars, to + 1 if there is
\* one of them everywhere.
StretchEnd(chars, s, from, to) ==
  LET stops == {i \in from .. to : s[i] \notin chars}
  IN  IF stops = {} THEN to + 1 ELSE CHOOSE i \in stops : \A j \in stops : i <= j

DigitsEnd(s, from, to) == StretchEnd(DigitChars, s, from, to)

\* str2int: atoi of a copy that 32 characters are enough for.  White space and one
\* sign may go before the digits.
Atoi(value) ==
  LET first == StretchEnd(WhiteSpace, value, 1, Len(value))
      signed == first <= Len(value) /\ value[first] \in {Plus, Minus}
      from == IF signed THEN first + 1 ELSE first
      number == Decimal(SubSeq(value, from, DigitsEnd(value, from, Len(value)) - 1))
  IN  IF signed /\ value[first] = Minus THEN -number ELSE number

StrToInt(value) == IF Len(value) > 31 THEN -1 ELSE Atoi(value)

-----------------------------------------------------------------------------
\* fix_details_t after memset.
NoDetails ==
  [type |-> <<>>, exec |-> <<>>, status |-> 0, id |-> <<>>, sender |-> <<>>,
   target |-> <<>>, symbol |-> <<>>, security |-> <<>>]

\* A tag replaces what an earlier one left; an ExecType is its first character.
HandleTag(d, f) ==
  CASE f.tag = MsgType /\ Len(f.value) \in {1, 2} -> [d EXCEPT !.type = f.value]
    [] f.tag = ExecType -> [d EXCEPT !.exec = SubSeq(f.value, 1, 1)]
    [] f.tag = QuoteStatus -> [d EXCEPT !.status = StrToInt(f.value)]
    [] f.tag \in {ClOrdID, QuoteID} -> [d EXCEPT !.id = f.value]
    [] f.tag = SenderCompID -> [d EXCEPT !.sender = f.value]
    [] f.tag = TargetCompID -> [d EXCEPT !.target = f.value]
    [] f.tag \in {Symbol, UnderlyingSymbol} -> [d EXCEPT !.symbol = f.value]
    [] f.tag \in {SecurityID, UnderlyingSecurityID} -> [d EXCEPT !.security = f.value]
    [] OTHER -> d

Details(fields) == FoldLeft(HandleTag, NoDetails, fields)

-----------------------------------------------------------------------------
Requests == {NewOrderSingle, MassQuote, TraceReq}
Answers == {ExecutionReport, MassQuoteAck, TraceRsp}

\* Faulty variant of ShouldProcess: every report counts.
ShouldProcessAny(d) == d.type \in Requests \cup Answers

\* An execution report must say new; an acknowledgement must not say rejected.
ShouldProcess(d) ==
  \/ d.type \in Requests \cup {TraceRsp}
  \/ d.type = ExecutionReport /\ d.exec = <<48>>
  \/ d.type = MassQuoteAck /\ d.status = 0

\* Faulty variant of RemoteThenLocal: an answer is not turned round.
SenderFirst(d) == <<d.sender, d.target>>

\* The remote party sends requests and receives the answers.
RemoteThenLocal(d) ==
  IF d.type \in Requests THEN <<d.sender, d.target>> ELSE <<d.target, d.sender>>

\* The symbol, or the security id of a message that has none.
Instrument(d) == IF d.symbol # <<>> THEN d.symbol ELSE d.security

Key(d) ==
  RemoteThenLocal(d)[1] \o <<Bar>> \o RemoteThenLocal(d)[2] \o <<Bar>>
    \o d.id \o <<Bar>> \o Instrument(d)

=============================================================================
