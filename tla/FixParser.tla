----------------------------- MODULE FixParser -----------------------------
(***************************************************************************)
(* vmars_fix_parse_msg of src/src/fixparser.c: what the parser makes of    *)
(* the characters it is given, as a function.  Module FixExtract takes its *)
(* verdicts for granted (Outcomes); here they follow from the loops over   *)
(* BodyLength, checksum and tags.  The options, which vmars does not use,  *)
(* are left out.                                                           *)
(***************************************************************************)
EXTENDS Summaries

CONSTANTS
  Headers,     \* INITIAL_HEADER_42 and INITIAL_HEADER_44
  HeaderLen    \* INITIAL_HEADER_LEN

ASSUME HeadersAssumption ==
  HeaderLen \in Nat \ {0} /\ \A h \in Headers : h \in Seq(Nat) /\ Len(h) = HeaderLen

SOH == 1
Equals == 61
CheckSumLen == 7

Result(code, consumed, fields) ==
  [code |-> code, consumed |-> consumed, fields |-> fields]

\* calculate_checksum
CheckSum(s) == FoldLeft(LAMBDA sum, c : sum + c, 0, s) % 256

\* supplied_checksum: three characters from place p on, digits or not.
SuppliedCheckSum(s, p) == (s[p] - 48) * 100 + (s[p + 1] - 48) * 10 + (s[p + 2] - 48)

\* Where the value that begins at p ends: its SOH, 0 when there is none.
ValueEnd(s, p) ==
  LET ends == {i \in p .. Len(s) : s[i] = SOH}
  IN  IF ends = {} THEN 0 ELSE CHOOSE i \in ends : \A j \in ends : i <= j

\* The loop over tags and values from place p to the end of s.
FieldsFrom(s, p) ==
  LET loop[i \in 1 .. Len(s) + 1] ==
        LET eq == DigitsEnd(s, i, Len(s))
            end == ValueEnd(s, eq + 1)
            rest == loop[end + 1]
        IN  IF i > Len(s)
              THEN Result("ok", Len(s), <<>>)
            ELSE IF eq <= Len(s) /\ s[eq] # Equals
              THEN Result("tagInvalid", Len(s), <<>>)
            ELSE IF end = 0
              THEN Result("emptyValue", Len(s), <<>>)
            ELSE [rest EXCEPT !.fields =
                    <<Field(Decimal(SubSeq(s, i, eq - 1)), SubSeq(s, eq + 1, end - 1))>> \o @]
  IN  loop[p]

\* Faulty variant of DoesNotFit: a message that just fits is refused.
DoesNotFitExactly(length, n, position) ==
  length = 0 \/ length >= (n - position) - CheckSumLen

\* BodyLength says that more characters are to come, or nothing.
DoesNotFit(length, n, position) ==
  length = 0 \/ length > (n - position) - CheckSumLen

\* Faulty variant of WrongCheckSum: what follows the message is dropped with it.
WrongCheckSumDropsAll(s, len) == Result("checksum", Len(s), <<>>)

\* The message is refused, and only the message.
WrongCheckSum(s, len) == Result("checksum", len, <<>>)

\* vmars_fix_parse_msg; position counts the characters before the body.
Parse(s) ==
  LET n == Len(s)
      stop == DigitsEnd(s, HeaderLen + 1, n)
      position == IF stop > n THEN n ELSE stop
      length == Decimal(SubSeq(s, HeaderLen + 1, stop - 1))
      len == length + position + CheckSumLen
  IN  IF n < HeaderLen
        THEN Result("tooShort", n, <<>>)
      ELSE IF SubSeq(s, 1, HeaderLen) \notin Headers
        THEN Result("invalidType", n, <<>>)
      ELSE IF stop <= n /\ s[stop] # SOH
        THEN Result("tagInvalid", n, <<>>)
      ELSE IF DoesNotFit(length, n, position)
        THEN Result("tooShort", n, <<>>)
      ELSE IF CheckSum(SubSeq(s, 1, position + length)) # SuppliedCheckSum(s, position + length + 4)
        THEN WrongCheckSum(s, len)
      ELSE FieldsFrom(SubSeq(s, 1, len), position + 1)

=============================================================================
