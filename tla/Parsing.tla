------------------------------ MODULE Parsing ------------------------------
(***************************************************************************)
(* The parser and the search at work on what can become of a message that  *)
(* was sent: it may be cut short, a character may be damaged, and the      *)
(* segment goes on with whatever was sent next.                            *)
(***************************************************************************)
EXTENDS FixParser, Matcher

CONSTANTS
  Sendable,    \* what may be sent: sequences of fields
  Following,   \* what may follow a message in the same segment
  Characters   \* what a damaged character may become

VARIABLES
  sent,        \* the fields of the message
  text,        \* the characters that arrive
  cut,         \* whether the message was cut short
  damaged      \* the place of the damaged character, 0 for none

vars == <<sent, text, cut, damaged>>

-----------------------------------------------------------------------------
(* How FIX writes a message.                                               *)

Digits[n \in Nat] ==
  IF n < 10 THEN <<48 + n>> ELSE Append(Digits[n \div 10], 48 + (n % 10))

FieldText(f) == Digits[f.tag] \o <<Equals>> \o f.value \o <<SOH>>

Body(fields) == FlattenSeq([i \in DOMAIN fields |-> FieldText(fields[i])])

Prelude(header, fields) == header \o Digits[Len(Body(fields))] \o <<SOH>>

\* The checksum field of what comes before it.
Trailer(s) ==
  LET c == CheckSum(s)
  IN  Field(10, <<48 + c \div 100, 48 + ((c \div 10) % 10), 48 + (c % 10)>>)

Unfinished(header, fields) == Prelude(header, fields) \o Body(fields)

Message(header, fields) ==
  Unfinished(header, fields) \o FieldText(Trailer(Unfinished(header, fields)))

TheHeader == CHOOSE h \in Headers : TRUE

\* Every message that can be sent, in full.
Written == [fields \in Sendable |-> Message(TheHeader, fields)]

Init ==
  /\ sent \in Sendable
  /\ text = Written[sent]
  /\ cut = FALSE
  /\ damaged = 0

\* Only the first n characters arrive.
CutShort(n) ==
  /\ ~cut
  /\ text = Written[sent]
  /\ text' = SubSeq(text, 1, n)
  /\ cut' = TRUE
  /\ UNCHANGED <<sent, damaged>>

\* Something follows in the same segment.
Continue(s) ==
  /\ ~cut
  /\ Len(text) = Len(Written[sent])
  /\ text' = text \o s
  /\ UNCHANGED <<sent, cut, damaged>>

\* A character of the message is damaged.
Damage(i, c) ==
  /\ damaged = 0 /\ ~cut
  /\ i \in 1 .. Len(Written[sent])
  /\ text[i] # c
  /\ text' = [text EXCEPT ![i] = c]
  /\ damaged' = i
  /\ UNCHANGED <<sent, cut>>

Next ==
  \/ \E n \in 0 .. Len(text) - 1 : CutShort(n)
  \/ \E s \in Following : Continue(s)
  \/ \E i \in DOMAIN text, c \in Characters : Damage(i, c)

Spec == Init /\ [][Next]_vars

-----------------------------------------------------------------------------
(* Properties.                                                             *)

\* A complete message is accepted, whatever follows it: the parser consumes it
\* and nothing else, and reports its fields.  One that is cut short, wherever
\* the cut is, in the BodyLength say, is too short and is not taken for another.
Framing ==
  damaged = 0 =>
    Parse(text) =
      IF cut THEN Result("tooShort", Len(text), <<>>)
      ELSE Result("ok", Len(Written[sent]),
                  Append(sent, Trailer(Unfinished(TheHeader, sent))))

\* Places the checksum guards: the body, and the checksum's own digits.
Guarded(i) ==
  LET start == Len(Prelude(TheHeader, sent))
      end == Len(Unfinished(TheHeader, sent))
  IN  i \in start + 1 .. end \/ i \in end + 4 .. end + 6

\* A damaged character makes the parser refuse the message.  When it lies in the
\* body or in the checksum's digits, exactly this message is skipped and what
\* follows it is found.  (Not guarded are the digits of BodyLength and the tag of
\* the checksum field, which the parser does not look at.)
DamageDetected ==
  /\ damaged \in 1 .. HeaderLen => Parse(text).code # "ok"
  /\ Guarded(damaged) => Parse(text) = Result("checksum", Len(Written[sent]), <<>>)

\* The search finds the first occurrence, for every piece of the text and for
\* every header.
SearchFindsFirst ==
  LET pieces == {SubSeq(text, i, i + k) : i \in 1 .. Len(text) - 3, k \in 1 .. 3}
  IN  \A p \in pieces \cup Headers : Search(p, text) = FirstOccurrence(p, text)

=============================================================================
