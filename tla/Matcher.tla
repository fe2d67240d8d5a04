------------------------------ MODULE Matcher ------------------------------
(***************************************************************************)
(* The search of src/src/simpleboyermoore.c, with which                    *)
(* vmars_extract_fix_messages finds where messages begin.  Module          *)
(* FixExtract takes it for what FirstOccurrence says.                      *)
(***************************************************************************)
EXTENDS Integers, Sequences

\* The last place of character c in the pattern, its end left out; 0 for none.
LastPlace(pattern, c) ==
  LET places == {i \in 1 .. Len(pattern) - 1 : pattern[i] = c}
  IN  IF places = {} THEN 0 ELSE CHOOSE i \in places : \A j \in places : j <= i

\* Faulty variant of BadMatch: the table is filled one place off.
BadMatchOneMore(pattern, c) ==
  Len(pattern) - LastPlace(pattern, c) + (IF LastPlace(pattern, c) = 0 THEN 0 ELSE 1)

\* bad_match: how far to move when the window ends in c.
BadMatch(pattern, c) == Len(pattern) - LastPlace(pattern, c)

\* The pattern lies in the text with its end at place i.
EndsAt(pattern, text, i) ==
  \A k \in 1 .. Len(pattern) : text[i - Len(pattern) + k] = pattern[k]

\* boyermoore_search: where the match it finds begins, 0 for NULL.
Search(pattern, text) ==
  LET n == Len(text)
      from[i \in 1 .. n + Len(pattern)] ==
        IF i > n THEN 0
        ELSE IF EndsAt(pattern, text, i) THEN i - Len(pattern) + 1
        ELSE from[i + BadMatch(pattern, text[i])]
  IN  from[Len(pattern)]

\* Where the first occurrence begins, 0 for none.
FirstOccurrence(pattern, text) ==
  LET starts == {i \in 1 .. Len(text) - Len(pattern) + 1 :
                   EndsAt(pattern, text, i + Len(pattern) - 1)}
  IN  IF starts = {} THEN 0 ELSE CHOOSE i \in starts : \A j \in starts : i <= j

=============================================================================
