----------------------------- MODULE MCSpscRb -----------------------------
(* Small instances of SpscRb for TLC. *)
EXTENDS SpscRb

CONSTANTS a, b   \* two values a body cell can hold

MCData == {a, b}

\* Bodies of one, two and three cells with different contents, one that never
\* fits beside its header and one that is longer than the buffer.
MCPayloads ==
  {<<a>>, <<b, b>>, <<a, b, a>>,
   [i \in 1 .. Capacity |-> a], [i \in 1 .. Capacity + 1 |-> b]}

=============================================================================
