------------------------------ MODULE MCJodie ------------------------------
(* A small instance of Jodie for TLC. *)
EXTENDS Jodie

\* Short and long lines: two to four of them fill a packet.
MCLengths == {2, 3}

=============================================================================
