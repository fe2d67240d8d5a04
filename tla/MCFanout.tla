------------------------------ MODULE MCFanout ------------------------------
(* A small instance of Fanout for TLC. *)
EXTENDS Fanout

TwoFlows == {0, 1}

=============================================================================
