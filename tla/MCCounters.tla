---------------------------- MODULE MCCounters ----------------------------
(* A small instance of Counters for TLC: its constants are plain numbers. *)
EXTENDS Counters

=============================================================================
