--------------------------- MODULE MCCaptureRing ---------------------------
(* A small instance of CaptureRing for TLC. *)
EXTENDS CaptureRing

Packet(ip, source, dest, length) ==
  [ip |-> ip, source |-> source, dest |-> dest, length |-> length]

\* A response, an acknowledgement without payload, somebody else's segment.
MCPackets ==
  {Packet(TRUE, 1, 5, 2), Packet(TRUE, 5, 1, 0), Packet(TRUE, 5, 6, 2)}

=============================================================================
