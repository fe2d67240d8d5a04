---------------------------- MODULE RecordQueue ----------------------------
(***************************************************************************)
(* What the ring buffer of src/src/spsc_rb.c promises its two users, with  *)
(* no buffer, no positions and no threads: a first-in first-out queue of   *)
(* records whose total size, headers included, never exceeds the capacity. *)
(* The capture thread appends a record in one step, the latency handler    *)
(* takes the oldest one in one step and receives exactly what was          *)
(* appended.  Module SpscRb is shown to implement this specification.      *)
(***************************************************************************)
EXTENDS Integers, Sequences

CONSTANTS
  Capacity,   \* size of the buffer, in cells
  Header,     \* sizeof(vmars_rb_record_t), in cells
  Payloads    \* the record bodies the producer may publish, each a sequence

VARIABLES
  queue,      \* the published records that are not released yet, oldest first
  used,       \* the cells those records occupy
  delivered   \* the record released last, <<>> before the first one

vars == <<queue, used, delivered>>

Size(m) == Header + Len(m)

Init ==
  /\ queue = <<>>
  /\ used = 0
  /\ delivered = <<>>

Put(m) ==
  /\ used + Size(m) <= Capacity
  /\ queue' = Append(queue, m)
  /\ used' = used + Size(m)
  /\ UNCHANGED delivered

Take ==
  /\ queue # <<>>
  /\ delivered' = Head(queue)
  /\ queue' = Tail(queue)
  /\ used' = used - Size(Head(queue))

Next == (\E m \in Payloads : Put(m)) \/ Take

Spec == Init /\ [][Next]_vars

=============================================================================
