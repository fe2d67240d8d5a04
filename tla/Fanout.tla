------------------------------- MODULE Fanout -------------------------------
(***************************************************************************)
(* How the capture threads share out the packets: setup_socket of          *)
(* src/src/packet.c, which every thread runs for itself while packets are  *)
(* coming in already, with the fan-out groups main hands out.              *)
(*                                                                         *)
(* A packet socket takes packets from the moment it is made, of all        *)
(* interfaces until it is bound, and all those of its interface until it   *)
(* joins its group.  What it took before it had its ring is never seen,    *)
(* what is in the ring is.  A call that fails ends the thread but does not *)
(* close the socket.                                                       *)
(***************************************************************************)
EXTENDS Integers, Sequences, FiniteSets, SequencesExt

CONSTANTS
  NumInterfaces,  \* interfaces.len
  NumThreads,     \* config.num_threads, per interface
  Flows,          \* the hashes of the flows that packets belong to
  MaxPackets      \* bound: packets that arrive

\* With more interfaces the fan-out ids outgrow their half of the argument.
ASSUME ThreadsAssumption == NumInterfaces \in 1 .. 58 /\ NumThreads \in Nat \ {0}
ASSUME FlowsAssumption == Flows \subseteq Nat /\ MaxPackets \in Nat

Interfaces == 0 .. NumInterfaces - 1
Threads == Interfaces \X (1 .. NumThreads)
InterfaceOf(t) == t[1]

VARIABLES
  known,    \* the interfaces that exist under the name they were given
  pc,       \* the next call of each thread
  ring,     \* the threads whose socket has its ring
  hears,    \* the interfaces whose packets each socket takes
  group,    \* the members of each fan-out group, in the order they joined
  unlucky,  \* history: the threads a call has failed for without the code's fault
  packets   \* history: the packets that arrived and which threads took them

vars == <<known, pc, ring, hears, group, unlucky, packets>>

-----------------------------------------------------------------------------
(* The groups; their ids say by the upper half, 0, that a hash shares out.  *)

\* Faulty variant of FanoutId: one group for all interfaces.
FanoutIdShared(j) == 1111

\* main: fanout_id * (j + 1)
FanoutId(j) == 1111 * (j + 1)

GroupIds == {FanoutId(j) : j \in Interfaces}

Members == UNION {ToSet(group[g]) : g \in GroupIds}

Init ==
  /\ known \in SUBSET Interfaces
  /\ pc = [t \in Threads |-> "socket"]
  /\ ring = {}
  /\ hears = [t \in Threads |-> Interfaces]
  /\ group = [g \in GroupIds |-> <<>>]
  /\ unlucky = {}
  /\ packets = <<>>

-----------------------------------------------------------------------------
(* setup_socket, call by call.                                             *)

\* The call returns and p is next.
Goto(t, p) == pc' = [pc EXCEPT ![t] = p] /\ UNCHANGED unlucky

\* It fails for a reason of its own.
FailAnyway(t) ==
  /\ pc' = [pc EXCEPT ![t] = "gone"]
  /\ unlucky' = unlucky \cup {t}

\* socket, for the packets of all protocols and all interfaces; PACKET_VERSION.
OpenSocket(t) ==
  /\ pc[t] = "socket"
  /\ Goto(t, "ring") \/ FailAnyway(t)
  /\ UNCHANGED <<known, ring, hears, group, packets>>

\* PACKET_RX_RING and mmap.
MapRing(t) ==
  /\ pc[t] = "ring"
  /\ \/ Goto(t, "bind") /\ ring' = ring \cup {t}
     \/ FailAnyway(t) /\ UNCHANGED ring
  /\ UNCHANGED <<known, hears, group, packets>>

\* What a socket bound to t's interface hears.  if_nametoindex of a name that
\* does not exist is 0, which stands for any interface.
Heard(t) == IF InterfaceOf(t) \in known THEN {InterfaceOf(t)} ELSE Interfaces

Bind(t) ==
  /\ pc[t] = "bind"
  /\ \/ Goto(t, "fanout") /\ hears' = [hears EXCEPT ![t] = Heard(t)]
     \/ FailAnyway(t) /\ UNCHANGED hears
  /\ UNCHANGED <<known, ring, group, packets>>

\* PACKET_FANOUT.  The kernel refuses a socket whose device is another one than
\* that of the group.
JoinGroup(t) ==
  LET g == FanoutId(InterfaceOf(t))
      mayJoin == \A u \in ToSet(group[g]) : hears[u] = hears[t]
  IN  /\ pc[t] = "fanout"
      /\ \/ /\ Goto(t, IF mayJoin THEN "timestamps" ELSE "gone")
            /\ group' = IF mayJoin THEN [group EXCEPT ![g] = Append(@, t)] ELSE group
         \/ FailAnyway(t) /\ UNCHANGED group
      /\ UNCHANGED <<known, ring, hears, packets>>

\* Faulty variant of HardwareTimestamps: their failure ends the thread.
HardwareTimestampsOrFail(t) ==
  /\ pc[t] = "timestamps"
  /\ Goto(t, "polling") \/ FailAnyway(t)
  /\ UNCHANGED <<known, ring, hears, group, packets>>

\* Whether hardware timestamps can be had or not: the thread goes on to poll.
HardwareTimestamps(t) ==
  /\ pc[t] = "timestamps"
  /\ Goto(t, "polling")
  /\ UNCHANGED <<known, ring, hears, group, packets>>

SetUp(t) ==
  OpenSocket(t) \/ MapRing(t) \/ Bind(t) \/ JoinGroup(t) \/ HardwareTimestamps(t)

-----------------------------------------------------------------------------
(* Packets, as the kernel deals them out.                                  *)

\* The sockets with a ring that see the packets of interface j and are in no group.
Alone(j) == {t \in ring \ Members : j \in hears[t]}

\* The member of group g that gets flow f, if the group's device is j's.
Chosen(g, j, f) ==
  LET members == group[g]
  IN  IF members # <<>> /\ j \in hears[members[1]]
      THEN {members[(f % Len(members)) + 1]}
      ELSE {}

Takers(j, f) == Alone(j) \cup UNION {Chosen(g, j, f) : g \in GroupIds}

Settled == \A t \in Threads : pc[t] \in {"polling", "gone"}

Arrive(j, f) ==
  /\ Len(packets) < MaxPackets
  /\ packets' = Append(packets, [interface |-> j, takers |-> Takers(j, f),
                                 joined |-> Members, settled |-> Settled])
  /\ UNCHANGED <<known, pc, ring, hears, group, unlucky>>

Next ==
  \/ \E t \in Threads : SetUp(t)
  \/ \E j \in Interfaces, f \in Flows : Arrive(j, f)

Spec == Init /\ [][Next]_vars

-----------------------------------------------------------------------------
(* Properties.                                                             *)

\* The interfaces one of whose threads no call failed for by itself.
Working == {j \in Interfaces : \E i \in 1 .. NumThreads : <<j, i>> \notin unlucky}

\* Those of the threads that took packet p which are alive: it is seen once by each.
Seers(p) == {t \in p.takers : pc[t] # "gone"}

\* Once the threads are set up, each packet of an interface is seen by exactly one
\* of its threads, in spite of threads that failed, and by no thread of another
\* interface.  The exception is a misspelt interface: its threads see the packets of
\* all interfaces, in addition.
SeenOnce ==
  \A n \in DOMAIN packets :
    LET p == packets[n]
        seers(k) == {t \in Seers(p) : InterfaceOf(t) = k}
    IN  p.settled /\ p.interface \in known =>
          \A k \in Interfaces :
            Cardinality(seers(k)) =
              IF k \in Working /\ (k = p.interface \/ k \notin known) THEN 1 ELSE 0

\* From the moment a thread of an interface has joined its group no packet of the
\* interface is missed, while others are still being set up or fail.  (It may be
\* seen twice in that time, by the group and by a thread on its way into it.)
NoGap ==
  \A n \in DOMAIN packets :
    LET p == packets[n]
    IN  (\E t \in p.joined : InterfaceOf(t) = p.interface) => Seers(p) # {}

=============================================================================
