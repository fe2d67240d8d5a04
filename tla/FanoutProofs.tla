---------------------------- MODULE FanoutProofs ----------------------------
(***************************************************************************)
(* Proofs about the fan-out groups, for any number of interfaces and       *)
(* threads and whichever calls of setup_socket fail.                       *)
(*                                                                         *)
(* The argument: a thread comes to its group with its socket bound the way *)
(* all the threads of its interface bind theirs (Bound), so the kernel     *)
(* never refuses it, and only a call that failed by itself ends a thread   *)
(* (Fallen).  A group has therefore exactly the threads that are through   *)
(* (Grouped), and stays so once nothing moves, which is when the packets   *)
(* are counted (Served, Final).                                            *)
(***************************************************************************)
EXTENDS Fanout, FiniteSetTheorems, TLAPS

Calls == {"socket", "ring", "bind", "fanout", "timestamps", "polling", "gone"}
Through == {"timestamps", "polling"}
Packets == [interface : Interfaces, takers : SUBSET Threads, joined : SUBSET Threads,
            settled : BOOLEAN]

Types ==
  /\ known \subseteq Interfaces
  /\ pc \in [Threads -> Calls]
  /\ ring \subseteq Threads
  /\ hears \in [Threads -> SUBSET Interfaces]
  /\ group \in [GroupIds -> Seq(Threads)]
  /\ unlucky \subseteq Threads
  /\ packets \in Seq(Packets)

\* A thread that is bound hears what its interface's name stands for.
Bound == \A t \in Threads : pc[t] \in {"fanout"} \cup Through => hears[t] = Heard(t)

\* The group of an interface has the threads of the interface that are through.
Grouped ==
  \A j \in Interfaces :
    ToSet(group[FanoutId(j)]) = {t \in Threads : InterfaceOf(t) = j /\ pc[t] \in Through}

\* Only a call that failed by itself has ended a thread.
Fallen == \A t \in Threads : pc[t] = "gone" <=> t \in unlucky

\* A packet of an interface with a thread in its group went to a thread that is
\* through.
Served ==
  \A n \in DOMAIN packets :
    (\E t \in packets[n].joined : InterfaceOf(t) = packets[n].interface) =>
      \E t \in packets[n].takers : pc[t] \in Through

\* Nothing has changed since a packet that came when all were set up.
Final ==
  \A n \in DOMAIN packets :
    packets[n].settled =>
      /\ Settled
      /\ \E f \in Flows : packets[n].takers = Takers(packets[n].interface, f)

\* The inductive invariant.
IndInv == Types /\ Bound /\ Grouped /\ Fallen /\ Served /\ Final

-----------------------------------------------------------------------------
(* Ids, threads and sequences.                                             *)

\* Every interface has a group of its own.
LEMMA IdsApart ==
  /\ NumInterfaces \in Nat /\ Interfaces \subseteq Nat
  /\ \A j \in Interfaces : FanoutId(j) \in GroupIds
  /\ \A g \in GroupIds : \E j \in Interfaces : g = FanoutId(j)
  /\ \A j, k \in Interfaces : FanoutId(j) = FanoutId(k) => j = k
<1>1. NumInterfaces \in Nat
  BY ThreadsAssumption
<1>2. Interfaces \subseteq Nat
  BY <1>1 DEF Interfaces
<1>3. \A j, k \in Nat : 1111 * (j + 1) = 1111 * (k + 1) => j = k
  OBVIOUS
<1> QED
  BY <1>1, <1>2, <1>3 DEF GroupIds, FanoutId

LEMMA InterfaceType == \A t \in Threads : InterfaceOf(t) \in Interfaces
BY DEF Threads, InterfaceOf

LEMMA ToSetGrows ==
  ASSUME NEW S, NEW s \in Seq(S), NEW x \in S
  PROVE  /\ Append(s, x) \in Seq(S)
         /\ ToSet(Append(s, x)) = ToSet(s) \cup {x}
<1>1. /\ Append(s, x) \in Seq(S) /\ Len(Append(s, x)) = Len(s) + 1
      /\ \A i \in 1 .. Len(s) : Append(s, x)[i] = s[i]
      /\ Append(s, x)[Len(s) + 1] = x /\ Len(s) \in Nat
  OBVIOUS
<1>2. /\ ToSet(s) = {s[i] : i \in 1 .. Len(s)}
      /\ ToSet(Append(s, x)) = {Append(s, x)[i] : i \in 1 .. Len(s) + 1}
  BY <1>1 DEF ToSet
<1>3. 1 .. Len(s) + 1 = 1 .. Len(s) \cup {Len(s) + 1}
  BY <1>1
<1> QED
  BY <1>1, <1>2, <1>3

\* What is taken from a sequence at an index modulo its length is one of it.
LEMMA TakenFrom ==
  ASSUME NEW S, NEW s \in Seq(S), s # <<>>, NEW f \in Nat
  PROVE  s[1] \in ToSet(s) /\ s[(f % Len(s)) + 1] \in ToSet(s)
<1>1. Len(s) \in Nat /\ Len(s) # 0
  OBVIOUS
<1>2. f % Len(s) \in 0 .. Len(s) - 1
  BY <1>1
<1>3. 1 \in 1 .. Len(s) /\ (f % Len(s)) + 1 \in 1 .. Len(s)
  BY <1>1, <1>2
<1> QED
  BY <1>3 DEF ToSet

LEMMA GroupType ==
  ASSUME Types, NEW j \in Interfaces
  PROVE  group[FanoutId(j)] \in Seq(Threads)
BY IdsApart DEF Types

\* Who is through is a member, and the other way round.
LEMMA MembersAre ==
  ASSUME Types, Grouped
  PROVE  Members = {t \in Threads : pc[t] \in Through}
<1>1. Members = UNION {ToSet(group[FanoutId(j)]) : j \in Interfaces}
  BY IdsApart DEF Members
<1> QED
  BY <1>1, InterfaceType DEF Grouped

-----------------------------------------------------------------------------
(* The group of an interface takes each of its packets, and no other.      *)

LEMMA ChosenIs ==
  ASSUME Types, Bound, Grouped, NEW j \in Interfaces, NEW k \in Interfaces, NEW f \in Nat
  PROVE  LET members == group[FanoutId(k)]
         IN  IF members # <<>> /\ (j = k \/ k \notin known)
             THEN \E m \in ToSet(members) : Chosen(FanoutId(k), j, f) = {m}
             ELSE j \in known => Chosen(FanoutId(k), j, f) = {}
<1> DEFINE members == group[FanoutId(k)]
<1>1. members \in Seq(Threads)
  BY GroupType
<1>2. Chosen(FanoutId(k), j, f)
        = IF members # <<>> /\ j \in hears[members[1]]
          THEN {members[(f % Len(members)) + 1]} ELSE {}
  BY DEF Chosen
<1>3. \A t \in ToSet(members) :
         hears[t] = IF k \in known THEN {k} ELSE Interfaces
  BY DEF Bound, Grouped, Heard
<1> HIDE DEF members
<1>4. CASE members = <<>>
  BY <1>2, <1>4 DEF members
<1>5. CASE members # <<>>
  <2>1. members[1] \in ToSet(members) /\ members[(f % Len(members)) + 1] \in ToSet(members)
    BY <1>1, <1>5, TakenFrom
  <2>2. j \in hears[members[1]] <=> j = k \/ k \notin known
    BY <1>3, <2>1
  <2> QED
    BY <1>2, <1>5, <2>1, <2>2 DEF members
<1> QED
  BY <1>4, <1>5

\* What is chosen from a group is a member of it.
LEMMA ChosenFrom ==
  ASSUME Types, NEW j \in Interfaces, NEW k \in Interfaces, NEW f \in Nat
  PROVE  Chosen(FanoutId(k), j, f) \subseteq ToSet(group[FanoutId(k)])
<1>1. group[FanoutId(k)] \in Seq(Threads)
  BY GroupType
<1> QED
  BY <1>1, TakenFrom DEF Chosen

\* Every packet is taken by threads.
LEMMA TakersType ==
  ASSUME Types, Grouped, NEW j \in Interfaces, NEW f \in Nat
  PROVE  Takers(j, f) \subseteq Threads
<1>1. \A g \in GroupIds : Chosen(g, j, f) \subseteq Threads
  BY ChosenFrom, IdsApart DEF Grouped
<1> QED
  BY <1>1 DEF Takers, Alone, Types

-----------------------------------------------------------------------------
(* The initial state.                                                      *)

LEMMA InitInv == Init => IndInv
<1> SUFFICES ASSUME Init
             PROVE  IndInv
  OBVIOUS
<1>1. Types
  BY DEF Init, Types, Calls
<1>2. \A t \in Threads : pc[t] = "socket"
  BY DEF Init
<1>3. Bound /\ Fallen
  BY <1>2 DEF Init, Bound, Fallen, Through
<1>4. Grouped
  <2>1. ToSet(<<>>) = {}
    BY DEF ToSet
  <2>2. \A j \in Interfaces : group[FanoutId(j)] = <<>>
    BY IdsApart DEF Init
  <2> QED
    BY <1>2, <2>1, <2>2 DEF Grouped, Through
<1>5. Served /\ Final
  BY DEF Init, Served, Final
<1> QED
  BY <1>1, <1>3, <1>4, <1>5 DEF IndInv

-----------------------------------------------------------------------------
(* A thread makes a call.                                                  *)

\* The packets that came before: none found the threads set up, and who was through
\* still is.
LEMMA PacketsBefore ==
  ASSUME IndInv, NEW t \in Threads, NEW p \in Calls,
         pc[t] \notin {"polling", "gone"}, pc[t] \in Through => p \in Through,
         pc' = [pc EXCEPT ![t] = p], packets' = packets
  PROVE  Served' /\ Final'
<1>1. \A n \in DOMAIN packets : ~packets[n].settled
  BY DEF IndInv, Final, Settled
<1>2. Final'
  BY <1>1 DEF Final
<1>3. ASSUME NEW n \in DOMAIN packets,
             \E u \in packets[n].joined : InterfaceOf(u) = packets[n].interface
      PROVE  \E u \in packets[n].takers : pc'[u] \in Through
  <2>1. PICK u \in packets[n].takers : pc[u] \in Through
    BY <1>3 DEF IndInv, Served
  <2>2. u \in Threads
    <3>1. packets[n] \in Packets
      BY DEF IndInv, Types
    <3> QED
      BY <3>1 DEF Packets
  <2>3. pc'[u] = IF u = t THEN p ELSE pc[u]
    BY <2>2 DEF IndInv, Types
  <2> QED
    BY <2>1, <2>3
<1> QED
  BY <1>2, <1>3 DEF Served

\* The thread t goes on to p, or falls; the groups stay as they are.
LEMMA CallInv ==
  ASSUME IndInv, NEW t \in Threads, NEW p \in Calls,
         pc[t] \notin {"polling", "gone"}, pc[t] \in Through <=> p \in Through,
         pc' = [pc EXCEPT ![t] = p],
         unlucky' = IF p = "gone" THEN unlucky \cup {t} ELSE unlucky,
         hears' \in [Threads -> SUBSET Interfaces],
         \A u \in Threads \ {t} : hears'[u] = hears[u],
         p \in {"fanout"} \cup Through => hears'[t] = Heard(t),
         ring' \subseteq Threads, UNCHANGED <<known, group, packets>>
  PROVE  IndInv'
<1>1. Served' /\ Final'
  BY PacketsBefore
<1>2. \A u \in Threads : pc'[u] = IF u = t THEN p ELSE pc[u]
  BY DEF IndInv, Types
<1>3. Types'
  BY DEF IndInv, Types
<1>4. Bound'
  BY <1>2 DEF IndInv, Bound, Heard
<1>5. Grouped'
  BY <1>2 DEF IndInv, Grouped
<1>6. Fallen'
  BY <1>2 DEF IndInv, Fallen
<1> QED
  BY <1>1, <1>3, <1>4, <1>5, <1>6 DEF IndInv

\* The thread joins: nobody in the group is bound to another device.
LEMMA JoinInv ==
  ASSUME IndInv, NEW t \in Threads, JoinGroup(t)
  PROVE  IndInv'
<1> DEFINE j == InterfaceOf(t)
           g == FanoutId(j)
           mayJoin == \A u \in ToSet(group[g]) : hears[u] = hears[t]
<1>1. j \in Interfaces /\ g \in GroupIds
  BY InterfaceType, IdsApart
<1>2. /\ pc[t] = "fanout" /\ UNCHANGED <<known, ring, hears, packets>>
      /\ \/ /\ pc' = [pc EXCEPT ![t] = IF mayJoin THEN "timestamps" ELSE "gone"]
            /\ unlucky' = unlucky
            /\ group' = IF mayJoin THEN [group EXCEPT ![g] = Append(@, t)] ELSE group
         \/ /\ pc' = [pc EXCEPT ![t] = "gone"]
            /\ unlucky' = unlucky \cup {t} /\ group' = group
  BY DEF JoinGroup, Goto, FailAnyway
<1>3. mayJoin
  <2>1. hears[t] = Heard(t)
    BY <1>2 DEF IndInv, Bound
  <2>2. ASSUME NEW u \in ToSet(group[g])
        PROVE  hears[u] = Heard(t)
    <3>1. u \in Threads /\ InterfaceOf(u) = j /\ pc[u] \in Through
      BY <1>1 DEF IndInv, Grouped
    <3>2. hears[u] = Heard(u)
      BY <3>1 DEF IndInv, Bound
    <3> QED
      BY <3>1, <3>2 DEF Heard
  <2> QED
    BY <2>1, <2>2
<1> HIDE DEF mayJoin, g, j
<1>4. CASE pc' = [pc EXCEPT ![t] = "gone"] /\ unlucky' = unlucky \cup {t} /\ group' = group
  <2>1. "gone" \in Calls /\ pc[t] \notin Through /\ "gone" \notin {"fanout"} \cup Through
        /\ pc[t] \notin {"polling", "gone"} /\ "gone" \notin Through
    BY <1>2 DEF Calls, Through
  <2>2. hears' \in [Threads -> SUBSET Interfaces] /\ ring' \subseteq Threads
        /\ \A u \in Threads \ {t} : hears'[u] = hears[u]
    BY <1>2 DEF IndInv, Types
  <2>3. unlucky' = IF "gone" = "gone" THEN unlucky \cup {t} ELSE unlucky
    BY <1>4
  <2> QED
    BY <1>2, <1>4, <2>1, <2>2, <2>3, CallInv
<1>5. CASE /\ pc' = [pc EXCEPT ![t] = "timestamps"] /\ unlucky' = unlucky
           /\ group' = [group EXCEPT ![g] = Append(@, t)]
  <2>1. \A u \in Threads : pc'[u] = IF u = t THEN "timestamps" ELSE pc[u]
    BY <1>5 DEF IndInv, Types
  <2>2. "timestamps" \in Calls /\ "timestamps" \in Through /\ pc[t] \notin Through
        /\ pc[t] \notin {"polling", "gone"} /\ "timestamps" # "gone"
    BY <1>2 DEF Calls, Through
  <2>3. Served' /\ Final'
    BY <1>2, <1>5, <2>2, PacketsBefore
  <2>4. /\ group[g] \in Seq(Threads)
        /\ Append(group[g], t) \in Seq(Threads)
        /\ ToSet(Append(group[g], t)) = ToSet(group[g]) \cup {t}
    <3>1. group[g] \in Seq(Threads)
      BY <1>1 DEF IndInv, Types
    <3> QED
      BY <3>1, ToSetGrows
  <2>5. \A h \in GroupIds : group'[h] = IF h = g THEN Append(group[g], t) ELSE group[h]
    BY <1>5 DEF IndInv, Types
  <2>6. Types'
    BY <1>2, <1>5, <2>2, <2>4 DEF IndInv, Types
  <2>7. Bound'
    BY <1>2, <2>1, <2>2 DEF IndInv, Bound, Heard
  <2>8. Fallen'
    BY <1>2, <1>5, <2>1, <2>2 DEF IndInv, Fallen
  <2>9. ASSUME NEW k \in Interfaces
        PROVE  ToSet(group'[FanoutId(k)])
                 = {u \in Threads : InterfaceOf(u) = k /\ pc'[u] \in Through}
    <3>1. FanoutId(k) \in GroupIds /\ (FanoutId(k) = g <=> k = j)
      BY <1>1, IdsApart DEF g
    <3>2. ToSet(group[FanoutId(k)])
            = {u \in Threads : InterfaceOf(u) = k /\ pc[u] \in Through}
      BY DEF IndInv, Grouped
    <3>3. CASE k = j
      <4>1. ToSet(group'[FanoutId(k)]) = ToSet(group[FanoutId(k)]) \cup {t}
        BY <2>4, <2>5, <3>1, <3>3
      <4>2. InterfaceOf(t) = k
        BY <3>3 DEF j
      <4> QED
        BY <2>1, <2>2, <3>2, <4>1, <4>2
    <3>4. CASE k # j
      <4>1. ToSet(group'[FanoutId(k)]) = ToSet(group[FanoutId(k)])
        BY <2>5, <3>1, <3>4
      <4>2. InterfaceOf(t) # k
        BY <3>4 DEF j
      <4> QED
        BY <2>1, <3>2, <4>1, <4>2
    <3> QED
      BY <3>3, <3>4
  <2>10. Grouped'
    BY <2>9 DEF Grouped
  <2> QED
    BY <2>3, <2>6, <2>7, <2>8, <2>10 DEF IndInv
<1> QED
  BY <1>2, <1>3, <1>4, <1>5

LEMMA SetUpInv ==
  ASSUME IndInv, NEW t \in Threads, SetUp(t)
  PROVE  IndInv'
<1>1. /\ known \subseteq Interfaces /\ ring \subseteq Threads
      /\ hears \in [Threads -> SUBSET Interfaces]
  BY DEF IndInv, Types
<1>2. ASSUME NEW p \in Calls, NEW h, Heard(t) = h,
             pc[t] \notin {"polling", "gone"}, pc[t] \in Through <=> p \in Through,
             pc' = [pc EXCEPT ![t] = p], p # "gone", unlucky' = unlucky,
             ring' = ring \/ ring' = ring \cup {t},
             \/ hears' = hears /\ (p \in {"fanout"} \cup Through => hears[t] = h)
             \/ hears' = [hears EXCEPT ![t] = h],
             UNCHANGED <<known, group, packets>>
      PROVE  IndInv'
  <2>1. Heard(t) \in SUBSET Interfaces
    BY InterfaceType DEF Heard
  <2>2. /\ hears' \in [Threads -> SUBSET Interfaces]
        /\ \A u \in Threads \ {t} : hears'[u] = hears[u]
        /\ p \in {"fanout"} \cup Through => hears'[t] = Heard(t)
    BY <1>1, <1>2, <2>1
  <2>3. ring' \subseteq Threads
    BY <1>1, <1>2
  <2>4. unlucky' = IF p = "gone" THEN unlucky \cup {t} ELSE unlucky
    BY <1>2
  <2> QED
    BY <1>2, <2>2, <2>3, <2>4, CallInv
<1>3. ASSUME pc[t] \notin {"polling", "gone"} \cup Through, FailAnyway(t),
             UNCHANGED <<known, ring, hears, group, packets>>
      PROVE  IndInv'
  <2>1. "gone" \in Calls /\ "gone" \notin {"fanout"} \cup Through /\ pc[t] \notin Through
        /\ "gone" \notin Through /\ pc[t] \notin {"polling", "gone"}
    BY <1>3 DEF Calls, Through
  <2>2. pc' = [pc EXCEPT ![t] = "gone"]
        /\ unlucky' = IF "gone" = "gone" THEN unlucky \cup {t} ELSE unlucky
    BY <1>3 DEF FailAnyway
  <2>3. hears' \in [Threads -> SUBSET Interfaces] /\ ring' \subseteq Threads
        /\ \A u \in Threads \ {t} : hears'[u] = hears[u]
    BY <1>1, <1>3
  <2> QED
    BY <1>3, <2>1, <2>2, <2>3, CallInv
<1>4. CASE OpenSocket(t)
  BY <1>2, <1>3, <1>4 DEF OpenSocket, Goto, Calls, Through
<1>5. CASE MapRing(t)
  BY <1>2, <1>3, <1>5 DEF MapRing, Goto, Calls, Through
<1>6. CASE Bind(t)
  BY <1>2, <1>3, <1>6 DEF Bind, Goto, Calls, Through
<1>7. CASE JoinGroup(t)
  BY <1>7, JoinInv
<1>8. CASE HardwareTimestamps(t)
  <2>1. hears[t] = Heard(t)
    BY <1>8 DEF HardwareTimestamps, IndInv, Bound, Through
  <2> QED
    BY <1>2, <1>8, <2>1 DEF HardwareTimestamps, Goto, Calls, Through
<1> QED
  BY <1>4, <1>5, <1>6, <1>7, <1>8 DEF SetUp

-----------------------------------------------------------------------------
(* A packet arrives.                                                       *)

\* If a thread of the interface is in its group, the group takes the packet.
LEMMA GroupTakes ==
  ASSUME IndInv, NEW j \in Interfaces, NEW f \in Nat,
         NEW t \in Members, InterfaceOf(t) = j
  PROVE  \E u \in Takers(j, f) : pc[u] \in Through
<1> DEFINE members == group[FanoutId(j)]
<1>1. Types /\ Bound /\ Grouped
  BY DEF IndInv
<1>2. t \in Threads /\ pc[t] \in Through
  BY <1>1, MembersAre
<1>3. t \in ToSet(members)
  BY <1>1, <1>2 DEF Grouped
<1>4. members # <<>>
  BY <1>3 DEF ToSet
<1>5. \E m \in ToSet(members) : Chosen(FanoutId(j), j, f) = {m}
  BY <1>1, <1>4, ChosenIs
<1>6. PICK m \in ToSet(members) : Chosen(FanoutId(j), j, f) = {m}
  BY <1>5
<1>7. m \in Takers(j, f)
  BY <1>6, IdsApart DEF Takers
<1>8. pc[m] \in Through
  BY <1>1, <1>6 DEF Grouped
<1> QED
  BY <1>7, <1>8

LEMMA ArriveInv ==
  ASSUME IndInv, NEW j \in Interfaces, NEW f \in Flows, Arrive(j, f)
  PROVE  IndInv'
<1> DEFINE p == [interface |-> j, takers |-> Takers(j, f), joined |-> Members,
                 settled |-> Settled]
<1>1. /\ packets' = Append(packets, p)
      /\ UNCHANGED <<known, pc, ring, hears, group, unlucky>>
  BY DEF Arrive
<1>2. f \in Nat /\ Types /\ Bound /\ Grouped /\ packets \in Seq(Packets)
  BY FlowsAssumption DEF IndInv, Types
<1>3. p \in Packets
  <2>1. Takers(j, f) \subseteq Threads /\ Members \subseteq Threads
    BY <1>2, TakersType, MembersAre
  <2>2. Settled \in BOOLEAN
    BY DEF Settled
  <2> QED
    BY <2>1, <2>2 DEF Packets
<1>4. /\ p.interface = j /\ p.takers = Takers(j, f) /\ p.joined = Members
      /\ p.settled = Settled
  OBVIOUS
<1> HIDE DEF p
<1>5. /\ packets' \in Seq(Packets)
      /\ \A n \in DOMAIN packets' : \/ n \in DOMAIN packets /\ packets'[n] = packets[n]
                                    \/ packets'[n] = p
  BY <1>1, <1>2, <1>3
<1>6. Types'
  BY <1>1, <1>5 DEF IndInv, Types
<1>7. Bound' /\ Grouped' /\ Fallen'
  BY <1>1 DEF IndInv, Bound, Heard, Grouped, Fallen
<1>8. Served'
  <2>1. (\E t \in p.joined : InterfaceOf(t) = p.interface) =>
          \E t \in p.takers : pc[t] \in Through
    BY <1>2, <1>4, GroupTakes
  <2>2. \A n \in DOMAIN packets :
          (\E t \in packets[n].joined : InterfaceOf(t) = packets[n].interface) =>
            \E t \in packets[n].takers : pc[t] \in Through
    BY DEF IndInv, Served
  <2> QED
    BY <1>1, <1>5, <2>1, <2>2, ZenonT(30) DEF Served
<1>9. Final'
  <2>1. p.settled => Settled /\ \E h \in Flows : p.takers = Takers(p.interface, h)
    BY <1>4
  <2>2. \A n \in DOMAIN packets : packets[n].settled =>
          Settled /\ \E h \in Flows : packets[n].takers = Takers(packets[n].interface, h)
    BY DEF IndInv, Final
  <2>3. Settled' <=> Settled
    BY <1>1 DEF Settled
  <2>4. ASSUME NEW n \in DOMAIN packets', packets'[n].settled
        PROVE  Settled /\ \E h \in Flows : packets'[n].takers = Takers(packets'[n].interface, h)
    <3>1. CASE n \in DOMAIN packets /\ packets'[n] = packets[n]
      BY <2>2, <2>4, <3>1
    <3>2. CASE packets'[n] = p
      BY <2>1, <2>4, <3>2
    <3> QED
      BY <1>5, <3>1, <3>2
  <2>5. ASSUME NEW n \in DOMAIN packets', packets'[n].settled
        PROVE  (\E h \in Flows : packets[n].takers = Takers(packets[n].interface, h))'
    <3>1. PICK h \in Flows : packets'[n].takers = Takers(packets'[n].interface, h)
      BY <2>4, <2>5
    <3>2. Takers(packets[n].interface, h)' = Takers(packets'[n].interface, h)
      BY <1>1 DEF Takers, Alone, Chosen, Members
    <3> QED
      BY <3>1, <3>2
  <2> QED
    BY <2>3, <2>4, <2>5 DEF Final
<1> QED
  BY <1>6, <1>7, <1>8, <1>9 DEF IndInv

LEMMA StutterInv ==
  ASSUME IndInv, UNCHANGED vars
  PROVE  IndInv'
BY DEF IndInv, Types, Bound, Heard, Grouped, Fallen, Served, Final, Settled, Takers, Alone,
       Chosen, Members, vars

-----------------------------------------------------------------------------
\* The invariant holds in whatever order the threads and the packets come.
THEOREM Invariance == Spec => []IndInv
<1>1. Init => IndInv
  BY InitInv
<1>2. IndInv /\ [Next]_vars => IndInv'
  BY SetUpInv, ArriveInv, StutterInv DEF Next
<1> QED
  BY <1>1, <1>2, PTL DEF Spec

-----------------------------------------------------------------------------
(* The properties that TLC checks on small instances.                      *)

\* Nothing is missed from the moment a thread of the interface is in its group,
\* whatever calls fail for the others: a member never ends and takes its share.
THEOREM NothingIsMissed == Spec => []NoGap
<1>1. IndInv => NoGap
  <2> SUFFICES ASSUME IndInv, NEW n \in DOMAIN packets,
                      \E t \in packets[n].joined : InterfaceOf(t) = packets[n].interface
               PROVE  Seers(packets[n]) # {}
    BY DEF NoGap
  <2>1. PICK t \in packets[n].takers : pc[t] \in Through
    BY DEF IndInv, Served
  <2> QED
    BY <2>1 DEF Seers, Through
<1> QED
  BY <1>1, Invariance, PTL

\* When all threads are set up, those of an interface that see a packet are those
\* its group has chosen.
LEMMA SeersAreChosen ==
  ASSUME IndInv, Settled, NEW j \in Interfaces, NEW k \in Interfaces, NEW f \in Nat
  PROVE  {t \in {u \in Takers(j, f) : pc[u] # "gone"} : InterfaceOf(t) = k}
           = Chosen(FanoutId(k), j, f)
<1>1. Types /\ Bound /\ Grouped
  BY DEF IndInv
<1>2. \A t \in Threads : pc[t] # "gone" <=> pc[t] \in Through
  BY DEF Settled, Through
<1>3. ASSUME NEW t \in Takers(j, f), pc[t] # "gone", InterfaceOf(t) = k
      PROVE  t \in Chosen(FanoutId(k), j, f)
  <2>1. t \in Threads
    BY <1>1, TakersType
  <2>2. t \in Members
    BY <1>1, <1>2, <1>3, <2>1, MembersAre
  <2>3. PICK g \in GroupIds : t \in Chosen(g, j, f)
    BY <2>2 DEF Takers, Alone
  <2>4. PICK i \in Interfaces : g = FanoutId(i)
    BY IdsApart
  <2>5. t \in ToSet(group[FanoutId(i)])
    BY <1>1, <2>3, <2>4, ChosenFrom
  <2>6. InterfaceOf(t) = i
    BY <1>1, <2>5 DEF Grouped
  <2> QED
    BY <1>3, <2>3, <2>4, <2>6
<1>4. ASSUME NEW t \in Chosen(FanoutId(k), j, f)
      PROVE  t \in Takers(j, f) /\ pc[t] # "gone" /\ InterfaceOf(t) = k
  <2>1. t \in ToSet(group[FanoutId(k)])
    BY <1>1, <1>4, ChosenFrom
  <2>2. t \in Threads /\ InterfaceOf(t) = k /\ pc[t] \in Through
    BY <1>1, <2>1 DEF Grouped
  <2>3. t \in Takers(j, f)
    BY <1>4, IdsApart DEF Takers
  <2> QED
    BY <1>2, <2>2, <2>3
<1> QED
  BY <1>3, <1>4

\* Then the group of an interface has a member unless a call failed for each of its
\* threads.
LEMMA WorkingAre ==
  ASSUME IndInv, Settled, NEW k \in Interfaces
  PROVE  k \in Working <=> group[FanoutId(k)] # <<>>
<1>1. Types /\ Grouped /\ Fallen
  BY DEF IndInv
<1>2. group[FanoutId(k)] \in Seq(Threads)
  BY <1>1, GroupType
<1>3. group[FanoutId(k)] # <<>> <=> ToSet(group[FanoutId(k)]) # {}
  <2>1. group[FanoutId(k)] # <<>> => group[FanoutId(k)][1] \in ToSet(group[FanoutId(k)])
    BY <1>2, 0 \in Nat, TakenFrom
  <2>2. ToSet(<<>>) = {}
    BY DEF ToSet
  <2> QED
    BY <2>1, <2>2
<1>4. ASSUME NEW t \in ToSet(group[FanoutId(k)])
      PROVE  k \in Working
  <2>1. t \in Threads /\ InterfaceOf(t) = k /\ pc[t] \in Through
    BY <1>1 DEF Grouped
  <2>2. t \notin unlucky
    BY <1>1, <2>1 DEF Fallen, Through
  <2>3. t[2] \in 1 .. NumThreads /\ t = <<k, t[2]>>
    BY <2>1 DEF Threads, InterfaceOf
  <2> QED
    BY <2>2, <2>3 DEF Working
<1>5. ASSUME k \in Working
      PROVE  ToSet(group[FanoutId(k)]) # {}
  <2>1. PICK i \in 1 .. NumThreads : <<k, i>> \notin unlucky
    BY <1>5 DEF Working
  <2>2. <<k, i>> \in Threads /\ InterfaceOf(<<k, i>>) = k
    BY DEF Threads, InterfaceOf
  <2>3. pc[<<k, i>>] \in Through
    BY <1>1, <2>1, <2>2 DEF Fallen, Settled, Through
  <2>4. <<k, i>> \in ToSet(group[FanoutId(k)])
    BY <1>1, <2>2, <2>3 DEF Grouped
  <2> QED
    BY <2>4
<1> QED
  BY <1>3, <1>4, <1>5

\* Once all are set up, a packet is seen once by its interface and not at all by the
\* others, but for those whose name does not exist; failed threads leave no hole
\* in their group.
THEOREM SeenExactlyOnce == Spec => []SeenOnce
<1>1. IndInv => SeenOnce
  <2> SUFFICES ASSUME IndInv, NEW n \in DOMAIN packets, packets[n].settled,
                      packets[n].interface \in known, NEW k \in Interfaces
               PROVE  Cardinality({t \in Seers(packets[n]) : InterfaceOf(t) = k}) =
                        IF k \in Working /\ (k = packets[n].interface \/ k \notin known)
                        THEN 1 ELSE 0
    BY Zenon DEF SeenOnce
  <2> DEFINE j == packets[n].interface
             seers == {t \in Seers(packets[n]) : InterfaceOf(t) = k}
  <2>1. Settled
    BY DEF IndInv, Final
  <2>2. PICK f \in Flows : packets[n].takers = Takers(j, f)
    BY DEF IndInv, Final
  <2>3. f \in Nat /\ j \in Interfaces
    BY FlowsAssumption DEF IndInv, Types
  <2>4. seers = Chosen(FanoutId(k), j, f)
    <3>1. seers = {t \in {u \in Takers(j, f) : pc[u] # "gone"} : InterfaceOf(t) = k}
      BY <2>2 DEF Seers
    <3> HIDE DEF seers, j
    <3> QED
      BY <2>1, <2>3, <3>1, SeersAreChosen
  <2>5. Types /\ Bound /\ Grouped
    BY DEF IndInv
  <2>6. CASE k \in Working /\ (k = j \/ k \notin known)
    <3>1. group[FanoutId(k)] # <<>>
      BY <2>1, <2>6, WorkingAre
    <3>2. \E m : Chosen(FanoutId(k), j, f) = {m}
      <4> HIDE DEF j
      <4> QED
        BY <2>3, <2>5, <2>6, <3>1, ChosenIs
    <3> QED
      BY <2>4, <2>6, <3>2, FS_Singleton
  <2>7. CASE ~(k \in Working /\ (k = j \/ k \notin known))
    <3>1. ~(group[FanoutId(k)] # <<>> /\ (j = k \/ k \notin known))
      BY <2>1, <2>7, WorkingAre
    <3>2. Chosen(FanoutId(k), j, f) = {}
      <4>1. j \in known
        OBVIOUS
      <4> HIDE DEF j
      <4> QED
        BY <2>3, <2>5, <3>1, <4>1, ChosenIs
    <3> QED
      BY <2>4, <2>7, <3>2, FS_EmptySet
  <2> QED
    BY <2>6, <2>7
<1> QED
  BY <1>1, Invariance, PTL

=============================================================================
