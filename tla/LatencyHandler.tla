-------------------------- MODULE LatencyHandler --------------------------
(***************************************************************************)
(* The latency handler of src/src/latency_handler.c fed by several capture *)
(* threads: poll_ring_buffers drains one ring per capture thread in turn,  *)
(* calculate_latency pairs requests with answers in one hash table, and    *)
(* once a second the histogram is reported and reset.                      *)
(*                                                                         *)
(* A ring is the bounded queue of module RecordQueue, which module SpscRb  *)
(* implements: publishing and releasing are single steps here, and a       *)
(* summary that finds no room is dropped (src/src/fix.c, 256 and 294).     *)
(*                                                                         *)
(* The wire.  A conversation is a client, a server, an id and an           *)
(* instrument.  Its request is answered, the answer may be followed by     *)
(* messages that are no answers (a fill, a cancelled quote), and then the  *)
(* same request may be made again.  No message is captured twice.  Each    *)
(* ring has a clock of its own, and the handler may see the messages of    *)
(* two rings in any order.                                                 *)
(***************************************************************************)
EXTENDS Summaries, FiniteSets

CONSTANTS
  NumRings,       \* buffer_vec.len
  Conversations,  \* the conversations on the wire
  About,          \* kind, client, server, id, symbol and security of each
  Clock,          \* how far each ring's timestamps are ahead
  Header,         \* sizeof(vmars_rb_record_t), in cells
  Capacity,       \* cells of a ring
  MaxPolls,       \* MAX_POLLS
  MaxLatency,     \* the highest value the histogram tracks
  MaxMessages     \* bound: messages on the wire

Rings == 1 .. NumRings

ASSUME RingsAssumption ==
  /\ NumRings \in Nat \ {0} /\ Clock \in [Rings -> Nat]
  /\ Header \in Nat /\ Capacity \in Nat
ASSUME LimitsAssumption == MaxPolls \in Nat \ {0, 1} /\ MaxLatency \in Nat
ASSUME MessagesAssumption == MaxMessages \in Nat

\* No name contains the bar that separates the names in a key, and what a key
\* says of two conversations of the same kind differs: the code relies on both
\* (src/src/fix.c, 262 to 292) and checks neither.
Names == Seq((0 .. 255) \ {Bar})
ASSUME ConversationsAssumption ==
  /\ \A c \in Conversations :
       About[c] \in [kind : {"order", "quote"}, client : Names, server : Names,
                    id : Names, symbol : Names, security : Names]
  /\ \A c, d \in Conversations :
       c # d /\ About[c].kind = About[d].kind =>
         \/ About[c].client # About[d].client \/ About[c].server # About[d].server
         \/ About[c].id # About[d].id \/ Instrument(About[c]) # Instrument(About[d])

VARIABLES
  onWire,      \* history: the messages that have been on the wire
  rings,       \* the summaries published in each ring, oldest first
  released,    \* history: the summaries released from each ring, in order
  at,          \* the ring being drained, 0 at the top of the loop
  limit,       \* poll_limit
  table,       \* latency_table: the summaries that wait for their complement
  total,       \* histogram->total_count
  completed,   \* completed_requests
  matched,     \* history: the pairs <<request, answer>> found
  ignored,     \* history: summaries that changed nothing
  waited       \* history: releases elsewhere since a ring's last turn

vars == <<onWire, rings, released, at, limit, table, total, completed,
          matched, ignored, waited>>

-----------------------------------------------------------------------------
(* The messages of a conversation and the summaries made of them.          *)

Roles == {"request", "answer", "other"}

\* MsgType and the id, instrument and status fields of each kind and role.
TypeAndStatus(kind, role) ==
  CASE kind = "order" /\ role = "request" -> <<Field(MsgType, NewOrderSingle)>>
    [] kind = "order" /\ role = "answer" -> <<Field(MsgType, ExecutionReport), Field(ExecType, <<48>>)>>
    [] kind = "order" /\ role = "other" -> <<Field(MsgType, ExecutionReport), Field(ExecType, <<70>>)>>
    [] kind = "quote" /\ role = "request" -> <<Field(MsgType, MassQuote)>>
    [] kind = "quote" /\ role = "answer" -> <<Field(MsgType, MassQuoteAck), Field(QuoteStatus, <<48>>)>>
    [] kind = "quote" /\ role = "other" -> <<Field(MsgType, MassQuoteAck), Field(QuoteStatus, <<49>>)>>

Parties(a, role) ==
  IF role = "request"
  THEN <<Field(SenderCompID, a.client), Field(TargetCompID, a.server)>>
  ELSE <<Field(SenderCompID, a.server), Field(TargetCompID, a.client)>>

Subject(a) ==
  IF a.kind = "order"
  THEN <<Field(ClOrdID, a.id), Field(SecurityID, a.security), Field(Symbol, a.symbol)>>
  ELSE <<Field(QuoteID, a.id), Field(UnderlyingSymbol, a.symbol),
         Field(UnderlyingSecurityID, a.security)>>

\* The details of each message, as the parser reports its fields.
DetailsOf ==
  [c \in Conversations |-> [role \in Roles |->
     Details(TypeAndStatus(About[c].kind, role) \o Parties(About[c], role)
               \o Subject(About[c]))]]

\* vmars_fix_message_summary_t, but for the timestamp.
Summary ==
  [c \in Conversations |-> [role \in Roles |->
     [type |-> DetailsOf[c][role].type, key |-> Key(DetailsOf[c][role])]]]

\* A message is known by its conversation and role, the ring of the thread that
\* captured it, and how many messages have gone by with it.
Messages ==
  [conv : Conversations, role : Roles, ring : Rings, serial : 1 .. MaxMessages]

Type(m) == Summary[m.conv][m.role].type
KeyOf(m) == Summary[m.conv][m.role].key
Time(m) == m.serial + Clock[m.ring]

-----------------------------------------------------------------------------
(* The pairing.                                                            *)

IsBegin(m) == Type(m) \in {MassQuote, NewOrderSingle, TraceReq}

IsComplement(m, n) ==
  {Type(m), Type(n)} \in {{MassQuote, MassQuoteAck}, {NewOrderSingle, ExecutionReport},
                         {TraceReq, TraceRsp}}

\* The summaries waiting under a key: never more than one.
Waiting(key) == {m \in table : KeyOf(m) = key}

\* diff, and whether hdr_record_value accepts it.
Latency(begin, end) == Time(end) - Time(begin)
Recordable(pair) ==
  Latency(pair[1], pair[2]) >= 0 /\ Latency(pair[1], pair[2]) <= MaxLatency

\* A published summary takes a header and a cell per field.
Size == Header + 4
Used(r) == Size * Len(rings[r])

\* Faulty variant of HasRoom: the header is not counted.
HasRoomNoHeader(r) == Used(r) + 4 <= Capacity

HasRoom(r) == Used(r) + Size <= Capacity

-----------------------------------------------------------------------------
Init ==
  /\ onWire = {}
  /\ rings = [r \in Rings |-> <<>>]
  /\ released = [r \in Rings |-> <<>>]
  /\ at = 0 /\ limit = MaxPolls
  /\ table = {} /\ total = 0 /\ completed = 0
  /\ matched = {} /\ ignored = {}
  /\ waited = [r \in Rings |-> 0]

\* The role of the latest message of a conversation, "none" before the first.
Latest(c) ==
  LET own == {m \in onWire : m.conv = c}
  IN  IF own = {} THEN "none"
      ELSE (CHOOSE m \in own : \A n \in own : n.serial <= m.serial).role

\* A request is answered before it is made again.
MayFollow(c, role) ==
  CASE role = "request" -> Latest(c) # "request"
    [] role = "answer" -> Latest(c) = "request"
    [] role = "other" -> Latest(c) = "answer"

\* A message goes by and thread r captures it: when it qualifies, its summary is
\* published if the ring has room and dropped otherwise.
Capture(r, c, role) ==
  LET m == [conv |-> c, role |-> role, ring |-> r, serial |-> Cardinality(onWire) + 1]
  IN  /\ Cardinality(onWire) < MaxMessages
      /\ MayFollow(c, role)
      /\ onWire' = onWire \cup {m}
      /\ rings' = IF ShouldProcess(DetailsOf[c][role]) /\ HasRoom(r)
                  THEN [rings EXCEPT ![r] = Append(@, m)]
                  ELSE rings
      /\ UNCHANGED <<released, at, limit, table, total, completed,
                     matched, ignored, waited>>

-----------------------------------------------------------------------------
(* The handler's loop.                                                     *)

\* Faulty variant of ReportSecond: the histogram is not reset.
ReportNoReset ==
  /\ completed' = completed + total
  /\ UNCHANGED total

\* A second has passed: the totals are added up and the histogram is reset.
ReportSecond ==
  /\ completed' = completed + total
  /\ total' = 0

\* The top of the loop, with or without a report, then the first ring.
StartRound ==
  /\ at = 0
  /\ ReportSecond \/ UNCHANGED <<total, completed>>
  /\ at' = 1
  /\ UNCHANGED <<onWire, rings, released, limit, table, matched, ignored, waited>>

\* Faulty variant of Match: the table entry stays.
MatchKeeps(m, n) ==
  LET pair == IF IsBegin(m) THEN <<m, n>> ELSE <<n, m>>
  IN  /\ n \in Waiting(KeyOf(m))
      /\ IsComplement(m, n)
      /\ matched' = matched \cup {pair}
      /\ total' = IF Recordable(pair) THEN total + 1 ELSE total
      /\ UNCHANGED <<table, ignored>>

\* The complement of m waits under its key: the pair is found, the table entry
\* removed, the latency recorded when the histogram takes it.
Match(m, n) ==
  LET pair == IF IsBegin(m) THEN <<m, n>> ELSE <<n, m>>
  IN  /\ n \in Waiting(KeyOf(m))
      /\ IsComplement(m, n)
      /\ table' = table \ {n}
      /\ matched' = matched \cup {pair}
      /\ total' = IF Recordable(pair) THEN total + 1 ELSE total
      /\ UNCHANGED ignored

\* Faulty variant of Ignore: m is put beside what waits.
IgnoreStores(m, n) ==
  /\ n \in Waiting(KeyOf(m))
  /\ ~IsComplement(m, n)
  /\ table' = table \cup {m}
  /\ UNCHANGED <<matched, ignored, total>>

\* Something else waits under the key: m is forgotten.
Ignore(m, n) ==
  /\ n \in Waiting(KeyOf(m))
  /\ ~IsComplement(m, n)
  /\ ignored' = ignored \cup {m}
  /\ UNCHANGED <<table, matched, total>>

\* Faulty variant of Store: a response is not stored.
StoreBegin(m) ==
  /\ Waiting(KeyOf(m)) = {}
  /\ table' = IF IsBegin(m) THEN table \cup {m} ELSE table
  /\ UNCHANGED <<matched, ignored, total>>

\* Nothing waits under the key: m does from now on.
Store(m) ==
  /\ Waiting(KeyOf(m)) = {}
  /\ table' = table \cup {m}
  /\ UNCHANGED <<matched, ignored, total>>

CalculateLatency(m) ==
  \/ \E n \in table : Match(m, n) \/ Ignore(m, n)
  \/ Store(m)

\* Faulty variant of CountDown: the limit does not run down.
CountDownNever == limit

\* --poll_limit
CountDown == limit - 1

\* poll returned a summary within the limit: it is handled and released.
HandleRecord ==
  /\ at \in Rings
  /\ rings[at] # <<>>
  /\ limit > 1
  /\ CalculateLatency(Head(rings[at]))
  /\ rings' = [rings EXCEPT ![at] = Tail(@)]
  /\ released' = [released EXCEPT ![at] = Append(@, Head(rings[at]))]
  /\ limit' = CountDown
  /\ waited' = [r \in Rings |-> IF r = at THEN 0 ELSE waited[r] + 1]
  /\ UNCHANGED <<onWire, at, completed>>

\* The ring after r, and after the last one the top of the loop.
After(r) == IF r = NumRings THEN 0 ELSE r + 1

\* poll returned nothing or the limit is used up: the next ring's turn.
NextRing ==
  /\ at \in Rings
  /\ rings[at] = <<>> \/ limit = 1
  /\ at' = After(at)
  /\ limit' = MaxPolls
  /\ waited' = [waited EXCEPT ![at] = 0]
  /\ UNCHANGED <<onWire, rings, released, table, total, completed, matched, ignored>>

Handler == StartRound \/ HandleRecord \/ NextRing

Next ==
  \/ \E r \in Rings, c \in Conversations, role \in Roles : Capture(r, c, role)
  \/ Handler

\* The handler's thread spins: it always takes its next step.
Spec == Init /\ [][Next]_vars /\ WF_vars(Handler)

-----------------------------------------------------------------------------
(* Properties.                                                             *)

Handled == UNION {ToSet(released[r]) : r \in Rings}
Published == Handled \cup UNION {ToSet(rings[r]) : r \in Rings}

\* Every variable has its type and a key has at most one table entry.
TypeOK ==
  /\ onWire \subseteq Messages
  /\ rings \in [Rings -> Seq(Messages)] /\ released \in [Rings -> Seq(Messages)]
  /\ at \in 0 .. NumRings /\ limit \in 1 .. MaxPolls
  /\ table \subseteq Messages /\ \A m \in table : Cardinality(Waiting(KeyOf(m))) = 1
  /\ total \in Nat /\ completed \in Nat
  /\ matched \subseteq Messages \X Messages /\ ignored \subseteq Messages
  /\ waited \in [Rings -> Nat]

\* m is a request and n an answer in the same conversation.
PairUp(m, n) == m.conv = n.conv /\ m.role = "request" /\ n.role = "answer"

\* The keys of c's messages are used by no other conversation.
OwnKey(c) ==
  \A d \in Conversations \ {c} : Summary[d]["request"].key # Summary[c]["request"].key

MadeOnce(c) == Cardinality({m \in onWire : m.conv = c /\ m.role = "request"}) <= 1

\* A latency is always the time from a request to an answer of the same
\* conversation, whichever the handler saw first and whatever else uses the key,
\* and no message counts twice.
TruePairs ==
  /\ \A p \in matched : PairUp(p[1], p[2]) /\ {p[1], p[2]} \subseteq Handled
  /\ \A p, q \in matched : p # q => p[1] # q[1] /\ p[2] # q[2]

\* Every summary released from a ring waits in the table, is half of a pair or
\* was ignored.  A request made once and its answer are never both done with and
\* unmatched unless one was ignored for another conversation's use of the key.
PairsFound ==
  /\ Handled = table \cup ignored \cup UNION {{p[1], p[2]} : p \in matched}
  /\ \A m, n \in Handled \ ignored :
       PairUp(m, n) /\ MadeOnce(m.conv) => <<m, n>> \in matched

\* A request that is made again pairs with its own answer each time, as long as
\* its key has no other use, one thread captures the whole conversation and its
\* ring never was full: nothing of the conversation lies between the two.
NextAnswer ==
  \A p \in matched :
    LET c == p[1].conv
        own == {m \in onWire : m.conv = c /\ m.role # "other"}
    IN  OwnKey(c) /\ (\A m \in own : m.ring = p[1].ring) /\ own \subseteq Published =>
          /\ p[1].serial < p[2].serial
          /\ \A m \in own : ~(p[1].serial < m.serial /\ m.serial < p[2].serial)

\* completed_requests and the histogram together count each recordable pair
\* once: a report neither loses nor repeats one.
CompletedExact ==
  completed + total = Cardinality({p \in matched : Recordable(p)})

\* A flooded ring cannot starve another one: between two turns of a ring every
\* other ring has at most one turn, of at most MaxPolls - 1 records.
NoStarvation ==
  \A r \in Rings : waited[r] <= (NumRings - 1) * (MaxPolls - 1)

\* What this module takes a ring for is the queue that SpscRb implements.
Record(m) == <<m.conv, m.role, m.ring, m.serial>>
Ring(r) == INSTANCE RecordQueue
  WITH Payloads <- {Record(m) : m \in Messages}, used <- Used(r),
       queue <- [i \in DOMAIN rings[r] |-> Record(rings[r][i])],
       delivered <- IF released[r] = <<>> THEN <<>> ELSE Record(Last(released[r]))
RingsAreQueues ==
  /\ \A r \in Rings : Ring(r)!Init
  /\ [][\A r \in Rings : UNCHANGED Ring(r)!vars \/ Ring(r)!Next]_vars

\* When a request and an answer have been published, in whatever rings, a pair of
\* their conversation is found, provided its key has no other use.
EveryPairFound ==
  \A c \in {d \in Conversations : OwnKey(d)} :
    (\E m, n \in Published : PairUp(m, n) /\ m.conv = c)
      ~> (\E p \in matched : p[1].conv = c)

=============================================================================
