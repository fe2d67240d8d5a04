# vmars in TLA+

vmars captures the packets of FIX sessions, pairs each request with its response and reports
the latencies, once a second, as gauge lines over UDP.  This directory holds TLA+ models of
its components, TLC configurations that check them on small instances, and TLAPS proofs, for every
value of the constants, of the safety of all of them but the parser.  Line numbers refer to the
files of `src/src`.

## 1. The system

```
kernel --TPACKET_V3 blocks--> capture thread (one per interface and -t)
                                |  display -> extract FIX messages -> summaries
                                |  own counters                     |
                                |                                   v  one ring per thread
                                |                          latency handler (one thread)
                                v                                   |  gauges
                        monitoring thread (counters) --gauges--> UDP socket (shared)
main: starts all of them, SIGINT handler, joins
```

| Component | State | Operations | Interacts through |
|---|---|---|---|
| Ring buffer (`spsc_rb.c`) | buffer mapped twice, head, tail, a cached copy of each | claim, publish, poll, release | two threads, two positions, no lock |
| FIX extraction (`fix.c`, `simpleboyermoore.c`) | a fragment per TCP stream | `vmars_extract_fix_messages` per payload | called by capture; publishes to the ring |
| FIX parser (`fixparser.c`) | none | `vmars_fix_parse_msg` | called by the extraction; tag callback |
| Tags to summaries (`fix.c` 93-298) | counters | `handle_tag`, `process_for_latency_measurement` | claims and publishes ring records |
| Latency handler (`latency_handler.c`) | table of unmatched messages, histogram, total | `poll_ring_buffers`, `calculate_latency` | polls all rings; gauge client |
| Packet capture (`packet.c`) | block ring, current block | `vmars_poll_socket`, `walk_block`, `display` | kernel; the extraction |
| Monitoring (`counter_handler.c`) | sums of one sweep | `vmars_poll_counters` | reads every thread's counters; gauge client |
| Gauge client (`jodie_client.c`) | send buffer, index | init, dup, five log functions, flush, close | one UDP socket for two clients |
| Start-up, shutdown (`main.c`) | configuration, threads | main, `root_sighandler` | everything |
| `khash.h`, HdrHistogram | third party | | taken for a map and a counter |
| `directio.c` | a separate benchmark | | not part of vmars |

What is hard in each of them, and what makes it correct:

* *Ring buffer.*  Two threads decide on stale copies of each other's position.  It is correct
  when no record is overwritten before it is released, none is handed out before it is
  complete, and what comes out is what went in, in order.
* *Extraction.*  TCP cuts the stream anywhere, several streams alternate, segments may be
  missed.  It is correct when each message of a stream is reported once, in order, and never
  mixed with another stream's bytes.
* *Parser, search and summaries.*  Pure code, but full of places to be one character off.  A
  message must be consumed to its last byte and no further, a damaged one refused, and a request
  and its answer, which name the parties the other way round, must get the same key.
* *Packet capture.*  The kernel and the thread hand blocks to each other round a ring, by a status
  word; several threads set their sockets up while packets arrive.  It is correct when every
  captured packet is seen once, in order, and by one thread.
* *Latency handler.*  A request and its response arrive through different rings in any order;
  rings compete for one thread.  It is correct when a latency is always that of a true pair,
  every pair is found, and no ring starves.
* *Monitoring.*  Counters move while they are read.  A report must be a value of its moment
  and every count must be reported.
* *Gauge client.*  Sending may fail.  Lines must be neither lost nor repeated.
* *Lifecycle.*  SIGINT hits any thread at any time.  The process must end, and nothing may be
  torn down under a thread that still uses it.

PROJECT.json lists every hazard with its line and the properties that cover it.

## 2. The modules

| Module | Models | Checked by |
|---|---|---|
| `PacketFeed` | what the kernel's block ring promises: packets once, in order | as the abstraction of `CaptureRing` |
| `CaptureRing` | blocks filled, retired, walked and flushed | `CaptureRing.cfg` |
| `Fanout` | `setup_socket` of all threads, fan-out groups | `Fanout.cfg` |
| `FixExtract` | extraction, fragments, parser verdicts, wrong BodyLengths | `FixExtract.cfg`, `FixExtractSplit.cfg` |
| `Matcher` | the search for a pattern | `Parsing.cfg` |
| `FixParser` | the parser, character by character | `Parsing.cfg` |
| `Parsing` | what becomes of a message that is sent, for the two above | `Parsing.cfg` |
| `Summaries` | from tags to details, from details to a summary | `LatencyHandler.cfg` |
| `RecordQueue` | what the ring promises: a bounded FIFO of records | as the abstraction of two others |
| `SpscRb` | the ring between its two threads | `SpscRb.cfg` |
| `LatencyHandler` | drain loop, pairing, report, over several rings | `LatencyHandler.cfg` |
| `Counters` | the monitoring sweep | `Counters.cfg` |
| `Jodie` | gauge lines and flushes | `Jodie.cfg` |
| `Options` | the command line and what is refused | the configurations of `Lifecycle` |
| `Lifecycle` | threads, CPUs, SIGINT, joins, exit | `Lifecycle.cfg`, `LifecycleAffinity.cfg`, `LifecycleOptions.cfg` |
| `SpscRbProofs`, `CaptureRingProofs`, `FanoutProofs`, `FixExtractProofs`, `LatencyHandlerProofs`, `CountersProofs`, `JodieProofs`, `LifecycleProofs` | theorems about the modules of these names | tlapm |

```
PacketFeed <-implements- CaptureRing          RecordQueue <-implements- SpscRb
                                                   ^ implements
FixParser, Matcher --> Parsing                 LatencyHandler
FixParser --> Summaries <-------------------------/
Options <-- Lifecycle
```

Each `MC` module extends the module of that name with the constants of the configurations.

### CaptureRing

`captured` is all that the kernel ever stored; a block is the stretch of it that begins after
`first` packets and is `num_pkts` long, so a block that is written while it is walked shows
another stretch.  `Store`, `Retire`, `Open` and `Drop` are the kernel's side, as external code:
an empty block is never retired, a full one is, and so is any other when the timer of
`tp_retire_blk_tov` (`packet.c` 105) runs out; the next block is opened once its status is the
kernel's, and until then packets are dropped.  `LookAway`, `PollReturns`, `StartWalk`, `Display`
(one packet) and `FlushBlock` are `vmars_poll_socket`.  `block_status` is a plain word on both
sides; on x86-64 the reads of a block come before the store that gives it back, and the compiler
barrier in the store of `bytes_total` at 231 (`atomic.h`) keeps the compiler from moving them.
Refinement: the packets that wait are those of `captured` after the first `seen`.

### Fanout

A call of `setup_socket` is an action; each may fail, which ends the thread and leaves the socket
as it is.  `hears` says from which interfaces a socket takes packets: all until `bind`, and all
after it if the name of the interface is misspelt, since `if_nametoindex` is then 0.  A packet is
taken by the sockets with a ring that are in no group, and by one member of each group,
picked by the packet's hash.  The ids 1111, 2222, ... stay below 65536 for up to 58 interfaces
(an ASSUME); beyond, they would change the mode in the upper half of the argument.

### FixParser, Matcher, Parsing, Summaries

Characters are their ASCII codes.  `Parse` is the function the parser computes: verdict, bytes
consumed, fields.  Its loops over digits and values are operators (`DigitsEnd`, `ValueEnd`), the
loop over tags is a recursive function.  `Search` is the loop over the table of bad
matches.  `Parsing` writes a message the way FIX does (from its fields, with BodyLength and
checksum computed), then lets it be cut, damaged or followed by something, and compares what the
code makes of it with what was sent.  `FixExtract` works with verdicts on pieces of streams
instead: `Framing` and `DamageDetected` are why its `Outcomes` may take the verdict on a message that
states its length for granted.  `DamageDetected` damages anything but BodyLength; what a wrong BodyLength
does is in `Outcomes` itself.  `SearchIsTheLoop`, proved in `FixExtractProofs`, is why its `Search` may
return the first match.  `Summaries` holds the rules of
`handle_tag` and `process_for_latency_measurement`, which `LatencyHandler` applies to the fields
of its messages.

### SpscRb

A cell stands for a byte.  `Header` cells hold the length, as `vmars_rb_record_t` does; the body
follows.  The second mapping of the buffer is `Cell(r, k)`, the physical cell `k` places after
pointer `r`.  Every action makes at most one access to memory that the other thread uses, so
TLC interleaves them all:

* producer: `ClaimTooLong`, `ClaimCached` (the cached head suffices), `ClaimRefreshed` (the true
  head is loaded and cached), `ClaimRefused` (NULL; the cache is not updated), `StampLength`,
  `FillCell` for each cell of the body, `Publish`;
* consumer: `PollEmpty`, `PollRecord`, `PollOverLimit` (poll has returned a record but
  `--poll_limit` reached 0: it stays unreleased), `ReadCell`, `Release`.

`queue`, `starts` and `delivered` are history variables: the published records, where they
start, and what the consumer read of the last one.  Interleaving whole accesses in program
order is what the build gives: the only platform `atomic.h` accepts is x86-64, positions are
stored with a locked `xchg`, and the ring's functions are calls into another translation unit.
Positions are unbounded numbers in the model (`int64_t` in the code); `MaxPosition` bounds them.
The 32-bit casts at 120 and 133 do not matter as long as tail and cached head are within the
capacity of each other, which `CachesLag` states and the proof establishes.

### FixExtract

A stream is a sequence of messages, a message a sequence of cells: pattern, rest of the fixed
header, BodyLength, body, checksum.  Header cells look the same in every message; others tell
their message.  `Receive` is the handler up to its loop for a payload of any length, `ExtractNext`
one iteration, `Finish` the code after the loop; a packet is handled to its end before the next.
`Outcomes` is the set of results the parser can give for a piece: one result where the bytes
decide it; every result where two messages are mixed, since a matching 8-bit checksum cannot be
excluded.  `Stated` is the length that a message's BodyLength states, and the parser consumes that
much of it and no more, or finds the piece too short.  `Lose` lets a segment go by unseen, `Rewind` has TCP
go back and send a stream's last cells again.  A fragment that would outgrow its block is left as it
is and what would have been added is skipped.

The handler may leave the memory it should use in two ways.  A message that consumed less than its cells
leaves `buf_remaining` too large: the loop then takes as many cells behind the payload for its own.  They are
`beyond`, any of `Behind` (the cells of other packets in the ring's block; the proofs allow every
cell there is, TLC is given a single one that belongs to no message), and the loop goes on with them.
And `put_fragment` writes past its 4096 bytes when a piece is longer (`Holds`).  `Undefined` is
the step of a program that has done either; the model stops there.

### LatencyHandler

Rings are queues: publishing and releasing are single steps, which is sound because `SpscRb`
implements `RecordQueue`.  `RingsAreQueues` checks that this module uses them that way.
The messages are those of FIX conversations (client, server, id,
instrument): a request, its answer, later messages that do not qualify, the request again; their
fields go through `Summaries`, so that types and keys are what the code makes of them.
`Capture` publishes or drops; `StartRound` is the top of the loop with or without the report of
a second; `HandleRecord` is one pass of the inner loop with the whole of `calculate_latency`
(`Match`, `Ignore`, `Store`); `NextRing` ends a ring's turn.

### Counters, Jodie, Lifecycle

`Counters` reads the counters of a thread in any order, because the loads are plain ones, and
the packet statistics after them, because that is a system call which also resets them.
The counters of message types
stand as one, and so do `invalid_checksums` and `corrupt_messages`; `parsing_errors` is counted
(`Fields`) and, as in the code, not among what the sweep loads (`Loaded`).

`Jodie` knows a line by its number and length; `dirty` says that the buffer may hold bytes
nobody logged, which is the case after `jodie_dup`.  Nothing checks that a line still fits the buffer
(`jodie_client.c` 110): one that would run past its end sets `overrun`, where the model stops.

`Lifecycle` has a program counter for each
thread; a signal handler runs in any live thread and sets the flags one at a time; it ends
`poll` only in the thread it runs in.  Its threads are those of the configuration that `Options` makes
of the constant `Arguments`.

## 3. What the runs check

| Run | Instance | Question and answer |
|---|---|---|
| `spsc_rb` | 8 cells, header 2, bodies of 1, 2, 3, 8 and 9 cells, positions up to 24 | `CachesLag`, `BufferHoldsQueue`, `ClaimSparesUnread`, the inductive invariant `IndInv` (with the types) and `ImplementsQueue` hold. Three laps, headers and bodies wrap, the ring is full, one body never fits, one is longer than the ring. `EveryRecordReleased`: the poll limit postpones a record, it does not park it. |
| `fix_extract` | 2 streams of 2 messages, any segmentation up to 14 cells. On one a message is damaged, and a segment may be lost or sent again; its messages of 5 cells just fit behind a leftover fragment, in a buffer of 9. The other begins with a message of 12 cells that states 11 and that the buffer cannot hold, and goes on with a sound one | `TypeOK`, `RemainingExact`, `NoPhantom`, `UncutPatternReported`, `MissesCounted`, `InOrderOnce` hold. |
| `fix_extract_split` | 1 stream of 3 messages, nothing damaged or lost | `EveryMessageReported` is **violated**, see below. |
| `parsing` | 3 messages, 2 headers, every cut, every damaged place with 5 characters, 3 things that follow | `Framing`, `DamageDetected`, `SearchFindsFirst` hold. |
| `latency_handler` | 2 rings of 2 records, clocks apart, 3 conversations of which 2 share a key, 5 messages | `TruePairs`, `PairsFound`, `NextAnswer`, `CompletedExact`, `NoStarvation`, `RingsAreQueues`, `EveryPairFound` hold. |
| `capture_ring` | 3 blocks of 2 packets, 5 packets of 3 kinds | `IndInv` (blocks in turn), `ImplementsFeed`, `EveryPacketSeen` hold. |
| `fanout` | 2 interfaces, known or misspelt, with 2 threads each, 2 flows | `SeenOnce`, `NoGap` hold. |
| `counters` | 2 threads, a message and a packet each | `TypeOK`, `WithinSweep`, `PacketsOnce`, `EventuallyReported` hold. |
| `jodie` | packets of 8, a buffer of 14, lines of 2 or 3, 10 lines, 3 failures, which are enough for an overrun | `TypeOK`, `LinesOnceInOrder`, `IndexBounded`, `RestOnlyFirst` hold. |
| `lifecycle` | 2 interfaces with a thread each, 2 signals | `SocketOutlivesReporters`, `ExitIsOrderly`, `EndsUnlessQuiet` hold. |
| `lifecycle_affinity` | 2 interfaces with 2 threads, 4 CPUs | `AffinityAsDocumented` is **violated**, see below. |
| `lifecycle_options` | 2 threads, `-c 9999 ... -a 2,4` | `PortAsDocumented` is **violated**, see below. |

*Bounds.*  The ring's behaviour depends on positions modulo the capacity and on differences of
positions, so a few laps show every alignment; the proofs do without the bound.  A fragment is
affected by its own stream's payloads only, so two streams and messages just longer than a
header show every way a cut can fall: before, in and after the pattern, in the header, at the
end.  One cell too few in a BodyLength sends the loop past the payload as any number does; that the second
message of such a payload is sound, cut or whole, is what may go wrong for it.  Two rings and two turns are all that pairing and fairness relate.  For `Counters`, a sum can
only be wrong through a counter that changes before or after it is read, which one message per
thread shows.  Three blocks have one the kernel fills, one the thread walks and one between;
five packets go round them more than once when the timer retires them one by one.  A packet
changes nothing in `Fanout`, so one that comes at any moment stands for all.  The headers of
`Parsing` are two characters long instead of twelve, since the code compares them as a whole.

*Deadlock* is not checked where the input ends (`FixExtract`, `Parsing`, `CaptureRing`, `Jodie`),
the set-up does (`Fanout`) or the process does (`Lifecycle`).

*Fairness.*  `SpscRb`: both threads keep running once they are in a call or in the polling loop;
nothing makes a capture thread have a message.  `LatencyHandler` and `Counters`: their one thread
spins, or sleeps for a second.  `CaptureRing`: the thread runs unless it is in poll, the kernel's timer runs
out again and again and a block that has come back is opened; no packet is obliged to come.  `Lifecycle`: every thread that can take a step does; packets and
signals are never obliged to come, which is why `EndsUnlessQuiet` has its second half.

### Disagreements

* `fix_extract_split`.  A payload that completes a fragment and whose tail is the beginning of
  the next header, too short to be recognised as a pattern: all of it is appended to the
  fragment, and `remove_fragment` (`fix.c` 458-461) drops the tail with the message.  The rest of
  that header then begins a payload, matches nothing and is counted as corrupt (442).  The next
  message is never reported.  The test `parse_all_msssages`
  (`src/test/fix_extract_fix_messages_test.c` 165-201) cuts its stream at random places and expects
  every message.  `UncutPatternReported` is what does hold: a message whose pattern arrives in one
  piece is reported, with the one exception of the next section.
* `lifecycle_options`.  The usage text (`main.c` 42) says that `-c` is the port to capture messages on.
  The case of `-a` (139) has no break: it sets the port as well, to the first number of the
  list.  `-c` has the last word only when it comes after `-a`.
* `lifecycle_affinity`.  The usage text (`main.c` 38-41) gives the first num-threads CPUs to the
  first interface "and so on"; the loop indexes the list by the thread's number within its
  interface (231), so every interface gets the same CPUs.

### Worth knowing, from properties that hold

* A full ring drops a summary and nothing counts the drop (`fix.c` 294-297).
* What does not fit a fragment is skipped and counted nowhere (`fix.c` 447), hence the condition in
  `MissesCounted`.  That a message fits the buffer by itself is not enough: a fragment that belongs
  to nothing, shorter than a header, may be in front of it, and then the end of the message does not
  fit, is skipped, and no counter tells.  In numbers, messages of up to 4068 bytes are always reported or
  counted when nothing is lost: `MAX_FRAGMENT_TOTAL_SIZE` less the 8 bytes of `len` and `capacity`,
  a header and a pattern.
* With a message of which the middle was skipped a fragment can end up as a mixture
  of two messages even without a loss, hence the one in `NoPhantom`.
* `NextAnswer` needs one thread to see the whole conversation and no summary to be dropped.
  After a drop, or across rings, request and answer of one key may stay out of step: answers pair
  with the requests after them, latencies are negative and the histogram refuses them, or they
  are too long.  Nothing brings them back into step.
* A wrong BodyLength is not contained by the checksum.  `fixparser.c` 120 takes what was consumed from it
  before anything is verified.  One that is too large, or no number, costs the message itself: it is kept
  as a fragment, or skipped.  With one that is k too small `buf_remaining` stays k too large (`fix.c` 478):
  the following search and parse go k bytes past the payload (471-477), at the end as many bytes that were
  used already are kept (495), and a beginning of the next message is kept with foreign bytes behind it
  (486).  So a sound message may be lost without a count, or reported again, and a mixture may pass.
  Hence `Orderly` in `NoPhantom`, `InOrderOnce` and `MissesCounted`, which claim nothing of such a
  stream, and `Astray` in `RemainingExact`.  What holds of every stream is
  `UncutPatternReported`: the harm stays within the payload and the message cut by its end
  (`Overtaken`); what is whole in that payload, and all that comes later, is reported.
* TCP's sequence numbers are not looked at: what is sent again is reported again.  Of a stream with a
  repeated segment nothing is claimed but `RemainingExact` and `UncutPatternReported`.
* `put_fragment` does not compare a piece with its buffer (`fix.c` 352).  On an Ethernet with frames of 1500
  bytes none is too long; on lo, or with receive offload, a payload and so a piece of it may be.
* The parser looks at the three digits of the checksum but not at the tag before them.
* `display` takes every IP packet for TCP (`packet.c` 192-195), and bytes_total grows by one per
  block (231).
* While threads are being set up a packet may be seen twice (`NoGap` says: never not at all), and
  a ring may hold packets of other interfaces from before `bind`.
* A misspelt interface name makes its threads capture all interfaces, so that every
  packet is seen once more (`SeenOnce`).
* The usage text promises a default of one thread (`main.c` 37), but without `-t` the command line is
  refused (`Accepted`), and without `-c` the port is 0, as the test for -1 (176) never fires.
* Parsing errors are counted by capture threads (`fix.c` 402) but never summed (`counter_handler.c` 61-76).
  `EventuallyReported` is about the counters that are; `MissesCounted` says that a miss is counted, which
  is less than that an operator sees it, since a parsing error is in no report.
* Packet and drop gauges are per second while all others are totals: `PacketsOnce` holds because
  fetching the statistics resets them.
* Each failed flush inside `jodie_logGauge` may let one line past the packet size, and nothing stops that
  at the end of `send_buffer` (`jodie_client.c` 110).  With lines of up to about 80 bytes, 648 bytes are room
  for some eight failures in a row: the ninth line or so is copied past the buffer.  `IndexBounded` says that it
  takes that many; no property says that it does not happen, and what
  happens after it is not defined.
* With several interfaces, `main` may return while capture threads of the second one still run:
  `ExitIsOrderly` speaks of those of the first.  On a quiet first interface it may not return at all
  (`EndsUnlessQuiet`).

## 4. What is proved

The theorems hold for every value of the constants that the named ASSUMEs of the modules allow;
TLC evaluates each ASSUME in the runs of its module.  Every proof of a property `P` has the
same shape: an invariant `IndInv` that a step keeps whenever it holds before
(`THEOREM Invariance == Spec => []IndInv`), from which `P` follows.  All of the invariants were
given to TLC on the instances of section 3 before they were proved.

| Module | Theorem | States |
|---|---|---|
| `SpscRbProofs` | `TypeCorrect`, `CachesNeverLead`, `BufferIntact`, `NoOverwrite` | `TypeOK`, `CachesLag`, `BufferHoldsQueue`, `ClaimSparesUnread` always hold |
| | `Refinement` | `Spec => ImplementsQueue` |
| `CaptureRingProofs` | `Invariance` | `IndInv` (types, `BlocksInTurn`) always holds |
| | `Refinement` | `Spec => ImplementsFeed` |
| `FanoutProofs` | `NothingIsMissed`, `SeenExactlyOnce` | `NoGap`, `SeenOnce` |
| `FixExtractProofs` | `TypeCorrect`, `RemainingIsExact`, `NothingMadeUp`, `OrderAndOnce`, `UncutAreReported`, `MissesAreCounted` | `TypeOK`, `RemainingExact`, `NoPhantom`, `InOrderOnce`, `UncutPatternReported`, `MissesCounted` |
| | `FirstFound`, `SearchIsTheLoop` | the loop of `Matcher` returns the first occurrence; it is what `FixExtract` takes it for |
| `LatencyHandlerProofs` | `TypeCorrect`, `PairsAreTrue`, `PairsAreFound`, `NextAnswerPairs`, `CountsAreExact`, `NoRingStarves` | `TypeOK`, `TruePairs`, `PairsFound`, `NextAnswer`, `CompletedExact`, `NoStarvation` |
| | `RingsBehave` | `Spec => RingsAreQueues` |
| `CountersProofs` | `TypeCorrect`, `ReportsAreTrue`, `NoPacketTwice` | `TypeOK`, `WithinSweep`, `PacketsOnce` |
| `JodieProofs` | `TypeCorrect`, `LinesAreSentOnce`, `IndexIsBounded`, `OnlyFirstHasRest` | `TypeOK`, `LinesOnceInOrder`, `IndexBounded`, `RestOnlyFirst` |
| `LifecycleProofs` | `TypeCorrect`, `SocketOutlives`, `ExitsInOrder` | `TypeOK`, `SocketOutlivesReporters`, `ExitIsOrderly` |

### The arguments

* *SpscRb*, for every power-of-two capacity, header size, set of bodies and poll limit.  None of the
  four invariants is inductive alone.  That publishing extends the queue correctly needs to know
  that the record being written holds the message (`ProducerInv`); that writing it leaves the
  others alone needs the room check against the *cached* head, which is only worth something
  because the cache lags (`CachesLag`), and the fact that queued records lie within head and tail,
  apart from each other (`InBounds`); that the consumer's copy is the head of the queue needs
  `ConsumerInv`.  The arithmetic comes first: two positions less than a capacity apart have
  different cells (`ModDistinct`, `IndexDistinct`), hence a write to the claimed record changes no
  record of the queue (`WriteSparesRecords`).  `PublishPuts` and `ReleaseTakes` map the two steps
  that matter to `Put` and `Take`.
* *CaptureRing*, for any number and size of blocks.  The blocks that wait are the r places from the
  thread's block on, and each begins where the one before it ends (`BlocksInTurn`).  Block numbers
  are distances round the ring of less than a lap (`AheadIs`, `AheadDistinct`), so the kernel's block is
  never the one that is being walked, whose stretch of packets cannot move.
* *Fanout*, for any number of interfaces up to 58 and any number of threads.  A thread comes to its
  group bound the way all the threads of its interface are (`Bound`), so the kernel never refuses
  it and only a call that failed by itself ends a thread (`Fallen`); so a group is exactly
  the threads of its interface that are through (`Grouped`), and the member that a packet's hash
  picks is alive.
* *FixExtract*, for any streams, messages, BodyLengths, segmentations, losses and repeated segments, and
  anything behind a payload.  None of the properties is inductive, because each says where the handler is
  between packets or in the loop only.  `Handling` says where it stands: the payload is a stretch of its
  stream (`Payloads`); in the loop, what it takes for the payload ends where `buf_remaining` says, behind the
  real end only when the loop is `Astray`, and in the payload every current message is where one
  begins (`Looping`).  Two invariants then say what a stream's fragment and reports are, because a BodyLength
  that is too small takes two positions apart.  `StreamInv`, for orderly streams, speaks of `Pos(s)`,
  how far the handler is by its own count: what is reported lies one after the other up to it
  (`InOrder`); without losses any fragment is what has gone by of a message or lacks a header's first
  character and so cannot become one (`Pure`); and there is an error for each message missed, and one for
  the message that is being given up (`Marked`).  `Uncut`, for every stream, speaks of `Reached(s)`, where
  the handler really is: a message that is not excused is the fragment, cell by cell, while it goes by and
  has been reported when it has.  It survives wrong BodyLengths because a search never misses a pattern in
  the payload, wherever it ends (`ParsesIs`), and foreign cells can only be put behind the message at the end
  of the payload.

  The data come first: the cells of a stream are its messages laid
  end to end (`TextIs`), the pattern is found exactly where messages begin (`PatternIs`, `SearchIs`),
  and a stretch that begins with a well stated message has one verdict (`VerdictOnMessage`,
  `VerdictOnPiece`).  Then `StreamInv` is
  shown for each way a position moves on: over a prefix (`PrefixKeeps`), a whole message (`MessageKeeps`),
  the beginning of one that is kept (`BeginningKeeps`), a loss (`LossKeeps`); `AdvancedIs` puts the last
  two together for an iteration.  `Uncut` is shown for a payload's prefix (`PrefixUncut`), an iteration
  (`PieceUncut`) and a jump (`UncutPasses`).  `ReceiveKeeps`, `ExtractNextKeeps`, `FinishKeeps`, `LoseKeeps`,
  `RewindKeeps` and `UndefinedKeeps` show which of them each action is.
* *Matcher*, for any pattern that is not empty and any text.  Within the distance that the table gives, a match
  would have the window's last character at a later place of the pattern than its last one
  (`NothingSkipped`); so the loop from one place on and the loop from the next give the same result
  (`FirstFromIs`), and the loop is the only function for which that is so (`StepsAre`).
* *LatencyHandler*, for any rings, clocks, conversations and numbers of messages.  The first
  part is about data: the fold `Details` is followed field by field, which gives the type and the
  key of each summary; a key with bars between the names can be taken apart again
  (`Separated`), hence two conversations of one kind have different keys (`KeysDiffer`) and
  the types that pair do so within one conversation.  The state: messages are numbered on the wire
  and follow their conversation's order (`Wire`, `Order`), a ring holds its thread's messages in
  that order (`Streams`), a summary that was released is in one place and a key has one summary in
  the table (`Places`), a ring has waited no longer than the turns since its own (`Turns`), and a
  conversation alone with its key and captured whole alternates strictly (`Conversing`).
* *Counters*, for any number of threads.  In the middle of a sweep neither the partial sum nor the
  true one says anything about the report; `Sandwich` does: the partial sum is at most what
  the counters already read are now, and with what the others are now at least the true sum at
  the beginning.  The sums are those of the community modules, whose laws (`SumOfIntegers`,
  `SumIsMonotonic`, `SumChanges`) are proved there too.
* *Jodie*, for any lines, packet and buffer size.  A client that has sent something has a clean buffer
  (`CleanOnceSent`); a flush that fails adds at most one line to the room the index needs, so that a
  line that runs past the end of the buffer takes as many failures as `IndexBounded` says; the lines
  sent so far are what `FlattenSeq` makes of the datagrams, and one more datagram appends its own
  (`LinesGrow`).
* *Lifecycle*, for every accepted command line with a name in its list of interfaces.  Each
  place of main tells where the reporters and the socket are (`MainPlaces`), a reporter leaves its loop
  only for its flag (`Stopped`), and a thread that was waited for stays done (`Waited`).

### The assumptions that say something about the program

* `SpscRb`: the capacity is a power of two; `main` asks for 4096 (`main.c` 247).
* `LatencyHandler`: no name contains the bar that separates the names in a key, and
  conversations differ in what the key says of them.  The code relies on both and checks
  neither.  Without the first, two sessions could share a key by accident.
* `Fanout`: at most 58 interfaces, see above.
* `FixExtract`: a message is longer than the header, a digit of BodyLength and its end, and by the
  checksum field at least a pattern longer than the header; a BodyLength that is a number, be it wrong, states
  a length beyond header and BodyLength; the fragment buffer has room for a pattern.  By its data, no body
  contains the pattern.  A BodyLength of 0 does what one that is never reached does (`fixparser.c` 115).
* `Lifecycle`: the list of interfaces has a name.  `-i ","` is accepted by `main`, which then waits for
  threads that were never created.  NULL is none of the thread contexts.
* `Jodie`: a line is no longer than a packet, and a packet is shorter than the buffer (1400 and 2048).

### Induction

The library states its induction theorems with operators as parameters, which none of the provers
here can instantiate.  The proof modules state induction with a set instead
(`NatSetInduction`, `IntervalInduction`, `SubsetInduction`), from the smallest element of a set of
naturals, each the ones it needs.  That, and the proof that a recursive function exists at all
(`HandlesExists`, `FlattensExists`, `AddsExists`), is enough for the folds of the community modules.
For the loop of `Matcher` neither is needed: a function that satisfies its equation is written down,
and two that satisfy it cannot differ at a last place.

### Only model-checked

* Liveness, and so `EveryRecordReleased`, `EveryPacketSeen`, `EveryPairFound`, `EventuallyReported` and
  `EndsUnlessQuiet`: the prover has no rule for fairness.
* `Parsing`: `Framing` and `DamageDetected` are statements about what recursive functions over
  characters compute (`Digits`, `Decimal`, the checksum, the loop over tags).  `FixExtract` rests on
  them through `Outcomes`.  `SearchFindsFirst` compares the search with its reference on these texts;
  that they agree on any text is `FirstFound`.

## 5. What is not modelled

* Failures of set-up: allocation, mapping of the ring buffer, threads, the gauge socket.  A ring
  that could not be set up returns a positive errno and the test at `main.c` 247 is for a negative
  one, so vmars goes on with it.
* The options of the parser, which vmars leaves at zero.
* `bytes_total`, and the text of the gauge lines.
* What the program does once it has read or written past a buffer: `Undefined` of `FixExtract` and `overrun`
  of `Jodie` end a behaviour, and nothing is claimed of what would come after.
* Numbers of ten digits or more, as a BodyLength, a tag or a QuoteStatus: they overflow an int
  (`fixparser.c` 103 and 146).  The numbers of the models have no width.
* Segments of a stream that overtake each other.
* Empty items in the list of `-a`, which `strtok` drops.
* The hash table `khash.h` and HdrHistogram are third-party and taken for a map and for a count of
  the values in range; `directio.c` is a program of its own.

## 6. What could come next

All components are modelled, the safety properties of all of them but the parser are proved.  What is
left, in order of what it would say about the program:

1. `FixParser`: that a message which is written out in full is parsed back (`Framing`), from the digits of a
   number and the checksum up, by the kind of induction that `FixExtractProofs` uses; then
   `DamageDetected`.
2. A proof that `Outcomes` of `FixExtract` contains the verdict of `FixParser` for the cells it stands for.
