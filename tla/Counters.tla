------------------------------ MODULE Counters ------------------------------
(***************************************************************************)
(* The monitoring thread of src/src/counter_handler.c and the counters the *)
(* capture threads keep (src/src/fix.c, src/src/packet.c).                 *)
(*                                                                         *)
(* A capture thread increments its own counters; vmars_poll_counters reads *)
(* the counters of all threads with plain loads, without stopping anybody, *)
(* adds them up and reports the sums once a second.  It leaves out one of  *)
(* them, parsing_errors.  The loads of one thread's counters are in no     *)
(* order the compiler must keep; the system call that follows them comes   *)
(* after all of them.  That call fetches the kernel's packet statistics of *)
(* the thread's socket and, as packet(7) has it, resets them.              *)
(***************************************************************************)
EXTENDS Integers, Functions

CONSTANTS
  NumThreads,   \* counters_vec.len
  MaxMessages,  \* bound: messages a capture thread parses
  MaxPackets    \* bound: packets the kernel counts for a socket

ASSUME ThreadsAssumption == NumThreads \in Nat \ {0}
ASSUME BoundsAssumption == MaxMessages \in Nat /\ MaxPackets \in Nat

Threads == 1 .. NumThreads

\* valid_messages, the counters of message types taken together, those of
\* invalid_checksums and corrupt_messages taken together, and parsing_errors.
Fields == {"valid", "kind", "rejected", "parsing"}

\* The fields the sweep loads and reports: parsing_errors is not one of them.
Loaded == {"valid", "kind", "rejected"}

VARIABLES
  counters,   \* vmars_monitoring_counters_t of each capture thread
  open,       \* the threads whose fd is not 0
  parsing,    \* the threads between valid_messages and the type's counter
  stats,      \* the kernel's packet statistics of each socket
  arrived,    \* history: all packets the kernel has counted
  at,         \* the thread the sweep reads, 0 between two sweeps
  pending,    \* the counters of that thread still to be read
  sums,       \* aggregate_counters
  packets,    \* tp_packets of the aggregate statistics
  report,     \* the sums reported last
  reported,   \* history: the packets reported so far
  before,     \* history: the true sums when the sweep began
  span        \* history: the true sums around the sweep reported last

capture == <<counters, open, parsing, stats, arrived>>
vars == <<capture, at, pending, sums, packets, report, reported, before, span>>

None == [f \in Loaded |-> 0]

\* The sums a sweep in a single instant would find.
TrueSums == [f \in Loaded |-> SumFunction([t \in Threads |-> counters[t][f]])]

Messages(t) == counters[t]["valid"] + counters[t]["rejected"] + counters[t]["parsing"]

-----------------------------------------------------------------------------
Init ==
  /\ counters = [t \in Threads |-> [f \in Fields |-> 0]]
  /\ open = {} /\ parsing = {}
  /\ stats = [t \in Threads |-> 0] /\ arrived = 0
  /\ at = 0 /\ pending = {} /\ sums = None /\ packets = 0
  /\ report = None /\ reported = 0
  /\ before = None /\ span = [from |-> None, to |-> None]

-----------------------------------------------------------------------------
(* The capture threads and the kernel.                                     *)

UnchangedMonitor == UNCHANGED <<at, pending, sums, packets, report, reported, before, span>>

\* atomic_release_increment
Increment(t, f) == counters' = [counters EXCEPT ![t][f] = @ + 1]

\* The socket is set up and its descriptor stored in counters.fd.
OpenSocket(t) ==
  /\ t \notin open
  /\ open' = open \cup {t}
  /\ UNCHANGED <<counters, parsing, stats, arrived>>
  /\ UnchangedMonitor

\* The kernel counts a packet for the socket: from its creation on, so before its
\* descriptor is stored, too.
Arrive(t) ==
  /\ stats[t] < MaxPackets /\ arrived < MaxPackets * NumThreads
  /\ stats' = [stats EXCEPT ![t] = @ + 1]
  /\ arrived' = arrived + 1
  /\ UNCHANGED <<counters, open, parsing>>
  /\ UnchangedMonitor

\* A message is rejected: for its checksum, because nothing can be made of it, or
\* for another error of the parser.
Reject(t) ==
  /\ t \in open \ parsing
  /\ Messages(t) < MaxMessages
  /\ Increment(t, "rejected") \/ Increment(t, "parsing")
  /\ UNCHANGED <<open, parsing, stats, arrived>>
  /\ UnchangedMonitor

\* A message is valid: its type is counted in a later step, if at all.
Accept(t) ==
  /\ t \in open \ parsing
  /\ Messages(t) < MaxMessages
  /\ Increment(t, "valid")
  /\ parsing' = parsing \cup {t}
  /\ UNCHANGED <<open, stats, arrived>>
  /\ UnchangedMonitor

CountKind(t) ==
  /\ t \in parsing
  /\ Increment(t, "kind") \/ UNCHANGED counters
  /\ parsing' = parsing \ {t}
  /\ UNCHANGED <<open, stats, arrived>>
  /\ UnchangedMonitor

-----------------------------------------------------------------------------
(* The monitoring thread.                                                  *)

\* Faulty variant of StartSums: the sums of the last sweep are kept.
StartSumsKept == UNCHANGED <<sums, packets>>

\* Both aggregates are cleared.
StartSums == sums' = None /\ packets' = 0

\* sleep(1) is over.
StartSweep ==
  /\ at = 0
  /\ at' = 1
  /\ pending' = Loaded
  /\ StartSums
  /\ before' = TrueSums
  /\ UNCHANGED <<capture, report, reported, span>>

\* A counter of the current thread is loaded and added.
ReadCounter(f) ==
  /\ at \in Threads
  /\ f \in pending
  /\ sums' = [sums EXCEPT ![f] = @ + counters[at][f]]
  /\ pending' = pending \ {f}
  /\ UNCHANGED <<capture, at, packets, report, reported, before, span>>

\* Faulty variant of TakeStats: the statistics are thought to be totals.
TakeStatsTotals(t) ==
  /\ t \in open
  /\ packets' = packets + stats[t]
  /\ UNCHANGED stats

\* getsockopt(PACKET_STATISTICS): fetched and reset at once.
TakeStats(t) ==
  /\ t \in open
  /\ packets' = packets + stats[t]
  /\ stats' = [stats EXCEPT ![t] = 0]

\* The thread has no socket yet, or getsockopt fails.
SkipStats(t) == UNCHANGED <<packets, stats>>

\* Faulty variant of After: the last thread is left out.
AfterButLast(t) == IF t + 1 >= NumThreads THEN NumThreads + 1 ELSE t + 1

\* The thread after t; NumThreads + 1 when the sweep is over.
After(t) == t + 1

\* Faulty variant of ToRead: the loop runs once more.
ToReadAlways(t) == Loaded

\* The counters the loop loads for t.
ToRead(t) == IF t \in Threads THEN Loaded ELSE {}

GatherStats ==
  /\ at \in Threads
  /\ pending = {}
  /\ TakeStats(at) \/ SkipStats(at)
  /\ at' = After(at)
  /\ pending' = ToRead(at')
  /\ UNCHANGED <<counters, open, parsing, arrived, sums, report, reported, before, span>>

Swept == at = NumThreads + 1

\* The sums are logged as gauges.
Report ==
  /\ Swept
  /\ report' = sums
  /\ reported' = reported + packets
  /\ span' = [from |-> before, to |-> TrueSums]
  /\ at' = 0 /\ pending' = {}
  /\ UNCHANGED <<capture, sums, packets, before>>

-----------------------------------------------------------------------------
Capture(t) ==
  OpenSocket(t) \/ Arrive(t) \/ Reject(t) \/ Accept(t) \/ CountKind(t)

Monitor == StartSweep \/ (\E f \in Loaded : ReadCounter(f)) \/ GatherStats \/ Report

Next == (\E t \in Threads : Capture(t)) \/ Monitor

\* sleep and getsockopt return: the monitoring thread goes on for ever.
Spec == Init /\ [][Next]_vars /\ WF_vars(Monitor)

-----------------------------------------------------------------------------
(* Properties.                                                             *)

Counts == [Fields -> Nat]
Sums == [Loaded -> Nat]

\* Every variable has its type; the sweep never reads past the last thread.
TypeOK ==
  /\ counters \in [Threads -> Counts]
  /\ open \subseteq Threads /\ parsing \subseteq open
  /\ stats \in [Threads -> Nat] /\ arrived \in Nat
  /\ at \in 0 .. NumThreads + 1
  /\ pending \subseteq Loaded /\ (pending # {} => at \in Threads)
  /\ sums \in Sums /\ packets \in Nat
  /\ report \in Sums /\ reported \in Nat
  /\ before \in Sums /\ span \in [{"from", "to"} -> Sums]

\* Although the counters move while they are read, every reported sum is a
\* value the true sum had at some moment of the sweep.
WithinSweep ==
  \A f \in Loaded : span.from[f] <= report[f] /\ report[f] <= span.to[f]

\* Every packet is in exactly one report, in the running sweep or still in the
\* kernel: fetching the statistics resets them, so the reports must be added.
PacketsOnce ==
  reported + (IF at = 0 THEN 0 ELSE packets) + SumFunction(stats) = arrived

\* What is counted in one of the fields the sweep loads shows up in a report in
\* the end, whichever thread counts it.  It says nothing of parsing_errors: what
\* is counted there is in no report, ever.
EventuallyReported ==
  \A f \in Loaded : \A n \in 1 .. NumThreads * MaxMessages :
    (TrueSums[f] >= n) ~> (report[f] >= n)

=============================================================================
