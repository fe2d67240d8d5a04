----------------------------- MODULE Lifecycle -----------------------------
(***************************************************************************)
(* The life of a vmars process: main of src/src/main.c starts the threads, *)
(* waits for them and closes the gauge socket; the loops of the capture    *)
(* threads (src/src/packet.c), the latency handler and the monitoring      *)
(* thread run until the flag of their source file is set.                  *)
(*                                                                         *)
(* SIGINT is delivered to any one live thread, which runs root_sighandler  *)
(* before it goes on; the handler sets the three flags one by one.  poll   *)
(* is interrupted by a handler its own thread runs, and by no other: a     *)
(* capture thread that tested its flag just before, or that is not the one *)
(* to take the signal, stays in poll until a packet comes.                 *)
(***************************************************************************)
EXTENDS Options, FiniteSets

CONSTANTS
  Arguments,   \* the command line: a sequence of options
  MaxSignals   \* bound: how often SIGINT is sent

config == Configured(Arguments)

\* With a command line that is refused there is no process to speak of.
ASSUME ArgumentsAssumption == Accepted(config)
ASSUME SignalsAssumption == MaxSignals \in Nat

NumInterfaces == Len(config.interfaces)
NumThreads == config.num_threads
Affinity == config.affinity

\* The number that was accepted, and the names in the list of interfaces.  A list
\* without a name (-i ",") is accepted as well: then main waits for threads that
\* were never created, of which nothing can be said.
ASSUME CountsAssumption == NumInterfaces \in Nat \ {0} /\ NumThreads \in Nat \ {0}

TotalThreads == NumInterfaces * NumThreads
CaptureThreads == 1 .. TotalThreads
Main == 0
Latency == -1
Monitor == -2
AllThreads == CaptureThreads \cup {Main, Latency, Monitor}

VARIABLES
  pc,        \* where each thread is, "none" before it is created
  contexts,  \* thread_contexts: the CPU each capture thread is pinned to, -1 for
             \* none, and its port; NULL before it is created
  joining,   \* the capture thread main waits for
  socket,    \* the gauge socket: "none", "open" or "closed"
  flags,     \* the source files whose sigint is set
  handler,   \* the flag the handler running in a thread sets next, "none" outside
  ready,     \* the capture threads with a block to read
  signals    \* SIGINTs sent so far

vars == <<pc, contexts, joining, socket, flags, handler, ready, signals>>

-----------------------------------------------------------------------------
Init ==
  /\ pc = [t \in AllThreads |-> IF t = Main THEN "starting" ELSE "none"]
  /\ contexts = [t \in CaptureThreads |-> NULL]
  /\ joining = 1
  /\ socket = "none"
  /\ flags = {}
  /\ handler = [t \in AllThreads |-> "none"]
  /\ ready = {}
  /\ signals = 0

\* A thread that is not running the signal handler and is at p.
At(t, p) == handler[t] = "none" /\ pc[t] = p
Goto(t, p) == pc' = [pc EXCEPT ![t] = p]

Exited == pc[Main] = "exited"

\* Once main has returned nobody takes a step.
Alive(t) == ~Exited /\ pc[t] \notin {"none", "done"}

-----------------------------------------------------------------------------
(* main.                                                                   *)

Created == {t \in CaptureThreads : pc[t] # "none"}

\* Thread i of its interface takes the i-th CPU of the list, on every interface;
\* an item that is no CPU number leaves it unpinned.
CpuOf(idx) ==
  LET i == ((idx - 1) % NumThreads) + 1
  IN  IF i <= Len(Affinity) THEN ParseCpuId(Affinity[i]) ELSE NoCpu

\* thread_contexts[idx], set before the thread is created.
ContextOf(idx) == [cpu_num |-> CpuOf(idx), port |-> config.capture_port]

\* NULL is none of them.
ASSUME ContextAssumption == \A idx \in CaptureThreads : ContextOf(idx) # NULL

\* The next capture thread is created.
StartCapture ==
  LET idx == Cardinality(Created) + 1
  IN  /\ At(Main, "starting")
      /\ idx <= TotalThreads
      /\ Goto(idx, "open")
      /\ contexts' = [contexts EXCEPT ![idx] = ContextOf(idx)]
      /\ UNCHANGED <<joining, socket, flags, handler, ready, signals>>

\* jodie_init and jodie_dup: the two clients share one socket.
OpenSocket ==
  /\ At(Main, "starting")
  /\ Created = CaptureThreads
  /\ socket' = "open"
  /\ Goto(Main, "reporters")
  /\ UNCHANGED <<contexts, joining, flags, handler, ready, signals>>

StartReporter(t) ==
  /\ At(Main, "reporters")
  /\ t = Latency \/ pc[Latency] # "none"
  /\ pc[t] = "none"
  /\ pc' = [pc EXCEPT ![t] = "loop", ![Main] = IF t = Monitor THEN "join" ELSE @]
  /\ UNCHANGED <<contexts, joining, socket, flags, handler, ready, signals>>

\* Faulty variant of Joined: one thread is left out.
JoinedButLast == 1 .. NumThreads - 1

\* Faulty variant of Joined: one thread too many.
JoinedOneMore == 1 .. NumThreads + 1

\* The capture threads main waits for: those of the first interface.
Joined == 1 .. NumThreads

JoinCapture ==
  /\ At(Main, "join")
  /\ joining \in Joined
  /\ pc[joining] = "done"
  /\ joining' = joining + 1
  /\ UNCHANGED <<pc, contexts, socket, flags, handler, ready, signals>>

\* Faulty variant of ReportersDone: only the latency handler is waited for.
LatencyDone == pc[Latency] = "done"

\* Both pthread_joins after the capture threads return.
ReportersDone == pc[Latency] = "done" /\ pc[Monitor] = "done"

CloseSocket ==
  /\ At(Main, "join")
  /\ joining \notin Joined
  /\ ReportersDone
  /\ socket' = "closed"
  /\ Goto(Main, "return")
  /\ UNCHANGED <<contexts, joining, flags, handler, ready, signals>>

\* main returns, which ends the process whatever its threads do.
Exit ==
  /\ At(Main, "return")
  /\ Goto(Main, "exited")
  /\ UNCHANGED <<contexts, joining, socket, flags, handler, ready, signals>>

MainStep ==
  \/ StartCapture \/ OpenSocket \/ StartReporter(Latency) \/ StartReporter(Monitor)
  \/ JoinCapture \/ CloseSocket \/ Exit

-----------------------------------------------------------------------------
(* A capture thread, vmars_poll_socket.                                    *)

\* setup_socket succeeds, or the thread ends.
SetUp(t) ==
  /\ At(t, "open")
  /\ Goto(t, "test") \/ Goto(t, "done")
  /\ UNCHANGED <<contexts, joining, socket, flags, handler, ready, signals>>

\* while (!sigint)
TestFlag(t) ==
  /\ At(t, "test")
  /\ Goto(t, IF "packet" \in flags THEN "done" ELSE "look")
  /\ UNCHANGED <<contexts, joining, socket, flags, handler, ready, signals>>

\* The current block is walked and flushed when it is the user's.
WalkBlock(t) ==
  /\ At(t, "look")
  /\ t \in ready
  /\ ready' = ready \ {t}
  /\ Goto(t, "test")
  /\ UNCHANGED <<contexts, joining, socket, flags, handler, signals>>

\* The current block is the kernel's: poll is about to be called.
LookAgain(t) ==
  /\ At(t, "look")
  /\ t \notin ready
  /\ Goto(t, "call")
  /\ UNCHANGED <<contexts, joining, socket, flags, handler, ready, signals>>

CallPoll(t) ==
  /\ At(t, "call")
  /\ Goto(t, "poll")
  /\ UNCHANGED <<contexts, joining, socket, flags, handler, ready, signals>>

\* A block is ready: poll returns.
PollReturns(t) ==
  /\ At(t, "poll")
  /\ t \in ready
  /\ Goto(t, "test")
  /\ UNCHANGED <<contexts, joining, socket, flags, handler, ready, signals>>

CaptureStep(t) ==
  \/ SetUp(t) \/ TestFlag(t) \/ WalkBlock(t) \/ LookAgain(t) \/ CallPoll(t)
  \/ PollReturns(t)

\* The kernel fills a block of the thread's socket.
BlockReady(t) ==
  /\ Alive(t) /\ pc[t] # "open"
  /\ t \notin ready
  /\ ready' = ready \cup {t}
  /\ UNCHANGED <<pc, contexts, joining, socket, flags, handler, signals>>

-----------------------------------------------------------------------------
(* The latency handler and the monitoring thread.                          *)

FlagOf(t) == IF t = Latency THEN "latency" ELSE "counters"

\* The end of the loop that t runs; the rest of the loop changes nothing here.
LeaveLoop(t) ==
  /\ At(t, "loop")
  /\ FlagOf(t) \in flags
  /\ Goto(t, "done")
  /\ UNCHANGED <<contexts, joining, socket, flags, handler, ready, signals>>

-----------------------------------------------------------------------------
(* SIGINT.                                                                 *)

\* The signal interrupts t, be it in poll or elsewhere.
Deliver(t) ==
  /\ signals < MaxSignals
  /\ Alive(t)
  /\ handler[t] = "none"
  /\ signals' = signals + 1
  /\ handler' = [handler EXCEPT ![t] = "packet"]
  /\ UNCHANGED <<pc, contexts, joining, socket, flags, ready>>

\* Faulty variant of AfterFlag: the last source file has no handler.
AfterFlagButLast(flag) == IF flag = "packet" THEN "latency" ELSE "none"

\* root_sighandler calls the three handlers in this order.
AfterFlag(flag) ==
  CASE flag = "packet" -> "latency" [] flag = "latency" -> "counters" [] OTHER -> "none"

\* poll returns when the handler its thread has run returns.
Handle(t) ==
  /\ handler[t] # "none"
  /\ ~Exited
  /\ flags' = flags \cup {handler[t]}
  /\ handler' = [handler EXCEPT ![t] = AfterFlag(@)]
  /\ IF AfterFlag(handler[t]) = "none" /\ pc[t] = "poll"
     THEN Goto(t, "test")
     ELSE UNCHANGED pc
  /\ UNCHANGED <<contexts, joining, socket, ready, signals>>

-----------------------------------------------------------------------------
ThreadStep(t) ==
  \/ t \in CaptureThreads /\ ~Exited /\ CaptureStep(t)
  \/ t \in {Latency, Monitor} /\ ~Exited /\ LeaveLoop(t)
  \/ t = Main /\ MainStep
  \/ Handle(t)

Next ==
  \/ \E t \in AllThreads : ThreadStep(t) \/ Deliver(t)
  \/ \E t \in CaptureThreads : BlockReady(t)

\* Every thread that can take a step takes it in the end.  Nothing obliges the
\* network to fill a block or the operator to press ctrl-C.
Spec == Init /\ [][Next]_vars /\ \A t \in AllThreads : WF_vars(ThreadStep(t))

-----------------------------------------------------------------------------
(* Properties.                                                             *)

Places == {"none", "starting", "reporters", "join", "return", "exited", "open",
           "test", "look", "call", "poll", "loop", "done"}

\* Every variable has its type, a capture thread has its context from its
\* creation on; main joins no more threads than an interface has.
TypeOK ==
  /\ pc \in [AllThreads -> Places]
  /\ DOMAIN contexts = CaptureThreads
  /\ \A t \in CaptureThreads : (contexts[t] = NULL) = (pc[t] = "none")
  /\ joining \in 1 .. NumThreads + 1
  /\ socket \in {"none", "open", "closed"}
  /\ flags \subseteq {"packet", "latency", "counters"}
  /\ handler \in [AllThreads -> {"packet", "latency", "counters", "none"}]
  /\ ready \subseteq CaptureThreads
  /\ signals \in 0 .. MaxSignals

\* While the latency handler or the monitoring thread can still send a gauge,
\* the socket they share is open, whenever the signal comes.
SocketOutlivesReporters ==
  \A t \in {Latency, Monitor} : pc[t] = "loop" => socket = "open"

\* The process ends only after a signal stopped the latency handler and the
\* monitoring thread, and with the capture threads of the first interface done.
\* Those of the other interfaces may still be running.
ExitIsOrderly ==
  Exited =>
    /\ {"latency", "counters"} \subseteq flags
    /\ \A t \in 1 .. NumThreads : pc[t] = "done"

\* After a SIGINT the process ends, unless a capture thread it waits for stays
\* in poll for ever because its interface has gone quiet.
EndsUnlessQuiet ==
  <>(signals > 0) =>
    <>Exited \/ \E t \in 1 .. NumThreads : <>[](pc[t] = "poll" /\ t \notin ready)

\* The usage text: the CPUs match the list of interfaces, the first num-threads
\* CPUs belong to the first interface and so on.
AffinityAsDocumented ==
  \A t \in Created :
    contexts[t].cpu_num = IF t <= Len(Affinity) THEN ParseCpuId(Affinity[t]) ELSE NoCpu

\* The usage text: -c gives the port to capture messages on.
PortAsDocumented ==
  \A t \in Created, k \in DOMAIN Arguments :
    Arguments[k].name = "c" /\ (\A l \in k + 1 .. Len(Arguments) : Arguments[l].name # "c")
      => contexts[t].port = Arguments[k].value

=============================================================================
