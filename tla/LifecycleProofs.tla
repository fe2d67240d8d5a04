-------------------------- MODULE LifecycleProofs --------------------------
(***************************************************************************)
(* Proofs about the life of the process, for every accepted command line   *)
(* with a name in its list of interfaces, and however often SIGINT comes.  *)
(*                                                                         *)
(* A property about the end of the process follows from where main is:     *)
(* MainPlaces says what each place of main tells of the socket and of the  *)
(* two reporters, Stopped that a reporter leaves its loop for its flag and *)
(* Waited that main has been past a pthread_join only with its thread      *)
(* done, from where no step brings a thread back.                          *)
(***************************************************************************)
EXTENDS Lifecycle, FiniteSetTheorems, TLAPS

Reporters == {Latency, Monitor}
MainOnly == {"starting", "reporters", "join", "return", "exited"}
CaptureOnly == {"none", "open", "test", "look", "call", "poll", "done"}

\* Which thread can be where.
WhereTheyAre ==
  /\ pc[Main] \in MainOnly
  /\ \A t \in Reporters : pc[t] \in {"none", "loop", "done"}
  /\ \A t \in CaptureThreads : pc[t] \in CaptureOnly

MainPlaces ==
  /\ pc[Main] = "starting" => socket = "none" /\ pc[Latency] = "none"
  /\ pc[Main] \in {"starting", "reporters"} => pc[Monitor] = "none" /\ joining = 1
  /\ pc[Main] \in {"reporters", "join"} => socket = "open"
  /\ pc[Main] \in {"return", "exited"} =>
       ReportersDone /\ joining = NumThreads + 1

Stopped == \A t \in Reporters : pc[t] = "done" => FlagOf(t) \in flags

Waited == \A t \in 1 .. NumThreads : t < joining => pc[t] = "done"

\* The inductive invariant.
IndInv == TypeOK /\ WhereTheyAre /\ MainPlaces /\ Stopped /\ Waited

-----------------------------------------------------------------------------
(* The threads.                                                            *)

LEMMA ThreadsAre ==
  /\ Main = 0 /\ Latency = -1 /\ Monitor = -2
  /\ TotalThreads \in Nat /\ CaptureThreads = 1 .. TotalThreads
  /\ NumThreads \in Nat \ {0} /\ NumThreads <= TotalThreads
  /\ AllThreads = CaptureThreads \cup {Main, Latency, Monitor}
<1>1. NumInterfaces \in Nat \ {0} /\ NumThreads \in Nat \ {0}
  BY CountsAssumption
<1> DEFINE n == NumInterfaces
           m == NumThreads
<1>2. n \in Nat /\ m \in Nat /\ n # 0 /\ m # 0
  BY <1>1
<1> HIDE DEF n, m
<1>3. n * m \in Nat /\ m <= n * m
  <2>1. PICK k \in Nat : n = k + 1
    <3>1. n - 1 \in Nat /\ n = (n - 1) + 1
      BY ONLY <1>2
    <3> QED
      BY <3>1
  <2>2. (k + 1) * m = k * m + m /\ k * m \in Nat
    BY ONLY <1>2, k \in Nat
  <2> QED
    BY ONLY <1>2, <2>1, <2>2
<1>4. TotalThreads \in Nat /\ NumThreads <= TotalThreads
  BY <1>3 DEF TotalThreads, n, m
<1> QED
  BY <1>1, <1>4 DEF Main, Latency, Monitor, CaptureThreads, AllThreads

\* The four kinds of threads are apart, and main waits for threads there are.
LEMMA ThreadsApart ==
  /\ Main \notin CaptureThreads /\ Latency \notin CaptureThreads
  /\ Monitor \notin CaptureThreads
  /\ Main # Latency /\ Main # Monitor /\ Latency # Monitor
  /\ 1 .. NumThreads \subseteq CaptureThreads
  /\ CaptureThreads \subseteq AllThreads /\ {Main, Latency, Monitor} \subseteq AllThreads
BY ThreadsAre

\* In what follows main and the reporters are just threads.
USE DEF At, Goto, Alive

-----------------------------------------------------------------------------
(* The initial state.                                                      *)

LEMMA InitInv == Init => IndInv
<1> SUFFICES ASSUME Init
             PROVE  IndInv
  OBVIOUS
<1>1. /\ pc = [t \in AllThreads |-> IF t = Main THEN "starting" ELSE "none"]
      /\ contexts = [t \in CaptureThreads |-> NULL]
      /\ joining = 1 /\ socket = "none" /\ flags = {}
      /\ handler = [t \in AllThreads |-> "none"] /\ ready = {} /\ signals = 0
  BY DEF Init
<1>2. pc[Main] = "starting" /\ \A t \in AllThreads \ {Main} : pc[t] = "none"
  BY <1>1, ThreadsApart
<1>3. pc[Latency] = "none" /\ pc[Monitor] = "none" /\ \A t \in CaptureThreads : pc[t] = "none"
  BY <1>2, ThreadsApart
<1>4. TypeOK
  <2>1. pc \in [AllThreads -> Places]
    BY <1>1 DEF Places
  <2>2. /\ DOMAIN contexts = CaptureThreads
        /\ \A t \in CaptureThreads : (contexts[t] = NULL) = (pc[t] = "none")
    BY <1>1, <1>3
  <2>3. joining \in 1 .. NumThreads + 1 /\ signals \in 0 .. MaxSignals
    BY <1>1, ThreadsAre, SignalsAssumption
  <2>4. handler \in [AllThreads -> {"packet", "latency", "counters", "none"}]
    BY <1>1
  <2> QED
    BY <1>1, <2>1, <2>2, <2>3, <2>4 DEF TypeOK
<1>5. WhereTheyAre /\ Stopped
  BY <1>2, <1>3 DEF WhereTheyAre, Stopped, MainOnly, CaptureOnly, Reporters
<1>6. MainPlaces
  BY <1>1, <1>2, <1>3 DEF MainPlaces
<1>7. Waited
  BY <1>1, ThreadsAre DEF Waited
<1> QED
  BY <1>4, <1>5, <1>6, <1>7 DEF IndInv

-----------------------------------------------------------------------------
(* Steps of the capture threads, of the kernel and of the signal.          *)

\* A step of capture thread t from where it lives, on to p; flags may be set.
LEMMA CaptureMoves ==
  ASSUME IndInv, NEW t \in CaptureThreads, pc[t] \notin {"none", "done"},
         NEW p \in CaptureOnly \ {"none"}, pc' = [pc EXCEPT ![t] = p],
         UNCHANGED <<contexts, joining, socket, signals>>,
         flags \subseteq flags', flags' \subseteq {"packet", "latency", "counters"},
         handler' \in [AllThreads -> {"packet", "latency", "counters", "none"}],
         ready' \subseteq CaptureThreads
  PROVE  IndInv'
<1>1. pc \in [AllThreads -> Places] /\ t \in AllThreads
  BY ThreadsApart DEF IndInv, TypeOK
<1>2. /\ pc' \in [AllThreads -> Places] /\ pc'[t] = p
      /\ \A u \in AllThreads \ {t} : pc'[u] = pc[u]
  BY <1>1 DEF Places, CaptureOnly
<1>3. pc'[Main] = pc[Main] /\ pc'[Latency] = pc[Latency] /\ pc'[Monitor] = pc[Monitor]
  BY <1>2, ThreadsApart
<1>4. TypeOK'
  <2>1. \A u \in CaptureThreads : (contexts'[u] = NULL) = (pc'[u] = "none")
    BY <1>2, ThreadsApart DEF IndInv, TypeOK
  <2> QED
    BY <1>2, <2>1 DEF IndInv, TypeOK
<1>5. WhereTheyAre'
  BY <1>2, <1>3, ThreadsApart DEF IndInv, WhereTheyAre, Reporters
<1>6. MainPlaces' /\ Stopped'
  BY <1>3 DEF IndInv, MainPlaces, ReportersDone, Stopped, Reporters, FlagOf
<1>7. Waited'
  BY <1>2, ThreadsApart DEF IndInv, Waited
<1> QED
  BY <1>4, <1>5, <1>6, <1>7 DEF IndInv

\* A step that leaves every thread where it is.
LEMMA NobodyMoves ==
  ASSUME IndInv, UNCHANGED <<pc, contexts, joining, socket>>,
         flags \subseteq flags', flags' \subseteq {"packet", "latency", "counters"},
         handler' \in [AllThreads -> {"packet", "latency", "counters", "none"}],
         ready' \subseteq CaptureThreads, signals' \in 0 .. MaxSignals
  PROVE  IndInv'
<1>1. TypeOK'
  BY DEF IndInv, TypeOK
<1>2. WhereTheyAre' /\ MainPlaces' /\ Stopped' /\ Waited'
  BY DEF IndInv, WhereTheyAre, MainPlaces, ReportersDone, Stopped, Waited, Reporters, FlagOf
<1> QED
  BY <1>1, <1>2 DEF IndInv

LEMMA CaptureInv ==
  ASSUME IndInv, NEW t \in CaptureThreads, CaptureStep(t)
  PROVE  IndInv'
<1>1. /\ flags \subseteq {"packet", "latency", "counters"} /\ ready \subseteq CaptureThreads
      /\ handler \in [AllThreads -> {"packet", "latency", "counters", "none"}]
  BY DEF IndInv, TypeOK
<1>2. /\ pc[t] \notin {"none", "done"}
      /\ \E p \in CaptureOnly \ {"none"} : pc' = [pc EXCEPT ![t] = p]
      /\ UNCHANGED <<contexts, joining, socket, flags, handler, signals>>
      /\ ready' \subseteq ready
  <2>1. CASE SetUp(t)
    BY <2>1 DEF SetUp, CaptureOnly
  <2>2. CASE TestFlag(t)
    BY <2>2 DEF TestFlag, CaptureOnly
  <2>3. CASE WalkBlock(t)
    BY <2>3 DEF WalkBlock, CaptureOnly
  <2>4. CASE LookAgain(t) \/ CallPoll(t) \/ PollReturns(t)
    BY <2>4 DEF LookAgain, CallPoll, PollReturns, CaptureOnly
  <2> QED
    BY <2>1, <2>2, <2>3, <2>4 DEF CaptureStep
<1>3. PICK p \in CaptureOnly \ {"none"} : pc' = [pc EXCEPT ![t] = p]
  BY <1>2
<1> QED
  BY <1>1, <1>2, <1>3, CaptureMoves

LEMMA BlockInv ==
  ASSUME IndInv, NEW t \in CaptureThreads, BlockReady(t)
  PROVE  IndInv'
<1>1. /\ flags' = flags /\ handler' = handler /\ signals' = signals
      /\ ready' = ready \cup {t} /\ UNCHANGED <<pc, contexts, joining, socket>>
  BY DEF BlockReady
<1>2. /\ flags \subseteq {"packet", "latency", "counters"} /\ ready \subseteq CaptureThreads
      /\ handler \in [AllThreads -> {"packet", "latency", "counters", "none"}]
      /\ signals \in 0 .. MaxSignals
  BY DEF IndInv, TypeOK
<1> QED
  BY <1>1, <1>2, NobodyMoves

LEMMA DeliverInv ==
  ASSUME IndInv, NEW t \in AllThreads, Deliver(t)
  PROVE  IndInv'
<1>1. /\ flags' = flags /\ handler' = [handler EXCEPT ![t] = "packet"]
      /\ signals < MaxSignals /\ signals' = signals + 1 /\ ready' = ready
      /\ UNCHANGED <<pc, contexts, joining, socket>>
  BY DEF Deliver
<1>2. /\ flags \subseteq {"packet", "latency", "counters"} /\ ready \subseteq CaptureThreads
      /\ handler \in [AllThreads -> {"packet", "latency", "counters", "none"}]
      /\ signals \in 0 .. MaxSignals
  BY DEF IndInv, TypeOK
<1>3. handler' \in [AllThreads -> {"packet", "latency", "counters", "none"}]
      /\ signals' \in 0 .. MaxSignals
  BY <1>1, <1>2, SignalsAssumption
<1> QED
  BY <1>1, <1>2, <1>3, NobodyMoves

\* The handler sets a flag; if it was the last, a poll it interrupted returns.
LEMMA HandleInv ==
  ASSUME IndInv, NEW t \in AllThreads, Handle(t)
  PROVE  IndInv'
<1>1. /\ flags \subseteq {"packet", "latency", "counters"} /\ ready \subseteq CaptureThreads
      /\ handler \in [AllThreads -> {"packet", "latency", "counters", "none"}]
      /\ signals \in 0 .. MaxSignals
  BY DEF IndInv, TypeOK
<1>2. /\ flags' = flags \cup {handler[t]} /\ handler[t] # "none"
      /\ handler' = [handler EXCEPT ![t] = AfterFlag(handler[t])]
      /\ UNCHANGED <<contexts, joining, socket, ready, signals>>
      /\ \/ pc[t] = "poll" /\ pc' = [pc EXCEPT ![t] = "test"]
         \/ pc' = pc
  BY DEF Handle
<1>3. /\ flags \subseteq flags' /\ flags' \subseteq {"packet", "latency", "counters"}
      /\ handler' \in [AllThreads -> {"packet", "latency", "counters", "none"}]
  BY <1>1, <1>2 DEF AfterFlag
<1>4. CASE pc' = pc
  BY <1>1, <1>2, <1>3, <1>4, NobodyMoves
<1>5. CASE pc[t] = "poll" /\ pc' = [pc EXCEPT ![t] = "test"]
  <2>1. t \in CaptureThreads
    BY <1>5, ThreadsAre DEF IndInv, WhereTheyAre, MainOnly, Reporters
  <2>2. "test" \in CaptureOnly \ {"none"}
    BY DEF CaptureOnly
  <2> QED
    BY <1>1, <1>2, <1>3, <1>5, <2>1, <2>2, CaptureMoves
<1> QED
  BY <1>2, <1>4, <1>5

-----------------------------------------------------------------------------
(* Steps of the reporters and of main.                                     *)

LEMMA LeaveInv ==
  ASSUME IndInv, NEW t \in Reporters, LeaveLoop(t)
  PROVE  IndInv'
<1>1. /\ pc[t] = "loop" /\ FlagOf(t) \in flags /\ pc' = [pc EXCEPT ![t] = "done"]
      /\ UNCHANGED <<contexts, joining, socket, flags, handler, ready, signals>>
  BY DEF LeaveLoop
<1>2. t \in AllThreads /\ t \notin CaptureThreads /\ t # Main
  BY ThreadsApart DEF Reporters
<1>3. /\ pc' \in [AllThreads -> Places] /\ pc'[t] = "done"
      /\ \A u \in AllThreads \ {t} : pc'[u] = pc[u]
  BY <1>1, <1>2 DEF IndInv, TypeOK, Places
<1>4. /\ \A u \in CaptureThreads : pc'[u] = pc[u]
      /\ pc'[Main] = pc[Main] /\ \A u \in Reporters : pc'[u] = pc[u] \/ u = t
  BY <1>2, <1>3, ThreadsApart DEF Reporters
<1>5. TypeOK'
  BY <1>1, <1>3, <1>4 DEF IndInv, TypeOK
<1>6. WhereTheyAre'
  BY <1>3, <1>4 DEF IndInv, WhereTheyAre
<1>7. MainPlaces'
  BY <1>1, <1>3, <1>4 DEF IndInv, MainPlaces, ReportersDone, Reporters
<1>8. Stopped'
  BY <1>1, <1>4 DEF IndInv, Stopped, FlagOf
<1>9. Waited'
  BY <1>1, <1>4, ThreadsApart DEF IndInv, Waited
<1> QED
  BY <1>5, <1>6, <1>7, <1>8, <1>9 DEF IndInv

LEMMA StartCaptureInv ==
  ASSUME IndInv, StartCapture
  PROVE  IndInv'
<1> DEFINE idx == Cardinality(Created) + 1
<1>1. /\ pc[Main] = "starting" /\ idx <= TotalThreads
      /\ pc' = [pc EXCEPT ![idx] = "open"]
      /\ contexts' = [contexts EXCEPT ![idx] = ContextOf(idx)]
      /\ UNCHANGED <<joining, socket, flags, handler, ready, signals>>
  BY DEF StartCapture
<1>2. idx \in CaptureThreads
  <2>1. IsFiniteSet(CaptureThreads)
    BY ThreadsAre, FS_Interval
  <2>2. Created \subseteq CaptureThreads
    BY DEF Created
  <2>3. Cardinality(Created) \in Nat
    BY <2>1, <2>2, FS_Subset, FS_CardinalityType
  <2> QED
    BY <1>1, <2>3, ThreadsAre
<1> HIDE DEF idx
<1>3. idx \in AllThreads /\ idx # Main /\ idx \notin Reporters
  BY <1>2, ThreadsApart DEF Reporters
<1>4. /\ pc' \in [AllThreads -> Places] /\ pc'[idx] = "open"
      /\ \A u \in AllThreads \ {idx} : pc'[u] = pc[u]
  BY <1>1, <1>3 DEF IndInv, TypeOK, Places
<1>5. pc'[Main] = pc[Main] /\ \A u \in Reporters : pc'[u] = pc[u]
  BY <1>3, <1>4, ThreadsApart DEF Reporters
<1>6. TypeOK'
  <2>1. ASSUME NEW u \in CaptureThreads
        PROVE  (contexts'[u] = NULL) = (pc'[u] = "none")
    <3>1. contexts'[idx] # NULL
      BY <1>1, <1>2, ContextAssumption DEF IndInv, TypeOK
    <3>2. u # idx => contexts'[u] = contexts[u] /\ pc'[u] = pc[u]
      BY <1>1, <1>4, ThreadsApart DEF IndInv, TypeOK
    <3> QED
      BY <1>4, <3>1, <3>2 DEF IndInv, TypeOK
  <2> QED
    BY <1>1, <1>4, <2>1 DEF IndInv, TypeOK
<1>7. WhereTheyAre'
  BY <1>4, <1>5, ThreadsApart DEF IndInv, WhereTheyAre, CaptureOnly
<1>8. MainPlaces' /\ Stopped'
  BY <1>1, <1>5 DEF IndInv, MainPlaces, ReportersDone, Reporters, Stopped, FlagOf
<1>9. Waited'
  BY <1>1, ThreadsAre DEF IndInv, MainPlaces, Waited
<1> QED
  BY <1>6, <1>7, <1>8, <1>9 DEF IndInv

\* Main goes from one place to another; only it and a reporter it creates move.
LEMMA MainMoves ==
  ASSUME IndInv, NEW p \in MainOnly, NEW f \in [Reporters -> {"none", "loop", "done"}],
         pc' \in [AllThreads -> Places], pc'[Main] = p,
         \A t \in Reporters : pc'[t] = f[t] /\ (f[t] = pc[t] \/ f[t] = "loop"),
         \A t \in CaptureThreads : pc'[t] = pc[t],
         socket' \in {"none", "open", "closed"},
         UNCHANGED <<contexts, joining, flags, handler, ready, signals>>,
         MainPlaces'
  PROVE  IndInv'
<1>1. TypeOK'
  BY DEF IndInv, TypeOK
<1>2. WhereTheyAre'
  BY DEF IndInv, WhereTheyAre
<1>3. Stopped'
  BY DEF IndInv, Stopped, FlagOf
<1>4. Waited'
  BY ThreadsApart DEF IndInv, Waited
<1> QED
  BY <1>1, <1>2, <1>3, <1>4 DEF IndInv

LEMMA MainInv ==
  ASSUME IndInv, MainStep
  PROVE  IndInv'
<1>1. /\ pc \in [AllThreads -> Places] /\ Main \in AllThreads
      /\ Latency \in AllThreads /\ Monitor \in AllThreads
      /\ socket \in {"none", "open", "closed"} /\ joining \in 1 .. NumThreads + 1
  BY ThreadsApart DEF IndInv, TypeOK
<1>2. \A t \in Reporters : pc[t] \in {"none", "loop", "done"}
  BY DEF IndInv, WhereTheyAre
<1> DEFINE f == [t \in Reporters |-> pc[t]]
<1>3. /\ f \in [Reporters -> {"none", "loop", "done"}]
      /\ f[Latency] = pc[Latency] /\ f[Monitor] = pc[Monitor]
  BY <1>2 DEF Reporters
<1>4. ASSUME NEW p \in MainOnly, pc' = [pc EXCEPT ![Main] = p],
             socket' \in {"none", "open", "closed"},
             UNCHANGED <<contexts, joining, flags, handler, ready, signals>>,
             /\ p \in {"starting", "reporters"} => pc[Monitor] = "none" /\ joining = 1
             /\ p \in {"reporters", "join"} => socket' = "open"
             /\ p \in {"return", "exited"} => ReportersDone /\ joining = NumThreads + 1
             /\ p # "starting"
      PROVE  IndInv'
  <2>1. /\ pc' \in [AllThreads -> Places] /\ pc'[Main] = p
        /\ \A t \in AllThreads \ {Main} : pc'[t] = pc[t]
    BY <1>1, <1>4 DEF Places, MainOnly
  <2>2. /\ \A t \in Reporters : pc'[t] = pc[t]
        /\ \A t \in CaptureThreads : pc'[t] = pc[t]
    BY <2>1, ThreadsApart DEF Reporters
  <2>3. MainPlaces'
    BY <1>4, <2>1, <2>2 DEF MainPlaces, ReportersDone, Reporters
  <2>4. \A t \in Reporters : pc'[t] = f[t] /\ (f[t] = pc[t] \/ f[t] = "loop")
    BY <2>2
  <2> HIDE DEF f
  <2> QED
    BY <1>3, <1>4, <2>1, <2>2, <2>3, <2>4, MainMoves
<1>5. CASE StartCapture
  BY <1>5, StartCaptureInv
<1>6. CASE OpenSocket
  BY <1>4, <1>6 DEF OpenSocket, MainOnly, IndInv, MainPlaces
<1>7. ASSUME NEW t \in Reporters, StartReporter(t)
      PROVE  IndInv'
  <2> DEFINE p == IF t = Monitor THEN "join" ELSE "reporters"
             g == [u \in Reporters |-> IF u = t THEN "loop" ELSE pc[u]]
  <2>1. /\ pc[Main] = "reporters" /\ pc[t] = "none"
        /\ pc' = [pc EXCEPT ![t] = "loop", ![Main] = IF t = Monitor THEN "join" ELSE @]
        /\ UNCHANGED <<contexts, joining, socket, flags, handler, ready, signals>>
    BY <1>7 DEF StartReporter
  <2>2. t \in AllThreads /\ t # Main /\ t \in {Latency, Monitor}
    BY ThreadsApart DEF Reporters
  <2>3. /\ pc' \in [AllThreads -> Places] /\ pc'[Main] = p /\ pc'[t] = "loop"
        /\ \A u \in AllThreads \ {Main, t} : pc'[u] = pc[u]
    BY <1>1, <2>1, <2>2 DEF Places
  <2>4. /\ \A u \in Reporters : pc'[u] = g[u] /\ (g[u] = pc[u] \/ g[u] = "loop")
        /\ \A u \in CaptureThreads : pc'[u] = pc[u]
    BY <2>2, <2>3, ThreadsApart DEF Reporters
  <2>5. g \in [Reporters -> {"none", "loop", "done"}] /\ p \in MainOnly
    BY <1>2 DEF MainOnly
  <2>6. MainPlaces'
    <3>1. p = "reporters" => t # Monitor /\ pc'[Monitor] = pc[Monitor]
      BY <2>2, <2>3, ThreadsApart
    <3> QED
      BY <2>1, <2>3, <3>1 DEF IndInv, MainPlaces
  <2> HIDE DEF g, p
  <2> QED
    BY <1>1, <2>1, <2>3, <2>4, <2>5, <2>6, MainMoves
<1>8. CASE JoinCapture
  <2>1. /\ pc[Main] = "join" /\ joining \in 1 .. NumThreads /\ pc[joining] = "done"
        /\ joining' = joining + 1
        /\ UNCHANGED <<pc, contexts, socket, flags, handler, ready, signals>>
    BY <1>8 DEF JoinCapture, Joined
  <2>2. TypeOK'
    BY <2>1, ThreadsAre DEF IndInv, TypeOK
  <2>3. WhereTheyAre' /\ Stopped'
    BY <2>1 DEF IndInv, WhereTheyAre, Stopped, FlagOf
  <2>4. MainPlaces'
    BY <2>1 DEF IndInv, MainPlaces
  <2>5. ASSUME NEW t \in 1 .. NumThreads, t < joining'
        PROVE  pc[t] = "done"
    <3>1. t < joining \/ t = joining
      BY <1>1, <2>1, <2>5, ThreadsAre
    <3> QED
      BY <2>1, <3>1 DEF IndInv, Waited
  <2>6. Waited'
    BY <2>1, <2>5 DEF Waited
  <2> QED
    BY <2>2, <2>3, <2>4, <2>6 DEF IndInv
<1>9. CASE CloseSocket
  <2>1. joining = NumThreads + 1
    BY <1>1, <1>9, ThreadsAre DEF CloseSocket, Joined
  <2> QED
    BY <1>4, <1>9, <2>1 DEF CloseSocket, MainOnly
<1>10. CASE Exit
  BY <1>1, <1>4, <1>10 DEF Exit, MainOnly, IndInv, MainPlaces
<1> QED
  BY <1>5, <1>6, <1>7, <1>8, <1>9, <1>10 DEF MainStep, Reporters

LEMMA StutterInv ==
  ASSUME IndInv, UNCHANGED vars
  PROVE  IndInv'
BY DEF IndInv, TypeOK, WhereTheyAre, MainPlaces, ReportersDone, Stopped, Waited, Reporters,
       FlagOf, vars

-----------------------------------------------------------------------------
\* The invariant holds wherever the signals come.
THEOREM Invariance == Spec => []IndInv
<1>1. Init => IndInv
  BY InitInv
<1>2. IndInv /\ [Next]_vars => IndInv'
  <2> SUFFICES ASSUME IndInv, [Next]_vars
               PROVE  IndInv'
    OBVIOUS
  <2>1. ASSUME NEW t \in AllThreads, ThreadStep(t) \/ Deliver(t)
        PROVE  IndInv'
    <3>1. CASE t \in CaptureThreads /\ CaptureStep(t)
      BY <3>1, CaptureInv
    <3>2. CASE t \in {Latency, Monitor} /\ LeaveLoop(t)
      BY <3>2, LeaveInv DEF Reporters
    <3>3. CASE MainStep
      BY <3>3, MainInv
    <3>4. CASE Handle(t)
      BY <3>4, HandleInv
    <3>5. CASE Deliver(t)
      BY <3>5, DeliverInv
    <3> QED
      BY <2>1, <3>1, <3>2, <3>3, <3>4, <3>5 DEF ThreadStep
  <2>2. ASSUME NEW t \in CaptureThreads, BlockReady(t)
        PROVE  IndInv'
    BY <2>2, BlockInv
  <2>3. CASE UNCHANGED vars
    BY <2>3, StutterInv
  <2> QED
    BY <2>1, <2>2, <2>3 DEF Next
<1> QED
  BY <1>1, <1>2, PTL DEF Spec

-----------------------------------------------------------------------------
(* The properties that TLC checks on small instances.                      *)

\* Every variable keeps its type, and main waits for no more threads than the
\* first interface has, however many interfaces there are.
THEOREM TypeCorrect == Spec => []TypeOK
<1>1. IndInv => TypeOK
  BY DEF IndInv
<1> QED
  BY <1>1, Invariance, PTL

\* jodie_close comes after the last gauge: as long as one of the reporting threads
\* is in its loop, the socket both send on is open.
THEOREM SocketOutlives == Spec => []SocketOutlivesReporters
<1>1. IndInv => SocketOutlivesReporters
  <2> SUFFICES ASSUME IndInv, NEW t \in {Latency, Monitor}, pc[t] = "loop"
               PROVE  socket = "open"
    BY DEF SocketOutlivesReporters
  <2>1. pc[Main] \notin {"starting", "return", "exited"}
    BY DEF IndInv, MainPlaces, ReportersDone
  <2> QED
    BY <2>1 DEF IndInv, MainPlaces, WhereTheyAre, MainOnly
<1> QED
  BY <1>1, Invariance, PTL

\* main returns only after a signal has stopped both reporting threads and all the
\* capture threads of the first interface are done.
THEOREM ExitsInOrder == Spec => []ExitIsOrderly
<1>1. IndInv => ExitIsOrderly
  <2> SUFFICES ASSUME IndInv, Exited
               PROVE  ExitIsOrderly
    BY DEF ExitIsOrderly
  <2>1. ReportersDone /\ joining = NumThreads + 1
    BY DEF Exited, IndInv, MainPlaces
  <2>2. {"latency", "counters"} \subseteq flags
    BY <2>1, ThreadsApart DEF IndInv, Stopped, ReportersDone, Reporters, FlagOf
  <2>3. \A t \in 1 .. NumThreads : pc[t] = "done"
    BY <2>1, ThreadsAre DEF IndInv, Waited
  <2> QED
    BY <2>2, <2>3 DEF ExitIsOrderly
<1> QED
  BY <1>1, Invariance, PTL

=============================================================================
