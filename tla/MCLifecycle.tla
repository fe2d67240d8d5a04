--------------------------- MODULE MCLifecycle ---------------------------
(* Small instances of Lifecycle for TLC: command lines. *)
EXTENDS Lifecycle

Option(name, value) == [name |-> name, value |-> value]
Cpus(numbers) == [i \in DOMAIN numbers |-> [leads |-> numbers[i], whole |-> TRUE]]

Needed(interfaces, threads) ==
  <<Option("i", interfaces), Option("c", 9999), Option("t", threads),
    Option("h", "127.0.0.1"), Option("p", 41000)>>

\* The line of the README, with a second interface.
TwoInterfaces == Needed(<<"lo", "eth0">>, 1)

\* A CPU for each thread.
FourCpus == <<Option("a", Cpus(<<0, 2, 4, 6>>))>> \o Needed(<<"lo", "eth0">>, 2)

\* Two CPUs, given after the port.
CpusLast == Needed(<<"lo">>, 2) \o <<Option("a", Cpus(<<2, 4>>))>>

=============================================================================
