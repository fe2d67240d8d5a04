------------------------------ MODULE Options ------------------------------
(***************************************************************************)
(* The command line of vmars: how main of src/src/main.c makes its         *)
(* configuration of the options, one after the other, and which            *)
(* configurations it refuses.                                              *)
(*                                                                         *)
(* An option is [name, value], a number is a number.  The value of -a is   *)
(* the sequence of its items, none of them empty: leads is the number an   *)
(* item begins with, 0 if with none; whole is whether that is all of it.   *)
(***************************************************************************)
EXTENDS Integers, Sequences, SequencesExt

CONSTANT NULL

\* set_default_config: all zero, no affinity.
DefaultConfig ==
  [interfaces |-> NULL, num_threads |-> 0, affinity |-> <<>>, capture_port |-> 0,
   udp_host |-> NULL, udp_port |-> 0, use_hw_timestamps |-> 0]

\* atoi of a list: what its first item begins with.
AtoiList(list) == IF list = <<>> THEN 0 ELSE Head(list).leads

\* parse_cpu_id: an item that is not a number from end to end is none.
NoCpu == -1
ParseCpuId(item) == IF item.whole THEN item.leads ELSE NoCpu

\* One turn of the loop over the options.  The case of -a runs on into that of -c.
TakeOption(config, option) ==
  CASE option.name = "i" -> [config EXCEPT !.interfaces = option.value]
    [] option.name = "t" -> [config EXCEPT !.num_threads = option.value]
    [] option.name = "a" -> [config EXCEPT !.affinity = option.value,
                                           !.capture_port = AtoiList(option.value)]
    [] option.name = "c" -> [config EXCEPT !.capture_port = option.value]
    [] option.name = "h" -> [config EXCEPT !.udp_host = option.value]
    [] option.name = "p" -> [config EXCEPT !.udp_port = option.value]
    [] option.name = "H" -> [config EXCEPT !.use_hw_timestamps = 1]

Configured(arguments) == FoldLeft(TakeOption, DefaultConfig, arguments)

\* The tests after the loop; an unknown option has ended the program before.
Accepted(config) ==
  /\ config.num_threads >= 1
  /\ config.interfaces # NULL
  /\ config.capture_port # -1
  /\ config.udp_host # NULL
  /\ config.udp_port # 0

=============================================================================
