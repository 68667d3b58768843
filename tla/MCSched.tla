------------------------------- MODULE MCSched -------------------------------
(* Instances of Sched for TLC. *)
EXTENDS Sched

CONSTANTS boot, idle,  \* the structures of main() and of idle
          Other        \* memory for further threads

MCTask == {boot, idle} \cup Other

MarkedWindow == {"marked"}
ExitWindows == {"exit", "marked"}

AnyThread == 1 .. MaxThreads - 1
=============================================================================
