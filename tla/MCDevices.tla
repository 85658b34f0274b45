----------------------------- MODULE MCDevices -----------------------------
(***************************************************************************)
(* Devices for TLC: a ring of two characters with indexes that wrap at 4,  *)
(* and ticks that wrap at 3, so that sleep(-1) is sleep(2).                *)
(***************************************************************************)
EXTENDS Devices, TLC

CONSTANTS p1, p2

MCNaps == {-1, 0, 1}

\* Two readers, one of which also writes, while keys are typed; and two processes
\* that sleep while the clock ticks.  One of them may be killed.
MCWorkloads ==
  {[calls |-> (p1 :> {"read", "killed", "fault"} @@ p2 :> {"read", "write"}), irqs |-> {"keyboard"}],
   [calls |-> (p1 :> {"sleep", "killed"} @@ p2 :> {"sleep", "uptime"}), irqs |-> {"timer"}]}
============================================================================
