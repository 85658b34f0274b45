---------------------------- MODULE SleepWakeup ----------------------------
(***************************************************************************)
(* The blocking primitive of the kernel (kernel/proc.c: sleep, wakeup1,    *)
(* kill), shared by every module in which a process waits for another.     *)
(*                                                                         *)
(* RUNNABLE and RUNNING are one state here: a process that is not asleep   *)
(* may take its next step at any time, as on a machine that has a CPU for  *)
(* each of them.  Which runnable process a CPU picks is module Mlfq.       *)
(*                                                                         *)
(* The operators are functions of the process states, so that a handler    *)
(* that wakes others and then sleeps is still one assignment to state.     *)
(***************************************************************************)
CONSTANTS Proc,     \* the processes (and clone()d threads) taking part
          NoChan    \* proc->chan = 0

VARIABLES state,    \* proc->state
          chan,     \* proc->chan
          killed    \* proc->killed

SleepTypeOK ==
  /\ state \in [Proc -> {"RUNNABLE", "SLEEPING"}]
  /\ killed \in [Proc -> BOOLEAN]

SleepInit ==
  /\ state = [p \in Proc |-> "RUNNABLE"]
  /\ chan = [p \in Proc |-> NoChan]
  /\ killed = [p \in Proc |-> FALSE]

\* wakeup1(chan), with ptable.lock held: every sleeper on c, and nobody else.
wakeup1(st, c) ==
  [p \in Proc |-> IF st[p] = "SLEEPING" /\ chan[p] = c THEN "RUNNABLE" ELSE st[p]]

\* The two assignments of sleep() before it calls sched().
fall_asleep(st, p) == [st EXCEPT ![p] = "SLEEPING"]

\* kill(pid): mark the process, and wake it if it sleeps on whatever channel.
\* sleep() clears chan only when the process runs again.
kill(p) ==
  /\ killed' = [killed EXCEPT ![p] = TRUE]
  /\ state' = [state EXCEPT ![p] = IF @ = "SLEEPING" THEN "RUNNABLE" ELSE @]
  /\ UNCHANGED chan
============================================================================
