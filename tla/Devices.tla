------------------------------ MODULE Devices ------------------------------
(***************************************************************************)
(* Processes that wait for the console and for the clock: trap() of        *)
(* kernel/trap.c with the system calls read and write on the console,      *)
(* sleep and uptime, the interrupts of keyboard, serial line and timer,    *)
(* and kill().  The rest of exit() is module ProcTable, which process a    *)
(* tick hands the CPU to is module Mlfq.                                   *)
(***************************************************************************)
EXTENDS Console, Clock

CONSTANT Workloads  \* what may happen: [calls |-> of each process, irqs |-> of the devices]

VARIABLE load       \* the one of them that does

vars == <<sleepers, ring, iplock, reading, pc, clock, load>>

TypeOK ==
  /\ SleepTypeOK /\ chan \in [Proc -> {"input.r", "ticks", NoChan}]
  /\ {r, w, e} \subseteq 0 .. WORD - 1 /\ ticks \in 0 .. TICKWORD - 1
  /\ buf \in [0 .. INPUT_BUF - 1 -> Char]
  /\ iplock \in Proc \cup {NoProc}

Init == SleepInit /\ ConsoleInit /\ ClockInit /\ load \in Workloads

\* acquire(&tickslock) succeeds.
TicksFree == \A p \in Proc : pc[p] # "ticks_sleep"

sys_uptime(p) ==
  /\ TicksFree
  /\ ret' = [ret EXCEPT ![p] = ticks]
  /\ Goto(p, "return")
  /\ UNCHANGED <<sleepers, ring, iplock, n, target, clock>>

\* syscall(): a process that was killed does not get that far.
syscall(p) ==
  /\ At(p, "user") /\ ~killed[p]
  /\ \/ /\ "read" \in load.calls[p]
        /\ \E size \in Sizes : lock_inode(p, "read", size)
        /\ UNCHANGED clock
     \/ /\ "write" \in load.calls[p]
        /\ \E size \in Sizes : lock_inode(p, "write", size)
        /\ UNCHANGED clock
     \/ /\ "sleep" \in load.calls[p] /\ TicksFree
        /\ \E t \in Naps : sleep_begin(p, t)
        /\ Goto(p, "sleep")
        /\ UNCHANGED <<ring, iplock, reading>>
     \/ "uptime" \in load.calls[p] /\ sys_uptime(p)

console(p) ==
  /\ \/ iunlock(p) \/ consoleread(p) \/ consolewrite(p) \/ ilock(p) \/ unlock_inode(p)
  /\ UNCHANGED clock

\* The loop of sys_sleep: its tests, and its call of sleep().
sys_sleep(p) ==
  /\ \/ /\ At(p, "sleep") /\ TicksFree
        /\ Waiting(p) /\ ~killed[p]
        /\ Goto(p, "ticks_sleep")
        /\ UNCHANGED <<clock, sleepers, ret>>
     \/ /\ At(p, "ticks_sleep")
        /\ sleep_again(p)
        /\ Goto(p, "sleep")
        /\ UNCHANGED ret
     \/ /\ At(p, "sleep") /\ TicksFree
        /\ sleep_end(p)
        /\ Goto(p, "return")
        /\ ret' = [ret EXCEPT ![p] = IF Waiting(p) THEN -1 ELSE 0]
  /\ UNCHANGED <<ring, iplock, n, target>>

\* Back in trap() after syscall(): exit if killed, else return to the program.
sysreturn(p) ==
  /\ At(p, "return")
  /\ Goto(p, IF killed[p] THEN "exit" ELSE "user")
  /\ ret' = [ret EXCEPT ![p] = 0]
  /\ ticks0' = [ticks0 EXCEPT ![p] = 0]
  /\ nap' = [nap EXCEPT ![p] = 0]
  /\ since' = [since EXCEPT ![p] = TICKWORD]
  /\ UNCHANGED <<sleepers, ring, iplock, n, target, ticks>>

\* An interrupt, or the next system call, finds a killed process in its program.
user_trap(p) ==
  /\ At(p, "user") /\ killed[p]
  /\ Goto(p, "exit")
  /\ UNCHANGED <<sleepers, ring, iplock, reading, clock>>

\* default: the program does something the hardware refuses.
fault(p) ==
  /\ "fault" \in load.calls[p] /\ At(p, "user")
  /\ killed' = [killed EXCEPT ![p] = TRUE]
  /\ Goto(p, "exit")
  /\ UNCHANGED <<state, chan, ring, iplock, reading, clock>>

sys_kill ==
  /\ \E p \in Proc : "killed" \in load.calls[p] /\ pc[p] # "exit" /\ ~killed[p] /\ kill(p)
  /\ UNCHANGED <<ring, iplock, reading, pc, clock>>

tick == "timer" \in load.irqs /\ TicksFree /\ timer /\ UNCHANGED <<ring, iplock, reading, pc>>

keyboard == "keyboard" \in load.irqs /\ consoleintr /\ UNCHANGED clock

Step(p) == (console(p) \/ sys_sleep(p) \/ sysreturn(p) \/ user_trap(p)) /\ UNCHANGED load
Tick == tick /\ UNCHANGED load

Next ==
  \/ Tick
  \/ (keyboard \/ sys_kill \/ \E p \in Proc : syscall(p) \/ fault(p)) /\ UNCHANGED load
  \/ \E p \in Proc : Step(p)

Spec == Init /\ [][Next]_vars

\* The timer keeps interrupting; a process in sys_sleep that can run runs, and
\* before ticks has gone all the way around.
FairSpec ==
  /\ Spec
  /\ WF_vars(Tick)
  /\ \A p \in Proc : WF_vars(sys_sleep(p) /\ UNCHANGED load)
  /\ \A p \in Proc : SF_vars(sys_sleep(p) /\ pc'[p] = "return" /\ UNCHANGED load)

----------------------------------------------------------------------------
\* The ring is the console AbstractConsole describes: consoleintr edits only the
\* line being typed, no character is lost, read twice or overwritten when the
\* indexes wrap, and one read takes at most one line.
Abstract == INSTANCE AbstractConsole WITH
  Char <- Char, Ends <- {NL, EOT}, Capacity <- INPUT_BUF, line <- Line, ready <- Ready
ImplementsConsole == Abstract!Spec

\* consoleread: a ^D is used up only by a read that returns 0, so that every end
\* of file is seen by some caller.
EofSeen ==
  [][\A i \in 1 .. Len(Ready) :
       Ready[i] = EOT /\ i <= (r' - r) % WORD
         => \E p \in Proc : pc[p] = "consoleread" /\ pc'[p] = "ilock" /\ ret'[p] = 0]_vars

\* sys_sleep: the call returns 0 only after as many ticks as were asked for,
\* whatever ticks was when it began.
SleptEnough ==
  \A p \in Proc : pc[p] = "return" /\ ret[p] = 0 /\ nap[p] > 0 => since[p] >= nap[p]

\* sys_sleep and the timer interrupt: a call with a time that is not negative
\* returns, and so does every call of a process that is killed, even if the kill
\* came too late to be seen before sleep(): the next tick wakes it.
SleepReturns ==
  \A p \in Proc : (pc[p] = "sleep" /\ (nap[p] >= 0 \/ killed[p])) ~> pc[p] = "return"

\* consoleintr and consoleread: no reader sleeps while a line is in the ring.
NoLineLeft == \A p \in Proc : state[p] = "SLEEPING" /\ chan[p] = "input.r" => r = w
============================================================================
