------------------------------- MODULE Clock -------------------------------
(***************************************************************************)
(* The clock (trap.c: the timer interrupt) and the calls that wait for it  *)
(* (sysproc.c: sys_sleep, sys_uptime).  ticks is an unsigned int that      *)
(* wraps around at TICKWORD.  What runs inside tickslock is one step, but  *)
(* for the moment between the test of proc->killed and sleep().            *)
(***************************************************************************)
EXTENDS SleepWakeup, Integers

CONSTANTS TICKWORD, Naps    \* Naps: the arguments of sleep()

ASSUME TickAssumption == TICKWORD \in Nat \ {0}
ASSUME NapAssumption == Naps \subseteq -TICKWORD .. TICKWORD - 1

VARIABLES ticks,
          ticks0, nap,   \* the locals ticks0 and n of each sys_sleep
          since          \* ticks that really went by since ticks0, at most TICKWORD
                         \* (and TICKWORD when there is no call)

clock == <<ticks, ticks0, nap, since>>

ClockInit ==
  /\ ticks = 0
  /\ ticks0 = [p \in Proc |-> 0]
  /\ nap = [p \in Proc |-> 0]
  /\ since = [p \in Proc |-> TICKWORD]

\* case T_IRQ0 + IRQ_TIMER, on cpu 0.
timer ==
  /\ ticks' = (ticks + 1) % TICKWORD
  /\ since' = [p \in Proc |-> IF since[p] < TICKWORD THEN since[p] + 1 ELSE TICKWORD]
  /\ state' = wakeup1(state, "ticks")
  /\ UNCHANGED <<ticks0, nap, chan, killed>>

\* Mutation: compare with the tick at which to wake up.
Waiting_until(p) == ticks < ticks0[p] + nap[p]

\* Mutation: one tick too few.
Waiting_less(p) == ((ticks - ticks0[p]) % TICKWORD) + 1 < nap[p] % TICKWORD

\* ticks - ticks0 < n: the int n is converted to unsigned.
Waiting(p) == (ticks - ticks0[p]) % TICKWORD < nap[p] % TICKWORD

sleep_begin(p, n) ==
  /\ ticks0' = [ticks0 EXCEPT ![p] = ticks]
  /\ nap' = [nap EXCEPT ![p] = n]
  /\ since' = [since EXCEPT ![p] = 0]
  /\ UNCHANGED <<ticks, state, chan, killed>>

sleep_again(p) ==
  /\ state' = fall_asleep(state, p)
  /\ chan' = [chan EXCEPT ![p] = "ticks"]
  /\ UNCHANGED <<clock, killed>>

sleep_end(p) ==
  /\ Waiting(p) => killed[p]
  /\ chan' = [chan EXCEPT ![p] = NoChan]
  /\ UNCHANGED <<ticks, ticks0, nap, since, state, killed>>
============================================================================
