----------------------------- MODULE LockBasic -----------------------------
(***************************************************************************)
(* user/lock_basic.c: threads made by clone() increment a shared counter   *)
(* under a semaphore of count 1.  The threads' user code is composed with  *)
(* the kernel's sem_wait and sem_post of module Semaphore; main() has      *)
(* created the semaphore, so Created = <<1>>.                              *)
(***************************************************************************)
EXTENDS Semaphore

CONSTANT NUM_ITERATIONS

ASSUME IterationsAssumption == NUM_ITERATIONS \in Nat \ {0}

VARIABLES sum,      \* the shared counter
          local,    \* the local variable of func()
          i,        \* its loop counter
          upc       \* the statement of func() the thread is at

user == <<sum, local, i, upc>>
lbvars == <<vars, user>>
sem_num == 0

LBInit ==
  /\ Init
  /\ sum = 0
  /\ local = [p \in Proc |-> 0]
  /\ i = [p \in Proc |-> 0]
  /\ upc = [p \in Proc |-> "wait"]

Then(p, l) == upc' = [upc EXCEPT ![p] = l]

\* The loop test of func() and sem_wait(sem_num).
func_wait(p) ==
  /\ upc[p] = "wait" /\ i[p] < NUM_ITERATIONS
  /\ sem_wait(p, sem_num)
  /\ Then(p, "load")
  /\ UNCHANGED <<sum, local, i>>

func_load(p) ==
  /\ At(p, "user") /\ upc[p] = "load"
  /\ local' = [local EXCEPT ![p] = sum + 1]
  /\ Then(p, "store")
  /\ UNCHANGED <<vars, sum, i>>

func_store(p) ==
  /\ At(p, "user") /\ upc[p] = "store"
  /\ sum' = local[p]
  /\ Then(p, "post")
  /\ UNCHANGED <<vars, local, i>>

func_post(p) ==
  /\ upc[p] = "post"
  /\ sem_post(p, sem_num)
  /\ i' = [i EXCEPT ![p] = @ + 1]
  /\ Then(p, "wait")
  /\ UNCHANGED <<sum, local>>

func(p) == func_wait(p) \/ func_load(p) \/ func_store(p) \/ func_post(p)

Finished(p) == i[p] = NUM_ITERATIONS /\ pc[p] = "user"

ThreadStep(p) == func(p) \/ (KernelStep(p) /\ UNCHANGED user)

LBNext == \E p \in Proc : ThreadStep(p)

LBSpec == LBInit /\ [][LBNext]_lbvars

\* Every thread is scheduled again and again; a thread makes finitely many calls,
\* so the spinlocks it competes for become free for good.
LBFairSpec == LBSpec /\ \A p \in Proc : WF_lbvars(ThreadStep(p))

----------------------------------------------------------------------------

\* Every thread gets through its loop: no wakeup of sem_post is lost, and the
\* threads that wake together and find the value taken go back to sleep and are
\* woken again.
Termination == <>(\A p \in Proc : Finished(p))
============================================================================
