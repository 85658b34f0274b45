----------------------------- MODULE Semaphore -----------------------------
(***************************************************************************)
(* The semaphore system calls of kernel/proc.c (sem_init, sem_wait,        *)
(* sem_post, sem_destroy) over sleep() and wakeup2(), with the spinlocks   *)
(* they take modelled one acquire and one release at a time.               *)
(*                                                                         *)
(* Each step of a process is the code between two points where another CPU *)
(* (or, with interrupts enabled, a preempting process) can interfere.  A   *)
(* lock is the process that holds it, or NoProc.  Semaphores are numbered  *)
(* from 0 to NUM_SEMAPHORES-1, the index in sem_list.                      *)
(***************************************************************************)
EXTENDS SleepWakeup, Integers, Sequences, FiniteSets

CONSTANTS NoProc,           \* no process
          NUM_SEMAPHORES,   \* entries of sem_list
          Created,          \* counts of the semaphores created before the start
          Counts,           \* counts given to sem_init
          MaxValue,         \* bound: no sem_post once a semaphore has this value
          Ops               \* the calls the processes make

SemId == 0 .. NUM_SEMAPHORES - 1

ASSUME ProcAssumption == IsFiniteSet(Proc)
ASSUME NumSemAssumption == NUM_SEMAPHORES \in Nat \ {0}
ASSUME CreatedAssumption == Created \in Seq(Nat) /\ Len(Created) <= NUM_SEMAPHORES
ASSUME CountsAssumption == Counts \subseteq Nat /\ MaxValue \in Nat
ASSUME OpsAssumption == Ops \subseteq {"wait", "post", "init", "destroy", "kill"}
ASSUME NoProcAssumption == NoProc \notin Proc
ASSUME NoChanAssumption == NoChan \notin SemId

VARIABLES id, value, used,   \* the fields of sem_list[s]
          num_sem,
          splock,            \* sem_list[s].splock
          lock_semlist,
          ptable_lock,       \* ptable.lock
          pc,                \* where each process is; "user" outside the calls
          arg,               \* the semaphore of the call in progress
          ret,               \* result of the last call; "invalid" and "none_free" are both -1
          panicked           \* release() found the lock not held

sems == <<id, value, used, num_sem>>
locks == <<splock, lock_semlist, ptable_lock, panicked>>
sleepers == <<state, chan, killed>>
vars == <<sems, locks, sleepers, pc, arg, ret>>

WaitPC == {"wait_acquire", "wait_test", "sleep_acquire", "sleep_release",
           "sleep_sched", "sleep_wakeup", "sleep_reacquire", "wait_release"}
PostPC == {"post_acquire", "post_add", "post_wakeup", "post_release"}
InitPC == {"init_acquire", "init_search", "init_set", "init_lock", "init_release"}
DestroyPC == {"destroy_acquire", "destroy_clear", "destroy_release"}
PC == {"user", "exited"} \cup WaitPC \cup PostPC \cup InitPC \cup DestroyPC

TypeOK ==
  /\ SleepTypeOK
  /\ chan \in [Proc -> SemId \cup {NoChan}]
  /\ id \in [SemId -> SemId]
  /\ value \in [SemId -> Int]
  /\ used \in [SemId -> {0, 1}]
  /\ num_sem \in Nat
  /\ splock \in [SemId -> Proc \cup {NoProc}]
  /\ lock_semlist \in Proc \cup {NoProc}
  /\ ptable_lock \in Proc \cup {NoProc}
  /\ pc \in [Proc -> PC]
  /\ arg \in [Proc -> SemId]
  /\ ret \in [Proc -> {"ok", "invalid", "none_free"}]
  /\ panicked \in BOOLEAN

\* The kernel after Len(Created) successful calls of sem_init: at boot sem_list
\* is all zeros.
Init ==
  /\ SleepInit
  /\ id = [s \in SemId |-> IF s < Len(Created) THEN s ELSE 0]
  /\ value = [s \in SemId |-> IF s < Len(Created) THEN Created[s + 1] ELSE 0]
  /\ used = [s \in SemId |-> IF s < Len(Created) THEN 1 ELSE 0]
  /\ num_sem = Len(Created)
  /\ splock = [s \in SemId |-> NoProc]
  /\ lock_semlist = NoProc
  /\ ptable_lock = NoProc
  /\ pc = [p \in Proc |-> "user"]
  /\ arg = [p \in Proc |-> 0]
  /\ ret = [p \in Proc |-> "ok"]
  /\ panicked = FALSE

----------------------------------------------------------------------------
\* Building blocks

Goto(p, l) == pc' = [pc EXCEPT ![p] = l]

At(p, l) == ~panicked /\ pc[p] = l

Return(p, r) == Goto(p, "user") /\ ret' = [ret EXCEPT ![p] = r]

\* acquire(&sem_list[s].splock)
AcquireSplock(p, s) ==
  /\ splock[s] = NoProc
  /\ splock' = [splock EXCEPT ![s] = p]
  /\ UNCHANGED <<lock_semlist, ptable_lock, panicked>>

\* release(&sem_list[s].splock) and its assertion that this CPU holds the lock.
ReleaseSplock(p, s) ==
  /\ IF splock[s] = p
     THEN splock' = [splock EXCEPT ![s] = NoProc] /\ UNCHANGED panicked
     ELSE panicked' = TRUE /\ UNCHANGED splock
  /\ UNCHANGED lock_semlist

\* The unlocked test at the top of sem_wait and sem_post.
ValidSem(s) == id[s] = s /\ used[s] = 1

----------------------------------------------------------------------------
\* sem_wait(sem_id), with sleep(&sem, &sem->splock) inlined

sem_wait(p, s) ==
  /\ At(p, "user") /\ "wait" \in Ops
  /\ IF ValidSem(s)
     THEN Goto(p, "wait_acquire") /\ arg' = [arg EXCEPT ![p] = s] /\ UNCHANGED ret
     ELSE Return(p, "invalid") /\ UNCHANGED arg
  /\ UNCHANGED <<sems, locks, sleepers>>

wait_acquire(p) ==
  /\ At(p, "wait_acquire")
  /\ AcquireSplock(p, arg[p])
  /\ Goto(p, "wait_test")
  /\ UNCHANGED <<sems, sleepers, arg, ret>>

MustSleep(s) == value[s] <= 0

\* while(sem->value <= 0) sleep(...); sem->value -= 1;
wait_test(p) ==
  /\ At(p, "wait_test")
  /\ IF MustSleep(arg[p])
     THEN Goto(p, "sleep_acquire") /\ UNCHANGED value
     ELSE /\ value' = [value EXCEPT ![arg[p]] = @ - 1]
          /\ Goto(p, "wait_release")
  /\ UNCHANGED <<id, used, num_sem, locks, sleepers, arg, ret>>

wait_release(p) ==
  /\ At(p, "wait_release")
  /\ ReleaseSplock(p, arg[p])
  /\ Return(p, "ok")
  /\ UNCHANGED <<sems, ptable_lock, sleepers, arg>>

\* Mutation: sleep() gives up splock without having taken ptable.lock.
sleep_acquire_skipped(p) ==
  /\ At(p, "sleep_acquire")
  /\ Goto(p, "sleep_release")
  /\ UNCHANGED <<sems, locks, sleepers, arg, ret>>

sleep_acquire(p) ==
  /\ At(p, "sleep_acquire")
  /\ ptable_lock = NoProc
  /\ ptable_lock' = p
  /\ Goto(p, "sleep_release")
  /\ UNCHANGED <<sems, splock, lock_semlist, panicked, sleepers, arg, ret>>

sleep_release(p) ==
  /\ At(p, "sleep_release")
  /\ ReleaseSplock(p, arg[p])
  /\ Goto(p, "sleep_sched")
  /\ UNCHANGED <<sems, ptable_lock, sleepers, arg, ret>>

\* proc->chan = chan; proc->state = SLEEPING; sched().  The channel is the
\* address of the local variable sem; what wakeup2 compares is its contents, the
\* address of the semaphore.  The scheduler this switches to releases ptable.lock.
sleep_sched(p) ==
  /\ At(p, "sleep_sched")
  /\ chan' = [chan EXCEPT ![p] = arg[p]]
  /\ state' = fall_asleep(state, p)
  /\ ptable_lock' = NoProc
  /\ Goto(p, "sleep_wakeup")
  /\ UNCHANGED <<sems, splock, lock_semlist, panicked, killed, arg, ret>>

\* The scheduler resumes p under ptable.lock; p clears chan and releases it.
sleep_wakeup(p) ==
  /\ At(p, "sleep_wakeup")
  /\ state[p] = "RUNNABLE"
  /\ ptable_lock = NoProc
  /\ chan' = [chan EXCEPT ![p] = NoChan]
  /\ Goto(p, "sleep_reacquire")
  /\ UNCHANGED <<sems, locks, state, killed, arg, ret>>

\* Mutation: sem_wait tests the value with an if, not a while.
sleep_reacquire_if(p) ==
  /\ At(p, "sleep_reacquire")
  /\ AcquireSplock(p, arg[p])
  /\ value' = [value EXCEPT ![arg[p]] = @ - 1]
  /\ Goto(p, "wait_release")
  /\ UNCHANGED <<id, used, num_sem, sleepers, arg, ret>>

sleep_reacquire(p) ==
  /\ At(p, "sleep_reacquire")
  /\ AcquireSplock(p, arg[p])
  /\ Goto(p, "wait_test")
  /\ UNCHANGED <<sems, sleepers, arg, ret>>

----------------------------------------------------------------------------
\* sem_post(sem_id)

sem_post(p, s) ==
  /\ At(p, "user") /\ "post" \in Ops
  /\ IF ValidSem(s)
     THEN Goto(p, "post_acquire") /\ arg' = [arg EXCEPT ![p] = s] /\ UNCHANGED ret
     ELSE Return(p, "invalid") /\ UNCHANGED arg
  /\ UNCHANGED <<sems, locks, sleepers>>

post_acquire(p) ==
  /\ At(p, "post_acquire")
  /\ AcquireSplock(p, arg[p])
  /\ Goto(p, "post_add")
  /\ UNCHANGED <<sems, sleepers, arg, ret>>

post_add(p) ==
  /\ At(p, "post_add")
  /\ value' = [value EXCEPT ![arg[p]] = @ + 1]
  /\ Goto(p, "post_wakeup")
  /\ UNCHANGED <<id, used, num_sem, locks, sleepers, arg, ret>>

\* wakeup2(&sem): the loop over the process table, inside ptable.lock.
post_wakeup(p) ==
  /\ At(p, "post_wakeup")
  /\ ptable_lock = NoProc
  /\ state' = wakeup1(state, arg[p])
  /\ Goto(p, "post_release")
  /\ UNCHANGED <<sems, locks, chan, killed, arg, ret>>

post_release(p) ==
  /\ At(p, "post_release")
  /\ ReleaseSplock(p, arg[p])
  /\ Return(p, "ok")
  /\ UNCHANGED <<sems, ptable_lock, sleepers, arg>>

----------------------------------------------------------------------------
\* sem_init(sem_id, count)

sem_init(p) ==
  /\ At(p, "user") /\ "init" \in Ops
  /\ IF num_sem >= NUM_SEMAPHORES
     THEN Return(p, "none_free")
     ELSE Goto(p, "init_acquire") /\ UNCHANGED ret
  /\ UNCHANGED <<sems, locks, sleepers, arg>>

\* Mutation: lock_semlist is not waited for.
AcquireSemlist_nowait(p) == lock_semlist' = p

AcquireSemlist(p) == lock_semlist = NoProc /\ lock_semlist' = p

init_acquire(p) ==
  /\ At(p, "init_acquire")
  /\ AcquireSemlist(p)
  /\ Goto(p, "init_search")
  /\ UNCHANGED <<sems, splock, ptable_lock, panicked, sleepers, arg, ret>>

Unused == {s \in SemId : used[s] = 0}

\* The loop up to the first unused entry, or up to the end of sem_list.
init_search(p) ==
  /\ At(p, "init_search")
  /\ \/ /\ Unused = {}
        /\ lock_semlist' = NoProc
        /\ Return(p, "none_free")
        /\ UNCHANGED arg
     \/ /\ \E s \in Unused : /\ \A r \in Unused : s <= r
                             /\ arg' = [arg EXCEPT ![p] = s]
        /\ Goto(p, "init_set")
        /\ UNCHANGED <<lock_semlist, ret>>
  /\ UNCHANGED <<sems, splock, ptable_lock, panicked, sleepers>>

init_set(p) ==
  /\ At(p, "init_set")
  /\ id' = [id EXCEPT ![arg[p]] = arg[p]]
  /\ \E count \in Counts : value' = [value EXCEPT ![arg[p]] = count]
  /\ used' = [used EXCEPT ![arg[p]] = 1]
  /\ Goto(p, "init_lock")
  /\ UNCHANGED <<num_sem, locks, sleepers, arg, ret>>

\* Mutation: the new semaphore is not counted.
init_lock_uncounted(p) ==
  /\ At(p, "init_lock")
  /\ splock' = [splock EXCEPT ![arg[p]] = NoProc]
  /\ Goto(p, "init_release")
  /\ UNCHANGED <<sems, lock_semlist, ptable_lock, panicked, sleepers, arg, ret>>

\* initlock(&sem->splock) makes the lock free whoever holds it; num_sem++.
init_lock(p) ==
  /\ At(p, "init_lock")
  /\ splock' = [splock EXCEPT ![arg[p]] = NoProc]
  /\ num_sem' = num_sem + 1
  /\ Goto(p, "init_release")
  /\ UNCHANGED <<id, value, used, lock_semlist, ptable_lock, panicked, sleepers, arg, ret>>

init_release(p) ==
  /\ At(p, "init_release")
  /\ lock_semlist' = NoProc
  /\ Return(p, "ok")
  /\ UNCHANGED <<sems, splock, ptable_lock, panicked, sleepers, arg>>

----------------------------------------------------------------------------
\* sem_destroy(sem_id): the test is on the id alone, and num_sem is not changed

sem_destroy(p, s) ==
  /\ At(p, "user") /\ "destroy" \in Ops
  /\ IF id[s] = s
     THEN Goto(p, "destroy_acquire") /\ arg' = [arg EXCEPT ![p] = s] /\ UNCHANGED ret
     ELSE Return(p, "invalid") /\ UNCHANGED arg
  /\ UNCHANGED <<sems, locks, sleepers>>

destroy_acquire(p) ==
  /\ At(p, "destroy_acquire")
  /\ AcquireSemlist(p)
  /\ Goto(p, "destroy_clear")
  /\ UNCHANGED <<sems, splock, ptable_lock, panicked, sleepers, arg, ret>>

destroy_clear(p) ==
  /\ At(p, "destroy_clear")
  /\ used' = [used EXCEPT ![arg[p]] = 0]
  /\ Goto(p, "destroy_release")
  /\ UNCHANGED <<id, value, num_sem, locks, sleepers, arg, ret>>

destroy_release(p) ==
  /\ At(p, "destroy_release")
  /\ lock_semlist' = NoProc
  /\ Return(p, "ok")
  /\ UNCHANGED <<sems, splock, ptable_lock, panicked, sleepers, arg>>

----------------------------------------------------------------------------
\* kill() and what the killed process does

\* Bound: a process is killed once.
kill_proc(p) ==
  /\ ~panicked /\ "kill" \in Ops
  /\ ptable_lock = NoProc
  /\ ~killed[p] /\ pc[p] # "exited"
  /\ kill(p)
  /\ UNCHANGED <<sems, locks, pc, arg, ret>>

\* trap(): a killed process exits when it is in user space.
exit_killed(p) ==
  /\ At(p, "user") /\ killed[p]
  /\ Goto(p, "exited")
  /\ UNCHANGED <<sems, locks, sleepers, arg, ret>>

----------------------------------------------------------------------------

KernelStep(p) ==
  \/ wait_acquire(p) \/ wait_test(p) \/ wait_release(p)
  \/ sleep_acquire(p) \/ sleep_release(p) \/ sleep_sched(p)
  \/ sleep_wakeup(p) \/ sleep_reacquire(p)
  \/ post_acquire(p) \/ post_add(p) \/ post_wakeup(p) \/ post_release(p)
  \/ init_acquire(p) \/ init_search(p) \/ init_set(p) \/ init_lock(p) \/ init_release(p)
  \/ destroy_acquire(p) \/ destroy_clear(p) \/ destroy_release(p)

\* A process in user space makes any call of Ops; a killed one only exits.
UserCall(p) ==
  /\ ~killed[p]
  /\ \/ sem_init(p)
     \/ \E s \in SemId : sem_wait(p, s)
     \/ \E s \in SemId : value[s] < MaxValue /\ sem_post(p, s)
     \/ \E s \in SemId : sem_destroy(p, s)

Next == \E p \in Proc : KernelStep(p) \/ UserCall(p) \/ kill_proc(p) \/ exit_killed(p)

Spec == Init /\ [][Next]_vars

\* A runnable process keeps running: the scheduler reaches it, and a spinlock is
\* held for finitely many instructions.
FairSpec == Spec /\ \A p \in Proc : WF_vars(KernelStep(p) \/ exit_killed(p))

----------------------------------------------------------------------------
\* Properties

HoldsSplock(p) == pc[p] \in {"wait_test", "sleep_acquire", "sleep_release", "wait_release",
                             "post_add", "post_wakeup", "post_release"}

\* A process asleep on a semaphore whose value is positive is about to be woken:
\* some sem_post has added its unit and not yet run wakeup2.  (sleep() takes
\* ptable.lock before it gives up splock.)
NoLostWakeup ==
  \A p \in Proc : pc[p] = "sleep_wakeup" /\ state[p] = "SLEEPING" /\ value[arg[p]] > 0
     => \E q \in Proc : pc[q] = "post_wakeup" /\ arg[q] = arg[p]

\* The two halves of sem_wait and of sem_post that read and write sem->value
\* exclude each other, although sleep() drops and retakes splock in between.
SplockExclusive ==
  \A p, q \in Proc : HoldsSplock(p) /\ HoldsSplock(q) /\ arg[p] = arg[q] => p = q

\* The value of a semaphore is never negative: a process woken from sleep tests
\* the value again before it decrements it.
ValueNonNegative == \A s \in SemId : value[s] >= 0

\* release() never finds its lock not held (its panic is never reached).
ReleaseHeld == ~panicked

\* sem_init hands out an entry that is still unused when it fills it in, whatever
\* other sem_init and sem_destroy calls run at the same time.
InitGrantsUnused ==
  [][\A p \in Proc : pc[p] = "init_set" /\ pc'[p] # "init_set" => used[arg[p]] = 0]_vars

\* num_sem is at least the number of semaphores in use, less the one whose
\* sem_init has not yet counted it.
NumSemCovers ==
  Cardinality({s \in SemId : used[s] = 1}) <=
     num_sem + Cardinality({p \in Proc : pc[p] = "init_lock"})

\* The calls wait and post implement the abstract semaphore: a unit is taken where
\* wait_test decrements the value and given where post_add increments it.
Waiting(p) == pc[p] \in WaitPC \ {"wait_release"}

Abs == INSTANCE AbstractSemaphore WITH
         NoSem <- NoChan,
         InitialValue <- [s \in SemId |-> IF s < Len(Created) THEN Created[s + 1] ELSE 0],
         waiting <- [p \in Proc |-> IF Waiting(p) THEN arg[p] ELSE NoChan]

ImplementsAbstract == Abs!Spec
============================================================================
