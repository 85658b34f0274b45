-------------------------- MODULE SemaphoreProofs --------------------------
(***************************************************************************)
(* Proofs about module Semaphore, for every number of processes and        *)
(* semaphores.  The first part is about the calls sem_wait, sem_post and   *)
(* kill on semaphores that exist from the start; with sem_init and         *)
(* sem_destroy at the same time a lock may be reset under its holder.  The *)
(* second part is about sem_list and num_sem, whatever calls are made.     *)
(***************************************************************************)
EXTENDS Semaphore, FiniteSetTheorems, TLAPS

NoLifecycle == "init" \notin Ops /\ "destroy" \notin Ops

Posting(s) == \E q \in Proc : pc[q] = "post_wakeup" /\ arg[q] = s

\* The lock a process believes it holds is the lock it holds.
LocksInv ==
  /\ \A p \in Proc : HoldsSplock(p) => splock[arg[p]] = p
  /\ \A p \in Proc : pc[p] \in {"sleep_release", "sleep_sched"} => ptable_lock = p

\* On its way to sleep a process knows the value to be 0 for as long as it holds
\* splock, and then either it still is or a poster is waiting for ptable.lock.
SleepInv ==
  /\ \A p \in Proc : pc[p] \in {"sleep_acquire", "sleep_release"} => value[arg[p]] <= 0
  /\ \A p \in Proc : pc[p] = "sleep_sched" /\ value[arg[p]] > 0 => Posting(arg[p])
  /\ \A p \in Proc : pc[p] = "sleep_wakeup" => chan[p] = arg[p]
  /\ NoLostWakeup

\* The inductive invariant.
IInv ==
  /\ TypeOK
  /\ value \in [SemId -> Nat]
  /\ ~panicked
  /\ \A p \in Proc : pc[p] \notin InitPC \cup DestroyPC
  /\ LocksInv
  /\ SleepInv

\* The state after main() has created its semaphores satisfies the invariant.
LEMMA InitIInv == Init => IInv
<1> SUFFICES ASSUME Init PROVE IInv
  OBVIOUS
<1> USE NumSemAssumption, CreatedAssumption, NoProcAssumption DEF Init, SleepInit
<1>1. value \in [SemId -> Nat]
  BY DEF SemId
<1>2. TypeOK
  <2>1. killed \in [Proc -> BOOLEAN] /\ panicked \in BOOLEAN
    BY Zenon
  <2>2. id \in [SemId -> SemId] /\ used \in [SemId -> {0, 1}] /\ num_sem \in Nat
    BY DEF SemId
  <2>3. 0 \in SemId
    BY DEF SemId
  <2>4. state \in [Proc -> {"RUNNABLE", "SLEEPING"}] /\ chan \in [Proc -> SemId \cup {NoChan}]
    OBVIOUS
  <2>5. pc \in [Proc -> PC] /\ arg \in [Proc -> SemId] /\ ret \in [Proc -> {"ok", "invalid", "none_free"}]
    BY <2>3 DEF PC
  <2> QED
    BY <1>1, <2>1, <2>2, <2>4, <2>5 DEF TypeOK, SleepTypeOK
<1>3. LocksInv /\ SleepInv
  BY DEF LocksInv, SleepInv, HoldsSplock, NoLostWakeup
<1> QED
  BY <1>1, <1>2, <1>3 DEF IInv, InitPC, DestroyPC

\* The steps a process can take when nobody creates or destroys a semaphore.
BlockingStep(p) ==
  \/ wait_acquire(p) \/ wait_test(p) \/ wait_release(p)
  \/ sleep_acquire(p) \/ sleep_release(p) \/ sleep_sched(p)
  \/ sleep_wakeup(p) \/ sleep_reacquire(p)
  \/ post_acquire(p) \/ post_add(p) \/ post_wakeup(p) \/ post_release(p)

ProcStep(p) ==
  \/ BlockingStep(p)
  \/ \E s \in SemId : sem_wait(p, s) \/ sem_post(p, s)
  \/ kill_proc(p) \/ exit_killed(p)

\* Without the calls sem_init and sem_destroy their steps are never enabled.
LEMMA NextCases ==
  ASSUME NoLifecycle, IInv, Next
  PROVE  \E p \in Proc : ProcStep(p)
<1>1. PICK p \in Proc : KernelStep(p) \/ UserCall(p) \/ kill_proc(p) \/ exit_killed(p)
  BY DEF Next
<1>2. ASSUME KernelStep(p) PROVE BlockingStep(p)
  <2>1. pc[p] \notin InitPC \cup DestroyPC
    BY DEF IInv
  <2>2. ~(\/ init_acquire(p) \/ init_search(p) \/ init_set(p) \/ init_lock(p) \/ init_release(p)
          \/ destroy_acquire(p) \/ destroy_clear(p) \/ destroy_release(p))
    BY <2>1 DEF InitPC, DestroyPC, At, init_acquire, init_search, init_set, init_lock,
                init_release, destroy_acquire, destroy_clear, destroy_release
  <2> QED
    BY <1>2, <2>2 DEF KernelStep, BlockingStep
<1>3. ASSUME UserCall(p) PROVE \E s \in SemId : sem_wait(p, s) \/ sem_post(p, s)
  BY <1>3 DEF UserCall, NoLifecycle, sem_init, sem_destroy
<1> QED
  BY <1>1, <1>2, <1>3 DEF ProcStep

\* Every step of the blocking calls keeps every variable in its type.
LEMMA TypeStep ==
  ASSUME IInv, NEW p \in Proc, ProcStep(p)
  PROVE  TypeOK' /\ value' \in [SemId -> Nat] /\ ~panicked'
         /\ \A q \in Proc : pc'[q] \notin InitPC \cup DestroyPC
<1> USE DEF IInv, TypeOK, SleepTypeOK, vars, sems, locks, sleepers, Goto, Return, At, PC,
            WaitPC, PostPC, InitPC, DestroyPC
<1>1. arg[p] \in SemId /\ value[arg[p]] \in Nat
  OBVIOUS
<1>2. CASE wait_acquire(p)
  BY <1>1, <1>2 DEF wait_acquire, AcquireSplock
<1>3. CASE wait_test(p)
  BY <1>1, <1>3 DEF wait_test, MustSleep
<1>4. CASE wait_release(p)
  BY <1>1, <1>4 DEF wait_release, ReleaseSplock, LocksInv, HoldsSplock
<1>5. CASE sleep_acquire(p)
  BY <1>1, <1>5 DEF sleep_acquire
<1>6. CASE sleep_release(p)
  BY <1>1, <1>6 DEF sleep_release, ReleaseSplock, LocksInv, HoldsSplock
<1>7. CASE sleep_sched(p)
  BY <1>1, <1>7 DEF sleep_sched, fall_asleep
<1>8. CASE sleep_wakeup(p)
  BY <1>1, <1>8 DEF sleep_wakeup
<1>9. CASE sleep_reacquire(p)
  BY <1>1, <1>9 DEF sleep_reacquire, AcquireSplock
<1>10. CASE post_acquire(p)
  BY <1>1, <1>10 DEF post_acquire, AcquireSplock
<1>11. CASE post_add(p)
  BY <1>1, <1>11 DEF post_add
<1>12. CASE post_wakeup(p)
  BY <1>1, <1>12 DEF post_wakeup, wakeup1
<1>13. CASE post_release(p)
  BY <1>1, <1>13 DEF post_release, ReleaseSplock, LocksInv, HoldsSplock
<1>14. CASE \E s \in SemId : sem_wait(p, s) \/ sem_post(p, s)
  BY <1>14 DEF sem_wait, sem_post
<1>15. CASE kill_proc(p)
  BY <1>15 DEF kill_proc, kill
<1>16. CASE exit_killed(p)
  BY <1>16 DEF exit_killed
<1> QED
  BY <1>2, <1>3, <1>4, <1>5, <1>6, <1>7, <1>8, <1>9, <1>10, <1>11, <1>12, <1>13, <1>14, <1>15, <1>16, Zenon DEF ProcStep, BlockingStep

\* A process that holds a lock holds it after every step of every process.
LEMMA LocksStep ==
  ASSUME IInv, NEW p \in Proc, ProcStep(p)
  PROVE  LocksInv'
<1> USE NoProcAssumption DEF IInv, TypeOK, SleepTypeOK, vars, sems, locks, sleepers, Goto, Return, At,
            LocksInv, HoldsSplock
<1>1. arg[p] \in SemId /\ value[arg[p]] \in Nat
  OBVIOUS
<1>2. CASE wait_acquire(p)
  BY <1>1, <1>2 DEF wait_acquire, AcquireSplock
<1>3. CASE wait_test(p)
  BY <1>1, <1>3 DEF wait_test, MustSleep
<1>4. CASE wait_release(p)
  BY <1>1, <1>4 DEF wait_release, ReleaseSplock
<1>5. CASE sleep_acquire(p)
  BY <1>1, <1>5 DEF sleep_acquire
<1>6. CASE sleep_release(p)
  BY <1>1, <1>6 DEF sleep_release, ReleaseSplock
<1>7. CASE sleep_sched(p)
  BY <1>1, <1>7 DEF sleep_sched, fall_asleep
<1>8. CASE sleep_wakeup(p)
  BY <1>1, <1>8 DEF sleep_wakeup
<1>9. CASE sleep_reacquire(p)
  BY <1>1, <1>9 DEF sleep_reacquire, AcquireSplock
<1>10. CASE post_acquire(p)
  BY <1>1, <1>10 DEF post_acquire, AcquireSplock
<1>11. CASE post_add(p)
  BY <1>1, <1>11 DEF post_add
<1>12. CASE post_wakeup(p)
  BY <1>1, <1>12 DEF post_wakeup, wakeup1
<1>13. CASE post_release(p)
  BY <1>1, <1>13 DEF post_release, ReleaseSplock
<1>14. CASE \E s \in SemId : sem_wait(p, s) \/ sem_post(p, s)
  BY <1>14 DEF sem_wait, sem_post
<1>15. CASE kill_proc(p)
  BY <1>15 DEF kill_proc, kill
<1>16. CASE exit_killed(p)
  BY <1>16 DEF exit_killed
<1> QED
  BY <1>2, <1>3, <1>4, <1>5, <1>6, <1>7, <1>8, <1>9, <1>10, <1>11, <1>12, <1>13, <1>14, <1>15, <1>16 DEF ProcStep, BlockingStep

\* No step makes a process sleep through a sem_post.
LEMMA SleepStep ==
  ASSUME IInv, NEW p \in Proc, ProcStep(p)
  PROVE  SleepInv'
<1> USE NoProcAssumption DEF IInv, TypeOK, SleepTypeOK, vars, sems, locks, sleepers, Goto, Return, At,
            LocksInv, HoldsSplock, SleepInv, NoLostWakeup, Posting
<1>1. arg[p] \in SemId /\ value[arg[p]] \in Nat
  OBVIOUS
<1>2. CASE wait_acquire(p)
  BY <1>1, <1>2 DEF wait_acquire, AcquireSplock
<1>3. CASE wait_test(p)
  BY <1>1, <1>3 DEF wait_test, MustSleep
<1>4. CASE wait_release(p)
  BY <1>1, <1>4 DEF wait_release, ReleaseSplock
<1>5. CASE sleep_acquire(p)
  BY <1>1, <1>5 DEF sleep_acquire
<1>6. CASE sleep_release(p)
  BY <1>1, <1>6 DEF sleep_release, ReleaseSplock
<1>7. CASE sleep_sched(p)
  BY <1>1, <1>7 DEF sleep_sched, fall_asleep
<1>8. CASE sleep_wakeup(p)
  BY <1>1, <1>8 DEF sleep_wakeup
<1>9. CASE sleep_reacquire(p)
  BY <1>1, <1>9 DEF sleep_reacquire, AcquireSplock
<1>10. CASE post_acquire(p)
  BY <1>1, <1>10 DEF post_acquire, AcquireSplock
<1>11. CASE post_add(p)
  BY <1>1, <1>11 DEF post_add
<1>12. CASE post_wakeup(p)
  BY <1>1, <1>12 DEF post_wakeup, wakeup1
<1>13. CASE post_release(p)
  BY <1>1, <1>13 DEF post_release, ReleaseSplock
<1>14. CASE \E s \in SemId : sem_wait(p, s) \/ sem_post(p, s)
  BY <1>14 DEF sem_wait, sem_post
<1>15. CASE kill_proc(p)
  BY <1>15 DEF kill_proc, kill
<1>16. CASE exit_killed(p)
  BY <1>16 DEF exit_killed
<1> QED
  BY <1>2, <1>3, <1>4, <1>5, <1>6, <1>7, <1>8, <1>9, <1>10, <1>11, <1>12, <1>13, <1>14, <1>15, <1>16, Zenon DEF ProcStep, BlockingStep

\* The invariant is inductive.
LEMMA NextIInv == ASSUME NoLifecycle, IInv, [Next]_vars PROVE IInv'
<1>1. CASE Next
  <2>1. PICK p \in Proc : ProcStep(p)
    BY <1>1, NextCases
  <2> QED
    BY <2>1, TypeStep, LocksStep, SleepStep DEF IInv
<1>2. CASE UNCHANGED vars
  BY <1>2 DEF vars, sems, locks, sleepers, IInv, TypeOK, SleepTypeOK, LocksInv, HoldsSplock,
              SleepInv, NoLostWakeup, Posting
<1> QED
  BY <1>1, <1>2

\* Every reachable state satisfies the invariant.
THEOREM Invariance == ASSUME NoLifecycle PROVE Spec => []IInv
<1>1. Init => IInv
  BY InitIInv
<1>2. IInv /\ [Next]_vars => IInv'
  BY NextIInv
<1> QED
  BY <1>1, <1>2, PTL DEF Spec

----------------------------------------------------------------------------

\* For every set of processes and every number of semaphores: the value of a
\* semaphore is only touched under its lock, it never gets negative, release()
\* never panics, and nobody sleeps through a sem_post.
THEOREM SemaphoreSafe ==
  ASSUME NoLifecycle
  PROVE  Spec => [](NoLostWakeup /\ SplockExclusive /\ ValueNonNegative /\ ReleaseHeld)
<1>1. IInv => NoLostWakeup /\ SplockExclusive /\ ValueNonNegative /\ ReleaseHeld
  BY DEF IInv, SleepInv, LocksInv, SplockExclusive, ValueNonNegative, ReleaseHeld
<1> QED
  BY <1>1, Invariance, PTL

waitingBar == [p \in Proc |-> IF Waiting(p) THEN arg[p] ELSE NoChan]

\* A step of a process is a step of the abstract semaphore or leaves it alone.
LEMMA StepSimulation ==
  ASSUME IInv, NEW p \in Proc, ProcStep(p)
  PROVE  Abs!Next \/ UNCHANGED <<value, waitingBar>>
<1> USE NoChanAssumption DEF IInv, TypeOK, vars, sems, locks, sleepers, Goto, Return, At, Waiting,
            WaitPC, waitingBar
<1>1. arg[p] \in SemId /\ value[arg[p]] \in Nat
  OBVIOUS
<1>2. CASE wait_test(p)
  <2>1. CASE MustSleep(arg[p])
    BY <1>2, <2>1 DEF wait_test
  <2>2. CASE ~MustSleep(arg[p])
    <3>1. waitingBar[p] = arg[p] /\ value[arg[p]] > 0
      BY <1>1, <1>2, <2>2 DEF wait_test, MustSleep
    <3>2. value' = [value EXCEPT ![waitingBar[p]] = @ - 1]
      BY <1>2, <2>2, <3>1 DEF wait_test
    <3>3. waitingBar' = [waitingBar EXCEPT ![p] = NoChan]
      BY <1>2, <2>2, Zenon DEF wait_test
    <3>4. Abs!Take(p)
      BY <1>1, <3>1, <3>2, <3>3 DEF Abs!Take
    <3> QED
      BY <3>4 DEF Abs!Next
  <2> QED
    BY <2>1, <2>2
<1>3. CASE post_add(p)
  <2>1. Abs!Give(p, arg[p])
    BY <1>1, <1>3 DEF post_add, Abs!Give
  <2> QED
    BY <1>1, <2>1 DEF Abs!Next
<1>4. CASE \E s \in SemId : sem_wait(p, s)
  <2>1. PICK s \in SemId : sem_wait(p, s)
    BY <1>4
  <2>2. CASE ValidSem(s)
    <3>1. Abs!Request(p, s)
      BY <2>1, <2>2, Zenon DEF sem_wait, Abs!Request
    <3> QED
      BY <3>1 DEF Abs!Next
  <2>3. CASE ~ValidSem(s)
    BY <2>1, <2>3 DEF sem_wait
  <2> QED
    BY <2>2, <2>3
<1>5. CASE \E s \in SemId : sem_post(p, s)
  BY <1>5 DEF sem_post
<1>6. CASE wait_acquire(p) \/ wait_release(p) \/ sleep_acquire(p) \/ sleep_release(p)
           \/ sleep_sched(p) \/ sleep_wakeup(p) \/ sleep_reacquire(p)
  BY <1>6 DEF wait_acquire, wait_release, sleep_acquire, sleep_release, sleep_sched, sleep_wakeup,
              sleep_reacquire
<1>7. CASE post_acquire(p) \/ post_wakeup(p) \/ post_release(p)
  BY <1>7 DEF post_acquire, post_wakeup, post_release
<1>8. CASE kill_proc(p) \/ exit_killed(p)
  BY <1>8 DEF kill_proc, exit_killed
<1> QED
  BY <1>2, <1>3, <1>4, <1>5, <1>6, <1>7, <1>8, Zenon DEF ProcStep, BlockingStep

\* sem_wait and sem_post implement the atomic counting semaphore.
THEOREM Refinement == ASSUME NoLifecycle PROVE Spec => ImplementsAbstract
<1>1. Init => Abs!Init
  BY DEF Init, Abs!Init, Waiting, WaitPC
<1>2. IInv /\ [Next]_vars => [Abs!Next]_<<value, waitingBar>>
  <2> SUFFICES ASSUME IInv, [Next]_vars
               PROVE  Abs!Next \/ UNCHANGED <<value, waitingBar>>
    OBVIOUS
  <2>1. CASE Next
    <3>1. PICK p \in Proc : ProcStep(p)
      BY <2>1, NextCases
    <3> QED
      BY <3>1, StepSimulation
  <2>2. CASE UNCHANGED vars
    BY <2>2 DEF vars, sems, waitingBar, Waiting
  <2> QED
    BY <2>1, <2>2
<1> QED
  BY <1>1, <1>2, Invariance, PTL DEF Spec, ImplementsAbstract, Abs!Spec, waitingBar

----------------------------------------------------------------------------
\* sem_init and sem_destroy

\* Inside lock_semlist.
Listing == {"init_search", "init_set", "init_lock", "init_release", "destroy_clear", "destroy_release"}

UsedSems == {s \in SemId : used[s] = 1}
Uncounted == {p \in Proc : pc[p] = "init_lock"}

ListTypes ==
  /\ used \in [SemId -> {0, 1}] /\ num_sem \in Nat
  /\ pc \in [Proc -> PC] /\ arg \in [Proc -> SemId]

\* One process at a time has lock_semlist; the entry it has found stays unused until it
\* fills it in.
ListLock == \A p \in Proc : pc[p] \in Listing => lock_semlist = p
Found == \A p \in Proc : pc[p] = "init_set" => used[arg[p]] = 0

LInv == ListTypes /\ ListLock /\ Found /\ NumSemCovers

\* The sets that NumSemCovers counts are finite.
LEMMA Counted ==
  /\ IsFiniteSet(UsedSems) /\ Cardinality(UsedSems) \in Nat
  /\ IsFiniteSet(Uncounted) /\ Cardinality(Uncounted) \in Nat
<1>1. IsFiniteSet(SemId)
  BY NumSemAssumption, FS_Interval DEF SemId
<1>2. IsFiniteSet(UsedSems)
  BY <1>1, FS_Subset DEF UsedSems
<1>3. IsFiniteSet(Uncounted)
  BY ProcAssumption, FS_Subset DEF Uncounted
<1>4. QED
  BY <1>2, <1>3, FS_CardinalityType

\* One element more or less changes the number of elements by at most one.
LEMMA AddRemoveCount ==
  ASSUME NEW S, IsFiniteSet(S), NEW x
  PROVE /\ Cardinality(S) \in Nat
        /\ Cardinality(S \cup {x}) \in Nat /\ Cardinality(S \cup {x}) <= Cardinality(S) + 1
        /\ Cardinality(S \ {x}) \in Nat /\ Cardinality(S \ {x}) <= Cardinality(S)
<1>1. Cardinality(S) \in Nat
  BY FS_CardinalityType
<1>2. /\ IsFiniteSet(S \cup {x})
      /\ Cardinality(S \cup {x}) \in {Cardinality(S), Cardinality(S) + 1}
  BY FS_AddElement
<1>3. /\ IsFiniteSet(S \ {x})
      /\ Cardinality(S \ {x}) \in {Cardinality(S), Cardinality(S) - 1}
  BY FS_RemoveElement
<1>4. Cardinality(S \cup {x}) \in Nat /\ Cardinality(S \ {x}) \in Nat
  BY <1>2, <1>3, FS_CardinalityType
<1>5. QED
  BY <1>1, <1>2, <1>3, <1>4

\* The steps on sem_list that are not sem_init's and sem_destroy's own: the list stays as it is.
LEMMA OtherList ==
  ASSUME LInv, NEW p \in Proc, used' = used, num_sem' = num_sem,
         NEW l \in PC, pc' = [pc EXCEPT ![p] = l], pc[p] # "init_lock", l # "init_lock", l # "init_set",
         arg' = arg \/ \E s \in SemId : arg' = [arg EXCEPT ![p] = s],
         \/ lock_semlist' = lock_semlist /\ (l \in Listing => pc[p] \in Listing)
         \/ lock_semlist = NoProc /\ lock_semlist' = p
         \/ pc[p] \in Listing /\ lock_semlist' = NoProc /\ l \notin Listing
  PROVE LInv'
<1>1. ListTypes'
  BY Zenon DEF LInv, ListTypes
<1>2. pc'[p] = l /\ \A q \in Proc : q # p => pc'[q] = pc[q] /\ arg'[q] = arg[q]
  BY Zenon DEF LInv, ListTypes
<1>3. ListLock'
  BY <1>2, NoProcAssumption, Zenon DEF LInv, ListLock
<1>4. Found'
  BY <1>2, Zenon DEF LInv, Found
<1>5. Uncounted' = Uncounted
  BY <1>2, Zenon DEF Uncounted
<1>6. NumSemCovers'
  BY <1>5, Zenon DEF LInv, NumSemCovers, Uncounted
<1>7. QED
  BY <1>1, <1>3, <1>4, <1>6 DEF LInv

\* Nobody else is inside lock_semlist.
LEMMA ListAlone ==
  ASSUME LInv, NEW p \in Proc, pc[p] \in Listing, NEW q \in Proc, q # p
  PROVE pc[q] \notin Listing
  BY Zenon DEF LInv, ListLock

\* sem_init's search: what it finds is unused.
LEMMA SearchStep == ASSUME LInv, NEW p \in Proc, init_search(p) PROVE LInv'
<1>1. pc[p] = "init_search" /\ used' = used /\ num_sem' = num_sem
  BY Zenon DEF init_search, At, sems
<1>2. CASE Unused = {} /\ lock_semlist' = NoProc /\ Return(p, "none_free") /\ arg' = arg
  <2>1. pc' = [pc EXCEPT ![p] = "user"]
    BY <1>2, Zenon DEF Return, Goto
  <2>2. "user" \in PC /\ "user" \notin Listing /\ pc[p] \in Listing
    BY <1>1 DEF PC, Listing
  <2>3. QED
    BY <1>1, <1>2, <2>1, <2>2, OtherList, Zenon
<1>3. CASE \E s \in Unused : /\ arg' = [arg EXCEPT ![p] = s] /\ pc' = [pc EXCEPT ![p] = "init_set"]
                             /\ lock_semlist' = lock_semlist
  <2>1. PICK s \in SemId : /\ used[s] = 0 /\ arg' = [arg EXCEPT ![p] = s]
                           /\ pc' = [pc EXCEPT ![p] = "init_set"] /\ lock_semlist' = lock_semlist
    BY <1>3, Zenon DEF Unused
  <2>2. "init_set" \in PC /\ "init_search" \in Listing
    BY DEF PC, InitPC, Listing
  <2>3. /\ pc'[p] = "init_set" /\ arg'[p] = s
        /\ \A q \in Proc : q # p => pc'[q] = pc[q] /\ arg'[q] = arg[q]
    BY <2>1, Zenon DEF LInv, ListTypes
  <2>4. ListTypes'
    BY <1>1, <2>1, <2>2, Zenon DEF LInv, ListTypes
  <2>5. ListLock'
    BY <1>1, <2>1, <2>2, <2>3, Zenon DEF LInv, ListLock
  <2>6. Found'
    BY <1>1, <2>1, <2>3, Zenon DEF LInv, Found
  <2>7. Uncounted' = Uncounted
    <3>1. pc[p] # "init_lock" /\ pc'[p] # "init_lock"
      BY <1>1, <2>3
    <3>2. QED
      BY <2>3, <3>1, Zenon DEF Uncounted
  <2>8. NumSemCovers'
    BY <1>1, <2>7, Zenon DEF LInv, NumSemCovers, Uncounted
  <2>9. QED
    BY <2>4, <2>5, <2>6, <2>8 DEF LInv
<1>4. QED
  BY <1>2, <1>3, Zenon DEF init_search, Goto

\* A field of the list that one step sets.
LEMMA SetUsed ==
  ASSUME LInv, NEW p \in Proc, NEW v \in {0, 1}, used' = [used EXCEPT ![arg[p]] = v]
  PROVE /\ used' \in [SemId -> {0, 1}] /\ arg[p] \in SemId
        /\ UsedSems' = IF v = 1 THEN UsedSems \cup {arg[p]} ELSE UsedSems \ {arg[p]}
<1>1. used \in [SemId -> {0, 1}] /\ arg[p] \in SemId
  BY DEF LInv, ListTypes
<1>2. used' \in [SemId -> {0, 1}] /\ used'[arg[p]] = v /\ \A s \in SemId : s # arg[p] => used'[s] = used[s]
  BY <1>1, Zenon
<1>3. UsedSems' = IF v = 1 THEN UsedSems \cup {arg[p]} ELSE UsedSems \ {arg[p]}
  BY <1>1, <1>2 DEF UsedSems
<1>4. QED
  BY <1>1, <1>2, <1>3

\* sem_init fills in the entry: one more in use, and one to be counted.
LEMMA SetStep == ASSUME LInv, NEW p \in Proc, init_set(p) PROVE LInv'
<1>1. /\ pc[p] = "init_set" /\ used' = [used EXCEPT ![arg[p]] = 1] /\ pc' = [pc EXCEPT ![p] = "init_lock"]
      /\ num_sem' = num_sem /\ arg' = arg /\ lock_semlist' = lock_semlist
  BY Zenon DEF init_set, At, Goto, locks
<1>2. "init_lock" \in PC /\ "init_set" \in Listing /\ "init_lock" \in Listing
  BY DEF PC, InitPC, Listing
<1>3. pc'[p] = "init_lock" /\ \A q \in Proc : q # p => pc'[q] = pc[q]
  BY <1>1, Zenon DEF LInv, ListTypes
<1>4. \A q \in Proc : q # p => pc[q] # "init_lock" /\ pc[q] # "init_set"
  BY <1>1, <1>2, ListAlone
<1>5. /\ used' \in [SemId -> {0, 1}] /\ arg[p] \in SemId /\ UsedSems' = UsedSems \cup {arg[p]}
  BY <1>1, SetUsed, Zenon
<1>6. ListTypes'
  BY <1>1, <1>2, <1>5, Zenon DEF LInv, ListTypes
<1>7. ListLock'
  BY <1>1, <1>2, <1>3, Zenon DEF LInv, ListLock
<1>8. Found'
  <2>1. \A q \in Proc : pc'[q] # "init_set"
    BY <1>3, <1>4
  <2>2. QED
    BY <2>1, Zenon DEF Found
<1>9. NumSemCovers'
  <2>1. Uncounted = {} /\ Uncounted' = {p}
    BY <1>1, <1>3, <1>4 DEF Uncounted
  <2>2. Cardinality(Uncounted) = 0 /\ Cardinality(Uncounted') = 1
    BY <2>1, FS_EmptySet, FS_Singleton, Zenon
  <2>3. Cardinality(UsedSems') <= Cardinality(UsedSems) + 1
    BY <1>5, Counted, AddRemoveCount, Zenon
  <2>4. Cardinality(UsedSems) <= num_sem + Cardinality(Uncounted)
    BY DEF LInv, NumSemCovers, UsedSems, Uncounted
  <2>5. Cardinality(UsedSems') \in Nat /\ num_sem \in Nat
    BY <1>5, Counted, AddRemoveCount, Zenon DEF LInv, ListTypes
  <2>6. Cardinality(UsedSems') <= num_sem' + Cardinality(Uncounted')
    BY <1>1, <2>2, <2>3, <2>4, <2>5, Counted
  <2>7. QED
    BY <2>6, Zenon DEF NumSemCovers, UsedSems, Uncounted
<1>10. QED
  BY <1>6, <1>7, <1>8, <1>9 DEF LInv

\* num_sem++
LEMMA CountStep == ASSUME LInv, NEW p \in Proc, init_lock(p) PROVE LInv'
<1>1. /\ pc[p] = "init_lock" /\ pc' = [pc EXCEPT ![p] = "init_release"]
      /\ num_sem' = num_sem + 1 /\ used' = used /\ arg' = arg /\ lock_semlist' = lock_semlist
  BY Zenon DEF init_lock, At, Goto
<1>2. "init_release" \in PC /\ "init_lock" \in Listing /\ "init_release" \in Listing
  BY DEF PC, InitPC, Listing
<1>3. pc'[p] = "init_release" /\ \A q \in Proc : q # p => pc'[q] = pc[q]
  BY <1>1, Zenon DEF LInv, ListTypes
<1>4. \A q \in Proc : q # p => pc[q] # "init_lock"
  BY <1>1, <1>2, ListAlone
<1>5. ListTypes'
  <2>1. num_sem' \in Nat
    BY <1>1 DEF LInv, ListTypes
  <2>2. QED
    BY <1>1, <1>2, <2>1, Zenon DEF LInv, ListTypes
<1>6. ListLock'
  BY <1>1, <1>2, <1>3, Zenon DEF LInv, ListLock
<1>7. Found'
  BY <1>1, <1>3 DEF LInv, Found
<1>8. NumSemCovers'
  <2>1. Uncounted = {p} /\ Uncounted' = {}
    BY <1>1, <1>3, <1>4 DEF Uncounted
  <2>2. Cardinality(Uncounted) = 1 /\ Cardinality(Uncounted') = 0
    BY <2>1, FS_EmptySet, FS_Singleton, Zenon
  <2>3. Cardinality(UsedSems) <= num_sem + Cardinality(Uncounted) /\ UsedSems' = UsedSems
    BY <1>1 DEF LInv, NumSemCovers, UsedSems, Uncounted
  <2>4. num_sem \in Nat
    BY DEF LInv, ListTypes
  <2>5. Cardinality(UsedSems') <= num_sem' + Cardinality(Uncounted')
    BY <1>1, <2>2, <2>3, <2>4, Counted
  <2>6. QED
    BY <2>5, Zenon DEF NumSemCovers, UsedSems, Uncounted
<1>9. QED
  BY <1>5, <1>6, <1>7, <1>8 DEF LInv

\* sem_destroy: one less in use, and no sem_init is at work on the entry.
LEMMA ClearStep == ASSUME LInv, NEW p \in Proc, destroy_clear(p) PROVE LInv'
<1>1. /\ pc[p] = "destroy_clear" /\ pc' = [pc EXCEPT ![p] = "destroy_release"]
      /\ used' = [used EXCEPT ![arg[p]] = 0]
      /\ num_sem' = num_sem /\ arg' = arg /\ lock_semlist' = lock_semlist
  BY Zenon DEF destroy_clear, At, Goto, locks
<1>2. "destroy_release" \in PC /\ "destroy_clear" \in Listing /\ "init_set" \in Listing
  BY DEF PC, DestroyPC, Listing
<1>3. pc'[p] = "destroy_release" /\ \A q \in Proc : q # p => pc'[q] = pc[q]
  BY <1>1, Zenon DEF LInv, ListTypes
<1>4. /\ used' \in [SemId -> {0, 1}] /\ arg[p] \in SemId /\ UsedSems' = UsedSems \ {arg[p]}
  <2>1. 0 \in {0, 1} /\ 0 # 1
    OBVIOUS
  <2>2. QED
    BY <1>1, <2>1, SetUsed, Zenon
<1>5. ListTypes'
  BY <1>1, <1>2, <1>4, Zenon DEF LInv, ListTypes
<1>6. ListLock'
  BY <1>1, <1>2, <1>3, Zenon DEF LInv, ListLock
<1>7. Found'
  <2>1. \A q \in Proc : q # p => pc[q] # "init_set"
    BY <1>1, <1>2, ListAlone
  <2>2. \A q \in Proc : pc'[q] # "init_set"
    BY <1>3, <2>1
  <2>3. QED
    BY <2>2, Zenon DEF Found
<1>8. NumSemCovers'
  <2>1. Uncounted' = Uncounted
    BY <1>1, <1>3 DEF Uncounted
  <2>2. Cardinality(UsedSems') <= Cardinality(UsedSems) /\ Cardinality(UsedSems') \in Nat
    BY <1>4, Counted, AddRemoveCount, Zenon
  <2>3. Cardinality(UsedSems) <= num_sem + Cardinality(Uncounted) /\ num_sem \in Nat
    BY DEF LInv, ListTypes, NumSemCovers, UsedSems, Uncounted
  <2>4. Cardinality(UsedSems') <= num_sem' + Cardinality(Uncounted')
    BY <1>1, <2>1, <2>2, <2>3, Counted
  <2>5. QED
    BY <2>4, Zenon DEF NumSemCovers, UsedSems, Uncounted
<1>9. QED
  BY <1>5, <1>6, <1>7, <1>8 DEF LInv

\* All other steps.
LEMMA ListStep ==
  ASSUME LInv, NEW p \in Proc, KernelStep(p) \/ UserCall(p) \/ exit_killed(p) \/ kill_proc(p)
  PROVE LInv'
<1> USE DEF At, Goto, Return
<1>1. CASE init_acquire(p) \/ destroy_acquire(p)
  <2>1. /\ used' = used /\ num_sem' = num_sem /\ arg' = arg /\ lock_semlist = NoProc /\ lock_semlist' = p
        /\ pc[p] \in {"init_acquire", "destroy_acquire"}
        /\ \E l \in {"init_search", "destroy_clear"} : pc' = [pc EXCEPT ![p] = l]
    BY <1>1, Zenon DEF init_acquire, destroy_acquire, AcquireSemlist, sems
  <2>2. {"init_search", "destroy_clear"} \subseteq PC
    BY DEF PC, InitPC, DestroyPC
  <2>3. QED
    BY <2>1, <2>2, OtherList, Zenon
<1>2. CASE init_release(p) \/ destroy_release(p)
  <2>1. /\ used' = used /\ num_sem' = num_sem /\ arg' = arg /\ lock_semlist' = NoProc
        /\ pc[p] \in {"init_release", "destroy_release"} /\ pc' = [pc EXCEPT ![p] = "user"]
    BY <1>2, Zenon DEF init_release, destroy_release, sems
  <2>2. "user" \in PC /\ "user" \notin Listing /\ {"init_release", "destroy_release"} \subseteq Listing
    BY DEF PC, Listing
  <2>3. QED
    BY <2>1, <2>2, OtherList, Zenon
<1>3. CASE kill_proc(p)
  <2>1. used' = used /\ num_sem' = num_sem /\ arg' = arg /\ lock_semlist' = lock_semlist /\ pc' = pc
    BY <1>3, Zenon DEF kill_proc, sems, locks
  <2>2. QED
    BY <2>1, Zenon DEF LInv, ListTypes, ListLock, Found, NumSemCovers
<1>4. ASSUME used' = used, num_sem' = num_sem, lock_semlist' = lock_semlist,
             arg' = arg \/ \E s \in SemId : arg' = [arg EXCEPT ![p] = s], pc[p] \notin Listing,
             \E l \in PC \ Listing : pc' = [pc EXCEPT ![p] = l]
      PROVE LInv'
  <2>1. "init_lock" \in Listing /\ "init_set" \in Listing
    BY DEF Listing
  <2>2. QED
    BY <1>4, <2>1, OtherList, Zenon
<1>5. CASE \/ wait_acquire(p) \/ wait_test(p) \/ wait_release(p) \/ sleep_acquire(p) \/ sleep_release(p)
           \/ sleep_sched(p) \/ sleep_wakeup(p) \/ sleep_reacquire(p)
           \/ post_acquire(p) \/ post_add(p) \/ post_wakeup(p) \/ post_release(p)
  <2>1. used' = used /\ num_sem' = num_sem /\ arg' = arg
    BY <1>5, Zenon DEF wait_acquire, wait_test, wait_release, sleep_acquire, sleep_release, sleep_sched,
       sleep_wakeup, sleep_reacquire, post_acquire, post_add, post_wakeup, post_release, sems
  <2>2. lock_semlist' = lock_semlist
    BY <1>5, Zenon DEF wait_acquire, wait_test, wait_release, sleep_acquire, sleep_release, sleep_sched,
       sleep_wakeup, sleep_reacquire, post_acquire, post_add, post_wakeup, post_release, locks,
       AcquireSplock, ReleaseSplock
  <2>3. pc[p] \in WaitPC \cup PostPC /\ \E l \in {"user"} \cup WaitPC \cup PostPC : pc' = [pc EXCEPT ![p] = l]
    BY <1>5, Zenon DEF wait_acquire, wait_test, wait_release, sleep_acquire, sleep_release, sleep_sched,
       sleep_wakeup, sleep_reacquire, post_acquire, post_add, post_wakeup, post_release, WaitPC, PostPC
  <2>4. {"user"} \cup WaitPC \cup PostPC \subseteq PC \ Listing
    BY DEF WaitPC, PostPC, Listing, PC
  <2>5. QED
    BY <1>4, <2>1, <2>2, <2>3, <2>4, Zenon
<1>6. CASE UserCall(p) \/ exit_killed(p)
  <2>1. /\ used' = used /\ num_sem' = num_sem /\ lock_semlist' = lock_semlist /\ pc[p] = "user"
    BY <1>6, Zenon DEF UserCall, exit_killed, sem_init, sem_wait, sem_post, sem_destroy, sems, locks
  <2>2. arg' = arg \/ \E s \in SemId : arg' = [arg EXCEPT ![p] = s]
    BY <1>6, Zenon DEF UserCall, exit_killed, sem_init, sem_wait, sem_post, sem_destroy
  <2>3. \E l \in {"user", "exited", "init_acquire", "wait_acquire", "post_acquire", "destroy_acquire"} :
          pc' = [pc EXCEPT ![p] = l]
    BY <1>6, Zenon DEF UserCall, exit_killed, sem_init, sem_wait, sem_post, sem_destroy
  <2>4. {"user", "exited", "init_acquire", "wait_acquire", "post_acquire", "destroy_acquire"}
          \subseteq PC \ Listing
    BY DEF WaitPC, PostPC, InitPC, DestroyPC, Listing, PC
  <2>5. QED
    BY <1>4, <2>1, <2>2, <2>3, <2>4, Zenon
<1>7. QED
  BY <1>1, <1>2, <1>3, <1>5, <1>6, SearchStep, SetStep, CountStep, ClearStep, Zenon DEF KernelStep

\* The list as main() leaves it.
LEMMA LInvInit == Init => LInv
<1> SUFFICES ASSUME Init PROVE LInv
  OBVIOUS
<1>1. /\ used = [s \in SemId |-> IF s < Len(Created) THEN 1 ELSE 0] /\ num_sem = Len(Created)
      /\ pc = [p \in Proc |-> "user"] /\ arg = [p \in Proc |-> 0]
  BY Zenon DEF Init
<1>2. Len(Created) \in Nat /\ 0 \in SemId /\ NUM_SEMAPHORES \in Nat /\ Len(Created) <= NUM_SEMAPHORES
  BY CreatedAssumption, NumSemAssumption DEF SemId
<1>3. ListTypes
  BY <1>1, <1>2 DEF ListTypes, PC
<1>4. ListLock /\ Found
  BY <1>1 DEF ListLock, Found, Listing
<1>5. UsedSems = 0 .. Len(Created) - 1
  BY <1>1, <1>2 DEF UsedSems, SemId
<1>6. Cardinality(UsedSems) = Len(Created)
  <2>1. PICK n : n = Len(Created)
    BY Zenon
  <2>2. n \in Nat /\ 0 \in Int /\ n - 1 \in Int
    BY <1>2, <2>1
  <2>3. Cardinality(0 .. n - 1) = IF 0 > n - 1 THEN 0 ELSE n - 1 - 0 + 1
    BY <2>2, FS_Interval
  <2>4. Cardinality(0 .. n - 1) = n
    BY <2>2, <2>3
  <2>5. QED
    BY <1>5, <2>1, <2>4
<1>7. NumSemCovers
  BY <1>1, <1>2, <1>6, Counted DEF NumSemCovers, UsedSems, Uncounted
<1>8. QED
  BY <1>3, <1>4, <1>7 DEF LInv

\* Every step preserves this invariant.
LEMMA LInvNext == LInv /\ [Next]_vars => LInv'
<1> SUFFICES ASSUME LInv, [Next]_vars PROVE LInv'
  OBVIOUS
<1>1. CASE Next
  BY <1>1, ListStep, Zenon DEF Next
<1>2. CASE UNCHANGED vars
  <2>1. used' = used /\ num_sem' = num_sem /\ arg' = arg /\ lock_semlist' = lock_semlist /\ pc' = pc
    BY <1>2, Zenon DEF vars, sems, locks
  <2>2. QED
    BY <2>1, Zenon DEF LInv, ListTypes, ListLock, Found, NumSemCovers
<1>3. QED
  BY <1>1, <1>2

\* With sem_init and sem_destroy at any time, num_sem never falls behind the entries in use,
\* less the one that is being counted.
THEOREM NumSemCoversHolds == Spec => []NumSemCovers
<1>1. LInv => NumSemCovers
  BY DEF LInv
<1>2. QED
  BY <1>1, LInvInit, LInvNext, PTL DEF Spec

\* Two sem_init never get the same entry: the one found is unused when it is filled in.
THEOREM InitGrantsUnusedHolds == Spec => InitGrantsUnused
<1>1. LInv /\ [Next]_vars =>
        [\A p \in Proc : pc[p] = "init_set" /\ pc'[p] # "init_set" => used[arg[p]] = 0]_vars
  BY Zenon DEF LInv, Found
<1>2. QED
  BY <1>1, LInvInit, LInvNext, PTL DEF Spec, InitGrantsUnused
============================================================================
