----------------------------- MODULE MlfqProofs -----------------------------
(***************************************************************************)
(* For any number of CPUs, processes and levels, whatever the unlocked      *)
(* updates of allocproc and boostproc do to the queues: no two CPUs run the *)
(* same process.  The scheduler takes what it finds in the queues only if   *)
(* it is RUNNABLE, under ptable.lock.  The invariant adds that a process    *)
(* being made by fork is an EMBRYO with one maker, so that its maker cannot *)
(* change the state of a process that runs, and that the entries of the     *)
(* queues are processes or NULL.                                            *)
(*                                                                          *)
(* With one scheduler and no unlocked update, the queues are right: every   *)
(* process is in one place, at its own level, and the scan finds the one of *)
(* the highest level.  The invariant adds that the place the scheduler      *)
(* remembers across a switch is still that of the process that runs.        *)
(***************************************************************************)
EXTENDS Mlfq, TLAPS

State == {"UNUSED", "EMBRYO", "SLEEPING", "RUNNABLE", "RUNNING", "ZOMBIE"}
Making == {"fork_store", "fork_count", "fork_finish"}

Queues(m) == m \in [at : [Level -> [Index -> Slot \cup {NULL}]], size : [Level -> Int]]
Bounded(m) == \A l \in Level : m.size[l] <= QLEN

QueueInv == Queues(mlfq) /\ (~fault => Bounded(mlfq))

StateTypes ==
  /\ st \in [Slot -> State]
  /\ DOMAIN kpc = Slot /\ DOMAIN np = Slot /\ DOMAIN cpc = CPU /\ DOMAIN run = CPU

\* What runs is RUNNING, and runs once.
RunInv ==
  /\ \A c \in CPU : cpc[c] = "run" => run[c] \in Slot /\ st[run[c]] = "RUNNING"
  /\ \A p \in Slot : st[p] = "RUNNING" => \E c \in CPU : cpc[c] = "run" /\ run[c] = p
  /\ \A c, d \in CPU : cpc[c] = "run" /\ cpc[d] = "run" /\ run[c] = run[d] => c = d

\* What is being made is an EMBRYO, and has one maker.
MakeInv ==
  /\ \A p \in Slot : kpc[p] \in Making => np[p] \in Slot /\ st[np[p]] = "EMBRYO"
  /\ \A p, q \in Slot : kpc[p] \in Making /\ kpc[q] \in Making /\ np[p] = np[q] => p = q

ProcInv == StateTypes /\ RunInv /\ MakeInv
MInv == QueueInv /\ ProcInv

----------------------------------------------------------------------------
\* The queues

\* rm_priority moves entries inside of the array, wherever its index points.
LEMMA RmQueues ==
  ASSUME NEW m, Queues(m), Bounded(m), NEW l, NEW i
  PROVE Queues(rm_priority(m, l, i)) /\ Bounded(rm_priority(m, l, i))
<1> DEFINE n == m.size[l]
           a == m.at[l]
           shifted == [j \in Index |-> IF i <= j /\ j < n - 1 THEN a[j + 1]
                                       ELSE IF i < n - 1 /\ j = n - 1 THEN NULL
                                       ELSE a[j]]
           cleared == [j \in Index |-> IF j = i THEN NULL ELSE a[j]]
           row == IF n > 1 THEN shifted ELSE cleared
<1>1. rm_priority(m, l, i) = [at |-> [m.at EXCEPT ![l] = row], size |-> [m.size EXCEPT ![l] = n - 1]]
  BY DEF rm_priority
<1>2. ASSUME l \in Level PROVE row \in [Index -> Slot \cup {NULL}] /\ n \in Int /\ n - 1 <= QLEN
  <2>1. n \in Int /\ n <= QLEN /\ a \in [Index -> Slot \cup {NULL}] /\ QLEN \in Nat
    BY <1>2, SizeAssumption DEF Queues, Bounded
  <2>2. \A j \in Index : j < n - 1 => j + 1 \in Index
    BY <2>1 DEF Index
  <2>3. QED
    BY <2>1, <2>2
<1> HIDE DEF row, n
<1>3. m.at \in [Level -> [Index -> Slot \cup {NULL}]] /\ m.size \in [Level -> Int]
  BY DEF Queues
<1>4. [m.at EXCEPT ![l] = row] \in [Level -> [Index -> Slot \cup {NULL}]]
  BY <1>2, <1>3, Zenon
<1>5. [m.size EXCEPT ![l] = n - 1] \in [Level -> Int]
  <2>1. CASE l \in Level
    <3>1. n - 1 \in Int
      BY <2>1, <1>2
    <3>2. QED
      BY <3>1, <1>3, Zenon
  <2>2. CASE l \notin Level
    <3>1. [m.size EXCEPT ![l] = n - 1] = m.size
      BY <2>2, <1>3
    <3>2. QED
      BY <3>1, <1>3, Zenon
  <2>3. QED
    BY <2>1, <2>2
<1>6. \A k \in Level : [m.size EXCEPT ![l] = n - 1][k] <= QLEN
  BY <1>2, <1>3 DEF Bounded
<1>7. QED
  BY <1>1, <1>4, <1>5, <1>6 DEF Queues, Bounded

\* Storing the entry, the first statement of an insertion, keeps the shape of the queues.
LEMMA StoreQueues ==
  ASSUME NEW m, Queues(m), NEW l, NEW p \in Slot
  PROVE Queues(store(m, l, p)) /\ store(m, l, p).size = m.size
<1> DEFINE row == [j \in Index |-> IF j = m.size[l] THEN p ELSE m.at[l][j]]
<1>1. m.at \in [Level -> [Index -> Slot \cup {NULL}]] /\ m.size \in [Level -> Int]
  BY DEF Queues
<1>2. l \in Level => row \in [Index -> Slot \cup {NULL}]
  BY <1>1
<1>3. store(m, l, p) = [at |-> [m.at EXCEPT ![l] = row], size |-> m.size]
  BY DEF store
<1> HIDE DEF row
<1>4. [m.at EXCEPT ![l] = row] \in [Level -> [Index -> Slot \cup {NULL}]]
  BY <1>1, <1>2, Zenon
<1>5. QED
  BY <1>1, <1>3, <1>4 DEF Queues

\* Raising the count keeps the shape of the queues.
LEMMA CountQueues ==
  ASSUME NEW m, Queues(m), NEW l
  PROVE /\ Queues(count(m, l))
        /\ Bounded(m) /\ ~Overflows(m, l) => Bounded(count(m, l))
  BY SizeAssumption DEF Queues, count, Bounded, Overflows

\* An insertion keeps the shape of the queues.
LEMMA InsertQueues ==
  ASSUME NEW m, Queues(m), NEW l, NEW p \in Slot
  PROVE /\ Queues(insert(m, l, p))
        /\ Bounded(m) /\ ~Overflows(m, l) => Bounded(insert(m, l, p))
<1>1. Queues(store(m, l, p)) /\ store(m, l, p).size = m.size
  BY StoreQueues
<1>2. Bounded(m) => Bounded(store(m, l, p))
  BY <1>1 DEF Bounded
<1>3. ~Overflows(m, l) => ~Overflows(store(m, l, p), l)
  BY <1>1 DEF Overflows
<1>4. QED
  BY <1>1, <1>2, <1>3, CountQueues DEF insert

\* An entry that is not NULL is a process.
LEMMA EntryInSlot ==
  ASSUME Queues(mlfq), NEW x \in Places, At(x) # NULL
  PROVE At(x) \in Slot /\ x[1] \in Level
<1>1. x[1] \in Level /\ x[2] \in Index
  BY DEF Places
<1>2. mlfq.at \in [Level -> [Index -> Slot \cup {NULL}]]
  BY DEF Queues
<1>3. mlfq.at[x[1]][x[2]] \in Slot \cup {NULL}
  BY <1>1, <1>2
<1>4. QED
  BY <1>1, <1>3 DEF At

----------------------------------------------------------------------------
\* The steps

\* The invariant holds when the first processes are in the top queue.
LEMMA MInvInit == Init => MInv
<1> SUFFICES ASSUME Init PROVE MInv
  OBVIOUS
<1>1. \A j \in Index : (j + 1) % NLive \in Slot
  BY SizeAssumption DEF Index, Slot
<1>2. Queues(mlfq)
  BY <1>1, SizeAssumption DEF Init, Queues
<1>3. Bounded(mlfq)
  BY SizeAssumption DEF Init, Bounded
<1>4. ProcInv
  BY SizeAssumption DEF Init, ProcInv, StateTypes, RunInv, MakeInv, State, Making
<1>5. QED
  BY <1>2, <1>3, <1>4 DEF MInv, QueueInv

\* The scan: the process found is RUNNABLE, so that no CPU runs it yet.
LEMMA ScheduleStep == ASSUME MInv, NEW c \in CPU, schedule(c) PROVE MInv'
<1>1. PICK x \in Places : Picks(x) /\ schedule(c)!2!(x)!2
  BY DEF schedule
<1>2. QueueInv'
  BY DEF MInv, QueueInv, schedule, Unlocked, Queues, Bounded
<1>3. CASE At(x) = NULL
  BY <1>1, <1>2, <1>3, SMTT(20) DEF MInv, ProcInv, StateTypes, RunInv, MakeInv, schedule, forks
<1>4. CASE At(x) # NULL
  <2> DEFINE p == At(x)
  <2>1. p \in Slot /\ st[p] = "RUNNABLE" /\ cpc[c] = "scan"
    <3>1. x \in Places /\ x \in Stops /\ cpc[c] = "scan"
      BY <1>1 DEF Picks, schedule
    <3>2. st[p] = "RUNNABLE"
      BY <3>1, <1>4 DEF Stops
    <3>3. QED
      BY <3>1, <3>2, <1>4, EntryInSlot DEF MInv, QueueInv
  <2>2. /\ st' = [st EXCEPT ![p] = "RUNNING"]
        /\ cpc' = [cpc EXCEPT ![c] = "run"] /\ run' = [run EXCEPT ![c] = p]
    BY <1>1, <1>4 DEF MarkRunning
  <2>3. kpc' = kpc /\ np' = np
    BY DEF schedule, forks
  <2> HIDE DEF p
  <2>4. ProcInv'
    <3>1. StateTypes'
      BY <2>1, <2>2, <2>3 DEF MInv, ProcInv, StateTypes, State
    <3>2. RunInv'
      BY <2>1, <2>2, <2>3 DEF MInv, ProcInv, StateTypes, RunInv
    <3>3. MakeInv'
      BY <2>1, <2>2, <2>3 DEF MInv, ProcInv, MakeInv
    <3>4. QED
      BY <3>1, <3>2, <3>3 DEF ProcInv
  <2>5. QED
    BY <1>2, <2>4 DEF MInv
<1>5. QED
  BY <1>3, <1>4

\* The process gives up its CPU, and is filed wherever the scheduler remembers it.
LEMMA BackStep ==
  ASSUME MInv, ~fault, NEW c \in CPU, NEW s \in {"RUNNABLE", "SLEEPING", "ZOMBIE"},
         cpc[c] = "run", back_in_scheduler(c, run[c], s)
  PROVE MInv'
<1> DEFINE p == run[c]
           l == lvl[c]
           m == rm_priority(mlfq, l, idx[c])
<1>1. p \in Slot /\ st[p] = "RUNNING"
  BY DEF MInv, ProcInv, RunInv
<1>2. Queues(mlfq) /\ Bounded(mlfq) /\ Queues(m) /\ Bounded(m)
  BY RmQueues DEF MInv, QueueInv
<1>3. \/ mlfq' = insert(m, l - 1, p) /\ fault' = Overflows(m, l - 1)
      \/ mlfq' = insert(m, l, p) /\ fault' = Overflows(m, l)
      \/ mlfq' = mlfq /\ fault' = fault
  BY DEF back_in_scheduler
<1>4. /\ st' = [st EXCEPT ![p] = s] /\ cpc' = [cpc EXCEPT ![c] = "promote"]
      /\ run' = [run EXCEPT ![c] = NULL] /\ kpc' = kpc /\ np' = np
  BY DEF back_in_scheduler, forks
<1> HIDE DEF p, l, m
<1>5. QueueInv'
  <2>1. CASE mlfq' = insert(m, l - 1, p) /\ fault' = Overflows(m, l - 1)
    BY <1>1, <1>2, <2>1, InsertQueues, Zenon DEF QueueInv, Queues, Bounded
  <2>2. CASE mlfq' = insert(m, l, p) /\ fault' = Overflows(m, l)
    BY <1>1, <1>2, <2>2, InsertQueues, Zenon DEF QueueInv, Queues, Bounded
  <2>3. CASE mlfq' = mlfq /\ fault' = fault
    BY <1>2, <2>3 DEF QueueInv, Queues, Bounded
  <2>4. QED
    BY <1>3, <2>1, <2>2, <2>3
<1>6. \A d \in CPU : d # c /\ cpc[d] = "run" => run[d] # p
  BY DEF MInv, ProcInv, RunInv, p
<1>7. ProcInv'
  <2>1. StateTypes'
    BY <1>1, <1>4, <1>6 DEF MInv, ProcInv, StateTypes, State
  <2>2. RunInv'
    BY <1>1, <1>4, <1>6 DEF MInv, ProcInv, StateTypes, RunInv, State
  <2>3. MakeInv'
    BY <1>1, <1>4, <1>6 DEF MInv, ProcInv, MakeInv
  <2>4. QED
    BY <2>1, <2>2, <2>3 DEF ProcInv
<1>8. QED
  BY <1>5, <1>7 DEF MInv

\* The promotion loop moves entries only.
LEMMA PromoteStep == ASSUME MInv, NEW c \in CPU, promote(c) PROVE MInv'
<1>1. PICK x \in Halts(c) : promote(c)!2!(x)
  BY Zenon DEF promote
<1> DEFINE l == x[1]
           p == At(x)
           m == rm_priority(mlfq, l, x[2])
<1>2. x \in Places
  BY DEF Halts, Ahead
<1>3. Queues(mlfq) /\ Bounded(mlfq) /\ Queues(m) /\ Bounded(m)
  BY RmQueues DEF MInv, QueueInv, promote
<1>4. \/ p = NULL /\ mlfq' = mlfq
      \/ p # NULL /\ l = Top /\ mlfq' = m
      \/ p # NULL /\ l # Top /\ mlfq' = insert(m, l + 1, p) /\ (Overflows(m, l + 1) => fault')
  BY <1>1, Zenon
<1>5. UNCHANGED <<st, kpc, np, cpc, run>>
  BY DEF promote, forks
<1>6. p # NULL => p \in Slot
  BY <1>2, <1>3, EntryInSlot
<1> HIDE DEF l, p, m
<1>7. QueueInv'
  <2>1. CASE mlfq' = mlfq \/ mlfq' = m
    BY <1>3, <2>1 DEF QueueInv, Queues, Bounded
  <2>2. CASE p # NULL /\ mlfq' = insert(m, l + 1, p) /\ (Overflows(m, l + 1) => fault')
    BY <1>3, <1>6, <2>2, InsertQueues, Zenon DEF QueueInv, Queues, Bounded
  <2>3. QED
    BY <1>4, <2>1, <2>2
<1>8. QED
  BY <1>5, <1>7 DEF MInv, ProcInv, StateTypes, RunInv, MakeInv

\* The end of the loop changes only where the scheduler is.
LEMMA PromoteDoneStep == ASSUME MInv, NEW c \in CPU, promote_done(c) PROVE MInv'
<1>1. QueueInv'
  BY DEF MInv, QueueInv, promote_done, Queues, Bounded
<1>2. ProcInv'
  BY DEF MInv, ProcInv, StateTypes, RunInv, MakeInv, promote_done, procs, forks
<1>3. QED
  BY <1>1, <1>2 DEF MInv

\* wakeup, wait and join change a process that does not run and is not being made.
LEMMA WakeReapStep ==
  ASSUME MInv, NEW p \in Slot, wakeup(p) \/ \E c \in CPU : reap(c, p)
  PROVE MInv'
<1>1. st[p] \in {"SLEEPING", "ZOMBIE"} /\ \E s \in {"RUNNABLE", "UNUSED"} : st' = [st EXCEPT ![p] = s]
  BY DEF wakeup, reap
<1>2. UNCHANGED <<mlfq, fault, kpc, np, cpc, run>>
  BY DEF wakeup, reap, forks, scheds
<1>3. QueueInv'
  BY <1>2 DEF MInv, QueueInv, Queues, Bounded
<1>4. ProcInv'
  <2>1. StateTypes'
    BY <1>1, <1>2 DEF MInv, ProcInv, StateTypes, State
  <2>2. RunInv'
    BY <1>1, <1>2 DEF MInv, ProcInv, RunInv
  <2>3. MakeInv'
    BY <1>1, <1>2 DEF MInv, ProcInv, MakeInv
  <2>4. QED
    BY <2>1, <2>2, <2>3 DEF ProcInv
<1>5. QED
  BY <1>3, <1>4 DEF MInv

\* allocproc takes a slot that is UNUSED, hence nobody else's EMBRYO.
LEMMA ForkStep == ASSUME MInv, NEW c \in CPU, fork(c) PROVE MInv'
<1>1. PICK p \in Slot, z \in Free : fork(c)!2!(p, z)
  BY Zenon DEF fork
<1>2. z \in Slot /\ st[z] = "UNUSED" /\ kpc[p] = "user"
  BY <1>1 DEF Free, Runs
<1>3. /\ st' = [st EXCEPT ![z] = "EMBRYO"] /\ kpc' = [kpc EXCEPT ![p] = "fork_store"]
      /\ np' = [np EXCEPT ![p] = z]
  BY <1>1
<1>4. UNCHANGED <<mlfq, fault, cpc, run>>
  BY DEF fork, scheds
<1>5. QueueInv'
  BY <1>4 DEF MInv, QueueInv, Queues, Bounded
<1>6. ProcInv'
  <2>1. StateTypes'
    BY <1>2, <1>3, <1>4 DEF MInv, ProcInv, StateTypes, State
  <2>2. RunInv'
    BY <1>2, <1>3, <1>4 DEF MInv, ProcInv, RunInv
  <2>3. MakeInv'
    BY <1>2, <1>3, <1>4 DEF MInv, ProcInv, StateTypes, MakeInv, Making
  <2>4. QED
    BY <2>1, <2>2, <2>3 DEF ProcInv
<1>7. QED
  BY <1>5, <1>6 DEF MInv

\* The child is RUNNABLE or given back, in the queue or not.
LEMMA ForkEndStep == ASSUME MInv, NEW c \in CPU, fork_no_stack(c) \/ fork_finish(c) PROVE MInv'
<1>1. PICK p \in Slot, s \in {"RUNNABLE", "UNUSED"} :
        /\ kpc[p] \in Making
        /\ st' = [st EXCEPT ![np[p]] = s] /\ kpc' = [kpc EXCEPT ![p] = "user"]
        /\ np' = [np EXCEPT ![p] = NULL]
  BY DEF fork_no_stack, fork_finish, Runs, Making
<1>2. UNCHANGED <<mlfq, fault, cpc, run>>
  BY DEF fork_no_stack, fork_finish, scheds
<1>3. QueueInv'
  BY <1>2 DEF MInv, QueueInv, Queues, Bounded
<1>4. /\ np[p] \in Slot /\ st[np[p]] = "EMBRYO"
      /\ \A q \in Slot : q # p /\ kpc[q] \in Making => np[q] # np[p]
  BY <1>1 DEF MInv, ProcInv, MakeInv
<1>5. ProcInv'
  <2>1. StateTypes'
    BY <1>1, <1>2, <1>4 DEF MInv, ProcInv, StateTypes, State
  <2>2. RunInv'
    BY <1>1, <1>2, <1>4 DEF MInv, ProcInv, RunInv
  <2>3. MakeInv'
    BY <1>1, <1>2, <1>4 DEF MInv, ProcInv, StateTypes, MakeInv, Making
  <2>4. QED
    BY <2>1, <2>2, <2>3 DEF ProcInv
<1>6. QED
  BY <1>3, <1>5 DEF MInv

\* The unlocked insertion of allocproc.
LEMMA ForkQueueStep == ASSUME MInv, NEW c \in CPU, fork_store(c) \/ fork_count(c) PROVE MInv'
<1>1. PICK p \in Slot :
        /\ kpc[p] \in Making
        /\ \E pc \in Making : kpc' = [kpc EXCEPT ![p] = pc]
        /\ \/ mlfq' = store(mlfq, Top, np[p])
           \/ mlfq' = count(mlfq, Top) /\ fault' = Overflows(mlfq, Top)
  BY SMTT(20) DEF fork_store, fork_count, Runs, Making
<1>2. UNCHANGED <<st, np, cpc, run>> /\ ~fault
  BY DEF fork_store, fork_count, scheds, procs
<1>3. np[p] \in Slot /\ Queues(mlfq) /\ Bounded(mlfq)
  BY <1>1, <1>2, SMTT(20) DEF MInv, ProcInv, MakeInv, QueueInv
<1>4. QueueInv'
  <2>1. CASE mlfq' = store(mlfq, Top, np[p])
    BY <1>3, <2>1, StoreQueues DEF QueueInv, Queues, Bounded
  <2>2. CASE mlfq' = count(mlfq, Top) /\ fault' = Overflows(mlfq, Top)
    BY <1>3, <2>2, CountQueues, Zenon DEF QueueInv, Queues, Bounded
  <2>3. QED
    BY <1>1, <2>1, <2>2
<1>5. ProcInv'
  <2>1. StateTypes'
    BY <1>1, <1>2, SMTT(20) DEF MInv, ProcInv, StateTypes
  <2>2. RunInv'
    BY <1>1, <1>2, SMTT(20) DEF MInv, ProcInv, RunInv
  <2>3. MakeInv'
    BY <1>1, <1>2 DEF MInv, ProcInv, MakeInv
  <2>4. QED
    BY <2>1, <2>2, <2>3 DEF ProcInv
<1>6. QED
  BY <1>4, <1>5 DEF MInv

\* boostproc changes the queues without the lock, and no state.
LEMMA BoostStep == ASSUME MInv, NEW c \in CPU, Boosting(c) PROVE MInv'
<1>1. PICK p \in Slot :
        /\ kpc[p] \notin Making
        /\ \E pc \in {"user", "boost_rm", "boost_store", "boost_count", "boost_finish"} :
             kpc' = [kpc EXCEPT ![p] = pc]
        /\ \/ mlfq' = mlfq
           \/ mlfq' = rm_priority(mlfq, spot[p][1], spot[p][2])
           \/ mlfq' = store(mlfq, spot[p][1] + 1, p)
           \/ mlfq' = count(mlfq, spot[p][1] + 1) /\ fault' = Overflows(mlfq, spot[p][1] + 1)
  <2>1. CASE boostproc(c)
    BY <2>1, Zenon DEF boostproc, Runs, Making
  <2>2. CASE boost_rm(c)
    BY <2>2, Zenon DEF boost_rm, Runs, Making
  <2>3. CASE boost_store(c)
    BY <2>3, Zenon DEF boost_store, Runs, Making
  <2>4. CASE boost_count(c)
    BY <2>4, Zenon DEF boost_count, Runs, Making
  <2>5. CASE boost_finish(c)
    BY <2>5, Zenon DEF boost_finish, Runs, Making
  <2>6. QED
    BY <2>1, <2>2, <2>3, <2>4, <2>5, Zenon DEF Boosting
<1>2. UNCHANGED <<st, np, cpc, run>> /\ ~fault
  <2>1. CASE boostproc(c)
    BY <2>1, SMTT(20) DEF boostproc, scheds, procs
  <2>2. CASE boost_rm(c)
    BY <2>2, SMTT(20) DEF boost_rm, scheds, procs
  <2>3. CASE boost_store(c)
    BY <2>3, SMTT(20) DEF boost_store, scheds, procs
  <2>4. CASE boost_count(c)
    BY <2>4, SMTT(20) DEF boost_count, scheds, procs
  <2>5. CASE boost_finish(c)
    BY <2>5, SMTT(20) DEF boost_finish, scheds
  <2>6. QED
    BY <2>1, <2>2, <2>3, <2>4, <2>5, Zenon DEF Boosting
<1>3. Queues(mlfq) /\ Bounded(mlfq)
  BY <1>2 DEF MInv, QueueInv
<1>4. QueueInv'
  <2>1. CASE mlfq' = mlfq
    BY <1>3, <2>1 DEF QueueInv, Queues, Bounded
  <2>2. CASE mlfq' = rm_priority(mlfq, spot[p][1], spot[p][2])
    BY <1>3, <2>2, RmQueues, Zenon DEF QueueInv
  <2>3. CASE mlfq' = store(mlfq, spot[p][1] + 1, p)
    BY <1>3, <2>3, StoreQueues DEF QueueInv, Queues, Bounded
  <2>4. CASE mlfq' = count(mlfq, spot[p][1] + 1) /\ fault' = Overflows(mlfq, spot[p][1] + 1)
    BY <1>3, <2>4, CountQueues, Zenon DEF QueueInv, Queues, Bounded
  <2>5. QED
    BY <1>1, <2>1, <2>2, <2>3, <2>4, SMTT(20)
<1>5. ProcInv'
  <2>1. StateTypes'
    BY <1>1, <1>2, Zenon DEF MInv, ProcInv, StateTypes
  <2>2. RunInv'
    BY <1>1, <1>2, SMTT(20) DEF MInv, ProcInv, RunInv
  <2>3. MakeInv'
    BY <1>1, <1>2 DEF MInv, ProcInv, MakeInv, Making
  <2>4. QED
    BY <2>1, <2>2, <2>3 DEF ProcInv
<1>6. QED
  BY <1>4, <1>5 DEF MInv

----------------------------------------------------------------------------

\* Every step preserves the invariant.
LEMMA MInvNext == MInv /\ [Next]_vars => MInv'
<1> SUFFICES ASSUME MInv, [Next]_vars PROVE MInv'
  OBVIOUS
<1>1. CASE UNCHANGED vars
  <2>1. UNCHANGED <<mlfq, fault, st, kpc, np, cpc, run>>
    BY <1>1 DEF vars, procs, forks, scheds
  <2>2. QueueInv'
    BY <2>1 DEF MInv, QueueInv, Queues, Bounded
  <2>3. ProcInv'
    BY <2>1, SMTT(20) DEF MInv, ProcInv, StateTypes, RunInv, MakeInv
  <2>4. QED
    BY <2>2, <2>3 DEF MInv
<1>2. ASSUME NEW c \in CPU, yield(c) \/ sleep(c) \/ exit(c) PROVE MInv'
  <2>1. ~fault /\ cpc[c] = "run"
    BY <1>2 DEF yield, sleep, exit, Unlocked, Runs
  <2>2. \E s \in {"RUNNABLE", "SLEEPING", "ZOMBIE"} : back_in_scheduler(c, run[c], s)
    BY <1>2 DEF yield, sleep, exit, Runs
  <2>3. QED
    BY <2>1, <2>2, BackStep
<1>3. ASSUME NEW c \in CPU, Scheduler(c) \/ Forking(c) \/ Boosting(c) PROVE MInv'
  BY <1>3, ScheduleStep, PromoteStep, PromoteDoneStep, ForkStep, ForkEndStep, ForkQueueStep, BoostStep
  DEF Scheduler, Forking
<1>4. QED
  BY <1>1, <1>2, <1>3, WakeReapStep DEF Next

\* On any number of CPUs, and with queues that the unlocked updates of allocproc and
\* boostproc may have spoilt in any way, a process runs on at most one CPU and is
\* RUNNING exactly while it does.
THEOREM OnOneCpuHolds == Spec => []OnOneCpu
<1>1. MInv => OnOneCpu
  BY DEF MInv, ProcInv, RunInv, OnOneCpu
<1>2. QED
  BY <1>1, MInvInit, MInvNext, PTL DEF Spec

----------------------------------------------------------------------------
\* What the scheduler itself does to the queues

\* One scheduler, and nothing that changes the queues without ptable.lock.
OneScheduler == (\A c, d \in CPU : c = d) /\ "fork" \notin Ops /\ "boost" \notin Ops

\* The queues m hold processes only, each at the level lv gives it and in one place of it; the
\* processes of out are in none, the others that are live from the start in one.
Sized(m) == \A l \in Level : m.size[l] \in 0 .. QLEN
EntriesOk(m, lv, out) ==
  \A l \in Level : \A j \in 0 .. m.size[l] - 1 :
     m.at[l][j] \in Slot /\ m.at[l][j] \notin out /\ lv[m.at[l][j]] = l
Once(m) == \A l \in Level : \A j, k \in 0 .. m.size[l] - 1 : m.at[l][j] = m.at[l][k] => j = k
Present(m, lv, out) ==
  \A p \in Slot : p < NLive /\ p \notin out => \E j \in 0 .. m.size[lv[p]] - 1 : m.at[lv[p]][j] = p
Filed(m, lv, out) ==
  Queues(m) /\ Sized(m) /\ EntriesOk(m, lv, out) /\ Once(m) /\ Present(m, lv, out)

\* The place the scheduler remembers across a switch is still the one of the process that runs.
Remembered ==
  \A c \in CPU : cpc[c] = "run" =>
     lvl[c] \in Level /\ idx[c] \in 0 .. mlfq.size[lvl[c]] - 1 /\ mlfq.at[lvl[c]][idx[c]] = run[c]

QueuesRight == level \in [Slot -> Level] /\ Filed(mlfq, level, {}) /\ Remembered

\* No slot is taken that was not in use at the start.
NoneMade == \A p \in Slot : kpc[p] = "user" /\ (st[p] # "UNUSED" => p < NLive)

SchedTypes == DOMAIN lvl = CPU /\ DOMAIN idx = CPU

FInv == MInv /\ SchedTypes /\ NoneMade /\ (~fault => QueuesRight)

----------------------------------------------------------------------------

\* The places below a queue's size: one more entry adds the place at the end.
LEMMA OneMore ==
  \A n \in Nat :
     /\ n \in 0 .. (n + 1) - 1
     /\ \A j \in 0 .. n - 1 : j \in 0 .. (n + 1) - 1
     /\ \A j \in 0 .. (n + 1) - 1 : j \in 0 .. n - 1 \/ j = n
OBVIOUS

\* A size within the array is a number, and the places below it are places of the array.
LEMMA LengthRange ==
  \A n \in 0 .. QLEN :
     /\ n \in Nat
     /\ \A j \in Index : j < n => j \in 0 .. n - 1
     /\ \A j \in 0 .. n - 1 : j \in Index /\ j < n
BY SizeAssumption DEF Index

\* The level above a level other than the top one.
LEMMA NextLevel == \A l \in Level : l # Top => l + 1 \in Level
BY SizeAssumption DEF Level, Top

\* The row after rm_priority(l, i), for an index inside of it.
LEMMA RmRow ==
  ASSUME NEW m, Queues(m), Sized(m), NEW l \in Level, NEW i \in 0 .. m.size[l] - 1
  PROVE LET r == rm_priority(m, l, i) IN
        /\ Queues(r) /\ Sized(r) /\ r.size[l] = m.size[l] - 1
        /\ \A j \in 0 .. m.size[l] - 2 : r.at[l][j] = IF i <= j THEN m.at[l][j + 1] ELSE m.at[l][j]
        /\ \A k \in Level : k # l => r.size[k] = m.size[k] /\ r.at[k] = m.at[k]
<1> DEFINE n == m.size[l]
           a == m.at[l]
           shifted == [j \in Index |-> IF i <= j /\ j < n - 1 THEN a[j + 1]
                                       ELSE IF i < n - 1 /\ j = n - 1 THEN NULL
                                       ELSE a[j]]
           cleared == [j \in Index |-> IF j = i THEN NULL ELSE a[j]]
           row == IF n > 1 THEN shifted ELSE cleared
           r == rm_priority(m, l, i)
<1>1. r = [at |-> [m.at EXCEPT ![l] = row], size |-> [m.size EXCEPT ![l] = n - 1]]
  BY DEF rm_priority
<1>2. n \in 1 .. QLEN /\ i \in 0 .. n - 1 /\ QLEN \in Nat /\ n \in Nat
  BY SizeAssumption DEF Sized
<1>3. \A j \in 0 .. n - 2 : row[j] = IF i <= j THEN a[j + 1] ELSE a[j]
  <2>1. \A j \in 0 .. n - 2 : n > 1 /\ j \in Index /\ j < n - 1
    BY <1>2 DEF Index
  <2>2. QED
    BY <2>1
<1> HIDE DEF row, n, a
<1>4. m.at \in [Level -> [Index -> Slot \cup {NULL}]] /\ m.size \in [Level -> Int]
  BY DEF Queues
<1>5. r.at = [m.at EXCEPT ![l] = row] /\ r.size = [m.size EXCEPT ![l] = n - 1]
  BY <1>1
<1>6. /\ r.at[l] = row /\ r.size[l] = n - 1
      /\ \A k \in Level : k # l => r.size[k] = m.size[k] /\ r.at[k] = m.at[k]
  BY <1>4, <1>5, Zenon
<1>7. Queues(r)
  <2>1. Bounded(m)
    BY SizeAssumption DEF Sized, Bounded
  <2>2. QED
    BY <2>1, RmQueues
<1>8. Sized(r)
  <2>1. n - 1 \in 0 .. QLEN
    BY <1>2
  <2>2. QED
    BY <1>6, <2>1, Zenon DEF Sized
<1>9. QED
  BY <1>3, <1>6, <1>7, <1>8 DEF n, a

\* rm_priority at the place of p takes p out of the queues, and nothing else.
LEMMA RmFiled ==
  ASSUME NEW m, NEW lv \in [Slot -> Level], Filed(m, lv, {}), NEW l \in Level, NEW i \in 0 .. m.size[l] - 1
  PROVE Filed(rm_priority(m, l, i), lv, {m.at[l][i]})
<1> DEFINE p == m.at[l][i]
<1>1. PICK r : r = rm_priority(m, l, i)
  OBVIOUS
<1>2. /\ Queues(r) /\ Sized(r) /\ r.size[l] = m.size[l] - 1
      /\ \A j \in 0 .. m.size[l] - 2 : r.at[l][j] = IF i <= j THEN m.at[l][j + 1] ELSE m.at[l][j]
      /\ \A k \in Level : k # l => r.size[k] = m.size[k] /\ r.at[k] = m.at[k]
  <2>1. Queues(m) /\ Sized(m)
    BY Zenon DEF Filed
  <2>2. QED
    BY <1>1, <2>1, RmRow, Zenon
<1>3. PICK n : n = m.size[l]
  OBVIOUS
<1>4. n \in Nat /\ i \in Nat /\ i < n
  BY <1>3, SizeAssumption DEF Filed, Sized
<1>5. /\ \A j \in 0 .. n - 1 : m.at[l][j] \in Slot /\ lv[m.at[l][j]] = l
      /\ \A j, k \in 0 .. n - 1 : m.at[l][j] = m.at[l][k] => j = k
      /\ p \in Slot /\ lv[p] = l
  BY <1>3, <1>4 DEF Filed, EntriesOk, Once
<1>6. r.size[l] = n - 1 /\ \A j \in 0 .. n - 2 : r.at[l][j] = IF i <= j THEN m.at[l][j + 1] ELSE m.at[l][j]
  BY <1>2, <1>3, SMTT(30)
<1>7. EntriesOk(r, lv, {p})
  <2> SUFFICES ASSUME NEW k \in Level, NEW j \in 0 .. r.size[k] - 1
               PROVE r.at[k][j] \in Slot /\ r.at[k][j] # p /\ lv[r.at[k][j]] = k
    BY DEF EntriesOk
  <2>1. CASE k = l
    <3>1. j \in 0 .. n - 2 /\ j \in Nat
      BY <1>4, <1>6, <2>1
    <3>2. CASE i <= j
      <4>1. r.at[k][j] = m.at[l][j + 1] /\ j + 1 \in 0 .. n - 1 /\ j + 1 # i /\ i \in 0 .. n - 1
        BY <1>4, <1>6, <2>1, <3>1, <3>2
      <4>2. QED
        BY <1>5, <2>1, <4>1, Zenon
    <3>3. CASE ~(i <= j)
      <4>1. r.at[k][j] = m.at[l][j] /\ j \in 0 .. n - 1 /\ j # i /\ i \in 0 .. n - 1
        BY <1>4, <1>6, <2>1, <3>1, <3>3
      <4>2. QED
        BY <1>5, <2>1, <4>1, Zenon
    <3>4. QED
      BY <3>2, <3>3
  <2>2. CASE k # l
    <3>1. r.at[k][j] = m.at[k][j] /\ j \in 0 .. m.size[k] - 1
      BY <1>2, <2>2
    <3>2. r.at[k][j] \in Slot /\ lv[r.at[k][j]] = k
      BY <3>1, Zenon DEF Filed, EntriesOk
    <3>3. QED
      BY <1>5, <2>2, <3>2, Zenon
  <2>3. QED
    BY <2>1, <2>2
<1>8. Once(r)
  <2> SUFFICES ASSUME NEW k \in Level, NEW j \in 0 .. r.size[k] - 1, NEW h \in 0 .. r.size[k] - 1,
                      r.at[k][j] = r.at[k][h]
               PROVE j = h
    BY DEF Once
  <2>1. CASE k = l
    <3>1. j \in 0 .. n - 2 /\ h \in 0 .. n - 2
      BY <1>4, <1>6, <2>1
    <3>2. PICK x \in 0 .. n - 1 : x = (IF i <= j THEN j + 1 ELSE j) /\ r.at[l][j] = m.at[l][x]
      BY <1>4, <1>6, <3>1
    <3>3. PICK y \in 0 .. n - 1 : y = (IF i <= h THEN h + 1 ELSE h) /\ r.at[l][h] = m.at[l][y]
      BY <1>4, <1>6, <3>1
    <3>4. x = y
      BY <1>5, <2>1, <3>2, <3>3, Zenon
    <3>5. QED
      BY <1>4, <3>1, <3>2, <3>3, <3>4
  <2>2. CASE k # l
    <3>1. r.size[k] = m.size[k] /\ r.at[k] = m.at[k]
      BY <1>2, <2>2
    <3>2. QED
      BY <3>1, Zenon DEF Filed, Once
  <2>3. QED
    BY <2>1, <2>2
<1>9. Present(r, lv, {p})
  <2> SUFFICES ASSUME NEW q \in Slot, q < NLive, q # p
               PROVE \E j \in 0 .. r.size[lv[q]] - 1 : r.at[lv[q]][j] = q
    BY DEF Present
  <2>1. PICK k \in 0 .. m.size[lv[q]] - 1 : m.at[lv[q]][k] = q
    BY DEF Filed, Present
  <2>2. CASE lv[q] = l
    <3>1. k \in 0 .. n - 1 /\ k # i
      BY <1>3, <2>1, <2>2
    <3>2. PICK j \in 0 .. n - 2 : j = IF k < i THEN k ELSE k - 1
      BY <1>4, <3>1
    <3>3. r.at[l][j] = m.at[l][k]
      BY <1>4, <1>6, <3>1, <3>2
    <3>4. j \in 0 .. r.size[l] - 1
      BY <1>4, <1>6
    <3>5. QED
      BY <2>1, <2>2, <3>3, <3>4, Zenon
  <2>3. CASE lv[q] # l
    <3>1. lv[q] \in Level
      OBVIOUS
    <3>2. r.size[lv[q]] = m.size[lv[q]] /\ r.at[lv[q]] = m.at[lv[q]]
      BY <1>2, <2>3, <3>1, Zenon
    <3>3. QED
      BY <2>1, <3>2, Zenon
  <2>4. QED
    BY <2>2, <2>3
<1>10. QED
  BY <1>1, <1>2, <1>7, <1>8, <1>9, Zenon DEF Filed

\* r is m with p added at the end of level l.
Longer(m, l, p, r) ==
  /\ r.size[l] = m.size[l] + 1 /\ r.at[l][m.size[l]] = p
  /\ \A j \in 0 .. m.size[l] - 1 : r.at[l][j] = m.at[l][j]
  /\ \A k \in Level : k # l => r.size[k] = m.size[k] /\ r.at[k] = m.at[k]

\* The row after an insertion.
LEMMA InsertRow ==
  ASSUME NEW m, Queues(m), Sized(m), NEW l \in Level, NEW p \in Slot, ~Overflows(m, l),
         NEW r, r = insert(m, l, p)
  PROVE Queues(r) /\ Sized(r) /\ Longer(m, l, p, r)
<1> DEFINE n == m.size[l]
           row == [j \in Index |-> IF j = n THEN p ELSE m.at[l][j]]
<1>1. m.at \in [Level -> [Index -> Slot \cup {NULL}]] /\ m.size \in [Level -> Int]
  BY DEF Queues
<1>2. r.at = [m.at EXCEPT ![l] = row] /\ r.size = [m.size EXCEPT ![l] = n + 1]
  BY <1>1 DEF insert, count, store
<1>3. n \in 0 .. QLEN - 1 /\ QLEN \in Nat
  BY SizeAssumption DEF Sized, Overflows
<1>4. n \in Index /\ \A j \in 0 .. n - 1 : j \in Index /\ j # n
  BY <1>3 DEF Index
<1>5. row[n] = p /\ \A j \in 0 .. n - 1 : row[j] = m.at[l][j]
  BY <1>4, Zenon
<1> HIDE DEF row, n
<1>6. /\ r.at[l] = row /\ r.size[l] = n + 1
      /\ \A k \in Level : k # l => r.size[k] = m.size[k] /\ r.at[k] = m.at[k]
  BY <1>1, <1>2, Zenon
<1>7. Queues(r)
  BY InsertQueues
<1>8. Sized(r)
  <2>1. n + 1 \in 0 .. QLEN
    BY <1>3
  <2>2. QED
    BY <1>6, <2>1, Zenon DEF Sized
<1>9. QED
  BY <1>5, <1>6, <1>7, <1>8 DEF n, Longer

\* An insertion of p, that is in no queue, puts it in the one place that p->level says.
LEMMA InsertFiled ==
  ASSUME NEW m, NEW lv \in [Slot -> Level], NEW p \in Slot, Filed(m, lv, {p}), NEW l \in Level, ~Overflows(m, l)
  PROVE Filed(insert(m, l, p), [lv EXCEPT ![p] = l], {})
<1>1. PICK r, w : r = insert(m, l, p) /\ w = [lv EXCEPT ![p] = l]
  BY Zenon
<1>2. /\ Queues(r) /\ Sized(r) /\ r.size[l] = m.size[l] + 1 /\ r.at[l][m.size[l]] = p
      /\ \A j \in 0 .. m.size[l] - 1 : r.at[l][j] = m.at[l][j]
      /\ \A k \in Level : k # l => r.size[k] = m.size[k] /\ r.at[k] = m.at[k]
  <2>1. Queues(m) /\ Sized(m)
    BY Zenon DEF Filed
  <2>2. Queues(r) /\ Sized(r) /\ Longer(m, l, p, r)
    BY <1>1, <2>1, InsertRow, Zenon
  <2>3. QED
    BY <2>2, Zenon DEF Longer
<1>3. w \in [Slot -> Level] /\ w[p] = l /\ \A q \in Slot : q # p => w[q] = lv[q]
  BY <1>1, Zenon
<1>4. \A k \in Level : m.size[k] \in Nat
  BY LengthRange, Zenon DEF Filed, Sized
<1>5. \A k \in Level : \A j \in 0 .. m.size[k] - 1 :
         /\ r.at[k][j] = m.at[k][j] /\ j \in 0 .. r.size[k] - 1
         /\ r.at[k][j] \in Slot /\ r.at[k][j] # p /\ w[r.at[k][j]] = k
  <2> SUFFICES ASSUME NEW k \in Level, NEW j \in 0 .. m.size[k] - 1
               PROVE /\ r.at[k][j] = m.at[k][j] /\ j \in 0 .. r.size[k] - 1
                     /\ r.at[k][j] \in Slot /\ r.at[k][j] # p /\ w[r.at[k][j]] = k
    OBVIOUS
  <2>1. r.at[k][j] = m.at[k][j] /\ j \in 0 .. r.size[k] - 1
    <3>1. CASE k = l
      BY <1>2, <1>4, <3>1, OneMore, Zenon
    <3>2. CASE k # l
      BY <1>2, <3>2, Zenon
    <3>3. QED
      BY <3>1, <3>2, Zenon
  <2>2. m.at[k][j] \in Slot /\ m.at[k][j] # p /\ lv[m.at[k][j]] = k
    BY Zenon DEF Filed, EntriesOk
  <2>3. QED
    BY <1>3, <2>1, <2>2, Zenon
<1>6. \A k \in Level : \A j \in 0 .. r.size[k] - 1 :
         j \in 0 .. m.size[k] - 1 \/ (k = l /\ j = m.size[l])
  BY <1>2, <1>4, OneMore, Zenon
<1>7. EntriesOk(r, w, {})
  <2>1. \A k \in Level : \A j \in 0 .. r.size[k] - 1 : r.at[k][j] \in Slot /\ w[r.at[k][j]] = k
    <3> SUFFICES ASSUME NEW k \in Level, NEW j \in 0 .. r.size[k] - 1
                 PROVE r.at[k][j] \in Slot /\ w[r.at[k][j]] = k
      OBVIOUS
    <3>1. CASE j \in 0 .. m.size[k] - 1
      BY <1>5, <3>1
    <3>2. CASE k = l /\ j = m.size[l]
      <4>1. r.at[k][j] = p
        BY <1>2, <3>2
      <4>2. QED
        BY <1>3, <3>2, <4>1, Zenon
    <3>3. QED
      BY <1>6, <3>1, <3>2, Zenon
  <2>2. QED
    BY <2>1 DEF EntriesOk
<1>8. Once(r)
  <2> SUFFICES ASSUME NEW k \in Level, NEW j \in 0 .. r.size[k] - 1, NEW h \in 0 .. r.size[k] - 1,
                      r.at[k][j] = r.at[k][h]
               PROVE j = h
    BY DEF Once
  <2>1. \/ j \in 0 .. m.size[k] - 1 /\ h \in 0 .. m.size[k] - 1
        \/ k = l /\ j = m.size[l] /\ h = m.size[l]
        \/ k = l /\ j \in 0 .. m.size[k] - 1 /\ h = m.size[l]
        \/ k = l /\ j = m.size[l] /\ h \in 0 .. m.size[k] - 1
    BY <1>6, Zenon
  <2>2. CASE j \in 0 .. m.size[k] - 1 /\ h \in 0 .. m.size[k] - 1
    <3>1. m.at[k][j] = m.at[k][h]
      BY <1>5, <2>2, Zenon
    <3>2. QED
      BY <2>2, <3>1, Zenon DEF Filed, Once
  <2>3. CASE k = l /\ j \in 0 .. m.size[k] - 1 /\ h = m.size[l]
    BY <1>2, <1>5, <2>3, Zenon
  <2>4. CASE k = l /\ j = m.size[l] /\ h \in 0 .. m.size[k] - 1
    BY <1>2, <1>5, <2>4, Zenon
  <2>5. QED
    BY <2>1, <2>2, <2>3, <2>4, Zenon
<1>9. Present(r, w, {})
  <2> SUFFICES ASSUME NEW q \in Slot, q < NLive
               PROVE \E j \in 0 .. r.size[w[q]] - 1 : r.at[w[q]][j] = q
    BY DEF Present
  <2>1. CASE q = p
    <3>1. m.size[l] \in 0 .. r.size[l] - 1
      BY <1>2, <1>4, OneMore, Zenon
    <3>2. QED
      BY <1>2, <1>3, <2>1, <3>1, Zenon
  <2>2. CASE q # p
    <3>1. PICK j \in 0 .. m.size[lv[q]] - 1 : m.at[lv[q]][j] = q
      BY <2>2 DEF Filed, Present
    <3>2. lv[q] \in Level /\ w[q] = lv[q]
      BY <1>3, <2>2
    <3>3. r.at[lv[q]][j] = m.at[lv[q]][j] /\ j \in 0 .. r.size[lv[q]] - 1
      BY <1>5, <3>1, <3>2
    <3>4. QED
      BY <3>1, <3>2, <3>3, Zenon
  <2>3. QED
    BY <2>1, <2>2
<1>10. QED
  BY <1>1, <1>2, <1>7, <1>8, <1>9, Zenon DEF Filed

\* Moving the process at <<l, i>> to the end of level k, as the scheduler does in each of its loops.
LEMMA MoveFiled ==
  ASSUME NEW m, NEW lv \in [Slot -> Level], Filed(m, lv, {}),
         NEW l \in Level, NEW i \in 0 .. m.size[l] - 1, NEW k \in Level, ~Overflows(rm_priority(m, l, i), k)
  PROVE Filed(insert(rm_priority(m, l, i), k, m.at[l][i]), [lv EXCEPT ![m.at[l][i]] = k], {})
<1>1. m.at[l][i] \in Slot
  BY Zenon DEF Filed, EntriesOk
<1>2. Filed(rm_priority(m, l, i), lv, {m.at[l][i]})
  BY RmFiled
<1>3. QED
  BY <1>1, <1>2, InsertFiled, Zenon

----------------------------------------------------------------------------

\* The first processes are in the top queue, each once.
LEMMA FInvInit == Init => FInv
<1> SUFFICES ASSUME Init PROVE FInv
  OBVIOUS
<1>1. MInv /\ Queues(mlfq)
  BY MInvInit DEF MInv, QueueInv
<1>2. NoneMade /\ SchedTypes
  BY DEF Init, NoneMade, SchedTypes
<1>3. PICK n : n = NLive
  OBVIOUS
<1>4. n \in Nat /\ n >= 1 /\ n <= NPROC /\ n <= QLEN /\ Top \in Level /\ NPROC \in Nat /\ QLEN \in Nat
  BY <1>3, SizeAssumption DEF Top, Level
<1>5. /\ mlfq.size = [l \in Level |-> IF l = Top THEN n ELSE 0]
      /\ mlfq.at = [l \in Level |-> [j \in Index |-> IF l = Top /\ j < n THEN (j + 1) % n ELSE NULL]]
      /\ level = [p \in Slot |-> IF p < n THEN Top ELSE 0]
  BY <1>3 DEF Init
<1>6. \A j \in 0 .. n - 1 : mlfq.at[Top][j] = IF j + 1 = n THEN 0 ELSE j + 1
  <2>1. \A j \in 0 .. n - 1 : j \in Index /\ j < n
    BY <1>4 DEF Index
  <2>2. \A j \in 0 .. n - 1 : (j + 1) % n = IF j + 1 = n THEN 0 ELSE j + 1
    BY <1>4
  <2>3. QED
    BY <1>4, <1>5, <2>1, <2>2
<1>7. \A l \in Level : mlfq.size[l] = IF l = Top THEN n ELSE 0
  BY <1>5
<1>8. level \in [Slot -> Level] /\ \A p \in Slot : p < n => level[p] = Top
  <2>1. 0 \in Level
    BY SizeAssumption DEF Level
  <2>2. QED
    BY <1>4, <1>5, <2>1
<1>9. Sized(mlfq)
  BY <1>4, <1>7 DEF Sized
<1>10. \A l \in Level : \A j \in 0 .. mlfq.size[l] - 1 : l = Top /\ j \in 0 .. n - 1
  BY <1>7
<1>11. EntriesOk(mlfq, level, {})
  <2>1. \A j \in 0 .. n - 1 : mlfq.at[Top][j] \in Slot /\ mlfq.at[Top][j] < n
    BY <1>4, <1>6 DEF Slot
  <2>2. QED
    BY <1>8, <1>10, <2>1 DEF EntriesOk
<1>12. Once(mlfq)
  <2>1. \A j, k \in 0 .. n - 1 : mlfq.at[Top][j] = mlfq.at[Top][k] => j = k
    BY <1>4, <1>6
  <2>2. QED
    BY <1>10, <2>1, Zenon DEF Once
<1>13. Present(mlfq, level, {})
  <2> SUFFICES ASSUME NEW p \in Slot, p < n
               PROVE \E j \in 0 .. mlfq.size[level[p]] - 1 : mlfq.at[level[p]][j] = p
    BY <1>3 DEF Present
  <2>1. PICK j \in 0 .. n - 1 : j = IF p = 0 THEN n - 1 ELSE p - 1
    BY <1>4 DEF Slot
  <2>2. mlfq.at[Top][j] = p
    BY <1>4, <1>6, <2>1 DEF Slot
  <2>3. QED
    BY <1>4, <1>7, <1>8, <2>1, <2>2
<1>14. Remembered
  BY DEF Init, Remembered
<1>15. QED
  BY <1>1, <1>2, <1>8, <1>9, <1>11, <1>12, <1>13, <1>14, Zenon DEF FInv, QueuesRight, Filed

\* The scheduler switches to the process it has found, and remembers the place.
LEMMA ScheduleFiled ==
  ASSUME OneScheduler, FInv, NEW c \in CPU, schedule(c)
  PROVE NoneMade' /\ (~fault' => QueuesRight')
<1>1. ~fault /\ mlfq' = mlfq /\ level' = level /\ kpc' = kpc /\ QueuesRight
  BY Zenon DEF schedule, Unlocked, forks, FInv
<1>2. PICK x \in Places : Picks(x) /\ schedule(c)!2!(x)!2
  BY SMTT(30) DEF schedule
<1>3. CASE At(x) = NULL
  <2>1. fault' /\ st' = st
    BY <1>2, <1>3, SMTT(30)
  <2>2. QED
    BY <1>1, <2>1, Zenon DEF FInv, NoneMade
<1>4. CASE At(x) # NULL
  <2>1. /\ st' = [st EXCEPT ![At(x)] = "RUNNING"] /\ cpc' = [cpc EXCEPT ![c] = "run"]
        /\ run' = [run EXCEPT ![c] = At(x)] /\ lvl' = [lvl EXCEPT ![c] = x[1]] /\ idx' = [idx EXCEPT ![c] = x[2]]
    BY <1>2, <1>4 DEF MarkRunning
  <2>2. At(x) \in Slot /\ st[At(x)] = "RUNNABLE"
    BY <1>2, <1>4, EntryInSlot, SMTT(30) DEF Picks, Stops, FInv, MInv, QueueInv
  <2>3. NoneMade'
    BY <1>1, <2>1, <2>2 DEF FInv, NoneMade, MInv, ProcInv, StateTypes
  <2>4. x[1] \in Level /\ x[2] \in 0 .. mlfq.size[x[1]] - 1 /\ mlfq.at[x[1]][x[2]] = At(x)
    <3>1. x[1] \in Level /\ x[2] \in Index /\ x[2] < mlfq.size[x[1]]
      BY DEF Places
    <3>2. mlfq.size[x[1]] \in 0 .. QLEN
      BY <1>1, <3>1 DEF QueuesRight, Filed, Sized
    <3>3. QED
      BY <3>1, <3>2, SizeAssumption DEF At, Index
  <2>5. Remembered'
    <3>1. DOMAIN lvl = CPU /\ DOMAIN idx = CPU /\ DOMAIN run = CPU
      BY DEF FInv, SchedTypes, MInv, ProcInv, StateTypes
    <3>2. \A d \in CPU : d = c
      BY DEF OneScheduler
    <3>3. lvl'[c] = x[1] /\ idx'[c] = x[2] /\ run'[c] = At(x)
      BY <2>1, <3>1, Zenon
    <3>4. QED
      BY <1>1, <2>4, <3>2, <3>3, Zenon DEF Remembered
  <2>6. QED
    BY <1>1, <2>3, <2>5, Zenon DEF QueuesRight, Filed
<1>5. QED
  BY <1>3, <1>4

\* What is known of the queues' new value is known of the queues after the step.
LEMMA FiledAfter ==
  ASSUME NEW m, NEW w, m = mlfq', w = level', Filed(m, w, {})
  PROVE Filed(mlfq, level, {})'
<1>1. Queues(mlfq)' /\ Sized(mlfq)' /\ Once(mlfq)'
  BY Zenon DEF Filed, Queues, Sized, Once
<1>2. EntriesOk(mlfq, level, {})'
  BY Zenon DEF Filed, EntriesOk
<1>3. Present(mlfq, level, {})'
  BY Zenon DEF Filed, Present
<1>4. QED
  BY <1>1, <1>2, <1>3, Zenon DEF Filed

\* The process that ran goes to the end of its level, to the end of the level below, or stays.
LEMMA BackFiled ==
  ASSUME OneScheduler, FInv, ~fault, NEW c \in CPU, NEW s, cpc[c] = "run", back_in_scheduler(c, run[c], s)
  PROVE NoneMade' /\ (~fault' => QueuesRight')
<1>1. PICK p, l, i : p = run[c] /\ l = lvl[c] /\ i = idx[c]
  OBVIOUS
<1>2. QueuesRight
  BY DEF FInv
<1>3. l \in Level /\ i \in 0 .. mlfq.size[l] - 1 /\ mlfq.at[l][i] = p
  BY <1>1, <1>2, Zenon DEF QueuesRight, Remembered
<1>4. p \in Slot /\ st[p] = "RUNNING" /\ level[p] = l
  <2>1. p \in Slot /\ st[p] = "RUNNING"
    BY <1>1, Zenon DEF FInv, MInv, ProcInv, RunInv
  <2>2. level[p] = l
    BY <1>2, <1>3, Zenon DEF QueuesRight, Filed, EntriesOk
  <2>3. QED
    BY <2>1, <2>2
<1>5. NoneMade'
  <2>1. st' = [st EXCEPT ![p] = s] /\ kpc' = kpc
    BY <1>1, Zenon DEF back_in_scheduler, forks
  <2>2. QED
    BY <1>4, <2>1 DEF FInv, NoneMade, MInv, ProcInv, StateTypes
<1>6. Remembered'
  <2>1. cpc' = [cpc EXCEPT ![c] = "promote"] /\ DOMAIN cpc = CPU
    BY Zenon DEF back_in_scheduler, FInv, MInv, ProcInv, StateTypes
  <2>2. \A d \in CPU : cpc'[d] = "promote"
    BY <2>1, Zenon DEF OneScheduler
  <2>3. QED
    BY <2>2 DEF Remembered
<1>7. ASSUME NEW k \in Level, mlfq' = insert(rm_priority(mlfq, l, i), k, p),
             fault' = Overflows(rm_priority(mlfq, l, i), k), level' = [level EXCEPT ![p] = k], ~fault'
      PROVE QueuesRight'
  <2>1. Filed(insert(rm_priority(mlfq, l, i), k, p), [level EXCEPT ![p] = k], {})
    BY <1>2, <1>3, <1>7, MoveFiled, Zenon DEF QueuesRight
  <2>2. level' \in [Slot -> Level]
    BY <1>2, <1>7, Zenon DEF QueuesRight
  <2>3. PICK m, w : m = mlfq' /\ w = level'
    OBVIOUS
  <2>4. Filed(m, w, {})
    BY <1>7, <2>1, <2>3, Zenon
  <2>5. QED
    BY <1>6, <2>2, <2>3, <2>4, FiledAfter, Zenon DEF QueuesRight
<1>8. CASE SliceUsed(p, l)
  <2>1. l - 1 \in Level
    BY <1>3, <1>8, SizeAssumption DEF SliceUsed, Level
  <2>2. /\ mlfq' = insert(rm_priority(mlfq, l, i), l - 1, p)
        /\ fault' = Overflows(rm_priority(mlfq, l, i), l - 1) /\ level' = [level EXCEPT ![p] = l - 1]
    BY <1>1, <1>8, Zenon DEF back_in_scheduler
  <2>3. QED
    BY <1>5, <1>7, <2>1, <2>2, Zenon
<1>9. CASE ~SliceUsed(p, l) /\ TurnUsed(p, l)
  <2>1. /\ mlfq' = insert(rm_priority(mlfq, l, i), l, p)
        /\ fault' = Overflows(rm_priority(mlfq, l, i), l) /\ level' = level
    BY <1>1, <1>9, Zenon DEF back_in_scheduler
  <2>2. level = [level EXCEPT ![p] = l]
    BY <1>2, <1>4 DEF QueuesRight
  <2>3. QED
    BY <1>3, <1>5, <1>7, <2>1, <2>2, Zenon
<1>10. CASE ~SliceUsed(p, l) /\ ~TurnUsed(p, l)
  <2>1. mlfq' = mlfq /\ level' = level
    BY <1>1, <1>10, Zenon DEF back_in_scheduler
  <2>2. QED
    BY <1>2, <1>5, <1>6, <2>1, Zenon DEF QueuesRight, Filed, Sized, EntriesOk, Once, Present, Queues
<1>11. QED
  BY <1>8, <1>9, <1>10

\* A starving process goes to the end of the level above; from the top level there is none.
LEMMA PromoteFiled ==
  ASSUME OneScheduler, FInv, NEW c \in CPU, promote(c)
  PROVE NoneMade' /\ (~fault' => QueuesRight')
<1>1. ~fault /\ st' = st /\ kpc' = kpc /\ cpc' = cpc /\ cpc[c] = "promote" /\ QueuesRight
  BY Zenon DEF promote, forks, FInv
<1>2. NoneMade'
  BY <1>1, Zenon DEF FInv, NoneMade
<1>3. Remembered'
  <2>1. \A d \in CPU : cpc'[d] # "run"
    BY <1>1 DEF OneScheduler
  <2>2. QED
    BY <2>1, Zenon DEF Remembered
<1>4. PICK x \in Halts(c) : promote(c)!2!(x)
  BY Zenon DEF promote
<1>5. PICK p, l, i : p = At(x) /\ l = x[1] /\ i = x[2]
  OBVIOUS
<1>6. l \in Level /\ i \in 0 .. mlfq.size[l] - 1 /\ mlfq.at[l][i] = p
  <2>1. l \in Level /\ i \in Index /\ i < mlfq.size[l]
    BY <1>5 DEF Halts, Ahead, Places
  <2>2. mlfq.size[l] \in 0 .. QLEN
    BY <1>1, <2>1, Zenon DEF QueuesRight, Filed, Sized
  <2>3. QED
    BY <1>5, <2>1, <2>2, LengthRange, Zenon DEF At
<1>7. p \in Slot /\ level[p] = l
  BY <1>1, <1>6, Zenon DEF QueuesRight, Filed, EntriesOk
<1>8. /\ mlfq' = IF l = Top THEN rm_priority(mlfq, l, i) ELSE insert(rm_priority(mlfq, l, i), l + 1, p)
      /\ fault' = (l = Top \/ level[p] = Top \/ Overflows(rm_priority(mlfq, l, i), l + 1))
      /\ level' = [level EXCEPT ![p] = l + 1]
  <2>1. p # NULL
    BY <1>7, NoneAssumption
  <2>2. /\ mlfq' = IF l = Top THEN rm_priority(mlfq, l, i) ELSE insert(rm_priority(mlfq, l, i), l + 1, p)
        /\ fault' = (l = Top \/ level[p] = Top \/ Overflows(rm_priority(mlfq, l, i), l + 1))
        /\ level' = [level EXCEPT ![p] = @ + 1]
    BY <1>4, <1>5, <2>1, Zenon DEF RaiseLevel
  <2>3. QED
    BY <1>7, <2>2
<1>9. ASSUME ~fault' PROVE QueuesRight'
  <2>1. l # Top /\ ~Overflows(rm_priority(mlfq, l, i), l + 1)
    BY <1>8, <1>9, Zenon
  <2>2. l + 1 \in Level
    BY <1>6, <2>1, NextLevel, Zenon
  <2>3. Filed(insert(rm_priority(mlfq, l, i), l + 1, p), [level EXCEPT ![p] = l + 1], {})
    BY <1>1, <1>6, <2>1, <2>2, MoveFiled, Zenon DEF QueuesRight
  <2>4. level' \in [Slot -> Level]
    BY <1>1, <1>8, <2>2, Zenon DEF QueuesRight
  <2>5. mlfq' = insert(rm_priority(mlfq, l, i), l + 1, p)
    BY <1>8, <2>1
  <2>6. PICK m, w : m = mlfq' /\ w = level'
    OBVIOUS
  <2>7. Filed(m, w, {})
    BY <1>8, <2>3, <2>5, <2>6, Zenon
  <2>8. QED
    BY <1>3, <2>4, <2>6, <2>7, FiledAfter, Zenon DEF QueuesRight
<1>10. QED
  BY <1>2, <1>9

\* The steps that leave the queues alone.
LEMMA SameFiled ==
  ASSUME FInv, mlfq' = mlfq, level' = level, kpc' = kpc, fault' = fault \/ ~fault, lvl' = lvl, idx' = idx,
         run' = run, cpc' = cpc,
         \A p \in Slot : st'[p] # "UNUSED" => st[p] # "UNUSED"
  PROVE NoneMade' /\ (~fault' => QueuesRight')
<1>1. NoneMade'
  BY Zenon DEF FInv, NoneMade
<1>2. ASSUME ~fault' PROVE QueuesRight'
  <2>1. QueuesRight
    BY <1>2, Zenon DEF FInv
  <2>2. Remembered'
    BY <2>1, Zenon DEF QueuesRight, Remembered
  <2>3. QED
    BY <2>1, <2>2, Zenon DEF QueuesRight, Filed, Sized, EntriesOk, Once, Present, Queues
<1>3. QED
  BY <1>1, <1>2

\* The end of the promotion loop.
LEMMA DoneFiled ==
  ASSUME OneScheduler, FInv, NEW c \in CPU, promote_done(c)
  PROVE NoneMade' /\ (~fault' => QueuesRight')
<1>1. ~fault /\ st' = st /\ kpc' = kpc /\ mlfq' = mlfq /\ level' = level /\ cpc' = [cpc EXCEPT ![c] = "scan"]
  BY Zenon DEF promote_done, forks, procs
<1>2. NoneMade'
  BY <1>1, Zenon DEF FInv, NoneMade
<1>3. Remembered'
  <2>1. \A d \in CPU : cpc'[d] = "scan"
    BY <1>1, Zenon DEF OneScheduler, FInv, MInv, ProcInv, StateTypes
  <2>2. QED
    BY <2>1 DEF Remembered
<1>4. QED
  BY <1>1, <1>2, <1>3, Zenon DEF FInv, QueuesRight, Filed, Sized, EntriesOk, Once, Present, Queues

\* No step of fork or boostproc is taken.
LEMMA NoUnlocked == ASSUME OneScheduler, FInv, NEW c \in CPU PROVE ~Forking(c) /\ ~Boosting(c)
<1>1. \A p \in Slot : kpc[p] = "user"
  BY DEF FInv, NoneMade
<1>2. ~Forking(c)
  BY <1>1, Zenon DEF OneScheduler, Forking, fork, fork_no_stack, fork_store, fork_count, fork_finish, Runs
<1>3. ~Boosting(c)
  BY <1>1, Zenon DEF OneScheduler, Boosting, boostproc, boost_rm, boost_store, boost_count, boost_finish, Runs
<1>4. QED
  BY <1>2, <1>3

\* The scheduler's own variables stay functions of the CPU.
LEMMA SchedTypesStep == ASSUME SchedTypes, [Next]_vars, OneScheduler, FInv PROVE SchedTypes'
<1>1. \/ lvl' = lvl /\ idx' = idx
      \/ \E c, a, b : lvl' = [lvl EXCEPT ![c] = a] /\ idx' = [idx EXCEPT ![c] = b]
  <2>1. ASSUME NEW c \in CPU, Scheduler(c)
        PROVE \/ lvl' = lvl /\ idx' = idx
              \/ \E a, b : lvl' = [lvl EXCEPT ![c] = a] /\ idx' = [idx EXCEPT ![c] = b]
    <3>1. CASE schedule(c)
      <4>1. PICK x \in Places : schedule(c)!2!(x)!2
        BY <3>1, SMTT(30) DEF schedule
      <4>2. CASE At(x) = NULL
        BY <4>1, <4>2, Zenon
      <4>3. CASE At(x) # NULL
        BY <4>1, <4>3, Zenon
      <4>4. QED
        BY <4>2, <4>3
    <3>2. CASE promote(c)
      BY <3>2, Zenon DEF promote
    <3>3. CASE promote_done(c)
      BY <3>3, Zenon DEF promote_done
    <3>4. QED
      BY <2>1, <3>1, <3>2, <3>3 DEF Scheduler
  <2>2. ASSUME NEW c \in CPU, yield(c) \/ sleep(c) \/ exit(c)
        PROVE \E a, b : lvl' = [lvl EXCEPT ![c] = a] /\ idx' = [idx EXCEPT ![c] = b]
    BY <2>2, Zenon DEF yield, sleep, exit, back_in_scheduler
  <2>3. ASSUME NEW p \in Slot, wakeup(p) \/ \E c \in CPU : reap(c, p) PROVE lvl' = lvl /\ idx' = idx
    BY <2>3, Zenon DEF wakeup, reap, scheds
  <2>4. CASE UNCHANGED vars
    BY <2>4, Zenon DEF vars, scheds
  <2>5. QED
    BY <2>1, <2>2, <2>3, <2>4, NoUnlocked, Zenon DEF Next
<1>2. QED
  BY <1>1, Zenon DEF SchedTypes

\* Every step of one scheduler preserves the invariant.
LEMMA FInvNext == ASSUME OneScheduler, FInv, [Next]_vars PROVE FInv'
<1>1. MInv' /\ SchedTypes'
  BY MInvNext, SchedTypesStep DEF FInv
<1>2. CASE UNCHANGED vars
  <2>1. UNCHANGED <<mlfq, level, kpc, fault, lvl, idx, run, cpc, st>>
    BY <1>2, Zenon DEF vars, procs, forks, scheds
  <2>2. QED
    BY <1>1, <2>1, SameFiled, Zenon DEF FInv
<1>3. ASSUME NEW c \in CPU, yield(c) \/ sleep(c) \/ exit(c) PROVE FInv'
  <2>1. ~fault /\ cpc[c] = "run"
    BY <1>3, Zenon DEF yield, sleep, exit, Unlocked, Runs
  <2>2. \E s : back_in_scheduler(c, run[c], s)
    BY <1>3, Zenon DEF yield, sleep, exit, Runs
  <2>3. QED
    BY <1>1, <2>1, <2>2, BackFiled, Zenon DEF FInv
<1>4. ASSUME NEW c \in CPU, Scheduler(c) PROVE FInv'
  BY <1>1, <1>4, ScheduleFiled, PromoteFiled, DoneFiled, Zenon DEF Scheduler, FInv
<1>5. ASSUME NEW p \in Slot, wakeup(p) \/ \E c \in CPU : reap(c, p) PROVE FInv'
  <2>1. UNCHANGED <<mlfq, level, kpc, fault, lvl, idx, run, cpc>>
    BY <1>5, Zenon DEF wakeup, reap, forks, scheds
  <2>2. \A q \in Slot : st'[q] # "UNUSED" => st[q] # "UNUSED"
    BY <1>5 DEF wakeup, reap, FInv, MInv, ProcInv, StateTypes
  <2>3. QED
    BY <1>1, <2>1, <2>2, SameFiled, Zenon DEF FInv
<1>6. QED
  BY <1>2, <1>3, <1>4, <1>5, NoUnlocked, Zenon DEF Next

\* With one scheduler and without the unlocked updates of fork and boostproc, the demotions, turns
\* and promotions keep every process in exactly one place, in the queue of its level, until
\* something is promoted out of the top level or an array is full.
THEOREM QueuedOnceHolds == ASSUME OneScheduler PROVE Spec => [](~fault => QueuedOnce)
<1>1. FInv => (~fault => QueuedOnce)
  <2> SUFFICES ASSUME QueuesRight, NoneMade, NEW p \in Slot, InUse(p)
               PROVE \E x \in Places : PlacesOf(p) = {x} /\ x[1] = level[p]
    BY Zenon DEF FInv, QueuedOnce
  <2>1. p < NLive /\ level[p] \in Level
    BY DEF InUse, NoneMade, QueuesRight
  <2>2. PICK j \in 0 .. mlfq.size[level[p]] - 1 : mlfq.at[level[p]][j] = p
    BY <2>1 DEF QueuesRight, Filed, Present
  <2>3. PICK x : x = <<level[p], j>>
    BY Zenon
  <2>4. x \in Places /\ At(x) = p /\ x[1] = level[p]
    <3>1. mlfq.size[level[p]] \in 0 .. QLEN
      BY <2>1, Zenon DEF QueuesRight, Filed, Sized
    <3>2. j \in Index /\ j < mlfq.size[level[p]]
      BY <2>2, <3>1, LengthRange, Zenon
    <3>3. QED
      BY <2>1, <2>2, <2>3, <3>2 DEF Places, At
  <2>5. \A y \in Places : At(y) = p => y = x
    <3> SUFFICES ASSUME NEW y \in Places, At(y) = p PROVE y = x
      OBVIOUS
    <3>1. PICK l \in Level, k \in Index : y = <<l, k>> /\ k < mlfq.size[l]
      BY DEF Places
    <3>2. mlfq.at[l][k] = p /\ k \in 0 .. mlfq.size[l] - 1
      <4>1. mlfq.size[l] \in 0 .. QLEN
        BY Zenon DEF QueuesRight, Filed, Sized
      <4>2. QED
        <5>1. k \in 0 .. mlfq.size[l] - 1
          BY <3>1, <4>1, LengthRange, Zenon
        <5>2. QED
          BY <3>1, <5>1 DEF At
    <3>3. l = level[p]
      BY <3>2, Zenon DEF QueuesRight, Filed, EntriesOk
    <3>4. k = j
      BY <2>1, <2>2, <3>2, <3>3, Zenon DEF QueuesRight, Filed, Once
    <3>5. QED
      BY <2>3, <3>1, <3>3, <3>4
  <2>6. PlacesOf(p) = {x}
    BY <2>4, <2>5, Zenon DEF PlacesOf
  <2>7. QED
    BY <2>4, <2>6, Zenon
<1>2. Spec => []FInv
  BY FInvInit, FInvNext, PTL DEF Spec
<1>3. QED
  BY <1>1, <1>2, PTL

\* Under the same conditions the process switched to is one of the highest level among the
\* runnable ones.
THEOREM HighestPriorityHolds == ASSUME OneScheduler PROVE Spec => HighestPriorityRuns
<1> DEFINE A == \A p, q \in Slot : st[p] = "RUNNABLE" /\ st'[p] = "RUNNING" /\ st[q] = "RUNNABLE"
                   => level[q] <= level[p]
<1>1. ASSUME FInv, [Next]_vars PROVE [A]_vars
  <2> SUFFICES ASSUME Next, NEW p \in Slot, NEW q \in Slot, st[p] = "RUNNABLE", st'[p] = "RUNNING",
                      st[q] = "RUNNABLE"
               PROVE level[q] <= level[p]
    BY <1>1
  <2>1. PICK c \in CPU : schedule(c)
    <3>1. ASSUME NEW c \in CPU, yield(c) \/ sleep(c) \/ exit(c) PROVE FALSE
      <4>1. \E r, s : s # "RUNNING" /\ st' = [st EXCEPT ![r] = s]
        <5>1. \E r : \/ st' = [st EXCEPT ![r] = "RUNNABLE"]
                     \/ st' = [st EXCEPT ![r] = "SLEEPING"]
                     \/ st' = [st EXCEPT ![r] = "ZOMBIE"]
          BY <3>1, Zenon DEF yield, sleep, exit, back_in_scheduler
        <5>2. QED
          BY <5>1
      <4>2. QED
        BY <4>1, <1>1 DEF FInv, MInv, ProcInv, StateTypes
    <3>2. ASSUME NEW c \in CPU, promote(c) \/ promote_done(c) PROVE FALSE
      BY <3>2, Zenon DEF promote, promote_done, procs
    <3>3. ASSUME NEW r \in Slot, wakeup(r) \/ \E c \in CPU : reap(c, r) PROVE FALSE
      <4>1. \E s : s # "RUNNING" /\ st' = [st EXCEPT ![r] = s]
        BY <3>3 DEF wakeup, reap
      <4>2. QED
        BY <4>1, <1>1 DEF FInv, MInv, ProcInv, StateTypes
    <3>4. QED
      BY <1>1, <3>1, <3>2, <3>3, NoUnlocked, Zenon DEF Next, Scheduler
  <2>2. QueuesRight
    BY <1>1, <2>1, Zenon DEF schedule, Unlocked, FInv
  <2>3. PICK x \in Places : Picks(x) /\ schedule(c)!2!(x)!2
    BY <2>1 DEF schedule
  <2>4. x[1] \in Level /\ At(x) \in Slot /\ level[At(x)] = x[1]
    <3>1. x[1] \in Level /\ x[2] \in Index /\ x[2] < mlfq.size[x[1]]
      BY DEF Places
    <3>2. mlfq.size[x[1]] \in 0 .. QLEN
      BY <2>2, <3>1, Zenon DEF QueuesRight, Filed, Sized
    <3>3. x[2] \in 0 .. mlfq.size[x[1]] - 1
      BY <3>1, <3>2, LengthRange, Zenon
    <3>4. QED
      BY <2>2, <3>1, <3>3, Zenon DEF QueuesRight, Filed, EntriesOk, At
  <2>5. p = At(x)
    <3>1. At(x) # NULL
      BY <2>4, NoneAssumption
    <3>2. st' = [st EXCEPT ![At(x)] = "RUNNING"]
      BY <2>3, <3>1, Zenon DEF MarkRunning
    <3>3. QED
      BY <1>1, <3>2 DEF FInv, MInv, ProcInv, StateTypes
  <2>6. level[q] \in Level /\ q < NLive
    BY <1>1, <2>2 DEF QueuesRight, FInv, NoneMade
  <2>7. PICK j \in 0 .. mlfq.size[level[q]] - 1 : mlfq.at[level[q]][j] = q
    BY <2>2, <2>6 DEF QueuesRight, Filed, Present
  <2>8. <<level[q], j>> \in Stops
    <3>1. mlfq.size[level[q]] \in 0 .. QLEN
      BY <2>2, <2>6, Zenon DEF QueuesRight, Filed, Sized
    <3>2. j \in Index /\ j < mlfq.size[level[q]]
      BY <2>7, <3>1, LengthRange, Zenon
    <3>3. QED
      BY <2>6, <2>7, <3>2 DEF Stops, Places, At
  <2>9. x = <<level[q], j>> \/ Before(x, <<level[q], j>>)
    BY <2>3, <2>8, Zenon DEF Picks
  <2>10. x[1] = level[q] \/ x[1] > level[q]
    BY <2>9 DEF Before
  <2>11. QED
    BY <2>4, <2>5, <2>6, <2>10 DEF Level
<1>2. Spec => []FInv
  BY FInvInit, FInvNext, PTL DEF Spec
<1>3. QED
  BY <1>1, <1>2, PTL DEF Spec, HighestPriorityRuns
=============================================================================
