-------------------------------- MODULE Mlfq --------------------------------
(***************************************************************************)
(* The multi-level feedback queue scheduler of kernel/proc.c: scheduler(), *)
(* rm_priority(), the queue side of allocproc(), and boostproc().          *)
(*                                                                         *)
(* ptable.lock is held from the moment a process enters sched() until the  *)
(* scheduler has switched to the next one or gone through its promotion    *)
(* loop.  allocproc() and boostproc() touch the queues without that lock,  *)
(* and a timer interrupt may preempt them (trap.c yields in the kernel as  *)
(* well), so each of their statements on the queues is a step.             *)
(*                                                                         *)
(* mlfq is kept as the code keeps it: an array and a size for each level,  *)
(* because the code indexes the arrays with positions that may be stale.   *)
(***************************************************************************)
EXTENDS Integers, FiniteSets

CONSTANTS CPU,           \* the processors (the Makefile's default is one)
          NPROC,         \* slots of the process table
          NLAYER,        \* levels, the highest is NLAYER-1
          QLEN,          \* 512 in the code: the length of each mlfq[lvl]
          limit_total,   \* time slice of each level
          limit_rr,      \* round-robin slice of each level
          StarveFactor,  \* 10 in the code
          NLive,         \* processes alive in the initial state
          MaxBoosts,     \* bound on the calls of boostproc
          Ops,           \* what processes do besides computing
          NoCpu, NULL

Slot == 0 .. NPROC - 1
Level == 0 .. NLAYER - 1
Top == NLAYER - 1
Index == 0 .. QLEN - 1

ASSUME SizeAssumption ==
  /\ NPROC \in Nat \ {0} /\ NLAYER \in Nat \ {0} /\ QLEN \in Nat
  /\ NLive \in 1 .. NPROC /\ NPROC <= QLEN /\ MaxBoosts \in Nat
ASSUME LimitAssumption ==
  /\ limit_total \in [Level -> Nat \ {0}] /\ limit_rr \in [Level -> Nat \ {0}]
  /\ \A l \in Level : limit_rr[0] % limit_rr[l] = 0
  /\ StarveFactor \in Nat
ASSUME OpsAssumption == Ops \subseteq {"sleep", "exit", "fork", "boost"}
ASSUME NoneAssumption == NULL \notin Slot /\ NoCpu \notin CPU

VARIABLES mlfq,             \* [at: entries of each level, size: mlfq_size]
          st,               \* p->state
          level,            \* p->level
          ticks_curr,       \* p->ticks_curr
          wait_ticks_curr,  \* p->wait_ticks_curr
          kpc, np,          \* where a process is in a system call, and fork()'s child
          spot,             \* boostproc()'s local variables level and index
          boosts,           \* how often it was called
          cpc,              \* each scheduler: scanning, switched away, promoting
          run,              \* the process switched to
          lvl, idx,         \* scheduler()'s local variables lvl and i
          ptable_lock,      \* the CPU holding ptable.lock across steps
          fault             \* a NULL entry or an index out of the arrays was used

procs == <<st, level, ticks_curr, wait_ticks_curr>>
forks == <<kpc, np, spot, boosts>>
scheds == <<cpc, run, lvl, idx, ptable_lock>>
vars == <<mlfq, procs, forks, scheds, fault>>

MaxTotal == LET S == {limit_total[l] : l \in Level} IN CHOOSE n \in S : \A m \in S : n >= m

\* ticks_curr is compared with the limits and taken modulo limit_rr[lvl], and each
\* limit_rr divides limit_rr[0]: past MaxTotal only its residue matters.
TicksBound == MaxTotal + limit_rr[0]
NextTick(n) == IF n + 1 < TicksBound THEN n + 1 ELSE n + 1 - limit_rr[0]

\* wait_ticks_curr is only compared with StarveFactor times a limit.
WaitBound == StarveFactor * MaxTotal
NextWait(n) == IF n < WaitBound THEN n + 1 ELSE n

TypeOK ==
  /\ mlfq \in [at : [Level -> [Index -> Slot \cup {NULL}]], size : [Level -> Int]]
  /\ st \in [Slot -> {"UNUSED", "EMBRYO", "SLEEPING", "RUNNABLE", "RUNNING", "ZOMBIE"}]
  /\ level \in [Slot -> 0 .. NLAYER] /\ (~fault => level \in [Slot -> Level])
  /\ ticks_curr \in [Slot -> 0 .. TicksBound - 1]
  /\ wait_ticks_curr \in [Slot -> 0 .. WaitBound]
  /\ kpc \in [Slot -> {"user", "fork_store", "fork_count", "fork_finish",
                      "boost_rm", "boost_store", "boost_count", "boost_finish"}]
  /\ np \in [Slot -> Slot \cup {NULL}]
  /\ spot \in [Slot -> (Level \X Index) \cup {NULL}]
  /\ boosts \in 0 .. MaxBoosts
  /\ cpc \in [CPU -> {"scan", "run", "promote"}]
  /\ run \in [CPU -> Slot \cup {NULL}]
  /\ lvl \in [CPU -> Level \cup {-1}]
  /\ idx \in [CPU -> Nat]
  /\ ptable_lock \in CPU \cup {NoCpu}
  /\ fault \in BOOLEAN

\* Boot leaves one process at the top level.  With NLive > 1 that process has run
\* for its first tick, made NLive-1 children and been moved behind them.
Init ==
  /\ mlfq = [at |-> [l \in Level |-> [j \in Index |->
                       IF l = Top /\ j < NLive THEN (j + 1) % NLive ELSE NULL]],
             size |-> [l \in Level |-> IF l = Top THEN NLive ELSE 0]]
  /\ st = [p \in Slot |-> IF p < NLive THEN "RUNNABLE" ELSE "UNUSED"]
  /\ level = [p \in Slot |-> IF p < NLive THEN Top ELSE 0]
  /\ ticks_curr = [p \in Slot |-> IF p = 0 /\ NLive > 1 THEN 1 ELSE 0]
  /\ wait_ticks_curr = [p \in Slot |-> 0]
  /\ kpc = [p \in Slot |-> "user"]
  /\ np = [p \in Slot |-> NULL]
  /\ spot = [p \in Slot |-> NULL]
  /\ boosts = 0
  /\ cpc = [c \in CPU |-> "scan"]
  /\ run = [c \in CPU |-> NULL]
  /\ lvl = [c \in CPU |-> -1]
  /\ idx = [c \in CPU |-> 0]
  /\ ptable_lock = NoCpu
  /\ fault = FALSE

----------------------------------------------------------------------------
\* The queues

\* Mutation: the entries are shifted but the size is not reduced.
rm_priority_size(m, l, i) ==
  [at |-> [m.at EXCEPT ![l] = [j \in Index |-> IF i <= j /\ j < m.size[l] - 1 THEN m.at[l][j + 1]
                                               ELSE m.at[l][j]]],
   size |-> m.size]

\* rm_priority(l, i): the entries above i move down one place.  With one entry
\* or none, the place i is cleared; the size goes down in every case.
rm_priority(m, l, i) ==
  LET n == m.size[l]
      a == m.at[l]
      shifted == [j \in Index |-> IF i <= j /\ j < n - 1 THEN a[j + 1]
                                  ELSE IF i < n - 1 /\ j = n - 1 THEN NULL
                                  ELSE a[j]]
      cleared == [j \in Index |-> IF j = i THEN NULL ELSE a[j]]
  IN [at |-> [m.at EXCEPT ![l] = IF n > 1 THEN shifted ELSE cleared],
      size |-> [m.size EXCEPT ![l] = n - 1]]

\* mlfq[l][mlfq_size[l]] = p, the first of the two statements of an insertion.
\* At size -1 the store hits the unused last place of the row below.
store(m, l, p) ==
  [at |-> [m.at EXCEPT ![l] = [j \in Index |-> IF j = m.size[l] THEN p ELSE m.at[l][j]]],
   size |-> m.size]

\* mlfq_size[l] += 1, the second.
count(m, l) == [m EXCEPT !.size[l] = @ + 1]

\* Mutation: the entry is stored but the size is not increased.
insert_uncounted(m, l, p) == store(m, l, p)

insert(m, l, p) == count(store(m, l, p), l)

\* The store is outside of mlfq[l].
Overflows(m, l) == m.size[l] \notin -1 .. QLEN - 1

\* The places scheduler() looks at, and their order.
Places == {x \in Level \X Index : x[2] < mlfq.size[x[1]]}
At(x) == mlfq.at[x[1]][x[2]]

\* Mutation: the levels are searched from the lowest up.
Before_upwards(x, y) == x[1] < y[1] \/ (x[1] = y[1] /\ x[2] < y[2])

Before(x, y) == x[1] > y[1] \/ (x[1] = y[1] /\ x[2] < y[2])

Unlocked == ~fault /\ ptable_lock = NoCpu

----------------------------------------------------------------------------
\* scheduler()

\* The places at which the scan stops: a runnable process, or an entry that is
\* not a process at all.
Stops == {x \in Places : At(x) = NULL \/ st[At(x)] = "RUNNABLE"}

Picks(x) == x \in Stops /\ \A y \in Stops : x = y \/ Before(x, y)

\* Mutation: the process found stays RUNNABLE.
MarkRunning_forgotten(p) == st

MarkRunning(p) == [st EXCEPT ![p] = "RUNNING"]

\* The scan, the accounting and the switch to the process found, which then
\* releases ptable.lock.
schedule(c) ==
  /\ Unlocked /\ cpc[c] = "scan"
  /\ \E x \in Places :
       /\ Picks(x)
       /\ IF At(x) = NULL
          THEN fault' = TRUE /\ UNCHANGED <<st, ticks_curr, wait_ticks_curr, cpc, run, lvl, idx>>
          ELSE LET p == At(x) IN
               /\ wait_ticks_curr' = [q \in Slot |-> IF q = p THEN 0
                                      ELSE IF st[q] = "RUNNABLE" THEN NextWait(wait_ticks_curr[q])
                                      ELSE wait_ticks_curr[q]]
               /\ st' = MarkRunning(p)
               /\ ticks_curr' = [ticks_curr EXCEPT ![p] = NextTick(@)]
               /\ cpc' = [cpc EXCEPT ![c] = "run"]
               /\ run' = [run EXCEPT ![c] = p]
               /\ lvl' = [lvl EXCEPT ![c] = x[1]]
               /\ idx' = [idx EXCEPT ![c] = x[2]]
               /\ UNCHANGED fault
  /\ UNCHANGED <<mlfq, level, forks, ptable_lock>>

SliceUsed(p, l) == l > 0 /\ ticks_curr[p] >= limit_total[l]

TurnUsed(p, l) == ticks_curr[p] % limit_rr[l] = 0

\* Process p on CPU c has entered sched() in state s; the scheduler files it at
\* the place lvl, i it remembers from before the switch, and starts promoting.
back_in_scheduler(c, p, s) ==
  LET l == lvl[c]
      m == rm_priority(mlfq, l, idx[c])
  IN /\ st' = [st EXCEPT ![p] = s]
     /\ IF SliceUsed(p, l)
        THEN /\ mlfq' = insert(m, l - 1, p)
             /\ fault' = Overflows(m, l - 1)
             /\ ticks_curr' = [ticks_curr EXCEPT ![p] = 0]
             /\ wait_ticks_curr' = [wait_ticks_curr EXCEPT ![p] = 0]
             /\ level' = [level EXCEPT ![p] = l - 1]
        ELSE /\ IF TurnUsed(p, l)
                THEN mlfq' = insert(m, l, p) /\ fault' = Overflows(m, l)
                ELSE UNCHANGED <<mlfq, fault>>
             /\ UNCHANGED <<ticks_curr, wait_ticks_curr, level>>
     /\ cpc' = [cpc EXCEPT ![c] = "promote"]
     /\ run' = [run EXCEPT ![c] = NULL]
     /\ lvl' = [lvl EXCEPT ![c] = Top]
     /\ idx' = [idx EXCEPT ![c] = 0]
     /\ ptable_lock' = c
     /\ UNCHANGED forks

Starving(p) == wait_ticks_curr[p] >= StarveFactor * limit_total[level[p]]

\* The promotion loop goes on from <<lvl, idx>> to the next starving process; a
\* NULL entry on its way would be dereferenced.
Ahead(c) == {x \in Places : x[1] < lvl[c] \/ (x[1] = lvl[c] /\ x[2] >= idx[c])}
Halts(c) == {x \in Ahead(c) : At(x) = NULL \/ Starving(At(x))}

\* What is done to the process raised.  p->level indexes p->wait_ticks and
\* limit_total, so that the model stops with a fault when it becomes NLAYER.
RaiseLevel(p) ==
  /\ ticks_curr' = [ticks_curr EXCEPT ![p] = 0]
  /\ wait_ticks_curr' = [wait_ticks_curr EXCEPT ![p] = 0]
  /\ level' = [level EXCEPT ![p] = @ + 1]

\* Promote it, and go on with the place after the one it has left.  There is no
\* test for the top level: from there it goes to mlfq[NLAYER], outside the array.
promote(c) ==
  /\ ~fault /\ cpc[c] = "promote"
  /\ \E x \in Halts(c) : LET l == x[1]
                            p == At(x)
                            m == rm_priority(mlfq, l, x[2]) IN
       /\ \A y \in Halts(c) : x = y \/ Before(x, y)
       /\ lvl' = [lvl EXCEPT ![c] = l]
       /\ idx' = [idx EXCEPT ![c] = x[2] + 1]
       /\ IF p = NULL
          THEN fault' = TRUE /\ UNCHANGED <<mlfq, ticks_curr, wait_ticks_curr, level>>
          ELSE /\ mlfq' = IF l = Top THEN m ELSE insert(m, l + 1, p)
               /\ fault' = (l = Top \/ level[p] = Top \/ Overflows(m, l + 1))
               /\ RaiseLevel(p)
  /\ UNCHANGED <<st, forks, cpc, run, ptable_lock>>

\* The loop leaves lvl at -1.  The scan reads mlfq_size[-1], which is the memory
\* of mlfq[NLAYER-1][QLEN-1]: NULL, so that the scan ends and the lock is
\* released, unless that last place is in use.
promote_done(c) ==
  /\ ~fault /\ cpc[c] = "promote" /\ Halts(c) = {}
  /\ fault' = (mlfq.at[Top][QLEN - 1] # NULL)
  /\ cpc' = [cpc EXCEPT ![c] = "scan"]
  /\ lvl' = [lvl EXCEPT ![c] = -1]
  /\ idx' = [idx EXCEPT ![c] = 0]
  /\ ptable_lock' = NoCpu
  /\ UNCHANGED <<mlfq, procs, forks, run>>

----------------------------------------------------------------------------
\* What the running process does

\* The process running on c, at point k of a system call.
Runs(c, p, k) == cpc[c] = "run" /\ run[c] = p /\ kpc[p] = k

\* The timer interrupt: trap() calls yield(), wherever the process is.
yield(c) ==
  /\ Unlocked /\ cpc[c] = "run"
  /\ back_in_scheduler(c, run[c], "RUNNABLE")

\* sleep(): the wait for an event is any wait in the kernel.
sleep(c) ==
  /\ Unlocked /\ "sleep" \in Ops
  /\ \E p \in Slot : Runs(c, p, "user") /\ back_in_scheduler(c, p, "SLEEPING")

wakeup(p) ==
  /\ Unlocked /\ st[p] = "SLEEPING"
  /\ st' = [st EXCEPT ![p] = "RUNNABLE"]
  /\ UNCHANGED <<mlfq, level, ticks_curr, wait_ticks_curr, forks, scheds, fault>>

\* exit(); the initial process does not.
exit(c) ==
  /\ Unlocked /\ "exit" \in Ops
  /\ \E p \in Slot \ {0} : Runs(c, p, "user") /\ back_in_scheduler(c, p, "ZOMBIE")

\* wait() or join() frees the slot.  Nothing takes it out of the queues.
reap(c, z) ==
  /\ Unlocked
  /\ \E p \in Slot : Runs(c, p, "user")
  /\ st[z] = "ZOMBIE"
  /\ st' = [st EXCEPT ![z] = "UNUSED"]
  /\ UNCHANGED <<mlfq, level, ticks_curr, wait_ticks_curr, forks, scheds, fault>>

Free == {z \in Slot : st[z] = "UNUSED"}

\* allocproc(), inside ptable.lock: the first free slot becomes an EMBRYO.
fork(c) ==
  /\ Unlocked /\ "fork" \in Ops
  /\ \E p \in Slot, z \in Free :
       /\ Runs(c, p, "user")
       /\ \A y \in Free : z <= y
       /\ st' = [st EXCEPT ![z] = "EMBRYO"]
       /\ kpc' = [kpc EXCEPT ![p] = "fork_store"]
       /\ np' = [np EXCEPT ![p] = z]
  /\ UNCHANGED <<mlfq, level, ticks_curr, wait_ticks_curr, spot, boosts, scheds, fault>>

\* allocproc() finds no page for the kernel stack.
fork_no_stack(c) ==
  /\ ~fault
  /\ \E p \in Slot :
       /\ Runs(c, p, "fork_store")
       /\ st' = [st EXCEPT ![np[p]] = "UNUSED"]
       /\ kpc' = [kpc EXCEPT ![p] = "user"]
       /\ np' = [np EXCEPT ![p] = NULL]
  /\ UNCHANGED <<mlfq, level, ticks_curr, wait_ticks_curr, spot, boosts, scheds, fault>>

\* The level a new process is given.
NewLevel == Top

\* mlfq[3][mlfq_size[3]] = p
fork_store(c) ==
  /\ ~fault
  /\ \E p \in Slot :
       /\ Runs(c, p, "fork_store")
       /\ level' = [level EXCEPT ![np[p]] = NewLevel]
       /\ ticks_curr' = [ticks_curr EXCEPT ![np[p]] = 0]
       /\ wait_ticks_curr' = [wait_ticks_curr EXCEPT ![np[p]] = 0]
       /\ mlfq' = store(mlfq, Top, np[p])
       /\ fault' = Overflows(mlfq, Top)
       /\ kpc' = [kpc EXCEPT ![p] = "fork_count"]
  /\ UNCHANGED <<st, np, spot, boosts, scheds>>

\* mlfq_size[3] += 1
fork_count(c) ==
  /\ ~fault
  /\ \E p \in Slot :
       /\ Runs(c, p, "fork_count")
       /\ mlfq' = count(mlfq, Top)
       /\ fault' = Overflows(mlfq, Top)
       /\ kpc' = [kpc EXCEPT ![p] = "fork_finish"]
  /\ UNCHANGED <<procs, np, spot, boosts, scheds>>

\* The rest of fork() or clone(): the child becomes RUNNABLE, or copyuvm() fails
\* and the slot is given back, again without leaving the queue.
fork_finish(c) ==
  /\ ~fault
  /\ \E p \in Slot, s \in {"RUNNABLE", "UNUSED"} :
       /\ Runs(c, p, "fork_finish")
       /\ st' = [st EXCEPT ![np[p]] = s]
       /\ kpc' = [kpc EXCEPT ![p] = "user"]
       /\ np' = [np EXCEPT ![p] = NULL]
  /\ UNCHANGED <<mlfq, level, ticks_curr, wait_ticks_curr, spot, boosts, scheds, fault>>

\* boostproc(), all of it without ptable.lock.  First the place of p in the queue
\* of its own level; the loop would dereference a NULL entry on its way.
boostproc(c) ==
  /\ ~fault /\ "boost" \in Ops
  /\ boosts < MaxBoosts /\ boosts' = boosts + 1
  /\ \E p \in Slot : LET l == level[p] IN
       /\ Runs(c, p, "user")
       /\ l # Top
       /\ \E x \in Places :
            /\ x[1] = l /\ At(x) \in {p, NULL}
            /\ \A y \in Places : y[1] = l /\ At(y) \in {p, NULL} => x[2] <= y[2]
            /\ fault' = (At(x) = NULL)
            /\ spot' = [spot EXCEPT ![p] = x]
       /\ kpc' = [kpc EXCEPT ![p] = "boost_rm"]
  /\ UNCHANGED <<mlfq, procs, np, scheds>>

boost_rm(c) ==
  /\ ~fault
  /\ \E p \in Slot :
       /\ Runs(c, p, "boost_rm")
       /\ mlfq' = rm_priority(mlfq, spot[p][1], spot[p][2])
       /\ kpc' = [kpc EXCEPT ![p] = "boost_store"]
  /\ UNCHANGED <<procs, np, spot, boosts, scheds, fault>>

boost_store(c) ==
  /\ ~fault
  /\ \E p \in Slot :
       /\ Runs(c, p, "boost_store")
       /\ mlfq' = store(mlfq, spot[p][1] + 1, p)
       /\ fault' = Overflows(mlfq, spot[p][1] + 1)
       /\ kpc' = [kpc EXCEPT ![p] = "boost_count"]
  /\ UNCHANGED <<procs, np, spot, boosts, scheds>>

boost_count(c) ==
  /\ ~fault
  /\ \E p \in Slot :
       /\ Runs(c, p, "boost_count")
       /\ mlfq' = count(mlfq, spot[p][1] + 1)
       /\ fault' = Overflows(mlfq, spot[p][1] + 1)
       /\ kpc' = [kpc EXCEPT ![p] = "boost_finish"]
  /\ UNCHANGED <<procs, np, spot, boosts, scheds>>

boost_finish(c) ==
  /\ ~fault
  /\ \E p \in Slot :
       /\ Runs(c, p, "boost_finish")
       /\ RaiseLevel(p)
       /\ fault' = (level[p] = Top)
       /\ kpc' = [kpc EXCEPT ![p] = "user"]
       /\ spot' = [spot EXCEPT ![p] = NULL]
  /\ UNCHANGED <<mlfq, st, np, boosts, scheds>>

----------------------------------------------------------------------------

Scheduler(c) == schedule(c) \/ promote(c) \/ promote_done(c)

Forking(c) == fork(c) \/ fork_no_stack(c) \/ fork_store(c) \/ fork_count(c) \/ fork_finish(c)

Boosting(c) == boostproc(c) \/ boost_rm(c) \/ boost_store(c) \/ boost_count(c) \/ boost_finish(c)

Next ==
  \/ \E c \in CPU : \/ Scheduler(c) \/ yield(c) \/ sleep(c) \/ exit(c)
                    \/ Forking(c) \/ Boosting(c)
                    \/ \E z \in Slot : reap(c, z)
  \/ \E p \in Slot : wakeup(p)

Spec == Init /\ [][Next]_vars

\* The scheduler loop runs, and the timer interrupts whatever process is running.
FairSpec == Spec /\ \A c \in CPU : WF_vars(Scheduler(c)) /\ WF_vars(yield(c))

----------------------------------------------------------------------------
\* Properties

\* A process runs on at most one CPU, and it is RUNNING exactly while it does:
\* two schedulers never switch to the same kernel stack, whatever is in the queues.
OnOneCpu ==
  /\ \A c \in CPU : cpc[c] = "run" => st[run[c]] = "RUNNING"
  /\ \A p \in Slot : st[p] = "RUNNING" => \E c \in CPU : cpc[c] = "run" /\ run[c] = p
  /\ \A c, d \in CPU : cpc[c] = "run" /\ cpc[d] = "run" /\ run[c] = run[d] => c = d

InUse(p) == st[p] \notin {"UNUSED", "EMBRYO"}
PlacesOf(p) == {x \in Places : At(x) = p}

\* Every live process has exactly one entry in the queues, and it is in the
\* queue of its own level.
QueuedOnce == \A p \in Slot : InUse(p) => \E x \in Places : PlacesOf(p) = {x} /\ x[1] = level[p]

\* The process scheduled is one of the highest priority among the ready ones
\* (README 1).
HighestPriorityRuns ==
  [][\A p, q \in Slot : st[p] = "RUNNABLE" /\ st'[p] = "RUNNING" /\ st[q] = "RUNNABLE"
        => level[q] <= level[p]]_vars

\* A ready process is run at some later time (README 1, the priority boost).
NoStarvation == \A p \in Slot : st[p] = "RUNNABLE" ~> st[p] = "RUNNING"
=============================================================================
