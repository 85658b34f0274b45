----------------------------- MODULE ProcTable -----------------------------
(***************************************************************************)
(* The process table of kernel/proc.c: fork, clone, exec, exit, wait, join *)
(* and kill, with the address spaces that processes own and threads share. *)
(*                                                                         *)
(* A step is what happens inside ptable.lock, or an unlocked stretch of    *)
(* fork, clone or exec.  As in SleepWakeup, RUNNABLE stands for RUNNING    *)
(* too.  A pgdir is numbered when it is made, and live are the ones not    *)
(* yet freed: nothing in the code counts the threads that use one.         *)
(***************************************************************************)
EXTENDS SleepWakeup, Integers

CONSTANTS NPROC,     \* slots of the table
          MaxPid,    \* bound on the processes ever made
          MaxDir,    \* bound on the address spaces ever made
          Ops,       \* the calls that processes make
          NULL

ASSUME OpsAssumption == Ops \subseteq {"fork", "clone", "exec", "wait", "join", "kill"}
ASSUME ProcAssumption == NPROC \in Nat \ {0} /\ Proc = 0 .. NPROC - 1
ASSUME BoundAssumption == MaxPid \in Nat \ {0} /\ MaxDir \in Nat \ {0}
ASSUME NullAssumption == NULL \notin Proc \cup 1 .. MaxDir /\ NoChan \notin Proc

VARIABLES pid, parent, pgdir,   \* fields of ptable.proc[p]
          nextpid,
          pc,       \* where each process is; "user" outside the calls
          np,       \* the child fork or clone is making
          live,     \* the address spaces that exist
          ndir,     \* how many were made
          fault     \* freevm was called for one that does not exist

ids == <<pid, nextpid>>
spaces == <<pgdir, live, ndir, fault>>
vars == <<state, chan, killed, ids, parent, spaces, pc, np>>

initproc == 0
Pid == 0 .. MaxPid
Dir == 1 .. MaxDir

TypeOK ==
  /\ state \in [Proc -> {"UNUSED", "EMBRYO", "SLEEPING", "RUNNABLE", "ZOMBIE"}]
  /\ chan \in [Proc -> Proc \cup {NoChan}]
  /\ killed \in [Proc -> BOOLEAN]
  /\ pid \in [Proc -> Pid] /\ nextpid \in 1 .. MaxPid + 1
  /\ parent \in [Proc -> Proc \cup {NULL}]
  /\ pgdir \in [Proc -> Dir \cup {NULL}] /\ live \subseteq Dir /\ ndir \in 0 .. MaxDir
  /\ pc \in [Proc -> {"user", "fork", "clone", "run", "wait", "join"}]
  /\ np \in [Proc -> Proc \cup {NULL}]
  /\ fault \in BOOLEAN

\* After userinit().
Init ==
  /\ state = [p \in Proc |-> IF p = initproc THEN "RUNNABLE" ELSE "UNUSED"]
  /\ chan = [p \in Proc |-> NoChan]
  /\ killed = [p \in Proc |-> FALSE]
  /\ pid = [p \in Proc |-> IF p = initproc THEN 1 ELSE 0] /\ nextpid = 2
  /\ parent = [p \in Proc |-> NULL]
  /\ pgdir = [p \in Proc |-> IF p = initproc THEN 1 ELSE NULL]
  /\ live = {1} /\ ndir = 1 /\ fault = FALSE
  /\ pc = [p \in Proc |-> "user"]
  /\ np = [p \in Proc |-> NULL]

----------------------------------------------------------------------------

At(p, l) == ~fault /\ state[p] = "RUNNABLE" /\ pc[p] = l
Goto(p, l) == pc' = [pc EXCEPT ![p] = l]

\* A killed process exits before its next system call, and init makes no other
\* calls than fork, exec and wait (user/init.c).
Calls(p, op) ==
  /\ At(p, "user") /\ ~killed[p] /\ op \in Ops
  /\ p = initproc => op \in {"fork", "exec", "wait"}

Threads(p) == {q \in Proc : /\ state[q] \notin {"UNUSED", "EMBRYO"}
                            /\ parent[q] = p /\ pgdir[q] = pgdir[p]}

IsThread(p) == parent[p] # NULL /\ pgdir[parent[p]] = pgdir[p]

Shared(p) == \E q \in Proc \ {p} : state[q] # "UNUSED" /\ pgdir[q] = pgdir[p]

\* What the kernel leaves to the programs: only a process that is not a thread
\* itself starts threads, and until it has joined them it neither exits nor is
\* killed nor calls wait nor execs; a thread does not exec.
ThreadRules(p, op) ==
  /\ op \in {"wait", "exit", "kill"} => Threads(p) = {} /\ pc[p] \notin {"clone", "run"}
  /\ op = "exec" => ~Shared(p)
  /\ op = "clone" => ~IsThread(p)

----------------------------------------------------------------------------
\* fork and clone

Free == {z \in Proc : state[z] = "UNUSED"}

\* nextpid++
NextPid == nextpid + 1

\* allocproc(), the part inside ptable.lock.  killed and parent stay as they are.
allocproc(p, op) ==
  /\ Calls(p, op) /\ ThreadRules(p, op)
  /\ nextpid <= MaxPid
  /\ \E z \in Free :
       /\ \A y \in Free : z <= y
       /\ state' = [state EXCEPT ![z] = "EMBRYO"]
       /\ pid' = [pid EXCEPT ![z] = nextpid]
       /\ np' = [np EXCEPT ![p] = z]
  /\ nextpid' = NextPid
  /\ Goto(p, op)
  /\ UNCHANGED <<chan, killed, parent, spaces>>

\* No page for the kernel stack, or copyuvm() fails and clears np->pgdir: the slot
\* is given back with its pid still in place.
no_memory(p) ==
  /\ \/ (At(p, "fork") \/ At(p, "clone")) /\ UNCHANGED pgdir
     \/ At(p, "fork") /\ pgdir' = [pgdir EXCEPT ![np[p]] = NULL]
  /\ state' = [state EXCEPT ![np[p]] = "UNUSED"]
  /\ np' = [np EXCEPT ![p] = NULL]
  /\ Goto(p, "user")
  /\ UNCHANGED <<chan, killed, ids, parent, live, ndir, fault>>

fork_copy(p) ==
  /\ At(p, "fork") /\ ndir < MaxDir
  /\ ndir' = ndir + 1
  /\ live' = live \cup {ndir + 1}
  /\ pgdir' = [pgdir EXCEPT ![np[p]] = ndir + 1]
  /\ parent' = [parent EXCEPT ![np[p]] = p]
  /\ Goto(p, "run")
  /\ UNCHANGED <<state, chan, killed, ids, fault, np>>

clone_share(p) ==
  /\ At(p, "clone")
  /\ pgdir' = [pgdir EXCEPT ![np[p]] = pgdir[p]]
  /\ parent' = [parent EXCEPT ![np[p]] = p]
  /\ Goto(p, "run")
  /\ UNCHANGED <<state, chan, killed, ids, live, ndir, fault, np>>

make_runnable(p) ==
  /\ At(p, "run")
  /\ state' = [state EXCEPT ![np[p]] = "RUNNABLE"]
  /\ np' = [np EXCEPT ![p] = NULL]
  /\ Goto(p, "user")
  /\ UNCHANGED <<chan, killed, ids, parent, spaces>>

\* exec(), once the new image is complete.
exec(p) ==
  /\ Calls(p, "exec") /\ ThreadRules(p, "exec")
  /\ ndir < MaxDir
  /\ ndir' = ndir + 1
  /\ pgdir' = [pgdir EXCEPT ![p] = ndir + 1]
  /\ live' = (live \cup {ndir + 1}) \ {pgdir[p]}
  /\ fault' = (pgdir[p] \notin live)
  /\ UNCHANGED <<state, chan, killed, ids, parent, pc, np>>

----------------------------------------------------------------------------
\* exit, wait, join and kill

Children(p) == {q \in Proc : parent[q] = p}

\* Mutation: only the parent of the exiting process is woken.
wake_reapers_parent(p) == wakeup1(state, parent[p])

\* wakeup1(proc->parent), and wakeup1(initproc) if init inherits a zombie.
wake_reapers(p) ==
  LET st == wakeup1(state, parent[p])
  IN IF \E q \in Children(p) : state[q] = "ZOMBIE" THEN wakeup1(st, initproc) ELSE st

pass_to_init(p) == [q \in Proc |-> IF parent[q] = p THEN initproc ELSE parent[q]]

\* exit(), by a call or because the process was killed.  init does not exit.
exit(p) ==
  /\ At(p, "user") /\ p # initproc
  /\ ThreadRules(p, "exit")
  /\ state' = [wake_reapers(p) EXCEPT ![p] = "ZOMBIE"]
  /\ parent' = pass_to_init(p)
  /\ UNCHANGED <<chan, killed, ids, spaces, pc, np>>

\* The first zombie among kids gives its slot back.
reap(p, kids) ==
  \E z \in kids :
    /\ state[z] = "ZOMBIE"
    /\ \A y \in kids : state[y] = "ZOMBIE" => z <= y
    /\ state' = [state EXCEPT ![z] = "UNUSED"]
    /\ pid' = [pid EXCEPT ![z] = 0]
    /\ parent' = [parent EXCEPT ![z] = NULL]
    /\ killed' = [killed EXCEPT ![z] = FALSE]
    /\ UNCHANGED <<nextpid, np>>

\* Mutation: a killed process waits on.
Hopeless_childless(p, kids) == kids = {}

\* What wait and join do when no child is a zombie: give up or go to sleep.
Hopeless(p, kids) == kids = {} \/ killed[p]

give_up(p, kids) ==
  /\ Hopeless(p, kids)
  /\ chan' = [chan EXCEPT ![p] = NoChan]
  /\ Goto(p, "user")
  /\ UNCHANGED <<state, killed, ids, parent, spaces, np>>

sleep(p, kids, l) ==
  /\ ~Hopeless(p, kids)
  /\ state' = fall_asleep(state, p)
  /\ chan' = [chan EXCEPT ![p] = p]
  /\ Goto(p, l)
  /\ UNCHANGED <<killed, ids, parent, spaces, np>>

\* One turn of the loop of wait().  The slot keeps its pgdir, now freed.
wait(p) ==
  LET kids == Children(p) IN
  /\ (Calls(p, "wait") /\ ThreadRules(p, "wait")) \/ At(p, "wait")
  /\ IF \E z \in kids : state[z] = "ZOMBIE"
     THEN /\ reap(p, kids)
          /\ \E z \in kids : /\ state'[z] # state[z]
                             /\ live' = live \ {pgdir[z]}
                             /\ fault' = (pgdir[z] \notin live)
          /\ chan' = [chan EXCEPT ![p] = NoChan]
          /\ Goto(p, "user")
          /\ UNCHANGED <<pgdir, ndir>>
     ELSE give_up(p, kids) \/ sleep(p, kids, "wait")

\* Mutation: the memory of the thread is freed as in wait().
Kept_not(z) == live \ {pgdir[z]}

Kept(z) == live

\* One turn of the loop of join(): only threads, and their memory stays.
join(p) ==
  LET kids == {q \in Children(p) : pgdir[q] = pgdir[p]} IN
  /\ Calls(p, "join") \/ At(p, "join")
  /\ IF \E z \in kids : state[z] = "ZOMBIE"
     THEN /\ reap(p, kids)
          /\ \E z \in kids : /\ state'[z] # state[z]
                             /\ pgdir' = [pgdir EXCEPT ![z] = NULL]
                             /\ live' = Kept(z)
          /\ chan' = [chan EXCEPT ![p] = NoChan]
          /\ Goto(p, "user")
          /\ UNCHANGED <<ndir, fault>>
     ELSE give_up(p, kids) \/ sleep(p, kids, "join")

\* kill(n): the first slot with that pid, whatever its state: kill(0) marks an
\* unused slot, and the next process that gets it.  Nobody kills init.
kill_pid(n) ==
  /\ ~fault /\ "kill" \in Ops
  /\ \E p \in Proc \ {initproc} :
       /\ pid[p] = n
       /\ \A q \in Proc : pid[q] = n => p <= q
       /\ state[p] # "UNUSED" => ThreadRules(p, "kill")
       /\ kill(p)
  /\ UNCHANGED <<ids, parent, spaces, pc, np>>

----------------------------------------------------------------------------

KernelStep(p) ==
  \/ no_memory(p) \/ fork_copy(p) \/ clone_share(p) \/ make_runnable(p)
  \/ (pc[p] = "wait" /\ wait(p)) \/ (pc[p] = "join" /\ join(p))

UserCall(p) ==
  \/ allocproc(p, "fork") \/ allocproc(p, "clone") \/ exec(p) \/ exit(p)
  \/ (pc[p] = "user" /\ wait(p)) \/ (pc[p] = "user" /\ join(p))

Next ==
  \/ \E p \in Proc : KernelStep(p) \/ UserCall(p)
  \/ \E n \in Pid : kill_pid(n)

Spec == Init /\ [][Next]_vars

\* A process in the kernel goes on, a killed one exits, and init, whose program is
\* a loop of fork and wait, makes another call.
FairSpec ==
  /\ Spec
  /\ \A p \in Proc : WF_vars(KernelStep(p)) /\ WF_vars(killed[p] /\ exit(p))
  /\ WF_vars(KernelStep(initproc) \/ (pc[initproc] = "user" /\ wait(initproc)))

----------------------------------------------------------------------------
\* Properties

Alive(p) == state[p] \in {"RUNNABLE", "SLEEPING"}
Exists(p) == Alive(p) \/ state[p] = "ZOMBIE"

\* A process asleep in wait() or join() has a child that may still exit, and none
\* that has: no wakeup of exit() is missed, not even for a zombie inherited by init.
NoMissedZombie ==
  \A p \in Proc : state[p] = "SLEEPING" =>
    LET kids == {q \in Children(p) : pc[p] = "join" => pgdir[q] = pgdir[p]}
    IN (\E q \in kids : Alive(q)) /\ (\A q \in kids : state[q] # "ZOMBIE")

\* The address spaces in existence are exactly those of the processes and of the
\* children in the making, and none is freed twice: wait() frees that of a
\* process, join() leaves that of a thread to the process it belongs to.
AddressSpaces ==
  /\ ~fault
  /\ live = {pgdir[p] : p \in {q \in Proc : Exists(q)}}
            \cup {pgdir[np[p]] : p \in {q \in Proc : pc[q] = "run"}}

\* A killed process exits, even from within wait() or join().
KilledDies == \A p \in Proc : Alive(p) /\ killed[p] ~> ~Alive(p)
============================================================================
