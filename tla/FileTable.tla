----------------------------- MODULE FileTable -----------------------------
(***************************************************************************)
(* The file table of kernel/file.c and the file descriptors of             *)
(* kernel/sysfile.c over the pipe of module Pipe: pipe, dup, close, read,  *)
(* write, and what fork and exit do with the open files.                   *)
(*                                                                         *)
(* The files are the two ends of one pipe: filealloc() finds the two       *)
(* entries, and the next pipe is made when the last one is freed (bound).  *)
(* A process number is used once.                                          *)
(***************************************************************************)
EXTENDS Pipe

CONSTANTS NOFILE,   \* descriptors of a process
          first,    \* the process that runs at the start
          NULL,
          Workloads \* the sets of calls that processes make, beside those on a pipe

File == {"rf", "wf"}
Fd == 0 .. NOFILE - 1

ASSUME TableAssumption == IsFiniteSet(Proc)
ASSUME FileAssumption == NOFILE \in Nat /\ NOFILE > 1 /\ first \in Proc /\ NULL \notin File \cup Proc
ASSUME WorkloadAssumption == Workloads \subseteq SUBSET {"dup", "fork", "exit", "kill"}

VARIABLES ref,      \* f->ref
          ofile,    \* proc->ofile
          cur,      \* the file that dup or close is about
          kid, fdi, \* fork: the child, and the loop variable i
          panicked, \* filedup or fileclose met a reference count below 1
          load      \* the one of Workloads that is there

files == <<ref, ofile, cur, kid, fdi, panicked>>
vars == <<pipevars, files, load>>

FilePC == {"unborn", "user", "dup", "close", "pipeclose", "fork", "exit", "exit_pipeclose", "dead"}

TypeOK ==
  /\ PipeTypeOK
  /\ pc \in [Proc -> PipePC \cup FilePC]
  /\ ref \in [File -> Int]
  /\ ofile \in [Proc -> [Fd -> File \cup {NULL}]]
  /\ cur \in [Proc -> File \cup {NULL}]
  /\ kid \in [Proc -> Proc \cup {NULL}] /\ fdi \in [Proc -> 0 .. NOFILE]
  /\ panicked \in BOOLEAN

Init ==
  /\ SleepInit
  /\ nread = 0 /\ nwrite = 0 /\ data = [i \in 0 .. PIPESIZE - 1 |-> 1]
  /\ readopen = FALSE /\ writeopen = FALSE /\ exists = FALSE
  /\ plock = NoProc
  /\ pc = [p \in Proc |-> IF p = first THEN "user" ELSE "unborn"]
  /\ todo = [p \in Proc |-> 0]
  /\ ref = [f \in File |-> 0]
  /\ ofile = [p \in Proc |-> [fd \in Fd |-> NULL]]
  /\ cur = [p \in Proc |-> NULL]
  /\ kid = [p \in Proc |-> NULL] /\ fdi = [p \in Proc |-> 0]
  /\ panicked = FALSE
  /\ load \in Workloads

----------------------------------------------------------------------------

Calls(p) == ~panicked /\ At(p, "user") /\ ~killed[p]

FreeFds(p) == {fd \in Fd : ofile[p][fd] = NULL}
Lowest(S) == CHOOSE x \in S : \A y \in S : x <= y

\* The second of two descriptors is allocated after the first.  With one pipe at a
\* time all descriptors are free then, so that fdalloc() does not fail.
sys_pipe(p) ==
  LET fd0 == Lowest(FreeFds(p))
      fd1 == Lowest(FreeFds(p) \ {fd0})
  IN /\ Calls(p)
     /\ ref["rf"] = 0 /\ ref["wf"] = 0 /\ ~exists
     /\ pipealloc
     /\ ref' = [f \in File |-> 1]
     /\ ofile' = [ofile EXCEPT ![p][fd0] = "rf", ![p][fd1] = "wf"]
     /\ UNCHANGED <<plock, sleepers, pc, todo, cur, kid, fdi, panicked>>

\* read(fd, ..., n) and write(fd, ..., n) on the right end; on the other they fail.
fileread(p) ==
  /\ Calls(p)
  /\ \E fd \in Fd, n \in Sizes : ofile[p][fd] = "rf" /\ todo' = [todo EXCEPT ![p] = n]
  /\ Goto(p, "read_acquire")
  /\ UNCHANGED <<counters, flags, plock, sleepers, files>>

filewrite(p) ==
  /\ Calls(p)
  /\ \E fd \in Fd, n \in Sizes : ofile[p][fd] = "wf" /\ todo' = [todo EXCEPT ![p] = n]
  /\ Goto(p, "write_acquire")
  /\ UNCHANGED <<counters, flags, plock, sleepers, files>>

----------------------------------------------------------------------------
\* References

filedup(f) ==
  /\ ref' = [ref EXCEPT ![f] = @ + 1]
  /\ panicked' = (ref[f] < 1)

Last(f) == ref[f] = 1

\* fileclose(f) up to its release: the process that drops the last reference goes
\* on to pipeclose, the others return.
fileclose(p, f, last, return_to) ==
  /\ ref' = [ref EXCEPT ![f] = @ - 1]
  /\ panicked' = (ref[f] < 1)
  /\ Goto(p, IF Last(f) THEN last ELSE return_to)

\* sys_dup: the new descriptor first, the reference for it after.
sys_dup(p) ==
  /\ Calls(p) /\ "dup" \in load
  /\ FreeFds(p) # {}
  /\ \E fd \in Fd : LET f == ofile[p][fd] IN
       /\ f # NULL
       /\ cur' = [cur EXCEPT ![p] = f]
       /\ ofile' = [ofile EXCEPT ![p][Lowest(FreeFds(p))] = f]
  /\ Goto(p, "dup")
  /\ UNCHANGED <<counters, flags, plock, sleepers, todo, ref, kid, fdi, panicked>>

\* Mutation: the reference is not counted.
dup_count_not(p) ==
  /\ ~panicked /\ At(p, "dup")
  /\ cur' = [cur EXCEPT ![p] = NULL]
  /\ Goto(p, "user")
  /\ UNCHANGED <<counters, flags, plock, sleepers, todo, ref, panicked, ofile, kid, fdi>>

dup_count(p) ==
  /\ ~panicked /\ At(p, "dup")
  /\ filedup(cur[p])
  /\ cur' = [cur EXCEPT ![p] = NULL]
  /\ Goto(p, "user")
  /\ UNCHANGED <<counters, flags, plock, sleepers, todo, ofile, kid, fdi>>

sys_close(p) ==
  /\ Calls(p)
  /\ \E fd \in Fd :
       /\ ofile[p][fd] # NULL
       /\ cur' = [cur EXCEPT ![p] = ofile[p][fd]]
       /\ ofile' = [ofile EXCEPT ![p][fd] = NULL]
  /\ Goto(p, "close")
  /\ UNCHANGED <<counters, flags, plock, sleepers, todo, ref, kid, fdi, panicked>>

close_count(p) ==
  /\ ~panicked /\ At(p, "close")
  /\ fileclose(p, cur[p], "pipeclose", "user")
  /\ cur' = [cur EXCEPT ![p] = IF Last(cur[p]) THEN @ ELSE NULL]
  /\ UNCHANGED <<counters, flags, plock, sleepers, todo, ofile, kid, fdi>>

close_pipe(p) ==
  /\ ~panicked
  /\ \/ At(p, "pipeclose") /\ pipeclose(p, cur[p] = "wf", "user")
     \/ At(p, "exit_pipeclose") /\ pipeclose(p, cur[p] = "wf", "exit")
  /\ cur' = [cur EXCEPT ![p] = NULL]
  /\ UNCHANGED <<ref, ofile, kid, fdi, panicked>>

----------------------------------------------------------------------------
\* fork and exit

fork(p) ==
  /\ Calls(p) /\ "fork" \in load
  /\ \E q \in Proc : pc[q] = "unborn" /\ q \notin {kid[r] : r \in Proc}
                      /\ kid' = [kid EXCEPT ![p] = q]
  /\ Goto(p, "fork")
  /\ UNCHANGED <<counters, flags, plock, sleepers, todo, ref, ofile, cur, fdi, panicked>>

\* np->ofile[i] = filedup(proc->ofile[i])
fork_fd(p) ==
  /\ ~panicked /\ At(p, "fork") /\ fdi[p] < NOFILE
  /\ LET f == ofile[p][fdi[p]] IN
       IF f = NULL THEN UNCHANGED <<ref, ofile, panicked>>
       ELSE filedup(f) /\ ofile' = [ofile EXCEPT ![kid[p]][fdi[p]] = f]
  /\ fdi' = [fdi EXCEPT ![p] = @ + 1]
  /\ UNCHANGED <<pipevars, cur, kid>>

\* np->state = RUNNABLE
fork_run(p) ==
  /\ ~panicked /\ At(p, "fork") /\ fdi[p] = NOFILE
  /\ pc' = [pc EXCEPT ![p] = "user", ![kid[p]] = "user"]
  /\ kid' = [kid EXCEPT ![p] = NULL] /\ fdi' = [fdi EXCEPT ![p] = 0]
  /\ UNCHANGED <<counters, flags, plock, sleepers, todo, ref, ofile, cur, panicked>>

exit(p) ==
  /\ ~panicked /\ At(p, "user") /\ ("exit" \in load \/ killed[p])
  /\ Goto(p, "exit")
  /\ UNCHANGED <<counters, flags, plock, sleepers, todo, files>>

\* fileclose(proc->ofile[fd]); proc->ofile[fd] = 0, which nobody else looks at.
exit_close(p) ==
  /\ ~panicked /\ At(p, "exit")
  /\ FreeFds(p) # Fd
  /\ LET fd == Lowest(Fd \ FreeFds(p))
         f == ofile[p][fd]
     IN /\ fileclose(p, f, "exit_pipeclose", "exit")
        /\ ofile' = [ofile EXCEPT ![p][fd] = NULL]
        /\ cur' = [cur EXCEPT ![p] = IF Last(f) THEN f ELSE NULL]
  /\ UNCHANGED <<counters, flags, plock, sleepers, todo, kid, fdi>>

exit_zombie(p) ==
  /\ ~panicked /\ At(p, "exit") /\ FreeFds(p) = Fd
  /\ Goto(p, "dead")
  /\ UNCHANGED <<counters, flags, plock, sleepers, todo, files>>

\* The child of a fork in progress has its pid already.
kill_proc(p) ==
  /\ ~panicked /\ "kill" \in load
  /\ ~killed[p] /\ pc[p] # "dead"
  /\ pc[p] = "unborn" => \E q \in Proc : kid[q] = p
  /\ kill(p)
  /\ UNCHANGED <<counters, flags, plock, pc, todo, files>>

----------------------------------------------------------------------------

KernelStep(p) ==
  \/ ~panicked /\ PipeStep(p) /\ UNCHANGED files
  \/ dup_count(p) \/ close_count(p) \/ close_pipe(p)
  \/ fork_fd(p) \/ fork_run(p) \/ exit_close(p) \/ exit_zombie(p)

UserCall(p) ==
  \/ sys_pipe(p) \/ fileread(p) \/ filewrite(p) \/ sys_dup(p) \/ sys_close(p)
  \/ fork(p) \/ exit(p)

Next == (\E p \in Proc : KernelStep(p) \/ UserCall(p) \/ kill_proc(p)) /\ UNCHANGED load

Spec == Init /\ [][Next]_vars

\* A runnable process in the kernel goes on, and gets the pipe's lock if that is
\* free again and again; a killed one exits.
FairSpec ==
  Spec /\ \A p \in Proc : /\ SF_vars(KernelStep(p) /\ UNCHANGED load)
                          /\ WF_vars(killed[p] /\ exit(p) /\ UNCHANGED load)

----------------------------------------------------------------------------
\* Properties

Descriptors(f) == {d \in Proc \X Fd : ofile[d[1]][d[2]] = f}
Closing(f) == {p \in Proc : pc[p] = "close" /\ cur[p] = f}
Duping(f) == {p \in Proc : pc[p] = "dup" /\ cur[p] = f}

\* A file's reference count is the number of descriptors for it in all processes,
\* plus the closes that have cleared their descriptor and not yet dropped the
\* reference, less the dups that have their descriptor and not yet counted it.
RefCounts ==
  /\ ~panicked
  /\ \A f \in File : ref[f] + Cardinality(Duping(f)) =
                     Cardinality(Descriptors(f)) + Cardinality(Closing(f))

\* pipewrite, piperead and kill: a killed process leaves the pipe and exits, whatever
\* it was waiting for, unless the kill came between its test of killed and sleep().
KilledExits ==
  \A p \in Proc : (killed[p] /\ state[p] = "RUNNABLE" /\ pc[p] \notin {"write_sleep", "read_sleep"})
                    ~> pc[p] = "dead"
============================================================================
