-------------------------------- MODULE Pipe --------------------------------
(***************************************************************************)
(* The pipe of kernel/pipe.c: pipewrite, piperead and pipeclose on one     *)
(* pipe, byte by byte.  A process that is between acquire(&p->lock) and    *)
(* release is in plock; sleep() gives the lock up in the same step in      *)
(* which the process falls asleep, which module Semaphore justifies.       *)
(*                                                                         *)
(* nread and nwrite are unsigned ints that wrap around at WORD.            *)
(***************************************************************************)
EXTENDS SleepWakeup, Integers, Sequences, FiniteSets

CONSTANTS PIPESIZE, WORD,
          Sizes,    \* byte counts of the read and write calls
          NoProc

ASSUME SizeAssumption ==
  PIPESIZE \in Nat \ {0} /\ WORD \in Nat /\ WORD > PIPESIZE /\ WORD % PIPESIZE = 0
ASSUME CallAssumption == Sizes \subseteq Nat /\ IsFiniteSet(Sizes)
ASSUME NoneAssumption == NoProc \notin Proc /\ NoChan \notin {"nread", "nwrite"}

VARIABLES nread, nwrite, data, readopen, writeopen,   \* struct pipe
          plock,      \* p->lock
          exists,     \* the page of the pipe is allocated
          pc,         \* where each process is
          todo        \* bytes left of the call in progress

\* A write of n bytes writes the bytes n, n - 1, ..., 1, in that order.
Byte == {1} \cup UNION {1 .. n : n \in Sizes}

counters == <<nread, nwrite, data>>
flags == <<readopen, writeopen, exists>>
sleepers == <<state, chan, killed>>
pipevars == <<counters, flags, plock, sleepers, pc, todo>>

PipePC == {"write_acquire", "write", "write_sleep", "read_acquire", "read", "read_sleep", "copy"}

PipeTypeOK ==
  /\ SleepTypeOK
  /\ chan \in [Proc -> {"nread", "nwrite", NoChan}]
  /\ nread \in 0 .. WORD - 1 /\ nwrite \in 0 .. WORD - 1
  /\ data \in [0 .. PIPESIZE - 1 -> Byte]
  /\ readopen \in BOOLEAN /\ writeopen \in BOOLEAN /\ exists \in BOOLEAN
  /\ plock \in Proc \cup {NoProc}
  /\ todo \in [Proc -> Nat]

\* A page from kalloc() is full of the 1s of kfree(); the pipe is empty and both
\* ends are open.
pipealloc ==
  /\ nread' = 0 /\ nwrite' = 0
  /\ readopen' = TRUE /\ writeopen' = TRUE /\ exists' = TRUE
  /\ data' = [i \in 0 .. PIPESIZE - 1 |-> 1]

----------------------------------------------------------------------------

At(p, l) == state[p] = "RUNNABLE" /\ pc[p] = l
Goto(p, l) == pc' = [pc EXCEPT ![p] = l]

Full == nwrite = (nread + PIPESIZE) % WORD

Empty == nread = nwrite

\* acquire(&p->lock), at the start of the call or at the end of sleep().
lock(p, from, to) ==
  /\ At(p, from)
  /\ plock = NoProc /\ plock' = p
  /\ chan' = [chan EXCEPT ![p] = NoChan]
  /\ Goto(p, to)
  /\ UNCHANGED <<counters, flags, state, killed, todo>>

\* release(&p->lock) and return, having woken the sleepers on c.
return(p, c) ==
  /\ plock' = NoProc
  /\ state' = wakeup1(state, c)
  /\ todo' = [todo EXCEPT ![p] = 0]
  /\ Goto(p, "user")
  /\ UNCHANGED <<counters, flags, chan, killed>>

\* sleep(c, &p->lock), after the sleepers on w were woken.
sleep(p, w, c, to) ==
  /\ plock' = NoProc
  /\ state' = fall_asleep(wakeup1(state, w), p)
  /\ chan' = [chan EXCEPT ![p] = c]
  /\ Goto(p, to)
  /\ UNCHANGED <<counters, flags, killed, todo>>

----------------------------------------------------------------------------
\* pipewrite(p, addr, n)

write_acquire(p) == lock(p, "write_acquire", "write")

write_byte(p) ==
  /\ At(p, "write") /\ todo[p] > 0 /\ ~Full
  /\ data' = [data EXCEPT ![nwrite % PIPESIZE] = todo[p]]
  /\ nwrite' = (nwrite + 1) % WORD
  /\ todo' = [todo EXCEPT ![p] = @ - 1]
  /\ UNCHANGED <<nread, flags, plock, sleepers, pc>>

\* The test of proc->killed; kill() does not take the lock that is held here.
write_wait(p) ==
  /\ At(p, "write") /\ todo[p] > 0 /\ Full /\ readopen /\ ~killed[p]
  /\ Goto(p, "write_sleep")
  /\ UNCHANGED <<counters, flags, plock, sleepers, todo>>

\* Mutation: a writer that goes to sleep does not wake the readers.
write_sleep_quiet(p) == At(p, "write_sleep") /\ sleep(p, NoChan, "nwrite", "write_acquire")

write_sleep(p) == At(p, "write_sleep") /\ sleep(p, "nread", "nwrite", "write_acquire")

\* return -1
write_fail(p) ==
  /\ At(p, "write") /\ todo[p] > 0 /\ Full /\ (~readopen \/ killed[p])
  /\ return(p, NoChan)

write_done(p) ==
  /\ At(p, "write") /\ todo[p] = 0
  /\ return(p, "nread")

----------------------------------------------------------------------------
\* piperead(p, addr, n)

read_acquire(p) == lock(p, "read_acquire", "read")

\* Mutation: a reader that was killed goes back to sleep.
read_wait_deaf(p) ==
  /\ At(p, "read") /\ Empty /\ writeopen
  /\ Goto(p, "read_sleep")
  /\ UNCHANGED <<counters, flags, plock, sleepers, todo>>

read_wait(p) ==
  /\ At(p, "read") /\ Empty /\ writeopen /\ ~killed[p]
  /\ Goto(p, "read_sleep")
  /\ UNCHANGED <<counters, flags, plock, sleepers, todo>>

read_sleep(p) == At(p, "read_sleep") /\ sleep(p, NoChan, "nread", "read_acquire")

\* return -1
read_fail(p) ==
  /\ At(p, "read") /\ Empty /\ writeopen /\ killed[p]
  /\ return(p, NoChan)

read_start(p) ==
  /\ At(p, "read") /\ ~(Empty /\ writeopen)
  /\ Goto(p, "copy")
  /\ UNCHANGED <<counters, flags, plock, sleepers, todo>>

\* Mutation: the copy does not stop at the end of the data.
read_byte_blind(p) ==
  /\ At(p, "copy") /\ todo[p] > 0
  /\ nread' = (nread + 1) % WORD
  /\ todo' = [todo EXCEPT ![p] = @ - 1]
  /\ UNCHANGED <<nwrite, data, flags, plock, sleepers, pc>>

\* addr[i] = data[nread++ % PIPESIZE]
read_byte(p) ==
  /\ At(p, "copy") /\ todo[p] > 0 /\ ~Empty
  /\ nread' = (nread + 1) % WORD
  /\ todo' = [todo EXCEPT ![p] = @ - 1]
  /\ UNCHANGED <<nwrite, data, flags, plock, sleepers, pc>>

\* return i, which is 0 at the end of the file.
read_done(p) ==
  /\ At(p, "copy") /\ (todo[p] = 0 \/ Empty)
  /\ return(p, "nwrite")

----------------------------------------------------------------------------
\* pipeclose(p, writable); the caller goes on at l

close_wakes(w) == IF w THEN "nread" ELSE "nwrite"

pipeclose(p, w, l) ==
  /\ plock = NoProc
  /\ writeopen' = (writeopen /\ ~w)
  /\ readopen' = (readopen /\ w)
  /\ state' = wakeup1(state, close_wakes(w))
  /\ exists' = (writeopen' \/ readopen')
  /\ Goto(p, l)
  /\ UNCHANGED <<counters, plock, chan, killed, todo>>

----------------------------------------------------------------------------

PipeStep(p) ==
  \/ write_acquire(p) \/ write_byte(p) \/ write_wait(p) \/ write_sleep(p)
  \/ write_fail(p) \/ write_done(p)
  \/ read_acquire(p) \/ read_wait(p) \/ read_sleep(p) \/ read_fail(p) \/ read_start(p)
  \/ read_byte(p) \/ read_done(p)

\* The bytes in the pipe, in the order in which they will be read.
Unread == (nwrite - nread + WORD) % WORD

Contents == [k \in 1 .. Unread |-> data[(nread + k - 1) % PIPESIZE]]

Abs == INSTANCE AbstractPipe WITH
         Capacity <- PIPESIZE,
         channel <- IF exists THEN Contents ELSE <<>>

\* The ring buffer with its two wrapping counters implements a bounded FIFO
\* channel: whatever the interleaving of readers and writers, no byte is lost,
\* doubled or overtaken.
ImplementsFifo == Abs!Spec

\* A reader is asleep only while the pipe is empty and open for writing, a writer
\* only while it is full and open for reading, unless the process that changed
\* that still holds the lock and will wake them before it gives it up.  The one
\* exception: a writer that is killed when it has just filled the pipe returns
\* without waking the readers, and what it wrote stays there while they sleep on.
SleepsForAReason ==
  \A p \in Proc : state[p] = "SLEEPING" =>
    \/ chan[p] = "nread" /\ Empty /\ writeopen
    \/ chan[p] = "nwrite" /\ Full /\ readopen
    \/ chan[p] = "nread" /\ plock # NoProc /\ pc[plock] \in {"write", "write_sleep"}
    \/ chan[p] = "nwrite" /\ plock # NoProc /\ pc[plock] = "copy"
    \/ chan[p] = "nread" /\ \E q \in Proc : killed[q] /\ pc[q] \notin PipePC
=============================================================================
