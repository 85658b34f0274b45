---------------------------- MODULE PipeProofs -----------------------------
(***************************************************************************)
(* Lemmas about the pipe under the file table: the steps that change no    *)
(* reference count, the sleepers, and the ring buffer as a FIFO channel.   *)
(*                                                                         *)
(* FInv is the inductive invariant, of which FileTableProofs shows that it *)
(* holds.  Its two halves need each other: that a reader has its end of    *)
(* the pipe open follows from the reference counts, and that a new pipe    *)
(* has no users follows from where the processes are.                      *)
(***************************************************************************)
EXTENDS FileTable, TLAPS

----------------------------------------------------------------------------
\* Arithmetic of the two counters

\* A multiple of b does not change the remainder.
LEMMA ModShift ==
  ASSUME NEW x \in Int, NEW k \in Int, NEW b \in Nat \ {0}
  PROVE (x + k * b) % b = x % b
<1> DEFINE q == x \div b
           m == x % b
<1>1. q \in Int /\ m \in Int /\ 0 <= m /\ m < b /\ x = b * q + m
  OBVIOUS
<1> HIDE DEF q, m
<1>2. x + k * b = (q + k) * b + m
  BY <1>1
<1>3. ((q + k) * b + m) % b = m
  BY <1>1
<1>4. QED
  BY <1>2, <1>3 DEF m

\* The counters wrap at a multiple of the buffer's size, so that wrapping does not
\* change the slot.
LEMMA WordSlot ==
  ASSUME NEW x \in Nat, x < 2 * WORD
  PROVE (x % WORD) % PIPESIZE = x % PIPESIZE
<1>1. PIPESIZE \in Nat \ {0} /\ WORD \in Nat \ {0} /\ WORD % PIPESIZE = 0
  BY SizeAssumption
<1>2. CASE x < WORD
  BY <1>1, <1>2
<1>3. CASE x >= WORD
  <2> DEFINE k == WORD \div PIPESIZE
  <2>1. k \in Int /\ WORD = PIPESIZE * k
    BY <1>1
  <2> HIDE DEF k
  <2>2. x % WORD = x - WORD
    BY <1>1, <1>3
  <2>3. x - WORD = x + (-k) * PIPESIZE
    BY <1>1, <2>1
  <2>4. PICK l \in Int : l = -k
    BY <2>1
  <2>5. x \in Int
    OBVIOUS
  <2>6. (x + l * PIPESIZE) % PIPESIZE = x % PIPESIZE
    BY <1>1, <2>5, ModShift, Zenon
  <2>7. QED
    BY <2>2, <2>3, <2>4, <2>6
<1>4. QED
  BY <1>1, <1>2, <1>3

\* Positions less than the buffer's size apart have different slots.
LEMMA SlotsDiffer ==
  ASSUME NEW i \in Nat, NEW j \in Nat, i < j, j - i < PIPESIZE
  PROVE i % PIPESIZE # j % PIPESIZE
<1> DEFINE P == PIPESIZE
<1>1. P \in Nat \ {0}
  BY SizeAssumption
<1> HIDE DEF P
<1> SUFFICES ASSUME i % P = j % P PROVE FALSE
  BY DEF P
<1>2. PICK a \in Int, b \in Int : i = P * a + (i % P) /\ j = P * b + (j % P)
  <2>1. i = P * (i \div P) + (i % P) /\ j = P * (j \div P) + (j % P)
    BY <1>1
  <2>2. i \div P \in Int /\ j \div P \in Int
    BY <1>1
  <2>3. QED
    BY <2>1, <2>2
<1>3. j - i = P * (b - a)
  BY <1>1, <1>2
<1>4. CASE b - a <= 0
  BY <1>1, <1>3, <1>4
<1>5. CASE b - a >= 1
  <2>1. P * (b - a) >= P
    BY <1>1, <1>5
  <2>2. QED
    BY <1>1, <1>3, <2>1 DEF P
<1>6. QED
  BY <1>4, <1>5

\* How far one counter is ahead of the other.
LEMMA Distance ==
  ASSUME NEW r \in 0 .. WORD - 1, NEW w \in 0 .. WORD - 1
  PROVE (w - r + WORD) % WORD = IF r <= w THEN w - r ELSE w - r + WORD
<1>1. WORD \in Nat \ {0}
  BY SizeAssumption
<1>2. CASE r <= w
  <2>1. /\ w - r + WORD \in Nat /\ w - r + WORD < 2 * WORD
        /\ WORD <= w - r + WORD
    BY <1>1, <1>2
  <2>2. (w - r + WORD) % WORD = w - r + WORD - WORD
    BY <1>1, <2>1
  <2>3. QED
    BY <1>1, <1>2, <2>2
<1>3. CASE r > w
  <2>1. w - r + WORD \in Nat /\ w - r + WORD < WORD
    BY <1>1, <1>3
  <2>2. (w - r + WORD) % WORD = w - r + WORD
    BY <1>1, <2>1
  <2>3. QED
    BY <1>1, <1>3, <2>2
<1>4. QED
  BY <1>1, <1>2, <1>3

\* Where a counter goes that is advanced, with the wrap.
LEMMA Advance ==
  ASSUME NEW r \in 0 .. WORD - 1, NEW n \in 0 .. WORD - 1
  PROVE (r + n) % WORD = IF r + n < WORD THEN r + n ELSE r + n - WORD
<1>1. WORD \in Nat \ {0}
  BY SizeAssumption
<1>2. CASE r + n < WORD
  BY <1>1, <1>2
<1>3. CASE r + n >= WORD
  BY <1>1, <1>3
<1>4. QED
  BY <1>1, <1>2, <1>3

\* The number of bytes in the pipe, and what the two tests make of it.
LEMMA UnreadValue ==
  ASSUME nread \in 0 .. WORD - 1, nwrite \in 0 .. WORD - 1
  PROVE /\ Unread = IF nread <= nwrite THEN nwrite - nread ELSE nwrite - nread + WORD
        /\ Unread \in Nat
        /\ Empty <=> Unread = 0
        /\ Full <=> Unread = PIPESIZE
<1>1. /\ WORD \in Nat \ {0} /\ PIPESIZE \in Nat \ {0} /\ PIPESIZE < WORD
      /\ PIPESIZE \in 0 .. WORD - 1
  BY SizeAssumption
<1>2. Unread = IF nread <= nwrite THEN nwrite - nread ELSE nwrite - nread + WORD
  BY Distance DEF Unread
<1>3. (nread + PIPESIZE) % WORD = IF nread + PIPESIZE < WORD THEN nread + PIPESIZE
                                                             ELSE nread + PIPESIZE - WORD
  BY <1>1, Advance
<1>4. QED
  BY <1>1, <1>2, <1>3 DEF Empty, Full

\* A byte written.
LEMMA OneMore ==
  ASSUME NEW r \in 0 .. WORD - 1, NEW w \in 0 .. WORD - 1, (w - r + WORD) % WORD < PIPESIZE
  PROVE /\ ((w + 1) % WORD) \in 0 .. WORD - 1
        /\ (((w + 1) % WORD) - r + WORD) % WORD = ((w - r + WORD) % WORD) + 1
<1>1. WORD \in Nat \ {0} /\ PIPESIZE \in Nat \ {0} /\ PIPESIZE < WORD /\ 1 \in 0 .. WORD - 1
  BY SizeAssumption
<1>2. PICK v \in 0 .. WORD - 1 : v = (w + 1) % WORD /\ v = IF w + 1 < WORD THEN w + 1 ELSE 0
  <2>1. (w + 1) % WORD = IF w + 1 < WORD THEN w + 1 ELSE w + 1 - WORD
    BY <1>1, Advance
  <2>2. QED
    BY <1>1, <2>1
<1>3. (v - r + WORD) % WORD = IF r <= v THEN v - r ELSE v - r + WORD
  BY Distance
<1>4. (w - r + WORD) % WORD = IF r <= w THEN w - r ELSE w - r + WORD
  BY Distance
<1>5. QED
  BY <1>1, <1>2, <1>3, <1>4

\* A byte read.
LEMMA OneLess ==
  ASSUME NEW r \in 0 .. WORD - 1, NEW w \in 0 .. WORD - 1, r # w
  PROVE /\ ((r + 1) % WORD) \in 0 .. WORD - 1
        /\ (w - ((r + 1) % WORD) + WORD) % WORD = ((w - r + WORD) % WORD) - 1
<1>1. WORD \in Nat \ {0} /\ 1 \in 0 .. WORD - 1
  BY SizeAssumption
<1>2. PICK v \in 0 .. WORD - 1 : v = (r + 1) % WORD /\ v = IF r + 1 < WORD THEN r + 1 ELSE 0
  <2>1. (r + 1) % WORD = IF r + 1 < WORD THEN r + 1 ELSE r + 1 - WORD
    BY <1>1, Advance
  <2>2. QED
    BY <1>1, <2>1
<1>3. (w - v + WORD) % WORD = IF v <= w THEN w - v ELSE w - v + WORD
  BY Distance
<1>4. (w - r + WORD) % WORD = IF r <= w THEN w - r ELSE w - r + WORD
  BY Distance
<1>5. QED
  BY <1>1, <1>2, <1>3, <1>4

----------------------------------------------------------------------------
\* The invariant

ProcTypes ==
  /\ state \in [Proc -> {"RUNNABLE", "SLEEPING"}]
  /\ chan \in [Proc -> {"nread", "nwrite", NoChan}]
  /\ killed \in [Proc -> BOOLEAN]
  /\ pc \in [Proc -> PipePC \cup FilePC]
  /\ todo \in [Proc -> {0} \cup Byte]

RingTypes ==
  /\ nread \in 0 .. WORD - 1 /\ nwrite \in 0 .. WORD - 1
  /\ data \in [0 .. PIPESIZE - 1 -> Byte]
  /\ plock \in Proc \cup {NoProc}

FileTypes ==
  /\ ref \in [File -> Int]
  /\ ofile \in [Proc -> [Fd -> File \cup {NULL}]]
  /\ cur \in [Proc -> File \cup {NULL}]
  /\ kid \in [Proc -> Proc \cup {NULL}]
  /\ fdi \in [Proc -> 0 .. NOFILE]

Reading == {"read_acquire", "read", "read_sleep", "copy"}
Writing == {"write_acquire", "write", "write_sleep"}
Holding == {"write", "write_sleep", "read", "read_sleep", "copy"}
Freeing == {"pipeclose", "exit_pipeclose"}

\* Who holds the lock of the pipe.
LockInv == \A p \in Proc : pc[p] \in Holding <=> plock = p

\* Who sleeps, where and on what.
SleepInv ==
  \A p \in Proc : state[p] = "SLEEPING" =>
    \/ chan[p] = "nread" /\ pc[p] = "read_acquire"
    \/ chan[p] = "nwrite" /\ pc[p] = "write_acquire"

\* What was tested before sleep() is still so when it is called.
WaitInv ==
  \A p \in Proc : /\ pc[p] = "write_sleep" => Full /\ readopen
                  /\ pc[p] = "read_sleep" => Empty /\ writeopen

RingInv == Unread <= PIPESIZE

\* A process inside of a call on the pipe has the end that it uses open.
UseInv ==
  \A p \in Proc : /\ pc[p] \in Reading => \E fd \in Fd : ofile[p][fd] = "rf"
                  /\ pc[p] \in Writing => \E fd \in Fd : ofile[p][fd] = "wf"

\* fork has one child, which nobody else makes and which does not run.
KidInv ==
  /\ \A p \in Proc : pc[p] = "fork" => kid[p] \in Proc /\ pc[kid[p]] = "unborn"
  /\ \A p \in Proc : pc[p] # "fork" => kid[p] = NULL /\ fdi[p] = 0
  /\ \A p, q \in Proc : kid[p] = kid[q] /\ kid[p] # NULL => p = q

\* What does not run has the descriptors only that fork has copied.
NewInv ==
  \A q \in Proc, fd \in Fd : pc[q] = "unborn" /\ ofile[q][fd] # NULL =>
    \E p \in Proc : kid[p] = q /\ fd < fdi[p]

\* dup and close are about a file, and dup has its second descriptor already.
CurInv ==
  /\ \A p \in Proc : pc[p] \in {"dup", "close"} \cup Freeing => cur[p] \in File
  /\ \A p \in Proc : pc[p] = "dup" =>
       \E a, b \in Fd : a # b /\ ofile[p][a] = cur[p] /\ ofile[p][b] = cur[p]

\* An end is open until the process that has dropped the last reference has closed it.
Open(f) == ref[f] > 0 \/ \E p \in Proc : pc[p] \in Freeing /\ cur[p] = f

FreeInv ==
  /\ \A p \in Proc : pc[p] \in Freeing => ref[cur[p]] = 0
  /\ \A p, q \in Proc : pc[p] \in Freeing /\ pc[q] \in Freeing /\ cur[p] = cur[q] => p = q

OpenInv ==
  /\ readopen = Open("rf") /\ writeopen = Open("wf")
  /\ exists = (readopen \/ writeopen)

FileInv ==
  /\ FileTypes /\ UseInv /\ KidInv /\ NewInv /\ CurInv /\ FreeInv /\ OpenInv
  /\ RefCounts

PipeInv ==
  /\ RingTypes /\ LockInv /\ SleepInv /\ WaitInv /\ RingInv /\ SleepsForAReason

FInv == ProcTypes /\ FileInv /\ PipeInv

----------------------------------------------------------------------------
\* Steps that leave the reference counts alone

Special == {"unborn", "dup", "close", "fork"} \cup Freeing

\* A process that was not about to change a reference count, and is not after the
\* step, disturbs none.
LEMMA QuietStep ==
  ASSUME FInv, UNCHANGED <<files, flags>>, NEW p \in Proc, NEW l, pc[p] \notin Special, l \notin Special,
         pc' = [pc EXCEPT ![p] = l], UseInv'
  PROVE FileInv'
<1>1. UNCHANGED <<ref, ofile, cur, kid, fdi, panicked, readopen, writeopen, exists>>
  BY DEF files, flags
<1>2. \A q \in Proc : pc'[q] # pc[q] => pc'[q] \notin Special /\ pc[q] \notin Special
  BY DEF FInv, ProcTypes
<1>3. FileTypes'
  BY <1>1 DEF FInv, FileInv, FileTypes
<1>4. KidInv'
  BY <1>1, <1>2 DEF FInv, FileInv, FileTypes, KidInv, Special
<1>5. NewInv'
  BY <1>1, <1>2 DEF FInv, FileInv, NewInv, Special
<1>6. CurInv'
  BY <1>1, <1>2 DEF FInv, FileInv, CurInv, Special
<1>7. FreeInv' /\ OpenInv'
  BY <1>1, <1>2 DEF FInv, FileInv, FreeInv, OpenInv, Open, Special
<1>8. RefCounts'
  <2>1. \A f : Descriptors(f)' = Descriptors(f)
    BY <1>1 DEF Descriptors
  <2>2. \A f : Closing(f)' = Closing(f) /\ Duping(f)' = Duping(f)
    BY <1>1, <1>2 DEF Closing, Duping, Special
  <2>3. QED
    BY <1>1, <2>1, <2>2 DEF FInv, FileInv, RefCounts
<1>9. QED
  BY <1>3, <1>4, <1>5, <1>6, <1>7, <1>8 DEF FileInv

\* read and write check that the descriptor is of the right end.
LEMMA CallStep == ASSUME FInv, NEW p \in Proc, fileread(p) \/ filewrite(p) PROVE FileInv'
<1>1. UNCHANGED <<files, flags>> /\ pc[p] = "user"
  BY DEF fileread, filewrite, Calls, At
<1>2. CASE fileread(p)
  <2>1. (\E fd \in Fd : ofile[p][fd] = "rf") /\ pc' = [pc EXCEPT ![p] = "read_acquire"]
    BY <1>2 DEF fileread, Goto
  <2>2. UseInv'
    BY <1>1, <2>1 DEF FInv, ProcTypes, FileInv, UseInv, files, Reading, Writing
  <2>3. QED
    BY <1>1, <2>1, <2>2, QuietStep, Zenon DEF Special, Freeing
<1>3. CASE filewrite(p)
  <2>1. (\E fd \in Fd : ofile[p][fd] = "wf") /\ pc' = [pc EXCEPT ![p] = "write_acquire"]
    BY <1>3 DEF filewrite, Goto
  <2>2. UseInv'
    BY <1>1, <2>1 DEF FInv, ProcTypes, FileInv, UseInv, files, Reading, Writing
  <2>3. QED
    BY <1>1, <2>1, <2>2, QuietStep, Zenon DEF Special, Freeing
<1>4. QED
  BY <1>2, <1>3

\* Where a step inside of the pipe leads: it stays in its call, or returns from it.
LEMMA PipeMoves ==
  ASSUME ProcTypes, NEW p \in Proc, PipeStep(p)
  PROVE /\ UNCHANGED flags
        /\ \E l \in PipePC \cup {"user"} :
             /\ pc' = [pc EXCEPT ![p] = l]
             /\ l \in Reading => pc[p] \in Reading
             /\ l \in Writing => pc[p] \in Writing
        /\ pc[p] \in PipePC
<1>1. pc = [pc EXCEPT ![p] = pc[p]]
  BY DEF ProcTypes
<1>2. UNCHANGED flags /\ pc[p] \in PipePC
  BY Zenon DEF PipeStep, write_acquire, write_byte, write_wait, write_sleep, write_fail, write_done,
         read_acquire, read_wait, read_sleep, read_fail, read_start, read_byte, read_done,
         lock, return, sleep, At, PipePC
<1>3. CASE write_acquire(p) \/ write_wait(p) \/ write_sleep(p) \/ write_fail(p) \/ write_done(p)
  BY <1>2, <1>3, Zenon DEF write_acquire, write_wait, write_sleep, write_fail, write_done,
                    lock, return, sleep, At, Goto, PipePC, Reading, Writing
<1>4. CASE read_acquire(p) \/ read_wait(p) \/ read_sleep(p) \/ read_fail(p) \/ read_start(p) \/ read_done(p)
  BY <1>2, <1>4 DEF read_acquire, read_wait, read_sleep, read_fail, read_start, read_done,
                    lock, return, sleep, At, Goto, PipePC, Reading, Writing
<1>5. CASE write_byte(p) \/ read_byte(p)
  <2>1. pc' = pc
    BY <1>5 DEF write_byte, read_byte
  <2>2. QED
    BY <1>1, <1>2, <2>1
<1>6. QED
  BY <1>3, <1>4, <1>5 DEF PipeStep

\* A step inside of the pipe leaves the files alone.
LEMMA PipeStepStep ==
  ASSUME FInv, NEW p \in Proc, PipeStep(p), UNCHANGED files PROVE FileInv'
<1>1. PICK l \in PipePC \cup {"user"} :
             /\ pc' = [pc EXCEPT ![p] = l]
             /\ l \in Reading => pc[p] \in Reading
             /\ l \in Writing => pc[p] \in Writing
  BY PipeMoves DEF FInv
<1>2. UNCHANGED flags /\ pc[p] \in PipePC
  BY PipeMoves DEF FInv
<1>3. UseInv'
  <2>1. \A q \in Proc : /\ pc'[q] \in Reading => pc[q] \in Reading
                        /\ pc'[q] \in Writing => pc[q] \in Writing
    BY <1>1 DEF FInv, ProcTypes
  <2>2. QED
    BY <2>1 DEF FInv, FileInv, UseInv, files
<1>4. QED
  BY <1>1, <1>2, <1>3, QuietStep, Zenon DEF Special, Freeing, PipePC

\* exit, its end, and kill.
LEMMA ExitSteps ==
  ASSUME FInv, NEW p \in Proc, exit(p) \/ exit_zombie(p) \/ kill_proc(p) PROVE FileInv'
<1>1. UNCHANGED <<files, flags>>
  BY DEF exit, exit_zombie, kill_proc
<1>2. CASE kill_proc(p)
  <2>1. UNCHANGED pc
    BY <1>2, Zenon DEF kill_proc
  <2>2. UNCHANGED <<ref, ofile, cur, kid, fdi, panicked, readopen, writeopen, exists>>
    BY <1>1 DEF files, flags
  <2>3. FileTypes'
    BY <2>2, Zenon DEF FInv, FileInv, FileTypes
  <2>4. UseInv' /\ KidInv'
    BY <2>1, <2>2, Zenon DEF FInv, FileInv, UseInv, KidInv
  <2>5. NewInv' /\ CurInv'
    BY <2>1, <2>2, Zenon DEF FInv, FileInv, NewInv, CurInv
  <2>6. FreeInv' /\ OpenInv'
    BY <2>1, <2>2, Zenon DEF FInv, FileInv, FreeInv, OpenInv, Open
  <2>7. RefCounts'
    BY <2>1, <2>2, Zenon DEF FInv, FileInv, RefCounts, Descriptors, Closing, Duping
  <2>8. QED
    BY <2>3, <2>4, <2>5, <2>6, <2>7, Zenon DEF FileInv
<1>3. CASE exit(p) \/ exit_zombie(p)
  <2>1. PICK l \in {"exit", "dead"} : pc' = [pc EXCEPT ![p] = l]
    BY <1>3 DEF exit, exit_zombie, Goto
  <2>2. pc[p] \in {"user", "exit"}
    BY <1>3 DEF exit, exit_zombie, At
  <2>3. UseInv'
    BY <1>1, <2>1 DEF FInv, ProcTypes, FileInv, UseInv, files, Reading, Writing
  <2>4. QED
    BY <1>1, <2>1, <2>2, <2>3, QuietStep, Zenon DEF Special, Freeing
<1>4. QED
  BY <1>2, <1>3

\* fork: the child is a process that no fork is making.
LEMMA ForkStep == ASSUME FInv, NEW p \in Proc, fork(p) PROVE FileInv'
<1>1. PICK k \in Proc : /\ pc[k] = "unborn" /\ (\A r \in Proc : kid[r] # k)
                        /\ kid' = [kid EXCEPT ![p] = k]
  BY Zenon DEF fork
<1>2. /\ pc[p] = "user" /\ pc' = [pc EXCEPT ![p] = "fork"]
      /\ UNCHANGED <<ref, ofile, cur, fdi, panicked, readopen, writeopen, exists>>
  BY DEF fork, Calls, At, Goto, flags
<1>3. /\ \A q \in Proc : q # p => pc'[q] = pc[q] /\ kid'[q] = kid[q]
      /\ pc'[p] = "fork" /\ kid'[p] = k /\ k # p /\ kid[p] = NULL
  BY <1>1, <1>2 DEF FInv, ProcTypes, FileInv, FileTypes, KidInv
<1>4. FileTypes'
  BY <1>1, <1>2 DEF FInv, FileInv, FileTypes
<1>5. UseInv'
  BY <1>2, <1>3, SMTT(30) DEF FInv, FileInv, UseInv, Reading, Writing
<1>6. KidInv'
  <2>1. \A q \in Proc : pc[q] = "unborn" => pc'[q] = "unborn"
    BY <1>2, <1>3
  <2>2. \A q \in Proc : pc'[q] = "fork" => kid'[q] \in Proc /\ pc'[kid'[q]] = "unborn"
    BY <1>1, <1>3, <2>1 DEF FInv, FileInv, KidInv
  <2>3. \A q \in Proc : pc'[q] # "fork" => kid'[q] = NULL /\ fdi'[q] = 0
    BY <1>2, <1>3 DEF FInv, FileInv, KidInv
  <2>4. \A q, r \in Proc : kid'[q] = kid'[r] /\ kid'[q] # NULL => q = r
    BY <1>1, <1>3 DEF FInv, FileInv, KidInv
  <2>5. QED
    BY <2>2, <2>3, <2>4 DEF KidInv
<1>7. NewInv'
  <2>1. \A q, r \in Proc : kid[r] = q => kid'[r] = q
    BY <1>3, FileAssumption
  <2>2. QED
    BY <1>2, <1>3, <2>1 DEF FInv, FileInv, NewInv
<1>8. CurInv'
  BY <1>2, <1>3 DEF FInv, FileInv, CurInv, Freeing
<1>9. FreeInv' /\ OpenInv'
  BY <1>2, <1>3 DEF FInv, FileInv, FreeInv, OpenInv, Open, Freeing
<1>10. RefCounts'
  <2>1. \A g : Descriptors(g)' = Descriptors(g)
    BY <1>2 DEF Descriptors
  <2>2. \A g : Closing(g)' = Closing(g) /\ Duping(g)' = Duping(g)
    BY <1>2, <1>3 DEF Closing, Duping
  <2>3. QED
    BY <1>2, <2>1, <2>2 DEF FInv, FileInv, RefCounts
<1>11. QED
  BY <1>4, <1>5, <1>6, <1>7, <1>8, <1>9, <1>10 DEF FileInv

\* fork_run lets the child run, which has all its descriptors.
LEMMA ForkRunStep == ASSUME FInv, NEW p \in Proc, fork_run(p) PROVE FileInv'
<1>1. pc[p] = "fork"
  BY DEF fork_run, At
<1>2. PICK k \in Proc : k = kid[p] /\ pc[k] = "unborn"
  BY <1>1 DEF FInv, FileInv, KidInv
<1>3. /\ pc' = [pc EXCEPT ![p] = "user", ![k] = "user"]
      /\ kid' = [kid EXCEPT ![p] = NULL] /\ fdi' = [fdi EXCEPT ![p] = 0]
      /\ UNCHANGED <<ref, ofile, cur, panicked, readopen, writeopen, exists>>
  BY <1>2 DEF fork_run, flags
<1>4. /\ \A q \in Proc : q # p /\ q # k => pc'[q] = pc[q]
      /\ \A q \in Proc : q # p => kid'[q] = kid[q] /\ fdi'[q] = fdi[q]
      /\ pc'[p] = "user" /\ pc'[k] = "user" /\ kid'[p] = NULL /\ fdi'[p] = 0
  BY <1>3 DEF FInv, ProcTypes, FileInv, FileTypes
<1>5. \A q \in Proc : q # p => kid[q] # k
  BY <1>2, FileAssumption DEF FInv, FileInv, KidInv
<1>6. \A q \in Proc : pc'[q] # pc[q] => pc'[q] = "user" /\ pc[q] \in {"fork", "unborn"}
  BY <1>1, <1>2, <1>4
<1>7. FileTypes'
  BY <1>3, FileAssumption DEF FInv, FileInv, FileTypes
<1>8. UseInv'
  <2>1. \A q \in Proc : pc'[q] \in Reading \cup Writing => pc'[q] = pc[q]
    BY <1>6 DEF Reading, Writing
  <2>2. QED
    BY <1>3, <2>1, Zenon DEF FInv, FileInv, UseInv
<1>9. KidInv'
  <2>1. \A q \in Proc : pc'[q] = "fork" => kid'[q] \in Proc /\ pc'[kid'[q]] = "unborn"
    <3>1. SUFFICES ASSUME NEW q \in Proc, pc'[q] = "fork"
                   PROVE kid'[q] \in Proc /\ pc'[kid'[q]] = "unborn"
      OBVIOUS
    <3>2. q # p /\ pc[q] = "fork" /\ kid'[q] = kid[q]
      BY <1>4, <1>6, <3>1
    <3>3. PICK r \in Proc : r = kid[q] /\ pc[r] = "unborn" /\ r # k
      BY <1>5, <3>2 DEF FInv, FileInv, KidInv
    <3>4. r # p
      BY <1>1, <3>3
    <3>5. QED
      BY <1>4, <3>2, <3>3, <3>4
  <2>2. \A q \in Proc : pc'[q] # "fork" => kid'[q] = NULL /\ fdi'[q] = 0
    <3>1. kid[k] = NULL /\ fdi[k] = 0
      BY <1>2 DEF FInv, FileInv, KidInv
    <3>2. QED
      BY <1>4, <3>1 DEF FInv, FileInv, KidInv
  <2>3. \A q, r \in Proc : kid'[q] = kid'[r] /\ kid'[q] # NULL => q = r
    BY <1>4 DEF FInv, FileInv, KidInv
  <2>4. QED
    BY <2>1, <2>2, <2>3 DEF KidInv
<1>10. NewInv'
  <2>1. SUFFICES ASSUME NEW q \in Proc, NEW fd \in Fd, pc'[q] = "unborn", ofile'[q][fd] # NULL
                 PROVE \E r \in Proc : kid'[r] = q /\ fd < fdi'[r]
    BY DEF NewInv
  <2>2. q # k /\ pc[q] = "unborn" /\ ofile[q][fd] # NULL
    BY <1>3, <1>4, <1>6, <2>1
  <2>3. PICK r \in Proc : kid[r] = q /\ fd < fdi[r]
    BY <2>2 DEF FInv, FileInv, NewInv
  <2>4. r # p
    BY <1>2, <2>2, <2>3
  <2>5. QED
    BY <1>4, <2>3, <2>4
<1>11. CurInv'
  BY <1>3, <1>6, Zenon DEF FInv, FileInv, CurInv, Freeing
<1>12. FreeInv' /\ OpenInv'
  BY <1>3, <1>6, Zenon DEF FInv, FileInv, FreeInv, OpenInv, Open, Freeing
<1>13. RefCounts'
  <2>1. \A g : Descriptors(g)' = Descriptors(g)
    BY <1>3 DEF Descriptors
  <2>2. \A g : Closing(g)' = Closing(g) /\ Duping(g)' = Duping(g)
    BY <1>3, <1>6, Zenon DEF Closing, Duping
  <2>3. QED
    BY <1>3, <2>1, <2>2 DEF FInv, FileInv, RefCounts
<1>14. QED
  BY <1>7, <1>8, <1>9, <1>10, <1>11, <1>12, <1>13 DEF FileInv

\* pipeclose closes the end whose last reference was dropped, and leaves the other.
LEMMA ClosePipeStep == ASSUME FInv, NEW p \in Proc, close_pipe(p) PROVE FileInv'
<1>1. PICK f \in File : f = cur[p] /\ pc[p] \in Freeing
  BY DEF FInv, FileInv, CurInv, close_pipe, At, Freeing
<1>2. PICK l \in {"user", "exit"} : pc' = [pc EXCEPT ![p] = l]
  BY DEF close_pipe, pipeclose, Goto
<1>3. /\ cur' = [cur EXCEPT ![p] = NULL]
      /\ readopen' = (readopen /\ f = "wf") /\ writeopen' = (writeopen /\ f # "wf")
      /\ exists' = (writeopen' \/ readopen')
      /\ UNCHANGED <<ref, ofile, kid, fdi, panicked>>
  BY <1>1, Zenon DEF close_pipe, pipeclose
<1>4. /\ \A q \in Proc : q # p => pc'[q] = pc[q] /\ cur'[q] = cur[q]
      /\ pc'[p] = l /\ cur'[p] = NULL
  BY <1>2, <1>3 DEF FInv, ProcTypes, FileInv, FileTypes
<1>5. FileTypes'
  BY <1>3 DEF FInv, FileInv, FileTypes
<1>6. UseInv'
  BY <1>3, <1>4, Zenon DEF FInv, FileInv, UseInv, Reading, Writing
<1>7. KidInv'
  <2>1. pc[p] \notin {"fork", "unborn"} /\ pc'[p] \notin {"fork", "unborn"}
    BY <1>1, <1>4 DEF Freeing
  <2>2. \A q \in Proc : pc[q] = "unborn" => pc'[q] = "unborn"
    BY <1>4, <2>1
  <2>3. \A q \in Proc : pc[q] = "fork" <=> pc'[q] = "fork"
    BY <1>4, <2>1
  <2>4. QED
    BY <1>3, <2>2, <2>3, Zenon DEF FInv, FileInv, KidInv
<1>8. NewInv'
  BY <1>3, <1>4, SMTT(30) DEF FInv, FileInv, NewInv
<1>9. CurInv'
  BY <1>3, <1>4 DEF FInv, FileInv, CurInv, Freeing
<1>10. FreeInv'
  BY <1>3, <1>4 DEF FInv, FileInv, FreeInv, Freeing
<1>11. OpenInv'
  <2>1. ASSUME NEW g \in File PROVE Open(g)' <=> Open(g) /\ g # f
    <3>1. CASE g # f
      BY <1>1, <1>3, <1>4, <3>1 DEF Open, Freeing
    <3>2. CASE g = f
      BY <1>1, <1>3, <1>4, <3>2 DEF Open, FInv, FileInv, FreeInv, Freeing
    <3>3. QED
      BY <3>1, <3>2
  <2>2. f = "rf" \/ f = "wf"
    BY DEF File
  <2>3. QED
    BY <1>3, <2>1, <2>2, Zenon DEF FInv, FileInv, OpenInv, File, Open
<1>12. RefCounts'
  <2>1. \A g : Descriptors(g)' = Descriptors(g)
    BY <1>3 DEF Descriptors
  <2>2. \A g : Closing(g)' = Closing(g) /\ Duping(g)' = Duping(g)
    BY <1>1, <1>4, Zenon DEF Closing, Duping, Freeing
  <2>3. QED
    BY <1>3, <2>1, <2>2 DEF FInv, FileInv, RefCounts
<1>13. QED
  BY <1>5, <1>6, <1>7, <1>8, <1>9, <1>10, <1>11, <1>12 DEF FileInv

----------------------------------------------------------------------------
\* The sleepers and the lock, in the steps outside of the pipe

\* What may keep a process asleep, the body of SleepsForAReason.
Reason(p) ==
  \/ chan[p] = "nread" /\ Empty /\ writeopen
  \/ chan[p] = "nwrite" /\ Full /\ readopen
  \/ chan[p] = "nread" /\ plock # NoProc /\ pc[plock] \in {"write", "write_sleep"}
  \/ chan[p] = "nwrite" /\ plock # NoProc /\ pc[plock] = "copy"
  \/ chan[p] = "nread" /\ \E q \in Proc : killed[q] /\ pc[q] \notin PipePC

\* A step that has nothing to do with the pipe: who moves was in no call on it, and
\* does not get its lock.
LEMMA FileFrame ==
  ASSUME FInv, UNCHANGED <<counters, flags, plock, sleepers>>,
         pc' \in [Proc -> PipePC \cup FilePC], todo' \in [Proc -> {0} \cup Byte],
         \A q \in Proc : pc'[q] # pc[q] => /\ pc[q] \notin PipePC /\ pc'[q] \notin Holding
                                           /\ killed[q] => pc'[q] \notin PipePC
  PROVE ProcTypes' /\ PipeInv'
<1>1. UNCHANGED <<nread, nwrite, data, readopen, writeopen, exists, plock, state, chan, killed>>
  BY DEF counters, flags, sleepers
<1>2. Holding \subseteq PipePC
  BY DEF Holding, PipePC
<1>3. \A q \in Proc : pc[q] \in PipePC => pc'[q] = pc[q]
  OBVIOUS
<1>4. ProcTypes'
  BY <1>1 DEF FInv, ProcTypes
<1>5. RingTypes' /\ RingInv'
  BY <1>1 DEF FInv, PipeInv, RingTypes, RingInv, Unread
<1>6. LockInv'
  BY <1>1, <1>2, <1>3 DEF FInv, PipeInv, LockInv
<1>7. SleepInv'
  BY <1>1, <1>3 DEF FInv, PipeInv, SleepInv, PipePC
<1>8. WaitInv'
  <2>1. \A q \in Proc : pc'[q] \in {"write_sleep", "read_sleep"} => pc[q] = pc'[q]
    BY DEF Holding
  <2>2. QED
    BY <1>1, <2>1 DEF FInv, PipeInv, WaitInv, Full, Empty
<1>9. SleepsForAReason'
  <2>1. SUFFICES ASSUME NEW q \in Proc, state'[q] = "SLEEPING" PROVE Reason(q)'
    BY Zenon DEF SleepsForAReason, Reason
  <2>2. Empty' = Empty /\ Full' = Full
    BY <1>1, Zenon DEF Empty, Full
  <2>3. plock # NoProc => pc'[plock] = pc[plock]
    BY <1>2, <1>3 DEF FInv, PipeInv, RingTypes, LockInv
  <2>4. \A r \in Proc : killed[r] /\ pc[r] \notin PipePC => pc'[r] \notin PipePC
    OBVIOUS
  <2>5. Reason(q)
    BY <1>1, <2>1 DEF FInv, PipeInv, SleepsForAReason, Reason
  <2>6. QED
    BY <1>1, <2>2, <2>3, <2>4, <2>5 DEF Reason
<1>10. QED
  BY <1>4, <1>5, <1>6, <1>7, <1>8, <1>9 DEF PipeInv

\* The steps to which that applies.
LEMMA FrameSteps ==
  ASSUME FInv, NEW p \in Proc,
         \/ fileread(p) \/ filewrite(p) \/ sys_dup(p) \/ dup_count(p) \/ sys_close(p) \/ close_count(p)
         \/ fork(p) \/ fork_fd(p) \/ fork_run(p) \/ exit(p) \/ exit_close(p) \/ exit_zombie(p)
  PROVE ProcTypes' /\ PipeInv'
<1> DEFINE Moved == \A q \in Proc : pc'[q] # pc[q] => /\ pc[q] \notin PipePC /\ pc'[q] \notin Holding
                                                      /\ killed[q] => pc'[q] \notin PipePC
<1>1. CASE fileread(p) \/ filewrite(p)
  <2>1. UNCHANGED <<counters, flags, plock, sleepers>>
    BY <1>1, Zenon DEF fileread, filewrite
  <2>2. /\ pc[p] = "user" /\ ~killed[p]
        /\ \E l \in {"read_acquire", "write_acquire"} : pc' = [pc EXCEPT ![p] = l]
    BY <1>1, Zenon DEF fileread, filewrite, Calls, At, Goto
  <2>3. pc' \in [Proc -> PipePC \cup FilePC]
    BY <2>2 DEF FInv, ProcTypes, PipePC
  <2>4. todo' \in [Proc -> {0} \cup Byte]
    <3>1. PICK n \in Sizes : todo' = [todo EXCEPT ![p] = n]
      BY <1>1, Zenon DEF fileread, filewrite
    <3>2. n \in {0} \cup Byte
      <4>1. n \in Nat
        BY CallAssumption
      <4>2. n = 0 \/ n \in 1 .. n
        BY <4>1
      <4>3. QED
        BY <4>2, SMTT(30) DEF Byte
    <3>3. QED
      BY <3>1, <3>2 DEF FInv, ProcTypes
  <2>5. Moved
    BY <2>2 DEF FInv, ProcTypes, PipePC, Holding
  <2>6. QED
    BY <2>1, <2>3, <2>4, <2>5, FileFrame, Zenon
<1>2. CASE \/ sys_dup(p) \/ dup_count(p) \/ sys_close(p) \/ close_count(p)
           \/ fork(p) \/ exit(p) \/ exit_close(p) \/ exit_zombie(p)
  <2>1. UNCHANGED <<counters, flags, plock, sleepers, todo>>
    BY <1>2, Zenon DEF sys_dup, dup_count, sys_close, close_count, fork, exit, exit_close, exit_zombie
  <2>2. pc[p] \in {"user", "dup", "close", "exit"}
    BY <1>2, Zenon DEF sys_dup, dup_count, sys_close, close_count, fork, exit, exit_close, exit_zombie, Calls, At
  <2>3. PICK l \in FilePC : pc' = [pc EXCEPT ![p] = l]
    BY <1>2, Zenon DEF sys_dup, dup_count, sys_close, close_count, fork, exit, exit_close, exit_zombie,
                fileclose, Goto, FilePC
  <2>4. pc' \in [Proc -> PipePC \cup FilePC] /\ todo' \in [Proc -> {0} \cup Byte]
    BY <2>1, <2>3 DEF FInv, ProcTypes
  <2>5. l \notin PipePC /\ l \notin Holding
    BY DEF PipePC, FilePC, Holding
  <2>6. Moved
    BY <2>2, <2>3, <2>5 DEF FInv, ProcTypes, PipePC
  <2>7. QED
    BY <2>1, <2>4, <2>6, FileFrame, Zenon
<1>3. CASE fork_fd(p)
  <2>1. UNCHANGED <<counters, flags, plock, sleepers, pc, todo>>
    BY <1>3 DEF fork_fd, pipevars
  <2>2. pc' \in [Proc -> PipePC \cup FilePC] /\ todo' \in [Proc -> {0} \cup Byte] /\ Moved
    BY <2>1 DEF FInv, ProcTypes
  <2>3. QED
    BY <2>1, <2>2, FileFrame
<1>4. CASE fork_run(p)
  <2>1. UNCHANGED <<counters, flags, plock, sleepers, todo>> /\ pc[p] = "fork"
    BY <1>4 DEF fork_run, At
  <2>2. PICK k \in Proc : k = kid[p] /\ pc[k] = "unborn"
    BY <2>1, Zenon DEF FInv, FileInv, KidInv
  <2>3. pc' = [pc EXCEPT ![p] = "user", ![k] = "user"]
    BY <1>4, <2>2 DEF fork_run
  <2>4. pc' \in [Proc -> PipePC \cup FilePC] /\ todo' \in [Proc -> {0} \cup Byte]
    BY <2>1, <2>3 DEF FInv, ProcTypes, FilePC
  <2>5. Moved
    BY <2>1, <2>2, <2>3, Zenon DEF FInv, ProcTypes, PipePC, Holding
  <2>6. QED
    BY <2>1, <2>4, <2>5, FileFrame, Zenon
<1>5. QED
  BY <1>1, <1>2, <1>3, <1>4

\* kill marks a process and wakes it.
LEMMA KillFrame == ASSUME FInv, NEW p \in Proc, kill_proc(p) PROVE ProcTypes' /\ PipeInv'
<1>1. /\ UNCHANGED <<nread, nwrite, data, readopen, writeopen, exists, plock, pc, todo, chan>>
      /\ killed' = [killed EXCEPT ![p] = TRUE]
      /\ state' = [state EXCEPT ![p] = IF @ = "SLEEPING" THEN "RUNNABLE" ELSE @]
  BY DEF kill_proc, kill, counters, flags
<1>2. /\ \A q \in Proc : state'[q] = "SLEEPING" => state[q] = "SLEEPING"
      /\ \A q \in Proc : killed[q] => killed'[q]
  BY <1>1 DEF FInv, ProcTypes
<1>3. ProcTypes'
  BY <1>1 DEF FInv, ProcTypes
<1>4. RingTypes' /\ RingInv'
  BY <1>1 DEF FInv, PipeInv, RingTypes, RingInv, Unread
<1>5. LockInv' /\ SleepInv'
  BY <1>1, <1>2 DEF FInv, PipeInv, LockInv, SleepInv
<1>6. WaitInv'
  BY <1>1 DEF FInv, PipeInv, WaitInv, Full, Empty
<1>7. SleepsForAReason'
  <2>1. Empty' = Empty /\ Full' = Full
    BY <1>1 DEF Empty, Full
  <2>2. ASSUME NEW q \in Proc, Reason(q) PROVE Reason(q)'
    BY <1>1, <1>2, <2>1, <2>2, Zenon DEF Reason
  <2>3. QED
    BY <1>2, <2>2, Zenon DEF FInv, PipeInv, SleepsForAReason, Reason
<1>8. QED
  BY <1>3, <1>4, <1>5, <1>6, <1>7 DEF PipeInv

\* sys_pipe: nobody is in a call on the last pipe.
LEMMA MakePipeFrame ==
  ASSUME FInv, NEW p \in Proc, sys_pipe(p), \A q \in Proc : pc[q] \notin PipePC
  PROVE ProcTypes' /\ PipeInv'
<1>1. \A q \in Proc : pc[q] \notin PipePC
  BY Zenon
<1>2. /\ UNCHANGED <<plock, pc, todo, state, chan, killed>>
      /\ nread' = 0 /\ nwrite' = 0 /\ data' = [i \in 0 .. PIPESIZE - 1 |-> 1]
  BY DEF sys_pipe, pipealloc, sleepers
<1>3. ProcTypes'
  BY <1>2 DEF FInv, ProcTypes
<1>4. RingTypes'
  BY <1>2, SizeAssumption DEF FInv, PipeInv, RingTypes, Byte
<1>5. RingInv'
  <2>1. (0 - 0 + WORD) % WORD = 0
    BY SizeAssumption
  <2>2. QED
    BY <1>2, <2>1, SizeAssumption DEF RingInv, Unread
<1>6. \A q \in Proc : pc'[q] \notin PipePC /\ state'[q] # "SLEEPING"
  BY <1>1, <1>2 DEF FInv, PipeInv, SleepInv, PipePC
<1>7. LockInv'
  BY <1>2 DEF FInv, PipeInv, LockInv
<1>8. SleepInv' /\ WaitInv' /\ SleepsForAReason'
  BY <1>6, Zenon DEF SleepInv, WaitInv, SleepsForAReason, PipePC
<1>9. QED
  BY <1>3, <1>4, <1>5, <1>7, <1>8 DEF PipeInv

\* close_pipe: nobody holds the lock, and the sleepers that waited for the end that
\* is closed are woken.
LEMMA ClosePipeFrame == ASSUME FInv, NEW p \in Proc, close_pipe(p) PROVE ProcTypes' /\ PipeInv'
<1>1. PICK l \in {"user", "exit"} : pc' = [pc EXCEPT ![p] = l]
  BY DEF close_pipe, pipeclose, Goto
<1>2. /\ UNCHANGED <<nread, nwrite, data, plock, chan, killed, todo>>
      /\ plock = NoProc /\ pc[p] \in Freeing
      /\ state' = wakeup1(state, IF cur[p] = "wf" THEN "nread" ELSE "nwrite")
  BY Zenon DEF close_pipe, pipeclose, close_wakes, At, counters, Freeing
<1>3. /\ writeopen' = (writeopen /\ ~(cur[p] = "wf"))
      /\ readopen' = (readopen /\ cur[p] = "wf")
  BY Zenon DEF close_pipe, pipeclose
<1>4. \A q \in Proc : pc'[q] # pc[q] => pc[q] \notin PipePC /\ pc'[q] \notin PipePC
  BY <1>1, <1>2 DEF FInv, ProcTypes, Freeing, PipePC
<1>5. \A q \in Proc : state'[q] = "SLEEPING" =>
        state[q] = "SLEEPING" /\ chan[q] # (IF cur[p] = "wf" THEN "nread" ELSE "nwrite")
  BY <1>2, Zenon DEF wakeup1
<1>6. ProcTypes'
  BY <1>1, <1>2 DEF FInv, ProcTypes, wakeup1, FilePC
<1>7. RingTypes' /\ RingInv'
  BY <1>2, Zenon DEF FInv, PipeInv, RingTypes, RingInv, Unread
<1>8. \A q \in Proc : pc[q] \notin Holding
  BY <1>2, NoneAssumption, Zenon DEF FInv, PipeInv, LockInv
<1>9. \A q \in Proc : pc'[q] \notin Holding
  BY <1>4, <1>8 DEF Holding, PipePC
<1>10. LockInv' /\ WaitInv'
  BY <1>2, <1>9, NoneAssumption, SMTT(30) DEF LockInv, WaitInv, Holding
<1>11. SleepInv'
  BY <1>2, <1>4, <1>5, Zenon DEF FInv, PipeInv, SleepInv, PipePC
<1>12. SleepsForAReason'
  <2>1. Empty' = Empty /\ Full' = Full
    BY <1>2 DEF Empty, Full
  <2>2. SUFFICES ASSUME NEW q \in Proc, state'[q] = "SLEEPING" PROVE Reason(q)'
    BY Zenon DEF SleepsForAReason, Reason
  <2>3. Reason(q)
    BY <1>5, <2>2, Zenon DEF FInv, PipeInv, SleepsForAReason, Reason
  <2>4. \A r \in Proc : killed[r] /\ pc[r] \notin PipePC => killed'[r] /\ pc'[r] \notin PipePC
    BY <1>2, <1>4, Zenon
  <2>5. CASE cur[p] = "wf"
    <3>1. chan[q] = "nwrite" /\ (readopen => readopen')
      BY <1>3, <1>5, <2>2, <2>3, <2>5, Zenon DEF Reason
    <3>2. QED
      BY <1>2, <2>1, <2>3, <3>1, Zenon DEF Reason
  <2>6. CASE cur[p] # "wf"
    <3>1. chan[q] = "nread" /\ (writeopen => writeopen')
      BY <1>3, <1>5, <2>2, <2>3, <2>6, Zenon DEF Reason
    <3>2. QED
      BY <1>2, <2>1, <2>3, <2>4, <3>1, Zenon DEF Reason
  <2>7. QED
    BY <2>5, <2>6
<1>13. QED
  BY <1>6, <1>7, <1>10, <1>11, <1>12 DEF PipeInv

----------------------------------------------------------------------------
\* The steps inside of the pipe

\* What a wakeup of w and a sleep on c leave asleep.
LEMMA Woken ==
  ASSUME ProcTypes, NEW w
  PROVE /\ wakeup1(state, w) \in [Proc -> {"RUNNABLE", "SLEEPING"}]
        /\ \A q \in Proc : wakeup1(state, w)[q] = "SLEEPING" => state[q] = "SLEEPING" /\ chan[q] # w
  BY DEF ProcTypes, wakeup1

\* acquire: the lock was free.
LEMMA LockFrame ==
  ASSUME FInv, NEW p \in Proc, write_acquire(p) \/ read_acquire(p)
  PROVE ProcTypes' /\ PipeInv'
<1>1. PICK l \in {"write", "read"} : pc' = [pc EXCEPT ![p] = l]
  BY DEF write_acquire, read_acquire, lock, Goto
<1>2. /\ UNCHANGED <<nread, nwrite, data, readopen, writeopen, state, killed, todo>>
      /\ plock = NoProc /\ plock' = p /\ chan' = [chan EXCEPT ![p] = NoChan]
      /\ state[p] = "RUNNABLE" /\ pc[p] \in PipePC
  BY Zenon DEF write_acquire, read_acquire, lock, At, counters, flags, PipePC
<1>3. /\ \A q \in Proc : q # p => pc'[q] = pc[q] /\ chan'[q] = chan[q]
      /\ pc'[p] = l /\ l \in PipePC /\ l \in Holding
  BY <1>1, <1>2 DEF FInv, ProcTypes, PipePC, Holding
<1>4. ProcTypes'
  BY <1>1, <1>2, <1>3 DEF FInv, ProcTypes
<1>5. RingTypes' /\ RingInv'
  BY <1>2 DEF FInv, PipeInv, RingTypes, RingInv, Unread
<1>6. \A q \in Proc : pc[q] \notin Holding
  BY <1>2, NoneAssumption, Zenon DEF FInv, PipeInv, LockInv
<1>7. LockInv'
  BY <1>2, <1>3, <1>6, Zenon DEF LockInv
<1>8. SleepInv'
  BY <1>2, <1>3, Zenon DEF FInv, PipeInv, SleepInv
<1>9. WaitInv'
  BY <1>1, <1>3, <1>6, Zenon DEF WaitInv, Holding
<1>10. SleepsForAReason'
  <2>1. Empty' = Empty /\ Full' = Full
    BY <1>2, Zenon DEF Empty, Full
  <2>2. SUFFICES ASSUME NEW q \in Proc, state'[q] = "SLEEPING" PROVE Reason(q)'
    BY Zenon DEF SleepsForAReason, Reason
  <2>3. Reason(q) /\ q # p
    BY <1>2, <2>2, Zenon DEF FInv, PipeInv, SleepsForAReason, Reason
  <2>4. \A r \in Proc : killed[r] /\ pc[r] \notin PipePC => killed'[r] /\ pc'[r] \notin PipePC
    BY <1>2, <1>3
  <2>5. QED
    BY <1>2, <1>3, <2>1, <2>3, <2>4, Zenon DEF Reason
<1>11. QED
  BY <1>4, <1>5, <1>7, <1>8, <1>9, <1>10 DEF PipeInv

\* The tests with the lock held, before sleep() or the copy.
LEMMA TestFrame ==
  ASSUME FInv, NEW p \in Proc, write_wait(p) \/ read_wait(p) \/ read_start(p)
  PROVE ProcTypes' /\ PipeInv'
<1>1. PICK l \in {"write_sleep", "read_sleep", "copy"} :
        /\ pc' = [pc EXCEPT ![p] = l]
        /\ l = "write_sleep" <=> pc[p] = "write"
        /\ l = "write_sleep" => Full /\ readopen
        /\ l = "read_sleep" => Empty /\ writeopen
        /\ pc[p] \in {"write", "read"}
  BY Zenon DEF write_wait, read_wait, read_start, Goto, At
<1>2. /\ UNCHANGED <<nread, nwrite, data, readopen, writeopen, plock, state, chan, killed, todo>>
      /\ state[p] = "RUNNABLE"
  BY Zenon DEF write_wait, read_wait, read_start, At, counters, flags, sleepers
<1>3. /\ \A q \in Proc : q # p => pc'[q] = pc[q]
      /\ pc'[p] = l /\ l \in PipePC /\ l \in Holding /\ pc[p] \in PipePC /\ pc[p] \in Holding
  BY <1>1 DEF FInv, ProcTypes, PipePC, Holding
<1>4. ProcTypes'
  BY <1>1, <1>2, <1>3 DEF FInv, ProcTypes
<1>5. RingTypes' /\ RingInv'
  BY <1>2 DEF FInv, PipeInv, RingTypes, RingInv, Unread
<1>6. plock = p
  BY <1>3, Zenon DEF FInv, PipeInv, LockInv
<1>7. LockInv'
  BY <1>2, <1>3, <1>6, Zenon DEF FInv, PipeInv, LockInv
<1>8. SleepInv'
  BY <1>2, <1>3, Zenon DEF FInv, PipeInv, SleepInv
<1>9. Empty' = Empty /\ Full' = Full
  BY <1>2 DEF Empty, Full
<1>10. WaitInv'
  BY <1>1, <1>2, <1>3, <1>9, Zenon DEF FInv, PipeInv, WaitInv
<1>11. SleepsForAReason'
  <2>2. SUFFICES ASSUME NEW q \in Proc, state'[q] = "SLEEPING" PROVE Reason(q)'
    BY Zenon DEF SleepsForAReason, Reason
  <2>3. Reason(q) /\ q # p
    BY <1>2, <2>2, Zenon DEF FInv, PipeInv, SleepsForAReason, Reason
  <2>4. \A r \in Proc : killed[r] /\ pc[r] \notin PipePC => killed'[r] /\ pc'[r] \notin PipePC
    BY <1>2, <1>3, Zenon
  <2>5. QED
    BY <1>1, <1>2, <1>3, <1>6, <1>9, <2>3, <2>4, Zenon DEF Reason
<1>12. QED
  BY <1>4, <1>5, <1>7, <1>8, <1>10, <1>11 DEF PipeInv

\* sleep(): what the process found is still so, and so is what others wait for.
LEMMA SleepFrame ==
  ASSUME FInv, NEW p \in Proc, write_sleep(p) \/ read_sleep(p)
  PROVE ProcTypes' /\ PipeInv'
<1>1. PICK w \in {"nread", NoChan}, c \in {"nread", "nwrite"} :
        /\ state' = fall_asleep(wakeup1(state, w), p)
        /\ chan' = [chan EXCEPT ![p] = c]
        /\ \/ pc[p] = "write_sleep" /\ w = "nread" /\ c = "nwrite" /\ pc' = [pc EXCEPT ![p] = "write_acquire"]
           \/ pc[p] = "read_sleep" /\ w = NoChan /\ c = "nread" /\ pc' = [pc EXCEPT ![p] = "read_acquire"]
  BY DEF write_sleep, read_sleep, sleep, At, Goto
<1>2. /\ UNCHANGED <<nread, nwrite, data, readopen, writeopen, killed, todo>>
      /\ plock' = NoProc
  BY DEF write_sleep, read_sleep, sleep, counters, flags
<1>3. /\ wakeup1(state, w) \in [Proc -> {"RUNNABLE", "SLEEPING"}]
      /\ \A q \in Proc : wakeup1(state, w)[q] = "SLEEPING" => state[q] = "SLEEPING" /\ chan[q] # w
  BY Woken, Zenon DEF FInv
<1>4. /\ state' \in [Proc -> {"RUNNABLE", "SLEEPING"}]
      /\ \A q \in Proc : q # p /\ state'[q] = "SLEEPING" => state[q] = "SLEEPING" /\ chan[q] # w
  BY <1>1, <1>3 DEF fall_asleep
<1>5. /\ \A q \in Proc : q # p => pc'[q] = pc[q] /\ chan'[q] = chan[q]
      /\ pc[p] \in PipePC /\ pc'[p] \in PipePC /\ pc[p] \in Holding /\ pc'[p] \notin Holding
      /\ chan'[p] = c
  BY <1>1 DEF FInv, ProcTypes, PipePC, Holding
<1>6. ProcTypes'
  BY <1>1, <1>2, <1>4, Zenon DEF FInv, ProcTypes, PipePC
<1>7. RingTypes' /\ RingInv'
  BY <1>2 DEF FInv, PipeInv, RingTypes, RingInv, Unread
<1>8. plock = p
  BY <1>5, Zenon DEF FInv, PipeInv, LockInv
<1>9. \A q \in Proc : pc'[q] \notin Holding
  BY <1>5, <1>8, SMTT(30) DEF FInv, PipeInv, LockInv
<1>10. LockInv' /\ WaitInv'
  BY <1>2, <1>9, NoneAssumption DEF LockInv, WaitInv, Holding
<1>11. SleepInv'
  <2>1. \/ chan'[p] = "nread" /\ pc'[p] = "read_acquire"
        \/ chan'[p] = "nwrite" /\ pc'[p] = "write_acquire"
    BY <1>1, <1>5 DEF FInv, ProcTypes
  <2>2. QED
    BY <1>4, <1>5, <2>1, Zenon DEF FInv, PipeInv, SleepInv
<1>12. SleepsForAReason'
  <2>1. Empty' = Empty /\ Full' = Full
    BY <1>2 DEF Empty, Full
  <2>2. /\ pc[p] = "write_sleep" => Full /\ readopen
        /\ pc[p] = "read_sleep" => Empty /\ writeopen
    BY DEF FInv, PipeInv, WaitInv
  <2>3. SUFFICES ASSUME NEW q \in Proc, state'[q] = "SLEEPING" PROVE Reason(q)'
    BY Zenon DEF SleepsForAReason, Reason
  <2>4. CASE q = p
    BY <1>1, <1>2, <1>5, <2>1, <2>2, <2>4, Zenon DEF Reason
  <2>5. CASE q # p
    <3>1. Reason(q) /\ chan[q] # w /\ chan[q] \in {"nread", "nwrite"}
      BY <1>4, <2>3, <2>5, Zenon DEF FInv, PipeInv, SleepInv, SleepsForAReason, Reason
    <3>2. CASE pc[p] = "write_sleep"
      BY <1>1, <1>2, <1>5, <2>1, <2>2, <2>5, <3>1, <3>2, Zenon DEF Reason
    <3>3. CASE pc[p] = "read_sleep"
      BY <1>1, <1>2, <1>5, <1>8, <2>1, <2>2, <2>5, <3>1, <3>3, Zenon DEF Reason
    <3>4. QED
      BY <1>1, <3>2, <3>3
  <2>6. QED
    BY <2>4, <2>5
<1>13. QED
  BY <1>6, <1>7, <1>10, <1>11, <1>12 DEF PipeInv

\* The returns: each wakes those for whom the call has changed something.
LEMMA ReturnFrame ==
  ASSUME FInv, \A q \in Proc : pc[q] \in Reading => readopen,
         NEW p \in Proc, write_fail(p) \/ write_done(p) \/ read_fail(p) \/ read_done(p)
  PROVE ProcTypes' /\ PipeInv'
<1>1. PICK w \in {"nread", "nwrite", NoChan} :
        /\ state' = wakeup1(state, w)
        /\ \/ pc[p] = "write" /\ w = NoChan /\ Full /\ (~readopen \/ killed[p])
           \/ pc[p] = "write" /\ w = "nread"
           \/ pc[p] = "read" /\ w = NoChan /\ Empty /\ writeopen
           \/ pc[p] = "copy" /\ w = "nwrite"
  BY Zenon DEF write_fail, write_done, read_fail, read_done, return, At
<1>2. /\ UNCHANGED <<nread, nwrite, data, readopen, writeopen, chan, killed>>
      /\ plock' = NoProc /\ pc' = [pc EXCEPT ![p] = "user"] /\ todo' = [todo EXCEPT ![p] = 0]
  BY Zenon DEF write_fail, write_done, read_fail, read_done, return, Goto, counters, flags
<1>3. /\ state' \in [Proc -> {"RUNNABLE", "SLEEPING"}]
      /\ \A q \in Proc : state'[q] = "SLEEPING" => state[q] = "SLEEPING" /\ chan[q] # w
  BY <1>1, Woken, Zenon DEF FInv
<1>4. /\ \A q \in Proc : q # p => pc'[q] = pc[q]
      /\ pc[p] \in PipePC /\ pc[p] \in Holding /\ pc'[p] = "user" /\ pc'[p] \notin Holding
      /\ pc'[p] \notin PipePC /\ pc[p] \notin {"read_acquire", "write_acquire"}
  BY <1>1, <1>2 DEF FInv, ProcTypes, PipePC, Holding
<1>5. ProcTypes'
  BY <1>2, <1>3, Zenon DEF FInv, ProcTypes, FilePC
<1>6. RingTypes' /\ RingInv'
  BY <1>2 DEF FInv, PipeInv, RingTypes, RingInv, Unread
<1>7. plock = p
  BY <1>4, Zenon DEF FInv, PipeInv, LockInv
<1>8. \A q \in Proc : pc'[q] \notin Holding
  BY <1>4, <1>7, Zenon DEF FInv, PipeInv, LockInv
<1>9. LockInv' /\ WaitInv'
  BY <1>2, <1>8, NoneAssumption DEF LockInv, WaitInv, Holding
<1>10. SleepInv'
  BY <1>2, <1>3, <1>4, Zenon DEF FInv, PipeInv, SleepInv
<1>11. SleepsForAReason'
  <2>1. Empty' = Empty /\ Full' = Full
    BY <1>2 DEF Empty, Full
  <2>2. SUFFICES ASSUME NEW q \in Proc, state'[q] = "SLEEPING" PROVE Reason(q)'
    BY Zenon DEF SleepsForAReason, Reason
  <2>3. Reason(q) /\ chan[q] # w
    BY <1>3, <2>2, Zenon DEF FInv, PipeInv, SleepsForAReason, Reason
  <2>4. \A r \in Proc : killed[r] /\ pc[r] \notin PipePC => killed'[r] /\ pc'[r] \notin PipePC
    BY <1>2, <1>4, Zenon
  <2>5. CASE chan[q] = "nwrite"
    BY <1>1, <1>2, <1>7, <2>1, <2>3, <2>5, Zenon DEF Reason
  <2>6. CASE chan[q] = "nread"
    <3>1. readopen
      <4>1. pc[q] \in Reading
        BY <1>3, <2>2, <2>6, Zenon DEF FInv, PipeInv, SleepInv, Reading
      <4>2. QED
        BY <4>1
    <3>2. CASE pc[p] = "write"
      <4>1. killed'[p] /\ pc'[p] \notin PipePC
        BY <1>1, <1>2, <1>4, <2>3, <2>6, <3>1, <3>2, Zenon
      <4>2. QED
        BY <1>2, <2>6, <4>1, Zenon DEF Reason
    <3>3. CASE pc[p] # "write"
      BY <1>1, <1>2, <1>7, <2>1, <2>3, <2>4, <2>6, <3>3, Zenon DEF Reason
    <3>4. QED
      BY <3>2, <3>3
  <2>7. QED
    BY <2>3, <2>5, <2>6, Zenon DEF Reason
<1>12. QED
  BY <1>5, <1>6, <1>9, <1>10, <1>11 DEF PipeInv

\* A byte: who waits for it is woken when the call gives up the lock.
LEMMA ByteFrame ==
  ASSUME FInv, NEW p \in Proc, write_byte(p) \/ read_byte(p)
  PROVE ProcTypes' /\ PipeInv'
<1>1. /\ UNCHANGED <<readopen, writeopen, plock, state, chan, killed, pc>>
      /\ todo' = [todo EXCEPT ![p] = @ - 1] /\ todo[p] > 0
      /\ pc[p] \in Holding
  BY Zenon DEF write_byte, read_byte, flags, sleepers, At, Holding
<1>2. PICK t \in Byte : t = todo[p] /\ t - 1 \in {0} \cup Byte
  <2>1. todo[p] \in Byte
    BY <1>1 DEF FInv, ProcTypes
  <2>2. PICK t : t = todo[p]
    OBVIOUS
  <2>3. CASE t = 1
    BY <2>1, <2>2, <2>3
  <2>4. CASE t # 1
    <3>1. PICK n \in Sizes : t \in 1 .. n
      BY <2>1, <2>2, <2>4 DEF Byte
    <3>2. n \in Nat
      BY CallAssumption
    <3>3. t - 1 \in 1 .. n
      BY <2>4, <3>1, <3>2
    <3>4. QED
      BY <2>1, <2>2, <3>3 DEF Byte
  <2>5. QED
    BY <2>3, <2>4
<1>3. ProcTypes'
  BY <1>1, <1>2 DEF FInv, ProcTypes
<1>4. plock = p
  BY <1>1 DEF FInv, PipeInv, LockInv
<1>5. LockInv' /\ SleepInv'
  BY <1>1, Zenon DEF FInv, PipeInv, LockInv, SleepInv
<1>6. pc[p] \in {"write", "copy"}
  BY Zenon DEF write_byte, read_byte, At
<1>7. WaitInv'
  BY <1>1, <1>4, <1>6 DEF FInv, PipeInv, LockInv, WaitInv, Holding
<1>8. /\ nread \in 0 .. WORD - 1 /\ nwrite \in 0 .. WORD - 1
      /\ data \in [0 .. PIPESIZE - 1 -> Byte] /\ plock \in Proc \cup {NoProc}
      /\ Unread <= PIPESIZE
  BY DEF FInv, PipeInv, RingTypes, RingInv
<1>9. PIPESIZE \in Nat \ {0}
  BY SizeAssumption
<1>10. CASE write_byte(p)
  <2>1. /\ nwrite' = (nwrite + 1) % WORD /\ UNCHANGED nread /\ ~Full
        /\ data' = [data EXCEPT ![nwrite % PIPESIZE] = todo[p]]
    BY <1>10 DEF write_byte
  <2>2. Unread < PIPESIZE /\ Unread \in Nat
    BY <1>8, <1>9, <2>1, UnreadValue
  <2>3. nwrite' \in 0 .. WORD - 1 /\ Unread' = Unread + 1
    BY <1>8, <2>1, <2>2, OneMore, Zenon DEF Unread
  <2>4. RingTypes' /\ RingInv'
    BY <1>1, <1>2, <1>8, <1>9, <2>1, <2>2, <2>3, SMTT(30) DEF RingTypes, RingInv
  <2>5. SleepsForAReason'
    <3>1. SUFFICES ASSUME NEW q \in Proc, state'[q] = "SLEEPING" PROVE Reason(q)'
      BY Zenon DEF SleepsForAReason, Reason
    <3>2. Reason(q)
      BY <1>1, <3>1, Zenon DEF FInv, PipeInv, SleepsForAReason, Reason
    <3>3. pc[p] = "write"
      BY <1>10, Zenon DEF write_byte, At
    <3>4. plock # NoProc /\ chan[q] = "nread"
      BY <1>4, <2>1, <3>2, <3>3, NoneAssumption, Zenon DEF Reason
    <3>5. QED
      BY <1>1, <1>4, <3>3, <3>4, Zenon DEF Reason
  <2>6. QED
    BY <1>3, <1>5, <1>7, <2>4, <2>5 DEF PipeInv
<1>11. CASE read_byte(p)
  <2>1. nread' = (nread + 1) % WORD /\ UNCHANGED <<nwrite, data>> /\ ~Empty
    BY <1>11 DEF read_byte
  <2>2. Unread \in Nat
    BY <1>8, UnreadValue
  <2>3. nread' \in 0 .. WORD - 1 /\ Unread' = Unread - 1
    BY <1>8, <2>1, OneLess, Zenon DEF Unread, Empty
  <2>4. RingTypes' /\ RingInv'
    BY <1>1, <1>8, <1>9, <2>1, <2>2, <2>3, SMTT(30) DEF RingTypes, RingInv
  <2>5. SleepsForAReason'
    <3>1. SUFFICES ASSUME NEW q \in Proc, state'[q] = "SLEEPING" PROVE Reason(q)'
      BY Zenon DEF SleepsForAReason, Reason
    <3>2. Reason(q)
      BY <1>1, <3>1, Zenon DEF FInv, PipeInv, SleepsForAReason, Reason
    <3>3. pc[p] = "copy"
      BY <1>11, Zenon DEF read_byte, At
    <3>4. plock # NoProc
      BY <1>4, NoneAssumption
    <3>5. QED
      BY <1>1, <1>4, <2>1, <3>2, <3>3, <3>4, Zenon DEF Reason
  <2>6. QED
    BY <1>3, <1>5, <1>7, <2>4, <2>5 DEF PipeInv
<1>12. QED
  BY <1>10, <1>11

\* A step inside of the pipe, given that a reader has the read end open.
LEMMA PipeStepFrame ==
  ASSUME FInv, \A q \in Proc : pc[q] \in Reading => readopen, NEW p \in Proc, PipeStep(p)
  PROVE ProcTypes' /\ PipeInv'
  BY LockFrame, TestFrame, SleepFrame, ReturnFrame, ByteFrame, Zenon DEF PipeStep

----------------------------------------------------------------------------
\* The pipe is a bounded FIFO channel

\* A function from 1 .. n is a sequence.
LEMMA FunctionSeq ==
  ASSUME NEW S, NEW n \in Nat, NEW s \in [1 .. n -> S]
  PROVE s \in Seq(S) /\ Len(s) = n
  OBVIOUS

\* Two sequences with the same elements in the same places.
LEMMA SameSeq ==
  ASSUME NEW S, NEW s \in Seq(S), NEW t \in Seq(S), Len(s) = Len(t), \A k \in 1 .. Len(s) : s[k] = t[k]
  PROVE s = t
<1>1. s \in [1 .. Len(s) -> S] /\ t \in [1 .. Len(s) -> S]
  OBVIOUS
<1>2. QED
  BY <1>1

\* The bytes in the pipe, with n of them from position r of the buffer d.
LEMMA RingSeq ==
  ASSUME NEW n \in Nat, NEW r \in Nat, NEW d \in [0 .. PIPESIZE - 1 -> Byte], NEW c,
         c = [k \in 1 .. n |-> d[(r + k - 1) % PIPESIZE]]
  PROVE /\ c \in Seq(Byte) /\ Len(c) = n
        /\ \A k \in 1 .. n : c[k] = d[(r + k - 1) % PIPESIZE]
<1>1. ASSUME NEW k \in 1 .. n PROVE ((r + k - 1) % PIPESIZE) \in 0 .. PIPESIZE - 1
  <2>1. r + k - 1 \in Nat /\ PIPESIZE \in Nat \ {0}
    BY SizeAssumption
  <2>2. QED
    BY <2>1
<1>2. c \in [1 .. n -> Byte]
  BY <1>1, Zenon
<1>3. QED
  BY <1>2, FunctionSeq

\* A byte written is the last of the bytes in the pipe, and overwrites none.
LEMMA WritePuts ==
  ASSUME FInv, NEW p \in Proc, write_byte(p)
  PROVE \E b \in Byte : Len(Contents) < PIPESIZE /\ Contents' = Append(Contents, b)
<1> DEFINE n == Unread
<1>1. /\ nread \in 0 .. WORD - 1 /\ nwrite \in 0 .. WORD - 1 /\ nread \in Nat
      /\ data \in [0 .. PIPESIZE - 1 -> Byte] /\ Unread <= PIPESIZE
      /\ PIPESIZE \in Nat \ {0} /\ WORD \in Nat /\ PIPESIZE < WORD
  BY SizeAssumption DEF FInv, PipeInv, RingTypes, RingInv
<1>2. PICK b \in Byte : b = todo[p]
  BY DEF write_byte, FInv, ProcTypes
<1>3. /\ nwrite' = (nwrite + 1) % WORD /\ nread' = nread /\ ~Full
      /\ data' = [data EXCEPT ![nwrite % PIPESIZE] = b]
  BY <1>2 DEF write_byte
<1>4. /\ n \in Nat /\ n < PIPESIZE
      /\ n = IF nread <= nwrite THEN nwrite - nread ELSE nwrite - nread + WORD
  BY <1>1, <1>3, UnreadValue
<1>5. Unread' = n + 1
  BY <1>1, <1>3, <1>4, OneMore, Zenon DEF Unread
<1> HIDE DEF n
<1>6. nwrite % PIPESIZE = (nread + n) % PIPESIZE
  <2>1. nread + n \in Nat /\ nread + n < 2 * WORD /\ nread \in 0 .. WORD - 1 /\ n \in 0 .. WORD - 1
    BY <1>1, <1>4
  <2>2. (nread + n) % WORD = nwrite
    <3>1. (nread + n) % WORD = IF nread + n < WORD THEN nread + n ELSE nread + n - WORD
      BY <2>1, Advance
    <3>2. QED
      BY <1>1, <1>4, <3>1
  <2>3. QED
    BY <2>1, <2>2, WordSlot
<1>7. PICK s \in 0 .. PIPESIZE - 1 : s = nwrite % PIPESIZE
  BY <1>1
<1>8. data' \in [0 .. PIPESIZE - 1 -> Byte] /\ data'[s] = b
      /\ \A i \in 0 .. PIPESIZE - 1 : i # s => data'[i] = data[i]
  BY <1>1, <1>3, <1>7
<1>9. /\ Contents \in Seq(Byte) /\ Len(Contents) = n
      /\ \A k \in 1 .. n : Contents[k] = data[(nread + k - 1) % PIPESIZE]
  BY <1>1, <1>4, RingSeq, SMTT(30) DEF Contents, n
<1>10. Contents' = [k \in 1 .. n + 1 |-> data'[(nread + k - 1) % PIPESIZE]]
  BY <1>3, <1>5 DEF Contents
<1>11. /\ Contents' \in Seq(Byte) /\ Len(Contents') = n + 1
       /\ \A k \in 1 .. n + 1 : Contents'[k] = data'[(nread + k - 1) % PIPESIZE]
  <2>1. n + 1 \in Nat
    BY <1>4
  <2>2. QED
    BY <1>1, <1>8, <1>10, <2>1, RingSeq, SMTT(30)
<1>12. ASSUME NEW k \in 1 .. n PROVE Contents'[k] = Contents[k]
  <2>1. /\ nread + k - 1 \in Nat /\ nread + n \in Nat
        /\ nread + k - 1 < nread + n /\ (nread + n) - (nread + k - 1) < PIPESIZE
    BY <1>1, <1>4
  <2>2. (nread + k - 1) % PIPESIZE # s
    <3>1. (nread + k - 1) % PIPESIZE # (nread + n) % PIPESIZE
      BY <2>1, SlotsDiffer
    <3>2. QED
      BY <1>6, <1>7, <3>1
  <2>3. ((nread + k - 1) % PIPESIZE) \in 0 .. PIPESIZE - 1
    BY <1>1, <2>1
  <2>4. k \in 1 .. n + 1
    BY <1>4
  <2>5. QED
    BY <1>8, <1>9, <1>11, <2>2, <2>3, <2>4, Zenon
<1>13. Contents'[n + 1] = b
  <2>1. nread + (n + 1) - 1 = nread + n /\ n + 1 \in 1 .. n + 1
    BY <1>1, <1>4
  <2>2. QED
    BY <1>6, <1>7, <1>8, <1>11, <2>1, Zenon
<1>14. Contents' = Append(Contents, b)
  <2>1. /\ Append(Contents, b) \in Seq(Byte) /\ Len(Append(Contents, b)) = n + 1
        /\ \A k \in 1 .. n : Append(Contents, b)[k] = Contents[k]
        /\ Append(Contents, b)[n + 1] = b
    BY <1>9
  <2>2. \A k \in 1 .. n + 1 : Contents'[k] = Append(Contents, b)[k]
    <3>1. \A k \in 1 .. n + 1 : k \in 1 .. n \/ k = n + 1
      BY <1>4
    <3>2. QED
      BY <1>12, <1>13, <2>1, <3>1
  <2>3. QED
    BY <1>11, <2>1, <2>2, SameSeq
<1>15. QED
  BY <1>4, <1>9, <1>14

\* A byte read is the first of the bytes in the pipe.
LEMMA ReadGets ==
  ASSUME FInv, NEW p \in Proc, read_byte(p)
  PROVE Contents # <<>> /\ Contents' = Tail(Contents)
<1> DEFINE n == Unread
<1>1. /\ nread \in 0 .. WORD - 1 /\ nwrite \in 0 .. WORD - 1 /\ nread \in Nat
      /\ data \in [0 .. PIPESIZE - 1 -> Byte] /\ Unread <= PIPESIZE
      /\ PIPESIZE \in Nat \ {0} /\ WORD \in Nat /\ PIPESIZE < WORD /\ 1 \in 0 .. WORD - 1
  BY SizeAssumption DEF FInv, PipeInv, RingTypes, RingInv
<1>2. nread' = (nread + 1) % WORD /\ UNCHANGED <<nwrite, data>> /\ ~Empty
  BY DEF read_byte
<1>3. n \in Nat /\ n # 0
  BY <1>1, <1>2, UnreadValue
<1>4. Unread' = n - 1 /\ nread' \in 0 .. WORD - 1 /\ n - 1 \in Nat /\ nread' \in Nat
  <2>1. Unread' = n - 1 /\ nread' \in 0 .. WORD - 1
    BY <1>1, <1>2, OneLess DEF Unread, Empty
  <2>2. QED
    BY <1>1, <1>3, <2>1
<1>5. /\ Contents \in Seq(Byte) /\ Len(Contents) = n
      /\ \A k \in 1 .. n : Contents[k] = data[(nread + k - 1) % PIPESIZE]
  BY <1>1, <1>3, RingSeq DEF Contents
<1>6. /\ Contents' \in Seq(Byte) /\ Len(Contents') = n - 1
      /\ \A k \in 1 .. n - 1 : Contents'[k] = data[(nread' + k - 1) % PIPESIZE]
  <2>1. PICK r \in Nat, m \in Nat : r = nread' /\ m = n - 1
    BY <1>4
  <2>2. Contents' = [k \in 1 .. m |-> data[(r + k - 1) % PIPESIZE]]
    BY <1>2, <1>4, <2>1 DEF Contents
  <2>3. /\ Contents' \in Seq(Byte) /\ Len(Contents') = m
        /\ \A k \in 1 .. m : Contents'[k] = data[(r + k - 1) % PIPESIZE]
    BY <1>1, <2>2, RingSeq
  <2>4. QED
    BY <2>1, <2>3
<1>7. PICK m \in Nat : m = n /\ m <= PIPESIZE /\ m # 0
  BY <1>1, <1>3
<1> HIDE DEF n
<1>8. Contents # <<>>
  BY <1>3, <1>5
<1>9. ASSUME NEW k \in 1 .. n - 1 PROVE Contents'[k] = Contents[k + 1]
  <2>1. /\ k + 1 \in 1 .. n /\ k - 1 \in 0 .. WORD - 1 /\ k \in 0 .. WORD - 1
        /\ nread + k \in Nat /\ nread + k < 2 * WORD
    BY <1>1, <1>7
  <2>2. (nread' + k - 1) % PIPESIZE = (nread + (k + 1) - 1) % PIPESIZE
    <3>1. nread' = IF nread + 1 < WORD THEN nread + 1 ELSE nread + 1 - WORD
      BY <1>1, <1>2, Advance
    <3>2. CASE nread + 1 < WORD
      <4>1. nread' + k - 1 = nread + (k + 1) - 1
        BY <1>1, <2>1, <3>1, <3>2
      <4>2. QED
        BY <4>1
    <3>3. CASE ~(nread + 1 < WORD)
      <4>1. nread' + k - 1 = k - 1 /\ nread + (k + 1) - 1 = nread + k /\ nread + k - WORD = k - 1
        BY <1>1, <2>1, <3>1, <3>3
      <4>2. (nread + k) % WORD = k - 1
        BY <1>1, <2>1, <4>1, Advance
      <4>3. QED
        BY <2>1, <4>1, <4>2, WordSlot
    <3>4. QED
      BY <3>2, <3>3
  <2>3. QED
    BY <1>5, <1>6, <2>1, <2>2, Zenon
<1>10. /\ Tail(Contents) \in Seq(Byte) /\ Len(Tail(Contents)) = n - 1
       /\ \A k \in 1 .. n - 1 : Tail(Contents)[k] = Contents[k + 1]
  BY <1>5, <1>8
<1>11. QED
  BY <1>6, <1>8, <1>9, <1>10, SameSeq

\* Who reads and writes a pipe leaves its ends alone.
LEMMA OtherSteps ==
  ASSUME NEW p \in Proc, PipeStep(p), ~write_byte(p), ~read_byte(p)
  PROVE UNCHANGED <<counters, flags>>
  BY Zenon DEF PipeStep, write_acquire, write_wait, write_sleep, write_fail, write_done, read_acquire, read_wait,
         read_sleep, read_fail, read_start, read_done, lock, return, sleep

\* The abstract channel: empty while there is no pipe.
bar == IF exists THEN Contents ELSE <<>>

\* What a step does to the channel.
LEMMA FifoStep == FInv /\ [Next]_vars => [Abs!Next]_bar
<1> SUFFICES ASSUME FInv, [Next]_vars PROVE Abs!Next \/ UNCHANGED bar
  OBVIOUS
<1> USE DEF bar
<1>1. ASSUME UNCHANGED <<counters, flags>> PROVE UNCHANGED bar
  BY <1>1 DEF counters, flags, Contents, Unread
<1>2. CASE UNCHANGED vars
  BY <1>1, <1>2 DEF vars, pipevars
<1>3. CASE Next
  <2>1. PICK p \in Proc : KernelStep(p) \/ UserCall(p) \/ kill_proc(p)
    BY <1>3 DEF Next
  <2>2. CASE write_byte(p)
    <3>1. UNCHANGED exists
      BY <2>2 DEF write_byte, flags
    <3>2. CASE ~exists
      BY <3>1, <3>2
    <3>3. CASE exists
      BY <2>2, <3>1, <3>3, WritePuts DEF Abs!Next, Abs!Put
    <3>4. QED
      BY <3>2, <3>3
  <2>3. CASE read_byte(p)
    <3>1. UNCHANGED exists
      BY <2>3 DEF read_byte, flags
    <3>2. CASE ~exists
      BY <3>1, <3>2
    <3>3. CASE exists
      BY <2>3, <3>1, <3>3, ReadGets DEF Abs!Next, Abs!Get
    <3>4. QED
      BY <3>2, <3>3
  <2>4. CASE PipeStep(p) /\ ~write_byte(p) /\ ~read_byte(p)
    BY <1>1, <2>4, OtherSteps
  <2>5. CASE sys_pipe(p)
    <3>1. ~exists /\ nread' = 0 /\ nwrite' = 0 /\ data' \in [0 .. PIPESIZE - 1 -> Byte]
      BY <2>5 DEF sys_pipe, pipealloc, Byte
    <3>2. (0 - 0 + WORD) % WORD = 0
      BY SizeAssumption
    <3>3. Unread' = 0
      BY <3>1, <3>2 DEF Unread
    <3>4. Contents' \in Seq(Byte) /\ Len(Contents') = 0
      <4>1. Contents' = [k \in 1 .. 0 |-> data'[(0 + k - 1) % PIPESIZE]]
        BY <3>1, <3>3 DEF Contents
      <4>2. 0 \in Nat
        OBVIOUS
      <4>3. QED
        BY <3>1, <4>1, <4>2, RingSeq
    <3>5. Contents' = <<>>
      BY <3>4
    <3>6. QED
      BY <3>1, <3>5
  <2>6. CASE close_pipe(p)
    <3>1. UNCHANGED <<nread, nwrite, data>>
      BY <2>6, Zenon DEF close_pipe, pipeclose, counters
    <3>2. Contents' = Contents
      BY <3>1 DEF Contents, Unread
    <3>3. CASE exists'
      <4>1. exists
        BY <2>6, <3>3, Zenon DEF close_pipe, pipeclose, FInv, FileInv, OpenInv
      <4>2. QED
        BY <3>2, <3>3, <4>1
    <3>4. CASE ~exists'
      BY <3>4 DEF Abs!Next, Abs!Drop
    <3>5. QED
      BY <3>3, <3>4
  <2>7. CASE \/ fileread(p) \/ filewrite(p) \/ sys_dup(p) \/ dup_count(p) \/ sys_close(p) \/ close_count(p)
             \/ fork(p) \/ fork_fd(p) \/ fork_run(p) \/ exit(p) \/ exit_close(p) \/ exit_zombie(p)
             \/ kill_proc(p)
    <3>1. UNCHANGED <<counters, flags>>
      BY <2>7, Zenon DEF fileread, filewrite, sys_dup, dup_count, sys_close, close_count, fork, fork_fd, fork_run,
                  exit, exit_close, exit_zombie, kill_proc, pipevars
    <3>2. QED
      BY <1>1, <3>1
  <2>8. QED
    BY <2>1, <2>2, <2>3, <2>4, <2>5, <2>6, <2>7, Zenon DEF KernelStep, UserCall
<1>4. QED
  BY <1>2, <1>3
============================================================================
