---------------------------- MODULE BufferCache ----------------------------
(***************************************************************************)
(* The buffer cache of kernel/bio.c over the disk driver of kernel/ide.c,  *)
(* with the disk itself as far as the driver uses it.                      *)
(*                                                                         *)
(* What runs inside bcache.lock is one step, as is what runs inside        *)
(* idelock, except that the interrupt handler takes two: it shares         *)
(* b->flags, which idelock does not protect, with bget and brelse.         *)
(***************************************************************************)
EXTENDS SleepWakeup, Integers, Sequences

CONSTANTS NBUF,      \* number of buffers
          Sector,
          Outer,     \* the sectors (indirect blocks) held while another is read
          Contents(_),  \* what may be in a sector
          ReadErrors,  \* TRUE: the disk may report an error on a read
          NULL

Buf == 1 .. NBUF
Val == {0} \cup UNION {Contents(s) : s \in Sector}
Command == [write : BOOLEAN, sector : Sector, data : Val]

ASSUME ProcAssumption == Proc # {}
ASSUME BufAssumption == NBUF \in Nat \ {0} /\ NoChan \notin Buf /\ NULL \notin Buf
ASSUME SectorAssumption == Outer \subseteq Sector /\ NULL \notin Sector
ASSUME ContentsAssumption == \A s \in Sector : Contents(s) # {}
ASSUME NullAssumption == NULL \notin Command
ASSUME ErrorAssumption == ReadErrors \in BOOLEAN

VARIABLES sector, flags, data,   \* fields of the buffers
          lru,        \* bcache.head, the most recently used first
          idequeue,
          intr,       \* the buffer in the hands of ideintr, which holds idelock
          cmd, irq,   \* the disk: its command, and its pending interrupt
          disk,       \* the contents of the disk
          pc, want,   \* where each process is, and the sector bget looks for
          held,       \* the buffers it has got, in that order
          panicked    \* "bget: no buffers"

sleepers == <<state, chan, killed>>
device == <<cmd, irq, disk>>
queue == <<idequeue, intr>>
buffers == <<sector, flags, data>>
procs == <<pc, want, held>>
vars == <<sleepers, device, queue, buffers, procs, lru, panicked>>

Flag == {"BUSY", "VALID", "DIRTY"}

TypeOK ==
  /\ SleepTypeOK /\ chan \in [Proc -> Buf \cup {NoChan}]
  /\ sector \in [Buf -> Sector \cup {NULL}]
  /\ flags \in [Buf -> SUBSET Flag]
  /\ data \in [Buf -> Val]
  /\ lru \in [Buf -> Buf] /\ idequeue \in Seq(Buf)
  /\ intr \in Buf \cup {NULL}
  /\ cmd \in Command \cup {NULL} /\ irq \in BOOLEAN
  /\ disk \in [Sector -> Val]
  /\ pc \in [Proc -> {"user", "bget", "iderw", "wait", "use"}]
  /\ want \in [Proc -> Sector \cup {NULL}]
  /\ held \in [Proc -> Seq(Buf)]
  /\ panicked \in BOOLEAN

\* After binit() and ideinit(): no buffer has a sector, memory is zero.
Init ==
  /\ SleepInit
  /\ sector = [b \in Buf |-> NULL] /\ flags = [b \in Buf |-> {}]
  /\ data = [b \in Buf |-> 0]
  /\ lru = [i \in 1 .. NBUF |-> NBUF + 1 - i]
  /\ idequeue = <<>> /\ intr = NULL /\ cmd = NULL /\ irq = FALSE
  /\ disk \in {d \in [Sector -> Val] : \A s \in Sector : d[s] \in Contents(s)}
  /\ pc = [p \in Proc |-> "user"] /\ want = [p \in Proc |-> NULL]
  /\ held = [p \in Proc |-> <<>>]
  /\ panicked = FALSE

----------------------------------------------------------------------------

At(p, l) == ~panicked /\ state[p] = "RUNNABLE" /\ pc[p] = l
Goto(p, l) == pc' = [pc EXCEPT ![p] = l]

Busy(b) == "BUSY" \in flags[b]
Current(p) == held[p][Len(held[p])]

\* Mutation: any second block is read.
Reads_any(p, s) == At(p, "user") \/ (At(p, "use") /\ Len(held[p]) = 1)

\* A process reads a block, or one more while it holds an indirect block
\* (kernel/fs.c: bmap, itrunc).
Reads(p, s) ==
  \/ At(p, "user")
  \/ At(p, "use") /\ Len(held[p]) = 1 /\ sector[Current(p)] \in Outer /\ s \notin Outer

bread(p) ==
  /\ \E s \in Sector : Reads(p, s) /\ want' = [want EXCEPT ![p] = s]
  /\ Goto(p, "bget")
  /\ UNCHANGED <<sleepers, device, queue, buffers, held, lru, panicked>>

----------------------------------------------------------------------------
\* bget(dev, sector), and the test of B_VALID that bread makes of its result

\* Mutation: busy buffers are passed over.
Cached_idle(s) == {i \in DOMAIN lru : sector[lru[i]] = s /\ ~Busy(lru[i])}

\* The places in the list that the first search stops at, and the second, which
\* goes backwards.
Cached(s) == {i \in DOMAIN lru : sector[lru[i]] = s}
Idle == {i \in DOMAIN lru : ~Busy(lru[i])}

First(b, S) == \E i \in S : b = lru[i] /\ \A j \in S : i <= j
Last(b, S) == \E i \in S : b = lru[i] /\ \A j \in S : i >= j

bget_cached(p) ==
  /\ At(p, "bget")
  /\ \E b \in Buf :
       /\ First(b, Cached(want[p])) /\ ~Busy(b)
       /\ flags' = [flags EXCEPT ![b] = @ \cup {"BUSY"}]
       /\ held' = [held EXCEPT ![p] = Append(@, b)]
       /\ Goto(p, IF "VALID" \in flags[b] THEN "use" ELSE "iderw")
  /\ want' = [want EXCEPT ![p] = NULL]
  /\ chan' = [chan EXCEPT ![p] = NoChan]
  /\ UNCHANGED <<state, killed, device, queue, sector, data, lru, panicked>>

\* sleep(b, &bcache.lock); goto loop
bget_sleep(p) ==
  /\ At(p, "bget")
  /\ \E b \in Buf :
       /\ First(b, Cached(want[p])) /\ Busy(b)
       /\ state' = fall_asleep(state, p)
       /\ chan' = [chan EXCEPT ![p] = b]
  /\ UNCHANGED <<killed, device, queue, buffers, procs, lru, panicked>>

bget_fresh(p) ==
  /\ At(p, "bget") /\ Cached(want[p]) = {}
  /\ \E b \in Buf :
       /\ Last(b, Idle)
       /\ sector' = [sector EXCEPT ![b] = want[p]]
       /\ flags' = [flags EXCEPT ![b] = {"BUSY"}]
       /\ held' = [held EXCEPT ![p] = Append(@, b)]
  /\ Goto(p, "iderw")
  /\ want' = [want EXCEPT ![p] = NULL]
  /\ chan' = [chan EXCEPT ![p] = NoChan]
  /\ UNCHANGED <<state, killed, device, queue, data, lru, panicked>>

bget_panic(p) ==
  /\ At(p, "bget") /\ Cached(want[p]) = {} /\ Idle = {}
  /\ panicked' = TRUE
  /\ UNCHANGED <<sleepers, device, queue, buffers, procs, lru>>

----------------------------------------------------------------------------
\* Clients of a buffer

\* The holder changes the contents and writes them.
bwrite(p) ==
  /\ At(p, "use")
  /\ \E v \in Contents(sector[Current(p)]) : data' = [data EXCEPT ![Current(p)] = v]
  /\ flags' = [flags EXCEPT ![Current(p)] = @ \cup {"DIRTY"}]
  /\ Goto(p, "iderw")
  /\ UNCHANGED <<sleepers, device, queue, sector, want, held, lru, panicked>>

\* b moves to the head of the list, those before it one place back.
ToFront(b) ==
  [i \in DOMAIN lru |-> IF i = 1 THEN b
                        ELSE IF \A j \in 1 .. i - 1 : lru[j] # b THEN lru[i - 1]
                        ELSE lru[i]]

brelse_wakes(b) == wakeup1(state, b)

brelse(p) ==
  /\ At(p, "use")
  /\ LET b == Current(p) IN
       /\ lru' = ToFront(b)
       /\ flags' = [flags EXCEPT ![b] = @ \ {"BUSY"}]
       /\ state' = brelse_wakes(b)
  /\ held' = [held EXCEPT ![p] = SubSeq(@, 1, Len(@) - 1)]
  /\ Goto(p, IF Len(held[p]) = 1 THEN "user" ELSE "use")
  /\ UNCHANGED <<chan, killed, device, queue, sector, data, want, panicked>>

----------------------------------------------------------------------------
\* iderw(b) and the interrupt

\* Mutation: a buffer that has been written before is not written again.
Direction_valid(b) == "VALID" \notin flags[b]

\* The command is a write.
Direction(b) == "DIRTY" \in flags[b]

idestart(b) == cmd' = [write |-> Direction(b), sector |-> sector[b], data |-> data[b]]

\* The request is queued; it is never finished yet.
iderw(p) ==
  /\ At(p, "iderw") /\ intr = NULL
  /\ LET b == Current(p) IN
       /\ idequeue' = Append(idequeue, b)
       /\ IF idequeue = <<>> THEN idestart(b) ELSE UNCHANGED cmd
       /\ chan' = [chan EXCEPT ![p] = b]
  /\ state' = fall_asleep(state, p)
  /\ Goto(p, "wait")
  /\ UNCHANGED <<killed, irq, disk, intr, buffers, want, held, lru, panicked>>

Finished(b) == flags[b] \cap {"VALID", "DIRTY"} = {"VALID"}

\* The loop around sleep(b, &idelock), which a kill or a wakeup meant for
\* somebody else does not end.
iderw_wait(p) ==
  /\ At(p, "wait") /\ intr = NULL
  /\ IF Finished(Current(p))
     THEN Goto(p, "use") /\ chan' = [chan EXCEPT ![p] = NoChan] /\ UNCHANGED state
     ELSE state' = fall_asleep(state, p) /\ UNCHANGED <<pc, chan>>
  /\ UNCHANGED <<killed, device, queue, buffers, want, held, lru, panicked>>

\* The disk carries the command out and raises the interrupt.
disk_done ==
  /\ ~panicked /\ cmd # NULL /\ ~irq
  /\ disk' = IF cmd.write THEN [disk EXCEPT ![cmd.sector] = cmd.data] ELSE disk
  /\ irq' = TRUE
  /\ UNCHANGED <<sleepers, cmd, queue, buffers, procs, lru, panicked>>

\* The first buffer comes off the queue, with its data if it was read.  After an
\* error the data stay as they were.
ideintr ==
  /\ ~panicked /\ irq /\ intr = NULL
  /\ irq' = FALSE /\ cmd' = NULL
  /\ intr' = Head(idequeue) /\ idequeue' = Tail(idequeue)
  /\ \/ "DIRTY" \notin flags[intr'] /\ data' = [data EXCEPT ![intr'] = disk[cmd.sector]]
     \/ ("DIRTY" \in flags[intr'] \/ ReadErrors) /\ UNCHANGED data
  /\ UNCHANGED <<sleepers, disk, sector, flags, procs, lru, panicked>>

\* Mutation: the next request is not started.
idestart_next_not == UNCHANGED cmd

idestart_next == IF idequeue # <<>> THEN idestart(Head(idequeue)) ELSE UNCHANGED cmd

ideintr_finish ==
  /\ ~panicked /\ intr # NULL
  /\ flags' = [flags EXCEPT ![intr] = (@ \cup {"VALID"}) \ {"DIRTY"}]
  /\ state' = wakeup1(state, intr)
  /\ idestart_next
  /\ intr' = NULL
  /\ UNCHANGED <<chan, killed, irq, disk, idequeue, sector, data, procs, lru, panicked>>

\* Bound: one process is killed, once.
kill_proc(p) ==
  /\ ~panicked /\ \A q \in Proc : ~killed[q]
  /\ kill(p)
  /\ UNCHANGED <<device, queue, buffers, procs, lru, panicked>>

----------------------------------------------------------------------------

bget(p) == bget_cached(p) \/ bget_sleep(p) \/ bget_fresh(p) \/ bget_panic(p)

Interrupt == ideintr \/ ideintr_finish

Next ==
  \/ \E p \in Proc : bread(p) \/ bget(p) \/ bwrite(p) \/ brelse(p)
                      \/ iderw(p) \/ iderw_wait(p) \/ kill_proc(p)
  \/ disk_done \/ Interrupt

Spec == Init /\ [][Next]_vars

\* The disk answers, interrupts are taken, and idelock is never held for long.
FairSpec ==
  /\ Spec
  /\ WF_vars(disk_done) /\ WF_vars(Interrupt)
  /\ \A p \in Proc : SF_vars(iderw(p)) /\ SF_vars(iderw_wait(p))

----------------------------------------------------------------------------
\* Properties

\* A sector is in at most one buffer, although bget may sleep between its search
\* and the end of it, and buffers are recycled meanwhile.
OneCopy == \A b, c \in Buf : sector[b] = sector[c] /\ sector[b] # NULL => b = c

\* "B_VALID: the buffer data has been initialized with the associated disk block
\* contents" (bio.c): a valid buffer that waits for no write has what is on the disk.
ValidIsOnDisk ==
  \A b \in Buf : flags[b] \cap {"VALID", "DIRTY"} = {"VALID"} => data[b] = disk[sector[b]]

\* The processes never all wait for each other: when all are asleep, the disk
\* works or its interrupt is being handled.
NoDeadlock == (\A p \in Proc : state[p] = "SLEEPING") => cmd # NULL \/ intr # NULL

\* A request to the disk is finished in the end, even for a killed process.
IoCompletes == \A p \in Proc : pc[p] = "iderw" ~> pc[p] = "use" \/ panicked
============================================================================
