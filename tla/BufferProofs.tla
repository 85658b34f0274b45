---------------------------- MODULE BufferProofs ----------------------------
(***************************************************************************)
(* For any number of buffers, processes and sectors: no sector is in two    *)
(* buffers, and a valid buffer has what is on the disk, if the disk has no  *)
(* read errors.  B_BUSY is what the argument is about: a busy buffer is in  *)
(* the hands of one process, and while it is queued for the disk that       *)
(* process waits.  So neither bget nor a holder touches a buffer that the   *)
(* interrupt handler works on, although they take different locks.          *)
(*                                                                          *)
(* Nobody waits forever for somebody who waits: whoever is asleep waits for *)
(* the disk or for a holder, and a holder that waits in bget has an outer   *)
(* sector and wants one that is not.                                        *)
(***************************************************************************)
EXTENDS BufferCache, TLAPS

Owner(b) == \E p \in Proc : pc[p] = "wait" /\ Current(p) = b
Queued(b) == b = intr \/ \E i \in 1 .. Len(idequeue) : idequeue[i] = b

BufTypes ==
  /\ sector \in [Buf -> Sector \cup {NULL}] /\ flags \in [Buf -> SUBSET Flag]
  /\ data \in [Buf -> Val] /\ lru \in [Buf -> Buf]
ProcTypes ==
  /\ pc \in [Proc -> {"user", "bget", "iderw", "wait", "use"}]
  /\ want \in [Proc -> Sector \cup {NULL}] /\ held \in [Proc -> Seq(Buf)]
DiskTypes ==
  /\ disk \in [Sector -> Val] /\ irq \in BOOLEAN
  /\ idequeue \in Seq(Buf) /\ intr \in Buf \cup {NULL}
TypeInv == BufTypes /\ ProcTypes /\ DiskTypes

\* Every buffer is in the list, and a busy one is held by one process, once.
Listed == \A b \in Buf : \E i \in Buf : lru[i] = b
Wanted == \A p \in Proc : pc[p] = "bget" => want[p] \in Sector
HasOne == \A p \in Proc : pc[p] \in {"iderw", "wait", "use"} => Len(held[p]) > 0
HeldBusy ==
  \A p \in Proc : \A i \in 1 .. Len(held[p]) : Busy(held[p][i]) /\ sector[held[p][i]] \in Sector
HeldOnce ==
  \A p, q \in Proc : \A i \in 1 .. Len(held[p]), j \in 1 .. Len(held[q]) :
    held[p][i] = held[q][j] => p = q /\ i = j
HeldInv == Listed /\ Wanted /\ HasOne /\ HeldBusy /\ HeldOnce

\* What is queued waits to be done, and belongs to a process that waits for it; the
\* disk's command is that of the first buffer.
Waited == \A b \in Buf : Queued(b) => ~Finished(b) /\ Owner(b)
QueueOnce ==
  /\ \A i, j \in 1 .. Len(idequeue) : idequeue[i] = idequeue[j] => i = j
  /\ \A i \in 1 .. Len(idequeue) : idequeue[i] # intr
HeadCommand ==
  LET b == Head(idequeue) IN
  /\ cmd = [write |-> Direction(b), sector |-> sector[b], data |-> data[b]]
  /\ irq /\ Direction(b) => disk[sector[b]] = data[b]
DiskInv ==
  /\ intr # NULL => cmd = NULL /\ ~irq /\ (ReadErrors \/ data[intr] = disk[sector[intr]])
  /\ intr = NULL /\ idequeue = <<>> => cmd = NULL /\ ~irq
  /\ intr = NULL /\ idequeue # <<>> => HeadCommand
QueueInv == Waited /\ QueueOnce /\ DiskInv

Unfinished == \A p \in Proc : pc[p] = "iderw" => ~Finished(Current(p))

\* A buffer with a flag has a sector, and what is said to be on the disk is, unless the
\* disk may fail to read.
Placed == \A b \in Buf : flags[b] # {} => sector[b] \in Sector
OnDisk == ReadErrors \/ ValidIsOnDisk

BInv == TypeInv /\ HeldInv /\ QueueInv /\ Unfinished /\ OneCopy /\ Placed /\ OnDisk

----------------------------------------------------------------------------
\* Facts about the invariant

\* The buffer a process works on is a busy one.
LEMMA CurrentHeld ==
  ASSUME TypeInv, HeldInv, NEW p \in Proc, Len(held[p]) > 0
  PROVE /\ Len(held[p]) \in Nat /\ Len(held[p]) \in 1 .. Len(held[p])
        /\ Current(p) \in Buf /\ Busy(Current(p)) /\ sector[Current(p)] \in Sector
<1>1. held[p] \in Seq(Buf) /\ Len(held[p]) \in Nat
  BY DEF TypeInv, ProcTypes
<1>2. Len(held[p]) \in 1 .. Len(held[p])
  BY <1>1
<1>3. QED
  BY <1>1, <1>2 DEF Current, HeldInv, HeldBusy

\* Two processes never work on the same buffer.
LEMMA CurrentApart ==
  ASSUME TypeInv, HeldInv, NEW p \in Proc, NEW q \in Proc, Len(held[p]) > 0, Len(held[q]) > 0,
         Current(p) = Current(q)
  PROVE p = q
  BY CurrentHeld DEF Current, HeldInv, Listed, Wanted, HasOne, HeldBusy, HeldOnce

\* A process that has got a buffer works on a busy one.
LEMMA Holding ==
  ASSUME BInv, NEW p \in Proc, pc[p] \in {"iderw", "wait", "use"}
  PROVE Len(held[p]) > 0 /\ Current(p) \in Buf /\ Busy(Current(p)) /\ sector[Current(p)] \in Sector
<1>1. TypeInv /\ HeldInv /\ Len(held[p]) > 0
  BY Zenon DEF BInv, HeldInv, HasOne
<1>2. QED
  BY <1>1, CurrentHeld

\* What is queued is not done, and somebody waits for it.
LEMMA QueuedOwner ==
  ASSUME BInv, NEW b \in Buf, Queued(b)
  PROVE ~Finished(b) /\ \E p \in Proc : pc[p] = "wait" /\ Current(p) = b
  BY Zenon DEF BInv, QueueInv, Waited, Owner

\* A buffer that nobody holds is not queued.
LEMMA IdleNotQueued ==
  ASSUME BInv, NEW b \in Buf, ~Busy(b)
  PROVE ~Queued(b)
<1> SUFFICES ASSUME Queued(b) PROVE FALSE
  OBVIOUS
<1>1. PICK p \in Proc : pc[p] = "wait" /\ Current(p) = b
  BY QueuedOwner
<1>2. QED
  BY <1>1, CurrentHeld, Zenon DEF BInv, HeldInv, HasOne

\* Nor is one whose holder does not wait for the disk.
LEMMA UsedNotQueued ==
  ASSUME BInv, NEW p \in Proc, pc[p] \in {"iderw", "use"}
  PROVE ~Queued(Current(p))
<1> SUFFICES ASSUME Queued(Current(p)) PROVE FALSE
  OBVIOUS
<1>1. Len(held[p]) > 0 /\ Current(p) \in Buf
  BY CurrentHeld, Zenon DEF BInv, HeldInv, Listed, HasOne
<1>2. PICK q \in Proc : pc[q] = "wait" /\ Current(q) = Current(p)
  BY <1>1, QueuedOwner
<1>3. p = q
  BY <1>1, <1>2, CurrentApart, Zenon DEF BInv, HeldInv, HasOne, HeldOnce
<1>4. QED
  BY <1>2, <1>3

\* The buffer a process brings to iderw waits to be done and is not queued yet.
LEMMA AtIderw ==
  ASSUME BInv, NEW p \in Proc, pc[p] = "iderw"
  PROVE /\ Len(held[p]) > 0 /\ Current(p) \in Buf /\ sector[Current(p)] \in Sector
        /\ ~Finished(Current(p)) /\ ~Queued(Current(p))
<1>1. ~Finished(Current(p))
  BY DEF BInv, Unfinished
<1>2. QED
  BY <1>1, Holding, UsedNotQueued

\* The first buffer of the queue is queued.
LEMMA HeadQueued ==
  ASSUME TypeInv, idequeue # <<>>
  PROVE /\ Head(idequeue) \in Buf /\ Queued(Head(idequeue))
        /\ Head(idequeue) = idequeue[1] /\ 1 \in 1 .. Len(idequeue)
<1>1. idequeue \in Seq(Buf) /\ Len(idequeue) \in Nat /\ Len(idequeue) # 0
  BY DEF TypeInv, DiskTypes
<1>2. 1 \in 1 .. Len(idequeue) /\ Head(idequeue) = idequeue[1]
  BY <1>1
<1>3. QED
  BY <1>1, <1>2 DEF Queued

\* A step of a process that leaves alone the queue, the disk, the queued buffers and
\* who waits for them.
LEMMA QueueFrame ==
  ASSUME BInv, UNCHANGED <<queue, device>>,
         \A b \in Buf : Queued(b) => /\ flags'[b] = flags[b] /\ sector'[b] = sector[b]
                                     /\ data'[b] = data[b] /\ Owner(b)'
  PROVE QueueInv'
<1>1. \A b : Queued(b)' <=> Queued(b)
  BY DEF Queued, queue
<1>2. Waited'
  BY <1>1, Zenon DEF BInv, QueueInv, Waited, Finished
<1>3. intr # NULL => intr \in Buf /\ Queued(intr)
  BY DEF BInv, TypeInv, DiskTypes, Queued
<1>4. idequeue # <<>> => Head(idequeue) \in Buf /\ Queued(Head(idequeue))
  BY HeadQueued DEF BInv
<1>5. QueueOnce'
  BY DEF BInv, QueueInv, QueueOnce, queue
<1>6. DiskInv'
  BY <1>3, <1>4 DEF BInv, QueueInv, DiskInv, HeadCommand, queue, device, Direction
<1>7. QED
  BY <1>2, <1>5, <1>6 DEF QueueInv

\* A step that leaves alone the processes and who is busy.
LEMMA HeldFrame ==
  ASSUME TypeInv, HeldInv, UNCHANGED <<sector, procs, lru>>, \A b \in Buf : Busy(b)' <=> Busy(b)
  PROVE HeldInv'
<1>1. pc' = pc /\ want' = want /\ held' = held
  BY DEF procs
<1>2. \A p \in Proc : \A i \in 1 .. Len(held[p]) : held[p][i] \in Buf
  BY DEF TypeInv, ProcTypes
<1>3. HeldBusy'
  BY <1>1, <1>2 DEF HeldInv, HeldBusy
<1>4. HeldOnce'
  BY <1>1 DEF HeldInv, HeldOnce
<1>5. Listed' /\ Wanted' /\ HasOne'
  BY <1>1 DEF HeldInv, Listed, Wanted, HasOne
<1>6. QED
  BY <1>3, <1>4, <1>5 DEF HeldInv

----------------------------------------------------------------------------
\* The steps

\* The invariant holds after binit and ideinit.
LEMMA BInvInit == Init => BInv
<1> SUFFICES ASSUME Init PROVE BInv
  OBVIOUS
<1>1. \A b \in Buf : NBUF + 1 - b \in Buf /\ NBUF + 1 - (NBUF + 1 - b) = b
  BY BufAssumption DEF Buf
<1>2. lru \in [Buf -> Buf] /\ \A b \in Buf : \E i \in Buf : lru[i] = b
  BY <1>1 DEF Init, Buf
<1>3. TypeInv
  <2>1. 0 \in Val
    BY DEF Val
  <2>2. disk \in [Sector -> Val]
    BY DEF Init
  <2>3. /\ sector \in [Buf -> Sector \cup {NULL}]
        /\ flags \in [Buf -> SUBSET Flag] /\ data \in [Buf -> Val]
    BY <2>1 DEF Init
  <2>4. /\ pc \in [Proc -> {"user", "bget", "iderw", "wait", "use"}]
        /\ want \in [Proc -> Sector \cup {NULL}]
    BY DEF Init
  <2>5. held \in [Proc -> Seq(Buf)] /\ idequeue \in Seq(Buf)
    BY DEF Init
  <2>6. intr \in Buf \cup {NULL} /\ irq \in BOOLEAN
    BY Zenon DEF Init
  <2>7. QED
    BY <1>2, <2>2, <2>3, <2>4, <2>5, <2>6 DEF TypeInv, BufTypes, ProcTypes, DiskTypes
<1>4. HeldInv
  BY <1>2 DEF Init, HeldInv, Listed, Wanted, HasOne, HeldBusy, HeldOnce
<1>5. QueueInv /\ Unfinished /\ OneCopy
  BY BufAssumption DEF Init, QueueInv, Waited, QueueOnce, DiskInv, Queued, Unfinished, OneCopy
<1>6. Placed /\ OnDisk
  BY DEF Init, Placed, OnDisk, ValidIsOnDisk
<1>7. QED
  BY <1>3, <1>4, <1>5, <1>6 DEF BInv

\* Steps of a process that change no buffer: bread begins, bget waits or panics, kill.
LEMMA IdleStep ==
  ASSUME BInv, NEW p \in Proc, bread(p) \/ bget_sleep(p) \/ bget_panic(p) \/ kill_proc(p)
  PROVE BInv'
<1>1. UNCHANGED <<device, queue, buffers, held, lru>>
  BY DEF bread, bget_sleep, bget_panic, kill_proc, procs
<1>2. \/ UNCHANGED <<pc, want>>
      \/ /\ pc[p] \in {"user", "use"} /\ pc' = [pc EXCEPT ![p] = "bget"]
         /\ \E s \in Sector : want' = [want EXCEPT ![p] = s]
  BY DEF bread, bget_sleep, bget_panic, kill_proc, procs, Goto, Reads, At
<1>3. TypeInv'
  <2>1. BufTypes' /\ DiskTypes'
    BY <1>1 DEF BInv, TypeInv, BufTypes, DiskTypes, device, queue, buffers
  <2>2. ProcTypes'
    BY <1>1, <1>2, Zenon DEF BInv, TypeInv, ProcTypes
  <2>3. QED
    BY <2>1, <2>2 DEF TypeInv
<1>4. HeldInv'
  <2>1. Listed' /\ HeldBusy' /\ HeldOnce'
    BY <1>1, SMTT(20) DEF BInv, HeldInv, Listed, HeldBusy, HeldOnce, buffers, Busy
  <2>2. Wanted' /\ HasOne'
    BY <1>1, <1>2 DEF BInv, TypeInv, ProcTypes, HeldInv, Wanted, HasOne
  <2>3. QED
    BY <2>1, <2>2 DEF HeldInv
<1>5. \A b \in Buf : Owner(b) => Owner(b)'
  BY <1>1, <1>2 DEF BInv, TypeInv, ProcTypes, Owner, Current
<1>6. QueueInv'
  <2>1. \A b \in Buf : Queued(b) => Owner(b)
    BY Zenon DEF BInv, QueueInv, Waited
  <2>2. QED
    BY <1>1, <1>5, <2>1, QueueFrame DEF buffers
<1>7. Unfinished'
  BY <1>1, <1>2, Zenon DEF BInv, TypeInv, ProcTypes, Unfinished, Finished, Current, buffers
<1>8. OneCopy' /\ Placed' /\ OnDisk'
  BY <1>1 DEF BInv, OneCopy, Placed, OnDisk, ValidIsOnDisk, buffers, device
<1>9. QED
  BY <1>3, <1>4, <1>6, <1>7, <1>8 DEF BInv

\* A process gets buffer b, which was idle.
LEMMA Pushed ==
  ASSUME BInv, NEW p \in Proc, NEW b \in Buf, ~Busy(b), pc[p] = "bget", NEW l \in {"use", "iderw"},
         held' = [held EXCEPT ![p] = Append(@, b)], pc' = [pc EXCEPT ![p] = l],
         want' = [want EXCEPT ![p] = NULL], lru' = lru,
         \A c \in Buf : c # b => flags'[c] = flags[c] /\ sector'[c] = sector[c],
         "BUSY" \in flags'[b], sector'[b] \in Sector
  PROVE /\ HeldInv' /\ Current(p)' = b
        /\ \A q \in Proc : q # p => Current(q)' = Current(q) /\ pc'[q] = pc[q]
        /\ \A q \in Proc : q # p /\ Len(held[q]) > 0 => Current(q) # b
<1>1. /\ held[p] \in Seq(Buf) /\ held \in [Proc -> Seq(Buf)]
      /\ pc \in [Proc -> {"user", "bget", "iderw", "wait", "use"}]
  BY DEF BInv, TypeInv, ProcTypes
<1> DEFINE h == Append(held[p], b)
           n == Len(held[p])
<1>2. /\ n \in Nat /\ Len(h) = n + 1 /\ h[n + 1] = b /\ h \in Seq(Buf)
      /\ \A i \in 1 .. n : h[i] = held[p][i]
  BY <1>1
<1>3. held'[p] = h /\ \A q \in Proc : q # p => held'[q] = held[q]
  BY <1>1
<1>4. \A q \in Proc : \A i \in 1 .. Len(held[q]) : held[q][i] # b /\ held[q][i] \in Buf
  BY <1>1 DEF BInv, HeldInv, HeldBusy
<1> HIDE DEF h, n
<1>5. \A i \in 1 .. Len(h) : i = n + 1 \/ i \in 1 .. n
  BY <1>2
<1>6. \A q \in Proc : \A i \in 1 .. Len(held'[q]) :
        \/ q = p /\ i = n + 1 /\ held'[q][i] = b
        \/ i \in 1 .. Len(held[q]) /\ held'[q][i] = held[q][i]
  BY <1>2, <1>3, <1>5 DEF n
<1>7. HeldBusy'
  BY <1>4, <1>6 DEF BInv, HeldInv, HeldBusy, Busy
<1>8. HeldOnce'
  BY <1>4, <1>6 DEF BInv, HeldInv, HeldOnce
<1>9. HasOne'
  BY <1>1, <1>2, <1>3 DEF BInv, HeldInv, HasOne
<1>10. Wanted' /\ Listed'
  BY <1>1 DEF BInv, TypeInv, ProcTypes, HeldInv, Wanted, Listed
<1>11. HeldInv'
  BY <1>7, <1>8, <1>9, <1>10 DEF HeldInv
<1>12. QED
  BY <1>2, <1>3, <1>4, <1>11, CurrentHeld DEF Current

\* bget finds the sector in an idle buffer.
LEMMA CachedStep == ASSUME BInv, NEW p \in Proc, bget_cached(p) PROVE BInv'
<1>1. PICK b \in Buf :
        /\ First(b, Cached(want[p])) /\ ~Busy(b)
        /\ flags' = [flags EXCEPT ![b] = @ \cup {"BUSY"}]
        /\ held' = [held EXCEPT ![p] = Append(@, b)]
        /\ Goto(p, IF "VALID" \in flags[b] THEN "use" ELSE "iderw")
  BY Zenon DEF bget_cached
<1>2. /\ UNCHANGED <<device, queue, sector, data, lru>> /\ pc[p] = "bget"
      /\ want' = [want EXCEPT ![p] = NULL]
  BY DEF bget_cached, At
<1>3. PICK l \in {"use", "iderw"} :
        pc' = [pc EXCEPT ![p] = l] /\ (l = "iderw" => "VALID" \notin flags[b])
  BY <1>1, Zenon DEF Goto
<1>4. want[p] \in Sector /\ sector[b] = want[p]
  BY <1>1, <1>2, Zenon DEF BInv, HeldInv, Wanted, First, Cached
<1>5. flags'[b] = flags[b] \cup {"BUSY"} /\ \A c \in Buf : c # b => flags'[c] = flags[c]
  BY <1>1 DEF BInv, TypeInv, BufTypes
<1>6. \A c \in Buf : Finished(c)' <=> Finished(c)
  BY <1>5 DEF Finished
<1>7. /\ HeldInv' /\ Current(p)' = b
      /\ \A q \in Proc : q # p => Current(q)' = Current(q) /\ pc'[q] = pc[q]
      /\ \A q \in Proc : q # p /\ Len(held[q]) > 0 => Current(q) # b
  BY <1>1, <1>2, <1>3, <1>4, <1>5, Pushed, Zenon
<1>8. TypeInv'
  <2>1. flags' \in [Buf -> SUBSET Flag]
    BY <1>1 DEF BInv, TypeInv, BufTypes, ProcTypes, Flag
  <2>2. held' \in [Proc -> Seq(Buf)]
    BY <1>1 DEF BInv, TypeInv, ProcTypes
  <2>3. QED
    BY <1>2, <1>3, <2>1, <2>2, Zenon DEF BInv, TypeInv, BufTypes, ProcTypes, DiskTypes, device,
       queue
<1>9. QueueInv'
  <2>1. \A c \in Buf : Queued(c) => c # b /\ Owner(c)'
    BY <1>1, <1>2, <1>7, IdleNotQueued, QueuedOwner DEF Owner
  <2>2. QED
    BY <1>2, <1>5, <2>1, QueueFrame
<1>10. Unfinished'
  <2>1. ASSUME l = "iderw" PROVE ~Finished(b)
    BY <1>3, <2>1 DEF Finished
  <2>2. \A q \in Proc : q # p /\ pc[q] = "iderw" => Current(q) \in Buf /\ ~Finished(Current(q))
    BY AtIderw
  <2>3. pc'[p] = l
    BY <1>3 DEF BInv, TypeInv, ProcTypes
  <2>4. QED
    BY <1>6, <1>7, <2>1, <2>2, <2>3 DEF Unfinished
<1>11. OneCopy' /\ Placed' /\ OnDisk'
  BY <1>2, <1>4, <1>5, <1>6 DEF BInv, OneCopy, Placed, OnDisk, ValidIsOnDisk, Finished, device
<1>12. QED
  BY <1>7, <1>8, <1>9, <1>10, <1>11 DEF BInv

\* bget takes the least recently used idle buffer: the sector is in none.
LEMMA FreshStep == ASSUME BInv, NEW p \in Proc, bget_fresh(p) PROVE BInv'
<1>1. PICK b \in Buf :
        /\ Last(b, Idle)
        /\ sector' = [sector EXCEPT ![b] = want[p]]
        /\ flags' = [flags EXCEPT ![b] = {"BUSY"}]
        /\ held' = [held EXCEPT ![p] = Append(@, b)]
  BY Zenon DEF bget_fresh
<1>2. /\ UNCHANGED <<device, queue, data, lru>> /\ pc[p] = "bget" /\ pc' = [pc EXCEPT ![p] = "iderw"]
      /\ want' = [want EXCEPT ![p] = NULL]
  BY DEF bget_fresh, At, Goto
<1>3. ~Busy(b)
  BY <1>1 DEF Last, Idle
<1>4. want[p] \in Sector /\ \A c \in Buf : sector[c] # want[p]
  <2>1. Cached(want[p]) = {}
    BY DEF bget_fresh
  <2>2. QED
    BY <1>2, <2>1 DEF BInv, HeldInv, Listed, Wanted, TypeInv, BufTypes, Cached
<1>5. /\ flags'[b] = {"BUSY"} /\ sector'[b] = want[p]
      /\ \A c \in Buf : c # b => flags'[c] = flags[c] /\ sector'[c] = sector[c]
  BY <1>1 DEF BInv, TypeInv, BufTypes
<1>6. /\ HeldInv' /\ Current(p)' = b
      /\ \A q \in Proc : q # p => Current(q)' = Current(q) /\ pc'[q] = pc[q]
      /\ \A q \in Proc : q # p /\ Len(held[q]) > 0 => Current(q) # b
  BY <1>1, <1>2, <1>3, <1>4, <1>5, Pushed, Zenon
<1>7. TypeInv'
  <2>1. flags' \in [Buf -> SUBSET Flag]
    BY <1>1 DEF BInv, TypeInv, BufTypes, Flag
  <2>2. held' \in [Proc -> Seq(Buf)]
    BY <1>1 DEF BInv, TypeInv, ProcTypes
  <2>3. QED
    BY <1>1, <1>2, <1>4, <2>1, <2>2, Zenon DEF BInv, TypeInv, BufTypes, ProcTypes, DiskTypes,
       device, queue
<1>8. QueueInv'
  <2>1. \A c \in Buf : Queued(c) => c # b /\ Owner(c)'
    BY <1>2, <1>3, <1>6, IdleNotQueued, QueuedOwner DEF Owner
  <2>2. QED
    BY <1>2, <1>5, <2>1, QueueFrame
<1>9. Unfinished'
  <2>1. ~Finished(b)'
    BY <1>5 DEF Finished
  <2>2. \A q \in Proc : q # p /\ pc[q] = "iderw" =>
          Current(q) \in Buf /\ Current(q) # b /\ ~Finished(Current(q))
    BY <1>6, AtIderw
  <2>3. QED
    BY <1>5, <1>6, <2>1, <2>2 DEF Unfinished, Finished
<1>10. OneCopy'
  BY <1>4, <1>5 DEF BInv, OneCopy
<1>11. Placed' /\ OnDisk'
  BY <1>2, <1>4, <1>5 DEF BInv, Placed, OnDisk, ValidIsOnDisk, device
<1>12. QED
  BY <1>6, <1>7, <1>8, <1>9, <1>10, <1>11 DEF BInv

\* The holder changes its buffer, which is not queued, and will write it.
LEMMA BwriteStep == ASSUME BInv, NEW p \in Proc, bwrite(p) PROVE BInv'
<1> DEFINE b == Current(p)
<1>1. /\ pc[p] = "use" /\ UNCHANGED <<device, queue, sector, want, held, lru>>
      /\ flags' = [flags EXCEPT ![b] = @ \cup {"DIRTY"}] /\ pc' = [pc EXCEPT ![p] = "iderw"]
      /\ \E v \in Contents(sector[b]) : data' = [data EXCEPT ![b] = v]
  BY Zenon DEF bwrite, At, Goto
<1>2. Len(held[p]) > 0 /\ b \in Buf /\ sector[b] \in Sector /\ ~Queued(b)
  BY <1>1, CurrentHeld, UsedNotQueued, Zenon DEF BInv, HeldInv, HasOne
<1>3. /\ flags'[b] = flags[b] \cup {"DIRTY"}
      /\ \A c \in Buf : c # b => flags'[c] = flags[c] /\ data'[c] = data[c]
      /\ \A q \in Proc : Current(q)' = Current(q) /\ (q # p => pc'[q] = pc[q])
  BY <1>1, <1>2 DEF BInv, TypeInv, BufTypes, ProcTypes, Current
<1>4. TypeInv'
  <2>1. PICK v \in Contents(sector[b]) : data' = [data EXCEPT ![b] = v]
    BY <1>1, Zenon
  <2>2. v \in Val
    BY <1>2 DEF Val
  <2>3. data' \in [Buf -> Val] /\ flags' \in [Buf -> SUBSET Flag]
    BY <1>1, <2>1, <2>2, Zenon DEF BInv, TypeInv, BufTypes, Flag
  <2>4. QED
    BY <1>1, <2>3, Zenon DEF BInv, TypeInv, BufTypes, ProcTypes, DiskTypes, device, queue
<1> HIDE DEF b
<1>5. \A c \in Buf : Busy(c)' <=> Busy(c)
  BY <1>3 DEF Busy
<1>6. HeldInv'
  <2>1. \A q \in Proc : \A i \in 1 .. Len(held[q]) : held[q][i] \in Buf
    BY DEF BInv, TypeInv, ProcTypes
  <2>2. HeldBusy'
    BY <1>1, <1>5, <2>1 DEF BInv, HeldInv, HeldBusy
  <2>3. Listed' /\ HeldOnce'
    BY <1>1, SMTT(20) DEF BInv, HeldInv, Listed, HeldOnce
  <2>4. Wanted' /\ HasOne'
    BY <1>1, <1>2 DEF BInv, TypeInv, ProcTypes, HeldInv, Wanted, HasOne
  <2>5. QED
    BY <2>2, <2>3, <2>4 DEF HeldInv
<1>7. QueueInv'
  <2>1. \A c \in Buf : Queued(c) => c # b /\ Owner(c)'
    BY <1>1, <1>2, <1>3, QueuedOwner DEF Owner
  <2>2. QED
    BY <1>1, <1>3, <2>1, QueueFrame
<1>8. Unfinished'
  <2>1. ~Finished(b)' /\ Current(p)' = b
    BY <1>3 DEF Finished, b
  <2>2. \A q \in Proc : q # p /\ pc[q] = "iderw" =>
          Current(q) \in Buf /\ Current(q) # b /\ ~Finished(Current(q))
    BY <1>2, AtIderw, CurrentApart DEF BInv, b
  <2>3. QED
    BY <1>3, <2>1, <2>2 DEF Unfinished, Finished
<1>9. OneCopy' /\ Placed'
  BY <1>1, <1>2, <1>3 DEF BInv, OneCopy, Placed
<1>10. OnDisk'
  BY <1>1, <1>3 DEF BInv, OnDisk, ValidIsOnDisk, device
<1>11. QED
  BY <1>4, <1>6, <1>7, <1>8, <1>9, <1>10 DEF BInv

\* Moving a buffer to the head of the list loses none.
LEMMA ToFrontAll ==
  ASSUME TypeInv, HeldInv, NEW b \in Buf
  PROVE ToFront(b) \in [Buf -> Buf] /\ \A c \in Buf : \E i \in Buf : ToFront(b)[i] = c
<1> DEFINE f == ToFront(b)
<1>1. /\ Buf = 1 .. NBUF /\ NBUF \in Nat \ {0} /\ lru \in [Buf -> Buf] /\ DOMAIN lru = Buf
      /\ \A c \in Buf : \E i \in Buf : lru[i] = c
  BY BufAssumption, Zenon DEF Buf, TypeInv, BufTypes, HeldInv, Listed
<1>2. /\ 1 \in Buf /\ f[1] = b
      /\ \A i \in Buf : i # 1 /\ (\A j \in 1 .. i - 1 : lru[j] # b) => f[i] = lru[i - 1]
      /\ \A i \in Buf : i # 1 /\ (\E j \in 1 .. i - 1 : lru[j] = b) => f[i] = lru[i]
  <2>1. 1 \in Buf
    BY <1>1
  <2>2. f = [i \in Buf |-> IF i = 1 THEN b
                           ELSE IF \A j \in 1 .. i - 1 : lru[j] # b THEN lru[i - 1] ELSE lru[i]]
    BY <1>1 DEF ToFront
  <2> HIDE DEF f
  <2>3. f[1] = b
    BY <2>1, <2>2
  <2>4. ASSUME NEW i \in Buf, i # 1, \A j \in 1 .. i - 1 : lru[j] # b PROVE f[i] = lru[i - 1]
    BY <2>2, <2>4
  <2>5. ASSUME NEW i \in Buf, i # 1, \E j \in 1 .. i - 1 : lru[j] = b PROVE f[i] = lru[i]
    BY <2>2, <2>5
  <2>6. QED
    BY <2>1, <2>3, <2>4, <2>5
<1>3. f \in [Buf -> Buf]
  <2>1. \A i \in Buf : i # 1 => i - 1 \in Buf
    BY <1>1
  <2>2. ASSUME NEW i \in Buf PROVE f[i] \in Buf
    <3>1. CASE i = 1
      BY <1>2, <3>1
    <3>2. CASE i # 1 /\ \A j \in 1 .. i - 1 : lru[j] # b
      BY <1>1, <1>2, <2>1, <3>2, Zenon
    <3>3. CASE i # 1 /\ \E j \in 1 .. i - 1 : lru[j] = b
      BY <1>1, <1>2, <3>3, Zenon
    <3>4. QED
      BY <3>1, <3>2, <3>3
  <2>3. QED
    BY <1>1, <2>2, Zenon DEF ToFront
<1>4. ASSUME NEW c \in Buf PROVE \E i \in Buf : f[i] = c
  <2>1. PICK k \in Buf : lru[k] = c
    BY <1>1
  <2>2. PICK n \in Buf : lru[n] = b
    BY <1>1
  <2>3. CASE c = b
    BY <1>2, <2>3
  <2>4. CASE c # b /\ \A j \in 1 .. k : lru[j] # b
    <3>1. n \notin 1 .. k /\ k + 1 \in Buf /\ k + 1 # 1 /\ (k + 1) - 1 = k
      BY <1>1, <2>2, <2>4
    <3>2. f[k + 1] = c
      BY <1>2, <2>1, <2>4, <3>1
    <3>3. QED
      BY <3>1, <3>2
  <2>5. CASE c # b /\ \E j \in 1 .. k : lru[j] = b
    <3>1. PICK j \in 1 .. k : lru[j] = b
      BY <2>5
    <3>2. j \in 1 .. k - 1 /\ k # 1
      <4>1. j # k
        BY <2>1, <2>5, <3>1
      <4>2. k \in Nat
        BY <1>1
      <4>3. QED
        BY <3>1, <4>1, <4>2
    <3>3. f[k] = c
      BY <1>2, <2>1, <3>1, <3>2
    <3>4. QED
      BY <3>3
  <2>6. QED
    BY <2>3, <2>4, <2>5
<1>5. QED
  BY <1>3, <1>4

\* The holder gives its last buffer back.
LEMMA BrelseStep == ASSUME BInv, NEW p \in Proc, brelse(p) PROVE BInv'
<1> DEFINE b == Current(p)
           n == Len(held[p])
           h == SubSeq(held[p], 1, n - 1)
<1>1. /\ pc[p] = "use" /\ UNCHANGED <<device, queue, sector, data, want>>
      /\ lru' = ToFront(b) /\ flags' = [flags EXCEPT ![b] = @ \ {"BUSY"}]
      /\ held' = [held EXCEPT ![p] = h]
      /\ pc' = [pc EXCEPT ![p] = IF n = 1 THEN "user" ELSE "use"]
  BY DEF brelse, At, Goto
<1>2. /\ n > 0 /\ n \in Nat /\ n \in 1 .. n /\ b \in Buf
      /\ b = held[p][n] /\ ~Queued(b) /\ held[p] \in Seq(Buf)
  BY <1>1, CurrentHeld, UsedNotQueued, Zenon DEF BInv, HeldInv, HasOne, TypeInv, ProcTypes, Current
<1>3. Len(h) = n - 1 /\ h \in Seq(Buf) /\ \A i \in 1 .. n - 1 : h[i] = held[p][i]
  BY <1>2
<1>4. /\ flags'[b] = flags[b] \ {"BUSY"} /\ \A c \in Buf : c # b => flags'[c] = flags[c]
      /\ held'[p] = h /\ \A q \in Proc : q # p => held'[q] = held[q] /\ pc'[q] = pc[q]
      /\ pc'[p] = IF n = 1 THEN "user" ELSE "use"
  BY <1>1, <1>2, Zenon DEF BInv, TypeInv, BufTypes, ProcTypes
<1> HIDE DEF b, n, h
<1>5. TypeInv'
  <2>1. flags' \in [Buf -> SUBSET Flag]
    BY <1>1, Zenon DEF BInv, TypeInv, BufTypes
  <2>2. held' \in [Proc -> Seq(Buf)] /\ lru' \in [Buf -> Buf]
    BY <1>1, <1>2, <1>3, ToFrontAll, Zenon DEF BInv, TypeInv, ProcTypes
  <2>3. pc' \in [Proc -> {"user", "bget", "iderw", "wait", "use"}]
    BY <1>1 DEF BInv, TypeInv, ProcTypes
  <2>4. QED
    BY <1>1, <2>1, <2>2, <2>3, Zenon DEF BInv, TypeInv, BufTypes, ProcTypes, DiskTypes, device,
       queue
<1>6. \A q \in Proc : \A i \in 1 .. Len(held'[q]) :
        /\ i \in 1 .. Len(held[q]) /\ held'[q][i] = held[q][i] /\ held[q][i] \in Buf
        /\ held[q][i] # b
  <2>1. ASSUME NEW q \in Proc, NEW i \in 1 .. Len(held'[q])
        PROVE i \in 1 .. Len(held[q]) /\ held'[q][i] = held[q][i] /\ ~(q = p /\ i = n)
    BY <1>3, <1>4, SMTT(20) DEF n
  <2>2. \A q \in Proc : \A i \in 1 .. Len(held[q]) : held[q][i] = b => q = p /\ i = n
    BY <1>2 DEF BInv, HeldInv, HeldOnce, n
  <2>3. \A q \in Proc : \A i \in 1 .. Len(held[q]) : held[q][i] \in Buf
    BY DEF BInv, TypeInv, ProcTypes
  <2>4. QED
    BY <2>1, <2>2, <2>3
<1>7. HeldInv'
  <2>1. HeldBusy'
    BY <1>1, <1>4, <1>6, SMTT(20) DEF BInv, HeldInv, HeldBusy, Busy
  <2>2. HeldOnce'
    <3>1. ASSUME NEW q1 \in Proc, NEW q2 \in Proc, NEW i \in 1 .. Len(held'[q1]),
                 NEW j \in 1 .. Len(held'[q2]), held'[q1][i] = held'[q2][j]
          PROVE q1 = q2 /\ i = j
      <4>1. i \in 1 .. Len(held[q1]) /\ j \in 1 .. Len(held[q2]) /\ held[q1][i] = held[q2][j]
        BY <1>6, <3>1
      <4>2. HeldInv
        BY DEF BInv
      <4>3. QED
        BY <4>1, <4>2 DEF HeldInv, HeldOnce
    <3>2. QED
      BY <3>1 DEF HeldOnce
  <2>3. HasOne'
    BY <1>2, <1>3, <1>4 DEF BInv, HeldInv, HasOne
  <2>4. Wanted'
    <3>1. \A q \in Proc : pc'[q] = "bget" => pc[q] = "bget"
      BY <1>4
    <3>2. \A q \in Proc : pc[q] = "bget" => want[q] \in Sector
      BY DEF BInv, HeldInv, Wanted
    <3>3. QED
      BY <1>1, <3>1, <3>2 DEF Wanted
  <2>5. Listed'
    <3>1. \A c \in Buf : \E i \in Buf : ToFront(b)[i] = c
      BY <1>2, ToFrontAll, Zenon DEF BInv
    <3>2. QED
      BY <1>1, <3>1 DEF Listed
  <2>6. QED
    BY <2>1, <2>2, <2>3, <2>4, <2>5 DEF HeldInv
<1>8. \A q \in Proc : q # p => Current(q)' = Current(q)
  BY <1>4 DEF Current
<1>9. QueueInv'
  <2>1. \A c \in Buf : Queued(c) => c # b /\ Owner(c)'
    BY <1>1, <1>2, <1>4, <1>8, QueuedOwner DEF Owner
  <2>2. QED
    BY <1>1, <1>4, <2>1, QueueFrame
<1>10. \A c \in Buf : Finished(c)' <=> Finished(c)
  BY <1>4 DEF Finished
<1>11. Unfinished'
  <2>1. \A q \in Proc : pc'[q] = "iderw" => q # p /\ pc[q] = "iderw"
    BY <1>4
  <2>2. \A q \in Proc : pc[q] = "iderw" => Current(q) \in Buf /\ ~Finished(Current(q))
    BY AtIderw
  <2>3. QED
    BY <1>8, <1>10, <2>1, <2>2 DEF Unfinished
<1>12. OneCopy' /\ Placed' /\ OnDisk'
  BY <1>1, <1>4, <1>10, SMTT(20) DEF BInv, OneCopy, Placed, OnDisk, ValidIsOnDisk, Finished, device
<1>13. QED
  BY <1>5, <1>7, <1>9, <1>11, <1>12 DEF BInv

\* The request of the process goes to the end of the queue.
LEMMA IderwStep == ASSUME BInv, NEW p \in Proc, iderw(p) PROVE BInv'
<1> DEFINE b == Current(p)
           n == Len(idequeue)
<1>1. /\ pc[p] = "iderw" /\ intr = NULL /\ UNCHANGED <<irq, disk, intr, buffers, want, held, lru>>
      /\ idequeue' = Append(idequeue, b) /\ pc' = [pc EXCEPT ![p] = "wait"]
      /\ IF idequeue = <<>> THEN idestart(b) ELSE cmd' = cmd
  BY DEF iderw, At, Goto
<1>2. Len(held[p]) > 0 /\ b \in Buf /\ sector[b] \in Sector /\ ~Queued(b) /\ ~Finished(b)
  BY <1>1, AtIderw
<1>3. /\ idequeue \in Seq(Buf) /\ n \in Nat /\ Len(idequeue') = n + 1 /\ idequeue'[n + 1] = b
      /\ idequeue' \in Seq(Buf) /\ \A i \in 1 .. n : idequeue'[i] = idequeue[i] /\ idequeue[i] # b
  <2>1. idequeue \in Seq(Buf)
    BY DEF BInv, TypeInv, DiskTypes
  <2>2. \A i \in 1 .. n : idequeue[i] # b
    BY <1>2 DEF Queued
  <2> HIDE DEF b
  <2>3. QED
    BY <1>1, <1>2, <2>1, <2>2
<1>4. /\ \A q \in Proc : Current(q)' = Current(q) /\ (q # p => pc'[q] = pc[q])
      /\ pc'[p] = "wait" /\ \A c \in Buf : Finished(c)' <=> Finished(c)
  BY <1>1 DEF BInv, TypeInv, ProcTypes, Current, Finished, buffers
<1>5. Current(p) = b /\ b' = b
  BY <1>4
<1> HIDE DEF b, n
<1>6. TypeInv'
  BY <1>1, <1>3, Zenon DEF BInv, TypeInv, BufTypes, ProcTypes, DiskTypes, buffers
<1>7. HeldInv'
  <2>1. Listed' /\ HeldBusy' /\ HeldOnce'
    BY <1>1 DEF BInv, HeldInv, Listed, HeldBusy, HeldOnce, buffers, Busy
  <2>2. Wanted' /\ HasOne'
    BY <1>1, <1>2, <1>4 DEF BInv, HeldInv, Wanted, HasOne
  <2>3. QED
    BY <2>1, <2>2 DEF HeldInv
<1>8. \A i \in 1 .. Len(idequeue') : i = n + 1 \/ i \in 1 .. n
  BY <1>3
<1>9. Waited'
  <2>1. ASSUME NEW c \in Buf, Queued(c)' PROVE c = b \/ Queued(c)
    BY <1>1, <1>3, <1>8, <2>1 DEF Queued, n
  <2>2. Owner(b)'
    BY <1>4, <1>5 DEF Owner
  <2>3. \A c \in Buf : Queued(c) => Owner(c)'
    BY <1>1, <1>4, QueuedOwner DEF Owner
  <2>4. QED
    BY <1>2, <1>4, <1>5, <2>1, <2>2, <2>3, Zenon DEF BInv, QueueInv, Waited
<1>10. (\A i, j \in 1 .. Len(idequeue) : idequeue[i] = idequeue[j] => i = j)'
  BY <1>3, <1>8 DEF BInv, QueueInv, QueueOnce, n
<1>11. (\A i \in 1 .. Len(idequeue) : idequeue[i] # intr)' /\ idequeue' # <<>>
  <2>1. b # NULL /\ \A i \in 1 .. n : idequeue[i] # NULL
    BY <1>2, <1>3, BufAssumption DEF n
  <2>2. QED
    BY <1>1, <1>3, <1>8, <2>1
<1>12. HeadCommand'
  <2>1. CASE idequeue = <<>>
    <3>1. Head(idequeue') = b
      BY <1>3, <2>1 DEF n
    <3>2. ~irq
      BY <1>1, <2>1, Zenon DEF BInv, QueueInv, DiskInv
    <3>3. QED
      BY <1>1, <2>1, <3>1, <3>2 DEF HeadCommand, idestart, Direction, buffers
  <2>2. CASE idequeue # <<>>
    <3>1. Head(idequeue') = Head(idequeue)
      BY <1>3, <2>2, HeadQueued DEF BInv, n
    <3>2. QED
      BY <1>1, <2>2, <3>1, Zenon DEF BInv, QueueInv, DiskInv, HeadCommand, Direction, buffers
  <2>3. QED
    BY <2>1, <2>2
<1>13. QueueInv'
  BY <1>1, <1>9, <1>10, <1>11, <1>12, Zenon DEF QueueInv, QueueOnce, DiskInv
<1>14. Unfinished'
  <2>1. \A q \in Proc : pc'[q] = "iderw" =>
          pc[q] = "iderw" /\ Current(q) \in Buf /\ ~Finished(Current(q))
    BY <1>4, AtIderw
  <2>2. QED
    BY <1>4, <2>1 DEF Unfinished
<1>15. OneCopy' /\ Placed' /\ OnDisk'
  BY <1>1, Zenon DEF BInv, OneCopy, Placed, OnDisk, ValidIsOnDisk, buffers
<1>16. QED
  BY <1>6, <1>7, <1>13, <1>14, <1>15, Zenon DEF BInv

\* The process sleeps again, or goes on when its buffer is done, which is then not queued.
LEMMA WaitStep == ASSUME BInv, NEW p \in Proc, iderw_wait(p) PROVE BInv'
<1>1. /\ pc[p] = "wait" /\ UNCHANGED <<device, queue, buffers, want, held, lru>>
      /\ pc' = pc \/ (Finished(Current(p)) /\ pc' = [pc EXCEPT ![p] = "use"])
  BY DEF iderw_wait, At, Goto
<1>2. TypeInv'
  <2>1. BufTypes' /\ DiskTypes'
    BY <1>1 DEF BInv, TypeInv, BufTypes, DiskTypes, device, queue, buffers
  <2>2. ProcTypes'
    BY <1>1 DEF BInv, TypeInv, ProcTypes
  <2>3. QED
    BY <2>1, <2>2 DEF TypeInv
<1>3. HeldInv'
  <2>1. Listed' /\ HeldBusy' /\ HeldOnce'
    BY <1>1, SMTT(20) DEF BInv, HeldInv, Listed, HeldBusy, HeldOnce, buffers, Busy
  <2>2. Wanted' /\ HasOne'
    BY <1>1 DEF BInv, TypeInv, ProcTypes, HeldInv, Wanted, HasOne
  <2>3. QED
    BY <2>1, <2>2 DEF HeldInv
<1>4. QueueInv'
  <2>1. ASSUME NEW c \in Buf, Queued(c) PROVE Owner(c)'
    <3>1. PICK q \in Proc : pc[q] = "wait" /\ Current(q) = c /\ ~Finished(c)
      BY <2>1, QueuedOwner
    <3>2. pc'[q] = "wait" /\ Current(q)' = c
      BY <1>1, <3>1 DEF BInv, TypeInv, ProcTypes, Current
    <3>3. QED
      BY <3>2 DEF Owner
  <2>2. QED
    BY <1>1, <2>1, QueueFrame, SMTT(20) DEF buffers
<1>5. Unfinished'
  BY <1>1, Zenon DEF BInv, TypeInv, ProcTypes, Unfinished, Finished, Current, buffers
<1>6. OneCopy' /\ Placed' /\ OnDisk'
  BY <1>1 DEF BInv, OneCopy, Placed, OnDisk, ValidIsOnDisk, buffers, device
<1>7. QED
  BY <1>2, <1>3, <1>4, <1>5, <1>6 DEF BInv

\* What a queued buffer has: a sector, and no other buffer with it.
LEMMA QueuedPlaced ==
  ASSUME BInv, NEW b \in Buf, Queued(b)
  PROVE /\ sector[b] \in Sector /\ ~Finished(b)
        /\ \A c \in Buf : c # b /\ flags[c] # {} => sector[c] \in Sector /\ sector[c] # sector[b]
<1>1. PICK p \in Proc : pc[p] = "wait" /\ Current(p) = b
  BY QueuedOwner
<1>2. sector[b] \in Sector
  BY <1>1, Holding
<1>3. QED
  BY <1>2, QueuedOwner, SectorAssumption, SMTT(20) DEF BInv, OneCopy, Placed

\* The disk carries out the command of the first buffer, which is not finished: the
\* sector it writes is in no other buffer.
LEMMA DiskStep == ASSUME BInv, disk_done PROVE BInv'
<1> DEFINE b == Head(idequeue)
<1>1. /\ cmd # NULL /\ ~irq /\ UNCHANGED <<cmd, queue, buffers, procs, lru>> /\ irq' = TRUE
      /\ disk' = IF cmd.write THEN [disk EXCEPT ![cmd.sector] = cmd.data] ELSE disk
  BY DEF disk_done
<1>2. intr = NULL /\ idequeue # <<>>
  BY <1>1 DEF BInv, QueueInv, DiskInv
<1>3. cmd.write = Direction(b) /\ cmd.sector = sector[b] /\ cmd.data = data[b] /\ b \in Buf /\ Queued(b)
  <2>1. cmd = [write |-> Direction(b), sector |-> sector[b], data |-> data[b]]
    BY <1>2, Zenon DEF BInv, QueueInv, DiskInv, HeadCommand
  <2>2. b \in Buf /\ Queued(b)
    BY <1>2, HeadQueued DEF BInv
  <2> HIDE DEF b
  <2>3. QED
    BY <2>1, <2>2
<1>4. sector[b] \in Sector /\ ~Finished(b) /\ data[b] \in Val
  BY <1>3, QueuedPlaced, Zenon DEF BInv, TypeInv, BufTypes
<1>5. /\ disk' \in [Sector -> Val] /\ (Direction(b) => disk'[sector[b]] = data[b])
      /\ \A s \in Sector : s # sector[b] => disk'[s] = disk[s]
  BY <1>1, <1>3, <1>4, Zenon DEF BInv, TypeInv, DiskTypes
<1>6. b' = b
  BY <1>1 DEF queue
<1> HIDE DEF b
<1>7. TypeInv' /\ HeldInv' /\ Unfinished' /\ OneCopy' /\ Placed'
  <2>1. BufTypes' /\ ProcTypes'
    BY <1>1 DEF BInv, TypeInv, BufTypes, ProcTypes, buffers, procs
  <2>2. DiskTypes'
    BY <1>1, <1>5 DEF BInv, TypeInv, DiskTypes, queue
  <2>3. HeldInv'
    BY <1>1, HeldFrame DEF BInv, Busy, buffers
  <2>4. Unfinished' /\ OneCopy' /\ Placed'
    BY <1>1 DEF BInv, Unfinished, OneCopy, Placed, Finished, Current, buffers, procs
  <2>5. QED
    BY <2>1, <2>2, <2>3, <2>4 DEF TypeInv
<1>8. QueueInv'
  <2>1. Waited' /\ QueueOnce'
    BY <1>1 DEF BInv, QueueInv, Waited, QueueOnce, Queued, Finished, Owner, Current, queue, buffers,
       procs
  <2>2. HeadCommand
    BY <1>2 DEF BInv, QueueInv, DiskInv
  <2>3. HeadCommand'
    BY <1>1, <1>5, <2>2, SMTT(20) DEF HeadCommand, b, Direction, queue, buffers
  <2>4. DiskInv'
    BY <1>1, <1>2, <2>3 DEF DiskInv, queue
  <2>5. QED
    BY <2>1, <2>4 DEF QueueInv
<1>9. OnDisk'
  <2>1. \A c \in Buf : Finished(c) => c # b /\ flags[c] # {}
    BY <1>4 DEF Finished
  <2>2. \A c \in Buf : Finished(c) => disk'[sector[c]] = disk[sector[c]]
    BY <1>3, <1>5, <2>1, QueuedPlaced, SMTT(20)
  <2>3. QED
    BY <1>1, <2>2 DEF BInv, OnDisk, ValidIsOnDisk, Finished, buffers
<1>10. QED
  BY <1>7, <1>8, <1>9 DEF BInv

\* The interrupt handler takes the first buffer off the queue and gives it its data.
LEMMA IntrStep == ASSUME BInv, ideintr PROVE BInv'
<1> DEFINE b == Head(idequeue)
           n == Len(idequeue)
<1>1. /\ irq /\ intr = NULL /\ UNCHANGED <<disk, sector, flags, procs, lru>>
      /\ irq' = FALSE /\ cmd' = NULL /\ intr' = b /\ idequeue' = Tail(idequeue)
      /\ \/ "DIRTY" \notin flags[b] /\ data' = [data EXCEPT ![b] = disk[cmd.sector]]
         \/ ("DIRTY" \in flags[b] \/ ReadErrors) /\ data' = data
  BY DEF ideintr
<1>2. idequeue # <<>>
  BY <1>1 DEF BInv, QueueInv, Waited, QueueOnce, DiskInv
<1>3. /\ cmd.sector = sector[b] /\ b \in Buf /\ Queued(b) /\ b = idequeue[1]
      /\ "DIRTY" \in flags[b] => disk[sector[b]] = data[b]
  BY <1>1, <1>2, HeadQueued, SMTT(20) DEF BInv, QueueInv, DiskInv, HeadCommand, Direction
<1>4. sector[b] \in Sector /\ ~Finished(b)
  BY <1>3, QueuedPlaced
<1>5. /\ data' \in [Buf -> Val] /\ (ReadErrors \/ data'[b] = disk[sector[b]])
      /\ \A c \in Buf : c # b => data'[c] = data[c]
  <2> HIDE DEF b
  <2>1. data \in [Buf -> Val] /\ disk[sector[b]] \in Val
    BY <1>4, Zenon DEF BInv, TypeInv, BufTypes, DiskTypes
  <2>2. CASE data' = [data EXCEPT ![b] = disk[cmd.sector]]
    BY <1>3, <2>1, <2>2
  <2>3. CASE ("DIRTY" \in flags[b] \/ ReadErrors) /\ data' = data
    BY <1>3, <2>1, <2>3
  <2>4. QED
    BY <1>1, <2>2, <2>3, SMTT(20)
<1>6. /\ idequeue \in Seq(Buf) /\ n \in Nat /\ n > 0 /\ idequeue' \in Seq(Buf) /\ Len(idequeue') = n - 1
      /\ \A i \in 1 .. n - 1 : idequeue'[i] = idequeue[i + 1]
  BY <1>1, <1>2 DEF BInv, TypeInv, BufTypes, ProcTypes, DiskTypes
<1> HIDE DEF b, n
<1>7. TypeInv' /\ HeldInv' /\ Unfinished' /\ OneCopy' /\ Placed'
  <2>1. TypeInv'
    BY <1>1, <1>3, <1>5, <1>6, Zenon DEF BInv, TypeInv, BufTypes, ProcTypes, DiskTypes, procs
  <2>2. HeldInv'
    BY <1>1, HeldFrame DEF BInv, Busy
  <2>3. QED
    BY <1>1, <2>1, <2>2, Zenon DEF BInv, Unfinished, OneCopy, Placed, Finished, Current, procs
<1>8. \A i \in 1 .. Len(idequeue') : i + 1 \in 1 .. n /\ i + 1 # 1 /\ idequeue'[i] = idequeue[i + 1]
  BY <1>6
<1>9. Waited'
  <2>1. ASSUME NEW c \in Buf, Queued(c)' PROVE Queued(c)
    BY <1>1, <1>3, <1>8, <2>1, SMTT(20) DEF Queued, n
  <2>2. \A c \in Buf : (Finished(c)' <=> Finished(c)) /\ (Owner(c)' <=> Owner(c))
    BY <1>1 DEF Finished, Owner, Current, procs
  <2>3. QED
    BY <2>1, <2>2 DEF BInv, QueueInv, Waited
<1>10. (\A i, j \in 1 .. Len(idequeue) : idequeue[i] = idequeue[j] => i = j)'
  <2>1. ASSUME NEW i \in 1 .. Len(idequeue'), NEW j \in 1 .. Len(idequeue'), idequeue'[i] = idequeue'[j]
        PROVE i = j
    <3>1. i + 1 = j + 1
      BY <1>8, <2>1 DEF BInv, QueueInv, QueueOnce, n
    <3>2. QED
      BY <1>6, <3>1
  <2>2. QED
    BY <2>1
<1>11. (\A i \in 1 .. Len(idequeue) : idequeue[i] # intr)'
  <2>1. 1 \in 1 .. n
    BY <1>6
  <2>2. QED
    BY <1>1, <1>3, <1>8, <2>1 DEF BInv, QueueInv, QueueOnce, n
<1>12. intr' # NULL /\ cmd' = NULL /\ ~irq' /\ (ReadErrors \/ (data[intr] = disk[sector[intr]])')
  BY <1>1, <1>3, <1>5, BufAssumption, SMTT(20)
<1>13. QueueInv'
  <2>1. QueueOnce'
    BY <1>10, <1>11 DEF QueueOnce
  <2>2. DiskInv'
    BY <1>12, Zenon DEF DiskInv
  <2>3. QED
    BY <1>9, <2>1, <2>2 DEF QueueInv
<1>14. OnDisk'
  BY <1>1, <1>4, <1>5 DEF BInv, OnDisk, ValidIsOnDisk, Finished
<1>15. QED
  BY <1>7, <1>13, <1>14 DEF BInv

\* The handler marks the buffer and starts the next: no process at iderw or in use of a
\* buffer has this one.
LEMMA FinishStep == ASSUME BInv, ideintr_finish PROVE BInv'
<1>1. /\ intr # NULL /\ UNCHANGED <<irq, disk, idequeue, sector, data, procs, lru>> /\ intr' = NULL
      /\ flags' = [flags EXCEPT ![intr] = (@ \cup {"VALID"}) \ {"DIRTY"}] /\ idestart_next
  BY DEF ideintr_finish
<1>2. intr \in Buf /\ Queued(intr)
  BY <1>1 DEF BInv, TypeInv, DiskTypes, Queued
<1>3. sector[intr] \in Sector /\ cmd = NULL /\ ~irq /\ (ReadErrors \/ data[intr] = disk[sector[intr]])
  BY <1>1, <1>2, QueuedPlaced, Zenon DEF BInv, QueueInv, DiskInv
<1>4. /\ flags'[intr] = (flags[intr] \cup {"VALID"}) \ {"DIRTY"}
      /\ \A c \in Buf : c # intr => flags'[c] = flags[c]
  BY <1>1, <1>2 DEF BInv, TypeInv, BufTypes
<1>5. \A c \in Buf : Queued(c)' => Queued(c) /\ c # intr
  BY <1>1, BufAssumption, Zenon DEF BInv, QueueInv, QueueOnce, Queued
<1>6. TypeInv'
  <2>1. flags' \in [Buf -> SUBSET Flag]
    BY <1>1 DEF BInv, TypeInv, BufTypes, DiskTypes, Flag
  <2>2. QED
    BY <1>1, <2>1, Zenon DEF BInv, TypeInv, BufTypes, ProcTypes, DiskTypes, procs
<1>7. HeldInv'
  <2>1. \A c \in Buf : Busy(c)' <=> Busy(c)
    BY <1>4 DEF Busy
  <2>2. QED
    BY <1>1, <2>1, HeldFrame DEF BInv
<1>8. QueueInv'
  <2>1. Waited'
    BY <1>1, <1>4, <1>5 DEF BInv, QueueInv, Waited, Finished, Owner, Current, procs
  <2>2. (\A i \in 1 .. Len(idequeue) : idequeue[i] # intr)'
    BY <1>1, BufAssumption DEF BInv, TypeInv, DiskTypes
  <2>3. idequeue = <<>> => cmd' = NULL
    BY <1>1, <1>3, SMTT(20) DEF idestart_next
  <2>4. ASSUME idequeue # <<>> PROVE HeadCommand'
    <3>1. Head(idequeue) \in Buf /\ Head(idequeue) # intr
      BY <2>4, HeadQueued DEF BInv, QueueInv, QueueOnce
    <3>2. QED
      BY <1>1, <1>3, <1>4, <2>4, <3>1, SMTT(20) DEF HeadCommand, idestart_next, idestart, Direction
  <2>5. QueueOnce'
    BY <1>1, <2>2 DEF BInv, QueueInv, QueueOnce
  <2>6. DiskInv'
    BY <1>1, <1>3, <2>3, <2>4 DEF DiskInv
  <2>7. QED
    BY <2>1, <2>5, <2>6 DEF QueueInv
<1>9. Unfinished'
  <2>1. \A q \in Proc : pc[q] = "iderw" =>
          Current(q) \in Buf /\ Current(q) # intr /\ ~Finished(Current(q))
    BY <1>2, AtIderw
  <2>2. QED
    BY <1>1, <1>4, <2>1 DEF Unfinished, Finished, Current, procs
<1>10. OneCopy' /\ Placed'
  BY <1>1, <1>3, <1>4 DEF BInv, OneCopy, Placed
<1>11. OnDisk'
  BY <1>1, <1>3, <1>4 DEF BInv, OnDisk, ValidIsOnDisk
<1>12. QED
  BY <1>6, <1>7, <1>8, <1>9, <1>10, <1>11 DEF BInv

----------------------------------------------------------------------------

\* Every step preserves the invariant.
LEMMA BInvNext == BInv /\ [Next]_vars => BInv'
<1> SUFFICES ASSUME BInv, [Next]_vars PROVE BInv'
  OBVIOUS
<1>1. CASE \E p \in Proc : bread(p) \/ bget(p) \/ bwrite(p) \/ brelse(p)
                            \/ iderw(p) \/ iderw_wait(p) \/ kill_proc(p)
  BY <1>1, IdleStep, CachedStep, FreshStep, BwriteStep, BrelseStep, IderwStep, WaitStep DEF bget
<1>2. CASE disk_done \/ Interrupt
  BY <1>2, DiskStep, IntrStep, FinishStep DEF Interrupt
<1>3. CASE UNCHANGED vars
  <2>1. UNCHANGED <<device, queue, buffers, procs, lru>>
    BY <1>3 DEF vars
  <2>2. TypeInv'
    BY <2>1 DEF BInv, TypeInv, BufTypes, ProcTypes, DiskTypes, device, queue, buffers, procs
  <2>3. HeldInv'
    BY <2>1, HeldFrame DEF BInv, Busy, buffers
  <2>4. QueueInv'
    BY <2>1, QueueFrame, Zenon DEF BInv, QueueInv, Waited, Owner, Current, buffers, procs
  <2>5. Unfinished' /\ OneCopy' /\ Placed' /\ OnDisk'
    BY <2>1, Zenon DEF BInv, Unfinished, OneCopy, Placed, OnDisk, ValidIsOnDisk,
    Finished, Current, device, buffers, procs
  <2>6. QED
    BY <2>2, <2>3, <2>4, <2>5 DEF BInv
<1>4. QED
  BY <1>1, <1>2, <1>3 DEF Next

\* However bget, brelse and the driver interleave, no sector is ever in two buffers.
THEOREM OneCopyHolds == Spec => []OneCopy
<1>1. BInv => OneCopy
  BY DEF BInv
<1>2. QED
  BY <1>1, BInvInit, BInvNext, PTL DEF Spec

\* If the disk reads without error, a buffer that is marked valid and not dirty has what
\* is on the disk.
THEOREM ValidIsOnDiskHolds ==
  ASSUME ~ReadErrors
  PROVE Spec => []ValidIsOnDisk
<1>1. BInv => ValidIsOnDisk
  BY DEF BInv, OnDisk
<1>2. QED
  BY <1>1, BInvInit, BInvNext, PTL DEF Spec

----------------------------------------------------------------------------
\* Sleeping

SleepTypes == state \in [Proc -> {"RUNNABLE", "SLEEPING"}] /\ chan \in [Proc -> Buf \cup {NoChan}]

\* A busy buffer is in somebody's hands.
Holds(p, b) == \E i \in 1 .. Len(held[p]) : held[p][i] = b
BusyHeld == \A b \in Buf : Busy(b) => \E p \in Proc : Holds(p, b)

\* Who looks for a buffer holds none, or an indirect block and looks for a block
\* that is not one.
NestedAt(p) ==
  /\ pc[p] = "user" => Len(held[p]) = 0
  /\ pc[p] = "bget" => \A i \in 1 .. Len(held[p]) :
       i = 1 /\ sector[held[p][i]] \in Outer /\ want[p] \notin Outer
Nested == \A p \in Proc : NestedAt(p)

\* Who waits for the disk sleeps on its buffer, which is queued until it is done.
WaitAt(p) == pc[p] = "wait" => chan[p] = Current(p) /\ (Queued(Current(p)) \/ Finished(Current(p)))

\* Who is asleep has a reason that will end: the buffer it looks for is busy, or its
\* request is queued.
SleepAt(p) ==
  state[p] = "SLEEPING" => \/ pc[p] = "bget" /\ chan[p] \in Buf /\ Busy(chan[p]) /\ sector[chan[p]] = want[p]
                           \/ pc[p] = "wait" /\ Queued(Current(p))
Sleepers == \A p \in Proc : WaitAt(p) /\ SleepAt(p)

SInv == SleepTypes /\ BusyHeld /\ Nested /\ Sleepers

----------------------------------------------------------------------------
\* Who waits for whom

\* A process that is not stepping, or only woken: its buffer stays queued or is done, the
\* buffer it looks for stays busy unless it is woken.
LEMMA OtherSleeper ==
  ASSUME BInv, SInv, NEW q \in Proc,
         pc'[q] = pc[q], want'[q] = want[q], chan'[q] = chan[q], held'[q] = held[q],
         state'[q] = state[q] \/ state'[q] = "RUNNABLE",
         \A c \in Buf : Queued(c) => Queued(c)' \/ (Finished(c)' /\ (chan[q] = c => state'[q] = "RUNNABLE")),
         pc[q] = "wait" => (Finished(Current(q)) => (flags[Current(q)] \ {"BUSY"} = flags'[Current(q)] \ {"BUSY"})),
         \A c \in Buf : Busy(c) => sector'[c] = sector[c] /\ (Busy(c)' \/ (chan[q] = c => state'[q] = "RUNNABLE"))
  PROVE WaitAt(q)' /\ SleepAt(q)'
<1>1. CASE pc[q] = "wait"
  <2>1. PICK c \in Buf : c = Current(q)
    BY <1>1, Holding, Zenon
  <2>2. Current(q)' = c /\ chan[q] = c /\ (Queued(c) \/ Finished(c))
    BY <1>1, <2>1, Zenon DEF Current, SInv, Sleepers, WaitAt
  <2>3. Finished(c) => Finished(c)'
    BY <1>1, <2>1 DEF Finished
  <2>4. WaitAt(q)'
    BY <2>2, <2>3, Zenon DEF WaitAt
  <2>5. ASSUME state'[q] = "SLEEPING" PROVE Queued(c)'
    <3>1. state[q] = "SLEEPING" /\ state'[q] # "RUNNABLE"
      BY <2>5, Zenon
    <3>2. Queued(c)
      BY <1>1, <2>1, <3>1, Zenon DEF SInv, Sleepers, SleepAt
    <3>3. QED
      BY <2>2, <3>1, <3>2, Zenon
  <2>6. QED
    BY <1>1, <2>2, <2>4, <2>5, Zenon DEF SleepAt
<1>2. CASE pc[q] # "wait"
  <2>1. WaitAt(q)'
    BY <1>2, Zenon DEF WaitAt
  <2>2. ASSUME state'[q] = "SLEEPING" PROVE SleepAt(q)'
    <3>1. state[q] = "SLEEPING" /\ state'[q] # "RUNNABLE"
      BY <2>2
    <3>2. pc[q] = "bget" /\ chan[q] \in Buf /\ Busy(chan[q]) /\ sector[chan[q]] = want[q]
      BY <1>2, <3>1, Zenon DEF SInv, Sleepers, SleepAt
    <3>3. Busy(chan[q])' /\ sector'[chan[q]] = want[q]
      <4>1. PICK c \in Buf : c = chan[q]
        BY <3>2
      <4>2. Busy(c)' /\ sector'[c] = want[q]
        BY <3>1, <3>2, <4>1, Zenon
      <4>3. Busy(chan[q])'
        BY <4>1, <4>2, Zenon DEF Busy
      <4>4. QED
        BY <4>1, <4>2, <4>3, Zenon
    <3>4. QED
      BY <3>2, <3>3, Zenon DEF SleepAt
  <2>3. QED
    BY <2>1, <2>2, Zenon DEF SleepAt
<1>3. QED
  BY <1>1, <1>2

\* A step that moves no buffer between processes.
LEMMA HandsSame ==
  ASSUME BInv, SInv, held' = held, sector' = sector, \A b \in Buf : Busy(b)' <=> Busy(b)
  PROVE BusyHeld'
  BY Zenon DEF SInv, BusyHeld, Holds

\* Nor one after which nobody looks for another buffer than before.
LEMMA NestedSame ==
  ASSUME BInv, SInv, held' = held, sector' = sector, want' = want,
         \A q \in Proc : pc'[q] = pc[q] \/ pc'[q] \notin {"user", "bget"}
  PROVE Nested'
  BY Zenon DEF SInv, Nested, NestedAt

\* The bget of a process that is not asleep, and its steps that do nothing to buffers.
LEMMA IdleSleepers ==
  ASSUME BInv, SInv, NEW p \in Proc, bread(p) \/ bget_sleep(p) \/ bget_panic(p) \/ kill_proc(p)
  PROVE SInv'
<1>1. /\ idequeue' = idequeue /\ intr' = intr /\ sector' = sector /\ flags' = flags /\ held' = held
  BY DEF bread, bget_sleep, bget_panic, kill_proc, procs, queue, buffers
<1>2. \A c : (Queued(c)' <=> Queued(c)) /\ (Busy(c)' <=> Busy(c)) /\ (Finished(c)' <=> Finished(c))
  BY <1>1, Zenon DEF Queued, Busy, Finished
<1>3. BusyHeld'
  BY <1>1, <1>2, HandsSame
<1>4. ASSUME NEW q \in Proc, pc'[q] = pc[q], want'[q] = want[q], chan'[q] = chan[q],
             state'[q] = state[q] \/ state'[q] = "RUNNABLE"
      PROVE WaitAt(q)' /\ SleepAt(q)'
  BY <1>1, <1>2, <1>4, OtherSleeper, Zenon
<1>5. CASE bread(p)
  <2>1. PICK s \in Sector : Reads(p, s) /\ want' = [want EXCEPT ![p] = s]
    BY <1>5, Zenon DEF bread
  <2>2. pc' = [pc EXCEPT ![p] = "bget"] /\ state' = state /\ chan' = chan
    BY <1>5, Zenon DEF bread, Goto, sleepers
  <2>3. SleepTypes'
    BY <2>2, Zenon DEF SInv, SleepTypes
  <2>4. /\ pc'[p] = "bget" /\ want'[p] = s /\ state[p] = "RUNNABLE"
        /\ \A q \in Proc : q # p => pc'[q] = pc[q] /\ want'[q] = want[q]
    BY <2>1, <2>2 DEF BInv, TypeInv, ProcTypes, Reads, At
  <2>5. ASSUME NEW i \in 1 .. Len(held[p]) PROVE i = 1 /\ sector[held[p][i]] \in Outer /\ s \notin Outer
    <3>1. Len(held[p]) \in Nat
      BY DEF BInv, TypeInv, ProcTypes
    <3>2. pc[p] # "user"
      BY <2>5, <3>1 DEF SInv, Nested, NestedAt
    <3>3. Len(held[p]) = 1 /\ sector[held[p][Len(held[p])]] \in Outer /\ s \notin Outer
      BY <2>1, <3>2, Zenon DEF Reads, At, Current
    <3>4. i = 1
      BY <3>3
    <3>5. QED
      BY <3>3, <3>4
  <2>6. NestedAt(p)'
    BY <1>1, <2>4, <2>5, Zenon DEF NestedAt
  <2>7. \A q \in Proc : q # p => NestedAt(q)'
    BY <1>1, <2>4, Zenon DEF SInv, Nested, NestedAt
  <2>8. WaitAt(p)' /\ SleepAt(p)'
    BY <2>2, <2>4 DEF WaitAt, SleepAt
  <2>9. \A q \in Proc : q # p => WaitAt(q)' /\ SleepAt(q)'
    BY <1>4, <2>2, <2>4, Zenon
  <2>10. QED
    BY <1>3, <2>3, <2>6, <2>7, <2>8, <2>9, Zenon DEF SInv, Nested, Sleepers
<1>6. CASE bget_sleep(p)
  <2>1. PICK b \in Buf : /\ First(b, Cached(want[p])) /\ Busy(b)
                         /\ state' = [state EXCEPT ![p] = "SLEEPING"] /\ chan' = [chan EXCEPT ![p] = b]
    BY <1>6, Zenon DEF bget_sleep, fall_asleep
  <2>2. pc[p] = "bget" /\ pc' = pc /\ want' = want /\ sector[b] = want[p]
    BY <1>6, <2>1, Zenon DEF bget_sleep, At, procs, First, Cached
  <2>3. SleepTypes'
    BY <2>1, Zenon DEF SInv, SleepTypes
  <2>4. Nested'
    BY <1>1, <2>2, NestedSame
  <2>5. chan'[p] = b /\ \A q \in Proc : q # p => state'[q] = state[q] /\ chan'[q] = chan[q]
    BY <2>1 DEF SInv, SleepTypes
  <2>6. WaitAt(p)' /\ SleepAt(p)'
    BY <1>1, <1>2, <2>1, <2>2, <2>5, Zenon DEF WaitAt, SleepAt
  <2>7. \A q \in Proc : q # p => WaitAt(q)' /\ SleepAt(q)'
    BY <1>4, <2>2, <2>5, Zenon
  <2>8. QED
    BY <1>3, <2>3, <2>4, <2>6, <2>7, Zenon DEF SInv, Sleepers
<1>7. CASE bget_panic(p) \/ kill_proc(p)
  <2>1. /\ pc' = pc /\ want' = want /\ chan' = chan
        /\ state' = state \/ state' = [state EXCEPT ![p] = IF @ = "SLEEPING" THEN "RUNNABLE" ELSE @]
    BY <1>7, Zenon DEF bget_panic, kill_proc, kill, procs, sleepers
  <2>2. SleepTypes' /\ \A q \in Proc : state'[q] = state[q] \/ state'[q] = "RUNNABLE"
    BY <2>1 DEF SInv, SleepTypes
  <2>3. Nested'
    BY <1>1, <2>1, NestedSame
  <2>4. Sleepers'
    BY <1>4, <2>1, <2>2, Zenon DEF Sleepers
  <2>5. QED
    BY <1>3, <2>2, <2>3, <2>4, Zenon DEF SInv
<1>8. QED
  BY <1>5, <1>6, <1>7

\* bget gets buffer b, which was idle: nobody sleeps for it.
LEMMA PushSleepers ==
  ASSUME BInv, SInv, NEW p \in Proc, NEW b \in Buf, ~Busy(b), pc[p] = "bget", state[p] = "RUNNABLE",
         NEW l \in {"use", "iderw"}, held' = [held EXCEPT ![p] = Append(@, b)],
         pc' = [pc EXCEPT ![p] = l], want' = [want EXCEPT ![p] = NULL],
         chan' = [chan EXCEPT ![p] = NoChan], state' = state, idequeue' = idequeue, intr' = intr,
         \A c \in Buf : c # b => flags'[c] = flags[c] /\ sector'[c] = sector[c],
         "BUSY" \in flags'[b]
  PROVE SInv'
<1>1. SleepTypes'
  BY Zenon DEF SInv, SleepTypes
<1>2. /\ pc'[p] = l /\ held'[p] = Append(held[p], b)
      /\ \A q \in Proc : q # p => pc'[q] = pc[q] /\ want'[q] = want[q] /\ held'[q] = held[q]
                                  /\ chan'[q] = chan[q] /\ state'[q] = state[q]
  BY Zenon DEF BInv, TypeInv, ProcTypes, SInv, SleepTypes
<1>3. \A c \in Buf : Busy(c) => c # b /\ Busy(c)' /\ sector'[c] = sector[c] /\ flags'[c] = flags[c]
  BY Zenon DEF Busy
<1>4. BusyHeld'
  <2>1. held[p] \in Seq(Buf)
    BY DEF BInv, TypeInv, ProcTypes
  <2>2. /\ Len(Append(held[p], b)) \in 1 .. Len(Append(held[p], b))
        /\ Append(held[p], b)[Len(Append(held[p], b))] = b
        /\ \A i \in 1 .. Len(held[p]) : i \in 1 .. Len(Append(held[p], b)) /\ Append(held[p], b)[i] = held[p][i]
    BY <2>1
  <2>3. Holds(p, b)'
    BY <1>2, <2>2, Zenon DEF Holds
  <2>4. ASSUME NEW q \in Proc, NEW c \in Buf, Holds(q, c) PROVE Holds(q, c)'
    <3>1. PICK i \in 1 .. Len(held[q]) : held[q][i] = c
      BY <2>4, Zenon DEF Holds
    <3>2. i \in 1 .. Len(held'[q]) /\ held'[q][i] = c
      <4>1. CASE q = p
        <5>1. i \in 1 .. Len(held[p]) /\ held[p][i] = c
          BY <3>1, <4>1, Zenon
        <5>2. i \in 1 .. Len(Append(held[p], b)) /\ Append(held[p], b)[i] = c
          BY <2>2, <5>1, Zenon
        <5>3. QED
          BY <1>2, <4>1, <5>2, Zenon
      <4>2. CASE q # p
        BY <1>2, <3>1, <4>2, Zenon
      <4>3. QED
        BY <4>1, <4>2
    <3>3. QED
      BY <3>2, Zenon DEF Holds
  <2>5. \A c \in Buf : c # b /\ Busy(c)' => Busy(c)
    BY Zenon DEF Busy
  <2>6. QED
    BY <2>3, <2>4, <2>5, Zenon DEF SInv, BusyHeld
<1>5. Nested'
  <2>1. NestedAt(p)'
    BY <1>2 DEF NestedAt
  <2>2. ASSUME NEW q \in Proc, q # p PROVE NestedAt(q)'
    <3>1. \A i \in 1 .. Len(held[q]) : held[q][i] \in Buf /\ Busy(held[q][i])
      BY DEF BInv, TypeInv, ProcTypes, HeldInv, HeldBusy
    <3>2. \A i \in 1 .. Len(held[q]) : sector'[held[q][i]] = sector[held[q][i]]
      BY <1>3, <3>1, Zenon
    <3>3. pc'[q] = pc[q] /\ want'[q] = want[q] /\ held'[q] = held[q]
      BY <1>2, <2>2, Zenon
    <3>4. NestedAt(q)
      BY Zenon DEF SInv, Nested
    <3>5. ASSUME pc'[q] = "bget", NEW i \in 1 .. Len(held'[q])
          PROVE i = 1 /\ sector'[held'[q][i]] \in Outer /\ want'[q] \notin Outer
      <4>1. i \in 1 .. Len(held[q]) /\ pc[q] = "bget"
        BY <3>3, <3>5, Zenon
      <4>2. i = 1 /\ sector[held[q][i]] \in Outer /\ want[q] \notin Outer
        BY <3>4, <4>1, Zenon DEF NestedAt
      <4>3. QED
        BY <3>2, <3>3, <4>1, <4>2, Zenon
    <3>6. pc'[q] = "user" => Len(held'[q]) = 0
      BY <3>3, <3>4, Zenon DEF NestedAt
    <3>7. QED
      BY <3>5, <3>6, Zenon DEF NestedAt
  <2>3. QED
    BY <2>1, <2>2, Zenon DEF Nested
<1>6. WaitAt(p)' /\ SleepAt(p)'
  BY <1>2, SMTT(30) DEF WaitAt, SleepAt
<1>7. ASSUME NEW q \in Proc, q # p PROVE WaitAt(q)' /\ SleepAt(q)'
  <2>1. \A c \in Buf : Queued(c) => Queued(c)'
    BY Zenon DEF Queued
  <2>2. pc[q] = "wait" => flags'[Current(q)] = flags[Current(q)]
    BY <1>3, Holding, SMTT(30)
  <2>3. QED
    BY <1>2, <1>3, <1>7, <2>1, <2>2, OtherSleeper, Zenon
<1>8. QED
  BY <1>1, <1>4, <1>5, <1>6, <1>7, Zenon DEF SInv, Sleepers

\* The two ways in which bget gets a buffer.
LEMMA BgetSleepers ==
  ASSUME BInv, SInv, NEW p \in Proc, bget_cached(p) \/ bget_fresh(p)
  PROVE SInv'
<1>1. /\ pc[p] = "bget" /\ state[p] = "RUNNABLE" /\ state' = state /\ idequeue' = idequeue /\ intr' = intr
      /\ want' = [want EXCEPT ![p] = NULL] /\ chan' = [chan EXCEPT ![p] = NoChan]
  BY Zenon DEF bget_cached, bget_fresh, At, queue
<1>2. CASE bget_cached(p)
  <2>1. PICK b \in Buf :
          /\ ~Busy(b)
          /\ flags' = [flags EXCEPT ![b] = @ \cup {"BUSY"}]
          /\ held' = [held EXCEPT ![p] = Append(@, b)]
          /\ pc' = [pc EXCEPT ![p] = IF "VALID" \in flags[b] THEN "use" ELSE "iderw"]
    BY <1>2, Zenon DEF bget_cached, Goto
  <2>2. PICK l \in {"use", "iderw"} : pc' = [pc EXCEPT ![p] = l]
    BY <2>1, Zenon
  <2>3. sector' = sector
    BY <1>2, Zenon DEF bget_cached
  <2>4. "BUSY" \in flags'[b] /\ \A c \in Buf : c # b => flags'[c] = flags[c]
    BY <2>1 DEF BInv, TypeInv, BufTypes
  <2>5. QED
    BY <1>1, <2>1, <2>2, <2>3, <2>4, PushSleepers, Zenon
<1>3. CASE bget_fresh(p)
  <2>1. PICK b \in Buf :
          /\ Last(b, Idle)
          /\ sector' = [sector EXCEPT ![b] = want[p]]
          /\ flags' = [flags EXCEPT ![b] = {"BUSY"}]
          /\ held' = [held EXCEPT ![p] = Append(@, b)]
    BY <1>3, Zenon DEF bget_fresh
  <2>2. ~Busy(b)
    BY <2>1, Zenon DEF Last, Idle
  <2>3. pc' = [pc EXCEPT ![p] = "iderw"]
    BY <1>3, Zenon DEF bget_fresh, Goto
  <2>4. "BUSY" \in flags'[b] /\ \A c \in Buf : c # b => flags'[c] = flags[c] /\ sector'[c] = sector[c]
    BY <2>1 DEF BInv, TypeInv, BufTypes
  <2>5. QED
    BY <1>1, <2>1, <2>2, <2>3, <2>4, PushSleepers, Zenon
<1>4. QED
  BY <1>2, <1>3

\* The holder gives its last buffer back and wakes all who sleep for it.
LEMMA BrelseSleepers == ASSUME BInv, SInv, NEW p \in Proc, brelse(p) PROVE SInv'
<1> DEFINE b == Current(p)
           n == Len(held[p])
           h == SubSeq(held[p], 1, n - 1)
<1>1. /\ pc[p] = "use" /\ state[p] = "RUNNABLE"
      /\ idequeue' = idequeue /\ intr' = intr /\ sector' = sector /\ want' = want /\ chan' = chan
      /\ flags' = [flags EXCEPT ![b] = @ \ {"BUSY"}] /\ state' = wakeup1(state, b)
      /\ held' = [held EXCEPT ![p] = h]
      /\ pc' = [pc EXCEPT ![p] = IF n = 1 THEN "user" ELSE "use"]
  BY Zenon DEF brelse, brelse_wakes, At, Goto, queue
<1>2. /\ n > 0 /\ n \in Nat /\ b \in Buf /\ b = held[p][n] /\ held[p] \in Seq(Buf)
  BY <1>1, CurrentHeld, Zenon DEF BInv, HeldInv, HasOne, TypeInv, ProcTypes, Current
<1>3. /\ Len(h) = n - 1 /\ \A i \in 1 .. n - 1 : h[i] = held[p][i]
      /\ \A i \in 1 .. n : i = n \/ i \in 1 .. n - 1
  BY <1>2
<1> HIDE DEF b, n, h
<1>4. /\ \A c \in Buf : c # b => flags'[c] = flags[c]
      /\ flags'[b] = flags[b] \ {"BUSY"}
      /\ held'[p] = h /\ \A q \in Proc : q # p => held'[q] = held[q] /\ pc'[q] = pc[q]
      /\ pc'[p] = IF n = 1 THEN "user" ELSE "use"
  BY <1>1, <1>2, Zenon DEF BInv, TypeInv, BufTypes, ProcTypes
<1>5. /\ SleepTypes' /\ state'[p] = "RUNNABLE"
      /\ \A q \in Proc : (state'[q] = state[q] \/ state'[q] = "RUNNABLE")
                         /\ (chan[q] = b => state'[q] = "RUNNABLE")
  BY <1>1 DEF wakeup1, SInv, SleepTypes
<1>6. BusyHeld'
  <2>1. ASSUME NEW c \in Buf, Busy(c)' PROVE \E q \in Proc : Holds(q, c)'
    <3>1. c # b /\ Busy(c)
      BY <1>4, <2>1, Zenon DEF Busy
    <3>2. PICK q \in Proc : Holds(q, c)
      BY <3>1, Zenon DEF SInv, BusyHeld
    <3>3. PICK i \in 1 .. Len(held[q]) : held[q][i] = c
      BY <3>2, Zenon DEF Holds
    <3>4. CASE q = p
      <4>1. i \in 1 .. n - 1
        BY <1>2, <1>3, <3>1, <3>3, <3>4, Zenon DEF n
      <4>2. i \in 1 .. Len(held'[p]) /\ held'[p][i] = c
        BY <1>3, <1>4, <3>3, <3>4, <4>1, Zenon
      <4>3. QED
        BY <4>2, Zenon DEF Holds
    <3>5. CASE q # p
      BY <1>4, <3>3, <3>5, Zenon DEF Holds
    <3>6. QED
      BY <3>4, <3>5
  <2>2. QED
    BY <2>1, Zenon DEF BusyHeld
<1>7. Nested'
  <2>1. NestedAt(p)'
    <3>1. n = 1 => n - 1 = 0
      OBVIOUS
    <3>2. n = 1 => Len(held'[p]) = 0
      BY <1>3, <1>4, <3>1, Zenon
    <3>3. pc'[p] # "bget" /\ (pc'[p] = "user" => n = 1)
      BY <1>4
    <3>4. QED
      BY <3>2, <3>3, Zenon DEF NestedAt
  <2>2. ASSUME NEW q \in Proc, q # p PROVE NestedAt(q)'
    <3>1. pc'[q] = pc[q] /\ held'[q] = held[q] /\ want' = want /\ sector' = sector
      BY <1>1, <1>4, <2>2, Zenon
    <3>2. QED
      BY <3>1, Zenon DEF SInv, Nested, NestedAt
  <2>3. QED
    BY <2>1, <2>2, Zenon DEF Nested
<1>8. WaitAt(p)' /\ SleepAt(p)'
  BY <1>4, <1>5, Zenon DEF WaitAt, SleepAt
<1>9. ASSUME NEW q \in Proc, q # p PROVE WaitAt(q)' /\ SleepAt(q)'
  <2>1. \A c \in Buf : Queued(c) => Queued(c)'
    BY <1>1, Zenon DEF Queued
  <2>2. \A c \in Buf : flags'[c] \ {"BUSY"} = flags[c] \ {"BUSY"}
    BY <1>2, <1>4, SMTT(30)
  <2>3. pc[q] = "wait" => flags'[Current(q)] \ {"BUSY"} = flags[Current(q)] \ {"BUSY"}
    BY <2>2, Holding
  <2>4. \A c \in Buf : Busy(c) => Busy(c)' \/ (chan[q] = c => state'[q] = "RUNNABLE")
    BY <1>4, <1>5, Zenon DEF Busy
  <2>5. QED
    BY <1>1, <1>4, <1>5, <1>9, <2>1, <2>3, <2>4, OtherSleeper, Zenon
<1>10. QED
  BY <1>5, <1>6, <1>7, <1>8, <1>9, Zenon DEF SInv, Sleepers

\* bwrite, and the two halves of iderw.
LEMMA DriverSleepers ==
  ASSUME BInv, SInv, NEW p \in Proc, bwrite(p) \/ iderw(p) \/ iderw_wait(p)
  PROVE SInv'
<1> DEFINE b == Current(p)
<1>1. pc[p] \in {"use", "iderw", "wait"} /\ state[p] = "RUNNABLE"
  BY Zenon DEF bwrite, iderw, iderw_wait, At
<1>2. b \in Buf
  BY <1>1, Holding
<1>3. sector' = sector /\ want' = want /\ held' = held /\ intr' = intr
  BY Zenon DEF bwrite, iderw, iderw_wait, buffers, queue
<1> HIDE DEF b
<1>4. ASSUME SleepTypes', \A c \in Buf : Busy(c)' <=> Busy(c), pc'[p] \notin {"user", "bget"},
             \A c \in Buf : Queued(c) => Queued(c)', WaitAt(p)', SleepAt(p)',
             \A c \in Buf : flags'[c] = flags[c] \/ (c = b /\ pc[p] = "use"),
             \A q \in Proc : q # p => pc'[q] = pc[q] /\ chan'[q] = chan[q] /\ state'[q] = state[q]
      PROVE SInv'
  <2>1. BusyHeld'
    BY <1>3, <1>4, HandsSame
  <2>2. Nested'
    BY <1>3, <1>4, NestedSame, Zenon
  <2>3. ASSUME NEW q \in Proc, q # p PROVE WaitAt(q)' /\ SleepAt(q)'
    <3>1. ASSUME pc[q] = "wait" PROVE flags'[Current(q)] = flags[Current(q)]
      <4>1. Current(q) \in Buf /\ Len(held[q]) > 0 /\ Len(held[p]) > 0
        BY <1>1, <3>1, Holding
      <4>2. Current(q) # b
        BY <2>3, <4>1, CurrentApart, Zenon DEF b, BInv
      <4>3. QED
        BY <1>4, <4>1, <4>2, Zenon
    <3>2. QED
      BY <1>3, <1>4, <2>3, <3>1, OtherSleeper, Zenon
  <2>4. QED
    BY <1>4, <2>1, <2>2, <2>3, Zenon DEF SInv, Sleepers
<1>5. CASE bwrite(p)
  <2>1. /\ pc[p] = "use" /\ flags' = [flags EXCEPT ![b] = @ \cup {"DIRTY"}] /\ pc' = [pc EXCEPT ![p] = "iderw"]
        /\ state' = state /\ chan' = chan /\ idequeue' = idequeue
    BY <1>5, Zenon DEF bwrite, At, Goto, sleepers, queue, b
  <2>2. /\ pc'[p] = "iderw" /\ \A q \in Proc : q # p => pc'[q] = pc[q]
        /\ flags'[b] = flags[b] \cup {"DIRTY"} /\ \A c \in Buf : c # b => flags'[c] = flags[c]
    BY <1>2, <2>1, Zenon DEF BInv, TypeInv, BufTypes, ProcTypes
  <2>3. \A c \in Buf : Busy(c)' <=> Busy(c)
    BY <2>2 DEF Busy
  <2>4. SleepTypes' /\ \A c \in Buf : Queued(c) => Queued(c)'
    BY <1>3, <2>1, Zenon DEF SInv, SleepTypes, Queued
  <2>5. WaitAt(p)' /\ SleepAt(p)'
    BY <1>1, <2>1, <2>2, SMTT(30) DEF WaitAt, SleepAt
  <2>6. QED
    BY <1>4, <2>1, <2>2, <2>3, <2>4, <2>5, SMTT(30)
<1>6. CASE iderw(p)
  <2>1. /\ idequeue' = Append(idequeue, b) /\ chan' = [chan EXCEPT ![p] = b] /\ flags' = flags
        /\ state' = [state EXCEPT ![p] = "SLEEPING"] /\ pc' = [pc EXCEPT ![p] = "wait"]
    BY <1>6, Zenon DEF iderw, Goto, buffers, fall_asleep, b
  <2>2. /\ pc'[p] = "wait" /\ chan'[p] = b
        /\ \A q \in Proc : q # p => pc'[q] = pc[q] /\ chan'[q] = chan[q] /\ state'[q] = state[q]
    BY <2>1, Zenon DEF BInv, TypeInv, ProcTypes, SInv, SleepTypes
  <2>3. SleepTypes' /\ \A c \in Buf : Busy(c)' <=> Busy(c)
    BY <1>2, <2>1, Zenon DEF SInv, SleepTypes, Busy
  <2>4. /\ Len(Append(idequeue, b)) \in 1 .. Len(Append(idequeue, b))
        /\ Append(idequeue, b)[Len(Append(idequeue, b))] = b
        /\ \A i \in 1 .. Len(idequeue) :
             i \in 1 .. Len(Append(idequeue, b)) /\ Append(idequeue, b)[i] = idequeue[i]
    <3>1. idequeue \in Seq(Buf)
      BY DEF BInv, TypeInv, DiskTypes
    <3>2. QED
      BY <1>2, <3>1
  <2>5. ASSUME NEW c \in Buf, Queued(c) \/ c = b PROVE Queued(c)'
    <3>1. PICK Q : Q = Append(idequeue, b)
      BY Zenon
    <3>2. idequeue' = Q /\ intr' = intr
      BY <1>3, <2>1, <3>1, Zenon
    <3>3. CASE c = b
      BY <2>4, <3>1, <3>2, <3>3, Zenon DEF Queued
    <3>4. CASE \E i \in 1 .. Len(idequeue) : idequeue[i] = c
      BY <2>4, <3>1, <3>2, <3>4, Zenon DEF Queued
    <3>5. CASE c = intr
      BY <3>2, <3>5, Zenon DEF Queued
    <3>6. QED
      BY <2>5, <3>3, <3>4, <3>5, Zenon DEF Queued
  <2>6. Current(p)' = b
    BY <1>3, Zenon DEF Current, b
  <2>7. WaitAt(p)' /\ SleepAt(p)'
    BY <1>2, <2>2, <2>5, <2>6, Zenon DEF WaitAt, SleepAt
  <2>8. QED
    BY <1>4, <2>1, <2>2, <2>3, <2>5, <2>7, SMTT(30)
<1>7. CASE iderw_wait(p)
  <2>1. pc[p] = "wait" /\ flags' = flags /\ idequeue' = idequeue
    BY <1>7, Zenon DEF iderw_wait, At, buffers, queue
  <2>2. /\ \A c \in Buf : Busy(c)' <=> Busy(c)
        /\ \A c \in Buf : Queued(c) => Queued(c)'
        /\ Current(p)' = b
    BY <1>3, <2>1, Zenon DEF Busy, Queued, Current, b
  <2>3. CASE Finished(b)
    <3>1. pc' = [pc EXCEPT ![p] = "use"] /\ chan' = [chan EXCEPT ![p] = NoChan] /\ state' = state
      BY <1>7, <2>3, Zenon DEF iderw_wait, Goto, b
    <3>2. pc'[p] = "use" /\ \A q \in Proc : q # p => pc'[q] = pc[q] /\ chan'[q] = chan[q]
      BY <3>1, Zenon DEF BInv, TypeInv, ProcTypes, SInv, SleepTypes
    <3>3. SleepTypes'
      BY <3>1, Zenon DEF SInv, SleepTypes
    <3>4. WaitAt(p)' /\ SleepAt(p)'
      BY <1>1, <3>1, <3>2, Zenon DEF WaitAt, SleepAt
    <3>5. QED
      BY <1>4, <2>1, <2>2, <3>1, <3>2, <3>3, <3>4
  <2>4. CASE ~Finished(b)
    <3>1. pc' = pc /\ chan' = chan /\ state' = [state EXCEPT ![p] = "SLEEPING"]
      BY <1>7, <2>4, Zenon DEF iderw_wait, fall_asleep, b
    <3>2. SleepTypes' /\ \A q \in Proc : q # p => state'[q] = state[q]
      BY <3>1, Zenon DEF SInv, SleepTypes
    <3>3. chan[p] = b /\ Queued(b)
      BY <2>1, <2>4, Zenon DEF SInv, Sleepers, WaitAt, b
    <3>4. WaitAt(p)' /\ SleepAt(p)'
      BY <1>2, <2>1, <2>2, <3>1, <3>3, Zenon DEF WaitAt, SleepAt
    <3>5. pc'[p] = "wait"
      BY <2>1, <3>1
    <3>6. QED
      BY <1>4, <2>1, <2>2, <3>1, <3>2, <3>4, <3>5, Zenon
  <2>5. QED
    BY <2>3, <2>4
<1>8. QED
  BY <1>5, <1>6, <1>7

\* The disk and its interrupt: what leaves the queue is done, and its owner is woken.
LEMMA DiskSleepers ==
  ASSUME BInv, SInv, disk_done \/ ideintr \/ ideintr_finish \/ UNCHANGED vars
  PROVE SInv'
<1>1. sector' = sector /\ pc' = pc /\ want' = want /\ held' = held /\ chan' = chan
  BY Zenon DEF disk_done, ideintr, ideintr_finish, vars, sleepers, buffers, procs
<1>2. ASSUME SleepTypes', \A c \in Buf : Busy(c)' <=> Busy(c),
             \A q \in Proc : state'[q] = state[q] \/ state'[q] = "RUNNABLE",
             \A c \in Buf, q \in Proc :
               Queued(c) => Queued(c)' \/ (Finished(c)' /\ (chan[q] = c => state'[q] = "RUNNABLE")),
             \A c \in Buf : Finished(c) => flags'[c] = flags[c]
      PROVE SInv'
  <2>1. BusyHeld'
    BY <1>1, <1>2, HandsSame, Zenon
  <2>2. Nested'
    BY <1>1, NestedSame
  <2>3. ASSUME NEW q \in Proc PROVE WaitAt(q)' /\ SleepAt(q)'
    <3>1. pc[q] = "wait" => Current(q) \in Buf
      BY Holding
    <3>2. QED
      BY <1>1, <1>2, <3>1, OtherSleeper, Zenon
  <2>4. QED
    BY <1>2, <2>1, <2>2, <2>3, Zenon DEF SInv, Sleepers
<1>3. CASE disk_done \/ UNCHANGED vars
  <2>1. flags' = flags /\ state' = state /\ idequeue' = idequeue /\ intr' = intr
    BY <1>3, Zenon DEF disk_done, vars, sleepers, buffers, queue
  <2>2. SleepTypes'
    BY <1>1, <2>1, Zenon DEF SInv, SleepTypes
  <2>3. \A c \in Buf : (Busy(c)' <=> Busy(c)) /\ (Queued(c) => Queued(c)')
    BY <2>1, Zenon DEF Busy, Queued
  <2>4. QED
    BY <1>2, <2>1, <2>2, <2>3
<1>4. CASE ideintr
  <2>1. /\ irq /\ intr = NULL /\ flags' = flags /\ state' = state
        /\ intr' = Head(idequeue) /\ idequeue' = Tail(idequeue)
    BY <1>4, Zenon DEF ideintr, sleepers
  <2>2. idequeue # <<>>
    BY <2>1, Zenon DEF BInv, QueueInv, DiskInv
  <2>3. SleepTypes' /\ \A c \in Buf : Busy(c)' <=> Busy(c)
    BY <1>1, <2>1, Zenon DEF SInv, SleepTypes, Busy
  <2>4. \A i \in 1 .. Len(idequeue) :
          idequeue[i] = intr' \/ (i - 1 \in 1 .. Len(idequeue') /\ idequeue'[i - 1] = idequeue[i])
    <3>1. idequeue \in Seq(Buf)
      BY DEF BInv, TypeInv, DiskTypes
    <3>2. QED
      BY <2>1, <2>2, <3>1
  <2>5. \A c \in Buf : Queued(c) => Queued(c)'
    BY <2>1, <2>4, BufAssumption, Zenon DEF Queued
  <2>6. QED
    BY <1>2, <2>1, <2>3, <2>5
<1>5. CASE ideintr_finish
  <2>1. /\ intr # NULL /\ flags' = [flags EXCEPT ![intr] = (@ \cup {"VALID"}) \ {"DIRTY"}]
        /\ state' = wakeup1(state, intr) /\ idequeue' = idequeue
    BY <1>5, Zenon DEF ideintr_finish
  <2>2. intr \in Buf /\ Queued(intr)
    BY <2>1 DEF BInv, TypeInv, DiskTypes, Queued
  <2>3. /\ flags'[intr] = (flags[intr] \cup {"VALID"}) \ {"DIRTY"}
        /\ \A c \in Buf : c # intr => flags'[c] = flags[c]
    BY <2>1, <2>2 DEF BInv, TypeInv, BufTypes
  <2>4. /\ SleepTypes'
        /\ \A q \in Proc : (state'[q] = state[q] \/ state'[q] = "RUNNABLE")
                           /\ (chan[q] = intr => state'[q] = "RUNNABLE")
    BY <1>1, <2>1 DEF wakeup1, SInv, SleepTypes
  <2>5. \A c \in Buf : Busy(c)' <=> Busy(c)
    BY <2>3 DEF Busy
  <2>6. ~Finished(intr)
    BY <2>2, QueuedOwner
  <2>7. \A c \in Buf : Queued(c) => Queued(c)' \/ c = intr
    BY <2>1, Zenon DEF Queued
  <2>8. \A c \in Buf : c = intr => (Finished(c)' /\ ~Finished(c))
    <3>1. \A c \in Buf : c = intr => Finished(c)'
      BY <2>3 DEF Finished
    <3>2. QED
      BY <2>6, <3>1, Zenon
  <2>9. QED
    BY <1>2, <2>3, <2>4, <2>5, <2>7, <2>8, Zenon
<1>6. QED
  BY <1>3, <1>4, <1>5

\* Nobody is asleep at first, and every step keeps a reason for every sleeper.
LEMMA SInvInit == Init => SInv
<1> SUFFICES ASSUME Init PROVE SInv
  OBVIOUS
<1>1. /\ state = [p \in Proc |-> "RUNNABLE"] /\ chan = [p \in Proc |-> NoChan]
      /\ flags = [b \in Buf |-> {}] /\ pc = [p \in Proc |-> "user"] /\ held = [p \in Proc |-> <<>>]
  BY Zenon DEF Init, SleepInit
<1>2. SleepTypes
  BY <1>1 DEF SleepTypes
<1>3. BusyHeld
  BY <1>1 DEF BusyHeld, Busy
<1>4. Nested
  BY <1>1 DEF Nested, NestedAt
<1>5. Sleepers
  BY <1>1 DEF Sleepers, WaitAt, SleepAt
<1>6. QED
  BY <1>2, <1>3, <1>4, <1>5 DEF SInv

\* Every step preserves this invariant.
LEMMA SInvNext == BInv /\ SInv /\ [Next]_vars => SInv'
<1> SUFFICES ASSUME BInv, SInv, [Next]_vars PROVE SInv'
  OBVIOUS
<1>1. CASE \E p \in Proc : bread(p) \/ bget(p) \/ bwrite(p) \/ brelse(p)
                            \/ iderw(p) \/ iderw_wait(p) \/ kill_proc(p)
  BY <1>1, IdleSleepers, BgetSleepers, BrelseSleepers, DriverSleepers, Zenon DEF bget
<1>2. CASE disk_done \/ Interrupt \/ UNCHANGED vars
  BY <1>2, DiskSleepers, Zenon DEF Interrupt
<1>3. QED
  BY <1>1, <1>2, Zenon DEF Next

\* When nothing is queued, a process asleep in bget waits for another one in bget.
LEMMA WaitsForOuter ==
  ASSUME BInv, SInv, NEW p \in Proc, pc[p] = "bget", state[p] = "SLEEPING",
         \A q \in Proc : pc[q] = "bget"
  PROVE want[p] \in Outer /\ \E q \in Proc : want[q] \notin Outer
<1>1. PICK b \in Buf : b = chan[p] /\ Busy(b) /\ sector[b] = want[p]
  BY Zenon DEF SInv, Sleepers, SleepAt
<1>2. PICK q \in Proc : Holds(q, b)
  BY <1>1, Zenon DEF SInv, BusyHeld
<1>3. PICK i \in 1 .. Len(held[q]) : held[q][i] = b
  BY <1>2, Zenon DEF Holds
<1>4. sector[held[q][i]] \in Outer /\ want[q] \notin Outer
  BY <1>3, Zenon DEF SInv, Nested, NestedAt
<1>5. QED
  BY <1>1, <1>3, <1>4, Zenon

\* With any number of processes and buffers, and with a second buffer only taken beside
\* an indirect block: when everybody sleeps, the disk works or its interrupt is handled.
THEOREM NoDeadlockHolds == Spec => []NoDeadlock
<1>1. BInv /\ SInv => NoDeadlock
  <2> SUFFICES ASSUME BInv, SInv, \A p \in Proc : state[p] = "SLEEPING", cmd = NULL, intr = NULL PROVE FALSE
    BY Zenon DEF NoDeadlock
  <2>1. idequeue = <<>>
    <3> SUFFICES ASSUME idequeue # <<>> PROVE FALSE
      OBVIOUS
    <3>1. PICK b \in Buf : b = Head(idequeue) /\ Queued(b)
      BY HeadQueued DEF BInv
    <3>2. cmd = [write |-> Direction(b), sector |-> sector[b], data |-> data[b]]
      BY <3>1, Zenon DEF BInv, QueueInv, DiskInv, HeadCommand
    <3>3. sector[b] \in Sector /\ data[b] \in Val /\ Direction(b) \in BOOLEAN
      <4>1. sector[b] \in Sector
        BY <3>1, QueuedPlaced
      <4>2. data[b] \in Val
        BY DEF BInv, TypeInv, BufTypes
      <4>3. Direction(b) \in BOOLEAN
        <5>1. Direction(b) = TRUE \/ Direction(b) = FALSE
          <6>1. CASE "DIRTY" \in flags[b]
            BY <6>1 DEF Direction
          <6>2. CASE "DIRTY" \notin flags[b]
            BY <6>2 DEF Direction
          <6>3. QED
            BY <6>1, <6>2
        <5>2. QED
          BY <5>1, Zenon
      <4>4. QED
        BY <4>1, <4>2, <4>3
    <3>4. cmd \in Command
      BY <3>2, <3>3 DEF Command
    <3>5. QED
      BY <3>4, NullAssumption
  <2>2. \A b \in Buf : ~Queued(b)
    BY <2>1, BufAssumption DEF Queued
  <2>3. \A p \in Proc : pc[p] = "bget"
    BY <2>2, Holding, Zenon DEF SInv, Sleepers, SleepAt
  <2>4. \A p \in Proc : want[p] \in Outer /\ \E q \in Proc : want[q] \notin Outer
    BY <2>3, WaitsForOuter, Zenon
  <2>5. QED
    BY <2>4, ProcAssumption, Zenon
<1>2. QED
  BY <1>1, BInvInit, BInvNext, SInvInit, SInvNext, PTL DEF Spec
=============================================================================
