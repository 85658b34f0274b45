------------------------------ MODULE Console ------------------------------
(***************************************************************************)
(* The console device (kernel/console.c): the input ring shared by the     *)
(* keyboard and serial interrupts (consoleintr) and the readers            *)
(* (consoleread), and consolewrite.  r, w and e are unsigned ints that     *)
(* wrap around at WORD.  What runs inside input.lock is one step, but for   *)
(* the moment between the test of proc->killed and sleep(), at which kill  *)
(* may come: a reader at "read_sleep" holds the lock.  A handler that      *)
(* finds several characters is that many steps in a row.                   *)
(*                                                                         *)
(* ip is the inode of the device file, which fileread and filewrite lock   *)
(* around the call; how ilock waits is module FileSystem.                  *)
(***************************************************************************)
EXTENDS SleepWakeup, Integers, Sequences, FiniteSetsExt

CONSTANTS WORD, INPUT_BUF,
          Letter,   \* characters without a meaning of their own
          Sizes,    \* byte counts of the read calls
          NoProc

NL == "\n"
EOT == "^D"
Char == Letter \cup {NL, EOT}

\* What getc() returns, 0 being a key release or a prefix.
Key == Letter \cup {NL, EOT, "\r", "^U", "^H", "^P", "0"}

ASSUME RingAssumption ==
  INPUT_BUF \in Nat \ {0} /\ WORD \in Nat /\ WORD > INPUT_BUF /\ WORD % INPUT_BUF = 0
ASSUME ReadAssumption == Sizes \subseteq Nat /\ NoProc \notin Proc

VARIABLES r, w, e, buf,    \* struct input
          iplock,          \* the holder of ip's I_BUSY
          n, target, ret,  \* locals of each consoleread, and its result
          pc

ring == <<r, w, e, buf>>
reading == <<n, target, ret>>
sleepers == <<state, chan, killed>>

\* Before the first interrupt; the slots hold zeros, which nobody reads.
ConsoleInit ==
  /\ r = 0 /\ w = 0 /\ e = 0
  /\ buf = [i \in 0 .. INPUT_BUF - 1 |-> NL]
  /\ iplock = NoProc
  /\ n = [p \in Proc |-> 0] /\ target = n /\ ret = n
  /\ pc = [p \in Proc |-> "user"]

At(p, l) == state[p] = "RUNNABLE" /\ pc[p] = l
Goto(p, l) == pc' = [pc EXCEPT ![p] = l]

\* acquire(&input.lock) succeeds.
InputFree == \A p \in Proc : pc[p] # "read_sleep"

Slots(from, to) ==
  [i \in 1 .. (to - from) % WORD |-> buf[((from + i - 1) % WORD) % INPUT_BUF]]
Ready == Slots(r, w)
Line == Slots(w, e)

----------------------------------------------------------------------------
\* consoleintr(getc), called by kbdintr and uartintr

\* The start of the part of the line that ^U kills.
LineStart ==
  LET ends == {i \in 1 .. Len(Line) : Line[i] = NL} IN
  IF ends = {} THEN w ELSE (w + Max(ends)) % WORD

kill_line(k) == k = "^U" /\ e' = LineStart /\ UNCHANGED <<r, w, buf, state>>

backspace(k) == k = "^H" /\ e # w /\ e' = (e - 1) % WORD /\ UNCHANGED <<r, w, buf, state>>

\* Mutation: one character too many is taken.
Room_more == (e - r) % WORD <= INPUT_BUF

Room == (e - r) % WORD < INPUT_BUF

\* Mutation: the handler does not wake the readers.
insert_quiet(k) ==
  /\ k \notin {"^U", "^H", "^P", "0"} /\ Room
  /\ LET c == IF k = "\r" THEN NL ELSE k IN
     /\ buf' = [buf EXCEPT ![e % INPUT_BUF] = c]
     /\ e' = (e + 1) % WORD
     /\ w' = IF c \in {NL, EOT} \/ e' = (r + INPUT_BUF) % WORD THEN e' ELSE w
  /\ UNCHANGED <<r, state>>

\* default: store the character; the end of a line is for the readers.
insert(k) ==
  /\ k \notin {"^U", "^H", "^P", "0"} /\ Room
  /\ LET c == IF k = "\r" THEN NL ELSE k
         ends == c \in {NL, EOT} \/ (e + 1) % WORD = (r + INPUT_BUF) % WORD IN
     /\ buf' = [buf EXCEPT ![e % INPUT_BUF] = c]
     /\ e' = (e + 1) % WORD
     /\ w' = IF ends THEN e' ELSE w
     /\ state' = IF ends THEN wakeup1(state, "input.r") ELSE state
  /\ UNCHANGED r

\* Every other key leaves the ring as it is; procdump (^P) only prints.
consoleintr ==
  /\ InputFree
  /\ \E k \in Key : kill_line(k) \/ backspace(k) \/ insert(k)
  /\ UNCHANGED <<chan, killed, iplock, reading, pc>>

----------------------------------------------------------------------------
\* consoleread(ip, dst, n), from fileread

\* fileread and filewrite: ilock(f->ip), then readi and writei find a device.
lock_inode(p, call, size) ==
  /\ iplock = NoProc /\ iplock' = p
  /\ n' = [n EXCEPT ![p] = size] /\ target' = [target EXCEPT ![p] = size]
  /\ Goto(p, call)
  /\ UNCHANGED <<ring, sleepers, ret>>

\* iunlock(ip) and target = n, before the device waits for anything.
iunlock(p) ==
  /\ \/ At(p, "read") /\ Goto(p, "consoleread")
     \/ At(p, "write") /\ Goto(p, "consolewrite")
  /\ iplock' = NoProc
  /\ UNCHANGED <<ring, sleepers, reading>>

\* ilock(ip) at the end of consoleread and consolewrite.
ilock(p) ==
  /\ At(p, "ilock") /\ iplock = NoProc /\ iplock' = p
  /\ Goto(p, "iunlock")
  /\ UNCHANGED <<ring, sleepers, reading>>

\* iunlock(f->ip) at the end of fileread and filewrite.
unlock_inode(p) ==
  /\ At(p, "iunlock") /\ iplock' = NoProc
  /\ Goto(p, "return")
  /\ UNCHANGED <<ring, sleepers, reading>>

\* The characters up to and with the first that ends the loop, if there is one.
LoopEnds(p) == {i \in 1 .. Min({n[p], Len(Ready)}) : Ready[i] \in {NL, EOT}}

advance(taken) ==
  /\ r' = (r + taken) % WORD
  /\ UNCHANGED <<w, e, buf>>

leave(p, result) ==
  /\ ret' = [ret EXCEPT ![p] = result]
  /\ n' = [n EXCEPT ![p] = 0] /\ target' = [target EXCEPT ![p] = 0]
  /\ chan' = [chan EXCEPT ![p] = NoChan]
  /\ Goto(p, "ilock")
  /\ UNCHANGED <<state, killed, iplock>>

\* Mutation: ^D is taken even after some characters.
read_end_eof(p) ==
  /\ At(p, "consoleread")
  /\ \E i \in LoopEnds(p) :
       /\ \A j \in LoopEnds(p) : i <= j
       /\ LET copied == IF Ready[i] = EOT THEN i - 1 ELSE i IN
          advance(i) /\ leave(p, target[p] - (n[p] - copied))

\* The loop reaches \n or ^D; a ^D that follows characters is put back.
read_end(p) ==
  /\ At(p, "consoleread")
  /\ \E i \in LoopEnds(p) :
       /\ \A j \in LoopEnds(p) : i <= j
       /\ LET copied == IF Ready[i] = EOT THEN i - 1 ELSE i
              back == Ready[i] = EOT /\ n[p] - copied < target[p] IN
          /\ advance(IF back THEN i - 1 ELSE i)
          /\ leave(p, target[p] - (n[p] - copied))

\* The buffer of the caller is full.
read_full(p) ==
  /\ At(p, "consoleread") /\ LoopEnds(p) = {} /\ Len(Ready) >= n[p]
  /\ advance(n[p]) /\ leave(p, target[p])

\* The ring is empty: give up if killed.
read_wait(p) ==
  /\ At(p, "consoleread") /\ LoopEnds(p) = {} /\ Len(Ready) < n[p]
  /\ advance(Len(Ready))
  /\ \/ killed[p] /\ leave(p, -1)
     \/ /\ ~killed[p]
        /\ n' = [n EXCEPT ![p] = @ - Len(Ready)]
        /\ Goto(p, "read_sleep")
        /\ UNCHANGED <<target, sleepers, iplock, ret>>

\* sleep(&input.r, &input.lock); the loop goes on when the process is woken.
read_sleep(p) ==
  /\ At(p, "read_sleep")
  /\ state' = fall_asleep(state, p)
  /\ chan' = [chan EXCEPT ![p] = "input.r"]
  /\ Goto(p, "consoleread")
  /\ UNCHANGED <<ring, reading, killed, iplock>>

consoleread(p) == (InputFree /\ (read_end(p) \/ read_full(p) \/ read_wait(p))) \/ read_sleep(p)

\* consolewrite(ip, buf, n): all n characters inside cons.lock.
consolewrite(p) ==
  /\ At(p, "consolewrite")
  /\ leave(p, target[p])
  /\ UNCHANGED ring
============================================================================
