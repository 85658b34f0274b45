--------------------------- MODULE DevicesProofs ---------------------------
(***************************************************************************)
(* Proofs about Devices: the console hands out lines as AbstractConsole    *)
(* describes, no reader sleeps beside a line and no end of file is lost,   *)
(* and sys_sleep takes its time.                                           *)
(***************************************************************************)
EXTENDS Devices, TLAPS

----------------------------------------------------------------------------
\* The invariant

Calling == {"user", "read", "write", "consoleread", "consolewrite", "read_sleep", "ilock", "iunlock",
            "return", "sleep", "ticks_sleep", "exit"}

ProcTypes ==
  /\ state \in [Proc -> {"RUNNABLE", "SLEEPING"}]
  /\ chan \in [Proc -> {"input.r", "ticks", NoChan}]
  /\ pc \in [Proc -> Calling]
  /\ n \in [Proc -> Nat] /\ target \in [Proc -> Nat] /\ ret \in [Proc -> Int]

RingTypes ==
  /\ r \in 0 .. WORD - 1 /\ w \in 0 .. WORD - 1 /\ e \in 0 .. WORD - 1
  /\ buf \in [0 .. INPUT_BUF - 1 -> Char]

ClockTypes ==
  /\ ticks \in 0 .. TICKWORD - 1
  /\ ticks0 \in [Proc -> 0 .. TICKWORD - 1]
  /\ nap \in [Proc -> -TICKWORD .. TICKWORD - 1]
  /\ since \in [Proc -> 0 .. TICKWORD]

\* While sys_sleep waits, the difference of the tick counts is the time that went
\* by, until that is more than they can tell.
NapInv ==
  \A p \in Proc :
    /\ pc[p] \notin {"sleep", "ticks_sleep", "return"} => nap[p] = 0
    /\ pc[p] \in {"sleep", "ticks_sleep"} =>
         since[p] = TICKWORD \/ since[p] = (ticks - ticks0[p]) % TICKWORD

\* Who sleeps, and that a reader does so, or is about to, only when it has read
\* all there is.
SleepInv ==
  \A p \in Proc :
    /\ state[p] = "SLEEPING" => \/ chan[p] = "input.r" /\ pc[p] = "consoleread" /\ r = w
                                \/ chan[p] = "ticks" /\ pc[p] = "sleep"
    /\ pc[p] = "read_sleep" => r = w

ReadInv == \A p \in Proc : n[p] <= target[p]

\* How far b is ahead of a.
Gap(a, b) == IF a <= b THEN b - a ELSE b - a + WORD

\* w is between r and e, which are no further apart than the ring is long.
OrderInv == Gap(r, w) + Gap(w, e) = Gap(r, e) /\ Gap(r, e) <= INPUT_BUF

\* The line being typed has no end.
LineInv == \A i \in 1 .. Gap(w, e) : buf[(w + i - 1) % INPUT_BUF] \notin {NL, EOT}

DInv ==
  /\ ProcTypes /\ RingTypes /\ ClockTypes
  /\ NapInv /\ SleptEnough /\ SleepInv /\ ReadInv /\ OrderInv /\ LineInv

----------------------------------------------------------------------------
\* Arithmetic of counters that wrap

\* The difference of two counters.
LEMMA ModDiff ==
  ASSUME NEW M \in Nat \ {0}, NEW a \in 0 .. M - 1, NEW b \in 0 .. M - 1
  PROVE (a - b) % M = IF b <= a THEN a - b ELSE a - b + M
<1>1. CASE b <= a
  <2>1. a - b \in 0 .. M - 1
    BY <1>1
  <2>2. QED
    BY <1>1, <2>1
<1>2. CASE ~(b <= a)
  <2>1. a - b + M \in 0 .. M - 1 /\ a - b = M * (-1) + (a - b + M)
    BY <1>2
  <2>2. QED
    BY <1>2, <2>1
<1>3. QED
  BY <1>1, <1>2

\* A counter that is advanced.
LEMMA ModSum ==
  ASSUME NEW M \in Nat \ {0}, NEW a \in 0 .. M - 1, NEW b \in 0 .. M - 1
  PROVE (a + b) % M = IF a + b < M THEN a + b ELSE a + b - M
<1>1. CASE a + b < M
  BY <1>1
<1>2. CASE ~(a + b < M)
  <2>1. a + b - M \in 0 .. M - 1 /\ a + b = M * 1 + (a + b - M)
    BY <1>2
  <2>2. QED
    BY <1>2, <2>1
<1>3. QED
  BY <1>1, <1>2

\* The ring's length divides WORD, so that wrapping does not change the slot.
LEMMA SlotWrap ==
  ASSUME NEW x \in Nat
  PROVE (x + WORD) % INPUT_BUF = x % INPUT_BUF
<1> DEFINE B == INPUT_BUF
<1>1. B \in Nat \ {0} /\ WORD \in Nat /\ WORD % B = 0
  BY RingAssumption
<1> HIDE DEF B
<1>2. PICK k \in Int : WORD = B * k
  <2>1. WORD = B * (WORD \div B) + (WORD % B) /\ WORD \div B \in Int
    BY <1>1
  <2>2. WORD = B * (WORD \div B)
    BY <1>1, <2>1
  <2>3. QED
    BY <2>1, <2>2
<1>3. PICK q \in Int, m \in 0 .. B - 1 : x = B * q + m /\ x % B = m
  <2>1. x = B * (x \div B) + (x % B) /\ x \div B \in Int /\ x % B \in 0 .. B - 1
    BY <1>1
  <2>2. QED
    BY <2>1
<1>4. x + WORD = B * (q + k) + m
  BY <1>1, <1>2, <1>3
<1>5. (B * (q + k) + m) % B = m
  <2>1. PICK l \in Int : l = q + k
    OBVIOUS
  <2>2. (B * l + m) % B = m
    BY <1>1
  <2>3. QED
    BY <2>1, <2>2
<1>6. QED
  BY <1>3, <1>4, <1>5 DEF B

\* Positions less than the ring's length apart have different slots.
LEMMA SlotsDiffer ==
  ASSUME NEW i \in Nat, NEW j \in Nat, i < j, j - i < INPUT_BUF
  PROVE i % INPUT_BUF # j % INPUT_BUF
<1> DEFINE B == INPUT_BUF
<1>1. B \in Nat \ {0}
  BY RingAssumption
<1> HIDE DEF B
<1> SUFFICES ASSUME i % B = j % B PROVE FALSE
  BY DEF B
<1>2. PICK a \in Int, b \in Int : i = B * a + (i % B) /\ j = B * b + (j % B)
  <2>1. i = B * (i \div B) + (i % B) /\ j = B * (j \div B) + (j % B)
    BY <1>1
  <2>2. i \div B \in Int /\ j \div B \in Int
    BY <1>1
  <2>3. QED
    BY <2>1, <2>2
<1>3. j - i = B * (b - a)
  BY <1>1, <1>2
<1>4. CASE b - a <= 0
  BY <1>1, <1>3, <1>4
<1>5. CASE b - a >= 1
  <2>1. B * (b - a) >= B
    BY <1>1, <1>5
  <2>2. QED
    BY <1>1, <1>3, <2>1 DEF B
<1>6. QED
  BY <1>4, <1>5

\* Distances when an index is moved.
LEMMA GapNext ==
  ASSUME NEW a \in 0 .. WORD - 1, NEW b \in 0 .. WORD - 1, Gap(a, b) < WORD - 1, NEW x, x = (b + 1) % WORD
  PROVE x \in 0 .. WORD - 1 /\ Gap(a, x) = Gap(a, b) + 1
<1>1. WORD \in Nat \ {0} /\ 1 \in 0 .. WORD - 1
  BY RingAssumption
<1>2. x = IF b + 1 < WORD THEN b + 1 ELSE b + 1 - WORD
  BY <1>1, ModSum, Zenon
<1>3. QED
  BY <1>1, <1>2 DEF Gap

\* The index goes back.
LEMMA GapPrev ==
  ASSUME NEW a \in 0 .. WORD - 1, NEW b \in 0 .. WORD - 1, a # b, NEW x, x = (b - 1) % WORD
  PROVE x \in 0 .. WORD - 1 /\ Gap(a, x) = Gap(a, b) - 1
<1>1. WORD \in Nat \ {0} /\ 1 \in 0 .. WORD - 1
  BY RingAssumption
<1>2. x = IF 1 <= b THEN b - 1 ELSE b - 1 + WORD
  BY <1>1, ModDiff
<1>3. QED
  BY <1>1, <1>2 DEF Gap

\* The index behind catches up.
LEMMA GapFrom ==
  ASSUME NEW a \in 0 .. WORD - 1, NEW b \in 0 .. WORD - 1, NEW k \in 0 .. Gap(a, b), NEW x, x = (a + k) % WORD
  PROVE x \in 0 .. WORD - 1 /\ Gap(x, b) = Gap(a, b) - k
<1>1. WORD \in Nat \ {0}
  BY RingAssumption
<1>2. k \in 0 .. WORD - 1
  BY <1>1 DEF Gap
<1>3. x = IF a + k < WORD THEN a + k ELSE a + k - WORD
  BY <1>1, <1>2, ModSum, Zenon
<1>4. QED
  BY <1>1, <1>2, <1>3 DEF Gap

\* The slots after an index that was advanced.
LEMMA SlotFrom ==
  ASSUME NEW a \in 0 .. WORD - 1, NEW k \in 0 .. WORD - 1, NEW x, x = (a + k) % WORD, NEW i \in Nat
  PROVE (x + i) % INPUT_BUF = (a + k + i) % INPUT_BUF
<1>1. WORD \in Nat \ {0}
  BY RingAssumption
<1>2. x = IF a + k < WORD THEN a + k ELSE a + k - WORD
  BY <1>1, ModSum, Zenon
<1>3. CASE a + k < WORD
  BY <1>2, <1>3
<1>4. CASE ~(a + k < WORD)
  <2>1. PICK y \in Nat : y = a + k + i - WORD /\ a + k + i = y + WORD /\ y = x + i
    BY <1>1, <1>2, <1>4
  <2>2. QED
    BY <2>1, SlotWrap
<1>5. QED
  BY <1>3, <1>4

\* The slot of the index ahead.
LEMMA GapSlot ==
  ASSUME NEW a \in 0 .. WORD - 1, NEW b \in 0 .. WORD - 1
  PROVE b = (a + Gap(a, b)) % WORD /\ Gap(a, b) \in 0 .. WORD - 1
<1>1. WORD \in Nat \ {0}
  BY RingAssumption
<1>2. PICK g \in 0 .. WORD - 1 : g = Gap(a, b)
  <2>1. Gap(a, b) \in 0 .. WORD - 1
    BY <1>1 DEF Gap
  <2>2. QED
    BY <2>1
<1>3. (a + g) % WORD = IF a + g < WORD THEN a + g ELSE a + g - WORD
  BY <1>1, ModSum, Zenon
<1>4. QED
  BY <1>1, <1>2, <1>3 DEF Gap

\* The tick after this one.
LEMMA NextTick ==
  ASSUME NEW M \in Nat \ {0}, NEW a \in 0 .. M - 1
  PROVE (a + 1) % M = IF a + 1 < M THEN a + 1 ELSE 0
<1>1. CASE a + 1 < M
  BY <1>1
<1>2. CASE ~(a + 1 < M)
  <2>1. a + 1 = M /\ M = M * 1 + 0 /\ 0 \in 0 .. M - 1
    BY <1>2
  <2>2. M % M = 0
    BY <2>1
  <2>3. QED
    BY <1>2, <2>1, <2>2
<1>3. QED
  BY <1>1, <1>2

\* One more tick has gone by, unless that is too many to be told from none.
LEMMA OneMore ==
  ASSUME NEW M \in Nat \ {0}, NEW a \in 0 .. M - 1, NEW b \in 0 .. M - 1
  PROVE \/ ((a - b) % M) + 1 = M
        \/ ((a - b) % M) + 1 = (((a + 1) % M) - b) % M
<1>1. PICK x \in 0 .. M - 1 : x = (a + 1) % M /\ x = IF a + 1 < M THEN a + 1 ELSE 0
  BY NextTick
<1>2. /\ (a - b) % M = IF b <= a THEN a - b ELSE a - b + M
      /\ (x - b) % M = IF b <= x THEN x - b ELSE x - b + M
  BY ModDiff, Zenon
<1>3. PICK c \in Int, d \in Int : c = (a - b) % M /\ d = (x - b) % M
  BY <1>2
<1>4. c = (IF b <= a THEN a - b ELSE a - b + M) /\ d = IF b <= x THEN x - b ELSE x - b + M
  BY <1>2, <1>3
<1>5. c + 1 = M \/ c + 1 = d
  BY <1>1, <1>4
<1>6. QED
  BY <1>1, <1>3, <1>5

----------------------------------------------------------------------------
\* Sequences

\* A function from 1 .. m is a sequence.
LEMMA FunctionSeq ==
  ASSUME NEW S, NEW m \in Nat, NEW c \in [1 .. m -> S]
  PROVE c \in Seq(S) /\ Len(c) = m
  OBVIOUS

\* Sequences with the same elements are the same.
LEMMA SameSeq ==
  ASSUME NEW S, NEW s \in Seq(S), NEW t \in Seq(S), Len(s) = Len(t), \A k \in 1 .. Len(s) : s[k] = t[k]
  PROVE s = t
<1>1. s \in [1 .. Len(s) -> S] /\ t \in [1 .. Len(s) -> S]
  OBVIOUS
<1>2. QED
  BY <1>1

\* The elements of a sequence that is extended.
LEMMA AppendSeq ==
  ASSUME NEW S, NEW s \in Seq(S), NEW c \in S
  PROVE /\ Append(s, c) \in Seq(S) /\ Len(Append(s, c)) = Len(s) + 1
        /\ Append(s, c)[Len(s) + 1] = c
        /\ \A i \in 1 .. Len(s) : Append(s, c)[i] = s[i]
  OBVIOUS

\* The elements of two sequences put together.
LEMMA ConcatSeq ==
  ASSUME NEW S, NEW s \in Seq(S), NEW t \in Seq(S)
  PROVE /\ s \o t \in Seq(S) /\ Len(s \o t) = Len(s) + Len(t)
        /\ \A i \in 1 .. Len(s) : (s \o t)[i] = s[i]
        /\ \A j \in 1 .. Len(t) : (s \o t)[Len(s) + j] = t[j]
  OBVIOUS

\* What is left of a sequence without its first k elements.
LEMMA SuffixSeq ==
  ASSUME NEW S, NEW s \in Seq(S), NEW t \in Seq(S), NEW k \in 0 .. Len(s), Len(t) = Len(s) - k,
         \A i \in 1 .. Len(s) - k : t[i] = s[k + i]
  PROVE t = SubSeq(s, k + 1, Len(s))
<1>1. PICK q \in Seq(S) : q = SubSeq(s, k + 1, Len(s))
  OBVIOUS
<1>2. Len(q) = Len(s) - k /\ \A i \in 1 .. Len(s) - k : q[i] = s[k + i]
  BY <1>1, SMTT(30)
<1>3. QED
  BY <1>1, <1>2, SameSeq, Zenon

\* The characters from index a up to index b of a ring d.
Ring(d, a, b) == [i \in 1 .. (b - a) % WORD |-> d[((a + i - 1) % WORD) % INPUT_BUF]]

\* They are a sequence, as long as the indexes are apart.
LEMMA SlotsSeq ==
  ASSUME NEW d \in [0 .. INPUT_BUF - 1 -> Char], NEW a \in 0 .. WORD - 1, NEW b \in 0 .. WORD - 1
  PROVE /\ Ring(d, a, b) \in Seq(Char) /\ Len(Ring(d, a, b)) = Gap(a, b) /\ Gap(a, b) \in 0 .. WORD - 1
        /\ \A i \in 1 .. Gap(a, b) : Ring(d, a, b)[i] = d[(a + i - 1) % INPUT_BUF]
<1> DEFINE c == Ring(d, a, b)
<1>1. WORD \in Nat \ {0} /\ INPUT_BUF \in Nat \ {0} /\ INPUT_BUF < WORD
  BY RingAssumption
<1>2. (b - a) % WORD = Gap(a, b) /\ Gap(a, b) \in 0 .. WORD - 1
  <2>1. (b - a) % WORD = IF a <= b THEN b - a ELSE b - a + WORD
    BY <1>1, ModDiff
  <2>2. QED
    BY <1>1, <2>1 DEF Gap
<1>3. ASSUME NEW i \in 1 .. Gap(a, b)
      PROVE /\ ((a + i - 1) % WORD) % INPUT_BUF = (a + i - 1) % INPUT_BUF
            /\ (a + i - 1) % INPUT_BUF \in 0 .. INPUT_BUF - 1
  <2>1. PICK j \in 0 .. WORD - 1 : j = i - 1 /\ a + i - 1 = a + j
    BY <1>1, <1>2
  <2>2. (a + j) % WORD = IF a + j < WORD THEN a + j ELSE a + j - WORD
    BY <1>1, ModSum, Zenon
  <2>3. CASE a + j < WORD
    <3>1. PICK x \in Nat : x = a + j
      OBVIOUS
    <3>2. x % INPUT_BUF \in 0 .. INPUT_BUF - 1
      BY <1>1
    <3>3. QED
      BY <2>1, <2>2, <2>3, <3>1, <3>2
  <2>4. CASE ~(a + j < WORD)
    <3>1. PICK x \in Nat : x = a + j - WORD /\ a + j = x + WORD
      BY <1>1, <2>4
    <3>2. (x + WORD) % INPUT_BUF = x % INPUT_BUF
      BY SlotWrap
    <3>3. x % INPUT_BUF \in 0 .. INPUT_BUF - 1
      BY <1>1
    <3>4. QED
      BY <2>1, <2>2, <2>4, <3>1, <3>2, <3>3
  <2>5. QED
    BY <2>3, <2>4
<1>4. c = [i \in 1 .. Gap(a, b) |-> d[(a + i - 1) % INPUT_BUF]]
  BY <1>2, <1>3 DEF Ring
<1> HIDE DEF c
<1>5. PICK m \in Nat : m = Gap(a, b)
  BY <1>2
<1>6. c \in [1 .. m -> Char]
  BY <1>3, <1>4, <1>5
<1>7. c \in Seq(Char) /\ Len(c) = m
  BY <1>6, FunctionSeq
<1>8. QED
  BY <1>2, <1>4, <1>5, <1>7 DEF c

----------------------------------------------------------------------------
\* The ring

\* The characters that may be read and those of the line being typed.
LEMMA ReadyLine ==
  ASSUME RingTypes
  PROVE /\ Ready \in Seq(Char) /\ Len(Ready) = Gap(r, w) /\ Gap(r, w) \in 0 .. WORD - 1
        /\ \A i \in 1 .. Gap(r, w) : Ready[i] = buf[(r + i - 1) % INPUT_BUF]
        /\ Line \in Seq(Char) /\ Len(Line) = Gap(w, e) /\ Gap(w, e) \in 0 .. WORD - 1
        /\ \A i \in 1 .. Gap(w, e) : Line[i] = buf[(w + i - 1) % INPUT_BUF]
<1>1. Ready = Ring(buf, r, w) /\ Line = Ring(buf, w, e)
  BY DEF Ready, Line, Slots, Ring
<1>2. /\ buf \in [0 .. INPUT_BUF - 1 -> Char]
      /\ r \in 0 .. WORD - 1 /\ w \in 0 .. WORD - 1 /\ e \in 0 .. WORD - 1
  BY DEF RingTypes
<1>3. /\ Ring(buf, r, w) \in Seq(Char) /\ Len(Ring(buf, r, w)) = Gap(r, w) /\ Gap(r, w) \in 0 .. WORD - 1
      /\ \A i \in 1 .. Gap(r, w) : Ring(buf, r, w)[i] = buf[(r + i - 1) % INPUT_BUF]
  BY <1>2, SlotsSeq, Zenon
<1>4. /\ Ring(buf, w, e) \in Seq(Char) /\ Len(Ring(buf, w, e)) = Gap(w, e) /\ Gap(w, e) \in 0 .. WORD - 1
      /\ \A i \in 1 .. Gap(w, e) : Ring(buf, w, e)[i] = buf[(w + i - 1) % INPUT_BUF]
  BY <1>2, SlotsSeq, Zenon
<1>5. QED
  BY <1>1, <1>3, <1>4, Zenon

\* ReadyLine after a step.
LEMMA NextReadyLine ==
  ASSUME RingTypes'
  PROVE /\ Ready' \in Seq(Char) /\ Len(Ready') = Gap(r', w')
        /\ \A i \in 1 .. Gap(r', w') : Ready'[i] = buf'[(r' + i - 1) % INPUT_BUF]
        /\ Line' \in Seq(Char) /\ Len(Line') = Gap(w', e')
        /\ \A i \in 1 .. Gap(w', e') : Line'[i] = buf'[(w' + i - 1) % INPUT_BUF]
<1>1. PICK d \in [0 .. INPUT_BUF - 1 -> Char], x \in 0 .. WORD - 1, y \in 0 .. WORD - 1, z \in 0 .. WORD - 1 :
        d = buf' /\ x = r' /\ y = w' /\ z = e'
  BY DEF RingTypes
<1>2. Ready' = Ring(d, x, y) /\ Line' = Ring(d, y, z)
  BY <1>1, Zenon DEF Ready, Line, Slots, Ring
<1>3. /\ Ring(d, x, y) \in Seq(Char) /\ Len(Ring(d, x, y)) = Gap(x, y)
      /\ \A i \in 1 .. Gap(x, y) : Ring(d, x, y)[i] = d[(x + i - 1) % INPUT_BUF]
  BY SlotsSeq, Zenon
<1>4. /\ Ring(d, y, z) \in Seq(Char) /\ Len(Ring(d, y, z)) = Gap(y, z)
      /\ \A i \in 1 .. Gap(y, z) : Ring(d, y, z)[i] = d[(y + i - 1) % INPUT_BUF]
  BY SlotsSeq, Zenon
<1>5. QED
  BY <1>1, <1>2, <1>3, <1>4, Zenon

\* Distances and slots, with the types of the numbers.
LEMMA RingFacts ==
  ASSUME DInv
  PROVE /\ INPUT_BUF \in Nat \ {0} /\ WORD \in Nat \ {0} /\ INPUT_BUF < WORD
        /\ r \in 0 .. WORD - 1 /\ w \in 0 .. WORD - 1 /\ e \in 0 .. WORD - 1
        /\ buf \in [0 .. INPUT_BUF - 1 -> Char]
        /\ Gap(r, w) \in Nat /\ Gap(w, e) \in Nat /\ Gap(r, e) \in Nat
        /\ Gap(r, w) + Gap(w, e) = Gap(r, e) /\ Gap(r, e) <= INPUT_BUF
<1>1. /\ INPUT_BUF \in Nat \ {0} /\ WORD \in Nat \ {0} /\ INPUT_BUF < WORD
      /\ r \in 0 .. WORD - 1 /\ w \in 0 .. WORD - 1 /\ e \in 0 .. WORD - 1
      /\ buf \in [0 .. INPUT_BUF - 1 -> Char]
  BY RingAssumption DEF DInv, RingTypes
<1>2. Gap(r, w) \in 0 .. WORD - 1 /\ Gap(w, e) \in 0 .. WORD - 1 /\ Gap(r, e) \in 0 .. WORD - 1
  BY <1>1, GapSlot, Zenon
<1>3. QED
  BY <1>1, <1>2 DEF DInv, OrderInv

\* ^U: the line being typed has no \n, so that all of it goes.
LEMMA KillLineRing ==
  ASSUME DInv, NEW k, kill_line(k)
  PROVE /\ e' = w /\ UNCHANGED <<r, w, buf, state>>
        /\ RingTypes' /\ OrderInv' /\ LineInv'
<1>1. \A i \in 1 .. Len(Line) : Line[i] # NL
  BY ReadyLine DEF DInv, LineInv
<1>2. e' = w /\ UNCHANGED <<r, w, buf, state>>
  BY <1>1 DEF kill_line, LineStart
<1>3. Gap(w, w) = 0
  BY RingFacts DEF Gap
<1>4. RingTypes'
  BY <1>2, RingFacts DEF RingTypes
<1>5. OrderInv'
  BY <1>2, <1>3, RingFacts, SMTT(30) DEF OrderInv
<1>6. LineInv'
  BY <1>2, <1>3 DEF LineInv
<1>7. QED
  BY <1>2, <1>4, <1>5, <1>6

\* ^H: the last character goes.
LEMMA BackspaceRing ==
  ASSUME DInv, NEW k, backspace(k)
  PROVE /\ Gap(w, e)' = Gap(w, e) - 1 /\ UNCHANGED <<r, w, buf, state>>
        /\ RingTypes' /\ OrderInv' /\ LineInv'
<1>1. e' = (e - 1) % WORD /\ e # w /\ UNCHANGED <<r, w, buf, state>>
  BY DEF backspace
<1>2. e' \in 0 .. WORD - 1 /\ Gap(w, e') = Gap(w, e) - 1
  BY <1>1, RingFacts, GapPrev, Zenon
<1>3. r # e
  <2>1. e # w
    BY <1>1, Zenon
  <2>2. /\ WORD \in Nat /\ r \in 0 .. WORD - 1 /\ w \in 0 .. WORD - 1 /\ e \in 0 .. WORD - 1
    BY RingFacts
  <2>3. Gap(w, e) # 0 /\ Gap(r, r) = 0
    BY <2>1, <2>2 DEF Gap
  <2>4. QED
    BY <2>3, RingFacts
<1>4. Gap(r, e') = Gap(r, e) - 1
  BY <1>1, <1>3, RingFacts, GapPrev, Zenon
<1>5. RingTypes'
  BY <1>1, <1>2, RingFacts DEF RingTypes
<1>6. OrderInv'
  <2>1. /\ Gap(w, e') = Gap(w, e) - 1 /\ Gap(r, e') = Gap(r, e) - 1
        /\ Gap(r, w) \in Nat /\ Gap(w, e) \in Nat /\ Gap(r, e) \in Nat /\ INPUT_BUF \in Nat
        /\ Gap(r, w) + Gap(w, e) = Gap(r, e) /\ Gap(r, e) <= INPUT_BUF
    BY <1>2, <1>4, RingFacts, Zenon
  <2>2. Gap(r, w) + Gap(w, e') = Gap(r, e') /\ Gap(r, e') <= INPUT_BUF
    BY <2>1
  <2>3. QED
    BY <1>1, <2>2, Zenon DEF OrderInv
<1>7. LineInv'
  <2>1. \A i \in 1 .. Gap(w, e) - 1 : i \in 1 .. Gap(w, e)
    BY RingFacts
  <2>2. QED
    BY <1>1, <1>2, <2>1 DEF DInv, LineInv
<1>8. QED
  BY <1>1, <1>2, <1>5, <1>6, <1>7

\* A character is stored in a slot that holds none, and ends the line or not.
LEMMA InsertRing ==
  ASSUME DInv, NEW k \in Key, insert(k)
  PROVE \E c \in Char, ends \in BOOLEAN :
          /\ ends <=> (c \in {NL, EOT} \/ Gap(r, e) + 1 = INPUT_BUF)
          /\ Gap(r, e) < INPUT_BUF
          /\ e' = (e + 1) % WORD /\ e' \in 0 .. WORD - 1
          /\ Gap(r, e') = Gap(r, e) + 1 /\ Gap(w, e') = Gap(w, e) + 1
          /\ w' = (IF ends THEN e' ELSE w) /\ r' = r
          /\ state' = (IF ends THEN wakeup1(state, "input.r") ELSE state)
          /\ buf' \in [0 .. INPUT_BUF - 1 -> Char]
          /\ buf'[(r + Gap(r, e)) % INPUT_BUF] = c
          /\ \A i \in 0 .. Gap(r, e) - 1 : buf'[(r + i) % INPUT_BUF] = buf[(r + i) % INPUT_BUF]
<1>0. PICK g \in Nat : g = Gap(r, e)
  BY RingFacts
<1> r \in Nat /\ e \in Nat /\ INPUT_BUF \in Nat
  BY RingFacts
<1>1. PICK c \in Char : c = IF k = "\r" THEN NL ELSE k
  <2>1. k \notin {"^U", "^H", "^P", "0"}
    BY DEF insert
  <2>2. QED
    BY <2>1 DEF Key, Char
<1>2. /\ Room /\ r' = r
      /\ buf' = [buf EXCEPT ![e % INPUT_BUF] = c]
      /\ e' = (e + 1) % WORD
      /\ w' = IF c \in {NL, EOT} \/ (e + 1) % WORD = (r + INPUT_BUF) % WORD THEN e' ELSE w
      /\ state' = IF c \in {NL, EOT} \/ (e + 1) % WORD = (r + INPUT_BUF) % WORD
                    THEN wakeup1(state, "input.r") ELSE state
  BY <1>1 DEF insert
<1>3. g < INPUT_BUF
  <2>1. (e - r) % WORD = IF r <= e THEN e - r ELSE e - r + WORD
    BY RingFacts, ModDiff, Zenon
  <2>2. QED
    BY <1>0, <1>2, <2>1 DEF Room, Gap
<1>4. e' \in 0 .. WORD - 1 /\ Gap(r, e') = g + 1 /\ Gap(w, e') = Gap(w, e) + 1
  <2>1. Gap(r, e) < WORD - 1 /\ Gap(w, e) < WORD - 1
    BY <1>0, <1>3, RingFacts, SMTT(30)
  <2>2. QED
    BY <1>0, <1>2, <2>1, RingFacts, GapNext, Zenon
<1>5. (e + 1) % WORD = (r + INPUT_BUF) % WORD <=> g + 1 = INPUT_BUF
  <2>1. PICK x \in 0 .. WORD - 1 : x = (r + INPUT_BUF) % WORD
    BY RingFacts, SMTT(30)
  <2>2. Gap(r, x) = INPUT_BUF
    <3>1. INPUT_BUF \in 0 .. WORD - 1
      BY RingFacts
    <3>2. x = IF r + INPUT_BUF < WORD THEN r + INPUT_BUF ELSE r + INPUT_BUF - WORD
      BY <2>1, <3>1, RingFacts, ModSum, Zenon
    <3>3. WORD \in Nat /\ INPUT_BUF \in 1 .. WORD - 1 /\ r \in 0 .. WORD - 1
      BY RingFacts, SMTT(30)
    <3>4. QED
      BY <3>2, <3>3 DEF Gap
  <2>3. \A y \in 0 .. WORD - 1 : Gap(r, y) = Gap(r, x) => y = x
    BY RingFacts, SMTT(30) DEF Gap
  <2>4. QED
    BY <1>2, <1>4, <2>1, <2>2, <2>3
<1>6. PICK s \in 0 .. INPUT_BUF - 1 : s = e % INPUT_BUF /\ s = (r + g) % INPUT_BUF
  <2>1. g \in 0 .. WORD - 1 /\ e = (r + g) % WORD
    BY <1>0, RingFacts, GapSlot, Zenon
  <2>2. (e + 0) % INPUT_BUF = (r + g + 0) % INPUT_BUF
    BY <2>1, RingFacts, SlotFrom, SMTT(30)
  <2>3. e + 0 = e /\ r + g + 0 = r + g
    OBVIOUS
  <2>4. e % INPUT_BUF \in 0 .. INPUT_BUF - 1
    <3>1. PICK B \in Nat \ {0}, x \in Nat : B = INPUT_BUF /\ x = e
      BY RingFacts
    <3>2. x % B \in 0 .. B - 1
      OBVIOUS
    <3>3. QED
      BY <3>1, <3>2
  <2>5. QED
    BY <2>2, <2>3, <2>4
<1>7. buf' \in [0 .. INPUT_BUF - 1 -> Char] /\ buf'[s] = c
      /\ \A i \in 0 .. INPUT_BUF - 1 : i # s => buf'[i] = buf[i]
  BY <1>2, <1>6, RingFacts, Zenon
<1>8. ASSUME NEW i \in 0 .. g - 1 PROVE buf'[(r + i) % INPUT_BUF] = buf[(r + i) % INPUT_BUF]
  <2>1. r + i \in Nat /\ r + g \in Nat /\ r + i < r + g /\ (r + g) - (r + i) < INPUT_BUF
    BY <1>3
  <2>2. (r + i) % INPUT_BUF # s
    BY <1>6, <2>1, SlotsDiffer, Zenon
  <2>3. (r + i) % INPUT_BUF \in 0 .. INPUT_BUF - 1
    <3>1. PICK B \in Nat \ {0}, x \in Nat : B = INPUT_BUF /\ x = r + i
      BY <2>1, RingFacts
    <3>2. x % B \in 0 .. B - 1
      OBVIOUS
    <3>3. QED
      BY <3>1, <3>2
  <2>4. QED
    BY <1>7, <2>2, <2>3
<1>9. PICK ends \in BOOLEAN : ends <=> (c \in {NL, EOT} \/ g + 1 = INPUT_BUF)
  BY Zenon
<1>10. /\ w' = (IF ends THEN e' ELSE w)
       /\ state' = (IF ends THEN wakeup1(state, "input.r") ELSE state)
  BY <1>2, <1>5, <1>9
<1>11. buf'[(r + g) % INPUT_BUF] = c
  BY <1>6, <1>7
<1>12. QED
  BY <1>0, <1>2, <1>3, <1>4, <1>7, <1>8, <1>9, <1>10, <1>11, Zenon

\* A reader takes k characters.
LEMMA AdvanceRing ==
  ASSUME DInv, NEW k \in 0 .. Gap(r, w), r' = (r + k) % WORD, UNCHANGED <<w, e, buf>>
  PROVE /\ RingTypes' /\ OrderInv' /\ LineInv'
        /\ Gap(r', w) = Gap(r, w) - k /\ (r' - r) % WORD = k
        /\ k = Gap(r, w) => r' = w
        /\ r = w => r' = r
<1>1. PICK x \in 0 .. WORD - 1 : x = r'
  BY RingFacts, SMTT(30)
<1>2. /\ WORD \in Nat \ {0} /\ r \in 0 .. WORD - 1 /\ w \in 0 .. WORD - 1 /\ e \in 0 .. WORD - 1
      /\ Gap(r, w) \in Nat /\ Gap(r, e) \in Nat /\ Gap(w, e) \in Nat
      /\ Gap(r, w) + Gap(w, e) = Gap(r, e) /\ Gap(r, e) <= INPUT_BUF /\ INPUT_BUF \in Nat
  BY RingFacts
<1>3. k \in 0 .. Gap(r, e) /\ k \in 0 .. WORD - 1
  <2>1. Gap(r, w) \in 0 .. WORD - 1
    BY <1>2, GapSlot
  <2>2. QED
    BY <1>2, <2>1
<1>4. Gap(x, w) = Gap(r, w) - k /\ Gap(x, e) = Gap(r, e) - k
  <2>1. Gap(x, w) = Gap(r, w) - k
    BY <1>1, <1>2, GapFrom
  <2>2. Gap(x, e) = Gap(r, e) - k
    BY <1>1, <1>2, <1>3, GapFrom
  <2>3. QED
    BY <2>1, <2>2
<1>5. x = IF r + k < WORD THEN r + k ELSE r + k - WORD
  BY <1>1, <1>2, <1>3, ModSum, Zenon
<1>6. (x - r) % WORD = k
  <2>1. (x - r) % WORD = IF r <= x THEN x - r ELSE x - r + WORD
    BY <1>2, ModDiff, Zenon
  <2>2. QED
    BY <1>2, <1>3, <1>5, <2>1
<1>7. k = Gap(r, w) => x = w
  <2>1. Gap(x, w) = 0 => x = w
    BY <1>2 DEF Gap
  <2>2. QED
    BY <1>2, <1>4, <2>1
<1>8. r = w => x = r
  <2>1. r = w => Gap(r, w) = 0
    BY <1>2 DEF Gap
  <2>2. QED
    BY <1>2, <1>5, <2>1
<1>9. RingTypes'
  BY <1>1 DEF DInv, RingTypes
<1>10. OrderInv'
  <2>1. Gap(x, w) + Gap(w, e) = Gap(x, e) /\ Gap(x, e) <= INPUT_BUF
    BY <1>2, <1>3, <1>4
  <2>2. QED
    BY <1>1, <2>1 DEF OrderInv
<1>11. LineInv'
  BY DEF DInv, LineInv
<1>12. QED
  BY <1>1, <1>4, <1>6, <1>7, <1>8, <1>9, <1>10, <1>11

\* What the ring's slots mean to the line being typed.
LEMMA LineSlots ==
  ASSUME DInv, NEW i \in Nat
  PROVE (w + i) % INPUT_BUF = (r + (Gap(r, w) + i)) % INPUT_BUF
<1>1. r \in 0 .. WORD - 1 /\ Gap(r, w) \in 0 .. WORD - 1 /\ w = (r + Gap(r, w)) % WORD
  BY RingFacts, GapSlot
<1>2. (w + i) % INPUT_BUF = (r + Gap(r, w) + i) % INPUT_BUF
  BY <1>1, SlotFrom
<1>3. r + Gap(r, w) + i = r + (Gap(r, w) + i)
  BY <1>1
<1>4. QED
  BY <1>2, <1>3

\* A character is stored: the ring stays in order, and the line without an end.
LEMMA InsertKeeps ==
  ASSUME DInv, NEW k \in Key, insert(k)
  PROVE RingTypes' /\ OrderInv' /\ LineInv'
<1>1. PICK c \in Char, ends \in BOOLEAN :
          /\ ends <=> (c \in {NL, EOT} \/ Gap(r, e) + 1 = INPUT_BUF)
          /\ Gap(r, e) < INPUT_BUF
          /\ e' = (e + 1) % WORD /\ e' \in 0 .. WORD - 1
          /\ Gap(r, e') = Gap(r, e) + 1 /\ Gap(w, e') = Gap(w, e) + 1
          /\ w' = (IF ends THEN e' ELSE w) /\ r' = r
          /\ buf' \in [0 .. INPUT_BUF - 1 -> Char]
          /\ buf'[(r + Gap(r, e)) % INPUT_BUF] = c
          /\ \A i \in 0 .. Gap(r, e) - 1 : buf'[(r + i) % INPUT_BUF] = buf[(r + i) % INPUT_BUF]
  BY InsertRing
<1>2. /\ r \in 0 .. WORD - 1 /\ w \in 0 .. WORD - 1 /\ Gap(r, w) \in Nat /\ Gap(r, e) \in Nat /\ Gap(w, e) \in Nat
      /\ Gap(r, w) + Gap(w, e) = Gap(r, e) /\ INPUT_BUF \in Nat
  BY RingFacts
<1>3. RingTypes'
  BY <1>1, <1>2, Zenon DEF RingTypes
<1>4. Gap(r, e) < INPUT_BUF /\ Gap(r, e') = Gap(r, e) + 1 /\ Gap(w, e') = Gap(w, e) + 1
  BY <1>1, Zenon
<1>5. CASE ends
  <2>1. PICK x \in 0 .. WORD - 1 : x = e'
    BY <1>1
  <2>2. w' = x /\ r' = r /\ Gap(x, x) = 0
    BY <1>1, <1>5, <2>1, <1>2, SMTT(30) DEF Gap
  <2>3. Gap(r, x) \in Nat /\ Gap(r, x) <= INPUT_BUF
    BY <1>2, <1>4, <2>1
  <2>4. OrderInv'
    BY <2>1, <2>2, <2>3 DEF OrderInv
  <2>5. LineInv'
    BY <2>1, <2>2 DEF LineInv
  <2>6. QED
    BY <1>3, <2>4, <2>5
<1>6. CASE ~ends
  <2>1. w' = w /\ r' = r /\ c \notin {NL, EOT}
    BY <1>1, <1>6
  <2>2. OrderInv'
    <3>1. Gap(r, w) + Gap(w, e') = Gap(r, e') /\ Gap(r, e') <= INPUT_BUF
      BY <1>2, <1>4
    <3>2. QED
      BY <2>1, <3>1 DEF OrderInv
  <2>3. ASSUME NEW i \in 1 .. Gap(w, e) + 1 PROVE buf'[(w + i - 1) % INPUT_BUF] \notin {NL, EOT}
    <3>1. PICK a \in Nat, b \in Nat, m \in Nat : a = Gap(r, w) /\ b = Gap(w, e) /\ m = i - 1 /\ m <= b
      BY <1>2
    <3>2. (w + m) % INPUT_BUF = (r + (a + m)) % INPUT_BUF /\ w + i - 1 = w + m
      BY <1>2, <3>1, LineSlots
    <3>3. CASE m = b
      <4>1. r + (a + m) = r + Gap(r, e)
        BY <1>2, <3>1, <3>3
      <4>2. QED
        BY <1>1, <2>1, <3>2, <4>1
    <3>4. CASE m # b
      <4>1. i \in 1 .. Gap(w, e) /\ a + m \in 0 .. Gap(r, e) - 1
        BY <1>2, <3>1, <3>4
      <4>2. buf'[(r + (a + m)) % INPUT_BUF] = buf[(r + (a + m)) % INPUT_BUF]
        BY <1>1, <4>1
      <4>3. buf[(w + i - 1) % INPUT_BUF] \notin {NL, EOT}
        BY <4>1 DEF DInv, LineInv
      <4>4. QED
        BY <3>2, <4>2, <4>3, Zenon
    <3>5. QED
      BY <3>3, <3>4
  <2>4. LineInv'
    BY <1>1, <2>1, <2>3, Zenon DEF LineInv
  <2>5. QED
    BY <1>3, <2>2, <2>4
<1>7. QED
  BY <1>5, <1>6

----------------------------------------------------------------------------
\* What typing does to the lines

\* ^U empties the line being typed, ^H drops its last character; neither touches a
\* line that is complete.
LEMMA EditAbstract ==
  ASSUME DInv, NEW k, kill_line(k) \/ backspace(k)
  PROVE Abstract!KillLine \/ Abstract!Erase
<1>1. RingTypes' /\ r' = r /\ w' = w /\ buf' = buf /\ Gap(w, w) = 0
  <2>1. RingTypes' /\ r' = r /\ w' = w /\ buf' = buf
    BY KillLineRing, BackspaceRing
  <2>2. Gap(w, w) = 0
    BY RingFacts, SMTT(30) DEF Gap
  <2>3. QED
    BY <2>1, <2>2
<1>2. Ready' = Ready
  BY <1>1 DEF Ready, Slots
<1>3. CASE kill_line(k)
  <2>1. e' = w
    BY <1>3, KillLineRing
  <2>2. Line' \in Seq(Char) /\ Len(Line') = 0
    BY <1>1, <2>1, NextReadyLine, Zenon
  <2>3. Line' = <<>>
    BY <2>2
  <2>4. QED
    BY <1>2, <2>3 DEF Abstract!KillLine
<1>4. CASE backspace(k)
  <2>1. PICK m \in Nat : m = Gap(w, e) /\ m # 0 /\ Gap(w, e') = m - 1
    <3>1. Gap(w, e') = Gap(w, e) - 1
      BY <1>1, <1>4, BackspaceRing
    <3>2. e # w
      BY <1>4 DEF backspace
    <3>3. Gap(w, e) \in Nat /\ Gap(w, e) # 0
      BY <3>2, RingFacts, SMTT(30) DEF Gap
    <3>4. QED
      BY <3>1, <3>3
  <2>2. /\ Line \in Seq(Char) /\ Len(Line) = m
        /\ \A i \in 1 .. m : Line[i] = buf[(w + i - 1) % INPUT_BUF]
    BY <2>1, ReadyLine, Zenon DEF DInv
  <2>3. /\ Line' \in Seq(Char) /\ Len(Line') = m - 1
        /\ \A i \in 1 .. m - 1 : Line'[i] = buf[(w + i - 1) % INPUT_BUF]
    BY <1>1, <2>1, NextReadyLine, Zenon
  <2>4. PICK s \in Seq(Char), t \in Seq(Char) : s = Line /\ t = Line'
    BY <2>2, <2>3, Zenon
  <2>5. Len(s) = m /\ Len(t) = m - 1 /\ \A i \in 1 .. m - 1 : t[i] = s[i]
    BY <2>2, <2>3, <2>4, SMTT(30)
  <2>6. s # <<>>
    BY <2>1, <2>5
  <2>7. t = SubSeq(s, 1, Len(s) - 1)
    <3>1. PICK q \in Seq(Char) : q = SubSeq(s, 1, m - 1)
      BY <2>1, <2>5, SMTT(30)
    <3>2. Len(q) = m - 1 /\ \A i \in 1 .. m - 1 : q[i] = s[i]
      BY <2>1, <2>5, <3>1, SMTT(30)
    <3>3. QED
      BY <2>5, <3>1, <3>2, SameSeq, Zenon
  <2>8. QED
    BY <1>2, <2>4, <2>6, <2>7 DEF Abstract!Erase
<1>5. QED
  BY <1>3, <1>4

\* A character that is stored is typed, and completes the line or not.
LEMMA TypeAbstract ==
  ASSUME DInv, NEW k \in Key, insert(k)
  PROVE \E c \in Char : Abstract!Type(c)
<1>1. PICK c \in Char, ends \in BOOLEAN :
          /\ ends <=> (c \in {NL, EOT} \/ Gap(r, e) + 1 = INPUT_BUF)
          /\ Gap(r, e) < INPUT_BUF
          /\ Gap(r, e') = Gap(r, e) + 1 /\ Gap(w, e') = Gap(w, e) + 1
          /\ w' = (IF ends THEN e' ELSE w) /\ r' = r /\ e' \in 0 .. WORD - 1
          /\ buf'[(r + Gap(r, e)) % INPUT_BUF] = c
          /\ \A i \in 0 .. Gap(r, e) - 1 : buf'[(r + i) % INPUT_BUF] = buf[(r + i) % INPUT_BUF]
  BY InsertRing, Zenon
<1>2. PICK a \in Nat, m \in Nat : a = Gap(r, w) /\ m = Gap(w, e) /\ a + m = Gap(r, e) /\ r \in Nat /\ w \in Nat
  BY RingFacts, SMTT(30)
<1>3. /\ \A i \in 1 .. m + 1 : i \in 1 .. m \/ i = m + 1
      /\ \A i \in 1 .. a : i - 1 \in 0 .. Gap(r, e) - 1 /\ r + (i - 1) = r + i - 1
      /\ w + (m + 1) - 1 = w + m /\ r + (a + (m + 1)) - 1 = r + (a + m)
  BY <1>2, SMTT(30)
<1>4. \A i \in 1 .. m : \E j \in Nat : /\ j = i - 1 /\ w + i - 1 = w + j
                                       /\ r + (a + i) - 1 = r + (a + j)
                                       /\ a + j \in 0 .. Gap(r, e) - 1
  <2>1. ASSUME NEW i \in 1 .. m PROVE \E j \in Nat : /\ j = i - 1 /\ w + i - 1 = w + j
                                                     /\ r + (a + i) - 1 = r + (a + j)
                                                     /\ a + j \in 0 .. Gap(r, e) - 1
    <3>1. i - 1 \in Nat /\ a + (i - 1) \in 0 .. Gap(r, e) - 1
      BY <1>2
    <3>2. w + i - 1 = w + (i - 1) /\ r + (a + i) - 1 = r + (a + (i - 1))
      BY <1>2
    <3>3. QED
      BY <3>1, <3>2
  <2>2. QED
    BY <2>1
<1>5. \A i \in 1 .. a + (m + 1) : i \in 1 .. a \/ \E j \in 1 .. m + 1 : i = a + j
  <2>1. ASSUME NEW i \in 1 .. a + (m + 1), i \notin 1 .. a PROVE i - a \in 1 .. m + 1 /\ i = a + (i - a)
    BY <2>1
  <2>2. QED
    BY <2>1
<1>6. ends => Gap(w', e') = 0 /\ Gap(r', w') = a + (m + 1)
  <2>1. PICK x \in 0 .. WORD - 1 : x = e'
    BY <1>1, Zenon
  <2>2. Gap(x, x) = 0
    BY RingFacts, SMTT(30) DEF Gap
  <2>3. Gap(r, x) = Gap(r, e) + 1
    BY <1>1, <2>1, Zenon
  <2>4. Gap(r, x) = a + (m + 1)
    BY <1>2, <2>3, SMTT(30)
  <2>5. QED
    BY <1>1, <2>1, <2>2, <2>4, Zenon
<1>7. PICK s \in Seq(Char), t \in Seq(Char) :
        /\ s = Ready /\ t = Line /\ Len(s) = a /\ Len(t) = m
        /\ \A i \in 1 .. a : s[i] = buf[(r + i - 1) % INPUT_BUF]
        /\ \A i \in 1 .. m : t[i] = buf[(w + i - 1) % INPUT_BUF]
  BY <1>2, ReadyLine, Zenon DEF DInv
<1>8. PICK x \in Seq(Char), y \in Seq(Char) : x = Ready' /\ y = Line'
  BY InsertKeeps, NextReadyLine, Zenon
<1>9. /\ Len(x) = Gap(r', w') /\ Len(y) = Gap(w', e')
      /\ \A i \in 1 .. Len(x) : x[i] = buf'[(r' + i - 1) % INPUT_BUF]
      /\ \A i \in 1 .. Len(y) : y[i] = buf'[(w' + i - 1) % INPUT_BUF]
  BY <1>8, InsertKeeps, NextReadyLine, Zenon
\* the slots, seen from r
<1>10. \A i \in 1 .. a : buf'[(r + i - 1) % INPUT_BUF] = s[i]
  <2>1. ASSUME NEW i \in 1 .. a PROVE buf'[(r + i - 1) % INPUT_BUF] = s[i]
    <3>1. i - 1 \in 0 .. Gap(r, e) - 1 /\ r + (i - 1) = r + i - 1
      BY <1>3, Zenon
    <3>2. QED
      BY <1>1, <1>7, <3>1, Zenon
  <2>2. QED
    BY <2>1, Zenon
<1>11. \A i \in 1 .. m : /\ buf'[(w + i - 1) % INPUT_BUF] = t[i]
                         /\ buf'[(r + (a + i) - 1) % INPUT_BUF] = t[i]
  <2>1. ASSUME NEW i \in 1 .. m
        PROVE /\ buf'[(w + i - 1) % INPUT_BUF] = t[i]
              /\ buf'[(r + (a + i) - 1) % INPUT_BUF] = t[i]
    <3>1. PICK j \in Nat : w + i - 1 = w + j /\ r + (a + i) - 1 = r + (a + j) /\ a + j \in 0 .. Gap(r, e) - 1
      BY <1>4, Zenon
    <3>2. (w + j) % INPUT_BUF = (r + (a + j)) % INPUT_BUF
      BY <1>2, LineSlots, Zenon
    <3>3. buf'[(r + (a + j)) % INPUT_BUF] = buf[(r + (a + j)) % INPUT_BUF]
      BY <1>1, <3>1, Zenon
    <3>4. t[i] = buf[(w + i - 1) % INPUT_BUF]
      BY <1>7, Zenon
    <3>5. QED
      BY <3>1, <3>2, <3>3, <3>4, Zenon
  <2>2. QED
    BY <2>1, Zenon
<1>12. /\ buf'[(w + (m + 1) - 1) % INPUT_BUF] = c
       /\ buf'[(r + (a + (m + 1)) - 1) % INPUT_BUF] = c
  <2>1. (w + m) % INPUT_BUF = (r + (a + m)) % INPUT_BUF
    BY <1>2, LineSlots
  <2>2. QED
    BY <1>1, <1>2, <1>3, <2>1, Zenon
<1>13. PICK u \in Seq(Char) : /\ u = Append(t, c) /\ Len(u) = m + 1 /\ u[m + 1] = c
                              /\ \A i \in 1 .. m : u[i] = t[i]
  <2>1. Len(t) = m
    BY <1>7, Zenon
  <2>2. /\ Append(t, c) \in Seq(Char) /\ Len(Append(t, c)) = Len(t) + 1
        /\ Append(t, c)[Len(t) + 1] = c
        /\ \A i \in 1 .. Len(t) : Append(t, c)[i] = t[i]
    BY AppendSeq, SMTT(30)
  <2>3. QED
    BY <2>1, <2>2, Zenon
<1>14. \A i \in 1 .. m + 1 : /\ buf'[(w + i - 1) % INPUT_BUF] = u[i]
                             /\ buf'[(r + (a + i) - 1) % INPUT_BUF] = u[i]
  BY <1>11, <1>12, <1>13, <1>3, Zenon
<1>15. Abstract!Held = a + m /\ a + m < INPUT_BUF /\ (ends <=> (c \in {NL, EOT} \/ a + m + 1 = INPUT_BUF))
  BY <1>1, <1>2, <1>7, Zenon DEF Abstract!Held
<1>16. CASE ends
  <2>1. Gap(w', e') = 0 /\ Gap(r', w') = a + (m + 1)
    BY <1>16, <1>6
  <2>2. y = <<>>
    BY <1>9, <2>1, SMTT(30)
  <2>3. PICK z \in Seq(Char) : /\ z = s \o u /\ Len(z) = a + (m + 1)
                               /\ \A i \in 1 .. a : z[i] = s[i]
                               /\ \A j \in 1 .. m + 1 : z[a + j] = u[j]
    <3>1. Len(s) = a /\ Len(u) = m + 1
      BY <1>7, <1>13, Zenon
    <3>2. /\ s \o u \in Seq(Char) /\ Len(s \o u) = Len(s) + Len(u)
          /\ \A i \in 1 .. Len(s) : (s \o u)[i] = s[i]
          /\ \A j \in 1 .. Len(u) : (s \o u)[Len(s) + j] = u[j]
      BY ConcatSeq, SMTT(30)
    <3>3. QED
      BY <3>1, <3>2, Zenon
  <2>4. Len(x) = a + (m + 1) /\ \A i \in 1 .. a + (m + 1) : x[i] = buf'[(r + i - 1) % INPUT_BUF]
    <3>1. r' = r /\ Len(x) = a + (m + 1)
      BY <1>1, <1>9, <2>1, Zenon
    <3>2. QED
      BY <1>9, <3>1, Zenon
  <2>5. \A i \in 1 .. a + (m + 1) : x[i] = z[i]
    <3>1. ASSUME NEW i \in 1 .. a + (m + 1), i \in 1 .. a PROVE x[i] = z[i]
      BY <1>10, <2>3, <2>4, <3>1, Zenon
    <3>2. ASSUME NEW i \in 1 .. a + (m + 1), NEW j \in 1 .. m + 1, i = a + j PROVE x[i] = z[i]
      BY <1>14, <2>3, <2>4, <3>2, Zenon
    <3>3. QED
      BY <1>5, <3>1, <3>2, Zenon
  <2>6. x = z
    BY <2>3, <2>4, <2>5, SameSeq, Zenon
  <2>7. QED
    BY <1>7, <1>8, <1>13, <1>15, <1>16, <2>2, <2>3, <2>6, Zenon DEF Abstract!Type
<1>17. CASE ~ends
  <2>1. w' = w /\ r' = r /\ Gap(r', w') = a /\ Gap(w', e') = m + 1
    BY <1>1, <1>2, <1>17, Zenon
  <2>2. x = s
    BY <1>7, <1>9, <1>10, <2>1, SameSeq, ZenonT(40)
  <2>3. y = u
    BY <1>9, <1>13, <1>14, <2>1, SameSeq, Zenon
  <2>4. QED
    BY <1>7, <1>8, <1>13, <1>15, <1>17, <2>2, <2>3, ZenonT(40) DEF Abstract!Type
<1>18. QED
  BY <1>16, <1>17

----------------------------------------------------------------------------
\* The parts of the invariant that a step leaves alone

\* The ring is not touched.
LEMMA RingSame ==
  ASSUME DInv, UNCHANGED ring
  PROVE RingTypes' /\ OrderInv' /\ LineInv'
<1>1. UNCHANGED <<r, w, e, buf>>
  BY DEF ring
<1>2. RingTypes'
  BY <1>1 DEF DInv, RingTypes
<1>3. OrderInv' /\ LineInv'
  BY <1>1, Zenon DEF DInv, OrderInv, LineInv
<1>4. QED
  BY <1>2, <1>3

\* A process moves that does not fall asleep.
LEMMA SleepSame ==
  ASSUME DInv, UNCHANGED <<r, w, state>>, NEW p \in Proc, state[p] = "RUNNABLE",
         NEW l \in Calling \ {"read_sleep"}, pc' = [pc EXCEPT ![p] = l],
         \A q \in Proc \ {p} : chan'[q] = chan[q]
  PROVE SleepInv'
<1>1. pc'[p] = l /\ \A q \in Proc \ {p} : pc'[q] = pc[q]
  BY DEF DInv, ProcTypes
<1>2. ASSUME NEW q \in Proc
      PROVE /\ state'[q] = "SLEEPING" => \/ chan'[q] = "input.r" /\ pc'[q] = "consoleread" /\ r' = w'
                                         \/ chan'[q] = "ticks" /\ pc'[q] = "sleep"
            /\ pc'[q] = "read_sleep" => r' = w'
  BY <1>1, Zenon DEF DInv, SleepInv
<1>3. QED
  BY <1>2 DEF SleepInv

\* A process moves that is not in sys_sleep.
LEMMA ClockSame ==
  ASSUME DInv, UNCHANGED clock, NEW p \in Proc, pc[p] \notin {"sleep", "ticks_sleep", "return"},
         NEW l \in Calling \ {"sleep", "ticks_sleep"}, pc' = [pc EXCEPT ![p] = l],
         \A q \in Proc \ {p} : ret'[q] = ret[q]
  PROVE ClockTypes' /\ NapInv' /\ SleptEnough'
<1>1. pc'[p] = l /\ \A q \in Proc \ {p} : pc'[q] = pc[q]
  BY DEF DInv, ProcTypes
<1>2. UNCHANGED <<ticks, ticks0, nap, since>>
  BY DEF clock
<1>3. nap[p] = 0
  BY Zenon DEF DInv, NapInv
<1>4. ClockTypes'
  BY <1>2 DEF DInv, ClockTypes
<1>5. NapInv'
  BY <1>1, <1>2, <1>3, Zenon DEF DInv, NapInv
<1>6. SleptEnough'
  <2>1. ~(nap[p] > 0)
    BY <1>3
  <2>2. QED
    BY <1>1, <1>2, <2>1, Zenon DEF DInv, SleptEnough
<1>7. QED
  BY <1>4, <1>5, <1>6

----------------------------------------------------------------------------
\* Every step but those of consoleread keeps the invariant

\* iunlock and ilock of the device's inode.
LEMMA LockSteps ==
  ASSUME DInv, NEW p \in Proc, iunlock(p) \/ ilock(p) \/ unlock_inode(p), UNCHANGED clock
  PROVE DInv'
<1>1. /\ UNCHANGED <<ring, sleepers, reading>> /\ state[p] = "RUNNABLE"
      /\ pc[p] \notin {"sleep", "ticks_sleep", "return"}
  BY Zenon DEF iunlock, ilock, unlock_inode, At
<1>2. PICK l \in Calling \ {"read_sleep", "sleep", "ticks_sleep"} : pc' = [pc EXCEPT ![p] = l]
  BY Zenon DEF iunlock, ilock, unlock_inode, Goto, Calling
<1>3. UNCHANGED <<r, w, e, buf, state, chan, killed, n, target, ret>>
  BY <1>1 DEF ring, sleepers, reading
<1>4. ProcTypes' /\ ReadInv'
  BY <1>2, <1>3 DEF DInv, ProcTypes, ReadInv
<1>5. RingTypes' /\ OrderInv' /\ LineInv'
  BY <1>1, RingSame
<1>6. SleepInv'
  BY <1>1, <1>2, <1>3, SleepSame, Zenon
<1>7. ClockTypes' /\ NapInv' /\ SleptEnough'
  BY <1>1, <1>2, <1>3, ClockSame, Zenon
<1>8. QED
  BY <1>4, <1>5, <1>6, <1>7 DEF DInv

\* The end of consoleread or consolewrite.
LEMMA Leave ==
  ASSUME DInv, NEW p \in Proc, NEW v \in Int, leave(p, v)
  PROVE ProcTypes' /\ ReadInv'
<1>1. /\ ret' = [ret EXCEPT ![p] = v] /\ n' = [n EXCEPT ![p] = 0] /\ target' = [target EXCEPT ![p] = 0]
      /\ chan' = [chan EXCEPT ![p] = NoChan] /\ pc' = [pc EXCEPT ![p] = "ilock"]
      /\ UNCHANGED <<state, killed>>
  BY DEF leave, Goto
<1>2. ProcTypes'
  BY <1>1 DEF DInv, ProcTypes, Calling
<1>3. ReadInv'
  BY <1>1 DEF DInv, ProcTypes, ReadInv
<1>4. QED
  BY <1>2, <1>3

\* consolewrite.
LEMMA WriteStep ==
  ASSUME DInv, NEW p \in Proc, consolewrite(p), UNCHANGED clock PROVE DInv'
<1>1. /\ UNCHANGED <<ring, state>> /\ state[p] = "RUNNABLE"
      /\ pc[p] \notin {"sleep", "ticks_sleep", "return"} /\ leave(p, target[p])
  BY Zenon DEF consolewrite, At, leave
<1>2. target[p] \in Int
  BY DEF DInv, ProcTypes
<1>3. ProcTypes' /\ ReadInv'
  BY <1>1, <1>2, Leave, Zenon
<1>4. PICK l \in Calling \ {"read_sleep", "sleep", "ticks_sleep"} : pc' = [pc EXCEPT ![p] = l]
  BY <1>1, Zenon DEF leave, Goto, Calling
<1>5. \A q \in Proc \ {p} : chan'[q] = chan[q] /\ ret'[q] = ret[q]
  BY <1>1 DEF leave, DInv, ProcTypes
<1>6. UNCHANGED <<r, w, state>>
  BY <1>1 DEF ring
<1>7. SleepInv'
  BY <1>1, <1>4, <1>5, <1>6, SleepSame, Zenon
<1>8. ClockTypes' /\ NapInv' /\ SleptEnough'
  BY <1>1, <1>4, <1>5, ClockSame, Zenon
<1>9. QED
  BY <1>1, <1>3, <1>7, <1>8, RingSame, Zenon DEF DInv

\* sleep(&input.r, &input.lock): the ring is still as empty as the reader left it.
LEMMA ReadSleepStep ==
  ASSUME DInv, NEW p \in Proc, read_sleep(p), UNCHANGED clock PROVE DInv'
<1>1. /\ state' = [state EXCEPT ![p] = "SLEEPING"] /\ chan' = [chan EXCEPT ![p] = "input.r"]
      /\ pc[p] = "read_sleep" /\ pc' = [pc EXCEPT ![p] = "consoleread"]
      /\ UNCHANGED <<r, w, e, buf, n, target, ret>> /\ UNCHANGED ring
  BY DEF read_sleep, fall_asleep, Goto, At, ring, reading
<1>2. ProcTypes' /\ ReadInv'
  BY <1>1 DEF DInv, ProcTypes, ReadInv, Calling
<1>3. SleepInv'
  <2>1. /\ state'[p] = "SLEEPING" /\ chan'[p] = "input.r" /\ pc'[p] = "consoleread"
        /\ \A q \in Proc \ {p} : state'[q] = state[q] /\ chan'[q] = chan[q] /\ pc'[q] = pc[q]
    BY <1>1 DEF DInv, ProcTypes
  <2>2. r = w /\ r' = r /\ w' = w
    BY <1>1 DEF DInv, SleepInv
  <2>3. QED
    BY <2>1, <2>2, Zenon DEF DInv, SleepInv
<1>4. ClockTypes' /\ NapInv' /\ SleptEnough'
  <2>1. "consoleread" \in Calling \ {"sleep", "ticks_sleep"}
    BY DEF Calling
  <2>2. QED
    BY <1>1, <2>1, ClockSame, Zenon
<1>5. QED
  BY <1>1, <1>2, <1>3, <1>4, RingSame DEF DInv

\* read and write begin, uptime, and what ends in exit.
LEMMA CallSteps ==
  ASSUME DInv, NEW p \in Proc, UNCHANGED clock,
         \/ At(p, "user") /\ \E call \in {"read", "write"}, size \in Sizes : lock_inode(p, call, size)
         \/ At(p, "user") /\ sys_uptime(p)
         \/ user_trap(p) \/ fault(p)
  PROVE DInv'
<1>1. state[p] = "RUNNABLE" /\ pc[p] = "user" /\ UNCHANGED <<r, w, e, buf, state, chan>> /\ UNCHANGED ring
  BY Zenon DEF At, lock_inode, sys_uptime, user_trap, fault, ring, sleepers
<1>2. PICK l \in Calling \ {"read_sleep", "sleep", "ticks_sleep"} : pc' = [pc EXCEPT ![p] = l]
  BY Zenon DEF lock_inode, sys_uptime, user_trap, fault, Goto, Calling
<1>3. PICK m \in Nat, v \in Int :
        /\ \/ n' = n /\ target' = target
           \/ n' = [n EXCEPT ![p] = m] /\ target' = [target EXCEPT ![p] = m]
        /\ ret' = ret \/ ret' = [ret EXCEPT ![p] = v]
  <2>1. 0 \in Nat /\ 0 \in Int /\ ticks \in Int
    BY TickAssumption DEF DInv, ClockTypes
  <2>2. CASE \E call \in {"read", "write"}, size \in Sizes : lock_inode(p, call, size)
    BY <2>1, <2>2, ReadAssumption, Zenon DEF lock_inode
  <2>3. CASE sys_uptime(p)
    BY <2>1, <2>3, Zenon DEF sys_uptime
  <2>4. CASE user_trap(p) \/ fault(p)
    BY <2>1, <2>4, Zenon DEF user_trap, fault, reading
  <2>5. QED
    BY <2>2, <2>3, <2>4
<1>4. ProcTypes'
  BY <1>1, <1>2, <1>3 DEF DInv, ProcTypes
<1>5. ReadInv'
  BY <1>3 DEF DInv, ProcTypes, ReadInv
<1>6. \A q \in Proc \ {p} : ret'[q] = ret[q]
  BY <1>3 DEF DInv, ProcTypes
<1>7. SleepInv'
  BY <1>1, <1>2, SleepSame, Zenon
<1>8. ClockTypes' /\ NapInv' /\ SleptEnough'
  BY <1>1, <1>2, <1>6, ClockSame, Zenon
<1>9. QED
  BY <1>1, <1>4, <1>5, <1>7, <1>8, RingSame, Zenon DEF DInv

\* sys_sleep begins.
LEMMA SleepBegin ==
  ASSUME DInv, NEW p \in Proc, At(p, "user"), NEW t \in Naps, sleep_begin(p, t), Goto(p, "sleep"),
         UNCHANGED <<ring, iplock, reading>>
  PROVE DInv'
<1>1. /\ state[p] = "RUNNABLE" /\ pc[p] = "user" /\ pc' = [pc EXCEPT ![p] = "sleep"]
      /\ ticks0' = [ticks0 EXCEPT ![p] = ticks] /\ nap' = [nap EXCEPT ![p] = t]
      /\ since' = [since EXCEPT ![p] = 0]
      /\ UNCHANGED <<ticks, state, chan, r, w, n, target, ret>>
  BY DEF At, sleep_begin, Goto, ring, reading
<1>2. ProcTypes' /\ ReadInv'
  BY <1>1, Zenon DEF DInv, ProcTypes, ReadInv, Calling
<1>3. SleepInv'
  <2>1. "sleep" \in Calling \ {"read_sleep"}
    BY DEF Calling
  <2>2. QED
    BY <1>1, <2>1, SleepSame, Zenon
<1>4. ClockTypes'
  <2>1. t \in -TICKWORD .. TICKWORD - 1 /\ 0 \in 0 .. TICKWORD
    BY NapAssumption, TickAssumption
  <2>2. QED
    BY <1>1, <2>1 DEF DInv, ClockTypes
<1>5. /\ pc'[p] = "sleep" /\ since'[p] = 0 /\ ticks0'[p] = ticks
      /\ \A q \in Proc \ {p} : pc'[q] = pc[q] /\ nap'[q] = nap[q] /\ since'[q] = since[q] /\ ticks0'[q] = ticks0[q]
  BY <1>1 DEF DInv, ProcTypes, ClockTypes
<1>6. NapInv'
  <2>1. (ticks - ticks) % TICKWORD = 0
    <3>1. ticks - ticks = 0 /\ 0 \in 0 .. TICKWORD - 1
      BY TickAssumption DEF DInv, ClockTypes
    <3>2. 0 % TICKWORD = 0
      BY TickAssumption
    <3>3. QED
      BY <3>1, <3>2
  <2>2. QED
    BY <1>1, <1>5, <2>1, Zenon DEF DInv, NapInv
<1>7. SleptEnough'
  BY <1>1, <1>5, Zenon DEF DInv, SleptEnough
<1>8. QED
  BY <1>2, <1>3, <1>4, <1>6, <1>7, RingSame DEF DInv

\* What a turn of sys_sleep's loop leaves alone.
LEMMA SleepTurn ==
  ASSUME DInv, NEW p \in Proc, pc[p] \in {"sleep", "ticks_sleep"}, NEW l \in {"sleep", "ticks_sleep"},
         pc' = [pc EXCEPT ![p] = l], UNCHANGED <<clock, ret>>
  PROVE ClockTypes' /\ NapInv' /\ SleptEnough'
<1>1. pc'[p] = l /\ \A q \in Proc \ {p} : pc'[q] = pc[q]
  BY DEF DInv, ProcTypes
<1>2. ticks' = ticks /\ ticks0' = ticks0 /\ nap' = nap /\ since' = since /\ ret' = ret
  BY DEF clock
<1>3. ClockTypes'
  BY <1>2 DEF DInv, ClockTypes
<1>4. NapInv'
  BY <1>1, <1>2, Zenon DEF DInv, NapInv
<1>5. SleptEnough'
  BY <1>1, <1>2, Zenon DEF DInv, SleptEnough
<1>6. QED
  BY <1>3, <1>4, <1>5

\* sys_sleep leaves its loop: with 0 only if the time has gone by.
LEMMA SleepEnd ==
  ASSUME DInv, NEW p \in Proc, pc[p] = "sleep", UNCHANGED clock,
         pc' = [pc EXCEPT ![p] = "return"], ret' = [ret EXCEPT ![p] = IF Waiting(p) THEN -1 ELSE 0]
  PROVE ClockTypes' /\ NapInv' /\ SleptEnough'
<1>1. /\ pc'[p] = "return" /\ ret'[p] = IF Waiting(p) THEN -1 ELSE 0
      /\ \A q \in Proc \ {p} : pc'[q] = pc[q] /\ ret'[q] = ret[q]
  BY DEF DInv, ProcTypes
<1>2. ticks' = ticks /\ ticks0' = ticks0 /\ nap' = nap /\ since' = since
  BY DEF clock
<1>3. ClockTypes'
  BY <1>2 DEF DInv, ClockTypes
<1>4. NapInv'
  BY <1>1, <1>2, Zenon DEF DInv, NapInv
<1>5. ASSUME ret'[p] = 0, nap[p] > 0 PROVE since[p] >= nap[p]
  <2>1. ~Waiting(p)
    BY <1>1, <1>5, SMTT(30)
  <2>2. PICK t \in Nat, s \in 0 .. TICKWORD : t = nap[p] /\ t \in 1 .. TICKWORD - 1 /\ s = since[p]
    BY <1>5, TickAssumption DEF DInv, ClockTypes
  <2>3. t % TICKWORD = t
    BY <2>2, TickAssumption
  <2>4. PICK d \in 0 .. TICKWORD - 1 : d = (ticks - ticks0[p]) % TICKWORD
    <3>1. ticks - ticks0[p] \in Int
      BY DEF DInv, ClockTypes
    <3>2. QED
      BY <3>1, TickAssumption
  <2>5. t <= d
    BY <2>1, <2>2, <2>3, <2>4, TickAssumption, SMTT(30) DEF Waiting
  <2>6. s = TICKWORD \/ s = d
    BY <2>2, <2>4 DEF DInv, NapInv
  <2>7. QED
    BY <2>2, <2>5, <2>6, TickAssumption, SMTT(30)
<1>6. SleptEnough'
  BY <1>1, <1>2, <1>5, Zenon DEF DInv, SleptEnough
<1>7. QED
  BY <1>3, <1>4, <1>6

\* The loop of sys_sleep.
LEMMA SleepStep ==
  ASSUME DInv, NEW p \in Proc, sys_sleep(p) PROVE DInv'
<1>1. UNCHANGED <<r, w, n, target>> /\ UNCHANGED ring
  BY DEF sys_sleep, ring
<1>2. CASE At(p, "sleep") /\ Goto(p, "ticks_sleep") /\ UNCHANGED <<clock, sleepers, ret>>
  <2>1. /\ state[p] = "RUNNABLE" /\ pc[p] = "sleep" /\ pc' = [pc EXCEPT ![p] = "ticks_sleep"]
        /\ UNCHANGED <<state, chan, killed, ret>>
    BY <1>2 DEF At, Goto, sleepers
  <2>2. "ticks_sleep" \in Calling \ {"read_sleep"}
    BY DEF Calling
  <2>3. ProcTypes' /\ ReadInv'
    BY <1>1, <2>1, Zenon DEF DInv, ProcTypes, ReadInv, Calling
  <2>4. SleepInv'
    BY <1>1, <2>1, <2>2, SleepSame, Zenon
  <2>5. QED
    BY <1>1, <1>2, <2>1, <2>3, <2>4, RingSame, SleepTurn, Zenon DEF DInv
<1>3. CASE At(p, "ticks_sleep") /\ sleep_again(p) /\ Goto(p, "sleep") /\ UNCHANGED ret
  <2>1. /\ pc[p] = "ticks_sleep" /\ pc' = [pc EXCEPT ![p] = "sleep"]
        /\ state' = [state EXCEPT ![p] = "SLEEPING"] /\ chan' = [chan EXCEPT ![p] = "ticks"]
        /\ UNCHANGED <<clock, ret>>
    BY <1>3 DEF At, sleep_again, fall_asleep, Goto
  <2>2. ProcTypes' /\ ReadInv'
    BY <1>1, <2>1 DEF DInv, ProcTypes, ReadInv, Calling
  <2>3. SleepInv'
    <3>1. /\ chan'[p] = "ticks" /\ pc'[p] = "sleep" /\ r' = r /\ w' = w
          /\ \A q \in Proc \ {p} : state'[q] = state[q] /\ chan'[q] = chan[q] /\ pc'[q] = pc[q]
      BY <1>1, <2>1 DEF DInv, ProcTypes
    <3>2. QED
      BY <3>1, Zenon DEF DInv, SleepInv
  <2>4. QED
    BY <1>1, <2>1, <2>2, <2>3, RingSame, SleepTurn, Zenon DEF DInv
<1>4. CASE /\ At(p, "sleep") /\ sleep_end(p) /\ Goto(p, "return")
           /\ ret' = [ret EXCEPT ![p] = IF Waiting(p) THEN -1 ELSE 0]
  <2>1. /\ state[p] = "RUNNABLE" /\ pc[p] = "sleep" /\ pc' = [pc EXCEPT ![p] = "return"]
        /\ chan' = [chan EXCEPT ![p] = NoChan] /\ UNCHANGED state /\ UNCHANGED clock
    BY <1>4, Zenon DEF At, sleep_end, Goto, clock
  <2>2. ProcTypes' /\ ReadInv'
    BY <1>1, <1>4, <2>1, SMTT(30) DEF DInv, ProcTypes, ReadInv, Calling
  <2>3. SleepInv'
    <3>1. "return" \in Calling \ {"read_sleep"} /\ \A q \in Proc \ {p} : chan'[q] = chan[q]
      BY <2>1 DEF DInv, ProcTypes, Calling
    <3>2. QED
      BY <1>1, <2>1, <3>1, SleepSame, Zenon
  <2>4. ClockTypes' /\ NapInv' /\ SleptEnough'
    BY <1>4, <2>1, SleepEnd, Zenon
  <2>5. QED
    BY <1>1, <2>2, <2>3, <2>4, RingSame DEF DInv
<1>5. QED
  BY <1>2, <1>3, <1>4, Zenon DEF sys_sleep

\* The return to the program, or exit.
LEMMA ReturnStep ==
  ASSUME DInv, NEW p \in Proc, sysreturn(p) PROVE DInv'
<1>1. PICK l \in {"exit", "user"} :
        /\ state[p] = "RUNNABLE" /\ pc' = [pc EXCEPT ![p] = l] /\ ret' = [ret EXCEPT ![p] = 0]
        /\ ticks0' = [ticks0 EXCEPT ![p] = 0] /\ nap' = [nap EXCEPT ![p] = 0]
        /\ since' = [since EXCEPT ![p] = TICKWORD]
        /\ UNCHANGED <<state, chan, killed, r, w, n, target, ticks>> /\ UNCHANGED ring
  BY Zenon DEF sysreturn, At, Goto, sleepers, ring
<1>2. ProcTypes' /\ ReadInv'
  BY <1>1, SMTT(30) DEF DInv, ProcTypes, ReadInv, Calling
<1>3. SleepInv'
  <2>1. l \in Calling \ {"read_sleep"}
    BY DEF Calling
  <2>2. QED
    BY <1>1, <2>1, SleepSame, Zenon
<1>4. /\ pc'[p] = l /\ nap'[p] = 0 /\ ticks' = ticks
      /\ \A q \in Proc \ {p} : /\ pc'[q] = pc[q] /\ ret'[q] = ret[q]
                               /\ ticks0'[q] = ticks0[q] /\ nap'[q] = nap[q] /\ since'[q] = since[q]
  BY <1>1, Zenon DEF DInv, ProcTypes, ClockTypes
<1>5. ClockTypes'
  BY <1>1, TickAssumption DEF DInv, ClockTypes
<1>6. NapInv'
  BY <1>4, Zenon DEF DInv, NapInv
<1>7. SleptEnough'
  BY <1>4, Zenon DEF DInv, SleptEnough
<1>8. QED
  BY <1>1, <1>2, <1>3, <1>5, <1>6, <1>7, RingSame DEF DInv

\* kill() only wakes.
LEMMA KillStep ==
  ASSUME DInv, sys_kill PROVE DInv'
<1>1. PICK p \in Proc : kill(p)
  BY DEF sys_kill
<1>2. /\ state' \in [Proc -> {"RUNNABLE", "SLEEPING"}]
      /\ \A q \in Proc : state'[q] = "SLEEPING" => state[q] = "SLEEPING"
  BY <1>1 DEF kill, DInv, ProcTypes
<1>3. chan' = chan /\ pc' = pc /\ r' = r /\ w' = w /\ n' = n /\ target' = target /\ ret' = ret
  BY <1>1 DEF kill, sys_kill, ring, reading
<1>4. ticks' = ticks /\ ticks0' = ticks0 /\ nap' = nap /\ since' = since
  BY Zenon DEF sys_kill, clock
<1>5. ProcTypes' /\ ReadInv'
  BY <1>2, <1>3 DEF DInv, ProcTypes, ReadInv
<1>6. SleepInv'
  BY <1>2, <1>3, Zenon DEF DInv, SleepInv
<1>7. ClockTypes' /\ NapInv' /\ SleptEnough'
  BY <1>3, <1>4, Zenon DEF DInv, ClockTypes, NapInv, SleptEnough
<1>8. QED
  BY <1>5, <1>6, <1>7, RingSame, Zenon DEF DInv, sys_kill

\* The timer interrupt.
LEMMA TickStep ==
  ASSUME DInv, tick PROVE DInv'
<1>1. /\ ticks' = (ticks + 1) % TICKWORD /\ state' = wakeup1(state, "ticks")
      /\ since' = [p \in Proc |-> IF since[p] < TICKWORD THEN since[p] + 1 ELSE TICKWORD]
      /\ ticks0' = ticks0 /\ nap' = nap /\ chan' = chan /\ pc' = pc /\ r' = r /\ w' = w
      /\ n' = n /\ target' = target /\ ret' = ret /\ UNCHANGED ring
  BY Zenon DEF tick, timer, ring, reading
<1>2. /\ state' \in [Proc -> {"RUNNABLE", "SLEEPING"}]
      /\ \A q \in Proc : state'[q] = "SLEEPING" => state[q] = "SLEEPING"
  BY <1>1, Zenon DEF wakeup1, DInv, ProcTypes
<1>3. ProcTypes' /\ ReadInv'
  BY <1>1, <1>2, Zenon DEF DInv, ProcTypes, ReadInv
<1>4. SleepInv'
  BY <1>1, <1>2, Zenon DEF DInv, SleepInv
<1>5. /\ TICKWORD \in Nat \ {0} /\ ticks \in 0 .. TICKWORD - 1
      /\ \A q \in Proc : since[q] \in 0 .. TICKWORD /\ ticks0[q] \in 0 .. TICKWORD - 1 /\ nap[q] \in Int
  BY TickAssumption DEF DInv, ClockTypes
<1>6. \A q \in Proc : /\ since'[q] \in 0 .. TICKWORD /\ since'[q] >= since[q]
                      /\ since'[q] = TICKWORD \/ since'[q] = since[q] + 1
  BY <1>1, <1>5, SMTT(30)
<1>7. ClockTypes'
  <2>1. ticks' \in 0 .. TICKWORD - 1
    BY <1>1, <1>5, NextTick, SMTT(30)
  <2>2. since' \in [Proc -> 0 .. TICKWORD]
    BY <1>1, <1>6
  <2>3. QED
    BY <1>1, <2>1, <2>2 DEF DInv, ClockTypes
<1>8. NapInv'
  <2>1. ASSUME NEW q \in Proc, since[q] = (ticks - ticks0[q]) % TICKWORD
        PROVE since'[q] = TICKWORD \/ since'[q] = (ticks' - ticks0'[q]) % TICKWORD
    <3>1. PICK a \in 0 .. TICKWORD - 1, b \in 0 .. TICKWORD - 1 : a = ticks /\ b = ticks0[q]
      BY <1>5
    <3>2. \/ ((a - b) % TICKWORD) + 1 = TICKWORD
          \/ ((a - b) % TICKWORD) + 1 = (((a + 1) % TICKWORD) - b) % TICKWORD
      BY <1>5, OneMore
    <3>3. ticks' = (a + 1) % TICKWORD /\ ticks0'[q] = b
      BY <1>1, <3>1, Zenon
    <3>4. QED
      BY <1>6, <2>1, <3>1, <3>2, <3>3, Zenon
  <2>2. \A q \in Proc : since[q] = TICKWORD => since'[q] = TICKWORD
    BY <1>1, <1>5, SMTT(30)
  <2>3. QED
    BY <1>1, <2>1, <2>2, Zenon DEF DInv, NapInv
<1>9. SleptEnough'
  <2>1. \A q \in Proc : since[q] >= nap[q] => since'[q] >= nap[q]
    BY <1>5, <1>6
  <2>2. QED
    BY <1>1, <2>1, Zenon DEF DInv, SleptEnough
<1>10. QED
  BY <1>1, <1>3, <1>4, <1>7, <1>8, <1>9, RingSame, Zenon DEF DInv

\* The keyboard and serial interrupts: a reader that sleeps on beside a line that
\* was just completed would break SleepInv.
LEMMA KeyStep ==
  ASSUME DInv, keyboard PROVE DInv'
<1>1. PICK k \in Key : kill_line(k) \/ backspace(k) \/ insert(k)
  BY DEF keyboard, consoleintr
<1>2. /\ InputFree /\ chan' = chan /\ pc' = pc /\ n' = n /\ target' = target /\ ret' = ret
      /\ ticks' = ticks /\ ticks0' = ticks0 /\ nap' = nap /\ since' = since
  BY Zenon DEF keyboard, consoleintr, reading, clock
<1>3. PICK woken \in BOOLEAN :
        /\ RingTypes' /\ OrderInv' /\ LineInv' /\ r' = r
        /\ state' = IF woken THEN wakeup1(state, "input.r") ELSE state
        /\ ~woken => w' = w
  <2>1. CASE kill_line(k)
    BY <2>1, KillLineRing, Zenon
  <2>2. CASE backspace(k)
    BY <2>2, BackspaceRing, Zenon
  <2>3. CASE insert(k)
    <3>1. PICK ends \in BOOLEAN :
            /\ w' = (IF ends THEN e' ELSE w) /\ r' = r
            /\ state' = (IF ends THEN wakeup1(state, "input.r") ELSE state)
      BY <2>3, InsertRing, Zenon
    <3>2. RingTypes' /\ OrderInv' /\ LineInv'
      BY <2>3, InsertKeeps
    <3>3. QED
      BY <3>1, <3>2
  <2>4. QED
    BY <1>1, <2>1, <2>2, <2>3, Zenon
<1>4. /\ state' \in [Proc -> {"RUNNABLE", "SLEEPING"}]
      /\ \A q \in Proc : state'[q] = "SLEEPING" => state[q] = "SLEEPING" /\ (woken => chan[q] # "input.r")
  BY <1>3 DEF wakeup1, DInv, ProcTypes
<1>5. ProcTypes' /\ ReadInv'
  BY <1>2, <1>4, Zenon DEF DInv, ProcTypes, ReadInv
<1>6. SleepInv'
  BY <1>2, <1>3, <1>4, Zenon DEF DInv, SleepInv, InputFree
<1>7. ClockTypes' /\ NapInv' /\ SleptEnough'
  BY <1>2, Zenon DEF DInv, ClockTypes, NapInv, SleptEnough
<1>8. QED
  BY <1>3, <1>5, <1>6, <1>7 DEF DInv

\* The invariant holds at the start.
LEMMA DInvInit == Init => DInv
<1> SUFFICES ASSUME Init PROVE DInv
  OBVIOUS
<1>1. SleepInit /\ ConsoleInit /\ ClockInit
  BY DEF Init
<1>2. ProcTypes /\ ReadInv
  BY <1>1 DEF SleepInit, ConsoleInit, ProcTypes, ReadInv, Calling
<1>3. RingTypes
  BY <1>1, RingAssumption DEF ConsoleInit, RingTypes, Char
<1>4. ClockTypes
  BY <1>1, TickAssumption DEF ClockInit, ClockTypes
<1>5. NapInv /\ SleptEnough
  BY <1>1 DEF ConsoleInit, ClockInit, NapInv, SleptEnough
<1>6. SleepInv
  BY <1>1, Zenon DEF SleepInit, ConsoleInit, SleepInv
<1>7. Gap(r, w) = 0 /\ Gap(w, e) = 0 /\ Gap(r, e) = 0
  BY <1>1 DEF ConsoleInit, Gap
<1>8. OrderInv /\ LineInv
  BY <1>7, RingAssumption DEF OrderInv, LineInv
<1>9. QED
  BY <1>2, <1>3, <1>4, <1>5, <1>6, <1>8 DEF DInv

\* Nothing happens.
LEMMA DInvSame == DInv /\ UNCHANGED vars => DInv'
<1> SUFFICES ASSUME DInv, UNCHANGED vars PROVE DInv'
  OBVIOUS
<1>1. /\ state' = state /\ chan' = chan /\ pc' = pc /\ n' = n /\ target' = target /\ ret' = ret
      /\ ticks' = ticks /\ ticks0' = ticks0 /\ nap' = nap /\ since' = since /\ r' = r /\ w' = w
      /\ UNCHANGED ring
  BY DEF vars, sleepers, reading, clock, ring
<1>2. ProcTypes' /\ ReadInv' /\ SleepInv'
  BY <1>1, Zenon DEF DInv, ProcTypes, ReadInv, SleepInv
<1>3. ClockTypes' /\ NapInv' /\ SleptEnough'
  BY <1>1, Zenon DEF DInv, ClockTypes, NapInv, SleptEnough
<1>4. QED
  BY <1>1, <1>2, <1>3, RingSame DEF DInv

\* Who changes the ring: the interrupt handler, and who takes from it.
LEMMA RingMoves ==
  ASSUME [Next]_vars
  PROVE \/ UNCHANGED <<r, w, e, buf>>
        \/ \E k \in Key : kill_line(k) \/ backspace(k) \/ insert(k)
        \/ \E p \in Proc : read_end(p) \/ read_full(p) \/ read_wait(p)
<1>1. CASE UNCHANGED vars
  BY <1>1 DEF vars, ring
<1>2. CASE Tick \/ sys_kill
  BY <1>2, Zenon DEF Tick, tick, sys_kill, ring
<1>3. CASE keyboard
  BY <1>3, Zenon DEF keyboard, consoleintr
<1>4. ASSUME NEW p \in Proc, syscall(p) \/ fault(p) PROVE UNCHANGED <<r, w, e, buf>>
  <2>1. UNCHANGED ring
    BY <1>4, Zenon DEF syscall, fault, lock_inode, sys_uptime
  <2>2. QED
    BY <2>1 DEF ring
<1>5. ASSUME NEW p \in Proc, Step(p), ~(read_end(p) \/ read_full(p) \/ read_wait(p))
      PROVE UNCHANGED <<r, w, e, buf>>
  <2>1. UNCHANGED ring
    BY <1>5, Zenon DEF Step, console, consoleread, iunlock, read_sleep, consolewrite, ilock, unlock_inode,
                       sys_sleep, sysreturn, user_trap
  <2>2. QED
    BY <2>1 DEF ring
<1>6. QED
  BY <1>1, <1>2, <1>3, <1>4, <1>5, Zenon DEF Next

----------------------------------------------------------------------------
\* consoleread

\* Where the loop of consoleread may end: at a \n or ^D it may take.
LEMMA EndsAt ==
  ASSUME DInv, NEW p \in Proc
  PROVE LoopEnds(p) = {i \in 1 .. Gap(r, w) : i <= n[p] /\ Ready[i] \in {NL, EOT}}
<1>1. n[p] \in Nat /\ Len(Ready) = Gap(r, w) /\ Gap(r, w) \in Nat
  BY ReadyLine DEF DInv, ProcTypes
<1>2. PICK m \in Nat : /\ m = Min({n[p], Len(Ready)})
                       /\ m = IF n[p] <= Gap(r, w) THEN n[p] ELSE Gap(r, w)
  BY <1>1 DEF Min
<1>3. LoopEnds(p) = {i \in 1 .. m : Ready[i] \in {NL, EOT}}
  BY <1>2 DEF LoopEnds
<1>4. /\ \A i \in 1 .. Gap(r, w) : i <= n[p] <=> i \in 1 .. m
      /\ \A i \in 1 .. m : i \in 1 .. Gap(r, w) /\ i <= n[p]
  <2>1. PICK g \in Nat, x \in Nat : g = Gap(r, w) /\ x = n[p]
    BY <1>1
  <2>2. m = IF x <= g THEN x ELSE g
    BY <1>2, <2>1, Zenon
  <2>3. /\ \A i \in 1 .. g : i <= x <=> i \in 1 .. m
        /\ \A i \in 1 .. m : i \in 1 .. g /\ i <= x
    BY <2>2
  <2>4. QED
    BY <2>1, <2>3
<1>5. QED
  BY <1>3, <1>4, Zenon

\* The numbers a reader works with.
LEMMA ReadNumbers ==
  ASSUME DInv, NEW p \in Proc
  PROVE Gap(r, w) \in Nat /\ n[p] \in Nat /\ target[p] \in Nat /\ n[p] <= target[p]
<1>1. n[p] \in Nat /\ target[p] \in Nat
  BY DEF DInv, ProcTypes
<1>2. n[p] <= target[p]
  BY Zenon DEF DInv, ReadInv
<1>3. Gap(r, w) \in Nat
  BY RingFacts, Zenon
<1>4. QED
  BY <1>1, <1>2, <1>3

\* What a turn of consoleread takes: characters up to the end of a line, and a ^D
\* only to return 0.
LEMMA Taken ==
  ASSUME DInv, NEW p \in Proc, read_end(p) \/ read_full(p) \/ read_wait(p)
  PROVE \E k \in 0 .. Gap(r, w), l \in {"ilock", "read_sleep"} :
          /\ r' = (r + k) % WORD /\ UNCHANGED <<w, e, buf>>
          /\ pc[p] = "consoleread" /\ pc' = [pc EXCEPT ![p] = l]
          /\ l = "read_sleep" => k = Gap(r, w)
          /\ \A i \in 1 .. k : Ready[i] \in {NL, EOT} => i = k
          /\ \A i \in 1 .. k : Ready[i] = EOT => l = "ilock" /\ ret'[p] = 0
<1>1. PICK g \in Nat, x \in Nat, y \in Nat : g = Gap(r, w) /\ x = n[p] /\ y = target[p] /\ x <= y
  BY ReadNumbers
<1>2. Len(Ready) = g /\ LoopEnds(p) = {i \in 1 .. g : i <= x /\ Ready[i] \in {NL, EOT}}
  BY <1>1, ReadyLine, EndsAt DEF DInv
<1>3. CASE read_end(p)
  <2>1. PICK f \in LoopEnds(p) :
          /\ \A j \in LoopEnds(p) : f <= j
          /\ LET copied == IF Ready[f] = EOT THEN f - 1 ELSE f
                 back == Ready[f] = EOT /\ n[p] - copied < target[p] IN
             /\ advance(IF back THEN f - 1 ELSE f)
             /\ leave(p, target[p] - (n[p] - copied))
    BY <1>3, Zenon DEF read_end
  <2>2. f \in 1 .. g /\ f <= x /\ Ready[f] \in {NL, EOT} /\ \A i \in 1 .. g : i < f => Ready[i] \notin {NL, EOT}
    <3>1. f \in 1 .. g /\ f <= x /\ Ready[f] \in {NL, EOT}
      BY <1>2
    <3>2. ASSUME NEW i \in 1 .. g, i < f, Ready[i] \in {NL, EOT} PROVE FALSE
      <4>1. i <= x
        BY <3>1, <3>2
      <4>2. f <= i
        BY <1>2, <2>1, <3>2, <4>1, Zenon
      <4>3. QED
        BY <3>1, <3>2, <4>2
    <3>3. QED
      BY <3>1, <3>2
  <2>3. PICK copied \in Nat : copied = IF Ready[f] = EOT THEN f - 1 ELSE f
    BY <2>2
  <2>4. PICK k \in 0 .. g : k = IF Ready[f] = EOT /\ x - copied < y THEN f - 1 ELSE f
    BY <2>2
  <2>5. advance(k) /\ leave(p, y - (x - copied))
    BY <1>1, <2>1, <2>3, <2>4, Zenon
  <2>6. pc[p] = "consoleread" /\ pc' = [pc EXCEPT ![p] = "ilock"] /\ r' = (r + k) % WORD /\ UNCHANGED <<w, e, buf>>
    BY <1>3, <2>5, Zenon DEF read_end, advance, leave, Goto, At
  <2>7. k <= f /\ \A i \in 1 .. k : i \in 1 .. g /\ (i < f \/ (i = f /\ k = f))
    BY <2>2, <2>4
  <2>8. \A i \in 1 .. k : Ready[i] \in {NL, EOT} => i = k
    BY <2>2, <2>7, Zenon
  <2>9. ASSUME NEW i \in 1 .. k, Ready[i] = EOT PROVE ret'[p] = 0
    <3>1. i = f /\ k = f /\ Ready[f] = EOT
      BY <2>2, <2>7, <2>9, Zenon
    <3>2. copied = f - 1 /\ ~(x - copied < y)
      BY <2>2, <2>3, <2>4, <3>1
    <3>3. y - (x - copied) = 0
      BY <1>1, <2>2, <3>2
    <3>4. QED
      BY <2>5, <3>3, Zenon DEF leave, DInv, ProcTypes
  <2>10. QED
    BY <1>1, <2>6, <2>8, <2>9, Zenon
<1>4. CASE read_full(p)
  <2>1. advance(x) /\ leave(p, target[p]) /\ pc[p] = "consoleread" /\ LoopEnds(p) = {} /\ Len(Ready) >= x
    BY <1>1, <1>4, Zenon DEF read_full, At
  <2>2. PICK k \in 0 .. g : k = x
    BY <1>2, <2>1
  <2>3. \A i \in 1 .. k : Ready[i] \notin {NL, EOT}
    <3>1. \A i \in 1 .. k : i \in 1 .. g /\ i <= x
      BY <2>2
    <3>2. QED
      BY <1>2, <2>1, <3>1
  <2>4. pc' = [pc EXCEPT ![p] = "ilock"] /\ r' = (r + k) % WORD /\ UNCHANGED <<w, e, buf>>
    BY <2>1, <2>2, Zenon DEF advance, leave, Goto
  <2>5. QED
    BY <1>1, <2>1, <2>3, <2>4, Zenon
<1>5. CASE read_wait(p)
  <2>1. /\ advance(g) /\ pc[p] = "consoleread" /\ LoopEnds(p) = {} /\ g < x
        /\ pc' = [pc EXCEPT ![p] = "ilock"] \/ pc' = [pc EXCEPT ![p] = "read_sleep"]
    BY <1>1, <1>2, <1>5, Zenon DEF read_wait, leave, Goto, At
  <2>2. g \in 0 .. g /\ \A i \in 1 .. g : i <= x
    BY <2>1
  <2>3. \A i \in 1 .. g : Ready[i] \notin {NL, EOT}
    BY <1>2, <2>1, <2>2
  <2>4. r' = (r + g) % WORD /\ UNCHANGED <<w, e, buf>>
    BY <2>1, Zenon DEF advance
  <2>5. QED
    BY <1>1, <2>1, <2>2, <2>3, <2>4, Zenon
<1>6. QED
  BY <1>3, <1>4, <1>5, Zenon

\* consoleread, until it leaves or is about to sleep.
LEMMA ReadStep ==
  ASSUME DInv, NEW p \in Proc, read_end(p) \/ read_full(p) \/ read_wait(p), UNCHANGED clock PROVE DInv'
<1>1. PICK k \in 0 .. Gap(r, w), l \in {"ilock", "read_sleep"} :
          /\ r' = (r + k) % WORD /\ UNCHANGED <<w, e, buf>>
          /\ pc[p] = "consoleread" /\ pc' = [pc EXCEPT ![p] = l]
          /\ l = "read_sleep" => k = Gap(r, w)
  BY Taken
<1>2. /\ RingTypes' /\ OrderInv' /\ LineInv'
      /\ k = Gap(r, w) => r' = w
      /\ r = w => r' = r
  BY <1>1, AdvanceRing, SMTT(30)
<1>3. UNCHANGED state /\ state[p] = "RUNNABLE"
  BY Zenon DEF read_end, read_full, read_wait, leave, At, sleepers
<1>4. /\ n[p] \in Nat /\ target[p] \in Nat /\ n[p] <= target[p] /\ Gap(r, w) \in Nat
      /\ Len(Ready) = Gap(r, w)
  BY ReadyLine, ReadNumbers DEF DInv
<1>5. \/ \E v \in Int : leave(p, v)
      \/ /\ n' = [n EXCEPT ![p] = @ - Gap(r, w)] /\ Gap(r, w) < n[p]
         /\ UNCHANGED <<target, chan, ret>>
  <2>1. CASE read_end(p)
    <3>1. PICK f \in LoopEnds(p) : leave(p, target[p] - (n[p] - (IF Ready[f] = EOT THEN f - 1 ELSE f)))
      BY <2>1, Zenon DEF read_end
    <3>2. PICK c \in Int : c = IF Ready[f] = EOT THEN f - 1 ELSE f
      BY EndsAt
    <3>3. leave(p, target[p] - (n[p] - c))
      BY <3>1, <3>2, Zenon
    <3>4. target[p] - (n[p] - c) \in Int
      BY <1>4, SMTT(30)
    <3>5. QED
      BY <3>3, <3>4
  <2>2. CASE read_full(p)
    BY <1>4, <2>2 DEF read_full
  <2>3. CASE read_wait(p)
    <3>1. \/ leave(p, -1)
          \/ /\ n' = [n EXCEPT ![p] = @ - Gap(r, w)] /\ Gap(r, w) < n[p]
             /\ UNCHANGED <<target, chan, ret>>
      BY <1>4, <2>3, Zenon DEF read_wait, sleepers
    <3>2. -1 \in Int
      OBVIOUS
    <3>3. QED
      BY <3>1, <3>2
  <2>4. QED
    BY <2>1, <2>2, <2>3
<1>6. /\ ProcTypes' /\ ReadInv'
      /\ \A q \in Proc \ {p} : chan'[q] = chan[q] /\ ret'[q] = ret[q]
  <2>1. CASE \E v \in Int : leave(p, v)
    <3>1. PICK v \in Int : leave(p, v)
      BY <2>1
    <3>2. \A q \in Proc \ {p} : chan'[q] = chan[q] /\ ret'[q] = ret[q]
      BY <3>1 DEF leave, DInv, ProcTypes
    <3>3. QED
      BY <3>1, <3>2, Leave, Zenon
  <2>2. CASE /\ n' = [n EXCEPT ![p] = @ - Gap(r, w)] /\ Gap(r, w) < n[p]
             /\ UNCHANGED <<target, chan, ret>>
    <3>1. PICK m \in Nat : m = n[p] - Gap(r, w) /\ m <= target[p]
      BY <1>4, <2>2
    <3>2. n' = [n EXCEPT ![p] = m]
      BY <2>2, <3>1 DEF DInv, ProcTypes
    <3>3. ProcTypes'
      BY <1>1, <1>3, <2>2, <3>2 DEF DInv, ProcTypes, Calling
    <3>4. ReadInv'
      BY <2>2, <3>1, <3>2, Zenon DEF DInv, ProcTypes, ReadInv
    <3>5. QED
      BY <2>2, <3>3, <3>4, Zenon
  <2>3. QED
    BY <1>5, <2>1, <2>2, Zenon
<1>7. SleepInv'
  <2>1. pc'[p] = l /\ \A q \in Proc \ {p} : pc'[q] = pc[q]
    BY <1>1 DEF DInv, ProcTypes
  <2>2. QED
    BY <1>1, <1>2, <1>3, <1>6, <2>1, Zenon DEF DInv, SleepInv
<1>8. ClockTypes' /\ NapInv' /\ SleptEnough'
  <2>1. l \in Calling \ {"sleep", "ticks_sleep"}
    BY DEF Calling
  <2>2. QED
    BY <1>1, <1>6, <2>1, ClockSame, Zenon
<1>9. QED
  BY <1>2, <1>6, <1>7, <1>8 DEF DInv

\* A step that takes a ^D returns 0 to its caller.
LEMMA EofStep ==
  ASSUME DInv, [Next]_vars, NEW i \in 1 .. Len(Ready), Ready[i] = EOT, i <= (r' - r) % WORD
  PROVE \E p \in Proc : pc[p] = "consoleread" /\ pc'[p] = "ilock" /\ ret'[p] = 0
<1>1. r' # r
  <2>1. r - r = 0 /\ 0 % WORD = 0
    BY RingFacts
  <2>2. ~(i <= 0)
    BY ReadyLine DEF DInv
  <2>3. QED
    BY <2>1, <2>2
<1>2. PICK p \in Proc : read_end(p) \/ read_full(p) \/ read_wait(p)
  BY <1>1, RingMoves, Zenon DEF kill_line, backspace, insert
<1>3. PICK k \in 0 .. Gap(r, w), l \in {"ilock", "read_sleep"} :
        /\ r' = (r + k) % WORD /\ UNCHANGED <<w, e, buf>>
        /\ pc[p] = "consoleread" /\ pc' = [pc EXCEPT ![p] = l]
        /\ \A j \in 1 .. k : Ready[j] = EOT => l = "ilock" /\ ret'[p] = 0
  BY <1>2, Taken, SMTT(30)
<1>4. (r' - r) % WORD = k
  BY <1>3, AdvanceRing, Zenon
<1>5. i \in 1 .. k
  BY <1>4, ReadyLine, SMTT(30) DEF DInv
<1>6. l = "ilock" /\ ret'[p] = 0
  BY <1>3, <1>5
<1>7. pc'[p] = "ilock"
  BY <1>3, <1>6, Zenon DEF DInv, ProcTypes
<1>8. QED
  BY <1>3, <1>6, <1>7

\* A turn of consoleread takes the first characters of the complete lines, and
\* none after the end of the first of them.
LEMMA TakeAbstract ==
  ASSUME DInv, NEW p \in Proc, read_end(p) \/ read_full(p) \/ read_wait(p)
  PROVE UNCHANGED <<Line, Ready>> \/ \E k \in 1 .. Len(Ready) : Abstract!Take(k)
<1>1. PICK k \in 0 .. Gap(r, w) :
        /\ r' = (r + k) % WORD /\ UNCHANGED <<w, e, buf>>
        /\ \A i \in 1 .. k : Ready[i] \in {NL, EOT} => i = k
  BY Taken, Zenon
<1>2. RingTypes' /\ Gap(r', w) = Gap(r, w) - k
  BY <1>1, AdvanceRing, Zenon
<1>3. PICK a \in Nat : a = Gap(r, w) /\ k \in 0 .. a /\ r \in 0 .. WORD - 1 /\ k \in 0 .. WORD - 1
  <2>1. Gap(r, w) \in 0 .. WORD - 1 /\ r \in 0 .. WORD - 1
    BY RingFacts, GapSlot, Zenon
  <2>2. QED
    BY <2>1, RingFacts, SMTT(30)
<1>4. \A i \in 1 .. a - k : buf'[(r' + i - 1) % INPUT_BUF] = buf[(r + (k + i) - 1) % INPUT_BUF]
  <2>1. ASSUME NEW i \in 1 .. a - k
        PROVE buf'[(r' + i - 1) % INPUT_BUF] = buf[(r + (k + i) - 1) % INPUT_BUF]
    <3>1. PICK j \in Nat, x \in 0 .. WORD - 1 : j = i - 1 /\ x = r'
      BY <1>2, <1>3, SMTT(30) DEF RingTypes
    <3>2. (x + j) % INPUT_BUF = (r + k + j) % INPUT_BUF
      BY <1>1, <1>3, <3>1, SlotFrom, SMTT(30)
    <3>3. x + i - 1 = x + j /\ r + (k + i) - 1 = r + k + j
      BY <1>3, <3>1
    <3>4. buf' = buf
      BY <1>1
    <3>5. QED
      BY <3>1, <3>2, <3>3, <3>4, Zenon
  <2>2. QED
    BY <2>1, Zenon
<1>5. \A i \in 1 .. a - k : k + i \in 1 .. a
  BY <1>3
<1>6. Line' = Line
  BY <1>1, Zenon DEF Line, Slots
<1>7. PICK s \in Seq(Char), t \in Seq(Char) :
        /\ s = Ready /\ t = Ready' /\ Len(s) = a /\ Len(t) = a - k
        /\ \A i \in 1 .. a : s[i] = buf[(r + i - 1) % INPUT_BUF]
        /\ \A i \in 1 .. a - k : t[i] = buf'[(r' + i - 1) % INPUT_BUF]
  <2>1. /\ Ready \in Seq(Char) /\ Len(Ready) = a
        /\ \A i \in 1 .. a : Ready[i] = buf[(r + i - 1) % INPUT_BUF]
    BY <1>3, ReadyLine, Zenon DEF DInv
  <2>2. Gap(r', w') = a - k
    BY <1>1, <1>2, <1>3, Zenon
  <2>3. /\ Ready' \in Seq(Char) /\ Len(Ready') = a - k
        /\ \A i \in 1 .. a - k : Ready'[i] = buf'[(r' + i - 1) % INPUT_BUF]
    BY <1>2, <2>2, NextReadyLine, Zenon
  <2>4. QED
    BY <2>1, <2>3, Zenon
<1>8. \A i \in 1 .. a - k : t[i] = s[k + i]
  BY <1>4, <1>5, <1>7, Zenon
<1>9. t = SubSeq(s, k + 1, Len(s))
  <2>1. k \in 0 .. Len(s) /\ Len(t) = Len(s) - k /\ \A i \in 1 .. Len(s) - k : t[i] = s[k + i]
    BY <1>3, <1>7, <1>8, Zenon
  <2>2. QED
    BY <2>1, SuffixSeq, Zenon
<1>10. CASE k = 0
  <2>1. t = s
    BY <1>7, <1>8, <1>10, SameSeq, SMTT(30)
  <2>2. QED
    BY <1>6, <1>7, <2>1, Zenon
<1>11. CASE k # 0
  <2>1. k \in 1 .. Len(s) /\ \A i \in 1 .. k - 1 : i \in 1 .. k /\ i # k
    BY <1>3, <1>7, <1>11, SMTT(30)
  <2>2. \A i \in 1 .. k - 1 : Ready[i] \notin {NL, EOT}
    BY <1>1, <2>1, Zenon
  <2>3. Abstract!Take(k)
    BY <1>6, <1>7, <1>9, <2>2, Zenon DEF Abstract!Take
  <2>4. QED
    BY <1>7, <2>1, <2>3, Zenon
<1>12. QED
  BY <1>10, <1>11

----------------------------------------------------------------------------
\* What follows

\* Every step keeps the invariant.
LEMMA DInvStep == DInv /\ [Next]_vars => DInv'
<1> SUFFICES ASSUME DInv, [Next]_vars PROVE DInv'
  OBVIOUS
<1>1. CASE Tick
  BY <1>1, TickStep DEF Tick
<1>2. CASE keyboard \/ sys_kill
  BY <1>2, KeyStep, KillStep
<1>3. ASSUME NEW p \in Proc, syscall(p) \/ fault(p) PROVE DInv'
  <2>1. CASE fault(p)
    BY <2>1, CallSteps, Zenon DEF fault
  <2>2. CASE At(p, "user") /\ \E t \in Naps : sleep_begin(p, t) /\ Goto(p, "sleep") /\ UNCHANGED <<ring, iplock, reading>>
    BY <2>2, SleepBegin
  <2>3. CASE At(p, "user") /\ sys_uptime(p)
    BY <2>3, CallSteps, Zenon DEF sys_uptime
  <2>4. CASE At(p, "user") /\ UNCHANGED clock /\ \E call \in {"read", "write"}, size \in Sizes : lock_inode(p, call, size)
    BY <2>4, CallSteps, Zenon
  <2>5. QED
    BY <1>3, <2>1, <2>2, <2>3, <2>4, Zenon DEF syscall
<1>4. ASSUME NEW p \in Proc, Step(p) PROVE DInv'
  <2>1. CASE console(p)
    BY <2>1, LockSteps, ReadStep, ReadSleepStep, WriteStep, Zenon DEF console, consoleread
  <2>2. CASE sys_sleep(p) \/ sysreturn(p)
    BY <2>2, SleepStep, ReturnStep
  <2>3. CASE user_trap(p)
    BY <2>3, CallSteps, Zenon DEF user_trap
  <2>4. QED
    BY <1>4, <2>1, <2>2, <2>3, Zenon DEF Step
<1>5. CASE UNCHANGED vars
  BY <1>5, DInvSame
<1>6. QED
  BY <1>1, <1>2, <1>3, <1>4, <1>5, Zenon DEF Next

\* The invariant holds.
LEMMA DInvHolds == Spec => []DInv
  BY DInvInit, DInvStep, PTL DEF Spec

\* sys_sleep returns 0 only after the time asked for, whatever ticks was and
\* however often it wraps, for any set of processes and arguments.
THEOREM SleptEnoughHolds == Spec => []SleptEnough
<1>1. DInv => SleptEnough
  BY DEF DInv
<1>2. QED
  BY <1>1, DInvHolds, PTL

\* No reader sleeps on while there is something to read, for any number of readers
\* and any length of the ring.
THEOREM NoLineLeftHolds == Spec => []NoLineLeft
<1>1. DInv => NoLineLeft
  BY Zenon DEF DInv, SleepInv, NoLineLeft
<1>2. QED
  BY <1>1, DInvHolds, PTL

\* Every end of file that is typed is seen by some reader, for any number of them.
THEOREM EofSeenHolds == Spec => EofSeen
<1>1. DInv /\ [Next]_vars =>
        [\A i \in 1 .. Len(Ready) :
           Ready[i] = EOT /\ i <= (r' - r) % WORD
             => \E p \in Proc : pc[p] = "consoleread" /\ pc'[p] = "ilock" /\ ret'[p] = 0]_vars
  BY EofStep
<1>2. QED
  BY <1>1, DInvHolds, PTL DEF Spec, EofSeen

\* What a step does to the lines.
LEMMA AbstractStep == DInv /\ [Next]_vars => [Abstract!Next]_<<Line, Ready>>
<1> SUFFICES ASSUME DInv, [Next]_vars PROVE Abstract!Next \/ UNCHANGED <<Line, Ready>>
  OBVIOUS
<1>1. CASE UNCHANGED <<r, w, e, buf>>
  BY <1>1 DEF Line, Ready, Slots
<1>2. ASSUME NEW k \in Key, kill_line(k) \/ backspace(k) \/ insert(k) PROVE Abstract!Next
  BY <1>2, EditAbstract, TypeAbstract, Zenon DEF Abstract!Next
<1>3. ASSUME NEW p \in Proc, read_end(p) \/ read_full(p) \/ read_wait(p)
      PROVE Abstract!Next \/ UNCHANGED <<Line, Ready>>
  BY <1>3, TakeAbstract, Zenon DEF Abstract!Next
<1>4. QED
  BY <1>1, <1>2, <1>3, RingMoves, Zenon

\* The console implements AbstractConsole, for any length of the ring, any word at
\* which its indexes wrap and any number of readers.
THEOREM ConsoleRefinement == Spec => ImplementsConsole
<1>1. Init => Abstract!Init
  <2>1. ASSUME Init PROVE Line = <<>> /\ Ready = <<>>
    <3>1. DInv /\ r = 0 /\ w = 0 /\ e = 0
      BY <2>1, DInvInit DEF Init, ConsoleInit
    <3>2. Gap(r, w) = 0 /\ Gap(w, e) = 0
      BY <3>1 DEF Gap
    <3>3. Line \in Seq(Char) /\ Ready \in Seq(Char) /\ Len(Line) = 0 /\ Len(Ready) = 0
      BY <3>1, <3>2, ReadyLine, Zenon DEF DInv
    <3>4. QED
      BY <3>3
  <2>2. QED
    BY <2>1 DEF Abstract!Init
<1>2. QED
  BY <1>1, AbstractStep, DInvHolds, PTL DEF Spec, ImplementsConsole, Abstract!Spec
============================================================================
