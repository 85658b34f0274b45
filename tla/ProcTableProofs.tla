-------------------------- MODULE ProcTableProofs --------------------------
(***************************************************************************)
(* Proofs about ProcTable: no zombie is missed, and the address spaces in  *)
(* existence are those of the processes and of the children in the making. *)
(***************************************************************************)
EXTENDS ProcTable, TLAPS

Making == {"fork", "clone", "run"}

\* Has an address space: a process, a zombie, or a child that fork or clone has
\* given one.
Has(p) == Exists(p) \/ (state[p] = "EMBRYO" /\ parent[p] # NULL)

Types ==
  /\ state \in [Proc -> {"UNUSED", "EMBRYO", "SLEEPING", "RUNNABLE", "ZOMBIE"}]
  /\ chan \in [Proc -> Proc \cup {NoChan}]
  /\ killed \in [Proc -> BOOLEAN]
  /\ parent \in [Proc -> Proc \cup {NULL}]
  /\ ndir \in 0 .. MaxDir
  /\ pgdir \in [Proc -> 1 .. ndir \cup {NULL}]
  /\ pc \in [Proc -> {"user", "fork", "clone", "run", "wait", "join"}]
  /\ np \in [Proc -> Proc \cup {NULL}]

\* What fork and clone make has one maker, and its parent when it has its memory.
MakeInv ==
  /\ \A p \in Proc : pc[p] \in Making =>
       /\ state[p] = "RUNNABLE"
       /\ np[p] \in Proc /\ state[np[p]] = "EMBRYO"
       /\ parent[np[p]] = IF pc[p] = "run" THEN p ELSE NULL
  /\ \A p \in Proc : pc[p] \notin Making => np[p] = NULL
  /\ \A p, q \in Proc : np[p] = np[q] /\ np[p] # NULL => p = q
  /\ \A z \in Proc : state[z] = "EMBRYO" => \E p \in Proc : np[p] = z

\* What does not run is in no call, or asleep in wait or join.
IdleInv ==
  \A p \in Proc : /\ state[p] \in {"UNUSED", "EMBRYO", "ZOMBIE"} => pc[p] = "user"
                  /\ state[p] = "UNUSED" => parent[p] = NULL
                  /\ state[p] = "SLEEPING" => pc[p] \in {"wait", "join"} /\ chan[p] = p

\* A parent has not exited; init, which inherits the others' children, never does
\* and has no threads.
ParentInv ==
  /\ \A p, q \in Proc : parent[q] = p => Alive(p) /\ p # q
  /\ Alive(initproc) /\ parent[initproc] = NULL /\ pc[initproc] \notin {"clone", "join"}

\* An address space has one owner, and the others that use it are threads of that
\* one: its children.
ShareInv ==
  \A q, r \in Proc : Has(q) /\ Has(r) /\ q # r /\ pgdir[q] = pgdir[r] /\ ~IsThread(q) => parent[r] = q

\* Threads have no threads, and neither do init and who calls wait.
ThreadInv ==
  /\ \A p, q \in Proc : Has(q) /\ IsThread(q) /\ parent[q] = p => ~IsThread(p)
  /\ \A p \in Proc : pc[p] = "clone" => ~IsThread(p)
  /\ \A q \in Proc : Has(q) /\ parent[q] = initproc => ~IsThread(q)
  /\ \A p \in Proc : pc[p] = "wait" => Threads(p) = {}

\* NoMissedZombie, child by child.
Kid(q, p) == parent[q] = p /\ (pc[p] = "join" => pgdir[q] = pgdir[p])

WakeInv ==
  \A p \in Proc : state[p] = "SLEEPING" =>
    /\ \E q \in Proc : Kid(q, p) /\ Alive(q)
    /\ \A q \in Proc : Kid(q, p) => state[q] # "ZOMBIE"

\* AddressSpaces, for all that have one.
LiveInv == ~fault /\ live = {pgdir[q] : q \in {r \in Proc : Has(r)}}

PInv == Types /\ MakeInv /\ IdleInv /\ ParentInv /\ ShareInv /\ ThreadInv /\ WakeInv /\ LiveInv

----------------------------------------------------------------------------
\* fork and clone

\* The first slot, which is init.
LEMMA InitIsProc == initproc \in Proc
  BY ProcAssumption DEF initproc

\* Who slept with a reason goes on to, if its children are the same and none of them
\* has exited.
LEMMA SleepOn ==
  ASSUME PInv,
         \A r \in Proc : state'[r] = "SLEEPING" =>
           state[r] = "SLEEPING" /\ \A q \in Proc : Kid(q, r)' <=> Kid(q, r),
         \A q \in Proc : Alive(q) => Alive(q)',
         \A q \in Proc : state'[q] = "ZOMBIE" => state[q] = "ZOMBIE"
  PROVE WakeInv'
  BY DEF PInv, WakeInv

\* Only the process that makes it is the parent of a child in the making.
LEMMA EmbryoParent ==
  ASSUME PInv, NEW p \in Proc, NEW q \in Proc, parent[q] = p, state[q] = "EMBRYO"
  PROVE pc[p] = "run"
<1>1. PICK r \in Proc : np[r] = q
  BY DEF PInv, MakeInv
<1>2. pc[r] \in Making
  BY <1>1, NullAssumption DEF PInv, MakeInv
<1>3. parent[q] = IF pc[r] = "run" THEN r ELSE NULL
  BY <1>1, <1>2 DEF PInv, MakeInv
<1>4. QED
  BY <1>3, NullAssumption

\* allocproc: the slot was nobody's, and has no parent until it has its memory.
LEMMA AllocStep ==
  ASSUME PInv, NEW p \in Proc, allocproc(p, "fork") \/ allocproc(p, "clone") PROVE PInv'
<1>1. PICK op \in {"fork", "clone"} : allocproc(p, op)
  OBVIOUS
<1>2. PICK z \in Proc : /\ state[z] = "UNUSED"
                        /\ state' = [state EXCEPT ![z] = "EMBRYO"]
                        /\ np' = [np EXCEPT ![p] = z]
  BY <1>1, Zenon DEF allocproc, Free
<1>3. /\ pc[p] = "user" /\ state[p] = "RUNNABLE" /\ pc' = [pc EXCEPT ![p] = op]
      /\ op = "clone" => ~IsThread(p) /\ p # initproc
      /\ UNCHANGED <<chan, killed, parent, pgdir, live, ndir, fault>>
  BY <1>1 DEF allocproc, Calls, ThreadRules, At, Goto, spaces
<1>4. /\ \A q \in Proc : q # z => state'[q] = state[q]
      /\ \A q \in Proc : q # p => pc'[q] = pc[q] /\ np'[q] = np[q]
      /\ state'[z] = "EMBRYO" /\ pc'[p] = op /\ np'[p] = z /\ z # p
      /\ parent[z] = NULL /\ pc[z] = "user"
  BY <1>2, <1>3 DEF PInv, Types, IdleInv
<1>5. \A q \in Proc : /\ Has(q)' <=> Has(q)
                      /\ Alive(q)' <=> Alive(q)
                      /\ IsThread(q)' <=> IsThread(q)
  BY <1>2, <1>3, <1>4 DEF Has, Exists, Alive, IsThread
<1>6. Types'
  BY <1>2, <1>3 DEF PInv, Types
<1>7. MakeInv'
  <2>1. \A q \in Proc : np[q] # z
    BY <1>2, NullAssumption DEF PInv, MakeInv
  <2>2. QED
    BY <1>2, <1>3, <1>4, <2>1 DEF PInv, MakeInv, Making
<1>8. IdleInv'
  BY <1>3, <1>4 DEF PInv, IdleInv
<1>9. ParentInv'
  BY <1>3, <1>4, <1>5, InitIsProc DEF PInv, ParentInv
<1>10. ShareInv'
  BY <1>3, <1>5 DEF PInv, ShareInv
<1>11. ThreadInv'
  <2>1. \A q \in Proc : Threads(q)' = Threads(q)
    BY <1>2, <1>3, <1>4 DEF Threads
  <2>2. QED
    BY <1>3, <1>4, <1>5, <2>1 DEF PInv, ThreadInv
<1>12. WakeInv'
  BY <1>2, <1>3, <1>4, <1>5 DEF PInv, WakeInv, Kid
<1>13. LiveInv'
  BY <1>3, <1>5 DEF PInv, LiveInv
<1>14. QED
  BY <1>6, <1>7, <1>8, <1>9, <1>10, <1>11, <1>12, <1>13 DEF PInv

\* The slot of a child that cannot be made is given back.
LEMMA NoMemoryStep == ASSUME PInv, NEW p \in Proc, no_memory(p) PROVE PInv'
<1>1. pc[p] \in {"fork", "clone"} /\ state[p] = "RUNNABLE"
  BY DEF no_memory, At
<1>2. PICK z \in Proc : z = np[p] /\ state[z] = "EMBRYO" /\ parent[z] = NULL /\ z # p
  BY <1>1 DEF PInv, MakeInv, Making
<1>3. /\ state' = [state EXCEPT ![z] = "UNUSED"]
      /\ np' = [np EXCEPT ![p] = NULL] /\ pc' = [pc EXCEPT ![p] = "user"]
      /\ pgdir' = pgdir \/ pgdir' = [pgdir EXCEPT ![z] = NULL]
      /\ UNCHANGED <<chan, killed, parent, live, ndir, fault>>
  BY <1>2 DEF no_memory, Goto
<1>4. /\ \A q \in Proc : q # z => state'[q] = state[q] /\ pgdir'[q] = pgdir[q]
      /\ \A q \in Proc : q # p => pc'[q] = pc[q] /\ np'[q] = np[q]
      /\ state'[z] = "UNUSED" /\ pc'[p] = "user" /\ np'[p] = NULL
      /\ \A q \in Proc : parent[q] # z
  BY <1>2, <1>3 DEF PInv, Types, ParentInv, Alive
<1>5. \A q \in Proc : /\ Has(q)' <=> Has(q)
                      /\ Alive(q)' <=> Alive(q)
                      /\ IsThread(q)' <=> IsThread(q)
                      /\ Has(q) => q # z
  BY <1>2, <1>3, <1>4 DEF Has, Exists, Alive, IsThread, PInv, Types
<1>6. Types'
  BY <1>3 DEF PInv, Types
<1>7. MakeInv'
  <2>1. \A q \in Proc : q # p => np[q] # z
    BY <1>2, NullAssumption DEF PInv, MakeInv
  <2>2. \A q \in Proc : pc'[q] \in Making => q # p /\ pc[q] \in Making
    BY <1>4 DEF Making
  <2>3. \A q \in Proc : pc'[q] \notin Making => np'[q] = NULL
    BY <1>4 DEF PInv, MakeInv
  <2>4. \A y \in Proc : state'[y] = "EMBRYO" => y # z /\ state[y] = "EMBRYO"
    BY <1>4
  <2>5. \A y \in Proc : state'[y] = "EMBRYO" => \E q \in Proc : np'[q] = y
    BY <1>2, <1>4, <2>4 DEF PInv, MakeInv
  <2>6. \A q \in Proc : pc'[q] \in Making =>
          /\ state'[q] = "RUNNABLE"
          /\ np'[q] \in Proc /\ state'[np'[q]] = "EMBRYO"
          /\ parent'[np'[q]] = IF pc'[q] = "run" THEN q ELSE NULL
    BY <1>2, <1>3, <1>4, <2>1, <2>2 DEF PInv, MakeInv
  <2>7. \A q, r \in Proc : np'[q] = np'[r] /\ np'[q] # NULL => q = r
    BY <1>4 DEF PInv, MakeInv
  <2>8. QED
    BY <2>3, <2>5, <2>6, <2>7 DEF MakeInv
<1>8. IdleInv'
  BY <1>1, <1>2, <1>3, <1>4 DEF PInv, IdleInv
<1>9. ParentInv'
  BY <1>3, <1>4, <1>5, InitIsProc DEF PInv, ParentInv
<1>10. ShareInv'
  BY <1>3, <1>4, <1>5 DEF PInv, ShareInv
<1>11. ThreadInv'
  <2>1. \A q \in Proc : q # z => Threads(q)' \subseteq Threads(q)
    BY <1>2, <1>3, <1>4 DEF Threads
  <2>2. Threads(z)' = {}
    BY <1>3, <1>4 DEF Threads
  <2>3. QED
    BY <1>3, <1>4, <1>5, <2>1, <2>2 DEF PInv, ThreadInv
<1>12. WakeInv'
  <2>1. ASSUME NEW r \in Proc, state'[r] = "SLEEPING", NEW q \in Proc PROVE Kid(q, r)' <=> Kid(q, r)
    <3>1. r # z /\ r # p /\ pc'[r] = pc[r] /\ parent'[q] = parent[q] /\ r # NULL
      BY <1>1, <1>3, <1>4, <2>1, NullAssumption
    <3>2. QED
      BY <1>2, <1>4, <3>1 DEF Kid
  <2>2. \A q \in Proc : /\ state'[q] = "ZOMBIE" => state[q] = "ZOMBIE"
                        /\ state'[q] = "SLEEPING" => state[q] = "SLEEPING"
    BY <1>4
  <2>3. QED
    BY <1>5, <2>1, <2>2, SleepOn
<1>13. LiveInv'
  BY <1>3, <1>4, <1>5 DEF PInv, LiveInv
<1>14. QED
  BY <1>6, <1>7, <1>8, <1>9, <1>10, <1>11, <1>12, <1>13 DEF PInv

\* The number of a new address space is that of no other.
LEMMA Fresh ==
  ASSUME PInv, ndir < MaxDir
  PROVE /\ ndir + 1 \in 1 .. MaxDir /\ ndir + 1 # NULL
        /\ \A q \in Proc : pgdir[q] # ndir + 1
        /\ [Proc -> 1 .. ndir \cup {NULL}] \subseteq [Proc -> 1 .. ndir + 1 \cup {NULL}]
<1>1. ndir + 1 \in 1 .. MaxDir
  BY BoundAssumption DEF PInv, Types
<1>2. ndir + 1 # NULL
  BY <1>1, NullAssumption
<1>3. ndir + 1 \notin 1 .. ndir /\ 1 .. ndir \subseteq 1 .. ndir + 1
  BY DEF PInv, Types
<1>4. QED
  BY <1>1, <1>2, <1>3 DEF PInv, Types

\* The child gets a copy of the memory, which nobody else has.
LEMMA ForkCopyStep == ASSUME PInv, NEW p \in Proc, fork_copy(p) PROVE PInv'
<1>1. pc[p] = "fork" /\ state[p] = "RUNNABLE" /\ ndir < MaxDir
  BY DEF fork_copy, At
<1>2. PICK z \in Proc : z = np[p] /\ state[z] = "EMBRYO" /\ parent[z] = NULL /\ z # p
  BY <1>1 DEF PInv, MakeInv, Making
<1>3. PICK n : n = ndir + 1
  OBVIOUS
<1>4. n \in 1 .. MaxDir /\ n # NULL /\ \A q \in Proc : pgdir[q] # n
  BY <1>1, <1>3, Fresh
<1>5. /\ pgdir' = [pgdir EXCEPT ![z] = n] /\ parent' = [parent EXCEPT ![z] = p]
      /\ ndir' = n /\ live' = live \cup {n} /\ pc' = [pc EXCEPT ![p] = "run"]
      /\ UNCHANGED <<state, chan, killed, fault, np>>
  BY <1>2, <1>3 DEF fork_copy, Goto
<1>6. /\ \A q \in Proc : q # z => parent'[q] = parent[q] /\ pgdir'[q] = pgdir[q]
      /\ \A q \in Proc : q # p => pc'[q] = pc[q]
      /\ pgdir'[z] = n /\ parent'[z] = p /\ pc'[p] = "run"
      /\ \A q \in Proc : parent[q] # z
  BY <1>2, <1>5 DEF PInv, Types, ParentInv, Alive
<1>7. p # NULL /\ z # NULL /\ z # initproc
  BY <1>2, NullAssumption DEF PInv, ParentInv, Alive
<1>8. \A q \in Proc : /\ Has(q)' <=> Has(q) \/ q = z
                      /\ Alive(q)' <=> Alive(q)
                      /\ IsThread(q)' <=> IsThread(q)
                      /\ Has(q) => q # z
  BY <1>2, <1>4, <1>5, <1>6, <1>7 DEF Has, Exists, Alive, IsThread, PInv, Types
<1>9. Types'
  <2>1. ndir' \in 0 .. MaxDir
    BY <1>4, <1>5, BoundAssumption
  <2>2. pgdir \in [Proc -> 1 .. n \cup {NULL}] /\ n \in 1 .. n
    BY <1>1, <1>3, <1>4, Fresh, BoundAssumption DEF PInv, Types
  <2>3. QED
    BY <1>5, <2>1, <2>2 DEF PInv, Types
<1>10. MakeInv'
  <2>1. \A q \in Proc : q # p => np[q] # z
    BY <1>2, <1>7 DEF PInv, MakeInv
  <2>2. QED
    BY <1>1, <1>2, <1>5, <1>6, <2>1 DEF PInv, MakeInv, Making
<1>11. IdleInv'
  BY <1>1, <1>2, <1>5, <1>6 DEF PInv, IdleInv
<1>12. ParentInv'
  BY <1>1, <1>2, <1>6, <1>7, <1>8, InitIsProc DEF PInv, ParentInv, Alive
<1>13. ShareInv'
  BY <1>4, <1>6, <1>8 DEF PInv, ShareInv
<1>14. ThreadInv'
  <2>1. \A q \in Proc : q # z => Threads(q)' \subseteq Threads(q)
    BY <1>2, <1>5, <1>6 DEF Threads
  <2>2. Threads(z)' = {}
    BY <1>2, <1>6 DEF Threads
  <2>3. ~IsThread(z)
    BY <1>2 DEF IsThread
  <2>4. QED
    BY <1>6, <1>8, <2>1, <2>2, <2>3 DEF PInv, ThreadInv
<1>15. WakeInv'
  <2>1. ASSUME NEW r \in Proc, state'[r] = "SLEEPING", NEW q \in Proc PROVE Kid(q, r)' <=> Kid(q, r)
    <3>1. r # z /\ r # p /\ pc'[r] = pc[r] /\ r # NULL
      BY <1>1, <1>2, <1>5, <1>6, <2>1, NullAssumption
    <3>2. QED
      BY <1>2, <1>6, <3>1 DEF Kid
  <2>2. QED
    BY <1>5, <1>8, <2>1, SleepOn
<1>16. LiveInv'
  BY <1>5, <1>6, <1>8 DEF PInv, LiveInv
<1>17. QED
  BY <1>9, <1>10, <1>11, <1>12, <1>13, <1>14, <1>15, <1>16 DEF PInv

\* The child of clone is a thread of its parent, which is no thread itself.
LEMMA CloneShareStep == ASSUME PInv, NEW p \in Proc, clone_share(p) PROVE PInv'
<1>1. pc[p] = "clone" /\ state[p] = "RUNNABLE"
  BY DEF clone_share, At
<1>2. PICK z \in Proc : z = np[p] /\ state[z] = "EMBRYO" /\ parent[z] = NULL /\ z # p
  BY <1>1 DEF PInv, MakeInv, Making
<1>3. /\ pgdir' = [pgdir EXCEPT ![z] = pgdir[p]] /\ parent' = [parent EXCEPT ![z] = p]
      /\ pc' = [pc EXCEPT ![p] = "run"]
      /\ UNCHANGED <<state, chan, killed, fault, np, ndir, live>>
  BY <1>2 DEF clone_share, Goto
<1>4. /\ \A q \in Proc : q # z => parent'[q] = parent[q] /\ pgdir'[q] = pgdir[q]
      /\ \A q \in Proc : q # p => pc'[q] = pc[q]
      /\ pgdir'[z] = pgdir[p] /\ parent'[z] = p /\ pc'[p] = "run"
      /\ \A q \in Proc : parent[q] # z
  BY <1>2, <1>3 DEF PInv, Types, ParentInv, Alive
<1>5. p # NULL /\ z # NULL /\ z # initproc /\ p # initproc
  BY <1>1, <1>2, NullAssumption DEF PInv, ParentInv, Alive
<1>6. \A q \in Proc : /\ Has(q)' <=> Has(q) \/ q = z
                      /\ Alive(q)' <=> Alive(q)
                      /\ IsThread(q)' <=> IsThread(q) \/ q = z
                      /\ Has(q) => q # z
  BY <1>2, <1>3, <1>4, <1>5 DEF Has, Exists, Alive, IsThread, PInv, Types
<1>7. ~IsThread(p) /\ Has(p)
  BY <1>1 DEF PInv, ThreadInv, Has, Exists, Alive
<1>8. Types'
  BY <1>3 DEF PInv, Types
<1>9. MakeInv'
  <2>1. \A q \in Proc : q # p => np[q] # z
    BY <1>2, <1>5 DEF PInv, MakeInv
  <2>2. QED
    BY <1>1, <1>2, <1>3, <1>4, <2>1 DEF PInv, MakeInv, Making
<1>10. IdleInv'
  BY <1>1, <1>2, <1>3, <1>4 DEF PInv, IdleInv
<1>11. ParentInv'
  BY <1>1, <1>2, <1>4, <1>5, <1>6, InitIsProc DEF PInv, ParentInv, Alive
<1>12. ShareInv'
  <2>1. SUFFICES ASSUME NEW q \in Proc, NEW r \in Proc, Has(q)', Has(r)', q # r, pgdir'[q] = pgdir'[r],
                        ~IsThread(q)'
                 PROVE parent'[r] = q
    BY DEF ShareInv
  <2>2. q # z /\ Has(q) /\ ~IsThread(q)
    BY <1>6, <2>1
  <2>3. CASE r # z
    BY <1>4, <1>6, <2>1, <2>2, <2>3 DEF PInv, ShareInv
  <2>4. CASE r = z
    <3>1. pgdir[q] = pgdir[p]
      BY <1>4, <2>1, <2>2, <2>4
    <3>2. q = p
      <4>1. SUFFICES ASSUME q # p PROVE FALSE
        OBVIOUS
      <4>2. parent[p] = q
        BY <1>7, <2>2, <3>1, <4>1 DEF PInv, ShareInv
      <4>3. QED
        BY <1>7, <3>1, <4>2, NullAssumption DEF IsThread
    <3>3. QED
      BY <1>4, <2>4, <3>2
  <2>5. QED
    BY <2>3, <2>4
<1>13. ThreadInv'
  <2>1. \A q \in Proc : q # z => Threads(q)' \subseteq Threads(q)
    BY <1>2, <1>3, <1>4 DEF Threads
  <2>2. Threads(z)' = {}
    BY <1>2, <1>4 DEF Threads
  <2>3. \A q, r \in Proc : Has(r)' /\ IsThread(r)' /\ parent'[r] = q => ~IsThread(q)'
    BY <1>2, <1>4, <1>6, <1>7, Zenon DEF PInv, ThreadInv
  <2>4. \A q \in Proc : pc'[q] = "clone" => ~IsThread(q)'
    <3>1. pc[z] = "user"
      BY <1>2 DEF PInv, IdleInv
    <3>2. QED
      BY <1>2, <1>4, <1>6, <3>1 DEF PInv, ThreadInv
  <2>5. QED
    BY <1>2, <1>4, <1>5, <1>6, <2>1, <2>2, <2>3, <2>4 DEF PInv, ThreadInv
<1>14. WakeInv'
  <2>1. ASSUME NEW r \in Proc, state'[r] = "SLEEPING", NEW q \in Proc PROVE Kid(q, r)' <=> Kid(q, r)
    <3>1. r # z /\ r # p /\ pc'[r] = pc[r] /\ r # NULL
      BY <1>1, <1>2, <1>3, <1>4, <2>1, NullAssumption
    <3>2. QED
      BY <1>2, <1>4, <3>1 DEF Kid
  <2>2. QED
    BY <1>3, <1>6, <2>1, SleepOn
<1>15. LiveInv'
  BY <1>2, <1>3, <1>4, <1>6, <1>7 DEF PInv, LiveInv
<1>16. QED
  BY <1>8, <1>9, <1>10, <1>11, <1>12, <1>13, <1>14, <1>15 DEF PInv

\* The child runs: its parent, which has made it, is awake.
LEMMA RunnableStep == ASSUME PInv, NEW p \in Proc, make_runnable(p) PROVE PInv'
<1>1. pc[p] = "run" /\ state[p] = "RUNNABLE"
  BY DEF make_runnable, At
<1>2. PICK z \in Proc : z = np[p] /\ state[z] = "EMBRYO" /\ parent[z] = p /\ z # p /\ pc[z] = "user"
  BY <1>1 DEF PInv, MakeInv, IdleInv, Making
<1>3. /\ state' = [state EXCEPT ![z] = "RUNNABLE"]
      /\ np' = [np EXCEPT ![p] = NULL] /\ pc' = [pc EXCEPT ![p] = "user"]
      /\ UNCHANGED <<chan, killed, parent, pgdir, live, ndir, fault>>
  BY <1>2 DEF make_runnable, Goto, spaces
<1>4. /\ \A q \in Proc : q # z => state'[q] = state[q]
      /\ \A q \in Proc : q # p => pc'[q] = pc[q] /\ np'[q] = np[q]
      /\ state'[z] = "RUNNABLE" /\ pc'[p] = "user" /\ np'[p] = NULL
  BY <1>2, <1>3 DEF PInv, Types
<1>5. p # NULL /\ z # NULL
  BY NullAssumption
<1>6. \A q \in Proc : /\ Has(q)' <=> Has(q)
                      /\ Alive(q) => Alive(q)'
                      /\ IsThread(q)' <=> IsThread(q)
  BY <1>2, <1>3, <1>4, <1>5 DEF Has, Exists, Alive, IsThread
<1>7. Types'
  BY <1>3 DEF PInv, Types
<1>8. MakeInv'
  <2>1. \A q \in Proc : q # p => np[q] # z
    BY <1>2, <1>5 DEF PInv, MakeInv
  <2>2. \A q \in Proc : pc'[q] \in Making => q # p /\ pc[q] \in Making
    BY <1>4 DEF Making
  <2>3. \A q \in Proc : pc'[q] \notin Making => np'[q] = NULL
    BY <1>4 DEF PInv, MakeInv
  <2>4. \A y \in Proc : state'[y] = "EMBRYO" => y # z /\ state[y] = "EMBRYO"
    BY <1>4
  <2>5. \A y \in Proc : state'[y] = "EMBRYO" => \E q \in Proc : np'[q] = y
    BY <1>2, <1>4, <2>4 DEF PInv, MakeInv
  <2>6. \A q \in Proc : pc'[q] \in Making =>
          /\ state'[q] = "RUNNABLE"
          /\ np'[q] \in Proc /\ state'[np'[q]] = "EMBRYO"
          /\ parent'[np'[q]] = IF pc'[q] = "run" THEN q ELSE NULL
    BY <1>2, <1>3, <1>4, <2>1, <2>2 DEF PInv, MakeInv
  <2>7. \A q, r \in Proc : np'[q] = np'[r] /\ np'[q] # NULL => q = r
    BY <1>4 DEF PInv, MakeInv
  <2>8. QED
    BY <2>3, <2>5, <2>6, <2>7 DEF MakeInv
<1>9. IdleInv'
  BY <1>1, <1>2, <1>3, <1>4 DEF PInv, IdleInv
<1>10. ParentInv'
  BY <1>3, <1>4, <1>6, InitIsProc DEF PInv, ParentInv
<1>11. ShareInv'
  BY <1>3, <1>6, Zenon DEF PInv, ShareInv
<1>12. ThreadInv'
  <2>1. \A q \in Proc : q # p => Threads(q)' \subseteq Threads(q)
    BY <1>2, <1>3, <1>4 DEF Threads
  <2>2. QED
    BY <1>3, <1>4, <1>6, <2>1, SMTT(30) DEF PInv, ThreadInv
<1>13. WakeInv'
  <2>1. ASSUME NEW r \in Proc, state'[r] = "SLEEPING", NEW q \in Proc PROVE Kid(q, r)' <=> Kid(q, r)
    BY <1>1, <1>2, <1>3, <1>4, <2>1 DEF Kid
  <2>2. \A q \in Proc : /\ state'[q] = "ZOMBIE" => state[q] = "ZOMBIE"
                        /\ state'[q] = "SLEEPING" => state[q] = "SLEEPING"
    BY <1>4
  <2>3. QED
    BY <1>6, <2>1, <2>2, SleepOn
<1>14. LiveInv'
  BY <1>3, <1>6 DEF PInv, LiveInv
<1>15. QED
  BY <1>7, <1>8, <1>9, <1>10, <1>11, <1>12, <1>13, <1>14 DEF PInv

----------------------------------------------------------------------------
\* exec, exit and kill

\* exec: nobody shares the address space that is given up.
LEMMA ExecStep == ASSUME PInv, NEW p \in Proc, exec(p) PROVE PInv'
<1>1. pc[p] = "user" /\ state[p] = "RUNNABLE" /\ ndir < MaxDir
  BY DEF exec, Calls, At
<1>2. \A q \in Proc : q # p /\ state[q] # "UNUSED" => pgdir[q] # pgdir[p]
  BY DEF exec, ThreadRules, Shared
<1>3. PICK n : n = ndir + 1
  OBVIOUS
<1>4. n \in 1 .. MaxDir /\ n # NULL /\ \A q \in Proc : pgdir[q] # n
  BY <1>1, <1>3, Fresh
<1>5. /\ pgdir' = [pgdir EXCEPT ![p] = n]
      /\ ndir' = n /\ live' = (live \cup {n}) \ {pgdir[p]}
      /\ UNCHANGED <<state, chan, killed, parent, pc, np>>
  BY <1>3 DEF exec
<1>6. (\A q \in Proc : q # p => pgdir'[q] = pgdir[q]) /\ pgdir'[p] = n
  BY <1>5 DEF PInv, Types
<1>7. \A q \in Proc : /\ Has(q)' <=> Has(q)
                      /\ Alive(q)' <=> Alive(q)
                      /\ Has(q) => state[q] # "UNUSED"
  BY <1>5 DEF Has, Exists, Alive
<1>8. ASSUME NEW q \in Proc PROVE IsThread(q)' <=> IsThread(q)
  <2>1. CASE parent[q] = NULL
    BY <1>5, <2>1 DEF IsThread
  <2>2. CASE parent[q] # NULL
    <3>1. PICK r \in Proc : r = parent[q] /\ r # q /\ state[r] # "UNUSED" /\ state[q] # "UNUSED"
      BY <2>2 DEF PInv, Types, ParentInv, Alive, IdleInv
    <3>2. IsThread(q)' <=> pgdir'[r] = pgdir'[q]
      BY <1>5, <2>2, <3>1 DEF IsThread
    <3>3. IsThread(q) <=> pgdir[r] = pgdir[q]
      BY <2>2, <3>1 DEF IsThread
    <3>4. pgdir'[r] = pgdir'[q] <=> pgdir[r] = pgdir[q]
      BY <1>2, <1>4, <1>6, <3>1
    <3>5. QED
      BY <3>2, <3>3, <3>4
  <2>3. QED
    BY <2>1, <2>2
<1>9. Types'
  <2>1. ndir' \in 0 .. MaxDir
    BY <1>4, <1>5, BoundAssumption
  <2>2. pgdir \in [Proc -> 1 .. n \cup {NULL}] /\ n \in 1 .. n
    BY <1>1, <1>3, <1>4, Fresh, BoundAssumption DEF PInv, Types
  <2>3. QED
    BY <1>5, <2>1, <2>2 DEF PInv, Types
<1>10. MakeInv' /\ IdleInv'
  BY <1>5 DEF PInv, MakeInv, IdleInv
<1>11. ParentInv'
  BY <1>5 DEF PInv, ParentInv, Alive
<1>12. ShareInv'
  BY <1>4, <1>5, <1>6, <1>7, <1>8 DEF PInv, ShareInv
<1>13. ThreadInv'
  <2>1. \A q \in Proc : q # p => Threads(q)' \subseteq Threads(q)
    BY <1>4, <1>5, <1>6 DEF Threads
  <2>2. QED
    BY <1>1, <1>5, <1>7, <1>8, <2>1, Zenon DEF PInv, ThreadInv
<1>14. WakeInv'
  <2>1. ASSUME NEW r \in Proc, state'[r] = "SLEEPING", NEW q \in Proc PROVE Kid(q, r)' <=> Kid(q, r)
    <3>1. state[r] = "SLEEPING" /\ r # p
      BY <1>1, <1>5, <2>1
    <3>2. QED
      BY <1>2, <1>4, <1>5, <1>6, <3>1 DEF Kid
  <2>2. QED
    BY <1>5, <1>7, <2>1, SleepOn
<1>15. LiveInv'
  <2>1. Has(p) /\ pgdir[p] \in live
    BY <1>1 DEF PInv, LiveInv, Has, Exists, Alive
  <2>2. ~fault'
    BY <2>1, Zenon DEF exec
  <2>3. live' = {pgdir'[q] : q \in {r \in Proc : Has(r)'}}
    <3>1. live' = {pgdir[q] : q \in {r \in Proc : Has(r) /\ r # p}} \cup {n}
      BY <1>2, <1>4, <1>5, <1>7 DEF PInv, LiveInv
    <3>2. QED
      BY <1>6, <1>7, <2>1, <3>1
  <2>4. QED
    BY <2>2, <2>3 DEF LiveInv
<1>16. QED
  BY <1>9, <1>10, <1>11, <1>12, <1>13, <1>14, <1>15 DEF PInv

\* kill wakes its victim and changes nothing else that matters here.
LEMMA KillStep == ASSUME PInv, NEW n \in Pid, kill_pid(n) PROVE PInv'
<1>1. PICK p \in Proc : /\ killed' = [killed EXCEPT ![p] = TRUE]
                        /\ state' = [state EXCEPT ![p] = IF @ = "SLEEPING" THEN "RUNNABLE" ELSE @]
                        /\ UNCHANGED <<chan, parent, pgdir, live, ndir, fault, pc, np>>
  BY Zenon DEF kill_pid, kill, spaces
<1>2. \A q \in Proc : \/ state'[q] = state[q]
                      \/ state[q] = "SLEEPING" /\ state'[q] = "RUNNABLE"
  BY <1>1 DEF PInv, Types
<1>3. \A q \in Proc : /\ Has(q)' <=> Has(q)
                      /\ Alive(q)' <=> Alive(q)
                      /\ IsThread(q)' <=> IsThread(q)
  BY <1>1, <1>2 DEF Has, Exists, Alive, IsThread
<1>4. Types'
  BY <1>1 DEF PInv, Types
<1>5. MakeInv'
  BY <1>1, <1>2, SMTT(30) DEF PInv, MakeInv
<1>6. IdleInv'
  BY <1>1, <1>2 DEF PInv, IdleInv
<1>7. ParentInv'
  BY <1>1, <1>3, InitIsProc DEF PInv, ParentInv
<1>8. ShareInv'
  BY <1>1, <1>3 DEF PInv, ShareInv
<1>9. ThreadInv'
  <2>1. \A q \in Proc : Threads(q)' = Threads(q)
    BY <1>1, <1>2 DEF Threads
  <2>2. QED
    BY <1>1, <1>3, <2>1, Zenon DEF PInv, ThreadInv
<1>10. WakeInv'
  BY <1>1, <1>2, <1>3, SleepOn DEF Kid
<1>11. LiveInv'
  BY <1>1, <1>3 DEF PInv, LiveInv
<1>12. QED
  BY <1>4, <1>5, <1>6, <1>7, <1>8, <1>9, <1>10, <1>11 DEF PInv

\* exit: the parent is woken, and init too if it inherits a zombie.
LEMMA ExitStep == ASSUME PInv, NEW p \in Proc, exit(p) PROVE PInv'
<1>1. pc[p] = "user" /\ state[p] = "RUNNABLE" /\ p # initproc /\ Threads(p) = {}
  BY DEF exit, At, ThreadRules
<1>2. /\ state' = [wake_reapers(p) EXCEPT ![p] = "ZOMBIE"]
      /\ parent' = [q \in Proc |-> IF parent[q] = p THEN initproc ELSE parent[q]]
      /\ UNCHANGED <<chan, killed, pgdir, live, ndir, fault, pc, np>>
  BY DEF exit, pass_to_init, spaces
<1>3. /\ wake_reapers(p) \in [Proc -> {"UNUSED", "EMBRYO", "SLEEPING", "RUNNABLE", "ZOMBIE"}]
      /\ \A q \in Proc : \/ wake_reapers(p)[q] = state[q]
                         \/ state[q] = "SLEEPING" /\ wake_reapers(p)[q] = "RUNNABLE"
      /\ \A q \in Proc : wake_reapers(p)[q] = "SLEEPING" =>
           /\ chan[q] # parent[p]
           /\ (\E r \in Children(p) : state[r] = "ZOMBIE") => chan[q] # initproc
  BY DEF wake_reapers, wakeup1, PInv, Types
<1>4. /\ \A q \in Proc : q # p => \/ state'[q] = state[q]
                                  \/ state[q] = "SLEEPING" /\ state'[q] = "RUNNABLE"
      /\ state'[p] = "ZOMBIE"
  BY <1>2, <1>3
<1>5. \A q \in Proc : parent'[q] = IF parent[q] = p THEN initproc ELSE parent[q]
  BY <1>2
<1>6. \A q \in Proc : state'[q] = "SLEEPING" =>
        /\ state[q] = "SLEEPING" /\ q # p /\ q # parent[p]
        /\ q = initproc => \A r \in Proc : parent[r] = p => state[r] # "ZOMBIE"
  <2>1. \A q \in Proc : state'[q] = "SLEEPING" => q # p /\ wake_reapers(p)[q] = "SLEEPING" /\ state[q] = "SLEEPING"
    BY <1>2, <1>3
  <2>2. \A q \in Proc : state[q] = "SLEEPING" => chan[q] = q
    BY DEF PInv, IdleInv
  <2>3. QED
    BY <1>3, <2>1, <2>2 DEF Children
<1>7. p # NULL /\ initproc # NULL /\ initproc \in Proc
  BY InitIsProc, NullAssumption
<1>8. \A q \in Proc : parent[q] = p => state[q] # "EMBRYO"
  BY <1>1, EmbryoParent, Zenon
<1>9. \A q \in Proc : parent[q] = p => pgdir[q] # pgdir[p] /\ state[q] # "UNUSED" /\ Has(q)
  BY <1>1, <1>7, <1>8 DEF Threads, PInv, IdleInv, Types, Has, Exists, Alive
<1>10. \A q \in Proc : Has(q)' <=> Has(q)
  BY <1>1, <1>4, <1>5, <1>7 DEF Has, Exists, Alive
<1>11. Has(initproc) /\ ~IsThread(initproc)
  BY DEF PInv, ParentInv, Has, Exists, IsThread
<1>12. \A q \in Proc : parent[q] = p => ~IsThread(q) /\ ~IsThread(q)'
  <2>1. SUFFICES ASSUME NEW q \in Proc, parent[q] = p PROVE ~IsThread(q) /\ ~IsThread(q)'
    OBVIOUS
  <2>2. pgdir[q] # pgdir[initproc]
    <3>1. Has(q) /\ q # initproc
      BY <1>7, <1>9, <2>1 DEF PInv, ParentInv
    <3>2. QED
      BY <1>1, <1>7, <1>11, <2>1, <3>1 DEF PInv, ShareInv
  <2>3. QED
    BY <1>2, <1>5, <1>9, <2>1, <2>2 DEF IsThread
<1>13. \A q \in Proc : IsThread(q)' <=> IsThread(q)
  <2>1. \A q \in Proc : parent[q] # p => (IsThread(q)' <=> IsThread(q))
    BY <1>2, <1>5 DEF IsThread
  <2>2. QED
    BY <1>12, <2>1
<1>14. Types'
  BY <1>2, <1>3, <1>7 DEF PInv, Types
<1>15. MakeInv'
  <2>1. \A q \in Proc : pc[q] \in Making => q # p /\ state'[q] = "RUNNABLE"
    BY <1>1, <1>4, Zenon DEF PInv, MakeInv, Making
  <2>2. \A q \in Proc : state'[q] = "EMBRYO" <=> state[q] = "EMBRYO"
    BY <1>1, <1>4
  <2>3. \A q \in Proc : state[q] = "EMBRYO" => parent'[q] = parent[q]
    BY <1>5, <1>8
  <2>4. QED
    BY <1>2, <2>1, <2>2, <2>3, SMTT(30) DEF PInv, MakeInv
<1>16. IdleInv'
  BY <1>1, <1>2, <1>4, <1>5, <1>7, SMTT(30) DEF PInv, IdleInv
<1>17. ParentInv'
  <2>1. \A q \in Proc : q # p => (Alive(q) => Alive(q)')
    BY <1>4 DEF Alive
  <2>2. QED
    BY <1>1, <1>2, <1>5, <1>7, <2>1, Zenon DEF PInv, ParentInv
<1>18. ShareInv'
  <2>1. SUFFICES ASSUME NEW q \in Proc, NEW r \in Proc, Has(q), Has(r), q # r, pgdir[q] = pgdir[r],
                        ~IsThread(q)
                 PROVE parent'[r] = q
    BY <1>2, <1>10, <1>13, Zenon DEF ShareInv
  <2>2. parent[r] = q
    BY <2>1 DEF PInv, ShareInv
  <2>3. q # p
    BY <1>9, <2>1, <2>2
  <2>4. QED
    BY <1>5, <2>2, <2>3
<1>19. ThreadInv'
  <2>1. \A q \in Proc : pc[q] = "wait" => Threads(q)' = {}
    <3>1. SUFFICES ASSUME NEW q \in Proc, pc[q] = "wait", NEW r \in Threads(q)' PROVE FALSE
      OBVIOUS
    <3>2. r \in Proc /\ state'[r] \notin {"UNUSED", "EMBRYO"} /\ parent'[r] = q /\ pgdir[r] = pgdir[q]
      BY <1>2, <3>1 DEF Threads
    <3>3. state[r] \notin {"UNUSED", "EMBRYO"}
      BY <1>1, <1>4, <3>2
    <3>4. CASE parent[r] # p
      <4>1. r \in Threads(q)
        BY <1>5, <3>2, <3>3, <3>4 DEF Threads
      <4>2. QED
        BY <3>1, <4>1 DEF PInv, ThreadInv
    <3>5. CASE parent[r] = p
      <4>1. q = initproc
        BY <1>5, <3>2, <3>5
      <4>2. IsThread(r)'
        BY <1>2, <1>7, <3>2, <4>1 DEF IsThread
      <4>3. QED
        BY <1>12, <3>2, <3>5, <4>2
    <3>6. QED
      BY <3>4, <3>5
  <2>2. \A q, r \in Proc : Has(r)' /\ IsThread(r)' /\ parent'[r] = q => ~IsThread(q)'
    BY <1>5, <1>10, <1>12, <1>13 DEF PInv, ThreadInv
  <2>3. \A q \in Proc : Has(q)' /\ parent'[q] = initproc => ~IsThread(q)'
    BY <1>5, <1>10, <1>12, <1>13 DEF PInv, ThreadInv
  <2>4. QED
    BY <1>2, <1>13, <2>1, <2>2, <2>3, Zenon DEF PInv, ThreadInv
<1>20. WakeInv'
  <2>1. SUFFICES ASSUME NEW r \in Proc, state'[r] = "SLEEPING"
                 PROVE /\ \E q \in Proc : Kid(q, r)' /\ Alive(q)'
                       /\ \A q \in Proc : Kid(q, r)' => state'[q] # "ZOMBIE"
    BY DEF WakeInv
  <2>2. state[r] = "SLEEPING" /\ r # p /\ r # parent[p]
    BY <1>6, <2>1
  <2>3. ASSUME NEW q \in Proc, Kid(q, r) PROVE Kid(q, r)' /\ q # p
    BY <1>2, <1>5, <2>2, <2>3 DEF Kid
  <2>4. \E q \in Proc : Kid(q, r)' /\ Alive(q)'
    <3>1. PICK q \in Proc : Kid(q, r) /\ Alive(q)
      BY <2>2 DEF PInv, WakeInv
    <3>2. QED
      BY <1>4, <2>3, <3>1 DEF Alive
  <2>5. ASSUME NEW q \in Proc, Kid(q, r)' PROVE state'[q] # "ZOMBIE"
    <3>1. CASE parent[q] = p
      <4>1. r = initproc
        BY <1>5, <2>5, <3>1 DEF Kid
      <4>2. q # p
        BY <1>7, <3>1 DEF PInv, ParentInv
      <4>3. state[q] # "ZOMBIE"
        BY <1>6, <2>1, <3>1, <4>1
      <4>4. QED
        BY <1>4, <4>2, <4>3
    <3>2. CASE parent[q] # p
      <4>1. Kid(q, r) /\ q # p
        BY <1>2, <1>5, <2>2, <2>5, <3>2 DEF Kid
      <4>2. state[q] # "ZOMBIE"
        BY <2>2, <4>1 DEF PInv, WakeInv
      <4>3. QED
        BY <1>4, <4>1, <4>2
    <3>3. QED
      BY <3>1, <3>2
  <2>6. QED
    BY <2>4, <2>5
<1>21. LiveInv'
  BY <1>2, <1>10 DEF PInv, LiveInv
<1>22. QED
  BY <1>14, <1>15, <1>16, <1>17, <1>18, <1>19, <1>20, <1>21 DEF PInv

----------------------------------------------------------------------------
\* wait and join

\* The slot of a zombie is given back; wait frees its memory, join leaves it.
LEMMA ReapStep ==
  ASSUME PInv, NEW p \in Proc, NEW z \in Proc,
         state[p] = "RUNNABLE", pc[p] \in {"user", "wait", "join"}, parent[z] = p, state[z] = "ZOMBIE",
         state' = [state EXCEPT ![z] = "UNUSED"], parent' = [parent EXCEPT ![z] = NULL],
         killed' = [killed EXCEPT ![z] = FALSE], chan' = [chan EXCEPT ![p] = NoChan],
         pc' = [pc EXCEPT ![p] = "user"], UNCHANGED <<np, ndir>>,
         pgdir' = pgdir \/ pgdir' = [pgdir EXCEPT ![z] = NULL], LiveInv'
  PROVE PInv'
<1>1. /\ \A q \in Proc : q # z => state'[q] = state[q] /\ parent'[q] = parent[q] /\ pgdir'[q] = pgdir[q]
      /\ \A q \in Proc : q # p => pc'[q] = pc[q] /\ chan'[q] = chan[q]
      /\ state'[z] = "UNUSED" /\ parent'[z] = NULL /\ pc'[p] = "user"
      /\ z # p /\ pc[z] = "user" /\ z # initproc /\ p # NULL
  BY NullAssumption DEF PInv, Types, IdleInv, ParentInv, Alive
<1>2. \A q \in Proc : parent[q] # z
  BY Zenon DEF PInv, ParentInv, Alive
<1>3. \A q \in Proc : /\ Has(q)' <=> Has(q) /\ q # z
                      /\ Alive(q)' <=> Alive(q)
                      /\ q # z => (IsThread(q)' <=> IsThread(q))
  <2>1. ASSUME NEW q \in Proc, q # z PROVE IsThread(q)' <=> IsThread(q)
    <3>1. parent[q] # NULL => parent[q] \in Proc /\ parent[q] # z
      BY <1>2 DEF PInv, Types
    <3>2. QED
      BY <1>1, <2>1, <3>1 DEF IsThread
  <2>2. QED
    BY <1>1, <2>1, Zenon DEF Has, Exists, Alive
<1>4. Types'
  BY DEF PInv, Types
<1>5. MakeInv'
  <2>1. \A q \in Proc : np[q] # z
    BY NullAssumption DEF PInv, MakeInv
  <2>2. \A q \in Proc : pc'[q] \in Making <=> pc[q] \in Making
    BY <1>1 DEF Making
  <2>3. \A q \in Proc : pc'[q] \in Making => pc'[q] = pc[q]
    BY <1>1 DEF Making
  <2>4. QED
    BY <1>1, <2>1, <2>2, <2>3, SMTT(30) DEF PInv, MakeInv
<1>6. IdleInv'
  BY <1>1 DEF PInv, IdleInv
<1>7. ParentInv'
  BY <1>1, <1>3, InitIsProc, NullAssumption DEF PInv, ParentInv
<1>8. ShareInv'
  BY <1>1, <1>3 DEF PInv, ShareInv
<1>9. ThreadInv'
  <2>1. \A q \in Proc : q # z => Threads(q)' \subseteq Threads(q)
    BY <1>1 DEF Threads
  <2>2. ~IsThread(z)' /\ pc'[z] = "user"
    BY <1>1 DEF IsThread
  <2>3. QED
    BY <1>1, <1>3, <2>1, <2>2 DEF PInv, ThreadInv
<1>10. WakeInv'
  <2>1. ASSUME NEW r \in Proc, state'[r] = "SLEEPING", NEW q \in Proc PROVE Kid(q, r)' <=> Kid(q, r)
    <3>1. r # z /\ r # p /\ r # NULL
      BY <1>1, <2>1, NullAssumption
    <3>2. QED
      BY <1>1, <3>1 DEF Kid
  <2>2. \A q \in Proc : /\ state'[q] = "ZOMBIE" => state[q] = "ZOMBIE"
                        /\ state'[q] = "SLEEPING" => state[q] = "SLEEPING"
    BY <1>1
  <2>3. QED
    BY <1>3, <2>1, <2>2, SleepOn
<1>11. QED
  BY <1>4, <1>5, <1>6, <1>7, <1>8, <1>9, <1>10 DEF PInv

\* wait and join without a zombie: return, or go to sleep for a child that lives.
LEMMA RestStep ==
  ASSUME PInv, NEW p \in Proc, NEW kids, NEW l \in {"wait", "join"},
         state[p] = "RUNNABLE", pc[p] \in {"user", l},
         kids = {q \in Children(p) : l = "join" => pgdir[q] = pgdir[p]},
         \A z \in kids : state[z] # "ZOMBIE",
         l = "wait" => Threads(p) = {}, l = "join" => p # initproc,
         give_up(p, kids) \/ sleep(p, kids, l)
  PROVE PInv'
<1>1. PICK m \in {"user", l}, s \in {"RUNNABLE", "SLEEPING"} :
        /\ pc' = [pc EXCEPT ![p] = m] /\ state' = [state EXCEPT ![p] = s]
        /\ chan' = [chan EXCEPT ![p] = chan'[p]] /\ chan'[p] \in {NoChan, p}
        /\ s = "SLEEPING" => m = l /\ chan'[p] = p /\ kids # {}
        /\ UNCHANGED <<killed, parent, pgdir, live, ndir, fault, np>>
  <2>1. CASE give_up(p, kids)
    <3>1. state' = [state EXCEPT ![p] = "RUNNABLE"]
      BY <2>1, Zenon DEF give_up, PInv, Types
    <3>2. chan' = [chan EXCEPT ![p] = NoChan] /\ chan'[p] = NoChan
      BY <2>1, Zenon DEF give_up, PInv, Types
    <3>3. QED
      BY <2>1, <3>1, <3>2, Zenon DEF give_up, Goto, spaces
  <2>2. CASE sleep(p, kids, l)
    <3>1. chan' = [chan EXCEPT ![p] = p] /\ chan'[p] = p
      BY <2>2 DEF sleep, PInv, Types
    <3>2. QED
      BY <2>2, <3>1, Zenon DEF sleep, Hopeless, fall_asleep, Goto, spaces
  <2>3. QED
    BY <2>1, <2>2, Zenon
<1>2. /\ \A q \in Proc : q # p => pc'[q] = pc[q] /\ state'[q] = state[q] /\ chan'[q] = chan[q]
      /\ pc'[p] = m /\ state'[p] = s
  BY <1>1, Zenon DEF PInv, Types
<1>3. \A q \in Proc : /\ Has(q)' <=> Has(q)
                      /\ Alive(q)' <=> Alive(q)
                      /\ IsThread(q)' <=> IsThread(q)
  BY <1>1, <1>2, Zenon DEF Has, Exists, Alive, IsThread
<1>4. Types'
  BY <1>1, SMTT(30) DEF PInv, Types
<1>5. MakeInv'
  <2>1. pc[p] \notin Making /\ pc'[p] \notin Making
    BY <1>2, Zenon DEF Making
  <2>2. \A q \in Proc : state'[q] = "EMBRYO" <=> state[q] = "EMBRYO"
    BY <1>2, Zenon
  <2>3. QED
    BY <1>1, <1>2, <2>1, <2>2, SMTT(30) DEF PInv, MakeInv
<1>6. IdleInv'
  BY <1>1, <1>2, ZenonT(40) DEF PInv, IdleInv
<1>7. ParentInv'
  BY <1>1, <1>2, <1>3, InitIsProc, Zenon DEF PInv, ParentInv
<1>8. ShareInv'
  BY <1>1, <1>3, Zenon DEF PInv, ShareInv
<1>9. ThreadInv'
  <2>1. \A q \in Proc : Threads(q)' = Threads(q)
    BY <1>1, <1>2, Zenon DEF Threads
  <2>2. UNCHANGED parent
    BY <1>1, Zenon
  <2>3. \A q \in Proc : pc'[q] = "clone" => pc[q] = "clone"
    BY <1>2, Zenon
  <2>4. \A q \in Proc : pc'[q] = "wait" => pc[q] = "wait" \/ Threads(q) = {}
    BY <1>2, Zenon
  <2>5. QED
    BY <1>3, <2>1, <2>2, <2>3, <2>4, Zenon DEF PInv, ThreadInv
<1>10. WakeInv'
  <2>1. SUFFICES ASSUME NEW r \in Proc, state'[r] = "SLEEPING"
                 PROVE /\ \E q \in Proc : Kid(q, r)' /\ Alive(q)'
                       /\ \A q \in Proc : Kid(q, r)' => state'[q] # "ZOMBIE"
    BY Zenon DEF WakeInv
  <2>2. CASE r # p
    <3>1. state[r] = "SLEEPING" /\ \A q \in Proc : Kid(q, r)' <=> Kid(q, r)
      BY <1>1, <1>2, <2>1, <2>2, Zenon DEF Kid
    <3>2. \A q \in Proc : state'[q] = "ZOMBIE" => state[q] = "ZOMBIE"
      BY <1>2, Zenon
    <3>3. QED
      BY <1>3, <3>1, <3>2, Zenon DEF PInv, WakeInv
  <2>3. CASE r = p
    <3>1. pc'[p] = l /\ kids # {}
      BY <1>1, <1>2, <2>1, <2>3, Zenon
    <3>2. \A q \in Proc : Kid(q, p)' <=> q \in kids
      BY <1>1, <3>1, Zenon DEF Kid, Children
    <3>3. ASSUME NEW q \in kids PROVE q \in Proc /\ Alive(q)
      <4>1. q \in Proc /\ parent[q] = p /\ p # NULL
        BY <3>3, NullAssumption DEF Children
      <4>2. state[q] # "EMBRYO"
        BY <4>1, EmbryoParent
      <4>3. state[q] # "UNUSED"
        BY <4>1, Zenon DEF PInv, IdleInv
      <4>4. QED
        BY <3>3, <4>1, <4>2, <4>3 DEF PInv, Types, Alive
    <3>4. \E q \in Proc : Kid(q, p)' /\ Alive(q)'
      BY <1>3, <3>1, <3>2, <3>3, Zenon
    <3>5. \A q \in Proc : Alive(q)' => state'[q] # "ZOMBIE"
      BY DEF Alive
    <3>6. QED
      BY <1>3, <2>3, <3>2, <3>3, <3>4, <3>5, Zenon
  <2>4. QED
    BY <2>2, <2>3, Zenon
<1>11. LiveInv'
  BY <1>1, <1>3, Zenon DEF PInv, LiveInv
<1>12. QED
  BY <1>4, <1>5, <1>6, <1>7, <1>8, <1>9, <1>10, <1>11 DEF PInv

\* wait.
LEMMA WaitStep == ASSUME PInv, NEW p \in Proc, wait(p) PROVE PInv'
<1> DEFINE kids == Children(p)
<1>1. state[p] = "RUNNABLE" /\ pc[p] \in {"user", "wait"} /\ Threads(p) = {}
  BY Zenon DEF wait, Calls, At, ThreadRules, PInv, ThreadInv
<1>2. CASE \E z \in kids : state[z] = "ZOMBIE"
  <2>1. /\ reap(p, kids)
        /\ \E z \in kids : /\ state'[z] # state[z]
                           /\ live' = live \ {pgdir[z]}
                           /\ fault' = (pgdir[z] \notin live)
        /\ chan' = [chan EXCEPT ![p] = NoChan]
        /\ pc' = [pc EXCEPT ![p] = "user"]
        /\ UNCHANGED <<pgdir, ndir>>
    BY <1>2, Zenon DEF wait, Goto
  <2>2. PICK z \in Proc : /\ parent[z] = p /\ state[z] = "ZOMBIE"
                          /\ state' = [state EXCEPT ![z] = "UNUSED"]
                          /\ parent' = [parent EXCEPT ![z] = NULL]
                          /\ killed' = [killed EXCEPT ![z] = FALSE]
                          /\ UNCHANGED np
    BY <2>1, Zenon DEF reap, Children
  <2>3. live' = live \ {pgdir[z]} /\ fault' = (pgdir[z] \notin live)
    <3>1. \A y \in Proc : state'[y] # state[y] => y = z
      BY <2>2 DEF PInv, Types
    <3>2. QED
      BY <2>1, <3>1, Zenon DEF Children
  <2>4. Has(z) /\ ~IsThread(z)
    <3>1. pgdir[z] # pgdir[p]
      BY <1>1, <2>2 DEF Threads
    <3>2. QED
      BY <2>2, <3>1 DEF Has, Exists, IsThread
  <2>5. \A q \in Proc : Has(q) /\ q # z => pgdir[q] # pgdir[z]
    <3>1. \A q \in Proc : parent[q] # z
      BY <2>2 DEF PInv, ParentInv, Alive
    <3>2. QED
      BY <2>4, <3>1 DEF PInv, ShareInv
  <2>6. \A q \in Proc : Has(q)' <=> Has(q) /\ q # z
    BY <2>2 DEF Has, Exists, Alive, PInv, Types
  <2>7. LiveInv'
    <3>1. pgdir[z] \in live
      BY <2>4 DEF PInv, LiveInv
    <3>2. ~fault'
      BY <2>3, <3>1, Zenon
    <3>3. live' = {pgdir[q] : q \in {r \in Proc : Has(r) /\ r # z}}
      BY <2>3, <2>5 DEF PInv, LiveInv
    <3>4. QED
      BY <2>1, <2>6, <3>2, <3>3, Zenon DEF LiveInv
  <2>8. QED
    BY <1>1, <2>1, <2>2, <2>7, ReapStep, Zenon
<1>3. CASE ~\E z \in kids : state[z] = "ZOMBIE"
  <2>1. give_up(p, kids) \/ sleep(p, kids, "wait")
    BY <1>3, Zenon DEF wait
  <2>2. kids = {q \in Children(p) : "wait" = "join" => pgdir[q] = pgdir[p]}
    OBVIOUS
  <2> HIDE DEF kids
  <2>3. QED
    BY <1>1, <1>3, <2>1, <2>2, RestStep, Zenon
<1>4. QED
  BY <1>2, <1>3

\* join.
LEMMA JoinStep == ASSUME PInv, NEW p \in Proc, join(p) PROVE PInv'
<1> DEFINE kids == {q \in Children(p) : pgdir[q] = pgdir[p]}
<1>1. state[p] = "RUNNABLE" /\ pc[p] \in {"user", "join"} /\ p # initproc
  BY Zenon DEF join, Calls, At, PInv, ParentInv
<1>2. CASE \E z \in kids : state[z] = "ZOMBIE"
  <2>1. /\ reap(p, kids)
        /\ \E z \in kids : state'[z] # state[z] /\ pgdir' = [pgdir EXCEPT ![z] = NULL]
        /\ chan' = [chan EXCEPT ![p] = NoChan]
        /\ pc' = [pc EXCEPT ![p] = "user"]
        /\ UNCHANGED <<ndir, fault, live>>
    BY <1>2, Zenon DEF join, Goto, Kept
  <2>2. PICK z \in Proc : /\ parent[z] = p /\ state[z] = "ZOMBIE" /\ pgdir[z] = pgdir[p]
                          /\ state' = [state EXCEPT ![z] = "UNUSED"]
                          /\ parent' = [parent EXCEPT ![z] = NULL]
                          /\ killed' = [killed EXCEPT ![z] = FALSE]
                          /\ UNCHANGED np
    BY <2>1, Zenon DEF reap, Children
  <2>3. pgdir' = [pgdir EXCEPT ![z] = NULL]
    <3>1. \A y \in Proc : state'[y] # state[y] => y = z
      BY <2>2, Zenon DEF PInv, Types
    <3>2. QED
      BY <2>1, <3>1, Zenon DEF Children
  <2>4. Has(p) /\ p # z
    BY <1>1, <2>2, Zenon DEF Has, Exists, Alive
  <2>5. \A q \in Proc : (Has(q)' <=> Has(q) /\ q # z) /\ (q # z => pgdir'[q] = pgdir[q])
    BY <2>2, <2>3, Zenon DEF Has, Exists, Alive, PInv, Types
  <2>6. LiveInv'
    <3>1. live = {pgdir[q] : q \in {r \in Proc : Has(r) /\ r # z}}
      BY <2>2, <2>4, Zenon DEF PInv, LiveInv
    <3>2. QED
      BY <2>1, <2>5, <3>1, SMTT(30) DEF PInv, LiveInv
  <2>7. QED
    BY <1>1, <2>1, <2>2, <2>3, <2>6, ReapStep, Zenon
<1>3. CASE ~\E z \in kids : state[z] = "ZOMBIE"
  <2>1. give_up(p, kids) \/ sleep(p, kids, "join")
    BY <1>3, Zenon DEF join
  <2>2. kids = {q \in Children(p) : "join" = "join" => pgdir[q] = pgdir[p]}
    OBVIOUS
  <2> HIDE DEF kids
  <2>3. QED
    BY <1>1, <1>3, <2>1, <2>2, RestStep, Zenon
<1>4. QED
  BY <1>2, <1>3

----------------------------------------------------------------------------
\* The invariant holds

\* After userinit() there is init alone.
LEMMA PInvInit == Init => PInv
<1> SUFFICES ASSUME Init PROVE PInv
  OBVIOUS
<1>1. initproc \in Proc /\ initproc # NULL /\ 1 # NULL /\ 1 \in 1 .. MaxDir
  BY InitIsProc, NullAssumption, BoundAssumption
<1>2. /\ \A q \in Proc : q # initproc => state[q] = "UNUSED"
      /\ state[initproc] = "RUNNABLE" /\ pgdir[initproc] = 1
      /\ \A q \in Proc : parent[q] = NULL /\ pc[q] = "user" /\ np[q] = NULL
  BY <1>1 DEF Init
<1>3. Types
  BY <1>1, BoundAssumption, SMTT(30) DEF Init, Types
<1>4. MakeInv /\ IdleInv
  BY <1>2, Zenon DEF MakeInv, IdleInv, Making
<1>5. \A q \in Proc : Has(q) <=> q = initproc
  BY <1>2, Zenon DEF Has, Exists, Alive
<1>6. ParentInv /\ ShareInv
  BY <1>1, <1>2, <1>5, NullAssumption DEF ParentInv, ShareInv, Alive
<1>7. ThreadInv /\ WakeInv
  BY <1>1, <1>2, NullAssumption, Zenon DEF ThreadInv, WakeInv, IsThread
<1>8. LiveInv
  BY <1>1, <1>2, <1>5, Zenon DEF LiveInv, Init
<1>9. QED
  BY <1>3, <1>4, <1>6, <1>7, <1>8 DEF PInv

\* Every step keeps the invariant.
LEMMA PInvStep == PInv /\ [Next]_vars => PInv'
<1> SUFFICES ASSUME PInv, [Next]_vars PROVE PInv'
  OBVIOUS
<1>1. CASE UNCHANGED vars
  <2>1. UNCHANGED <<state, chan, killed, parent, pgdir, live, ndir, fault, pc, np>>
    BY <1>1 DEF vars, spaces
  <2>2. Types'
    BY <2>1 DEF PInv, Types
  <2>3. MakeInv' /\ IdleInv'
    BY <2>1, ZenonT(40) DEF PInv, MakeInv, IdleInv
  <2>4. \A q \in Proc : /\ Has(q)' <=> Has(q)
                        /\ Exists(q)' <=> Exists(q)
                        /\ Alive(q)' <=> Alive(q)
                        /\ IsThread(q)' <=> IsThread(q)
                        /\ Threads(q)' = Threads(q)
    BY <2>1, Zenon DEF Has, Exists, Alive, IsThread, Threads
  <2>5. ParentInv'
    BY <2>1, Zenon DEF PInv, ParentInv, Alive
  <2>6. ShareInv'
    BY <2>1, <2>4, Zenon DEF PInv, ShareInv
  <2>7. ThreadInv'
    BY <2>1, <2>4, Zenon DEF PInv, ThreadInv
  <2>8. WakeInv'
    BY <2>1, <2>4, Zenon DEF PInv, WakeInv, Kid
  <2>9. LiveInv'
    BY <2>1, <2>4, Zenon DEF PInv, LiveInv
  <2>10. QED
    BY <2>2, <2>3, <2>5, <2>6, <2>7, <2>8, <2>9, Zenon DEF PInv
<1>2. ASSUME NEW p \in Proc, KernelStep(p) \/ UserCall(p) PROVE PInv'
  BY Zenon, <1>2, AllocStep, NoMemoryStep, ForkCopyStep, CloneShareStep, RunnableStep, ExecStep, ExitStep,
     WaitStep, JoinStep DEF KernelStep, UserCall
<1>3. ASSUME NEW n \in Pid, kill_pid(n) PROVE PInv'
  BY <1>3, KillStep
<1>4. QED
  BY <1>1, <1>2, <1>3 DEF Next

\* The invariant holds.
LEMMA PInvHolds == Spec => []PInv
  BY PInvInit, PInvStep, PTL DEF Spec

\* A process asleep in wait() or join() has a child that may still exit and none
\* that has: for any size of the table.
THEOREM NoMissedZombieHolds == Spec => []NoMissedZombie
<1>1. PInv => NoMissedZombie
  BY Zenon DEF PInv, WakeInv, NoMissedZombie, Kid, Children
<1>2. QED
  BY <1>1, PInvHolds, PTL

\* The address spaces in existence are those of the processes, and none is freed
\* twice, for any number of processes and address spaces: as long as programs keep
\* to the rules for threads that the kernel leaves to them.
THEOREM AddressSpacesHolds == Spec => []AddressSpaces
<1>1. ASSUME PInv PROVE AddressSpaces
  <2>1. \A q \in Proc : Has(q) <=> Exists(q) \/ \E p \in Proc : pc[p] = "run" /\ np[p] = q
    <3>1. ASSUME NEW q \in Proc, state[q] = "EMBRYO", parent[q] # NULL
          PROVE \E p \in Proc : pc[p] = "run" /\ np[p] = q
      <4>1. PICK r \in Proc : np[r] = q
        BY <1>1, <3>1, Zenon DEF PInv, MakeInv
      <4>2. pc[r] \in Making
        BY <1>1, <4>1, NullAssumption, Zenon DEF PInv, MakeInv
      <4>3. QED
        BY <1>1, <3>1, <4>1, <4>2, Zenon DEF PInv, MakeInv
    <3>2. ASSUME NEW q \in Proc, NEW p \in Proc, pc[p] = "run", np[p] = q
          PROVE state[q] = "EMBRYO" /\ parent[q] # NULL
      BY <1>1, <3>2, NullAssumption, SMTT(30) DEF PInv, MakeInv, Making
    <3>3. QED
      BY <3>1, <3>2, Zenon DEF Has
  <2>2. \A p \in Proc : pc[p] = "run" => np[p] \in Proc
    BY <1>1, Zenon DEF PInv, MakeInv, Making
  <2>3. QED
    BY <1>1, <2>1, <2>2, SMTT(30) DEF PInv, LiveInv, AddressSpaces
<1>2. QED
  BY <1>1, PInvHolds, PTL
============================================================================
