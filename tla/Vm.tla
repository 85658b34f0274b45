--------------------------------- MODULE Vm ---------------------------------
(***************************************************************************)
(* Address spaces: kernel/vm.c under sbrk, fork, clone, exec, wait, join,   *)
(* mprotect and munprotect, over the allocator of module Kalloc.            *)
(*                                                                          *)
(* A process is in user mode or at some place of a call; pg and end are the *)
(* page, or page table, that a loop of the call has come to and where the   *)
(* loop ends.  An address space is its page directory: the page tables that *)
(* setupkvm makes, which cover the user addresses too, and the entries of   *)
(* the user pages.  The contents of pages are left out.  tlb[p] is what the *)
(* CPU of p remembers of the entries; loading cr3 empties it.               *)
(*                                                                          *)
(* A program with threads joins them before it waits, execs, exits or       *)
(* changes its size: growproc does not tell the threads.                    *)
(***************************************************************************)
EXTENDS Kalloc

CONSTANTS PGSIZE, NUSER,    \* cells of a page, pages below USERTOP
          NTABLE,           \* page tables of an address space
          Image,            \* the sizes of programs without their stack
          Sbrk,             \* the arguments of sbrk
          Touched,          \* the pages that programs touch
          first,            \* the process that is there at the beginning
          Ops, MaxCalls     \* bounds

ASSUME VmAssumption ==
  /\ {PGSIZE, NUSER, NTABLE} \subseteq Nat \ {0} /\ Image \subseteq Nat /\ Sbrk \subseteq Int
  /\ Touched \subseteq 0 .. NUSER - 1 /\ first \in Proc /\ MaxCalls \in Nat
  /\ Ops \subseteq {"sbrk", "fork", "clone", "exec", "exit", "wait", "join", "mprotect", "munprotect"}

VARIABLES call, pc,         \* the call that a process is in, and its place there
          pg, end,          \* the next page or table of a loop, and its end
          newsz, kid,       \* the size asked for; the process that is made or reaped
          new,              \* the directory that a call is making or freeing
          dir,              \* the page directories, by their page
          state, parent, pgdir, sz, kstack,  \* of struct proc
          tlb,
          panic, calls

locals == <<call, pc, pg, end, newsz, kid>>
procs == <<state, parent, pgdir, sz, kstack>>
vars == <<kvars, locals, new, dir, procs, tlb, panic, calls>>

Va == 0 .. NUSER - 1
USERTOP == NUSER * PGSIZE
PGROUNDUP(n) == (n + PGSIZE - 1) \div PGSIZE

Absent == [pa |-> NoFrame, w |-> FALSE]
NoPages == [va \in Va |-> Absent]
NoDir == [tables |-> {}, pte |-> NoPages]

\* first has a program loaded that fits; its pages are the first ones.
Init ==
  \E size \in Image :
    LET pages == PGROUNDUP(size) + 1
        used == 1 .. 2 + NTABLE + pages
    IN /\ pages <= NUSER /\ used \subseteq Frame
       /\ freelist = Frame \ used /\ out = used
       /\ kmem = {} /\ size_freelist = Cardinality(freelist) /\ num_alloc = Cardinality(used)
       /\ at = [p \in Proc |-> ""] /\ r = [p \in Proc |-> NoFrame] /\ reg = [p \in Proc |-> 0]
       /\ trap = "" /\ panic = "" /\ calls = 0
       /\ call = [p \in Proc |-> ""] /\ pc = [p \in Proc |-> ""]
       /\ pg = [p \in Proc |-> 0] /\ end = [p \in Proc |-> 0]
       /\ newsz = [p \in Proc |-> 0] /\ kid = [p \in Proc |-> p]
       /\ new = [p \in Proc |-> NoFrame]
       /\ state = [p \in Proc |-> IF p = first THEN "user" ELSE "unused"]
       /\ parent = [p \in Proc |-> p]
       /\ sz = [p \in Proc |-> IF p = first THEN pages * PGSIZE ELSE 0]
       /\ kstack = [p \in Proc |-> IF p = first THEN 1 ELSE NoFrame]
       /\ pgdir = [p \in Proc |-> IF p = first THEN 2 ELSE NoFrame]
       /\ dir = [f \in Frame |-> IF f # 2 THEN NoDir ELSE
                   [tables |-> 3 .. 2 + NTABLE,
                    pte |-> [va \in Va |-> IF va >= pages THEN Absent
                                           ELSE [pa |-> 3 + NTABLE + va, w |-> TRUE]]]]
       /\ tlb = [p \in Proc |-> NoPages]

-----------------------------------------------------------------------------

In(p, place) == panic = "" /\ pc[p] = place
More(p, place) == In(p, place) /\ pg[p] < end[p]
Ended(p, place) == In(p, place) /\ pg[p] >= end[p] /\ At(p, "")

Goto(p, place, from, to) ==
  /\ pc' = [pc EXCEPT ![p] = place] /\ pg' = [pg EXCEPT ![p] = from] /\ end' = [end EXCEPT ![p] = to]
Continue(p, place, from, to) == Goto(p, place, from, to) /\ UNCHANGED <<call, newsz, kid>>
Advance(p) == pg' = [pg EXCEPT ![p] = @ + 1] /\ UNCHANGED <<call, pc, end, newsz, kid>>
Return(p) ==
  /\ Goto(p, "", 0, 0)
  /\ call' = [call EXCEPT ![p] = ""] /\ newsz' = [newsz EXCEPT ![p] = 0] /\ kid' = [kid EXCEPT ![p] = p]

\* A step with the page from kalloc.
Uses(p, place) == In(p, place) /\ returned(p)

kalloc_begin(p) ==
  /\ In(p, "kstack") \/ In(p, "pgdir") \/ More(p, "table") \/ More(p, "map") \/ More(p, "stack")
  /\ kalloc(p)
  /\ UNCHANGED <<locals, new, dir, procs, tlb, panic, calls>>

kalloc_step(p) == KStep(p) /\ UNCHANGED <<locals, new, dir, procs, tlb, panic, calls>>

\* setupkvm(): the directory,
make_pgdir(p) ==
  /\ Uses(p, "pgdir")
  /\ new' = [new EXCEPT ![p] = r[p]]
  /\ Continue(p, "table", 0, NTABLE)
  /\ UNCHANGED <<dir, procs, tlb, panic, calls>>

\* and the tables: walkpgdir with create.
make_table(p) ==
  /\ Uses(p, "table")
  /\ dir' = [dir EXCEPT ![new[p]].tables = @ \cup {r[p]}]
  /\ Advance(p)
  /\ UNCHANGED <<new, procs, tlb, panic, calls>>

\* mappages of one page
Maps(p, d, w) ==
  IF dir[d].pte[pg[p]] # Absent THEN panic' = "remap" /\ UNCHANGED <<locals, new, dir, procs, tlb, calls>>
  ELSE /\ dir' = [dir EXCEPT ![d].pte[pg[p]] = [pa |-> r[p], w |-> w]]
       /\ Advance(p)
       /\ UNCHANGED <<new, procs, tlb, panic, calls>>

\* The address space that a call grows or frees.
Target(p) == IF call[p] = "sbrk" THEN pgdir[p] ELSE new[p]

map(p) == (Uses(p, "map") \/ Uses(p, "stack")) /\ Maps(p, Target(p), TRUE)

\* Mutation: the pages from the old size on, without rounding up.
PageAfter_down(n) == n \div PGSIZE

\* The first page that begins at n or after it.
PageAfter(n) == PGROUNDUP(n)

\* The loops of allocuvm and deallocuvm from oldsz to newsz, and of freevm.
allocuvm(p, place, oldsz, size) == Goto(p, place, PageAfter(oldsz), PGROUNDUP(size))
deallocuvm(p, oldsz, size) == Goto(p, "unmap", PageAfter(size), PGROUNDUP(oldsz))
freevm(p) == deallocuvm(p, USERTOP, 0) /\ UNCHANGED <<call, newsz, kid>>

\* Mutation: the entry stays.
unmap_kept(p) ==
  LET e == dir[Target(p)].pte[pg[p]]
  IN /\ More(p, "unmap") /\ At(p, "")
     /\ IF e = Absent THEN UNCHANGED kvars ELSE kfree(p, e.pa)
     /\ Advance(p)
     /\ UNCHANGED <<new, dir, procs, tlb, panic, calls>>

\* The page is freed and its entry cleared; there is no other thread to see it.
unmap(p) ==
  LET d == Target(p)
      e == dir[d].pte[pg[p]]
  IN /\ More(p, "unmap") /\ At(p, "")
     /\ IF e = Absent THEN UNCHANGED <<kvars, dir>>
        ELSE kfree(p, e.pa) /\ dir' = [dir EXCEPT ![d].pte[pg[p]] = Absent]
     /\ Advance(p)
     /\ UNCHANGED <<new, procs, tlb, panic, calls>>

\* The page tables, one by one, and the directory.
free_tables(p) ==
  LET d == new[p] IN
  /\ Ended(p, "unmap") /\ call[p] # "sbrk"
  /\ \/ \E t \in dir[d].tables :
          /\ kfree(p, t) /\ dir' = [dir EXCEPT ![d].tables = @ \ {t}]
          /\ UNCHANGED <<locals, new>>
     \/ /\ dir[d].tables = {}
        /\ kfree(p, d) /\ dir' = [dir EXCEPT ![d] = NoDir]
        /\ new' = [new EXCEPT ![p] = NoFrame]
        /\ IF call[p] = "exec" THEN Return(p) ELSE Continue(p, "reaped", 0, 0)
  /\ UNCHANGED <<procs, tlb, panic, calls>>

-----------------------------------------------------------------------------
\* Calls

Threads(p) == {q \in Proc \ {p} : state[q] # "unused" /\ pgdir[q] = pgdir[p]}

Calls(p, op) ==
  /\ panic = "" /\ At(p, "") /\ state[p] = "user" /\ call[p] = ""
  /\ dir[pgdir[p]].pte[0] # Absent
  /\ op \in Ops /\ calls < MaxCalls /\ calls' = calls + 1

\* The call begins, with a size and a child to work for.
Enters(p, op, size, c) ==
  /\ call' = [call EXCEPT ![p] = op] /\ newsz' = [newsz EXCEPT ![p] = size] /\ kid' = [kid EXCEPT ![p] = c]
  /\ UNCHANGED <<kvars, dir, tlb, panic>>

\* growproc(n): a sum below 0 wraps and is larger than the old size, so that there is
\* nothing to free.
sys_sbrk(p) ==
  /\ Calls(p, "sbrk") /\ Threads(p) = {}
  /\ \E n \in Sbrk :
       LET size == sz[p] + n IN
       \/ size > USERTOP /\ UNCHANGED <<kvars, locals, dir, tlb, panic>>
       \/ n >= 0 /\ size <= USERTOP /\ Enters(p, "sbrk", size, p) /\ allocuvm(p, "map", sz[p], size)
       \/ size < 0 /\ Enters(p, "sbrk", sz[p], p) /\ Goto(p, "unmap", 0, 0)
       \/ n < 0 /\ size >= 0 /\ Enters(p, "sbrk", size, p) /\ deallocuvm(p, sz[p], size)
  /\ UNCHANGED <<new, procs>>

\* Mutation: cr3 is not loaded.
switchuvm_none(p) == UNCHANGED tlb

\* lcr3 forgets the old entries.
switchuvm(p) == tlb' = [tlb EXCEPT ![p] = NoPages]

\* The rest of growproc: a size of 0 counts as a failure.
growproc(p) ==
  /\ Ended(p, "map") \/ Ended(p, "unmap")
  /\ call[p] = "sbrk"
  /\ IF newsz[p] = 0 THEN UNCHANGED <<sz, tlb>>
     ELSE sz' = [sz EXCEPT ![p] = newsz[p]] /\ switchuvm(p)
  /\ Return(p)
  /\ UNCHANGED <<kvars, dir, new, state, parent, pgdir, kstack, panic, calls>>

\* allocproc takes a slot; the child's kernel stack comes first, then what the call
\* itself does.
allocproc(p, op) ==
  /\ Calls(p, op)
  /\ \E c \in Proc :
       /\ state[c] = "unused"
       /\ state' = [state EXCEPT ![c] = "embryo"] /\ parent' = [parent EXCEPT ![c] = p]
       /\ Enters(p, op, 0, c) /\ Goto(p, "kstack", 0, 0)
  /\ UNCHANGED <<new, pgdir, sz, kstack>>

fork(p) == allocproc(p, "fork")

set_kstack(p) ==
  /\ Uses(p, "kstack")
  /\ kstack' = [kstack EXCEPT ![kid[p]] = r[p]]
  /\ Continue(p, IF call[p] = "fork" THEN "pgdir" ELSE "cloned", 0, 0)
  /\ UNCHANGED <<dir, new, state, parent, pgdir, sz, tlb, panic, calls>>

\* copyuvm(pgdir, sz), after setupkvm
copyuvm(p) ==
  /\ Ended(p, "table") /\ call[p] = "fork"
  /\ Continue(p, "copy", 0, PGROUNDUP(sz[p]))
  /\ UNCHANGED <<kvars, new, dir, procs, tlb, panic, calls>>

copy(p) ==
  /\ More(p, "copy") /\ At(p, "")
  /\ IF dir[pgdir[p]].pte[pg[p]] = Absent THEN panic' = "copyuvm: page not present" /\ UNCHANGED kvars
     ELSE kalloc(p) /\ UNCHANGED panic
  /\ UNCHANGED <<locals, new, dir, procs, tlb, calls>>

\* Mutation: the protection is not copied.
Protection_always(e) == TRUE

Protection(e) == e.w

map_copy(p) == Uses(p, "copy") /\ Maps(p, new[p], Protection(dir[pgdir[p]].pte[pg[p]]))

Runs(p, c, d) ==
  /\ pgdir' = [pgdir EXCEPT ![c] = d] /\ sz' = [sz EXCEPT ![c] = sz[p]]
  /\ state' = [state EXCEPT ![c] = "user"]
  /\ Return(p)
  /\ UNCHANGED <<kvars, dir, parent, kstack, tlb, panic, calls>>

forked(p) == Ended(p, "copy") /\ Runs(p, kid[p], new[p]) /\ new' = [new EXCEPT ![p] = NoFrame]

\* The stack of the thread is a whole page of the program.
clone(p) == sz[p] >= PGSIZE /\ allocproc(p, "clone")

cloned(p) == In(p, "cloned") /\ At(p, "") /\ Runs(p, kid[p], pgdir[p]) /\ UNCHANGED new

\* exec of a program of a given size.
exec(p) ==
  /\ Calls(p, "exec") /\ Threads(p) = {}
  /\ \E size \in Image : Enters(p, "exec", size, p)
  /\ Goto(p, "pgdir", 0, 0)
  /\ UNCHANGED <<new, procs>>

\* The segments are loaded,
exec_load(p) ==
  /\ Ended(p, "table") /\ call[p] = "exec" /\ newsz[p] <= USERTOP
  /\ allocuvm(p, "map", 0, newsz[p])
  /\ UNCHANGED <<kvars, call, newsz, kid, new, dir, procs, tlb, panic, calls>>

\* a page for the stack follows them,
exec_stack(p) ==
  LET top == PGROUNDUP(newsz[p]) * PGSIZE IN
  /\ Ended(p, "map") /\ call[p] = "exec" /\ top + PGSIZE <= USERTOP
  /\ allocuvm(p, "stack", top, top + PGSIZE) /\ newsz' = [newsz EXCEPT ![p] = top + PGSIZE]
  /\ UNCHANGED <<kvars, call, kid, new, dir, procs, tlb, panic, calls>>

\* and the process goes over to its new address space.
exec_commit(p) ==
  /\ Ended(p, "stack")
  /\ pgdir' = [pgdir EXCEPT ![p] = new[p]] /\ sz' = [sz EXCEPT ![p] = newsz[p]]
  /\ new' = [new EXCEPT ![p] = pgdir[p]]
  /\ switchuvm(p)
  /\ freevm(p)
  /\ UNCHANGED <<kvars, dir, state, parent, kstack, panic, calls>>

\* The program is too large, its file ends early, or its arguments do not fit.
exec_bad(p) ==
  /\ Ended(p, "table") \/ Ended(p, "map") \/ Ended(p, "stack")
  /\ call[p] = "exec"
  /\ freevm(p)
  /\ UNCHANGED <<kvars, new, dir, procs, tlb, panic, calls>>

\* exit; init never exits, and has the children of those who do.
Exits(p) ==
  /\ state' = [state EXCEPT ![p] = "zombie"]
  /\ parent' = [c \in Proc |-> IF parent[c] = p THEN first ELSE parent[c]]
  /\ tlb' = [tlb EXCEPT ![p] = NoPages]
  /\ UNCHANGED <<kvars, locals, new, dir, pgdir, sz, kstack, panic>>

MayExit(p) == p # first /\ \A q \in Threads(p) : parent[q] # p

exit(p) == MayExit(p) /\ Calls(p, "exit") /\ Exits(p)

\* Mutation: wait takes threads too.
IsThread_never(p, c) == FALSE

IsThread(p, c) == pgdir[c] = pgdir[p]

\* wait frees a child's address space, join leaves that of a thread alone.  ptable.lock
\* is held until the end: nobody else finds the child meanwhile, or looks at its pgdir,
\* which wait leaves as it is.
reap(p) ==
  \E c \in Proc \ {p} :
    LET thread == IsThread(p, c)
        op == IF thread THEN "join" ELSE "wait" IN
    /\ state[c] = "zombie" /\ parent[c] = p
    /\ Calls(p, op)
    /\ state' = [state EXCEPT ![c] = "embryo"] /\ pgdir' = [pgdir EXCEPT ![c] = NoFrame]
    /\ new' = [new EXCEPT ![p] = IF thread THEN NoFrame ELSE pgdir[c]]
    /\ Enters(p, op, 0, c) /\ Goto(p, "free_kstack", 0, 0)
    /\ UNCHANGED <<parent, sz, kstack>>

free_kstack(p) ==
  /\ In(p, "free_kstack") /\ kfree(p, kstack[kid[p]])
  /\ kstack' = [kstack EXCEPT ![kid[p]] = NoFrame]
  /\ IF call[p] = "wait" THEN freevm(p) ELSE Continue(p, "reaped", 0, 0)
  /\ UNCHANGED <<dir, new, state, parent, pgdir, sz, tlb, panic, calls>>

reaped(p) ==
  /\ In(p, "reaped") /\ At(p, "")
  /\ state' = [state EXCEPT ![kid[p]] = "unused"]
  /\ Return(p)
  /\ UNCHANGED <<kvars, dir, new, parent, pgdir, sz, kstack, tlb, panic, calls>>

\* mprotect and munprotect of pages below USERTOP, a page a step; both end at the
\* first page that is absent.
sys_mprotect(p) ==
  /\ \E op \in {"mprotect", "munprotect"}, va \in Touched, last \in Va :
       /\ Calls(p, op) /\ va <= last /\ va * PGSIZE < sz[p]
       /\ Enters(p, op, 0, p) /\ Goto(p, "protect", va, last + 1)
  /\ UNCHANGED <<new, procs>>

protect(p) ==
  LET d == pgdir[p]
      absent == dir[d].pte[pg[p]] = Absent
  IN /\ In(p, "protect") /\ At(p, "")
     /\ dir' = IF absent THEN dir ELSE [dir EXCEPT ![d].pte[pg[p]].w = (call[p] = "munprotect")]
     /\ IF absent \/ pg[p] + 1 = end[p] THEN Return(p) ELSE Advance(p)
     /\ UNCHANGED <<kvars, new, procs, tlb, panic, calls>>

-----------------------------------------------------------------------------
\* The program

\* The program reads or writes a page, with the entry that the CPU remembers or,
\* when that is none or denies the access, with that of the page table.  Denied,
\* trap kills the process.
touch(p) ==
  /\ panic = "" /\ At(p, "") /\ state[p] = "user" /\ call[p] = ""
  /\ \E va \in Touched, write \in BOOLEAN : \E e \in {tlb[p][va], dir[pgdir[p]].pte[va]} :
       LET allowed(x) == x # Absent /\ (write => x.w) IN
       /\ allowed(tlb[p][va]) => e = tlb[p][va]
       /\ IF allowed(e)
          THEN tlb' = [tlb EXCEPT ![p][va] = e] /\ UNCHANGED <<kvars, locals, new, dir, procs, panic>>
          ELSE (e = Absent => dir[pgdir[p]].pte[va] = Absent) /\ MayExit(p) /\ Exits(p)
  /\ UNCHANGED calls

\* The timer: the process gives up the CPU and gets one again.
resched(p) ==
  /\ panic = "" /\ trap = "" /\ state[p] = "user" /\ tlb[p] # NoPages
  /\ switchuvm(p)
  /\ UNCHANGED <<kvars, locals, new, dir, procs, panic, calls>>

Step(p) ==
  \/ kalloc_begin(p) \/ kalloc_step(p)
  \/ make_pgdir(p) \/ make_table(p) \/ map(p) \/ unmap(p) \/ free_tables(p)
  \/ growproc(p) \/ set_kstack(p) \/ copyuvm(p) \/ copy(p) \/ map_copy(p) \/ forked(p) \/ cloned(p)
  \/ exec_load(p) \/ exec_stack(p) \/ exec_commit(p) \/ exec_bad(p)
  \/ free_kstack(p) \/ reaped(p) \/ protect(p)

Call(p) ==
  \/ sys_sbrk(p) \/ fork(p) \/ clone(p) \/ exec(p) \/ exit(p) \/ reap(p) \/ sys_mprotect(p)

Next == \E p \in Proc : Step(p) \/ Call(p) \/ touch(p) \/ resched(p)

Spec == Init /\ [][Next]_vars

-----------------------------------------------------------------------------
\* Properties

Spaces == ({pgdir[p] : p \in {q \in Proc : state[q] \in {"user", "zombie"}}} \cup {new[p] : p \in Proc}) \ {NoFrame}
Mapped(d) == {dir[d].pte[va].pa : va \in Va} \ {NoFrame}
Space(d) == {d} \cup dir[d].tables \cup Mapped(d)
Stacks == {kstack[p] : p \in Proc} \ {NoFrame}

\* The directory, the tables and the pages of a space are all different.
Different(d) ==
  /\ d \notin dir[d].tables \cup Mapped(d) /\ dir[d].tables \cap Mapped(d) = {}
  /\ \A v, u \in Va : v # u /\ dir[d].pte[v] # Absent => dir[d].pte[v].pa # dir[d].pte[u].pa

\* No page is lost or has two owners, on any path through fork, exec, sbrk and wait:
\* what is handed out is the kernel stack of one process, one part of one address
\* space, or in the hands of one call.
FramesOwned ==
  /\ out = InHand \cup Stacks \cup UNION {Space(d) : d \in Spaces}
  /\ \A p, q \in Proc : p # q /\ kstack[p] # NoFrame => kstack[p] # kstack[q]
  /\ \A d \in Spaces : Different(d) /\ Space(d) \cap (InHand \cup Stacks) = {}
  /\ \A d, e \in Spaces : d # e => Space(d) \cap Space(e) = {}
  /\ InHand \cap Stacks = {}

\* In user mode, with something left of the program: sbrk that gives back everything
\* fails after it did, and leaves the size and cr3 alone.
InUser(p) == panic = "" /\ At(p, "") /\ state[p] = "user" /\ call[p] = "" /\ dir[pgdir[p]].pte # NoPages

\* A process in user mode has the pages of its size and no others, at sizes that do
\* not end on a page too.
SizeMapped ==
  \A p \in Proc : InUser(p) => \A va \in Va : dir[pgdir[p]].pte[va] # Absent <=> va * PGSIZE < sz[p]

\* The child of a fork has the protection of every page of its parent (README.txt
\* 4: "inherited on fork()"), unless a thread changes it meanwhile.
ForkInherits ==
  [][\A p \in Proc : forked(p) /\ Threads(p) = {} =>
       \A va \in Va : dir[new[p]].pte[va].w = dir[pgdir[p]].pte[va].w]_vars

\* The CPU of a program never remembers a page that its address space has lost:
\* growproc and exec load cr3 before the program goes on.
NoStaleFrame ==
  \A p \in Proc : InUser(p) =>
    \A va \in Va : tlb[p][va] # Absent => tlb[p][va].pa = dir[pgdir[p]].pte[va].pa

\* The calls use the allocator as they should: they free what they got, once.
ImplementsKalloc == [][KNext]_kvars
=============================================================================
