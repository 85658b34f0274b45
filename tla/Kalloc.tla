------------------------------- MODULE Kalloc -------------------------------
(***************************************************************************)
(* kernel/kalloc.c: the allocator of physical pages.                        *)
(*                                                                          *)
(* kalloc finds and unlinks a page inside kmem.lock, but counts it after    *)
(* the release: allocated, num_alloc and size_freelist are loaded and       *)
(* stored without a lock, a step each.  kfree counts inside the lock.  The  *)
(* free list is the set of its pages: the random index chooses one of them, *)
(* and only whether it is beyond the end of the list matters.  The contents *)
(* of allocated are left out.                                               *)
(***************************************************************************)
EXTENDS Integers, FiniteSets

CONSTANTS Frame,      \* the pages from end to PHYSTOP
          Proc,       \* those who call the allocator
          HISTORY,    \* entries of allocated, 512 in the code
          NoFrame,
          Choice(_)   \* the pages of a free list that the random index may lead to

ASSUME FrameAssumption == NoFrame \notin Frame /\ HISTORY \in Nat /\ IsFiniteSet(Frame)

VARIABLES freelist,   \* kmem.freelist
          kmem,       \* the processes that are inside kmem.lock
          size_freelist, num_alloc,
          out,        \* the pages that were handed out and not freed
          at,         \* where a process is in kalloc or kfree, "" outside
          r, reg,     \* its page, and what it has loaded of a counter
          trap        \* what stops the machine

counters == <<size_freelist, num_alloc>>
kvars == <<freelist, kmem, counters, out, at, r, reg, trap>>

KInit ==
  /\ freelist = Frame /\ kmem = {} /\ out = {}
  /\ size_freelist = Cardinality(Frame) /\ num_alloc = 0
  /\ at = [p \in Proc |-> ""] /\ r = [p \in Proc |-> NoFrame] /\ reg = [p \in Proc |-> 0]
  /\ trap = ""

At(p, pc) == trap = "" /\ at[p] = pc
To(p, pc) == at' = [at EXCEPT ![p] = pc]

Stops(msg) == trap' = msg /\ UNCHANGED <<freelist, kmem, counters, out, at, r, reg>>

\* The random indexes: xv6_rand() % size_freelist.
Index == 0 .. (IF size_freelist < 0 THEN -size_freelist ELSE size_freelist) - 1

\* Mutation: the search is made before the lock is taken.
acquire_none(p) == UNCHANGED kmem

acquire(p) == kmem = {} /\ kmem' = {p}

\* acquire(&kmem.lock) and the search.  The remainder by 0 is a trap; beyond the end
\* of the list the search follows a null pointer.
kalloc(p) ==
  /\ At(p, "")
  /\ \/ Index = {} /\ kmem = {} /\ Stops("divide")
     \/ (\E rd \in Index : rd >= Cardinality(freelist)) /\ kmem = {} /\ Stops("null")
     \/ /\ Index # {} /\ acquire(p) /\ To(p, "unlink")
        /\ \E f \in freelist \cap Choice(freelist) : r' = [r EXCEPT ![p] = f]
        /\ UNCHANGED <<freelist, counters, out, reg, trap>>

\* The page leaves the list; release(&kmem.lock).
kalloc_unlink(p) ==
  /\ At(p, "unlink") /\ To(p, "history")
  /\ freelist' = freelist \ {r[p]} /\ out' = out \cup {r[p]}
  /\ kmem' = kmem \ {p}
  /\ UNCHANGED <<counters, r, reg, trap>>

\* allocated[num_alloc] = r; num_alloc is loaded.  Past its end the array is what
\* follows it in memory.
kalloc_history(p) ==
  /\ At(p, "history")
  /\ IF num_alloc >= HISTORY THEN Stops("history")
     ELSE /\ To(p, "num") /\ reg' = [reg EXCEPT ![p] = num_alloc]
          /\ UNCHANGED <<freelist, kmem, counters, out, r, trap>>

\* num_alloc is stored, size_freelist is loaded.
kalloc_num(p) ==
  /\ At(p, "num") /\ To(p, "size")
  /\ num_alloc' = reg[p] + 1
  /\ reg' = [reg EXCEPT ![p] = size_freelist]
  /\ UNCHANGED <<freelist, kmem, size_freelist, out, r, trap>>

\* size_freelist is stored; kalloc returns r.
kalloc_size(p) ==
  /\ At(p, "size") /\ To(p, "done")
  /\ size_freelist' = reg[p] - 1
  /\ reg' = [reg EXCEPT ![p] = 0]
  /\ UNCHANGED <<freelist, kmem, num_alloc, out, r, trap>>

\* The caller of kalloc has put the page where it belongs.
returned(p) ==
  /\ At(p, "done") /\ To(p, "")
  /\ r' = [r EXCEPT ![p] = NoFrame]
  /\ UNCHANGED <<freelist, kmem, counters, out, reg, trap>>

\* kfree(f): inside the lock the page is put on the list and the size is loaded.
kfree(p, f) ==
  /\ At(p, "") /\ To(p, "freed")
  /\ kmem = {} /\ kmem' = {p}
  /\ freelist' = freelist \cup {f} /\ out' = out \ {f}
  /\ reg' = [reg EXCEPT ![p] = size_freelist]
  /\ UNCHANGED <<counters, r, trap>>

\* The size is stored; release(&kmem.lock).
kfree_size(p) ==
  /\ At(p, "freed") /\ To(p, "")
  /\ size_freelist' = reg[p] + 1
  /\ reg' = [reg EXCEPT ![p] = 0]
  /\ kmem' = kmem \ {p}
  /\ UNCHANGED <<freelist, num_alloc, out, r, trap>>

KStep(p) ==
  \/ kalloc_unlink(p) \/ kalloc_history(p) \/ kalloc_num(p) \/ kalloc_size(p) \/ kfree_size(p)

\* The pages that kalloc is about to return.
InHand == {r[p] : p \in {q \in Proc : at[q] \in {"history", "num", "size", "done"}}}

\* Callers free what they were given, once.
KNext ==
  \E p \in Proc :
    \/ kalloc(p) \/ KStep(p) \/ returned(p)
    \/ \E f \in out \ InHand : kfree(p, f)

KSpec == KInit /\ [][KNext]_kvars

\* Whatever the counters say after their races, a page is free or handed out and
\* never both, kalloc gives it to one caller, and nobody is about to unlink a page
\* that is not free.
Exclusive ==
  /\ freelist \cap out = {} /\ freelist \cup out = Frame
  /\ \A p \in Proc : at[p] = "unlink" => r[p] \in freelist
  /\ \A p, q \in Proc :
       p # q /\ {at[p], at[q]} \subseteq {"unlink", "history", "num", "size", "done"} => r[p] # r[q]
=============================================================================
