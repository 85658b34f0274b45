---------------------------- MODULE KallocProofs ----------------------------
(***************************************************************************)
(* For any number of pages and callers, whatever the unlocked counters say: *)
(* kalloc gives a page to one caller only, and no page is lost.  The        *)
(* invariant adds that kmem.lock is held by exactly the process between     *)
(* search and unlink, or inside kfree, and that a page on its way to a      *)
(* caller counts as handed out.                                             *)
(***************************************************************************)
EXTENDS Kalloc, TLAPS

Held == {"unlink", "freed"}
Hand == {"history", "num", "size", "done"}

Parted == freelist \subseteq Frame /\ out \subseteq Frame /\ \A f \in Frame : f \in freelist <=> f \notin out

KInv ==
  /\ Parted
  /\ at \in [Proc -> {""} \cup Held \cup Hand]
  /\ r \in [Proc -> Frame \cup {NoFrame}]
  /\ kmem \subseteq Proc
  /\ \A p \in Proc : at[p] \in Held <=> p \in kmem
  /\ \A p, q \in kmem : p = q
  /\ \A p \in Proc : at[p] = "unlink" => r[p] \in freelist
  /\ \A p \in Proc : at[p] \in Hand => r[p] \in out
  /\ \A p, q \in Proc : p # q /\ at[p] \in Hand /\ at[q] \in Hand => r[p] # r[q]

\* The invariant holds when kinit is done.
LEMMA KInvInit == KInit => KInv
  BY DEF KInit, KInv, Parted, Held, Hand

\* The search: the lock is free, and the page found is a free one.
LEMMA KallocStep == ASSUME KInv, NEW p \in Proc, kalloc(p) PROVE KInv'
<1>1. CASE UNCHANGED <<freelist, kmem, counters, out, at, r, reg>>
  BY <1>1 DEF KInv, Parted
<1>2. ASSUME NEW f \in freelist, kmem = {}, kmem' = {p}, At(p, ""), To(p, "unlink"),
             r' = [r EXCEPT ![p] = f], UNCHANGED <<freelist, out>>
      PROVE KInv'
  BY <1>2, ZenonT(40) DEF KInv, Parted, At, To, Held, Hand
<1>3. QED
  BY <1>1, <1>2 DEF kalloc, Stops, acquire

\* The page goes from the list to the caller.
LEMMA UnlinkStep == ASSUME KInv, NEW p \in Proc, kalloc_unlink(p) PROVE KInv'
<1>1. p \in kmem /\ r[p] \in freelist /\ r[p] \notin out
  BY DEF KInv, Parted, kalloc_unlink, At, Held
<1>2. Parted'
  <2>1. \A x : x \in freelist' <=> x \in freelist /\ x # r[p]
    BY DEF kalloc_unlink
  <2>2. \A x : x \in out' <=> x \in out \/ x = r[p]
    BY DEF kalloc_unlink
  <2>3. QED
    BY <1>1, <2>1, <2>2, ZenonT(40) DEF KInv, Parted
<1>3. \A q \in Proc \ {p} : at'[q] = at[q] /\ at[q] # "unlink"
  BY <1>1 DEF KInv, kalloc_unlink, To, Held
<1>4. at'[p] = "history" /\ at' \in [Proc -> {""} \cup Held \cup Hand]
  BY DEF KInv, kalloc_unlink, To, Hand
<1>5. \A q \in Proc : q \notin kmem' /\ at'[q] \notin Held
  <2>1. \A q \in kmem : q = p
    BY <1>1 DEF KInv
  <2>2. \A q \in Proc \ {p} : at[q] \notin Held
    BY <2>1 DEF KInv
  <2>3. QED
    BY <1>3, <1>4, <2>1, <2>2 DEF kalloc_unlink, Held
<1>6. (\A q \in Proc : at[q] \in Hand => r[q] \in out)' /\ r' = r
  BY <1>3, <1>4 DEF KInv, kalloc_unlink, Hand
<1>7. \A q \in Proc \ {p} : at'[q] \in Hand => r[q] # r[p]
  BY <1>1, <1>3 DEF KInv
<1>8. (kmem \subseteq Proc)' /\ (\A q1, q2 \in kmem : q1 = q2)'
  BY <1>5 DEF KInv, kalloc_unlink
<1>9. QED
  BY <1>2, <1>3, <1>4, <1>5, <1>6, <1>7, <1>8, ZenonT(40) DEF KInv, Held, Hand

\* The steps outside of the lock change counters only.
LEMMA CountStep ==
  ASSUME KInv, NEW p \in Proc, kalloc_history(p) \/ kalloc_num(p) \/ kalloc_size(p) PROVE KInv'
<1>1. UNCHANGED <<freelist, kmem, out, r>>
  BY DEF kalloc_history, kalloc_num, kalloc_size, Stops
<1>2. UNCHANGED at \/ (at[p] \in Hand /\ \E pc \in Hand : at' = [at EXCEPT ![p] = pc])
  BY DEF kalloc_history, kalloc_num, kalloc_size, Stops, At, To, Hand
<1>3. at' \in [Proc -> {""} \cup Held \cup Hand]
  BY <1>2, ZenonT(40) DEF KInv
<1>4. \A q \in Proc : /\ at'[q] \in Held <=> at[q] \in Held
                      /\ at'[q] \in Hand <=> at[q] \in Hand
                      /\ at'[q] = "unlink" <=> at[q] = "unlink"
  BY <1>2 DEF KInv, Held, Hand
<1>5. Parted'
  BY <1>1 DEF KInv, Parted
<1>6. QED
  BY <1>1, <1>3, <1>4, <1>5 DEF KInv

\* kalloc returns; the lock is not held.
LEMMA ReturnStep == ASSUME KInv, NEW p \in Proc, returned(p) PROVE KInv'
  BY ZenonT(40) DEF KInv, Parted, returned, At, To, Held, Hand

\* A page that was handed out, and is not on its way to somebody, becomes free.
LEMMA KfreeStep == ASSUME KInv, NEW p \in Proc, NEW f \in out \ InHand, kfree(p, f) PROVE KInv'
<1>1. \A q \in Proc : at[q] \in Hand => r[q] # f
  BY DEF InHand, Hand
<1>2. Parted'
  <2>1. \A x : x \in freelist' <=> x \in freelist \/ x = f
    BY DEF kfree
  <2>2. \A x : x \in out' <=> x \in out /\ x # f
    BY DEF kfree
  <2>3. QED
    BY <2>1, <2>2 DEF KInv, Parted
<1>3. \A q \in Proc : at[q] \notin Held
  BY DEF KInv, kfree
<1>4. at' = [at EXCEPT ![p] = "freed"] /\ kmem' = {p} /\ r' = r
  BY DEF kfree, To
<1>5. (\A q \in Proc : at[q] \in Held <=> q \in kmem)' /\ (\A q \in Proc : at[q] # "unlink")'
  BY <1>3, <1>4 DEF KInv, Held
<1>6. (\A q \in Proc : at[q] \in Hand => r[q] \in out)'
  BY <1>1, <1>4 DEF KInv, kfree, Hand
<1>7. (\A q1, q2 \in Proc : q1 # q2 /\ at[q1] \in Hand /\ at[q2] \in Hand => r[q1] # r[q2])'
  BY <1>4 DEF KInv, Hand
<1>8. (at \in [Proc -> {""} \cup Held \cup Hand])' /\ (kmem \subseteq Proc /\ \A q1, q2 \in kmem : q1 = q2)'
  BY <1>4 DEF KInv, Held
<1>9. QED
  BY <1>2, <1>4, <1>5, <1>6, <1>7, <1>8 DEF KInv

\* The end of kfree gives the lock back.
LEMMA KfreeEnd == ASSUME KInv, NEW p \in Proc, kfree_size(p) PROVE KInv'
  BY DEF KInv, Parted, kfree_size, At, To, Held, Hand

\* Every step preserves the invariant.
LEMMA KInvNext == KInv /\ [KNext]_kvars => KInv'
<1> SUFFICES ASSUME KInv, [KNext]_kvars PROVE KInv'
  OBVIOUS
<1>1. CASE UNCHANGED kvars
  BY <1>1 DEF KInv, Parted, kvars, counters
<1>2. CASE KNext
  BY <1>2, KallocStep, UnlinkStep, CountStep, ReturnStep, KfreeStep, KfreeEnd DEF KNext, KStep
<1>3. QED
  BY <1>1, <1>2

\* The invariant says what Exclusive says.
LEMMA KInvExclusive == KInv => Exclusive
  BY DEF KInv, Parted, Exclusive, Held, Hand

\* kalloc.c hands out a page to one caller at a time and loses none, for every
\* number of pages and callers and every order of the unlocked updates of
\* num_alloc and size_freelist.
THEOREM ExclusiveHolds == KSpec => []Exclusive
<1>1. QED
  BY KInvInit, KInvNext, KInvExclusive, PTL DEF KSpec
=============================================================================
