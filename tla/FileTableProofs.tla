-------------------------- MODULE FileTableProofs --------------------------
(***************************************************************************)
(* Proofs about FileTable and the pipe under it: the reference counts, the *)
(* reasons to sleep, and that the ring buffer is a FIFO channel.           *)
(***************************************************************************)
EXTENDS PipeProofs, FiniteSetTheorems

----------------------------------------------------------------------------
\* Descriptors

\* fdalloc finds the lowest of the free descriptors if there is one.
LEMMA LowestIn ==
  ASSUME NEW S, S \subseteq Nat, S # {}
  PROVE Lowest(S) \in S /\ \A y \in S : Lowest(S) <= y
<1> DEFINE I == {0 .. n : n \in S}
<1>1. I \subseteq FiniteSubsetsOf(Nat)
  <2>1. SUFFICES ASSUME NEW n \in S PROVE 0 .. n \in FiniteSubsetsOf(Nat)
    OBVIOUS
  <2>2. n \in Int /\ 0 \in Int /\ 0 .. n \subseteq Nat
    OBVIOUS
  <2>3. IsFiniteSet(0 .. n)
    BY <2>2, FS_Interval
  <2>4. QED
    BY <2>2, <2>3 DEF FiniteSubsetsOf
<1>2. I # {}
  BY Zenon
<1> HIDE DEF I
<1>3. PICK T \in I : \A U \in I : ~(<<U, T>> \in StrictSubsetOrdering(Nat))
  BY <1>1, <1>2, FS_StrictSubsetOrderingWellFounded, WFMin
<1>4. PICK x \in S : T = 0 .. x
  BY DEF I
<1>5. \A y \in S : x <= y
  <2>1. SUFFICES ASSUME NEW y \in S, y < x PROVE FALSE
    OBVIOUS
  <2>2. 0 .. y \in I
    BY DEF I
  <2>3. <<0 .. y, T>> \in StrictSubsetOrdering(Nat)
    <3>1. 0 .. y \subseteq 0 .. x /\ x \in 0 .. x /\ x \notin 0 .. y /\ 0 .. x \subseteq Nat
      BY <2>1
    <3>2. QED
      BY <1>4, <3>1, Zenon DEF StrictSubsetOrdering
  <2>4. QED
    BY <1>3, <2>2, <2>3
<1>6. QED
  BY <1>5, Zenon DEF Lowest

----------------------------------------------------------------------------
\* Reference counts

\* The sets that RefCounts counts are finite.
LEMMA FiniteCounts ==
  ASSUME NEW f
  PROVE /\ IsFiniteSet(Descriptors(f)) /\ IsFiniteSet(Closing(f)) /\ IsFiniteSet(Duping(f))
        /\ Cardinality(Descriptors(f)) \in Nat
        /\ Cardinality(Closing(f)) \in Nat /\ Cardinality(Duping(f)) \in Nat
<1>1. IsFiniteSet(Proc)
  BY TableAssumption
<1>2. IsFiniteSet(Fd)
  BY FileAssumption, FS_Interval DEF Fd
<1>3. IsFiniteSet(Proc \X Fd)
  BY <1>1, <1>2, FS_Product
<1>4. IsFiniteSet(Descriptors(f))
  BY <1>3, FS_Subset DEF Descriptors
<1>5. IsFiniteSet(Closing(f)) /\ IsFiniteSet(Duping(f))
  BY <1>1, FS_Subset DEF Closing, Duping
<1>6. QED
  BY <1>4, <1>5, FS_CardinalityType

\* A dup that has not counted its reference yet has two descriptors: whoever has a
\* descriptor for a file, or is closing one, finds its count positive.
LEMMA RefPositive ==
  ASSUME FileTypes, CurInv, RefCounts, NEW f \in File,
         Descriptors(f) # {} \/ Closing(f) # {}
  PROVE ref[f] > 0
<1> DEFINE one(p) == CHOOSE fd \in Fd : ofile[p][fd] = f
           g == [p \in Duping(f) |-> <<p, one(p)>>]
<1>1. \A p \in Duping(f) : p \in Proc /\ one(p) \in Fd /\ ofile[p][one(p)] = f
  BY Zenon DEF CurInv, Duping
<1>2. g \in Injection(Duping(f), Descriptors(f))
  <2>1. \A p \in Duping(f) : g[p] \in Descriptors(f)
    BY <1>1, Zenon DEF Descriptors
  <2>2. \A p, q \in Duping(f) : g[p] = g[q] => p = q
    OBVIOUS
  <2>3. QED
    BY <2>1, <2>2 DEF Injection, IsInjective
<1>3. /\ Cardinality(Duping(f)) <= Cardinality(Descriptors(f))
      /\ Cardinality(Duping(f)) = Cardinality(Descriptors(f))
           => g \in Surjection(Duping(f), Descriptors(f))
  BY <1>2, FiniteCounts, FS_Injection
<1>4. ASSUME NEW d \in Descriptors(f), g \in Surjection(Duping(f), Descriptors(f))
      PROVE FALSE
  <2>1. \A x \in Descriptors(f) : \E p \in Duping(f) : x = <<p, one(p)>>
    BY <1>4, Zenon DEF Surjection
  <2>2. PICK p \in Duping(f) : d = <<p, one(p)>>
    BY <2>1
  <2>3. PICK fd \in Fd : fd # one(p) /\ ofile[p][fd] = f
    BY Zenon DEF CurInv, Duping
  <2>4. <<p, fd>> \in Descriptors(f)
    BY <1>1, <2>3 DEF Descriptors
  <2>5. PICK q \in Duping(f) : <<p, fd>> = <<q, one(q)>>
    BY <2>1, <2>4
  <2>6. QED
    BY <2>3, <2>5
<1>5. /\ Descriptors(f) # {} => Cardinality(Duping(f)) < Cardinality(Descriptors(f))
      /\ Closing(f) # {} => Cardinality(Closing(f)) > 0
  BY <1>3, <1>4, FiniteCounts, FS_EmptySet
<1>6. ref[f] + Cardinality(Duping(f)) = Cardinality(Descriptors(f)) + Cardinality(Closing(f))
  BY DEF RefCounts
<1>7. ref[f] \in Int
  BY DEF FileTypes
<1>8. QED
  BY <1>3, <1>5, <1>6, <1>7, FiniteCounts

\* A sleeping reader has the read end open, which is then not closed.
LEMMA ReaderOpen ==
  ASSUME FInv, NEW q \in Proc, pc[q] \in Reading
  PROVE readopen
<1>1. PICK fd \in Fd : ofile[q][fd] = "rf"
  BY DEF FInv, FileInv, UseInv
<1>2. "rf" \in File /\ <<q, fd>> \in Descriptors("rf")
  BY <1>1 DEF Descriptors, File
<1>3. ref["rf"] > 0
  BY <1>2, RefPositive DEF FInv, FileInv
<1>4. QED
  BY <1>3, Zenon DEF FInv, FileInv, OpenInv, Open

----------------------------------------------------------------------------
\* dup

\* The count of a set to which an element is added.
LEMMA Grows ==
  ASSUME NEW S, NEW T, NEW x, IsFiniteSet(S), x \notin S, T = S \cup {x}
  PROVE Cardinality(T) = Cardinality(S) + 1
  BY FS_AddElement

\* The count of a set that loses an element.
LEMMA Shrinks ==
  ASSUME NEW S, NEW T, NEW x, IsFiniteSet(S), x \in S, T = S \ {x}
  PROVE Cardinality(T) = Cardinality(S) - 1
  BY FS_RemoveElement

\* What setting one descriptor does to the descriptors of a file.
LEMMA SetDescriptor ==
  ASSUME FileTypes, NEW p \in Proc, NEW m \in Fd, NEW f, NEW g,
         ofile' = [ofile EXCEPT ![p][m] = f]
  PROVE Descriptors(g)' = IF g = f THEN Descriptors(g) \cup {<<p, m>>}
                                   ELSE Descriptors(g) \ {<<p, m>>}
<1> DEFINE x == <<p, m>>
<1>1. \A d \in Proc \X Fd : ofile'[d[1]][d[2]] = IF d = x THEN f ELSE ofile[d[1]][d[2]]
  BY DEF FileTypes
<1>2. x \in Proc \X Fd /\ x[1] = p /\ x[2] = m
  OBVIOUS
<1> HIDE DEF x
<1>3. Descriptors(g)' = IF g = f THEN Descriptors(g) \cup {x} ELSE Descriptors(g) \ {x}
  BY <1>1, <1>2, Zenon DEF Descriptors
<1>4. QED
  BY <1>3 DEF x

\* A file gets a descriptor that was free.
LEMMA AddDescriptor ==
  ASSUME FileTypes, NEW p \in Proc, NEW m \in Fd, NEW f \in File,
         ofile' = [ofile EXCEPT ![p][m] = f], ofile[p][m] = NULL
  PROVE /\ Cardinality(Descriptors(f)') = Cardinality(Descriptors(f)) + 1
        /\ \A g \in File : g # f => Descriptors(g)' = Descriptors(g)
<1>1. \A g \in File : <<p, m>> \notin Descriptors(g)
  BY FileAssumption DEF Descriptors
<1>2. Descriptors(f)' = Descriptors(f) \cup {<<p, m>>}
  BY SetDescriptor, Zenon
<1>3. \A g \in File : g # f => Descriptors(g)' = Descriptors(g) \ {<<p, m>>}
  BY SetDescriptor, Zenon
<1>4. IsFiniteSet(Descriptors(f))
  BY FiniteCounts
<1>5. QED
  BY <1>1, <1>2, <1>3, <1>4, Grows, Zenon

\* A file loses a descriptor.
LEMMA DropDescriptor ==
  ASSUME FileTypes, NEW p \in Proc, NEW m \in Fd, NEW f \in File,
         ofile' = [ofile EXCEPT ![p][m] = NULL], ofile[p][m] = f
  PROVE /\ Cardinality(Descriptors(f)') = Cardinality(Descriptors(f)) - 1
        /\ \A g \in File : g # f => Descriptors(g)' = Descriptors(g)
<1>1. <<p, m>> \in Descriptors(f) /\ \A g \in File : g # f => <<p, m>> \notin Descriptors(g)
  BY DEF Descriptors
<1>2. ASSUME NEW g \in File PROVE Descriptors(g)' = Descriptors(g) \ {<<p, m>>}
  <2>1. g # NULL
    BY FileAssumption
  <2>2. QED
    BY <2>1, SetDescriptor, Zenon
<1>3. IsFiniteSet(Descriptors(f))
  BY FiniteCounts
<1>4. QED
  BY <1>1, <1>2, <1>3, Shrinks

\* sys_dup takes a free descriptor, the lowest.
LEMMA DupStep == ASSUME FInv, NEW p \in Proc, sys_dup(p) PROVE FileInv'
<1> DEFINE n == Lowest(FreeFds(p))
<1>1. PICK fd \in Fd : /\ ofile[p][fd] # NULL
                       /\ cur' = [cur EXCEPT ![p] = ofile[p][fd]]
                       /\ ofile' = [ofile EXCEPT ![p][n] = ofile[p][fd]]
  BY Zenon DEF sys_dup
<1>2. PICK m \in Fd : m = n /\ ofile[p][m] = NULL
  BY LowestIn, FileAssumption DEF sys_dup, FreeFds, Fd
<1> HIDE DEF n
<1>3. PICK f \in File : f = ofile[p][fd]
  BY <1>1 DEF FInv, FileInv, FileTypes
<1>4. m # fd
  BY <1>1, <1>2
<1>5. /\ pc[p] = "user" /\ pc' = [pc EXCEPT ![p] = "dup"]
      /\ UNCHANGED <<ref, kid, fdi, panicked, readopen, writeopen, exists>>
  BY DEF sys_dup, Calls, At, Goto, flags
<1>6. /\ \A q \in Proc : q # p => pc'[q] = pc[q] /\ ofile'[q] = ofile[q] /\ cur'[q] = cur[q]
      /\ pc'[p] = "dup" /\ cur'[p] = f
      /\ ofile'[p] = [ofile[p] EXCEPT ![m] = f]
  BY <1>1, <1>2, <1>3, <1>5 DEF FInv, ProcTypes, FileInv, FileTypes
<1>7. FileTypes'
  BY <1>1, <1>2, <1>3, <1>5 DEF FInv, FileInv, FileTypes
<1>8. UseInv'
  BY <1>6 DEF FInv, FileInv, UseInv, Reading, Writing
<1>9. KidInv'
  BY <1>5, <1>6 DEF FInv, FileInv, FileTypes, KidInv
<1>10. NewInv'
  BY <1>5, <1>6 DEF FInv, FileInv, NewInv
<1>11. CurInv'
  <2>1. ofile'[p][fd] = f /\ ofile'[p][m] = f /\ cur'[p] = f
    BY <1>2, <1>3, <1>4, <1>6 DEF FInv, FileInv, FileTypes
  <2>2. \A q \in Proc : pc'[q] \in {"dup", "close"} \cup Freeing => cur'[q] \in File
    BY <1>6 DEF FInv, FileInv, CurInv
  <2>3. ASSUME NEW q \in Proc, pc'[q] = "dup"
        PROVE \E a, b \in Fd : a # b /\ ofile'[q][a] = cur'[q] /\ ofile'[q][b] = cur'[q]
    <3>1. CASE q = p
      BY <1>4, <2>1, <3>1, Zenon
    <3>2. CASE q # p
      BY <1>6, <2>3, <3>2 DEF FInv, FileInv, CurInv
    <3>3. QED
      BY <3>1, <3>2
  <2>4. QED
    BY <2>2, <2>3 DEF CurInv
<1>12. FreeInv' /\ OpenInv'
  BY <1>5, <1>6, SMTT(30) DEF FInv, FileInv, FreeInv, OpenInv, Open, Freeing
<1>13. RefCounts'
  <2>1. SUFFICES ASSUME NEW g \in File
                 PROVE ref[g] + Cardinality(Duping(g)') =
                       Cardinality(Descriptors(g)') + Cardinality(Closing(g)')
    BY <1>5 DEF FInv, FileInv, RefCounts
  <2>2. ref[g] + Cardinality(Duping(g)) = Cardinality(Descriptors(g)) + Cardinality(Closing(g))
    BY DEF FInv, FileInv, RefCounts
  <2> ref[g] \in Int
    BY DEF FInv, FileInv, FileTypes
  <2> /\ Cardinality(Duping(g)) \in Nat /\ Cardinality(Descriptors(g)) \in Nat
      /\ Cardinality(Closing(g)) \in Nat
    BY FiniteCounts
  <2>3. Closing(g)' = Closing(g)
    BY <1>5, <1>6 DEF Closing
  <2>4. FileTypes /\ ofile' = [ofile EXCEPT ![p][m] = f]
    BY <1>1, <1>2, <1>3 DEF FInv, FileInv
  <2>5. CASE g # f
    <3>1. Descriptors(g)' = Descriptors(g)
      BY <1>2, <2>4, <2>5, AddDescriptor, Zenon
    <3>2. Duping(g)' = Duping(g)
      BY <1>5, <1>6, <2>5 DEF Duping
    <3>3. QED
      BY <2>2, <2>3, <3>1, <3>2
  <2>6. CASE g = f
    <3>1. Cardinality(Descriptors(g)') = Cardinality(Descriptors(g)) + 1
      BY <1>2, <2>4, <2>6, AddDescriptor, Zenon
    <3>2. Duping(g)' = Duping(g) \cup {p} /\ p \notin Duping(g)
      BY <1>5, <1>6, <2>6 DEF Duping
    <3>3. Cardinality(Duping(g)') = Cardinality(Duping(g)) + 1
      BY <3>2, Grows, FiniteCounts
    <3>4. QED
      BY <2>2, <2>3, <3>1, <3>3
  <2>7. QED
    BY <2>5, <2>6
<1>14. QED
  BY <1>7, <1>8, <1>9, <1>10, <1>11, <1>12, <1>13 DEF FileInv

\* RefCounts for one file, with the types of the numbers.
LEMMA Counts ==
  ASSUME FInv, NEW g \in File
  PROVE /\ ref[g] + Cardinality(Duping(g)) = Cardinality(Descriptors(g)) + Cardinality(Closing(g))
        /\ ref[g] \in Int
        /\ Cardinality(Duping(g)) \in Nat /\ Cardinality(Descriptors(g)) \in Nat
        /\ Cardinality(Closing(g)) \in Nat
  BY FiniteCounts DEF FInv, FileInv, RefCounts, FileTypes

\* filedup counts the new descriptor; the file has another one.
LEMMA DupCountStep == ASSUME FInv, NEW p \in Proc, dup_count(p) PROVE FileInv'
<1>1. PICK f \in File : f = cur[p]
  BY DEF FInv, FileInv, CurInv, dup_count, At
<1>2. /\ pc[p] = "dup" /\ pc' = [pc EXCEPT ![p] = "user"]
      /\ cur' = [cur EXCEPT ![p] = NULL]
      /\ ref' = [ref EXCEPT ![f] = @ + 1] /\ panicked' = (ref[f] < 1)
      /\ UNCHANGED <<ofile, kid, fdi, readopen, writeopen, exists>>
  BY <1>1 DEF dup_count, filedup, At, Goto, flags
<1>3. /\ \A q \in Proc : q # p => pc'[q] = pc[q] /\ cur'[q] = cur[q]
      /\ pc'[p] = "user" /\ cur'[p] = NULL
      /\ \A g \in File : ref'[g] = IF g = f THEN ref[g] + 1 ELSE ref[g]
  BY <1>2 DEF FInv, ProcTypes, FileInv, FileTypes
<1>4. ref[f] > 0 /\ ref[f] \in Int
  <2>1. Descriptors(f) # {}
    <3>1. PICK fd \in Fd : ofile[p][fd] = f
      BY <1>1, <1>2 DEF FInv, FileInv, CurInv
    <3>2. <<p, fd>> \in Descriptors(f)
      BY <3>1 DEF Descriptors
    <3>3. QED
      BY <3>2
  <2>2. QED
    BY <2>1, RefPositive DEF FInv, FileInv, FileTypes
<1> ~panicked'
  <2>1. ~(ref[f] < 1)
    BY <1>4
  <2>2. QED
    BY <1>2, <2>1, Zenon
<1>5. FileTypes'
  BY <1>2 DEF FInv, FileInv, FileTypes
<1>6. UseInv'
  BY <1>2, <1>3 DEF FInv, FileInv, UseInv, Reading, Writing
<1>7. KidInv'
  BY <1>2, <1>3 DEF FInv, FileInv, FileTypes, KidInv
<1>8. NewInv'
  BY <1>2, <1>3 DEF FInv, FileInv, NewInv
<1>9. CurInv'
  BY <1>2, <1>3 DEF FInv, FileInv, CurInv, Freeing
<1>10. FreeInv'
  BY <1>2, <1>3, <1>4 DEF FInv, FileInv, FreeInv, CurInv, Freeing
<1>11. OpenInv'
  <2>1. \A g \in File : Open(g)' <=> Open(g)
    BY <1>2, <1>3, <1>4 DEF Open, Freeing
  <2>2. QED
    BY <1>2, <2>1 DEF FInv, FileInv, OpenInv, File, Open
<1>12. RefCounts'
  <2>1. SUFFICES ASSUME NEW g \in File
                 PROVE ref'[g] + Cardinality(Duping(g)') =
                       Cardinality(Descriptors(g)') + Cardinality(Closing(g)')
    BY DEF RefCounts
  <2>2. Descriptors(g)' = Descriptors(g) /\ Closing(g)' = Closing(g)
    BY <1>2, <1>3 DEF Descriptors, Closing
  <2>3. CASE g # f
    <3>1. Duping(g)' = Duping(g)
      BY <1>1, <1>2, <1>3, <2>3 DEF Duping
    <3>2. QED
      BY <1>3, <2>2, <2>3, <3>1, Counts
  <2>4. CASE g = f
    <3>1. Duping(g)' = Duping(g) \ {p} /\ p \in Duping(g)
      BY <1>1, <1>2, <1>3, <2>4 DEF Duping
    <3>2. Cardinality(Duping(g)') = Cardinality(Duping(g)) - 1
      BY <3>1, Shrinks, FiniteCounts
    <3>3. QED
      BY <1>3, <2>2, <2>4, <3>2, Counts
  <2>5. QED
    BY <2>3, <2>4
<1>13. QED
  BY <1>5, <1>6, <1>7, <1>8, <1>9, <1>10, <1>11, <1>12 DEF FileInv

----------------------------------------------------------------------------
\* close

\* sys_close clears the descriptor first.
LEMMA CloseStep == ASSUME FInv, NEW p \in Proc, sys_close(p) PROVE FileInv'
<1>1. PICK fd \in Fd : /\ ofile[p][fd] # NULL
                       /\ cur' = [cur EXCEPT ![p] = ofile[p][fd]]
                       /\ ofile' = [ofile EXCEPT ![p][fd] = NULL]
  BY Zenon DEF sys_close
<1>2. PICK f \in File : f = ofile[p][fd]
  BY <1>1 DEF FInv, FileInv, FileTypes
<1>3. /\ pc[p] = "user" /\ pc' = [pc EXCEPT ![p] = "close"]
      /\ UNCHANGED <<ref, kid, fdi, panicked, readopen, writeopen, exists>>
  BY DEF sys_close, Calls, At, Goto, flags
<1>4. /\ \A q \in Proc : q # p => pc'[q] = pc[q] /\ ofile'[q] = ofile[q] /\ cur'[q] = cur[q]
      /\ pc'[p] = "close" /\ cur'[p] = f
  BY <1>1, <1>2, <1>3 DEF FInv, ProcTypes, FileInv, FileTypes
<1>5. FileTypes'
  BY <1>1, <1>2, <1>3 DEF FInv, FileInv, FileTypes
<1>6. UseInv'
  BY <1>4, SMTT(30) DEF FInv, FileInv, UseInv, Reading, Writing
<1>7. KidInv'
  BY <1>3, <1>4, ZenonT(40) DEF FInv, FileInv, FileTypes, KidInv
<1>8. NewInv'
  BY <1>3, <1>4 DEF FInv, FileInv, NewInv
<1>9. CurInv'
  BY <1>4 DEF FInv, FileInv, CurInv, Freeing
<1>10. FreeInv'
  BY <1>3, <1>4 DEF FInv, FileInv, FreeInv, Freeing
<1>11. OpenInv'
  BY <1>3, <1>4 DEF FInv, FileInv, OpenInv, Open, Freeing
<1>12. RefCounts'
  <2>1. SUFFICES ASSUME NEW g \in File
                 PROVE ref[g] + Cardinality(Duping(g)') =
                       Cardinality(Descriptors(g)') + Cardinality(Closing(g)')
    BY <1>3 DEF FInv, FileInv, RefCounts
  <2>2. Duping(g)' = Duping(g)
    BY <1>3, <1>4 DEF Duping
  <2>3. FileTypes
    BY DEF FInv, FileInv
  <2>4. CASE g # f
    <3>1. Descriptors(g)' = Descriptors(g)
      BY <1>1, <1>2, <2>3, <2>4, DropDescriptor, Zenon
    <3>2. Closing(g)' = Closing(g)
      BY <1>3, <1>4, <2>4 DEF Closing
    <3>3. QED
      BY <2>2, <3>1, <3>2, Counts
  <2>5. CASE g = f
    <3>1. Cardinality(Descriptors(g)') = Cardinality(Descriptors(g)) - 1
      BY <1>1, <1>2, <2>3, <2>5, DropDescriptor, Zenon
    <3>2. Closing(g)' = Closing(g) \cup {p} /\ p \notin Closing(g)
      BY <1>3, <1>4, <2>5 DEF Closing
    <3>3. Cardinality(Closing(g)') = Cardinality(Closing(g)) + 1
      BY <3>2, Grows, FiniteCounts
    <3>4. QED
      BY <2>2, <3>1, <3>3, Counts
  <2>6. QED
    BY <2>4, <2>5
<1>13. QED
  BY <1>5, <1>6, <1>7, <1>8, <1>9, <1>10, <1>11, <1>12 DEF FileInv

\* fileclose gives the reference back; who drops the last one goes on to pipeclose.
LEMMA CloseCountStep == ASSUME FInv, NEW p \in Proc, close_count(p) PROVE FileInv'
<1>1. PICK f \in File : f = cur[p]
  BY DEF FInv, FileInv, CurInv, close_count, At
<1>2. /\ pc[p] = "close"
      /\ pc' = [pc EXCEPT ![p] = IF ref[f] = 1 THEN "pipeclose" ELSE "user"]
      /\ cur' = [cur EXCEPT ![p] = IF ref[f] = 1 THEN f ELSE NULL]
      /\ ref' = [ref EXCEPT ![f] = @ - 1] /\ panicked' = (ref[f] < 1)
      /\ UNCHANGED <<ofile, kid, fdi, readopen, writeopen, exists>>
  BY <1>1 DEF close_count, fileclose, Last, At, Goto, flags, FInv, FileInv, FileTypes
<1>3. /\ \A q \in Proc : q # p => pc'[q] = pc[q] /\ cur'[q] = cur[q]
      /\ pc'[p] = IF ref[f] = 1 THEN "pipeclose" ELSE "user"
      /\ cur'[p] = IF ref[f] = 1 THEN f ELSE NULL
      /\ \A g \in File : ref'[g] = IF g = f THEN ref[g] - 1 ELSE ref[g]
  BY <1>2 DEF FInv, ProcTypes, FileInv, FileTypes
<1>4. ref[f] > 0 /\ ref[f] \in Int
  <2>1. p \in Closing(f)
    BY <1>1, <1>2 DEF Closing
  <2>2. QED
    BY <2>1, RefPositive DEF FInv, FileInv, FileTypes
<1> ~panicked'
  <2>1. ~(ref[f] < 1)
    BY <1>4
  <2>2. QED
    BY <1>2, <2>1, Zenon
<1>5. FileTypes'
  BY <1>2 DEF FInv, FileInv, FileTypes
<1>6. UseInv'
  BY <1>2, <1>3 DEF FInv, FileInv, UseInv, Reading, Writing
<1>7. KidInv'
  BY <1>2, <1>3 DEF FInv, FileInv, FileTypes, KidInv
<1>8. NewInv'
  BY <1>2, <1>3 DEF FInv, FileInv, NewInv
<1>9. CurInv'
  BY <1>2, <1>3 DEF FInv, FileInv, CurInv, Freeing
<1>10. FreeInv'
  BY <1>2, <1>3, <1>4, SMTT(30) DEF FInv, FileInv, FreeInv, CurInv, Freeing
<1>11. OpenInv'
  <2>1. \A g \in File : Open(g)' <=> Open(g)
    BY <1>1, <1>2, <1>3, <1>4 DEF Open, Freeing
  <2>2. QED
    BY <1>2, <2>1 DEF FInv, FileInv, OpenInv, File, Open
<1>12. RefCounts'
  <2>1. SUFFICES ASSUME NEW g \in File
                 PROVE ref'[g] + Cardinality(Duping(g)') =
                       Cardinality(Descriptors(g)') + Cardinality(Closing(g)')
    BY DEF RefCounts
  <2>2. Descriptors(g)' = Descriptors(g) /\ Duping(g)' = Duping(g)
    BY <1>2, <1>3 DEF Descriptors, Duping
  <2>3. CASE g # f
    <3>1. Closing(g)' = Closing(g)
      BY <1>1, <1>2, <1>3, <2>3 DEF Closing
    <3>2. QED
      BY <1>3, <2>2, <2>3, <3>1, Counts
  <2>4. CASE g = f
    <3>1. Closing(g)' = Closing(g) \ {p} /\ p \in Closing(g)
      BY <1>1, <1>2, <1>3, <2>4 DEF Closing
    <3>2. Cardinality(Closing(g)') = Cardinality(Closing(g)) - 1
      BY <3>1, Shrinks, FiniteCounts
    <3>3. QED
      BY <1>3, <2>2, <2>4, <3>2, Counts
  <2>5. QED
    BY <2>3, <2>4
<1>13. QED
  BY <1>5, <1>6, <1>7, <1>8, <1>9, <1>10, <1>11, <1>12 DEF FileInv

----------------------------------------------------------------------------
\* pipe

\* sys_pipe: no reference is left of the last pipe, so that all descriptors are
\* free, nobody is in a call on it, and nobody is closing it.
LEMMA NoUsers ==
  ASSUME FInv, ref["rf"] = 0, ref["wf"] = 0, ~exists
  PROVE /\ \A q \in Proc, fd \in Fd : ofile[q][fd] = NULL
        /\ \A f \in File : Descriptors(f) = {} /\ Closing(f) = {} /\ Duping(f) = {}
        /\ \A q \in Proc : pc[q] \notin {"dup", "close"} \cup Freeing \cup PipePC
<1>1. ASSUME NEW f \in File PROVE Descriptors(f) = {} /\ Closing(f) = {}
  <2>1. ref[f] = 0
    BY DEF File
  <2>2. QED
    BY <2>1, RefPositive DEF FInv, FileInv
<1>2. ASSUME NEW q \in Proc, NEW fd \in Fd PROVE ofile[q][fd] = NULL
  <2>1. ofile[q][fd] \in File \cup {NULL}
    BY DEF FInv, FileInv, FileTypes
  <2>2. \A f \in File : <<q, fd>> \notin Descriptors(f)
    BY <1>1
  <2>3. QED
    BY <2>1, <2>2 DEF Descriptors
<1>3. ASSUME NEW f \in File PROVE Duping(f) = {}
  BY <1>2, FileAssumption, ZenonT(40) DEF FInv, FileInv, CurInv, Duping, Fd
<1>4. ASSUME NEW q \in Proc PROVE pc[q] \notin {"dup", "close"}
  BY <1>1, <1>3, Zenon DEF FInv, FileInv, CurInv, Closing, Duping
<1>5. ASSUME NEW q \in Proc PROVE pc[q] \notin Freeing
  BY Zenon DEF FInv, FileInv, CurInv, OpenInv, Open, File, Freeing
<1>6. ASSUME NEW q \in Proc PROVE pc[q] \notin PipePC
  <2>1. PipePC = Reading \cup Writing
    BY DEF PipePC, Reading, Writing
  <2>2. "rf" # NULL /\ "wf" # NULL
    BY FileAssumption DEF File
  <2>3. QED
    BY <1>2, <2>1, <2>2, Zenon DEF FInv, FileInv, UseInv
<1>7. QED
  BY <1>1, <1>2, <1>3, <1>4, <1>5, <1>6

\* sys_pipe hands out the two ends of a new pipe, with one reference each.
LEMMA PipeStepFiles == ASSUME FInv, NEW p \in Proc, sys_pipe(p) PROVE FileInv'
<1>1. ref["rf"] = 0 /\ ref["wf"] = 0 /\ ~exists
  BY DEF sys_pipe
<1>2. /\ \A q \in Proc, fd \in Fd : ofile[q][fd] = NULL
      /\ \A f \in File : Descriptors(f) = {} /\ Closing(f) = {} /\ Duping(f) = {}
      /\ \A q \in Proc : pc[q] \notin {"dup", "close"} \cup Freeing \cup PipePC
  BY <1>1, NoUsers
<1>3. FreeFds(p) = Fd
  BY <1>2 DEF FreeFds
<1>4. PICK a \in Fd : a = Lowest(FreeFds(p))
  <2>1. Fd \subseteq Nat /\ 0 \in Fd
    BY FileAssumption DEF Fd
  <2>2. QED
    BY <1>3, <2>1, LowestIn, Zenon
<1>5. PICK b \in Fd : b # a /\ b = Lowest(FreeFds(p) \ {a})
  <2>1. Fd \ {a} \subseteq Nat /\ Fd \ {a} # {}
    <3>1. 0 \in Fd /\ 1 \in Fd /\ 0 # 1
      BY FileAssumption DEF Fd
    <3>2. QED
      BY <3>1 DEF Fd
  <2>2. QED
    BY <1>3, <2>1, LowestIn
<1>6. /\ ofile' = [ofile EXCEPT ![p][a] = "rf", ![p][b] = "wf"]
      /\ ref' = [f \in File |-> 1] /\ readopen' = TRUE /\ writeopen' = TRUE /\ exists' = TRUE
      /\ pc[p] = "user" /\ ~panicked
      /\ UNCHANGED <<pc, cur, kid, fdi, panicked>>
  BY <1>4, <1>5 DEF sys_pipe, pipealloc, Calls, At
<1>7. /\ \A q \in Proc : q # p => ofile'[q] = ofile[q]
      /\ \A fd \in Fd : ofile'[p][fd] = IF fd = a THEN "rf" ELSE IF fd = b THEN "wf" ELSE NULL
  BY <1>2, <1>5, <1>6 DEF FInv, FileInv, FileTypes
<1>8. FileTypes'
  BY <1>6 DEF FInv, FileInv, FileTypes, File
<1>9. UseInv'
  <2>1. PipePC = Reading \cup Writing
    BY DEF PipePC, Reading, Writing
  <2>2. QED
    BY <1>2, <1>6, <2>1 DEF UseInv
<1>10. KidInv'
  BY <1>6 DEF FInv, FileInv, KidInv
<1>11. NewInv'
  BY <1>6, <1>7 DEF FInv, FileInv, NewInv
<1>12. CurInv' /\ FreeInv'
  BY <1>2, <1>6 DEF CurInv, FreeInv
<1>13. OpenInv'
  <2>1. ref'["rf"] > 0 /\ ref'["wf"] > 0
    BY <1>6 DEF File
  <2>2. Open("rf")' /\ Open("wf")'
    BY <2>1 DEF Open
  <2>3. QED
    BY <1>6, <2>2, Zenon DEF OpenInv, Open
<1>14. RefCounts'
  <2>1. SUFFICES ASSUME NEW f \in File
                 PROVE ref'[f] + Cardinality(Duping(f)') =
                       Cardinality(Descriptors(f)') + Cardinality(Closing(f)')
    BY <1>6 DEF RefCounts
  <2>2. Duping(f)' = {} /\ Closing(f)' = {}
    BY <1>2, <1>6 DEF Duping, Closing
  <2>3. \E x : Descriptors(f)' = {x}
    <3>1. f # NULL /\ (f = "rf" \/ f = "wf")
      BY FileAssumption DEF File
    <3>2. \A q \in Proc, fd \in Fd : q # p => ofile'[q][fd] # f
      BY <1>2, <1>7, <3>1, ZenonT(40)
    <3>3. CASE f = "rf"
      <4>1. \A fd \in Fd : ofile'[p][fd] = f <=> fd = a
        BY <1>5, <1>7, <3>1, <3>3
      <4>2. Descriptors(f)' = {<<p, a>>}
        BY <3>2, <4>1 DEF Descriptors
      <4>3. QED
        BY <4>2, Zenon
    <3>4. CASE f = "wf"
      <4>1. \A fd \in Fd : ofile'[p][fd] = f <=> fd = b
        BY <1>5, <1>7, <3>1, <3>4
      <4>2. Descriptors(f)' = {<<p, b>>}
        BY <3>2, <4>1 DEF Descriptors
      <4>3. QED
        BY <4>2, Zenon
    <3>5. QED
      BY <3>1, <3>3, <3>4, Zenon
  <2>4. ref'[f] = 1
    BY <1>6
  <2>5. QED
    BY <2>2, <2>3, <2>4, FS_EmptySet, FS_Singleton, Zenon
<1>15. QED
  BY <1>8, <1>9, <1>10, <1>11, <1>12, <1>13, <1>14 DEF FileInv

----------------------------------------------------------------------------
\* fork and exit

\* fork_fd gives the child one more of the parent's descriptors.
LEMMA ForkFdStep == ASSUME FInv, NEW p \in Proc, fork_fd(p) PROVE FileInv'
<1>1. PICK i \in Fd : i = fdi[p] /\ pc[p] = "fork"
  <2>1. pc[p] = "fork" /\ fdi[p] < NOFILE
    BY Zenon DEF fork_fd, At
  <2>2. fdi[p] \in 0 .. NOFILE
    BY Zenon DEF FInv, FileInv, FileTypes
  <2>3. QED
    BY <2>1, <2>2, FileAssumption DEF Fd
<1>2. PICK k \in Proc : k = kid[p] /\ pc[k] = "unborn"
  BY <1>1 DEF FInv, FileInv, KidInv
<1>3. ofile[k][i] = NULL
  <2>1. SUFFICES ASSUME ofile[k][i] # NULL PROVE FALSE
    OBVIOUS
  <2>2. PICK r \in Proc : kid[r] = k /\ i < fdi[r]
    BY <1>2, <2>1 DEF FInv, FileInv, NewInv
  <2>3. r = p
    BY <1>2, <2>2, FileAssumption DEF FInv, FileInv, KidInv
  <2>4. QED
    BY <1>1, <2>2, <2>3, SMTT(30) DEF Fd
<1>4. /\ fdi' = [fdi EXCEPT ![p] = i + 1]
      /\ UNCHANGED <<pc, cur, kid, readopen, writeopen, exists>>
  BY <1>1 DEF fork_fd, pipevars, flags
<1>5. /\ \A q \in Proc : q # p => fdi'[q] = fdi[q]
      /\ fdi'[p] = i + 1 /\ i + 1 \in 0 .. NOFILE
  <2>1. fdi \in [Proc -> 0 .. NOFILE]
    BY Zenon DEF FInv, FileInv, FileTypes
  <2>2. i + 1 \in 0 .. NOFILE
    BY FileAssumption DEF Fd
  <2>3. QED
    BY <1>4, <2>1, <2>2, Zenon
<1>6. KidInv'
  BY <1>1, <1>4, <1>5, Zenon DEF FInv, FileInv, KidInv
<1>7. CASE ofile[p][i] = NULL
  <2>1. UNCHANGED <<ref, ofile, panicked>>
    BY <1>1, <1>7 DEF fork_fd
  <2>2. FileTypes'
    BY <1>4, <1>5, <2>1 DEF FInv, FileInv, FileTypes
  <2>3. UseInv' /\ CurInv' /\ FreeInv' /\ OpenInv'
    <3>1. UseInv' /\ CurInv'
      BY <1>4, <2>1, Zenon DEF FInv, FileInv, UseInv, CurInv
    <3>2. FreeInv'
      BY <1>4, <2>1, Zenon DEF FInv, FileInv, FreeInv
    <3>3. OpenInv'
      BY <1>4, <2>1, Zenon DEF FInv, FileInv, OpenInv, Open
    <3>4. QED
      BY <3>1, <3>2, <3>3, Zenon
  <2>4. NewInv'
    <3>1. \A q \in Proc, fd \in Fd : fd < fdi[q] => fd < fdi'[q]
      BY <1>1, <1>5 DEF Fd
    <3>2. QED
      BY <1>4, <2>1, <3>1, ZenonT(40) DEF FInv, FileInv, NewInv
  <2>5. RefCounts'
    BY <1>4, <2>1, Zenon DEF FInv, FileInv, RefCounts, Descriptors, Closing, Duping
  <2>6. QED
    BY <1>6, <2>2, <2>3, <2>4, <2>5 DEF FileInv
<1>8. CASE ofile[p][i] # NULL
  <2>1. PICK f \in File : f = ofile[p][i]
    BY <1>8 DEF FInv, FileInv, FileTypes
  <2>2. /\ ref' = [ref EXCEPT ![f] = @ + 1] /\ panicked' = (ref[f] < 1)
        /\ ofile' = [ofile EXCEPT ![k][i] = f]
    BY <1>1, <1>2, <1>8, <2>1, Zenon DEF fork_fd, filedup
  <2>3. ref[f] > 0
    <3>1. <<p, i>> \in Descriptors(f)
      BY <2>1 DEF Descriptors
    <3>2. QED
      BY <3>1, RefPositive DEF FInv, FileInv
  <2> ref[f] \in Int /\ \A g \in File : ref[g] \in Int
    BY DEF FInv, FileInv, FileTypes
  <2>4. /\ \A g \in File : g # f => ref'[g] = ref[g]
        /\ ref'[f] = ref[f] + 1
    BY <2>2 DEF FInv, FileInv, FileTypes
  <2>5. /\ \A q \in Proc : q # k => ofile'[q] = ofile[q]
        /\ \A fd \in Fd : fd # i => ofile'[k][fd] = ofile[k][fd]
        /\ ofile'[k][i] = f
    BY <2>2 DEF FInv, FileInv, FileTypes
  <2>6. FileTypes'
    BY <1>4, <1>5, <2>2 DEF FInv, FileInv, FileTypes
  <2>7. UseInv'
    <3>1. \A q \in Proc : pc[q] \in Reading \cup Writing => q # k
      BY <1>2 DEF Reading, Writing
    <3>2. UseInv
      BY Zenon DEF FInv, FileInv
    <3>3. QED
      BY <1>4, <2>5, <3>1, <3>2 DEF UseInv
  <2>8. NewInv'
    <3>1. \A q \in Proc, fd \in Fd : fd < fdi[q] => fd < fdi'[q]
      BY <1>1, <1>5 DEF Fd
    <3>2. i < fdi'[p] /\ kid'[p] = k
      BY <1>2, <1>4, <1>5 DEF Fd
    <3>3. ASSUME NEW q \in Proc, NEW fd \in Fd, ofile'[q][fd] # NULL
          PROVE ofile[q][fd] # NULL \/ (q = k /\ fd = i)
      <4>1. q # k => ofile'[q][fd] = ofile[q][fd]
        BY <2>5, Zenon
      <4>2. fd # i => ofile'[k][fd] = ofile[k][fd]
        BY <2>5
      <4>3. QED
        BY <3>3, <4>1, <4>2
    <3>4. ASSUME NEW q \in Proc, NEW fd \in Fd, pc'[q] = "unborn", ofile'[q][fd] # NULL
          PROVE \E r \in Proc : kid'[r] = q /\ fd < fdi'[r]
      <4>1. CASE q = k /\ fd = i
        BY <3>2, <4>1, Zenon
      <4>2. CASE ofile[q][fd] # NULL
        <5>1. PICK r \in Proc : kid[r] = q /\ fd < fdi[r]
          BY <1>4, <3>4, <4>2, Zenon DEF FInv, FileInv, NewInv
        <5>2. QED
          BY <1>4, <3>1, <5>1, Zenon
      <4>3. QED
        BY <3>3, <3>4, <4>1, <4>2, Zenon
    <3>5. QED
      BY <3>4, Zenon DEF NewInv
  <2>9. CurInv'
    <3>1. \A q \in Proc : pc[q] = "dup" => q # k
      BY <1>2
    <3>2. CurInv
      BY Zenon DEF FInv, FileInv
    <3>3. QED
      BY <1>4, <2>5, <3>1, <3>2 DEF CurInv
  <2>10. FreeInv'
    <3>1. FreeInv /\ CurInv
      BY Zenon DEF FInv, FileInv
    <3>2. ASSUME NEW q \in Proc, pc[q] \in Freeing PROVE ref'[cur[q]] = 0
      <4>1. ref[cur[q]] = 0 /\ cur[q] \in File
        BY <3>1, <3>2, Zenon DEF FreeInv, CurInv
      <4>2. cur[q] # f
        BY <2>3, <4>1
      <4>3. QED
        BY <2>4, <4>1, <4>2, Zenon
    <3>3. QED
      BY <1>4, <3>1, <3>2, Zenon DEF FreeInv
  <2>11. OpenInv'
    <3>1. \A g \in File : ref'[g] > 0 <=> ref[g] > 0
      BY <2>3, <2>4
    <3>2. \A g \in File : Open(g)' <=> Open(g)
      BY <1>4, <3>1, Zenon DEF Open
    <3>3. QED
      BY <1>4, <3>2, Zenon DEF FInv, FileInv, OpenInv, Open, File
  <2>12. ~panicked'
    <3>1. ~(ref[f] < 1)
      BY <2>3
    <3>2. QED
      BY <2>2, <3>1, Zenon
  <2>13. RefCounts'
    <3>1. SUFFICES ASSUME NEW g \in File
                   PROVE ref'[g] + Cardinality(Duping(g)') =
                         Cardinality(Descriptors(g)') + Cardinality(Closing(g)')
      BY <2>12 DEF RefCounts
    <3>2. ref[g] + Cardinality(Duping(g)) = Cardinality(Descriptors(g)) + Cardinality(Closing(g))
      BY DEF FInv, FileInv, RefCounts
    <3>3. Closing(g)' = Closing(g) /\ Duping(g)' = Duping(g)
      BY <1>4 DEF Closing, Duping
    <3>4. /\ Cardinality(Descriptors(f)') = Cardinality(Descriptors(f)) + 1
          /\ g # f => Descriptors(g)' = Descriptors(g)
      BY <1>3, <2>2, AddDescriptor, Zenon DEF FInv, FileInv
    <3>5. /\ Cardinality(Duping(g)) \in Nat /\ Cardinality(Descriptors(g)) \in Nat
          /\ Cardinality(Closing(g)) \in Nat
      BY FiniteCounts
    <3>6. CASE g # f
      BY <2>4, <3>2, <3>3, <3>4, <3>6, Zenon
    <3>7. CASE g = f
      BY <2>4, <3>2, <3>3, <3>4, <3>5, <3>7, SMTT(30)
    <3>8. QED
      BY <3>6, <3>7
  <2>14. QED
    BY <1>6, <2>6, <2>7, <2>8, <2>9, <2>10, <2>11, <2>13 DEF FileInv
<1>9. QED
  BY <1>7, <1>8

\* exit closes the lowest descriptor that is open; who drops the last reference
\* goes on to pipeclose.
LEMMA ExitCloseStep == ASSUME FInv, NEW p \in Proc, exit_close(p) PROVE FileInv'
<1>1. PICK m \in Fd : m = Lowest(Fd \ FreeFds(p)) /\ ofile[p][m] # NULL
  <2>1. Fd \ FreeFds(p) # {} /\ Fd \ FreeFds(p) \subseteq Nat
    BY FileAssumption DEF exit_close, FreeFds, Fd
  <2>2. Lowest(Fd \ FreeFds(p)) \in Fd \ FreeFds(p)
    BY <2>1, LowestIn
  <2>3. QED
    BY <2>2 DEF FreeFds
<1>2. PICK f \in File : f = ofile[p][m]
  BY <1>1 DEF FInv, FileInv, FileTypes
<1>3. /\ pc[p] = "exit"
      /\ pc' = [pc EXCEPT ![p] = IF ref[f] = 1 THEN "exit_pipeclose" ELSE "exit"]
      /\ cur' = [cur EXCEPT ![p] = IF ref[f] = 1 THEN f ELSE NULL]
      /\ ref' = [ref EXCEPT ![f] = @ - 1] /\ panicked' = (ref[f] < 1)
      /\ ofile' = [ofile EXCEPT ![p][m] = NULL]
      /\ UNCHANGED <<kid, fdi, readopen, writeopen, exists>>
  BY <1>1, <1>2, Zenon DEF exit_close, fileclose, Last, At, Goto, flags
<1>4. /\ \A q \in Proc : q # p => pc'[q] = pc[q] /\ cur'[q] = cur[q] /\ ofile'[q] = ofile[q]
      /\ pc'[p] = IF ref[f] = 1 THEN "exit_pipeclose" ELSE "exit"
      /\ cur'[p] = IF ref[f] = 1 THEN f ELSE NULL
      /\ \A g \in File : ref'[g] = IF g = f THEN ref[g] - 1 ELSE ref[g]
  BY <1>3, Zenon DEF FInv, ProcTypes, FileInv, FileTypes
<1>5. ref[f] > 0 /\ ref[f] \in Int
  <2>1. <<p, m>> \in Descriptors(f)
    BY <1>2, Zenon DEF Descriptors
  <2>2. QED
    BY <2>1, RefPositive DEF FInv, FileInv, FileTypes
<1> ~panicked'
  <2>1. ~(ref[f] < 1)
    BY <1>5
  <2>2. QED
    BY <1>3, <2>1, Zenon
<1>6. FileTypes'
  BY <1>3 DEF FInv, FileInv, FileTypes
<1>a. /\ pc'[p] \notin Reading \cup Writing \cup {"dup", "close", "fork", "unborn"}
      /\ pc[p] \notin Freeing \cup {"dup", "close", "fork", "unborn"}
      /\ pc'[p] \in Freeing => ref[f] = 1 /\ cur'[p] = f
      /\ ref[f] = 1 => pc'[p] \in Freeing
  BY <1>3, <1>4 DEF Reading, Writing, Freeing
<1>7. UseInv'
  <2>1. UseInv
    BY Zenon DEF FInv, FileInv
  <2>2. pc'[p] \notin Reading /\ pc'[p] \notin Writing
    BY <1>a, Zenon
  <2>3. QED
    BY <1>4, <2>1, <2>2 DEF UseInv
<1>8. KidInv'
  <2>1. KidInv
    BY Zenon DEF FInv, FileInv
  <2>2. pc[p] # "fork" /\ pc'[p] # "fork" /\ pc[p] # "unborn" /\ pc'[p] # "unborn"
    BY <1>a, Zenon
  <2>3. kid' = kid /\ fdi' = fdi
    BY <1>3, Zenon
  <2>4. \A q \in Proc : (pc'[q] = "fork" <=> pc[q] = "fork") /\ (pc[q] = "unborn" => pc'[q] = "unborn")
    BY <1>4, <2>2, Zenon
  <2>5. QED
    BY <2>1, <2>3, <2>4, Zenon DEF KidInv
<1>9. NewInv'
  <2>1. \A q \in Proc : pc'[q] = "unborn" => pc[q] = "unborn" /\ ofile'[q] = ofile[q]
    BY <1>4, Zenon
  <2>2. QED
    BY <1>3, <2>1 DEF FInv, FileInv, NewInv
<1>10. CurInv'
  <2>1. CurInv
    BY Zenon DEF FInv, FileInv
  <2>2. pc'[p] # "dup" /\ pc'[p] # "close" /\ (pc'[p] \in Freeing => cur'[p] \in File)
    BY <1>a, Zenon
  <2>3. QED
    BY <1>4, <2>1, <2>2 DEF CurInv
<1>11. FreeInv'
  <2>1. FreeInv /\ CurInv
    BY Zenon DEF FInv, FileInv
  <2>2. ASSUME NEW q \in Proc, q # p, pc[q] \in Freeing
        PROVE cur[q] # f /\ ref'[cur[q]] = 0
    <3>1. ref[cur[q]] = 0 /\ cur[q] \in File
      BY <2>1, <2>2, Zenon DEF FreeInv, CurInv
    <3>2. cur[q] # f
      BY <1>5, <3>1
    <3>3. QED
      BY <1>4, <3>1, <3>2, Zenon
  <2>3. pc'[p] \in Freeing => ref'[cur'[p]] = 0 /\ cur'[p] = f
    <3>1. ref'[f] = ref[f] - 1
      BY <1>4, Zenon
    <3>2. QED
      BY <1>a, <3>1
  <2>4. QED
    BY <1>4, <2>1, <2>2, <2>3 DEF FreeInv
<1>12. OpenInv'
  <2>1. \A g \in File : Open(g)' <=> Open(g)
    BY <1>3, <1>4, <1>5 DEF Open, Freeing
  <2>2. QED
    BY <1>3, <2>1, Zenon DEF FInv, FileInv, OpenInv, File, Open
<1>13. RefCounts'
  <2>1. SUFFICES ASSUME NEW g \in File
                 PROVE ref'[g] + Cardinality(Duping(g)') =
                       Cardinality(Descriptors(g)') + Cardinality(Closing(g)')
    BY DEF RefCounts
  <2>2. Closing(g)' = Closing(g) /\ Duping(g)' = Duping(g)
    <3>1. /\ pc[p] # "close" /\ pc[p] # "dup"
          /\ pc'[p] # "close" /\ pc'[p] # "dup"
      BY <1>a, Zenon
    <3>2. QED
      BY <1>4, <3>1, Zenon DEF Closing, Duping
  <2>3. /\ Cardinality(Descriptors(f)') = Cardinality(Descriptors(f)) - 1
        /\ g # f => Descriptors(g)' = Descriptors(g)
    BY <1>2, <1>3, DropDescriptor, Zenon DEF FInv, FileInv
  <2>4. CASE g # f
    BY <1>4, <2>2, <2>3, <2>4, Counts, Zenon
  <2>5. CASE g = f
    <3>1. Cardinality(Descriptors(g)') = Cardinality(Descriptors(g)) - 1
      BY <2>3, <2>5, Zenon
    <3>2. ref'[g] = ref[g] - 1
      BY <1>4, <2>5, Zenon
    <3>3. QED
      BY <2>2, <3>1, <3>2, Counts, SMTT(30)
  <2>6. QED
    BY <2>4, <2>5
<1>14. QED
  BY <1>6, <1>7, <1>8, <1>9, <1>10, <1>11, <1>12, <1>13 DEF FileInv

----------------------------------------------------------------------------
\* The invariant holds

\* At boot no file is open and no pipe exists.
LEMMA FInvInit == Init => FInv
<1> SUFFICES ASSUME Init PROVE FInv
  OBVIOUS
<1>1. ProcTypes
  BY FileAssumption DEF Init, SleepInit, ProcTypes, FilePC
<1>2. FileTypes
  BY FileAssumption DEF Init, FileTypes
<1>3. \A p \in Proc : pc[p] \in {"user", "unborn"}
  BY Zenon DEF Init
<1>4. UseInv /\ KidInv /\ CurInv /\ FreeInv
  BY <1>3 DEF Init, UseInv, KidInv, CurInv, FreeInv, Reading, Writing, Freeing
<1>5. NewInv
  BY DEF Init, NewInv
<1>6. OpenInv
  <2>1. ~Open("rf") /\ ~Open("wf")
    BY <1>3 DEF Init, Open, Freeing, File
  <2>2. QED
    BY <2>1, Zenon DEF Init, OpenInv, Open
<1>7. RefCounts
  <2>1. ASSUME NEW f \in File PROVE Descriptors(f) = {} /\ Closing(f) = {} /\ Duping(f) = {} /\ ref[f] = 0
    BY <1>3, FileAssumption, Zenon DEF Init, Descriptors, Closing, Duping
  <2>2. QED
    BY <2>1, FS_EmptySet, Zenon DEF RefCounts, Init
<1>8. RingTypes
  BY SizeAssumption DEF Init, RingTypes, Byte
<1>9. LockInv /\ SleepInv /\ WaitInv /\ SleepsForAReason
  BY <1>3, NoneAssumption DEF Init, SleepInit, LockInv, SleepInv, WaitInv, SleepsForAReason, Holding
<1>10. RingInv
  <2>1. (0 - 0 + WORD) % WORD = 0
    BY SizeAssumption
  <2>2. QED
    BY <2>1, SizeAssumption DEF Init, RingInv, Unread
<1>11. QED
  BY <1>1, <1>2, <1>4, <1>5, <1>6, <1>7, <1>8, <1>9, <1>10 DEF FInv, FileInv, PipeInv

\* Every step keeps the invariant.
LEMMA FInvStep == FInv /\ [Next]_vars => FInv'
<1> SUFFICES ASSUME FInv, [Next]_vars PROVE FInv'
  OBVIOUS
<1>1. CASE UNCHANGED vars
  <2>1. UNCHANGED <<nread, nwrite, data, readopen, writeopen, exists, plock, state, chan, killed, pc, todo,
                    ref, ofile, cur, kid, fdi, panicked>>
    BY <1>1 DEF vars, pipevars, files, counters, flags, sleepers
  <2>2. ProcTypes' /\ RingTypes' /\ FileTypes'
    BY <2>1, Zenon DEF FInv, FileInv, PipeInv, ProcTypes, RingTypes, FileTypes
  <2>3. UseInv' /\ KidInv' /\ NewInv' /\ CurInv' /\ FreeInv' /\ OpenInv'
    <3>1. UseInv' /\ KidInv'
      BY <2>1, Zenon DEF FInv, FileInv, UseInv, KidInv
    <3>2. NewInv' /\ CurInv'
      BY <2>1, Zenon DEF FInv, FileInv, NewInv, CurInv
    <3>3. FreeInv' /\ OpenInv'
      BY <2>1, Zenon DEF FInv, FileInv, FreeInv, OpenInv, Open
    <3>4. QED
      BY <3>1, <3>2, <3>3, Zenon
  <2>4. RefCounts'
    BY <2>1, Zenon DEF FInv, FileInv, RefCounts, Descriptors, Closing, Duping
  <2>5. LockInv' /\ SleepInv' /\ WaitInv' /\ RingInv' /\ SleepsForAReason'
    BY <2>1, Zenon DEF FInv, PipeInv, LockInv, SleepInv, WaitInv, RingInv, SleepsForAReason, Full, Empty, Unread
  <2>6. QED
    BY <2>2, <2>3, <2>4, <2>5 DEF FInv, FileInv, PipeInv
<1>2. CASE Next
  <2>1. PICK p \in Proc : KernelStep(p) \/ UserCall(p) \/ kill_proc(p)
    BY <1>2 DEF Next
  <2>2. CASE PipeStep(p) /\ UNCHANGED files
    BY <2>2, ReaderOpen, PipeStepStep, PipeStepFrame DEF FInv
  <2>3. CASE sys_pipe(p)
    <3>1. \A q \in Proc : pc[q] \notin PipePC
      BY <2>3, NoUsers, Zenon DEF sys_pipe
    <3>2. QED
      BY <2>3, <3>1, PipeStepFiles, MakePipeFrame DEF FInv
  <2>4. CASE close_pipe(p)
    BY <2>4, ClosePipeStep, ClosePipeFrame DEF FInv
  <2>5. CASE kill_proc(p)
    BY <2>5, ExitSteps, KillFrame DEF FInv
  <2>6. CASE \/ fileread(p) \/ filewrite(p) \/ sys_dup(p) \/ dup_count(p) \/ sys_close(p) \/ close_count(p)
             \/ fork(p) \/ fork_fd(p) \/ fork_run(p) \/ exit(p) \/ exit_close(p) \/ exit_zombie(p)
    <3>1. FileInv'
      BY ZenonT(40), <2>6, CallStep, DupStep, DupCountStep, CloseStep, CloseCountStep, ForkStep, ForkFdStep,
         ForkRunStep, ExitSteps, ExitCloseStep
    <3>2. QED
      BY <2>6, <3>1, FrameSteps DEF FInv
  <2>7. QED
    BY <2>1, <2>2, <2>3, <2>4, <2>5, <2>6 DEF KernelStep, UserCall
<1>3. QED
  BY <1>1, <1>2

\* The invariant holds.
LEMMA FInvHolds == Spec => []FInv
  BY FInvInit, FInvStep, PTL DEF Spec

\* A reference count is the number of descriptors, but for the close and the dup in
\* progress, and filedup and fileclose never panic: for any number of processes,
\* descriptors and calls.
THEOREM RefCountsHolds == Spec => []RefCounts
<1>1. FInv => RefCounts
  BY DEF FInv, FileInv
<1>2. QED
  BY <1>1, FInvHolds, PTL

\* Nobody sleeps on the pipe without a reason, for any size of the buffer and of
\* the counters that wrap: sleep() and wakeup() lose no wakeup.
THEOREM SleepsForAReasonHolds == Spec => []SleepsForAReason
<1>1. FInv => SleepsForAReason
  BY DEF FInv, PipeInv
<1>2. QED
  BY <1>1, FInvHolds, PTL

\* The pipe implements the bounded FIFO channel, for any size of the buffer and of
\* the counters that wrap, any number of readers and writers, and whatever opens,
\* closes, forks, exits and kills happen meanwhile.
THEOREM FifoRefinement == Spec => ImplementsFifo
<1>1. Init => Abs!Init
  BY DEF Init, Abs!Init
<1>2. QED
  BY <1>1, FifoStep, FInvHolds, PTL DEF Spec, ImplementsFifo, Abs!Spec, bar
============================================================================
