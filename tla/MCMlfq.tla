------------------------------- MODULE MCMlfq -------------------------------
(* Instances of Mlfq for TLC. *)
EXTENDS Mlfq, TLC

CONSTANTS c1, c2

OneCpu == {c1}
TwoCpus == {c1, c2}
CpuSymmetry == Permutations(CPU)

\* Two levels.
Total2 == [l \in 0 .. 1 |-> <<3, 2>>[l + 1]]
Rr2 == [l \in 0 .. 1 |-> <<2, 1>>[l + 1]]

\* Two levels with the shortest slices.
Total2s == [l \in 0 .. 1 |-> <<1, 1>>[l + 1]]
Rr2s == [l \in 0 .. 1 |-> <<1, 1>>[l + 1]]
=============================================================================
