-------------------------------- MODULE MCVm --------------------------------
(* Instances of Vm for TLC: the free page with the lowest number is taken. *)
EXTENDS Vm

LowestFree(S) == {f \in S : \A g \in S : f <= g}
MCSbrk == {-4, -1, 1, 2}
=============================================================================
