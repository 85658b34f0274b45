---------------------------- MODULE MCSemaphore ----------------------------
(* Instances of Semaphore for TLC. *)
EXTENDS Semaphore

CONSTANTS p1, p2, p3

TwoProcs == {p1, p2}
ThreeProcs == {p1, p2, p3}

OneMutex == <<1>>
============================================================================
