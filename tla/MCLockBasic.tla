---------------------------- MODULE MCLockBasic ----------------------------
(* Instances of LockBasic for TLC. *)
EXTENDS LockBasic

CONSTANTS p1, p2, p3

ThreeThreads == {p1, p2, p3}
OneMutex == <<1>>
============================================================================
