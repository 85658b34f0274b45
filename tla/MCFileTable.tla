---------------------------- MODULE MCFileTable ----------------------------
(* Instances of FileTable for TLC. *)
EXTENDS FileTable

CONSTANTS p1, p2, p3

TwoProcs == {p1, p2}
ThreeProcs == {p1, p2, p3}
============================================================================
