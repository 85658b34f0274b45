--------------------------- MODULE MCBufferCache ---------------------------
(* Instances of BufferCache for TLC. *)
EXTENDS BufferCache

CONSTANTS p1, p2, p3

TwoProcs == {p1, p2}
ThreeProcs == {p1, p2, p3}

\* Sector s1 changes; the others can be told from it and from each other.
MCContents(s) == CASE s = "s1" -> {0, 1} [] s = "s2" -> {2} [] s = "s3" -> {3}
============================================================================
