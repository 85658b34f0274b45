-------------------------- MODULE AbstractConsole --------------------------
(***************************************************************************)
(* What the console promises its readers: the line being typed can still   *)
(* be edited and nobody sees it; a line that is complete is read in order, *)
(* once, and a read never runs past the end of a line.                     *)
(***************************************************************************)
EXTENDS Integers, Sequences

CONSTANTS Char, Ends, Capacity

VARIABLES line,     \* typed and not complete
          ready     \* complete and not read

Init == line = <<>> /\ ready = <<>>

Held == Len(ready) + Len(line)

\* A character that ends a line, or fills the buffer, makes the line readable.
Type(c) ==
  /\ Held < Capacity
  /\ IF c \in Ends \/ Held + 1 = Capacity
       THEN ready' = ready \o Append(line, c) /\ line' = <<>>
       ELSE line' = Append(line, c) /\ UNCHANGED ready

Erase == line # <<>> /\ line' = SubSeq(line, 1, Len(line) - 1) /\ UNCHANGED ready

KillLine == line' = <<>> /\ UNCHANGED ready

Take(k) ==
  /\ \A i \in 1 .. k - 1 : ready[i] \notin Ends
  /\ ready' = SubSeq(ready, k + 1, Len(ready))
  /\ UNCHANGED line

Next == (\E c \in Char : Type(c)) \/ Erase \/ KillLine \/ (\E k \in 1 .. Len(ready) : Take(k))

Spec == Init /\ [][Next]_<<line, ready>>
============================================================================
