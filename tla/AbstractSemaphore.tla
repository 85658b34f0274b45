------------------------- MODULE AbstractSemaphore -------------------------
(***************************************************************************)
(* What the semaphore calls promise: sem_wait takes one unit in a single   *)
(* step that is possible only while the value is positive, sem_post gives  *)
(* one unit back in a single step.  No lock, no sleep, no wakeup.          *)
(***************************************************************************)
EXTENDS Integers

CONSTANTS Proc, SemId, NoSem, InitialValue

VARIABLES value,     \* units left of each semaphore
          waiting    \* the semaphore a process waits for, or NoSem

Init ==
  /\ value = [s \in SemId |-> InitialValue[s]]
  /\ waiting = [p \in Proc |-> NoSem]

Request(p, s) ==
  /\ waiting[p] = NoSem
  /\ waiting' = [waiting EXCEPT ![p] = s]
  /\ UNCHANGED value

Take(p) ==
  /\ waiting[p] # NoSem
  /\ value[waiting[p]] > 0
  /\ value' = [value EXCEPT ![waiting[p]] = @ - 1]
  /\ waiting' = [waiting EXCEPT ![p] = NoSem]

Give(p, s) ==
  /\ waiting[p] = NoSem
  /\ value' = [value EXCEPT ![s] = @ + 1]
  /\ UNCHANGED waiting

Next == \E p \in Proc : Take(p) \/ \E s \in SemId : Request(p, s) \/ Give(p, s)

Spec == Init /\ [][Next]_<<value, waiting>>
============================================================================
