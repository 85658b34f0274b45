---------------------------- MODULE AbstractPipe ----------------------------
(***************************************************************************)
(* What a pipe promises: bytes come out in the order they went in, none is *)
(* lost or made up, and no more than Capacity of them are in between.      *)
(***************************************************************************)
EXTENDS Integers, Sequences

CONSTANTS Byte, Capacity

VARIABLE channel    \* the bytes written and not yet read

Init == channel = <<>>

Put == \E b \in Byte : Len(channel) < Capacity /\ channel' = Append(channel, b)

Get == channel # <<>> /\ channel' = Tail(channel)

\* Both ends are closed and the pipe is freed; what was not read is gone.
Drop == channel' = <<>>

Next == Put \/ Get \/ Drop

Spec == Init /\ [][Next]_channel
=============================================================================
