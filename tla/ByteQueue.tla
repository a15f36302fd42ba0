------------------------------ MODULE ByteQueue -------------------------------
(***************************************************************************)
(* What Buffer (src/src/net/Buffer.h) promises its users: a queue of bytes *)
(* that grows at either end and shrinks at either end.  call is the last   *)
(* call with the bytes it took or gave back.                               *)
(***************************************************************************)
EXTENDS Naturals, Sequences

VARIABLES content, call

vars == <<content, call>>

Init ==
    /\ content = <<>>
    /\ call = [op |-> "new", data |-> <<>>]

Append_ ==
    /\ call'.op = "append"
    /\ content' = content \o call'.data

Retrieve ==
    /\ call'.op = "retrieve"
    /\ content = call'.data \o content'

Prepend ==
    /\ call'.op = "prepend"
    /\ content' = call'.data \o content

Unwrite ==
    /\ call'.op = "unwrite"
    /\ content = content' \o call'.data

(* Calls that only move the bytes in memory.                               *)
Reserve ==
    /\ call'.op = "reserve"
    /\ content' = content

Next == Append_ \/ Retrieve \/ Prepend \/ Unwrite \/ Reserve

Spec == Init /\ [][Next]_vars
===============================================================================
