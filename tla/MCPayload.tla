----------------------------- MODULE MCPayload -----------------------------
(* Fields: a byte, a number of two digits, strings of no, one and two bytes. *)
EXTENDS Payload
MCItems ==
    {[kind |-> "u8", val |-> 2], [kind |-> "u32", val |-> 5]}
    \cup {[kind |-> "string", val |-> v] : v \in {<<>>, <<0>>, <<1, 2>>}}
=============================================================================
