----------------------------- MODULE MCPeekable -----------------------------
(* Small instances of Peekable for TLC. *)
EXTENDS Peekable

(* A stream of N one-byte characters. *)
PlainText == {[i \in 1..N |-> "ascii"]}
(* Every stream of N bytes. *)
AnyText == [1..N -> Classes]

CapNone == {None}
CapSome == {None, 2}

(* The calls that decide where peek_to_string starts and what it has to     *)
(* judge, without the ones whose answers are the same for every text.  All  *)
(* lengths of the stream are initial states, so nothing needs to arrive.    *)
Utf8Next ==
    \/ \E want \in 1..MaxWant : peek_exact(want) \/ read(want)
    \/ peek_exact_resize \/ peek_exact_read
    \/ peek_to_string \/ grow_peek_buffer \/ peek_to_string_read
    \/ peek_to_interrupted

Utf8Spec == Init /\ [][Utf8Next]_vars
=============================================================================
