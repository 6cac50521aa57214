------------------------------ MODULE MCFuture ------------------------------
(* Small instances of FuturePeekable for TLC. *)
EXTENDS FuturePeekable

(* A stream of N one-byte characters. *)
PlainText == {[i \in 1..N |-> "ascii"]}
(* Every stream of N bytes. *)
AnyText == [1..N -> Classes]

CapNone == {None}
CapSome == {None, 2}

(* What decides where PeekToString starts, waits and judges. *)
Utf8Next ==
    \/ Arrive \/ Close
    \/ \E want \in 1..MaxWant : peek(want) \/ read(want)
    \/ peek_to_string
    \/ poll \/ drop_future
    \/ poll_peek \/ poll_peek_read \/ poll_read
    \/ peek_to_string_enter \/ grow_peek_buffer \/ peek_whole_read
    \/ interrupted \/ pending

Utf8Spec == Init /\ [][Utf8Next]_vars
=============================================================================
