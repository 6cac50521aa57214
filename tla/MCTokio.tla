------------------------------- MODULE MCTokio ------------------------------
(* Small instances of TokioPeekable for TLC. *)
EXTENDS TokioPeekable

(* Text that is whole, text that breaks off, and no text. *)
SomeText ==
    {[i \in 1..N |-> IF i = 1 THEN "lead2" ELSE "cont"],
     [i \in 1..N |-> IF i = N THEN "lead3" ELSE "ascii"],
     [i \in 1..N |-> IF i = N THEN "bad" ELSE "ascii"]}

PlainText == {[i \in 1..N |-> "ascii"]}

CapNone == {None}
CapSome == {None, 2}
=============================================================================
