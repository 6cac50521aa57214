--------------------------- MODULE MCInterference ---------------------------
(* Small instances of Interference for TLC. *)
EXTENDS Interference

PlainText == {[i \in 1..N |-> "ascii"]}

CapSome == {None, 2}
=============================================================================
