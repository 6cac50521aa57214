----------------------------- MODULE ByteStream -----------------------------
(***************************************************************************)
(* The data the models move around.                                        *)
(*                                                                         *)
(* The code never looks at the value of a byte (peek_to_string excepted,   *)
(* see Utf8), so a byte is modelled by WHERE it stands in the stream the   *)
(* inner reader produces: the first byte is 1, the second 2, and so on.    *)
(* A byte that was lost, duplicated, reordered or invented then shows as a *)
(* wrong number.  Zero is the filler Buffer::resize writes.                *)
(***************************************************************************)
EXTENDS Integers, Sequences

Zero == 0

(* The n bytes that follow the first p bytes of the stream. *)
Slice(p, n) == [i \in 1..n |-> p + i]

Smaller(a, b) == IF a <= b THEN a ELSE b
Larger(a, b) == IF a <= b THEN b ELSE a
=============================================================================
