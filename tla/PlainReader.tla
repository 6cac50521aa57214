----------------------------- MODULE PlainReader ----------------------------
(***************************************************************************)
(* What Read and BufRead ask of any reader, seen by a consumer who never   *)
(* looks ahead: one cursor into a stream.  The wrappers rely on it when    *)
(* they call the reader they wrap (MayRead, inner_fill_buf, ReaderShows),  *)
(* and they are readers themselves: whoever is handed one as a plain       *)
(* reader, another wrapper included, relies on it in turn.                 *)
(*                                                                         *)
(* An action says which answers are allowed, by constraining ret'.         *)
(***************************************************************************)
EXTENDS ByteStream

VARIABLES
    at,     \* bytes the reader has handed out
    shown,  \* bytes beyond at that fill_buf has shown, for consume to pass
    avail,  \* bytes that have arrived
    over,   \* is what has arrived all there is, as far as anyone can tell?
    ret     \* the last answer: [op, st, want, n, out]

vars == <<at, shown, avail, over, ret>>
source == <<avail, over>>

Init == at = 0 /\ shown = 0 /\ ret.op = "none"

Says(op, st) == ret'.op = op /\ ret'.st = st

(* The n bytes that come next have arrived, and these are they. *)
NextBytes(n) == at + n <= avail /\ ret'.n = n /\ ret'.out = Slice(at, n)

AtEnd == at = avail /\ over

(* More of the stream arrives, or its end. *)
Arrive == avail' >= avail /\ UNCHANGED <<at, shown, ret>>

(* read hands out bytes and moves over them, none only at the end; an Err  *)
(* moves nothing.                                                          *)
Read ==
    /\ \/ /\ Says("read", "ok")
          /\ ret'.n <= ret'.want
          /\ NextBytes(ret'.n)
          /\ ret'.n = 0 => ret'.want = 0 \/ AtEnd
          /\ at' = at + ret'.n
       \/ Says("read", "err") /\ at' = at
    /\ shown' = 0

(* fill_buf shows bytes, none only at the end. *)
FillBuf ==
    /\ \/ /\ Says("fill_buf", "ok")
          /\ NextBytes(ret'.n)
          /\ ret'.n = 0 => AtEnd
          /\ shown' = ret'.n
       \/ Says("fill_buf", "err") /\ shown' = 0
    /\ at' = at

(* consume(amt) passes over what was shown. *)
Consume ==
    /\ Says("BufRead_consume", "ok")
    /\ ret'.want <= shown
    /\ at' = at + ret'.want
    /\ shown' = shown - ret'.want

(* The wrapper's own two ways to drop bytes: nothing that has not arrived. *)
Skip ==
    /\ Says("consume", "ok") \/ Says("consume_in_place", "ok")
    /\ at <= at' /\ at' <= avail
    /\ shown' = 0

(* Peeks are answered, calls wait or are given up: the cursor stays. *)
Aside ==
    /\ ret' = ret \/ ret'.op \notin {"read", "fill_buf", "BufRead_consume",
                                     "consume", "consume_in_place"}
    /\ at' = at
    /\ shown' \in {shown, 0}

Next ==
    \/ Arrive
    \/ (Read \/ FillBuf \/ Consume \/ Skip \/ Aside) /\ UNCHANGED source

Spec == Init /\ [][Next]_vars
=============================================================================
