----------------------------- MODULE PeekStream -----------------------------
(***************************************************************************)
(* What a peekable reader promises its caller, with no peek buffer in it:  *)
(* a stream and two cursors.  The consumer has had the first pos bytes;    *)
(* the inner reader has been advanced over the first seen.  Peeking moves  *)
(* only seen, and always shows the bytes that follow pos; only the         *)
(* consuming calls move pos, and they hand out (or discard) exactly the    *)
(* bytes they pass over.                                                   *)
(*                                                                         *)
(* An action says which answers are allowed, by constraining ret'.         *)
(***************************************************************************)
EXTENDS ByteStream

VARIABLES
    pos,   \* bytes the consumer is done with
    seen,  \* bytes that have left the inner reader, pos <= seen
    ret    \* the last answer: [op, st, want, n, out]

vars == <<pos, seen, ret>>

(* What has been peeked and not consumed. *)
Ahead == seen - pos
Peeked == Slice(pos, Ahead)

Init == pos = 0 /\ seen = 0 /\ ret.op = "none"

Answers(op, sts) == ret'.op = op /\ ret'.st \in sts

(* The caller is shown the n bytes that come next. *)
Shows(n) == ret'.n = n /\ ret'.out = Slice(pos, n)

(* Inside a call that peeks in several reads. *)
ReadAhead ==
    /\ seen' >= seen
    /\ UNCHANGED <<pos, ret>>

(* A read delivers what was peeked first, in order, and may add to it; it  *)
(* fails only if it has delivered nothing and nothing was peeked.          *)
Read ==
    \/ /\ Answers("read", {"ok"})
       /\ Shows(ret'.n)
       /\ Smaller(ret'.want, Ahead) <= ret'.n /\ ret'.n <= ret'.want
       /\ pos' = pos + ret'.n
       /\ seen' = Larger(seen, pos')
    \/ /\ Answers("read", {"err"})
       /\ Ahead = 0
       /\ UNCHANGED <<pos, seen>>

(* peek shows all that was peeked, and more if the reader has more: after  *)
(* it, either the slice is full or nothing beyond it is known.  What is    *)
(* already peeked is shown without touching the reader and cannot fail; a  *)
(* failing peek leaves the reader where it was.                            *)
Peek ==
    /\ pos' = pos
    /\ \/ /\ Answers("peek", {"ok"})
          /\ seen' >= seen
          /\ ret'.want <= Ahead => seen' = seen
          /\ Shows(Smaller(ret'.want, seen' - pos))
       \/ /\ Answers("peek", {"err", "oom"})
          /\ ret'.want > Ahead
          /\ seen' = seen

(* The vectored form may show less. *)
PeekVectored ==
    /\ pos' = pos
    /\ \/ /\ Answers("peek_vectored", {"ok"})
          /\ seen' >= seen
          /\ Shows(ret'.n)
          /\ ret'.n <= ret'.want /\ ret'.n <= seen' - pos
       \/ /\ Answers("peek_vectored", {"err", "oom"})
          /\ seen' = seen

(* peek_exact shows all of what was asked, or fails having shown all that  *)
(* was peeked, which is still there.                                       *)
PeekExact ==
    /\ pos' = pos
    /\ \/ /\ Answers("peek_exact", {"ok"})
          /\ seen' = Larger(seen, pos + ret'.want)
          /\ Shows(ret'.want)
       \/ /\ Answers("peek_exact", {"err", "oom", "eof"})
          /\ seen' = seen /\ ret'.want > Ahead
          /\ ret'.out = Peeked

(* peek_to_end shows everything that was peeked, also when it fails. *)
PeekToEnd ==
    /\ Answers("peek_to_end", {"ok", "err", "oom"})
    /\ ret'.st = "ok" => ret'.n = Ahead
    /\ ret'.out = Peeked
    /\ UNCHANGED <<pos, seen>>

(* peek_to_string shows everything, a prefix, or nothing. *)
PeekToString ==
    /\ \/ Answers("peek_to_string", {"ok"}) /\ Shows(Ahead)
       \/ /\ Answers("peek_to_string", {"err", "oom"})
          /\ Len(ret'.out) <= Ahead
          /\ ret'.out = Slice(pos, Len(ret'.out))
       \/ Answers("peek_to_string", {"invalid", "rejected"}) /\ ret'.out = <<>>
    /\ UNCHANGED <<pos, seen>>

(* fill_peek_buf says how much it added. *)
FillPeekBuf ==
    /\ pos' = pos
    /\ \/ Answers("fill_peek_buf", {"ok"}) /\ seen' = seen + ret'.n
       \/ Answers("fill_peek_buf", {"err", "oom"}) /\ seen' = seen

(* fill_buf shows what was peeked, or what the reader's own buffer holds. *)
FillBuf ==
    /\ \/ /\ Answers("fill_buf", {"ok"})
          /\ Shows(ret'.n)
          /\ Ahead > 0 => ret'.n = Ahead
       \/ Answers("fill_buf", {"err"}) /\ Ahead = 0
    /\ UNCHANGED <<pos, seen>>

(* BufRead::consume(amt) passes over amt bytes, peeked or not. *)
Skip ==
    /\ Answers("BufRead_consume", {"ok"})
    /\ pos' = pos + ret'.want
    /\ seen' = Larger(seen, pos')

(* consume hands over, consume_in_place discards, what was peeked. *)
Discard ==
    /\ \/ Answers("consume", {"ok"}) /\ Shows(Ahead)
       \/ Answers("consume_in_place", {"ok"})
    /\ pos' = seen
    /\ seen' = seen

Next ==
    \/ ReadAhead \/ Read
    \/ Peek \/ PeekVectored \/ PeekExact \/ PeekToEnd \/ PeekToString
    \/ FillPeekBuf
    \/ FillBuf \/ Skip \/ Discard

Spec == Init /\ [][Next]_vars
=============================================================================
