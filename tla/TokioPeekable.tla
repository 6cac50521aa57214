---------------------------- MODULE TokioPeekable ---------------------------
(***************************************************************************)
(* The asynchronous wrapper AsyncPeekable<R, B> over tokio readers         *)
(* (src/src/tokio.rs and src/src/tokio/).                                  *)
(*                                                                         *)
(* The crate writes its wrapper twice.  This one is handed a ReadBuf where *)
(* the other is handed a slice: a buffer with a filled part, to which      *)
(* bytes are appended and whose remaining part is what may be asked for,   *)
(* and which the caller may have used before.  How much was read is the    *)
(* growth of the filled part.  It has peek_buf, and no vectored peek.      *)
(*                                                                         *)
(* The two copies should behave alike; that is the property of this        *)
(* module: every step it takes is one of FuturePeekable.                   *)
(***************************************************************************)
EXTENDS AsyncReader, PeekBuffer, Utf8

CONSTANTS
    MaxWant,    \* bound: most a caller has room for, longest consume
    MaxFilled,  \* bound: bytes already in a ReadBuf that is passed in
    BufCaps,    \* capacities the constructors are given (None: without one)
    Texts       \* what the stream may spell, see Utf8

ASSUME TokioAssumption ==
    /\ MaxWant \in Nat /\ MaxFilled \in Nat
    /\ BufCaps \subseteq Nat \cup {None}
    /\ Texts \subseteq [1..N -> Classes]

VARIABLES
    text,     \* class of each byte of the stream, fixed
    buffer,   \* AsyncPeekable.buffer
    cap,      \* AsyncPeekable.buffer.capacity()
    buf_cap,  \* AsyncPeekable.buf_cap
    pos,      \* history: bytes the consumer has been given or has discarded
    lent,     \* history: bytes shown by poll_fill_buf, still consumable
    fut,      \* the future (or bare poll) in progress
    ret       \* the last answer

client == <<pos, lent>>
storage == <<buffer, cap>>
given == <<text, buf_cap>>
vars == <<rpos, ibuf, avail, closed, armed, woken, text, buffer, cap, buf_cap,
          pos, lent, fut, ret>>

-----------------------------------------------------------------------------
(* ReadBuf (external), and what the caller hands in. *)

Remaining(rb) == rb.capacity - Len(rb.filled)

(* put_slice panics if s does not fit. *)
put_slice(rb, s) == [rb EXCEPT !.filled = @ \o s]

(* A ReadBuf with pre bytes in it, which are the caller's own. *)
ReadBuf(pre, room) ==
    [capacity |-> pre + room, filled |-> [i \in 1..pre |-> Zero]]

(* A call that is not given a ReadBuf. *)
NoBuf == ReadBuf(0, 0)

-----------------------------------------------------------------------------
(* Futures, as in FuturePeekable; rb is the caller's ReadBuf, and before   *)
(* how much was in it when the call was made.                              *)
NoFuture == [op |-> "none", pc |-> "none", want |-> 0, old |-> 0,
             first |-> TRUE, out |-> <<>>, rb |-> NoBuf, before |-> 0]

NoAnswer == [op |-> "none", st |-> "none", want |-> 0, n |-> 0, out |-> <<>>]

Free == fut.pc = "none"
Suspended == fut.pc \in {"ready", "parked"}
At(op, pc) == fut.op = op /\ fut.pc = pc
InRead(ops) == fut.op \in ops /\ fut.pc = "read"

Answer(op, st, want, n, out) ==
    ret' = [op |-> op, st |-> st, want |-> want, n |-> n, out |-> out]

Ready(st, n, out) ==
    /\ Answer(fut.op, st, fut.want, n, out)
    /\ fut' = NoFuture

(* Ready(Ok(())): the caller looks at what the ReadBuf has grown by. *)
Filled(rb) ==
    LET grown == SubSeq(rb.filled, fut.before + 1, Len(rb.filled))
    IN  Ready("ok", Len(grown), grown)

Pending ==
    /\ fut' = [fut EXCEPT !.pc = "parked"]
    /\ ret' = ret

Continue(pc, old, out) ==
    /\ fut' = [fut EXCEPT !.pc = pc, !.old = old, !.out = out, !.first = FALSE]
    /\ ret' = ret

Arrive == Send /\ UNCHANGED <<inner, given, storage, client, fut, ret>>

Close == HangUp /\ UNCHANGED <<inner, given, storage, client, fut, ret>>

poll ==
    /\ Suspended
    /\ fut' = [fut EXCEPT !.pc = "enter"]
    /\ woken' = FALSE
    /\ UNCHANGED <<inner, far, armed, given, storage, client, ret>>

drop_future ==
    /\ Suspended
    /\ fut' = NoFuture
    /\ UNCHANGED <<inner, far, waking, given, storage, client, ret>>

-----------------------------------------------------------------------------
(* Growing and cutting the peek buffer. *)

ResizeTo(len) ==
    /\ Fits(len)
    /\ buffer' = Resize(buffer, len)
    /\ cap' \in Allocate(cap, len)

(* The reader is given ReadBuf::new over the tail. *)
Spare == ReadBuf(0, Len(buffer) - fut.old)

(* Ready(Ok(())) with n bytes filled: truncate(old_len + n). *)
ReadOk(n) ==
    /\ MayRead(Remaining(Spare), n)
    /\ Advance(n)
    /\ buffer' = Truncate(Store(buffer, fut.old, rpos, n), fut.old + n)
    /\ cap' = cap

(* Bug: the resize is not taken back. *)
Bug_keep_tail ==
    /\ buffer' = buffer
    /\ cap' = cap

(* Pending and Err: truncate(old_len). *)
RollBack ==
    /\ buffer' = Truncate(buffer, fut.old)
    /\ cap' = cap

-----------------------------------------------------------------------------
(* Construction, and the calls. *)

construct ==
    /\ buffer = <<>>
    /\ buf_cap \in BufCaps
    /\ cap = FreshCapacity(buf_cap)

Init ==
    /\ ReaderInit
    /\ text \in Texts
    /\ construct
    /\ pos = 0 /\ lent = 0
    /\ fut = NoFuture
    /\ ret = NoAnswer

Create(op, want, old, rb) ==
    /\ Free
    /\ fut' = [NoFuture EXCEPT !.op = op, !.pc = "ready", !.want = want,
                               !.old = old, !.rb = rb,
                               !.before = Len(rb.filled)]
    /\ UNCHANGED <<inner, far, waking, given, storage, client, ret>>

read(pre, room) == Create("read", room, 0, ReadBuf(pre, room))
fill_buf == Create("fill_buf", 0, 0, NoBuf)
(* poll_peek with the caller's ReadBuf; the future Peek makes an empty one *)
(* over the caller's slice at every poll.                                  *)
peek(pre, room) == Create("peek", room, 0, ReadBuf(pre, room))
(* PeekBuf makes one over the BufMut's next chunk, if it has one. *)
peek_buf(chunk) == Create("peek_buf", chunk, 0, ReadBuf(0, chunk))
peek_exact(want) == Create("peek_exact", want, 0, NoBuf)
peek_to_end == Create("peek_to_end", 0, 0, NoBuf)
peek_to_string == Create("peek_to_string", 0, 0, NoBuf)
(* Capacity and length are read when the future is made. *)
fill_peek_buf == Create("fill_peek_buf", cap, Len(buffer), NoBuf)

-----------------------------------------------------------------------------
(* Methods that are no futures. *)

FromBuffer(amt) == Smaller(amt, Len(buffer))

BufRead_consume(amt) ==
    /\ Free
    /\ amt <= lent
    /\ buffer' = Drain(buffer, FromBuffer(amt))
    /\ rpos' = rpos + (amt - FromBuffer(amt))
    /\ pos' = pos + amt
    /\ lent' = lent - amt
    /\ Answer("BufRead_consume", "ok", amt, 0, <<>>)
    /\ UNCHANGED <<ibuf, far, waking, given, cap, fut>>

consume ==
    /\ Free
    /\ buffer' = <<>>
    /\ cap' = FreshCapacity(buf_cap)
    /\ pos' = pos + Len(buffer)
    /\ lent' = 0
    /\ Answer("consume", "ok", 0, Len(buffer), buffer)
    /\ UNCHANGED <<inner, far, waking, given, fut>>

consume_in_place ==
    /\ Free
    /\ buffer' = <<>>
    /\ pos' = pos + Len(buffer)
    /\ lent' = 0
    /\ Answer("consume_in_place", "ok", 0, 0, <<>>)
    /\ UNCHANGED <<inner, far, waking, given, cap, fut>>

-----------------------------------------------------------------------------
(* poll_read *)

read_buffered ==
    /\ buffer # <<>> /\ Remaining(fut.rb) <= Len(buffer)
    /\ LET n == Remaining(fut.rb)
       IN  /\ buffer' = Drain(buffer, n)
           /\ pos' = pos + n
           /\ Filled(put_slice(fut.rb, SubSeq(buffer, 1, n)))
    /\ UNCHANGED <<inner, waking>>

(* Bug: Pending from the top-up is handed on, the peek buffer kept for the *)
(* next poll; the ReadBuf has it already.                                  *)
Bug_pend_after_put ==
    /\ buffer # <<>> /\ Remaining(fut.rb) > Len(buffer)
    /\ ReaderPends
    /\ UNCHANGED <<buffer, pos, ret>>
    /\ fut' = [fut EXCEPT !.pc = "parked", !.rb = put_slice(@, buffer)]

(* The peek buffer is put, then the reader appends to the same ReadBuf. *)
read_top_up ==
    /\ buffer # <<>> /\ Remaining(fut.rb) > Len(buffer)
    /\ buffer' = <<>>
    /\ LET rb == put_slice(fut.rb, buffer)
       IN  \/ \E n \in 0..Remaining(rb) :
                /\ MayRead(Remaining(rb), n)
                /\ Advance(n)
                /\ pos' = pos + Len(buffer) + n
                /\ Filled(put_slice(rb, Slice(rpos, n)))
           \/ /\ ReaderFails \/ ReaderPends
              /\ pos' = pos + Len(buffer)
              /\ Filled(rb)

read_inner ==
    /\ buffer = <<>>
    /\ buffer' = buffer
    /\ \/ \E n \in 0..Remaining(fut.rb) :
            /\ MayRead(Remaining(fut.rb), n)
            /\ Advance(n)
            /\ pos' = pos + n
            /\ Filled(put_slice(fut.rb, Slice(rpos, n)))
       \/ ReaderFails /\ pos' = pos /\ Ready("err", 0, <<>>)

poll_read ==
    /\ At("read", "enter")
    /\ read_buffered \/ read_top_up \/ read_inner
    /\ lent' = 0
    /\ UNCHANGED <<far, given, cap>>

poll_fill_buf ==
    /\ At("fill_buf", "enter")
    /\ \/ /\ buffer # <<>>
          /\ lent' = Len(buffer)
          /\ Ready("ok", Len(buffer), buffer)
          /\ UNCHANGED <<inner, waking>>
       \/ /\ buffer = <<>>
          /\ ReaderShows
          /\ lent' = ibuf' - rpos
          /\ Ready("ok", ibuf' - rpos, Slice(rpos, ibuf' - rpos))
       \/ buffer = <<>> /\ ReaderFails /\ lent' = 0 /\ Ready("err", 0, <<>>)
    /\ UNCHANGED <<far, given, storage, pos>>

(* With nothing peeked, the reader's Pending is that of poll_read and of  *)
(* poll_fill_buf.                                                         *)
delegated_pends ==
    /\ At("read", "enter") \/ At("fill_buf", "enter")
    /\ buffer = <<>>
    /\ ReaderPends
    /\ Pending
    /\ lent' = 0
    /\ UNCHANGED <<far, given, storage, pos>>

-----------------------------------------------------------------------------
(* poll_peek, for a bare poll, Peek and PeekBuf *)

Peeks == {"peek", "peek_buf"}

(* Bug: capacity for remaining. *)
Bug_whole_capacity ==
    /\ fut.op \in Peeks /\ fut.pc = "enter"
    /\ \/ /\ Remaining(fut.rb) <= Len(buffer)
          /\ Filled(put_slice(fut.rb, SubSeq(buffer, 1, Remaining(fut.rb))))
          /\ UNCHANGED storage
       \/ /\ Remaining(fut.rb) > Len(buffer)
          /\ ResizeTo(fut.rb.capacity)
          /\ Continue("read", Len(buffer), <<>>)
    /\ UNCHANGED <<inner, far, waking, given, client>>

poll_peek ==
    /\ fut.op \in Peeks /\ fut.pc = "enter"
    /\ LET available == Remaining(fut.rb)
       IN  \/ /\ available = 0
              /\ Filled(fut.rb)
              /\ UNCHANGED storage
           \/ /\ available > 0 /\ Len(buffer) >= available
              /\ Filled(put_slice(fut.rb, SubSeq(buffer, 1, available)))
              /\ UNCHANGED storage
           \/ /\ Len(buffer) < available
              /\ Refuses(available)
              /\ Ready("oom", 0, <<>>)
              /\ UNCHANGED storage
           \/ /\ Len(buffer) < available
              /\ ResizeTo(available)
              /\ Continue("read", Len(buffer), <<>>)
    /\ UNCHANGED <<inner, far, waking, given, client>>

(* Pending or Err(WouldBlock): what was peeked before, or Pending. *)
poll_peek_blocked ==
    /\ InRead(Peeks)
    /\ ReaderPends \/ ReaderWouldBlock
    /\ RollBack
    /\ \/ fut.old > 0 /\ Filled(put_slice(fut.rb, buffer'))
       \/ fut.old = 0 /\ Pending
    /\ UNCHANGED <<far, given, client>>

poll_peek_read ==
    /\ InRead(Peeks)
    /\ \/ \E n \in 0..Remaining(Spare) :
            ReadOk(n) /\ Filled(put_slice(fut.rb, buffer'))
       \/ ReaderFails /\ RollBack /\ Ready("err", 0, <<>>)
    /\ UNCHANGED <<far, given, client>>

poll_peek_again ==
    /\ InRead(Peeks)
    /\ ReaderFails
    /\ UNCHANGED <<far, given, client, storage, fut, ret>>

-----------------------------------------------------------------------------
(* PeekExact::poll *)

(* filled = 0 stands for the first poll. *)
peek_exact_enter ==
    /\ At("peek_exact", "enter")
    /\ LET out == IF fut.out = <<>>
                  THEN SubSeq(buffer, 1, Smaller(Len(buffer), fut.want))
                  ELSE fut.out
       IN  \/ Len(out) = fut.want /\ Ready("ok", fut.want, out)
           \/ Len(out) # fut.want /\ Continue("grow", 0, out)
    /\ UNCHANGED <<inner, far, waking, given, storage, client>>

(* total - filled *)
Missing == fut.want - Len(fut.out)

peek_exact_resize ==
    /\ At("peek_exact", "grow")
    /\ \/ /\ ResizeTo(Len(buffer) + Missing)
          /\ Continue("read", Len(buffer), fut.out)
       \/ /\ Refuses(Len(buffer) + Missing)
          /\ Ready("oom", 0, fut.out)
          /\ UNCHANGED storage
    /\ UNCHANGED <<inner, far, waking, given, client>>

(* Bug: Ok(0) is a short read like any other. *)
Bug_eof_goes_round ==
    /\ At("peek_exact", "read")
    /\ \/ \E n \in 0..Remaining(Spare) :
            /\ ReadOk(n)
            /\ LET out == fut.out \o SubSeq(buffer', fut.old + 1, fut.old + n)
               IN  \/ Len(out) < fut.want /\ Continue("grow", 0, out)
                   \/ Len(out) >= fut.want /\ Ready("ok", Len(out), out)
       \/ ReaderFails /\ RollBack /\ Ready("err", 0, fut.out)
    /\ UNCHANGED <<far, given, client>>

peek_exact_read ==
    /\ At("peek_exact", "read")
    /\ \/ ReadOk(0) /\ Ready("eof", 0, fut.out)
       \/ \E n \in 1..Remaining(Spare) :
            /\ ReadOk(n)
            /\ LET out == fut.out \o SubSeq(buffer', fut.old + 1, fut.old + n)
               IN  \/ Len(out) < fut.want /\ Continue("grow", 0, out)
                   \/ Len(out) >= fut.want /\ Ready("ok", fut.want, out)
       \/ ReaderFails /\ RollBack /\ Ready("err", 0, fut.out)
    /\ UNCHANGED <<far, given, client>>

-----------------------------------------------------------------------------
(* PeekToEnd::poll, PeekToString::poll *)

Wholes == {"peek_to_end", "peek_to_string"}

peek_to_end_enter ==
    /\ At("peek_to_end", "enter")
    /\ Continue("grow", 0, IF fut.first THEN buffer ELSE fut.out)
    /\ UNCHANGED <<inner, far, waking, given, storage, client>>

(* The bytes b as from_utf8 sees them; a zero byte is the character NUL. *)
Spelt(b) == [i \in 1..Len(b) |-> IF b[i] = Zero THEN "ascii" ELSE text[b[i]]]

(* Only the first poll judges, and only what no continuation can mend. *)
peek_to_string_enter ==
    /\ At("peek_to_string", "enter")
    /\ \/ /\ fut.first /\ DefinitelyInvalid(Spelt(buffer))
          /\ Ready("rejected", 0, <<>>)
       \/ /\ ~(fut.first /\ DefinitelyInvalid(Spelt(buffer)))
          /\ Continue("grow", 0, <<>>)
    /\ UNCHANGED <<inner, far, waking, given, storage, client>>

Conclude(st, b) ==
    \/ /\ Valid(Spelt(b))
       /\ Ready(st, IF st = "ok" THEN Len(b) ELSE 0, b)
    \/ /\ ~Valid(Spelt(b)) /\ st = "ok"
       /\ Ready("invalid", 0, <<>>)
    \/ /\ ~Valid(Spelt(b)) /\ st # "ok"
       /\ \E vut \in 0..Len(b) :
            vut = ValidUpTo(Spelt(b)) /\ Ready(st, 0, SubSeq(b, 1, vut))

(* The error of a failed growth or read. *)
Fail(st, b) ==
    \/ fut.op = "peek_to_end" /\ Ready(st, 0, fut.out)
    \/ fut.op = "peek_to_string" /\ Conclude(st, b)

(* The whole loop of grow_peek_buffer as one step. *)
grow_peek_buffer ==
    /\ fut.op \in Wholes /\ fut.pc = "grow"
    /\ \/ \E growth \in Growths :
            /\ GrowsBy(Len(buffer), growth)
            /\ ResizeTo(Len(buffer) + growth)
            /\ Continue("read", Len(buffer), fut.out)
       \/ /\ CannotGrow(Len(buffer))
          /\ Fail("oom", buffer)
          /\ UNCHANGED storage
    /\ UNCHANGED <<inner, far, waking, given, client>>

peek_whole_read ==
    /\ InRead(Wholes)
    /\ \/ /\ ReadOk(0)
          /\ \/ fut.op = "peek_to_end" /\ Ready("ok", Len(buffer'), fut.out)
             \/ fut.op = "peek_to_string" /\ Conclude("ok", buffer')
       \/ \E n \in 1..Remaining(Spare) :
            /\ ReadOk(n)
            /\ Continue("grow", 0,
                 IF fut.op = "peek_to_end"
                 THEN fut.out \o SubSeq(buffer', fut.old + 1, fut.old + n)
                 ELSE <<>>)
       \/ ReaderFails /\ RollBack /\ Fail("err", buffer')
    /\ UNCHANGED <<far, given, client>>

-----------------------------------------------------------------------------
(* FillPeekBuf::poll: the buffer grows from what it was to what it may be  *)
(* when the future was made.                                               *)
fill_peek_buf_enter ==
    /\ At("fill_peek_buf", "enter")
    /\ \/ /\ fut.want = fut.old
          /\ Ready("ok", 0, <<>>)
          /\ UNCHANGED storage
       \/ /\ fut.want # fut.old
          /\ ResizeTo(fut.want)
          /\ Continue("read", fut.old, <<>>)
       \/ /\ fut.want # fut.old
          /\ Refuses(fut.want)
          /\ Ready("oom", 0, <<>>)
          /\ UNCHANGED storage
    /\ UNCHANGED <<inner, far, waking, given, client>>

(* Err(Interrupted) is an error like any other here. *)
fill_peek_buf_read ==
    /\ At("fill_peek_buf", "read")
    /\ \/ \E n \in 0..Remaining(Spare) : ReadOk(n) /\ Ready("ok", n, <<>>)
       \/ ReaderFails /\ RollBack /\ Ready("err", 0, <<>>)
    /\ UNCHANGED <<far, given, client>>

-----------------------------------------------------------------------------
(* The arms that the loops share. *)

Loops == {"peek_exact"} \cup Wholes

(* Err(Interrupted): the growth is taken back and the loop goes round. *)
interrupted ==
    /\ InRead(Loops)
    /\ ReaderFails
    /\ RollBack
    /\ Continue("grow", 0, fut.out)
    /\ UNCHANGED <<far, given, client>>

(* Pending: the growth is taken back, the progress fields stay. *)
pending ==
    /\ InRead(Loops \cup {"fill_peek_buf"})
    /\ ReaderPends
    /\ RollBack
    /\ Pending
    /\ UNCHANGED <<far, given, client>>

-----------------------------------------------------------------------------
Call ==
    \/ \E pre \in 0..MaxFilled, room \in 0..MaxWant :
         read(pre, room) \/ peek(pre, room)
    \/ \E want \in 0..MaxWant : peek_buf(want) \/ peek_exact(want)
    \/ fill_buf
    \/ \E amt \in 0..MaxWant : BufRead_consume(amt)
    \/ consume \/ consume_in_place
    \/ peek_to_end \/ peek_to_string \/ fill_peek_buf

(* The steps of a poll: before the reader is asked; when it answers Ok or  *)
(* an Err that ends the call; when it answers Pending or is asked again.   *)
Prepare ==
    \/ poll_peek
    \/ peek_exact_enter \/ peek_exact_resize
    \/ peek_to_end_enter \/ peek_to_string_enter \/ grow_peek_buffer
    \/ fill_peek_buf_enter

Outcome ==
    \/ poll_read \/ poll_fill_buf
    \/ poll_peek_read \/ peek_exact_read \/ peek_whole_read
    \/ fill_peek_buf_read

NoOutcome ==
    \/ delegated_pends \/ poll_peek_blocked \/ pending
    \/ poll_peek_again \/ interrupted

Next ==
    \/ Arrive \/ Close
    \/ Call \/ poll \/ drop_future
    \/ Prepare \/ Outcome \/ NoOutcome

Spec == Init /\ [][Next]_vars

(* A new or woken task is polled, and a poll runs to its end; the far end  *)
(* closes some day; a reader asked again and again does not answer         *)
(* Interrupted, or yield, for ever.                                        *)
poll_due == poll /\ (fut.pc = "ready" \/ woken)

Fairness ==
    /\ WF_vars(poll_due)
    /\ WF_vars(Prepare \/ Outcome \/ NoOutcome)
    /\ SF_vars(Outcome)
    /\ WF_vars(Close)

FairSpec == Spec /\ Fairness

-----------------------------------------------------------------------------
(* Properties. *)

(* The variables hold what their declarations say, and no caller is given *)
(* filler.                                                                *)
TypeOK ==
    /\ ReaderTypeOK
    /\ text \in Texts
    /\ buffer \in Seq(0..N)
    /\ cap \in Nat
    /\ buf_cap \in BufCaps
    /\ pos \in Nat /\ lent \in Nat
    /\ fut.want \in Nat /\ fut.old \in Nat /\ fut.first \in BOOLEAN
    /\ fut.out \in Seq(1..N)
    /\ ret.n \in Nat /\ ret.out \in Seq(1..N)

(* A call that has not answered has put nothing into the caller's ReadBuf: *)
(* a poll that puts bytes and then says Pending would put them again at    *)
(* the next poll, in a ReadBuf whose caller cannot tell.                   *)
ReadBufIntact ==
    fut.pc \in {"parked", "read"} => Len(fut.rb.filled) = fut.before

(* What this wrapper looks like without ReadBufs; PeekBuf is a Peek. *)
AsPeek(op) == IF op = "peek_buf" THEN "peek" ELSE op

TwinFut == [op |-> AsPeek(fut.op), pc |-> fut.pc, want |-> fut.want,
            old |-> fut.old, first |-> fut.first, out |-> fut.out]

TwinRet == [ret EXCEPT !.op = AsPeek(@)]

Twin == INSTANCE FuturePeekable WITH fut <- TwinFut, ret <- TwinRet

(* The crate's two asynchronous wrappers behave alike: whatever this one   *)
(* does, in storage, answers, waits and wake-ups, the futures-util one may *)
(* do.  So the safety properties of FuturePeekable, and its refinement of  *)
(* PeekStream, hold of this one.                                           *)
ImplementsFuture == Twin!Spec

(* Every future that is not dropped is answered, however often the reader  *)
(* has nothing yet, is interrupted or yields.  (Fairness is not part of    *)
(* ImplementsFuture.)                                                      *)
AnsweredAtLast == fut.op # "none" ~> fut.op = "none"
=============================================================================
