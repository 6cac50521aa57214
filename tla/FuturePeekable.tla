--------------------------- MODULE FuturePeekable ---------------------------
(***************************************************************************)
(* The asynchronous wrapper AsyncPeekable<R, B> over futures-util readers  *)
(* (src/src/future.rs and src/src/future/).                                *)
(*                                                                         *)
(* A method makes a future that borrows the wrapper; the executor polls it *)
(* until it is Ready or drops it.  Within a poll the inner reader may say  *)
(* Pending: the future then hands Pending on, and whatever the poll did to *)
(* the peek buffer and to the future's own fields must make sense to the   *)
(* next poll, and, if there is none, to the next method.  Whether there is *)
(* a next poll depends on a waker having been left with the reader.        *)
(*                                                                         *)
(* The caller's task is the only one that touches the wrapper; the other   *)
(* actor is the far end, which sends bytes, closes, and thereby wakes.     *)
(***************************************************************************)
EXTENDS AsyncReader, PeekBuffer, Utf8

CONSTANTS
    MaxWant,    \* bound: longest caller slice, longest consume
    BufCaps,    \* capacities the constructors are given (None: without one)
    Texts       \* what the stream may spell, see Utf8

ASSUME TaskAssumption ==
    /\ MaxWant \in Nat
    /\ BufCaps \subseteq Nat \cup {None}
    /\ Texts \subseteq [1..N -> Classes]

VARIABLES
    text,     \* class of each byte of the stream, fixed
    buffer,   \* AsyncPeekable.buffer
    cap,      \* AsyncPeekable.buffer.capacity()
    buf_cap,  \* AsyncPeekable.buf_cap
    pos,      \* history: bytes the consumer has been given or has discarded
    lent,     \* history: bytes shown by poll_fill_buf, still consumable
    fut,      \* the future that borrows the wrapper: its fields, and where
              \* its poll stands
    ret       \* the last answer

client == <<pos, lent>>
storage == <<buffer, cap>>
given == <<text, buf_cap>>
vars == <<rpos, ibuf, avail, closed, armed, woken, text, buffer, cap, buf_cap,
          pos, lent, fut, ret>>

-----------------------------------------------------------------------------
(* Futures. *)

(* pc: "ready" before the first poll, "parked" after Pending; "enter",    *)
(* "grow" and "read" within a poll.  first stands for ~prefix_copied and  *)
(* ~started, out for what the caller's buffer has got so far (`filled` is *)
(* its length), want for the slice's length (FillPeekBuf: cap), old for   *)
(* the old_len of a read (FillPeekBuf: original).                         *)
NoFuture == [op |-> "none", pc |-> "none", want |-> 0, old |-> 0,
             first |-> TRUE, out |-> <<>>]

NoAnswer == [op |-> "none", st |-> "none", want |-> 0, n |-> 0, out |-> <<>>]

Free == fut.pc = "none"
Suspended == fut.pc \in {"ready", "parked"}
At(op, pc) == fut.op = op /\ fut.pc = pc
InRead(ops) == fut.op \in ops /\ fut.pc = "read"

Answer(op, st, want, n, out) ==
    ret' = [op |-> op, st |-> st, want |-> want, n |-> n, out |-> out]

(* Poll::Ready: the future is done with. *)
Ready(st, n, out) ==
    /\ Answer(fut.op, st, fut.want, n, out)
    /\ fut' = NoFuture

(* Poll::Pending. *)
Pending ==
    /\ fut' = [fut EXCEPT !.pc = "parked"]
    /\ ret' = ret

Continue(pc, old, out) ==
    /\ fut' = [fut EXCEPT !.pc = pc, !.old = old, !.out = out, !.first = FALSE]
    /\ ret' = ret

-----------------------------------------------------------------------------
(* The far end and the executor (external). *)

Arrive == Send /\ UNCHANGED <<inner, given, storage, client, fut, ret>>

Close == HangUp /\ UNCHANGED <<inner, given, storage, client, fut, ret>>

(* The executor polls the task: because it is new or woken, or for        *)
(* reasons of its own (a join, a select).                                 *)
poll ==
    /\ Suspended
    /\ fut' = [fut EXCEPT !.pc = "enter"]
    /\ woken' = FALSE
    /\ UNCHANGED <<inner, far, armed, given, storage, client, ret>>

(* A future that is not Ready may be dropped (a timeout, a select); its   *)
(* Drop does nothing to the wrapper.                                      *)
drop_future ==
    /\ Suspended
    /\ fut' = NoFuture
    /\ UNCHANGED <<inner, far, waking, given, storage, client, ret>>

-----------------------------------------------------------------------------
(* Growing and cutting the peek buffer. *)

ResizeTo(len) ==
    /\ Fits(len)
    /\ buffer' = Resize(buffer, len)
    /\ cap' \in Allocate(cap, len)

(* The slice handed to poll_read. *)
Room == Len(buffer) - fut.old

(* Ready(Ok(n)): truncate(old_len + n). *)
ReadOk(n) ==
    /\ MayRead(Room, n)
    /\ Advance(n)
    /\ buffer' = Truncate(Store(buffer, fut.old, rpos, n), fut.old + n)
    /\ cap' = cap

(* Bug: the resize is not taken back. *)
Bug_keep_tail ==
    /\ buffer' = buffer
    /\ cap' = cap

(* Pending and Err: truncate(old_len). *)
RollBack ==
    /\ buffer' = Truncate(buffer, fut.old)
    /\ cap' = cap

-----------------------------------------------------------------------------
(* Construction, and the methods that make a future. *)

construct ==
    /\ buffer = <<>>
    /\ buf_cap \in BufCaps
    /\ cap = FreshCapacity(buf_cap)

Init ==
    /\ ReaderInit
    /\ text \in Texts
    /\ construct
    /\ pos = 0 /\ lent = 0
    /\ fut = NoFuture
    /\ ret = NoAnswer

Create(op, want, old) ==
    /\ Free
    /\ fut' = [NoFuture EXCEPT !.op = op, !.pc = "ready", !.want = want,
                               !.old = old]
    /\ UNCHANGED <<inner, far, waking, given, storage, client, ret>>

read(want) == Create("read", want, 0)
fill_buf == Create("fill_buf", 0, 0)
peek(want) == Create("peek", want, 0)
(* poll_peek_vectored goes to the first nonempty slice. *)
peek_vectored(len1, len2) ==
    Create("peek_vectored", IF len1 > 0 THEN len1 ELSE len2, 0)
peek_exact(want) == Create("peek_exact", want, 0)
peek_to_end == Create("peek_to_end", 0, 0)
peek_to_string == Create("peek_to_string", 0, 0)
(* FillPeekBuf::new reads capacity and length when it is made. *)
fill_peek_buf == Create("fill_peek_buf", cap, Len(buffer))

-----------------------------------------------------------------------------
(* Methods that are no futures. *)

(* How much of amt the peek buffer covers. *)
FromBuffer(amt) == Smaller(amt, Len(buffer))

(* Bug: `amt -= available` is missing. *)
Bug_forward_all(amt) ==
    /\ Free
    /\ amt <= lent
    /\ buffer' = Drain(buffer, FromBuffer(amt))
    /\ rpos' = rpos + amt
    /\ pos' = pos + amt
    /\ lent' = lent - amt
    /\ Answer("BufRead_consume", "ok", amt, 0, <<>>)
    /\ UNCHANGED <<ibuf, far, waking, given, cap, fut>>

(* AsyncBufRead::consume; the caller keeps to what fill_buf has shown. *)
BufRead_consume(amt) ==
    /\ Free
    /\ amt <= lent
    /\ buffer' = Drain(buffer, FromBuffer(amt))
    /\ rpos' = rpos + (amt - FromBuffer(amt))
    /\ pos' = pos + amt
    /\ lent' = lent - amt
    /\ Answer("BufRead_consume", "ok", amt, 0, <<>>)
    /\ UNCHANGED <<ibuf, far, waking, given, cap, fut>>

consume ==
    /\ Free
    /\ buffer' = <<>>
    /\ cap' = FreshCapacity(buf_cap)
    /\ pos' = pos + Len(buffer)
    /\ lent' = 0
    /\ Answer("consume", "ok", 0, Len(buffer), buffer)
    /\ UNCHANGED <<inner, far, waking, given, fut>>

consume_in_place ==
    /\ Free
    /\ buffer' = <<>>
    /\ pos' = pos + Len(buffer)
    /\ lent' = 0
    /\ Answer("consume_in_place", "ok", 0, 0, <<>>)
    /\ UNCHANGED <<inner, far, waking, given, cap, fut>>

-----------------------------------------------------------------------------
(* poll_read *)

read_buffered ==
    /\ buffer # <<>> /\ fut.want <= Len(buffer)
    /\ buffer' = Drain(buffer, fut.want)
    /\ pos' = pos + fut.want
    /\ Ready("ok", fut.want, SubSeq(buffer, 1, fut.want))
    /\ UNCHANGED <<inner, waking>>

(* Bug: Pending from the top-up is handed on, and the peek buffer kept for *)
(* the next poll.                                                          *)
Bug_pend_in_top_up ==
    /\ buffer # <<>> /\ fut.want > Len(buffer)
    /\ ReaderPends
    /\ buffer' = buffer
    /\ pos' = pos
    /\ Pending

(* Whatever the reader answers, what was peeked is delivered now. *)
read_top_up ==
    /\ buffer # <<>> /\ fut.want > Len(buffer)
    /\ buffer' = <<>>
    /\ \/ \E n \in 0..(fut.want - Len(buffer)) :
            /\ MayRead(fut.want - Len(buffer), n)
            /\ Advance(n)
            /\ pos' = pos + Len(buffer) + n
            /\ Ready("ok", Len(buffer) + n, buffer \o Slice(rpos, n))
       \/ /\ ReaderFails \/ ReaderPends
          /\ pos' = pos + Len(buffer)
          /\ Ready("ok", Len(buffer), buffer)

read_inner ==
    /\ buffer = <<>>
    /\ buffer' = buffer
    /\ \/ \E n \in 0..fut.want :
            /\ MayRead(fut.want, n)
            /\ Advance(n)
            /\ pos' = pos + n
            /\ Ready("ok", n, Slice(rpos, n))
       \/ ReaderFails /\ pos' = pos /\ Ready("err", 0, <<>>)

poll_read ==
    /\ At("read", "enter")
    /\ read_buffered \/ read_top_up \/ read_inner
    /\ lent' = 0
    /\ UNCHANGED <<far, given, cap>>

-----------------------------------------------------------------------------
(* poll_fill_buf *)

(* Bug: a reader that is Pending leaves the empty peek buffer to be shown. *)
Bug_pending_is_empty ==
    /\ At("fill_buf", "enter")
    /\ \/ /\ buffer # <<>> \/ ReaderPends
          /\ lent' = Len(buffer)
          /\ Ready("ok", Len(buffer), buffer)
          /\ buffer # <<>> => UNCHANGED <<inner, waking>>
       \/ /\ buffer = <<>>
          /\ ReaderShows
          /\ lent' = ibuf' - rpos
          /\ Ready("ok", ibuf' - rpos, Slice(rpos, ibuf' - rpos))
    /\ UNCHANGED <<far, given, storage, pos>>

poll_fill_buf ==
    /\ At("fill_buf", "enter")
    /\ \/ /\ buffer # <<>>
          /\ lent' = Len(buffer)
          /\ Ready("ok", Len(buffer), buffer)
          /\ UNCHANGED <<inner, waking>>
       \/ /\ buffer = <<>>
          /\ ReaderShows
          /\ lent' = ibuf' - rpos
          /\ Ready("ok", ibuf' - rpos, Slice(rpos, ibuf' - rpos))
       \/ buffer = <<>> /\ ReaderFails /\ lent' = 0 /\ Ready("err", 0, <<>>)
    /\ UNCHANGED <<far, given, storage, pos>>

(* With nothing peeked, the reader's Pending is that of poll_read and of  *)
(* poll_fill_buf.                                                         *)
delegated_pends ==
    /\ At("read", "enter") \/ At("fill_buf", "enter")
    /\ buffer = <<>>
    /\ ReaderPends
    /\ Pending
    /\ lent' = 0
    /\ UNCHANGED <<far, given, storage, pos>>

-----------------------------------------------------------------------------
(* poll_peek, poll_peek_vectored *)

Peeks == {"peek", "peek_vectored"}

poll_peek ==
    /\ fut.op \in Peeks /\ fut.pc = "enter"
    /\ \/ /\ fut.want <= Len(buffer)
          /\ Ready("ok", fut.want, SubSeq(buffer, 1, fut.want))
          /\ UNCHANGED storage
       \/ /\ fut.want > Len(buffer)
          /\ Refuses(fut.want)
          /\ Ready("oom", 0, <<>>)
          /\ UNCHANGED storage
       \/ /\ fut.want > Len(buffer)
          /\ ResizeTo(fut.want)
          /\ Continue("read", Len(buffer), <<>>)
    /\ UNCHANGED <<inner, far, waking, given, client>>

(* Bug: there is always something to show. *)
Bug_nothing_is_something ==
    /\ InRead(Peeks)
    /\ ReaderPends \/ ReaderWouldBlock
    /\ RollBack
    /\ Ready("ok", fut.old, buffer')
    /\ UNCHANGED <<far, given, client>>

(* Pending or Err(WouldBlock): what was peeked before is shown; if there  *)
(* is nothing to show, Pending.                                           *)
poll_peek_blocked ==
    /\ InRead(Peeks)
    /\ ReaderPends \/ ReaderWouldBlock
    /\ RollBack
    /\ \/ fut.old > 0 /\ Ready("ok", fut.old, buffer')
       \/ fut.old = 0 /\ Pending
    /\ UNCHANGED <<far, given, client>>

poll_peek_read ==
    /\ InRead(Peeks)
    /\ \/ \E n \in 0..Room : ReadOk(n) /\ Ready("ok", fut.old + n, buffer')
       \/ ReaderFails /\ RollBack /\ Ready("err", 0, <<>>)
    /\ UNCHANGED <<far, given, client>>

(* Err(Interrupted): the same tail is offered again, nothing changes. *)
poll_peek_again ==
    /\ InRead(Peeks)
    /\ ReaderFails
    /\ UNCHANGED <<far, given, client, storage, fut, ret>>

-----------------------------------------------------------------------------
(* PeekExact::poll *)

(* Bug (0.6.0 mended it): every poll starts from the peek buffer. *)
Bug_copy_again ==
    /\ At("peek_exact", "enter")
    /\ LET out == fut.out \o SubSeq(buffer, 1, Smaller(Len(buffer), fut.want))
       IN  \/ Len(out) >= fut.want /\ Ready("ok", fut.want, out)
           \/ Len(out) < fut.want /\ Continue("grow", 0, out)
    /\ UNCHANGED <<inner, far, waking, given, storage, client>>

(* filled = 0 stands for the first poll. *)
peek_exact_enter ==
    /\ At("peek_exact", "enter")
    /\ LET out == IF fut.out = <<>>
                  THEN SubSeq(buffer, 1, Smaller(Len(buffer), fut.want))
                  ELSE fut.out
       IN  \/ Len(out) = fut.want /\ Ready("ok", fut.want, out)
           \/ Len(out) # fut.want /\ Continue("grow", 0, out)
    /\ UNCHANGED <<inner, far, waking, given, storage, client>>

(* Bug: want is the whole slice. *)
Bug_ask_for_all == fut.want

(* total - filled *)
Missing == fut.want - Len(fut.out)

peek_exact_resize ==
    /\ At("peek_exact", "grow")
    /\ \/ /\ ResizeTo(Len(buffer) + Missing)
          /\ Continue("read", Len(buffer), fut.out)
       \/ /\ Refuses(Len(buffer) + Missing)
          /\ Ready("oom", 0, fut.out)
          /\ UNCHANGED storage
    /\ UNCHANGED <<inner, far, waking, given, client>>

(* Bug: Ok(0) is a short read like any other. *)
Bug_eof_goes_round ==
    /\ At("peek_exact", "read")
    /\ \/ \E n \in 0..Room :
            /\ ReadOk(n)
            /\ LET out == fut.out \o SubSeq(buffer', fut.old + 1, fut.old + n)
               IN  \/ Len(out) < fut.want /\ Continue("grow", 0, out)
                   \/ Len(out) >= fut.want /\ Ready("ok", Len(out), out)
       \/ ReaderFails /\ RollBack /\ Ready("err", 0, fut.out)
    /\ UNCHANGED <<far, given, client>>

peek_exact_read ==
    /\ At("peek_exact", "read")
    /\ \/ ReadOk(0) /\ Ready("eof", 0, fut.out)
       \/ \E n \in 1..Room :
            /\ ReadOk(n)
            /\ LET out == fut.out \o SubSeq(buffer', fut.old + 1, fut.old + n)
               IN  \/ Len(out) < fut.want /\ Continue("grow", 0, out)
                   \/ Len(out) >= fut.want /\ Ready("ok", Len(out), out)
       \/ ReaderFails /\ RollBack /\ Ready("err", 0, fut.out)
    /\ UNCHANGED <<far, given, client>>

-----------------------------------------------------------------------------
(* PeekToEnd::poll, PeekToString::poll *)

Wholes == {"peek_to_end", "peek_to_string"}

(* Bug (0.6.0 mended it): the prefix is copied at every poll. *)
Bug_prefix_every_poll ==
    /\ At("peek_to_end", "enter")
    /\ Continue("grow", 0, fut.out \o buffer)
    /\ UNCHANGED <<inner, far, waking, given, storage, client>>

peek_to_end_enter ==
    /\ At("peek_to_end", "enter")
    /\ Continue("grow", 0, IF fut.first THEN buffer ELSE fut.out)
    /\ UNCHANGED <<inner, far, waking, given, storage, client>>

(* The bytes b as from_utf8 sees them; a zero byte is the character NUL. *)
Spelt(b) == [i \in 1..Len(b) |-> IF b[i] = Zero THEN "ascii" ELSE text[b[i]]]

(* Bug: every poll judges the peek buffer, an error_len() or not. *)
Bug_judge_every_poll ==
    /\ At("peek_to_string", "enter")
    /\ \/ ~Valid(Spelt(buffer)) /\ Ready("rejected", 0, <<>>)
       \/ Valid(Spelt(buffer)) /\ Continue("grow", 0, <<>>)
    /\ UNCHANGED <<inner, far, waking, given, storage, client>>

(* Only the first poll judges, and only what no continuation can mend. *)
peek_to_string_enter ==
    /\ At("peek_to_string", "enter")
    /\ \/ /\ fut.first /\ DefinitelyInvalid(Spelt(buffer))
          /\ Ready("rejected", 0, <<>>)
       \/ /\ ~(fut.first /\ DefinitelyInvalid(Spelt(buffer)))
          /\ Continue("grow", 0, <<>>)
    /\ UNCHANGED <<inner, far, waking, given, storage, client>>

Conclude(st, b) ==
    \/ /\ Valid(Spelt(b))
       /\ Ready(st, IF st = "ok" THEN Len(b) ELSE 0, b)
    \/ /\ ~Valid(Spelt(b)) /\ st = "ok"
       /\ Ready("invalid", 0, <<>>)
    \/ /\ ~Valid(Spelt(b)) /\ st # "ok"
       /\ \E vut \in 0..Len(b) :
            vut = ValidUpTo(Spelt(b)) /\ Ready(st, 0, SubSeq(b, 1, vut))

(* The error of a failed growth or read. *)
Fail(st, b) ==
    \/ fut.op = "peek_to_end" /\ Ready(st, 0, fut.out)
    \/ fut.op = "peek_to_string" /\ Conclude(st, b)

(* The whole loop of grow_peek_buffer as one step. *)
grow_peek_buffer ==
    /\ fut.op \in Wholes /\ fut.pc = "grow"
    /\ \/ \E growth \in Growths :
            /\ GrowsBy(Len(buffer), growth)
            /\ ResizeTo(Len(buffer) + growth)
            /\ Continue("read", Len(buffer), fut.out)
       \/ /\ CannotGrow(Len(buffer))
          /\ Fail("oom", buffer)
          /\ UNCHANGED storage
    /\ UNCHANGED <<inner, far, waking, given, client>>

peek_whole_read ==
    /\ InRead(Wholes)
    /\ \/ /\ ReadOk(0)
          /\ \/ fut.op = "peek_to_end" /\ Ready("ok", Len(buffer'), fut.out)
             \/ fut.op = "peek_to_string" /\ Conclude("ok", buffer')
       \/ \E n \in 1..Room :
            /\ ReadOk(n)
            /\ Continue("grow", 0,
                 IF fut.op = "peek_to_end"
                 THEN fut.out \o SubSeq(buffer', fut.old + 1, fut.old + n)
                 ELSE <<>>)
       \/ ReaderFails /\ RollBack /\ Fail("err", buffer')
    /\ UNCHANGED <<far, given, client>>

-----------------------------------------------------------------------------
(* FillPeekBuf::poll: the buffer grows from what it was to what it may be  *)
(* when the future was made.                                               *)
fill_peek_buf_enter ==
    /\ At("fill_peek_buf", "enter")
    /\ \/ /\ fut.want = fut.old
          /\ Ready("ok", 0, <<>>)
          /\ UNCHANGED storage
       \/ /\ fut.want # fut.old
          /\ ResizeTo(fut.want)
          /\ Continue("read", fut.old, <<>>)
       \/ /\ fut.want # fut.old
          /\ Refuses(fut.want)
          /\ Ready("oom", 0, <<>>)
          /\ UNCHANGED storage
    /\ UNCHANGED <<inner, far, waking, given, client>>

(* Err(Interrupted) is an error like any other here. *)
fill_peek_buf_read ==
    /\ At("fill_peek_buf", "read")
    /\ \/ \E n \in 0..Room : ReadOk(n) /\ Ready("ok", n, <<>>)
       \/ ReaderFails /\ RollBack /\ Ready("err", 0, <<>>)
    /\ UNCHANGED <<far, given, client>>

-----------------------------------------------------------------------------
(* The arms that the loops share. *)

Loops == {"peek_exact"} \cup Wholes

(* Bug: Interrupted ends the poll, as if it were Pending. *)
Bug_interrupted_is_pending ==
    /\ InRead(Loops)
    /\ ReaderFails
    /\ RollBack
    /\ Pending
    /\ UNCHANGED <<far, given, client>>

(* Err(Interrupted): the growth is taken back and the loop goes round. *)
interrupted ==
    /\ InRead(Loops)
    /\ ReaderFails
    /\ RollBack
    /\ Continue("grow", 0, fut.out)
    /\ UNCHANGED <<far, given, client>>

(* Pending: the growth is taken back, the progress fields stay. *)
pending ==
    /\ InRead(Loops \cup {"fill_peek_buf"})
    /\ ReaderPends
    /\ RollBack
    /\ Pending
    /\ UNCHANGED <<far, given, client>>

-----------------------------------------------------------------------------
Call ==
    \/ \E want \in 0..MaxWant : read(want) \/ peek(want) \/ peek_exact(want)
    \/ \E len1, len2 \in 0..MaxWant : peek_vectored(len1, len2)
    \/ fill_buf
    \/ \E amt \in 0..MaxWant : BufRead_consume(amt)
    \/ consume \/ consume_in_place
    \/ peek_to_end \/ peek_to_string \/ fill_peek_buf

(* The steps of a poll: before the reader is asked; when it answers Ok or  *)
(* an Err that ends the call; when it answers Pending or is asked again.   *)
Prepare ==
    \/ poll_peek
    \/ peek_exact_enter \/ peek_exact_resize
    \/ peek_to_end_enter \/ peek_to_string_enter \/ grow_peek_buffer
    \/ fill_peek_buf_enter

Outcome ==
    \/ poll_read \/ poll_fill_buf
    \/ poll_peek_read \/ peek_exact_read \/ peek_whole_read
    \/ fill_peek_buf_read

NoOutcome ==
    \/ delegated_pends \/ poll_peek_blocked \/ pending
    \/ poll_peek_again \/ interrupted

Next ==
    \/ Arrive \/ Close
    \/ Call \/ poll \/ drop_future
    \/ Prepare \/ Outcome \/ NoOutcome

Spec == Init /\ [][Next]_vars

(* A new or woken task is polled, and a poll runs to its end; the far end  *)
(* closes some day; a reader asked again and again does not answer         *)
(* Interrupted, or yield, for ever.                                        *)
poll_due == poll /\ (fut.pc = "ready" \/ woken)

Fairness ==
    /\ WF_vars(poll_due)
    /\ WF_vars(Prepare \/ Outcome \/ NoOutcome)
    /\ SF_vars(Outcome)
    /\ WF_vars(Close)

FairSpec == Spec /\ Fairness

-----------------------------------------------------------------------------
(* Types. *)

Ops == {"none", "read", "fill_buf", "BufRead_consume", "consume",
        "consume_in_place", "peek", "peek_vectored", "peek_exact",
        "peek_to_end", "peek_to_string", "fill_peek_buf"}

Statuses == {"none", "ok", "err", "oom", "eof", "invalid", "rejected"}

(* What a caller gets are bytes of the stream; the peek buffer also holds *)
(* filler while the reader is being asked.                                *)
Delivered == Seq(1..N)

FutureType ==
    [op : Ops, pc : {"none", "ready", "parked", "enter", "grow", "read"},
     want : Nat, old : Nat, first : BOOLEAN, out : Delivered]

AnswerType ==
    [op : Ops, st : Statuses, want : Nat, n : Nat, out : Delivered]

(* The variables hold what their declarations say, and no caller is given *)
(* filler.                                                                *)
TypeOK ==
    /\ ReaderTypeOK
    /\ text \in Texts
    /\ buffer \in Seq(0..N)
    /\ cap \in Nat
    /\ buf_cap \in BufCaps
    /\ pos \in Nat /\ lent \in Nat
    /\ fut \in FutureType
    /\ ret \in AnswerType

-----------------------------------------------------------------------------
(* Safety. *)

(* While the reader is being asked, the tail above old_len is filler. *)
Held == IF fut.pc = "read" THEN fut.old ELSE Len(buffer)

(* No byte is lost, duplicated, reordered or invented.  A Pending is a     *)
(* return path too, and a future that is then dropped must have left the   *)
(* peek buffer with exactly the bytes the reader has handed out, or the    *)
(* next method shows filler, and loses or repeats what was read.           *)
StreamIntact ==
    /\ Held <= Len(buffer)
    /\ rpos = pos + Held
    /\ \A i \in 1..Held : buffer[i] = pos + i

(* The progress fields tell the truth, across any number of Pendings: what *)
(* PeekExact and PeekToEnd have given their caller is what has been peeked *)
(* (`filled` = 0 doubles as "not polled yet", so it must not be 0 with     *)
(* bytes delivered), and FillPeekBuf's snapshot of the buffer is not stale *)
(* when it is used.  The reader is never asked to fill an empty slice.     *)
ProgressIntact ==
    /\ fut.op \in {"peek_exact", "peek_to_end"} /\ fut.pc \in {"grow", "read", "parked"}
         => fut.out = Slice(pos, Held)
    /\ fut.op = "peek_exact" /\ fut.pc \in {"grow", "read", "parked"}
         => Held < fut.want
    /\ fut.op = "fill_peek_buf" => fut.old = Held /\ fut.want = cap
    /\ fut.pc = "read" => Room > 0

(* AsyncBufRead::consume never forwards more to the reader than the reader *)
(* has shown, also when futures have peeked, waited and been dropped since *)
(* fill_buf.                                                               *)
BufReadContract ==
    /\ rpos <= ibuf /\ ibuf <= avail
    /\ pos + lent <= ibuf

(* "returns Poll::Pending and arranges for the current task to receive a   *)
(* notification": no future waits without a waker in the reader's hands,   *)
(* or a wake-up on its way.                                                *)
ParkedIsWatched == fut.pc = "parked" => armed \/ woken

(* A future does not wait for more while it could answer: read, fill_buf   *)
(* and peek wait only if nothing has been peeked.                          *)
WaitsForSomething ==
    fut.pc = "parked" =>
        /\ fut.op \in {"read", "fill_buf", "peek", "peek_vectored"}
             => buffer = <<>>
        /\ fut.op = "peek_exact" => Len(buffer) < fut.want

(* Seen by its callers, the wrapper is the stream with two cursors of      *)
(* PeekStream: Pending, wake-ups and dropped futures do not show in it.    *)
Abstract == INSTANCE PeekStream WITH seen <- rpos

ImplementsPeekStream == Abstract!Spec

(* The wrapper keeps towards its callers the contract of AsyncRead and     *)
(* AsyncBufRead that it relies on towards its inner reader, whatever was   *)
(* peeked, parked or dropped in between: an empty poll_fill_buf or         *)
(* poll_read needs a far end that has closed.  So it may be handed on as a *)
(* reader, and be wrapped again.                                           *)
AsReader == INSTANCE PlainReader WITH at <- pos, shown <- lent, over <- closed

ActsAsReader == AsReader!Spec

-----------------------------------------------------------------------------
(* What an answer may say. *)

Answered(S) ==
    /\ ret'.op \in S
    /\ ret' # ret \/ (fut.pc \in {"enter", "grow", "read"} /\ fut'.pc = "none")

(* "End of file" is not "nothing yet" (for read and fill_buf see           *)
(* ActsAsReader): a peek's Ok(0) for a nonempty slice, the UnexpectedEof   *)
(* of PeekExact, and the Ok of PeekToEnd and PeekToString, need a far end  *)
(* that has closed and a reader that is drained.                           *)
EofIsReal ==
    [][ /\ Answered(Peeks) /\ ret'.st = "ok" /\ ret'.n = 0
             /\ ret'.want > 0
           => closed /\ rpos' = avail /\ pos' = rpos'
        /\ Answered({"peek_exact"}) /\ ret'.st = "eof"
           => closed /\ rpos' = avail /\ rpos' < pos + ret'.want
        /\ Answered(Wholes) /\ ret'.st = "ok"
           => closed /\ rpos' = avail
      ]_vars

(* PeekExact takes the reader no further than the bytes it was asked for,  *)
(* over all its polls together.                                            *)
PeekExactBounded ==
    [][ fut.op = "peek_exact" /\ rpos' # rpos => rpos' <= pos + fut.want ]_vars

(* PeekToString turns a stream down only when it is not text: "rejected"   *)
(* before reading on, if no continuation can make it so, "invalid" at its  *)
(* end.  A character that a Pending (or an earlier peek) has split is no   *)
(* reason.                                                                 *)
StringVerdict ==
    [][ Answered({"peek_to_string"}) =>
        /\ Valid(Spelt(ret'.out))
        /\ ret'.st = "ok" => Valid(SubSeq(text, pos + 1, avail))
        /\ ret'.st = "invalid" => ~Valid(SubSeq(text, pos + 1, avail))
        /\ ret'.st = "rejected" =>
             \A t \in Texts :
               (\A i \in (pos + 1)..rpos : t[i] = text[i])
               => \A e \in rpos..N : ~Valid(SubSeq(t, pos + 1, e)) ]_vars

(* Every future that is not dropped is answered, however often the reader  *)
(* has nothing yet, is interrupted or yields.                              *)
AnsweredAtLast == fut.op # "none" ~> fut.op = "none"
=============================================================================
