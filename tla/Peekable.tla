------------------------------ MODULE Peekable ------------------------------
(***************************************************************************)
(* The synchronous wrapper Peekable<R, B> (src/src/lib.rs).                *)
(*                                                                         *)
(* A peek reads AHEAD of the consumer: the bytes come out of the inner     *)
(* reader for good, and the peek buffer is the only place left that holds  *)
(* them until the consumer asks for them.  Every peeking method therefore  *)
(* grows the buffer first, lets the reader write into the grown tail, and  *)
(* cuts the tail back to what the reader really wrote.                     *)
(*                                                                         *)
(* A method takes `&mut self`, so calls never overlap; one call is several *)
(* steps here because the inner reader is called in a loop, may answer     *)
(* Interrupted, short, Err or Ok(0) each time, and may be given new bytes  *)
(* by someone else in between (Arrive: a file that grows, a socket).       *)
(***************************************************************************)
EXTENDS PeekBuffer, Utf8

CONSTANTS
    N,        \* bound: bytes the stream may grow to
    MaxWant,  \* bound: longest caller slice, longest BufRead::consume
    BufCaps,  \* capacities the constructors are given (None: without one)
    Texts     \* what the stream may spell, see Utf8

ASSUME ClientAssumption ==
    /\ N \in Nat
    /\ MaxWant \in Nat
    /\ BufCaps \subseteq Nat \cup {None}
    /\ Texts \subseteq [1..N -> Classes]

VARIABLES
    rpos,     \* inner reader: bytes it has handed out
    avail,    \* inner reader: bytes that have arrived
    ibuf,     \* inner BufRead: end of what its own buffer holds
    text,     \* class of each byte of the stream, fixed
    buffer,   \* Peekable.buffer
    cap,      \* Peekable.buffer.capacity()
    buf_cap,  \* Peekable.buf_cap
    pos,      \* history: bytes the consumer has been given or has discarded
    lent,     \* history: bytes shown by fill_buf that may still be consumed
    call,     \* the method on the stack: its locals and program counter
    ret       \* the last answer a method gave

inner == <<rpos, ibuf>>
client == <<pos, lent>>
storage == <<buffer, cap>>
given == <<text, buf_cap>>
vars == <<rpos, avail, ibuf, text, buffer, cap, buf_cap, pos, lent, call, ret>>

-----------------------------------------------------------------------------
(* Calls and answers. *)

Rest == [op |-> "none", pc |-> "idle", want |-> 0, old |-> 0,
         growth |-> READ_CHUNK, out |-> <<>>]

NoAnswer == [op |-> "none", st |-> "none", want |-> 0, n |-> 0, out |-> <<>>]

Idle == call.pc = "idle"
At(op, pc) == call.op = op /\ call.pc = pc

(* The call of op goes to pc; out is what it has copied to the caller. *)
Goto(op, pc, want, old, out) ==
    call' = [op |-> op, pc |-> pc, want |-> want, old |-> old,
             growth |-> READ_CHUNK, out |-> out]

(* A method returns: st is Ok or the kind of Err (oom: Buffer::resize    *)
(* failed, eof: UnexpectedEof, invalid and rejected: InvalidData after   *)
(* and before reading), n the number in Ok, out the bytes the caller got. *)
Answer(op, st, want, n, out) ==
    ret' = [op |-> op, st |-> st, want |-> want, n |-> n, out |-> out]

Return(st, n, out) ==
    /\ Answer(call.op, st, call.want, n, out)
    /\ call' = Rest

-----------------------------------------------------------------------------
(* The inner reader (external: any R: Read + BufRead). *)

(* read(slice) returns Ok(n), for a slice of len bytes: 0 only at the end *)
(* of what has arrived or for an empty slice.                             *)
MayRead(len, n) ==
    /\ n <= len
    /\ rpos + n <= avail
    /\ n = 0 => len = 0 \/ rpos = avail

Advance(n) ==
    /\ rpos' = rpos + n
    /\ ibuf' = Larger(ibuf, rpos + n)

(* An answer of Err, Interrupted included, hands out nothing. *)
ReaderFails == UNCHANGED inner

(* Someone else gives the reader one more byte. *)
Arrive ==
    /\ avail < N
    /\ avail' = avail + 1
    /\ UNCHANGED <<inner, given, storage, client, call, ret>>

-----------------------------------------------------------------------------
(* Growing and cutting the peek buffer. *)

(* Bug: reserve instead of resize, the length stays. *)
Bug_reserve(len) ==
    /\ Fits(len)
    /\ buffer' = buffer
    /\ cap' \in Allocate(cap, len)

(* Buffer::resize(len) returned Ok. *)
ResizeTo(len) ==
    /\ Fits(len)
    /\ buffer' = Resize(buffer, len)
    /\ cap' \in Allocate(cap, len)

(* The slice handed to reader.read: the tail that resize added. *)
Room == Len(buffer) - call.old

(* Ok(n): the reader wrote n bytes into the tail, truncate(old + n). *)
Recorded(n) == Truncate(Store(buffer, call.old, rpos, n), call.old + n)

(* Bug: no truncate on the error path. *)
Bug_keep_tail == buffer

(* Err: truncate(old) takes the resize back. *)
RolledBack == Truncate(buffer, call.old)

ReadOk(n) ==
    /\ MayRead(Room, n)
    /\ Advance(n)
    /\ buffer' = Recorded(n)
    /\ cap' = cap

ReadErr ==
    /\ ReaderFails
    /\ buffer' = RolledBack
    /\ cap' = cap

(* Err(Interrupted) where the loop calls the reader again as it stands. *)
ReadAgain == ReaderFails /\ UNCHANGED <<storage, call, ret>>

-----------------------------------------------------------------------------
(* Construction: with_buffer, with_capacity_and_buffer, construct. *)

construct ==
    /\ buffer = <<>>
    /\ buf_cap \in BufCaps
    /\ cap = FreshCapacity(buf_cap)

Init ==
    /\ rpos = 0 /\ ibuf = 0
    /\ avail \in 0..N
    /\ text \in Texts
    /\ construct
    /\ pos = 0 /\ lent = 0
    /\ call = Rest
    /\ ret = NoAnswer

-----------------------------------------------------------------------------
(* Read::read *)

(* The peek buffer holds at least as much as is wanted. *)
read_buffered(want) ==
    /\ buffer # <<>> /\ want <= Len(buffer)
    /\ buffer' = Drain(buffer, want)
    /\ pos' = pos + want
    /\ Answer("read", "ok", want, want, SubSeq(buffer, 1, want))
    /\ UNCHANGED inner

(* Bug: the error of the top-up is returned after bytes were delivered. *)
Bug_surface_error(want) ==
    /\ buffer # <<>> /\ want > Len(buffer)
    /\ buffer' = <<>>
    /\ ReaderFails
    /\ pos' = pos + Len(buffer)
    /\ Answer("read", "err", want, Len(buffer), buffer)

(* Bug: the peek buffer is cleared only when the top-up succeeds. *)
Bug_clear_on_success(want) ==
    /\ buffer # <<>> /\ want > Len(buffer)
    /\ \/ \E n \in 0..(want - Len(buffer)) :
            /\ MayRead(want - Len(buffer), n)
            /\ Advance(n)
            /\ buffer' = <<>>
            /\ pos' = pos + Len(buffer) + n
            /\ Answer("read", "ok", want, Len(buffer) + n,
                      buffer \o Slice(rpos, n))
       \/ /\ ReaderFails
          /\ buffer' = buffer
          /\ pos' = pos + Len(buffer)
          /\ Answer("read", "ok", want, Len(buffer), buffer)

(* The peek buffer is delivered, topped up by one read of the reader whose *)
(* error, if any, is dropped.                                              *)
read_top_up(want) ==
    /\ buffer # <<>> /\ want > Len(buffer)
    /\ buffer' = <<>>
    /\ \/ \E n \in 0..(want - Len(buffer)) :
            /\ MayRead(want - Len(buffer), n)
            /\ Advance(n)
            /\ pos' = pos + Len(buffer) + n
            /\ Answer("read", "ok", want, Len(buffer) + n,
                      buffer \o Slice(rpos, n))
       \/ /\ ReaderFails
          /\ pos' = pos + Len(buffer)
          /\ Answer("read", "ok", want, Len(buffer), buffer)

(* Nothing was peeked: the reader answers. *)
read_inner(want) ==
    /\ buffer = <<>>
    /\ buffer' = buffer
    /\ \/ \E n \in 0..want :
            /\ MayRead(want, n)
            /\ Advance(n)
            /\ pos' = pos + n
            /\ Answer("read", "ok", want, n, Slice(rpos, n))
       \/ /\ ReaderFails
          /\ pos' = pos
          /\ Answer("read", "err", want, 0, <<>>)

read(want) ==
    /\ Idle
    /\ read_buffered(want) \/ read_top_up(want) \/ read_inner(want)
    /\ lent' = 0
    /\ UNCHANGED <<avail, given, cap, call>>

-----------------------------------------------------------------------------
(* BufRead *)

(* The inner fill_buf (external): what its buffer still holds, or a refill. *)
inner_fill_buf ==
    /\ \/ rpos < ibuf /\ ibuf' = ibuf
       \/ rpos = ibuf /\ ibuf < avail /\ ibuf' \in (ibuf + 1)..avail
       \/ rpos = avail /\ ibuf' = ibuf
    /\ rpos' = rpos

(* Bug: a peek buffer that has storage is shown, filled or not. *)
Bug_show_empty ==
    /\ Idle
    /\ \/ /\ cap > 0
          /\ lent' = Len(buffer)
          /\ Answer("fill_buf", "ok", 0, Len(buffer), buffer)
          /\ UNCHANGED inner
       \/ /\ cap = 0
          /\ inner_fill_buf
          /\ lent' = ibuf' - rpos
          /\ Answer("fill_buf", "ok", 0, ibuf' - rpos, Slice(rpos, ibuf' - rpos))
    /\ UNCHANGED <<avail, given, storage, pos, call>>

fill_buf ==
    /\ Idle
    /\ \/ /\ buffer # <<>>
          /\ lent' = Len(buffer)
          /\ Answer("fill_buf", "ok", 0, Len(buffer), buffer)
          /\ UNCHANGED inner
       \/ /\ buffer = <<>>
          /\ inner_fill_buf
          /\ lent' = ibuf' - rpos
          /\ Answer("fill_buf", "ok", 0, ibuf' - rpos, Slice(rpos, ibuf' - rpos))
       \/ /\ buffer = <<>>
          /\ ReaderFails
          /\ lent' = 0
          /\ Answer("fill_buf", "err", 0, 0, <<>>)
    /\ UNCHANGED <<avail, given, storage, pos, call>>

(* How much of amt the peek buffer covers. *)
FromBuffer(amt) == Smaller(amt, Len(buffer))

(* Bug: `amt -= available` is missing. *)
Bug_forward_all(amt) ==
    /\ Idle
    /\ amt <= lent
    /\ buffer' = Drain(buffer, FromBuffer(amt))
    /\ rpos' = rpos + amt
    /\ pos' = pos + amt
    /\ lent' = lent - amt
    /\ Answer("BufRead_consume", "ok", amt, 0, <<>>)
    /\ UNCHANGED <<avail, ibuf, given, cap, call>>

(* BufRead::consume(amt): the peek buffer first, the rest from the reader. *)
(* The caller keeps to what fill_buf has shown.                            *)
BufRead_consume(amt) ==
    /\ Idle
    /\ amt <= lent
    /\ buffer' = Drain(buffer, FromBuffer(amt))
    /\ rpos' = rpos + (amt - FromBuffer(amt))
    /\ pos' = pos + amt
    /\ lent' = lent - amt
    /\ Answer("BufRead_consume", "ok", amt, 0, <<>>)
    /\ UNCHANGED <<avail, ibuf, given, cap, call>>

-----------------------------------------------------------------------------
(* consume, consume_in_place *)

(* Bug: buf_cap is forgotten. *)
Bug_forget_capacity ==
    /\ Idle
    /\ buffer' = <<>>
    /\ cap' = InlineCap
    /\ pos' = pos + Len(buffer)
    /\ lent' = 0
    /\ Answer("consume", "ok", 0, Len(buffer), buffer)
    /\ UNCHANGED <<inner, avail, given, call>>

consume ==
    /\ Idle
    /\ buffer' = <<>>
    /\ cap' = FreshCapacity(buf_cap)
    /\ pos' = pos + Len(buffer)
    /\ lent' = 0
    /\ Answer("consume", "ok", 0, Len(buffer), buffer)
    /\ UNCHANGED <<inner, avail, given, call>>

consume_in_place ==
    /\ Idle
    /\ buffer' = <<>>
    /\ pos' = pos + Len(buffer)
    /\ lent' = 0
    /\ Answer("consume_in_place", "ok", 0, 0, <<>>)
    /\ UNCHANGED <<inner, avail, given, cap, call>>

-----------------------------------------------------------------------------
(* peek, peek_vectored *)

(* Bug: only `want < buffer_len` is answered from the buffer. *)
Bug_equal_is_top_up(op, asked, want) ==
    /\ Idle
    /\ \/ /\ want < Len(buffer)
          /\ Answer(op, "ok", asked, want, SubSeq(buffer, 1, want))
          /\ UNCHANGED <<storage, call>>
       \/ /\ want >= Len(buffer)
          /\ Refuses(want)
          /\ Answer(op, "oom", asked, 0, <<>>)
          /\ UNCHANGED <<storage, call>>
       \/ /\ want >= Len(buffer)
          /\ ResizeTo(want)
          /\ Goto(op, "read", asked, Len(buffer), <<>>)
          /\ ret' = ret
    /\ UNCHANGED <<inner, avail, given, client>>

(* The body of peek for a slice of want bytes, entered from op; asked is    *)
(* the number of bytes the caller of op provides room for.                  *)
PeekInto(op, asked, want) ==
    /\ Idle
    /\ \/ /\ want <= Len(buffer)
          /\ Answer(op, "ok", asked, want, SubSeq(buffer, 1, want))
          /\ UNCHANGED <<storage, call>>
       \/ /\ want > Len(buffer)
          /\ Refuses(want)
          /\ Answer(op, "oom", asked, 0, <<>>)
          /\ UNCHANGED <<storage, call>>
       \/ /\ want > Len(buffer)
          /\ ResizeTo(want)
          /\ Goto(op, "read", asked, Len(buffer), <<>>)
          /\ ret' = ret
    /\ UNCHANGED <<inner, avail, given, client>>

peek(want) == PeekInto("peek", want, want)

peek_read ==
    /\ At("peek", "read") \/ At("peek_vectored", "read")
    /\ \/ \E n \in 0..Room :
            ReadOk(n) /\ Return("ok", call.old + n, buffer')
       \/ ReadErr /\ Return("err", 0, <<>>)
       \/ ReadAgain
    /\ UNCHANGED <<avail, given, client>>

(* Two caller slices: only the first nonempty one is peeked into. *)
peek_vectored(len1, len2) ==
    PeekInto("peek_vectored", len1 + len2, IF len1 > 0 THEN len1 ELSE len2)

-----------------------------------------------------------------------------
(* peek_exact *)

peek_exact(total) ==
    /\ Idle
    /\ \/ /\ total <= Len(buffer)
          /\ Answer("peek_exact", "ok", total, total, SubSeq(buffer, 1, total))
          /\ call' = call
       \/ /\ total > Len(buffer)
          /\ Goto("peek_exact", "grow", total, 0, buffer)
          /\ ret' = ret
    /\ UNCHANGED <<inner, avail, given, storage, client>>

(* Bug: what is already filled is asked for again. *)
Bug_ask_for_all == call.want

(* What is left to fill: total - filled. *)
Missing == call.want - Len(call.out)

(* Head of the while loop. *)
peek_exact_resize ==
    /\ At("peek_exact", "grow")
    /\ \/ /\ ResizeTo(Len(buffer) + Missing)
          /\ Goto("peek_exact", "read", call.want, Len(buffer), call.out)
          /\ ret' = ret
       \/ /\ Refuses(Len(buffer) + Missing)
          /\ Return("oom", 0, call.out)
          /\ UNCHANGED storage
    /\ UNCHANGED <<inner, avail, given, client>>

peek_exact_read ==
    /\ At("peek_exact", "read")
    /\ \/ /\ ReadOk(0)
          /\ Return("eof", 0, call.out)
       \/ \E n \in 1..Room :
            /\ ReadOk(n)
            /\ LET out == call.out \o SubSeq(buffer', call.old + 1, call.old + n)
               IN  \/ /\ Len(out) < call.want
                      /\ Goto("peek_exact", "grow", call.want, 0, out)
                      /\ ret' = ret
                   \/ /\ Len(out) >= call.want
                      /\ Return("ok", Len(out), out)
       \/ ReadErr /\ Return("err", 0, call.out)
       \/ ReadAgain
    /\ UNCHANGED <<avail, given, client>>

-----------------------------------------------------------------------------
(* peek_to_end, peek_to_string and grow_peek_buffer *)

(* Bug: what is already in the peek buffer is not copied out. *)
Bug_forget_prefix ==
    /\ Idle
    /\ Goto("peek_to_end", "grow", 0, 0, <<>>)
    /\ ret' = ret
    /\ UNCHANGED <<inner, avail, given, storage, client>>

peek_to_end ==
    /\ Idle
    /\ Goto("peek_to_end", "grow", 0, 0, buffer)
    /\ ret' = ret
    /\ UNCHANGED <<inner, avail, given, storage, client>>

(* The bytes b as from_utf8 sees them; a zero byte is the character NUL. *)
Spelt(b) == [i \in 1..Len(b) |-> IF b[i] = Zero THEN "ascii" ELSE text[b[i]]]

(* Bug: any from_utf8 error fails fast, error_len() is not looked at. *)
Bug_reject_incomplete ==
    /\ Idle
    /\ \/ /\ ~Valid(Spelt(buffer))
          /\ Answer("peek_to_string", "rejected", 0, 0, <<>>)
          /\ call' = call
       \/ /\ Valid(Spelt(buffer))
          /\ Goto("peek_to_string", "grow", 0, 0, <<>>)
          /\ ret' = ret
    /\ UNCHANGED <<inner, avail, given, storage, client>>

peek_to_string ==
    /\ Idle
    /\ \/ /\ DefinitelyInvalid(Spelt(buffer))
          /\ Answer("peek_to_string", "rejected", 0, 0, <<>>)
          /\ call' = call
       \/ /\ ~DefinitelyInvalid(Spelt(buffer))
          /\ Goto("peek_to_string", "grow", 0, 0, <<>>)
          /\ ret' = ret
    /\ UNCHANGED <<inner, avail, given, storage, client>>

(* Bug: the valid prefix is dropped when the reader fails. *)
Bug_drop_prefix(st, b) ==
    \/ /\ Valid(Spelt(b))
       /\ Return(st, IF st = "ok" THEN Len(b) ELSE 0, b)
    \/ /\ ~Valid(Spelt(b))
       /\ Return(IF st = "ok" THEN "invalid" ELSE st, 0, <<>>)

(* The end of peek_to_string: (loop_result, from_utf8(b)) decide. *)
Conclude(st, b) ==
    \/ /\ Valid(Spelt(b))
       /\ Return(st, IF st = "ok" THEN Len(b) ELSE 0, b)
    \/ /\ ~Valid(Spelt(b)) /\ st = "ok"
       /\ Return("invalid", 0, <<>>)
    \/ /\ ~Valid(Spelt(b)) /\ st # "ok"
       /\ \E vut \in 0..Len(b) :
            vut = ValidUpTo(Spelt(b)) /\ Return(st, 0, SubSeq(b, 1, vut))

(* grow_peek_buffer: one attempt of its loop. *)
grow_ok ==
    /\ ResizeTo(Len(buffer) + call.growth)
    /\ call' = [call EXCEPT !.pc = "read", !.old = Len(buffer)]
    /\ ret' = ret

(* Bug: halved down to zero. *)
Bug_halve_to_zero ==
    /\ Refuses(Len(buffer) + call.growth)
    /\ call' = [call EXCEPT !.growth = @ \div 2]
    /\ UNCHANGED <<storage, ret>>

(* Bug: the same growth is tried again. *)
Bug_same_growth ==
    /\ Refuses(Len(buffer) + call.growth)
    /\ call.growth > 1
    /\ UNCHANGED <<call, storage, ret>>

(* Bug: the growth is quartered. *)
Bug_quarter ==
    /\ Refuses(Len(buffer) + call.growth)
    /\ call.growth > 1
    /\ call' = [call EXCEPT !.growth = Larger(1, @ \div 4)]
    /\ UNCHANGED <<storage, ret>>

grow_halve ==
    /\ Refuses(Len(buffer) + call.growth)
    /\ call.growth > 1
    /\ call' = [call EXCEPT !.growth = @ \div 2]
    /\ UNCHANGED <<storage, ret>>

(* Bug: the first failing resize is final. *)
Bug_fail_at_once ==
    /\ Refuses(Len(buffer) + call.growth)
    /\ \/ call.op = "peek_to_end" /\ Return("oom", 0, call.out)
       \/ call.op = "peek_to_string" /\ Conclude("oom", buffer)
    /\ UNCHANGED storage

grow_fail ==
    /\ Refuses(Len(buffer) + call.growth)
    /\ call.growth <= 1
    /\ \/ call.op = "peek_to_end" /\ Return("oom", 0, call.out)
       \/ call.op = "peek_to_string" /\ Conclude("oom", buffer)
    /\ UNCHANGED storage

grow_peek_buffer ==
    /\ At("peek_to_end", "grow") \/ At("peek_to_string", "grow")
    /\ grow_ok \/ grow_halve \/ grow_fail
    /\ UNCHANGED <<inner, avail, given, client>>

(* Back to the head of the loop, with what the caller has been given. *)
Again(out) == Goto(call.op, "grow", call.want, 0, out) /\ ret' = ret

peek_to_end_read ==
    /\ At("peek_to_end", "read")
    /\ \/ ReadOk(0) /\ Return("ok", Len(buffer'), call.out)
       \/ \E n \in 1..Room :
            /\ ReadOk(n)
            /\ Again(call.out \o SubSeq(buffer', call.old + 1, call.old + n))
       \/ ReadErr /\ Return("err", 0, call.out)
    /\ UNCHANGED <<avail, given, client>>

peek_to_string_read ==
    /\ At("peek_to_string", "read")
    /\ \/ ReadOk(0) /\ Conclude("ok", buffer')
       \/ \E n \in 1..Room : ReadOk(n) /\ Again(<<>>)
       \/ ReadErr /\ Conclude("err", buffer')
    /\ UNCHANGED <<avail, given, client>>

(* Interrupted in either: the growth is taken back and tried anew. *)
peek_to_interrupted ==
    /\ At("peek_to_end", "read") \/ At("peek_to_string", "read")
    /\ ReadErr
    /\ Again(call.out)
    /\ UNCHANGED <<avail, given, client>>

-----------------------------------------------------------------------------
(* fill_peek_buf *)

fill_peek_buf ==
    /\ Idle
    /\ \/ /\ ResizeTo(cap)
          /\ Goto("fill_peek_buf", "read", 0, Len(buffer), <<>>)
          /\ ret' = ret
       \/ /\ Refuses(cap)
          /\ Answer("fill_peek_buf", "oom", 0, 0, <<>>)
          /\ UNCHANGED <<storage, call>>
    /\ UNCHANGED <<inner, avail, given, client>>

fill_peek_buf_read ==
    /\ At("fill_peek_buf", "read")
    /\ \/ \E n \in 0..Room : ReadOk(n) /\ Return("ok", n, <<>>)
       \/ ReadErr /\ Return("err", 0, <<>>)
       \/ ReadAgain
    /\ UNCHANGED <<avail, given, client>>

-----------------------------------------------------------------------------
Call ==
    \/ \E want \in 0..MaxWant :
         read(want) \/ peek(want) \/ peek_exact(want)
    \/ \E len1, len2 \in 0..MaxWant : peek_vectored(len1, len2)
    \/ fill_buf
    \/ \E amt \in 0..MaxWant : BufRead_consume(amt)
    \/ consume \/ consume_in_place
    \/ peek_to_end \/ peek_to_string \/ fill_peek_buf

Step ==
    \/ peek_read
    \/ peek_exact_resize \/ peek_exact_read
    \/ grow_peek_buffer \/ peek_to_end_read \/ peek_to_string_read
    \/ peek_to_interrupted
    \/ fill_peek_buf_read

Next == Arrive \/ Call \/ Step

Spec == Init /\ [][Next]_vars

(* The reader does not answer Interrupted for ever, and a method that has *)
(* been called runs on.                                                   *)
Fairness ==
    /\ WF_vars(peek_exact_resize) /\ WF_vars(grow_peek_buffer)
    /\ WF_vars(peek_read) /\ WF_vars(peek_exact_read)
    /\ WF_vars(fill_peek_buf_read)
    /\ SF_vars(peek_to_end_read) /\ SF_vars(peek_to_string_read)

FairSpec == Spec /\ Fairness

-----------------------------------------------------------------------------
(* Types. *)

Ops == {"none", "read", "fill_buf", "BufRead_consume", "consume",
        "consume_in_place", "peek", "peek_vectored", "peek_exact",
        "peek_to_end", "peek_to_string", "fill_peek_buf"}

Statuses == {"none", "ok", "err", "oom", "eof", "invalid", "rejected"}

Bytes == Seq(Nat)

CallType == [op : Ops, pc : {"idle", "grow", "read"}, want : Nat,
             old : Nat, growth : Nat \ {0}, out : Bytes]

AnswerType == [op : Ops, st : Statuses, want : Nat, n : Nat, out : Bytes]

(* The variables hold what their declarations say. *)
TypeOK ==
    /\ rpos \in Nat /\ avail \in 0..N /\ ibuf \in Nat
    /\ text \in Texts
    /\ buffer \in Bytes
    /\ cap \in Nat
    /\ buf_cap \in BufCaps
    /\ pos \in Nat /\ lent \in Nat
    /\ call \in CallType
    /\ ret \in AnswerType

-----------------------------------------------------------------------------
(* Safety. *)

(* While the reader is being asked, the tail above call.old is filler. *)
Held == IF call.pc = "read" THEN call.old ELSE Len(buffer)

(* No byte is lost, duplicated, reordered or invented: at every moment the *)
(* peek buffer holds exactly the bytes that the reader has handed out and  *)
(* the consumer has not had, in order.  Every return path of every method  *)
(* (short read, end of file, Err, Interrupted, failed resize) must leave   *)
(* it so; a missing truncate shows as a zero, a missing clear as a repeat. *)
StreamIntact ==
    /\ Held <= Len(buffer)
    /\ rpos = pos + Held
    /\ \A i \in 1..Held : buffer[i] = pos + i

(* Inside a call, what the caller has been given so far is exactly what    *)
(* the peek buffer holds (peek_exact and peek_to_end copy piece by piece,  *)
(* into a buffer that is not the one they read into), the reader is never  *)
(* asked to fill an empty slice (its Ok(0) would be taken for the end of   *)
(* the file; fill_peek_buf, which only reports the number, may), and the   *)
(* slice of peek and peek_exact is just what is missing (that of           *)
(* peek_vectored is no more than the caller's slices together).            *)
Growing == {"peek_exact", "peek_to_end", "peek_to_string"}
Reading == Growing \cup {"peek", "peek_vectored", "fill_peek_buf"}

CallIntact ==
    /\ call.pc = "idle" => call.op = "none"
    /\ call.pc = "grow" => call.op \in Growing
    /\ call.pc = "read" => /\ call.op \in Reading
                           /\ call.op # "fill_peek_buf" => Room > 0
    /\ call.op \in {"peek_exact", "peek_to_end"} => call.out = Slice(pos, Held)
    /\ call.op = "peek_exact" => Held < call.want
    /\ At("peek_exact", "read") \/ At("peek", "read") => Len(buffer) = call.want
    /\ At("peek_vectored", "read") => Len(buffer) <= call.want

(* BufRead::consume forwards what the peek buffer does not cover to the    *)
(* reader, which requires that it has shown those bytes: true even when    *)
(* peeks run between fill_buf and consume and move bytes from the reader   *)
(* into the peek buffer.                                                   *)
BufReadContract ==
    /\ rpos <= ibuf /\ ibuf <= avail
    /\ pos + lent <= ibuf

(* The peek buffer keeps to its capacity, and the capacity the user asked  *)
(* for survives every call, `consume` (which replaces the buffer) included. *)
CapacityKept ==
    /\ Len(buffer) <= cap
    /\ InlineCap <= cap
    /\ buf_cap # None => buf_cap <= cap

(* The wrapper is the stream with two cursors that PeekStream describes:   *)
(* what its callers see of it could come from a reader that keeps its      *)
(* bytes and lets them be looked at.                                       *)
Abstract == INSTANCE PeekStream WITH seen <- rpos

ImplementsPeekStream == Abstract!Spec

(* The wrapper keeps towards its callers the contract of Read and BufRead  *)
(* that it relies on towards its inner reader, whatever was peeked in      *)
(* between: an empty fill_buf or read is the end for both of them, bytes   *)
(* shown can be consumed, an Err has moved nothing.  So it may be handed   *)
(* on as a reader, and be wrapped again.                                   *)
AsReader == INSTANCE PlainReader WITH at <- pos, shown <- lent, over <- TRUE

ActsAsReader == AsReader!Spec

-----------------------------------------------------------------------------
(* What an answer may say.  `Answered(S)`: a step in which a method of S   *)
(* returns, seen by a new answer or by its call leaving the stack.         *)

Answered(S) == ret'.op \in S /\ (ret' # ret \/ (~Idle /\ Idle'))

(* "End of file" is only reported at the end of the file (for read and     *)
(* fill_buf see ActsAsReader): a peek's Ok(0) for a nonempty slice,        *)
(* UnexpectedEof, and the Ok of peek_to_end and peek_to_string, mean that  *)
(* the reader has nothing left, and (first two) that no peeked byte is     *)
(* held back.  A reader asked to fill an empty slice also says Ok(0), so a *)
(* growth of zero would be taken for the end.                              *)
EofIsReal ==
    [][ /\ Answered({"peek", "peek_vectored"}) /\ ret'.st = "ok" /\ ret'.n = 0
             /\ ret'.want > 0
           => rpos' = avail /\ pos' = rpos'
        /\ Answered({"peek_exact"}) /\ ret'.st = "eof"
           => rpos' = avail /\ rpos' < pos + ret'.want
        /\ Answered({"peek_to_end", "peek_to_string"}) /\ ret'.st = "ok"
           => rpos' = avail
      ]_vars

(* "never peek more than would be necessary": peek_exact takes the reader  *)
(* no further than the bytes it was asked for, however short the reads.    *)
PeekExactBounded ==
    [][ call.op = "peek_exact" /\ rpos' # rpos => rpos' <= pos + call.want ]_vars

(* The attempts of grow_peek_buffer together, however many there are, take *)
(* the largest growth that the back end does not refuse, or fail when it   *)
(* refuses every one: what the asynchronous models take the loop for.      *)
GrowsAsOneStep ==
    [][ /\ call.pc = "grow" /\ call'.pc = "read" /\ call.op # "peek_exact"
             => GrowsBy(Len(buffer), Len(buffer') - Len(buffer))
        /\ Answered({"peek_to_end", "peek_to_string"}) /\ ret'.st = "oom"
             => CannotGrow(Len(buffer)) ]_vars

(* A Buffer that fails only beyond its bound (not Flaky) fails peek_to_end *)
(* and peek_to_string only when it is filled to its last byte with bytes   *)
(* of the stream: grow_peek_buffer tries ever smaller growths first, so a  *)
(* bound above the stream's length is always enough.                       *)
FailsOnlyWhenFull ==
    [][ Answered({"peek_to_end", "peek_to_string"}) /\ ret'.st = "oom"
        => Len(buffer') = Bound /\ pos + Bound <= avail ]_vars

(* peek_to_string never breaks its String, accepts only a stream that is   *)
(* valid to its end, and turns a stream down only when it cannot become    *)
(* valid: before reading, for every way the stream may go on (a peek may   *)
(* have split a character); at the end of the file, for the whole of it.   *)
StringVerdict ==
    [][ Answered({"peek_to_string"}) =>
        /\ Valid(Spelt(ret'.out))
        /\ ret'.st = "ok" => Valid(SubSeq(text, pos + 1, avail))
        /\ ret'.st = "invalid" => ~Valid(SubSeq(text, pos + 1, avail))
        /\ ret'.st = "rejected" =>
             \A t \in Texts :
               (\A i \in (pos + 1)..rpos : t[i] = text[i])
               => \A e \in rpos..N : ~Valid(SubSeq(t, pos + 1, e)) ]_vars

(* When peek_to_string fails on the way, the caller keeps the longest      *)
(* prefix that is text: no shorter, no longer.                             *)
LongestPrefixKept ==
    [][ Answered({"peek_to_string"}) /\ ret'.st \in {"err", "oom"} =>
        /\ ret'.out = SubSeq(buffer', 1, Len(ret'.out))
        /\ \A k \in (Len(ret'.out) + 1)..Len(buffer') :
             ~Valid(Spelt(SubSeq(buffer', 1, k))) ]_vars

(* Every call returns, however often the reader is interrupted and however *)
(* the back end fails: no loop of peek_exact, peek_to_end, peek_to_string  *)
(* or grow_peek_buffer spins.                                              *)
CallsReturn == ~Idle ~> Idle

-----------------------------------------------------------------------------
(* What the repository's words say and its code does not do. *)

(* "This method must behave equivalently to a single call to `peek` with   *)
(* concatenated buffers": as many bytes as are peeked, up to the room.     *)
VectoredAsConcatenated ==
    [][ Answered({"peek_vectored"}) /\ ret'.st = "ok"
        => ret'.n = Smaller(ret'.want, rpos' - pos) ]_vars

(* "When the consumed bytes are not valid UTF-8 (e.g. the reader errored   *)
(* mid multi-byte sequence) the `String` is still left unchanged."         *)
StringUnchangedOnInvalid ==
    [][ Answered({"peek_to_string"}) /\ ret'.st = "err"
          /\ ~Valid(Spelt(buffer'))
        => ret'.out = <<>> ]_vars
=============================================================================
