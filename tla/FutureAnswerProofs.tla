------------------------- MODULE FutureAnswerProofs -------------------------
(***************************************************************************)
(* What FuturePeekable answers: that it is a reader (PlainReader) and a    *)
(* stream with two cursors (PeekStream), whatever its futures peeked,      *)
(* waited for or left behind when they were dropped, that its ends of file *)
(* are real, that PeekExact reads no further than it must, and that        *)
(* PeekToString judges rightly.  All of them follow step by step from the  *)
(* inductive invariant of FutureProofs.                                    *)
(***************************************************************************)
EXTENDS FutureProofs

-----------------------------------------------------------------------------
(* A reader. *)

(* The contract speaks of the same stream. *)
LEMMA SameReaderSlice == \A p, n : AsReader!Slice(p, n) = Slice(p, n)
BY DEF AsReader!Slice, Slice

LEMMA ReadAnswers ==
    ASSUME NEW want \in Nat, NEW k \in Nat, pos \in Nat, avail \in Nat,
           k <= want, pos + k <= avail,
           k = 0 => want = 0 \/ (pos = avail /\ closed),
           Answer("read", "ok", want, k, Slice(pos, k)),
           pos' = pos + k, lent' = 0
    PROVE  AsReader!Read
<1>1. /\ ret'.op = "read" /\ ret'.st = "ok" /\ ret'.want = want
      /\ ret'.n = k /\ ret'.out = Slice(pos, k)
  BY DEF Answer
<1> QED
  BY <1>1, SameReaderSlice
  DEF AsReader!Read, AsReader!Says, AsReader!NextBytes, AsReader!AtEnd

LEMMA poll_read_is_Read ==
    ASSUME IInv, poll_read
    PROVE  AsReader!Read /\ UNCHANGED far
<1>1. /\ fut.op = "read" /\ fut.pc # "read" /\ lent' = 0 /\ UNCHANGED far
  BY DEF poll_read, At
<1>2. PICK want \in Nat : want = fut.want
  BY Facts
<1>3. PICK len \in Nat : /\ Len(buffer) = len /\ buffer = Slice(pos, len)
                         /\ rpos = pos + len
  BY <1>1, AllPeeked
<1>4. /\ pos \in Nat /\ avail \in Nat /\ pos + len <= avail
      /\ (buffer = <<>> <=> len = 0)
  <2>1. pos \in Nat /\ avail \in Nat /\ rpos <= avail /\ buffer \in Seq(Nat)
    <3>1. rpos \in Nat /\ ibuf \in Nat /\ avail \in Nat /\ rpos <= ibuf /\ ibuf <= avail
      BY Facts
    <3> QED
      BY <3>1, Facts
  <2> QED
    BY <1>3, <2>1, EmptySeq
<1>5. ASSUME NEW st, NEW n, NEW out, Ready(st, n, out)
      PROVE  Answer("read", st, want, n, out)
  BY <1>1, <1>2, <1>5 DEF Ready
<1>6. CASE read_buffered
  <2>1. want <= len /\ pos' = pos + want
    BY <1>2, <1>3, <1>6 DEF read_buffered
  <2>2. Answer("read", "ok", want, want, Slice(pos, want))
    <3>1. SubSeq(buffer, 1, want) = Slice(pos, want)
      BY <1>1, <1>3, <2>1, FrontIsNext
    <3>2. Ready("ok", want, SubSeq(buffer, 1, want))
      BY <1>2, <1>6 DEF read_buffered
    <3> QED
      BY <1>5, <3>1, <3>2
  <2>3. pos + want <= avail /\ (want = 0 => want = 0 \/ (pos = avail /\ closed))
    BY <1>4, <2>1
  <2> QED
    BY <1>1, <1>4, <2>1, <2>2, <2>3, ReadAnswers
<1>7. CASE read_top_up
  <2>1. len > 0 /\ want > len
    BY <1>2, <1>3, <1>4, <1>7 DEF read_top_up
  <2>2. CASE \E n \in 0..(fut.want - Len(buffer)) :
            /\ MayRead(fut.want - Len(buffer), n)
            /\ pos' = pos + Len(buffer) + n
            /\ Ready("ok", Len(buffer) + n, buffer \o Slice(rpos, n))
    <3>1. PICK n \in 0..(want - len) :
            /\ rpos + n <= avail
            /\ pos' = pos + len + n
            /\ Ready("ok", len + n, buffer \o Slice(rpos, n))
      BY <1>2, <1>3, <2>2 DEF MayRead
    <3>2. n \in Nat /\ len + n \in Nat /\ len + n <= want /\ len + n # 0
      BY <2>1
    <3>3. buffer \o Slice(rpos, n) = Slice(pos, len + n)
      BY <1>1, <1>3, <3>1, <3>2, JoinedSlice
    <3>4. pos + (len + n) <= avail /\ pos' = pos + (len + n)
      BY <1>3, <1>4, <3>1, <3>2
    <3>5. Answer("read", "ok", want, len + n, Slice(pos, len + n))
      BY <1>5, <3>1, <3>3
    <3> QED
      BY <1>1, <1>4, <3>2, <3>4, <3>5, ReadAnswers
  <2>3. CASE pos' = pos + Len(buffer) /\ Ready("ok", Len(buffer), buffer)
    <3>1. len <= want /\ len # 0 /\ pos' = pos + len
      BY <1>3, <2>1, <2>3
    <3>2. Answer("read", "ok", want, len, Slice(pos, len))
      BY <1>3, <1>5, <2>3
    <3> QED
      BY <1>1, <1>4, <3>1, <3>2, ReadAnswers
  <2> QED
    BY <1>7, <2>2, <2>3 DEF read_top_up
<1>8. CASE read_inner
  <2>1. rpos = pos
    BY <1>3, <1>4, <1>8 DEF read_inner
  <2>2. CASE \E n \in 0..fut.want :
            /\ MayRead(fut.want, n)
            /\ pos' = pos + n
            /\ Ready("ok", n, Slice(rpos, n))
    <3>1. PICK n \in 0..want :
            /\ MayRead(want, n)
            /\ pos' = pos + n
            /\ Ready("ok", n, Slice(rpos, n))
      BY <1>2, <2>2
    <3>2. /\ n \in Nat /\ n <= want /\ pos + n <= avail
          /\ n = 0 => want = 0 \/ (pos = avail /\ closed)
      BY <2>1, <3>1 DEF MayRead
    <3>3. Answer("read", "ok", want, n, Slice(pos, n))
      BY <1>5, <2>1, <3>1
    <3> QED
      BY <1>1, <1>4, <3>1, <3>2, <3>3, ReadAnswers
  <2>3. CASE pos' = pos /\ Ready("err", 0, <<>>)
    BY <1>1, <1>5, <2>3 DEF Answer, AsReader!Read, AsReader!Says
  <2> QED
    BY <1>8, <2>2, <2>3 DEF read_inner
<1> QED
  BY <1>1, <1>6, <1>7, <1>8 DEF poll_read

LEMMA FillBufAnswers ==
    ASSUME NEW want, NEW k \in Nat, pos \in Nat, avail \in Nat,
           pos + k <= avail, k = 0 => pos = avail /\ closed,
           Answer("fill_buf", "ok", want, k, Slice(pos, k)),
           pos' = pos, lent' = k
    PROVE  AsReader!FillBuf
<1>1. /\ ret'.op = "fill_buf" /\ ret'.st = "ok"
      /\ ret'.n = k /\ ret'.out = Slice(pos, k)
  BY DEF Answer
<1> QED
  BY <1>1, SameReaderSlice
  DEF AsReader!FillBuf, AsReader!Says, AsReader!NextBytes, AsReader!AtEnd

(* What the reader's own buffer shows has arrived. *)
LEMMA Shown ==
    ASSUME rpos \in Nat, ibuf \in Nat, avail \in Nat, rpos <= ibuf, ibuf <= avail,
           ReaderShows
    PROVE  \E k \in Nat : /\ ibuf' = rpos + k /\ ibuf' - rpos = k
                          /\ rpos + k <= avail
                          /\ k = 0 => rpos = avail /\ closed
<1>1. CASE rpos < ibuf /\ ibuf' = ibuf
  <2>1. PICK k \in Nat : k = ibuf - rpos
    OBVIOUS
  <2> QED
    BY <1>1, <2>1
<1>2. CASE rpos = ibuf /\ ibuf < avail /\ ibuf' \in (ibuf + 1)..avail
  <2>1. ASSUME NEW i \in (ibuf + 1)..avail
        PROVE  \E k \in Nat : /\ i = rpos + k /\ i - rpos = k
                              /\ rpos + k <= avail /\ k # 0
    <3>1. i \in Nat /\ rpos + 1 <= i /\ i <= avail
      BY <1>2
    <3>2. PICK k \in Nat : k = i - rpos
      BY <3>1
    <3> QED
      BY <3>1, <3>2
  <2> QED
    BY <1>2, <2>1
<1>3. CASE rpos = avail /\ closed /\ ibuf' = ibuf
  BY <1>3
<1> QED
  BY <1>1, <1>2, <1>3 DEF ReaderShows

LEMMA poll_fill_buf_is_FillBuf ==
    ASSUME IInv, poll_fill_buf
    PROVE  AsReader!FillBuf /\ UNCHANGED far
<1>1. fut.op = "fill_buf" /\ fut.pc # "read" /\ pos' = pos /\ UNCHANGED far
  BY DEF poll_fill_buf, At
<1>2. PICK len \in Nat : /\ Len(buffer) = len /\ buffer = Slice(pos, len)
                         /\ rpos = pos + len
  BY <1>1, AllPeeked
<1>3. /\ pos \in Nat /\ rpos \in Nat /\ ibuf \in Nat /\ avail \in Nat
      /\ rpos <= ibuf /\ ibuf <= avail /\ buffer \in Seq(Nat)
  BY Facts
<1>4. pos + len <= avail /\ (buffer = <<>> <=> len = 0)
  BY <1>2, <1>3, EmptySeq
<1>5. ASSUME NEW st, NEW n, NEW out, Ready(st, n, out)
      PROVE  Answer("fill_buf", st, fut.want, n, out)
  BY <1>1, <1>5 DEF Ready
<1>6. CASE /\ buffer # <<>>
           /\ lent' = Len(buffer)
           /\ Ready("ok", Len(buffer), buffer)
  <2>1. len # 0 /\ lent' = len
    BY <1>2, <1>4, <1>6
  <2>2. Answer("fill_buf", "ok", fut.want, len, Slice(pos, len))
    BY <1>2, <1>5, <1>6
  <2> QED
    BY <1>1, <1>3, <1>4, <2>1, <2>2, FillBufAnswers
<1>7. CASE /\ buffer = <<>>
           /\ ReaderShows
           /\ lent' = ibuf' - rpos
           /\ Ready("ok", ibuf' - rpos, Slice(rpos, ibuf' - rpos))
  <2>1. rpos = pos
    BY <1>2, <1>3, <1>4, <1>7
  <2>2. PICK k \in Nat : /\ ibuf' - rpos = k /\ rpos + k <= avail
                         /\ k = 0 => rpos = avail /\ closed
    BY <1>3, <1>7, Shown
  <2>3. Answer("fill_buf", "ok", fut.want, k, Slice(pos, k)) /\ lent' = k
    BY <1>5, <1>7, <2>1, <2>2
  <2>4. pos + k <= avail /\ (k = 0 => pos = avail /\ closed)
    BY <2>1, <2>2
  <2> QED
    BY <1>1, <1>3, <2>3, <2>4, FillBufAnswers
<1>8. CASE lent' = 0 /\ Ready("err", 0, <<>>)
  BY <1>1, <1>5, <1>8 DEF Answer, AsReader!FillBuf, AsReader!Says
<1> QED
  BY <1>1, <1>6, <1>7, <1>8 DEF poll_fill_buf

LEMMA BufRead_consume_is_Consume ==
    ASSUME NEW amt \in Nat, BufRead_consume(amt)
    PROVE  AsReader!Consume /\ UNCHANGED far
BY DEF BufRead_consume, Answer, AsReader!Consume, AsReader!Says

LEMMA DiscardIsSkip ==
    ASSUME IInv, Free, NEW op \in {"consume", "consume_in_place"}, NEW n,
           NEW out, pos' = pos + Len(buffer), lent' = 0,
           Answer(op, "ok", 0, n, out)
    PROVE  AsReader!Skip
<1>1. PICK len \in Nat : Len(buffer) = len /\ rpos = pos + len
  BY AllPeeked DEF Free
<1>2. pos' = pos + len /\ pos + len <= avail /\ pos <= pos + len
  BY <1>1, Facts
<1>3. ret'.op = op /\ ret'.st = "ok"
  BY DEF Answer
<1> QED
  BY <1>2, <1>3 DEF AsReader!Skip, AsReader!Says

LEMMA consume_is_Skip ==
    ASSUME IInv, consume \/ consume_in_place
    PROVE  AsReader!Skip /\ UNCHANGED far
<1>1. CASE consume
  BY <1>1, DiscardIsSkip DEF consume
<1>2. CASE consume_in_place
  BY <1>2, DiscardIsSkip DEF consume_in_place
<1> QED
  BY <1>1, <1>2

(* Nothing but a peek is answered, the consumer's cursor stays. *)
Quiet ==
    /\ ret' = ret \/ ret'.op \in Reading
    /\ pos' = pos /\ lent' \in {lent, 0} /\ UNCHANGED far

LEMMA QuietIsAside == ASSUME Quiet PROVE AsReader!Aside
BY DEF Quiet, Reading, Peeks, Loops, Wholes, AsReader!Aside

LEMMA ReadyIsPeek ==
    ASSUME fut.op \in Reading, NEW st, NEW n, NEW out, Ready(st, n, out)
    PROVE  ret'.op \in Reading
BY DEF Ready, Answer

LEMMA ConcludeIsPeek ==
    ASSUME fut.op \in Reading, NEW st, NEW b, Fail(st, b) \/ Conclude(st, b)
    PROVE  ret'.op \in Reading
BY ReadyIsPeek DEF Fail, Conclude

LEMMA CreationIsQuiet ==
    ASSUME \/ \E want \in 0..MaxWant : read(want) \/ peek(want) \/ peek_exact(want)
           \/ \E len1, len2 \in 0..MaxWant : peek_vectored(len1, len2)
           \/ fill_buf \/ peek_to_end \/ peek_to_string \/ fill_peek_buf
    PROVE  Quiet
<1>1. ASSUME NEW op, NEW want, NEW old, Create(op, want, old) PROVE Quiet
  BY <1>1 DEF Create, Quiet, client
<1> QED
  BY <1>1 DEF read, peek, peek_exact, peek_vectored, fill_buf, peek_to_end,
              peek_to_string, fill_peek_buf

LEMMA PrepareIsQuiet ==
    ASSUME Prepare
    PROVE  Quiet
<1> USE DEF Quiet, client, Continue
<1>1. Prepare => fut.op \in Reading
  BY DEF Prepare, poll_peek, peek_exact_enter, peek_exact_resize,
         peek_to_end_enter, peek_to_string_enter, grow_peek_buffer,
         fill_peek_buf_enter, At, Reading, Peeks, Loops, Wholes
<1>2. fut.op \in Reading
  BY <1>1
<1>3. ASSUME poll_peek PROVE Quiet
  BY <1>2, <1>3, ReadyIsPeek DEF poll_peek
<1>4. ASSUME peek_exact_enter PROVE Quiet
  BY <1>2, <1>4, ReadyIsPeek DEF peek_exact_enter
<1>5. ASSUME peek_exact_resize PROVE Quiet
  BY <1>2, <1>5, ReadyIsPeek DEF peek_exact_resize
<1>6. ASSUME peek_to_end_enter PROVE Quiet
  BY <1>6 DEF peek_to_end_enter
<1>7. ASSUME peek_to_string_enter PROVE Quiet
  BY <1>2, <1>7, ReadyIsPeek DEF peek_to_string_enter
<1>8. ASSUME grow_peek_buffer PROVE Quiet
  BY <1>2, <1>8, ConcludeIsPeek DEF grow_peek_buffer
<1>9. ASSUME fill_peek_buf_enter PROVE Quiet
  BY <1>2, <1>9, ReadyIsPeek DEF fill_peek_buf_enter
<1> QED
  BY <1>3, <1>4, <1>5, <1>6, <1>7, <1>8, <1>9 DEF Prepare

PeekOutcome ==
    poll_peek_read \/ peek_exact_read \/ peek_whole_read \/ fill_peek_buf_read

LEMMA PeekOutcomeIsQuiet ==
    ASSUME PeekOutcome
    PROVE  Quiet
<1> USE DEF Quiet, client, Continue
<1>1. PeekOutcome => fut.op \in Reading
  BY DEF PeekOutcome, poll_peek_read, peek_exact_read, peek_whole_read,
         fill_peek_buf_read, At, InRead, Reading, Peeks, Loops, Wholes
<1>2. fut.op \in Reading
  BY <1>1
<1>3. ASSUME poll_peek_read PROVE Quiet
  BY <1>2, <1>3, ReadyIsPeek DEF poll_peek_read
<1>4. ASSUME peek_exact_read PROVE Quiet
  BY <1>2, <1>4, ReadyIsPeek DEF peek_exact_read
<1>5. ASSUME peek_whole_read PROVE Quiet
  BY <1>2, <1>5, ReadyIsPeek, ConcludeIsPeek DEF peek_whole_read
<1>6. ASSUME fill_peek_buf_read PROVE Quiet
  BY <1>2, <1>6, ReadyIsPeek DEF fill_peek_buf_read
<1> QED
  BY <1>3, <1>4, <1>5, <1>6 DEF PeekOutcome

LEMMA NoOutcomeIsQuiet ==
    ASSUME NoOutcome
    PROVE  Quiet
<1> USE DEF Quiet, client, Continue, Pending
<1>1. ASSUME delegated_pends PROVE Quiet
  BY <1>1 DEF delegated_pends
<1>2. ASSUME poll_peek_blocked PROVE Quiet
  <2>1. fut.op \in Reading
    BY <1>2 DEF poll_peek_blocked, InRead, Reading
  <2> QED
    BY <1>2, <2>1, ReadyIsPeek DEF poll_peek_blocked
<1>3. ASSUME pending PROVE Quiet
  BY <1>3 DEF pending
<1>4. ASSUME poll_peek_again PROVE Quiet
  BY <1>4 DEF poll_peek_again
<1>5. ASSUME interrupted PROVE Quiet
  BY <1>5 DEF interrupted
<1> QED
  BY <1>1, <1>2, <1>3, <1>4, <1>5 DEF NoOutcome

LEMMA FarArrives ==
    ASSUME IInv, Arrive \/ Close
    PROVE  AsReader!Arrive
BY Facts DEF Arrive, Close, Send, HangUp, client, AsReader!Arrive

LEMMA NextIsReader ==
    ASSUME IInv, [Next]_vars
    PROVE  [AsReader!Next]_(AsReader!vars)
<1>1. ASSUME (AsReader!Read \/ AsReader!FillBuf \/ AsReader!Consume
               \/ AsReader!Skip \/ AsReader!Aside) /\ UNCHANGED far
      PROVE  AsReader!Next
  BY <1>1 DEF AsReader!Next, AsReader!source, far
<1>2. ASSUME Quiet PROVE AsReader!Next
  BY <1>1, <1>2, QuietIsAside DEF Quiet
<1>3. CASE Arrive \/ Close
  BY <1>3, FarArrives DEF AsReader!Next
<1>4. CASE Call
  <2>1. CASE \E amt \in 0..MaxWant : BufRead_consume(amt)
    <3>1. PICK amt \in 0..MaxWant : BufRead_consume(amt)
      BY <2>1
    <3>2. amt \in Nat
      BY TaskAssumption
    <3> QED
      BY <1>1, <3>1, <3>2, BufRead_consume_is_Consume
  <2>2. CASE consume \/ consume_in_place
    BY <1>1, <2>2, consume_is_Skip
  <2> QED
    BY <1>2, <1>4, <2>1, <2>2, CreationIsQuiet DEF Call
<1>5. CASE poll \/ drop_future
  BY <1>2, <1>5 DEF poll, drop_future, client, Quiet
<1>6. CASE Prepare
  BY <1>2, <1>6, PrepareIsQuiet
<1>7. CASE Outcome
  BY <1>1, <1>2, <1>7, poll_read_is_Read, poll_fill_buf_is_FillBuf,
     PeekOutcomeIsQuiet DEF Outcome, PeekOutcome
<1>8. CASE NoOutcome
  BY <1>2, <1>8, NoOutcomeIsQuiet
<1>9. CASE UNCHANGED vars
  BY <1>9 DEF vars, AsReader!vars
<1> QED
  BY <1>3, <1>4, <1>5, <1>6, <1>7, <1>8, <1>9 DEF Next

(* The wrapper keeps the contract of AsyncRead and AsyncBufRead, whatever  *)
(* was peeked, parked or dropped in between: an Ok(0) needs a far end that *)
(* has closed, and a waiting read has moved nothing.                       *)
THEOREM WrapperIsReader == Spec => ActsAsReader
<1>1. Init => AsReader!Init
  BY DEF Init, NoAnswer, AsReader!Init
<1>2. IInv /\ [Next]_vars => [AsReader!Next]_(AsReader!vars)
  BY NextIsReader
<1> QED
  BY <1>1, <1>2, Invariance, PTL DEF Spec, ActsAsReader, AsReader!Spec

-----------------------------------------------------------------------------
(* A stream with two cursors. *)

LEMMA SameStream ==
    /\ \A p, n : Abstract!Slice(p, n) = Slice(p, n)
    /\ \A a, b : Abstract!Smaller(a, b) = Smaller(a, b)
    /\ \A a, b : Abstract!Larger(a, b) = Larger(a, b)
BY DEF Abstract!Slice, Slice, Abstract!Smaller, Smaller, Abstract!Larger, Larger

(* The cursors are held bytes apart. *)
Apart(held) == rpos = pos + held /\ pos \in Nat /\ held \in Nat

LEMMA AheadIs ==
    ASSUME NEW held, Apart(held)
    PROVE  Abstract!Ahead = held /\ Abstract!Peeked = Slice(pos, held)
<1>1. Abstract!Ahead = held
  BY DEF Apart, Abstract!Ahead
<1> QED
  BY <1>1, SameStream DEF Abstract!Peeked

(* Before the reader is asked, all of the buffer is ahead. *)
LEMMA BeforeAsking ==
    ASSUME IInv, fut.pc # "read"
    PROVE  \E len \in Nat : /\ Apart(len) /\ Len(buffer) = len /\ Held = len
                            /\ buffer = Slice(pos, len)
                            /\ (buffer = <<>> <=> len = 0)
<1>1. PICK len \in Nat : /\ Held = len /\ Len(buffer) = len
                         /\ buffer = Slice(pos, len) /\ rpos = pos + len
  BY AllPeeked
<1>2. pos \in Nat /\ buffer \in Seq(Nat)
  BY Facts
<1>3. buffer = <<>> <=> len = 0
  BY <1>1, <1>2, EmptySeq
<1> QED
  BY <1>1, <1>2, <1>3 DEF Apart

(* After an Ok(n), and after any other answer. *)
LEMMA AfterOk ==
    ASSUME IInv, fut.pc = "read", Untouched, NEW n \in Nat, ReadOk(n)
    PROVE  \E old \in Nat : /\ Had(old) /\ Apart(old) /\ Held = old
                            /\ Whole(old + n) /\ old + n \in Nat
                            /\ pos' = pos /\ rpos' = rpos + n
                            /\ rpos' = pos + (old + n)
                            /\ buffer' = Slice(pos, old + n)
                            /\ Len(buffer') = old + n
                            /\ old + n <= Len(buffer)
<1>1. PICK old \in Nat : /\ Had(old) /\ Held = old /\ Whole(old + n)
                         /\ pos' = pos /\ rpos = pos + old /\ rpos' = rpos + n
                         /\ Len(buffer') = old + n /\ old + n <= Len(buffer)
  BY OkWhole
<1>2. buffer' = Slice(pos, old + n)
  BY <1>1 DEF Whole
<1>3. pos \in Nat
  BY Facts
<1>4. rpos + n = pos + (old + n) /\ old + n \in Nat
  BY <1>1, <1>3
<1> QED
  BY <1>1, <1>2, <1>3, <1>4 DEF Apart

LEMMA AfterNotOk ==
    ASSUME IInv, fut.pc = "read", Untouched, RollBack, ReaderFails \/ ReaderPends
    PROVE  \E old \in Nat : /\ Had(old) /\ Apart(old) /\ Held = old
                            /\ Whole(old) /\ pos' = pos /\ rpos' = rpos
                            /\ buffer' = Slice(pos, old) /\ Len(buffer') = old
<1>1. PICK old \in Nat : /\ Had(old) /\ Held = old /\ Whole(old)
                         /\ pos' = pos /\ rpos = pos + old /\ rpos' = rpos
                         /\ Len(buffer') = old
  BY NotOkWhole
<1> QED
  BY <1>1, Facts DEF Whole, Apart

(* A step that shows nothing. *)
Hidden == pos' = pos /\ rpos' = rpos /\ ret' = ret

LEMMA HiddenIsStutter == ASSUME Hidden PROVE UNCHANGED Abstract!vars
BY DEF Hidden, Abstract!vars

(* The reader is advanced within a poll that goes on. *)
LEMMA AdvanceIsReadAhead ==
    ASSUME rpos \in Nat, NEW n \in Nat, rpos' = rpos + n, pos' = pos, ret' = ret
    PROVE  Abstract!ReadAhead
BY DEF Abstract!ReadAhead

LEMMA ReadDelivers ==
    ASSUME NEW held, Apart(held), NEW want \in Nat, NEW k \in Nat,
           k <= want, want <= held \/ held <= k, want <= held => k = want,
           Answer("read", "ok", want, k, Slice(pos, k)), pos' = pos + k,
           rpos' = IF k <= held THEN rpos ELSE pos + k
    PROVE  Abstract!Read
<1>1. /\ ret'.op = "read" /\ ret'.st = "ok" /\ ret'.want = want
      /\ ret'.n = k /\ ret'.out = Slice(pos, k)
  BY DEF Answer
<1>2. Abstract!Ahead = held
  BY AheadIs
<1>3. Smaller(want, held) <= k /\ rpos' = Larger(rpos, pos + k)
  BY DEF Apart, Smaller, Larger
<1> QED
  BY <1>1, <1>2, <1>3, SameStream
  DEF Abstract!Read, Abstract!Answers, Abstract!Shows

LEMMA poll_read_refines ==
    ASSUME IInv, poll_read
    PROVE  Abstract!Read
<1>1. fut.op = "read" /\ fut.pc # "read"
  BY DEF poll_read, At
<1>2. PICK want \in Nat : want = fut.want
  BY Facts
<1>3. PICK len \in Nat : /\ Apart(len) /\ Len(buffer) = len
                         /\ buffer = Slice(pos, len) /\ (buffer = <<>> <=> len = 0)
  BY <1>1, BeforeAsking
<1>4. pos \in Nat /\ rpos = pos + len /\ rpos \in Nat
  BY <1>3 DEF Apart
<1>5. ASSUME NEW st, NEW n, NEW out, Ready(st, n, out)
      PROVE  Answer("read", st, want, n, out)
  BY <1>1, <1>2, <1>5 DEF Ready
<1>6. CASE read_buffered
  <2>1. want <= len /\ pos' = pos + want /\ rpos' = rpos
    BY <1>2, <1>3, <1>6 DEF read_buffered, inner
  <2>2. SubSeq(buffer, 1, want) = Slice(pos, want)
    BY <1>1, <1>3, <2>1, FrontIsNext
  <2>3. Ready("ok", want, SubSeq(buffer, 1, want))
    BY <1>2, <1>6 DEF read_buffered
  <2>4. Answer("read", "ok", want, want, Slice(pos, want))
    BY <1>5, <2>2, <2>3
  <2> QED
    BY <1>3, <2>1, <2>4, ReadDelivers
<1>7. CASE read_top_up
  <2>1. want > len
    BY <1>2, <1>3, <1>7 DEF read_top_up
  <2>2. CASE \E n \in 0..(fut.want - Len(buffer)) :
            /\ MayRead(fut.want - Len(buffer), n)
            /\ Advance(n)
            /\ pos' = pos + Len(buffer) + n
            /\ Ready("ok", Len(buffer) + n, buffer \o Slice(rpos, n))
    <3>1. PICK n \in 0..(want - len) :
            /\ rpos + n <= avail /\ rpos' = rpos + n
            /\ pos' = pos + len + n
            /\ Ready("ok", len + n, buffer \o Slice(rpos, n))
      BY <1>2, <1>3, <2>2 DEF MayRead, Advance
    <3>2. n \in Nat
      BY <2>1
    <3>3. PICK k \in Nat : k = len + n
      BY <3>2
    <3>4. buffer \o Slice(rpos, n) = Slice(pos, k)
      BY <1>1, <1>3, <3>1, <3>2, <3>3, JoinedSlice
    <3>5. k <= want /\ len <= k
      BY <2>1, <3>1, <3>2, <3>3
    <3>6. /\ pos + len + n = pos + k
          /\ rpos + n = IF k <= len THEN rpos ELSE pos + k
      BY <1>4, <3>2, <3>3
    <3>7. pos' = pos + k /\ rpos' = IF k <= len THEN rpos ELSE pos + k
      BY <3>1, <3>6
    <3>8. Answer("read", "ok", want, k, Slice(pos, k))
      BY <1>5, <3>1, <3>3, <3>4
    <3> QED
      BY <1>3, <2>1, <3>5, <3>7, <3>8, ReadDelivers
  <2>3. CASE /\ ReaderFails \/ ReaderPends
             /\ pos' = pos + Len(buffer)
             /\ Ready("ok", Len(buffer), buffer)
    <3>1. pos' = pos + len /\ rpos' = rpos
      BY <1>3, <2>3 DEF ReaderFails, ReaderPends, inner
    <3>2. Answer("read", "ok", want, len, Slice(pos, len))
      BY <1>3, <1>5, <2>3
    <3> QED
      BY <1>3, <2>1, <3>1, <3>2, ReadDelivers
  <2> QED
    BY <1>7, <2>2, <2>3 DEF read_top_up
<1>8. CASE read_inner
  <2>1. rpos = pos /\ Apart(0)
    BY <1>3, <1>4, <1>8 DEF read_inner
  <2>2. CASE \E n \in 0..fut.want :
            /\ MayRead(fut.want, n)
            /\ Advance(n)
            /\ pos' = pos + n
            /\ Ready("ok", n, Slice(rpos, n))
    <3>1. PICK n \in 0..want :
            /\ rpos' = pos + n
            /\ pos' = pos + n
            /\ Ready("ok", n, Slice(pos, n))
      BY <1>2, <2>1, <2>2 DEF Advance
    <3>2. pos + n = IF n <= 0 THEN rpos ELSE pos + n
      BY <1>4, <2>1
    <3>3. /\ n \in Nat /\ n <= want /\ 0 <= n /\ (want <= 0 => n = want)
          /\ rpos' = IF n <= 0 THEN rpos ELSE pos + n
      BY <3>1, <3>2
    <3>4. Answer("read", "ok", want, n, Slice(pos, n))
      BY <1>5, <3>1
    <3> QED
      BY <2>1, <3>1, <3>3, <3>4, ReadDelivers
  <2>3. CASE ReaderFails /\ pos' = pos /\ Ready("err", 0, <<>>)
    <3>1. Abstract!Ahead = 0
      BY <2>1, AheadIs
    <3>2. ret'.op = "read" /\ ret'.st = "err" /\ rpos' = rpos /\ pos' = pos
      BY <1>5, <2>3 DEF Answer, ReaderFails, inner
    <3> QED
      BY <3>1, <3>2 DEF Abstract!Read, Abstract!Answers
  <2> QED
    BY <1>8, <2>2, <2>3 DEF read_inner
<1> QED
  BY <1>6, <1>7, <1>8 DEF poll_read

LEMMA poll_fill_buf_refines ==
    ASSUME IInv, poll_fill_buf
    PROVE  Abstract!FillBuf
<1>1. fut.pc # "read" /\ pos' = pos /\ rpos' = rpos
  BY DEF poll_fill_buf, At, inner, ReaderShows, ReaderFails
<1>2. PICK len \in Nat : /\ Apart(len) /\ Len(buffer) = len
                         /\ (buffer = <<>> <=> len = 0)
  BY <1>1, BeforeAsking
<1>3. Abstract!Ahead = len
  BY <1>2, AheadIs
<1>4. \/ ret'.op = "fill_buf" /\ ret'.st = "ok" /\ ret'.out = Slice(pos, ret'.n)
      \/ ret'.op = "fill_buf" /\ ret'.st = "err"
  BY poll_fill_buf_is_FillBuf, SameReaderSlice
  DEF AsReader!FillBuf, AsReader!Says, AsReader!NextBytes
<1>5. (ret'.st = "err" => buffer = <<>>) /\ (buffer # <<>> => ret'.n = Len(buffer))
  BY DEF poll_fill_buf, Ready, Answer
<1>6. (ret'.st = "err" => len = 0) /\ (len > 0 => ret'.n = len)
  BY <1>2, <1>5
<1> QED
  BY <1>1, <1>3, <1>4, <1>6, SameStream
  DEF Abstract!FillBuf, Abstract!Answers, Abstract!Shows

LEMMA BufRead_consume_refines ==
    ASSUME IInv, NEW amt \in Nat, BufRead_consume(amt)
    PROVE  Abstract!Skip
<1>1. fut.pc # "read"
  BY DEF BufRead_consume, Free
<1>2. PICK len \in Nat : Apart(len) /\ Len(buffer) = len
  BY <1>1, BeforeAsking
<1>3. rpos + (amt - Smaller(amt, len)) = Larger(rpos, pos + amt)
  BY <1>2 DEF Smaller, Larger, Apart
<1>4. /\ ret'.op = "BufRead_consume" /\ ret'.st = "ok" /\ ret'.want = amt
      /\ pos' = pos + amt
      /\ rpos' = rpos + (amt - Smaller(amt, len))
  BY <1>2 DEF BufRead_consume, Answer, FromBuffer
<1> QED
  BY <1>3, <1>4, SameStream DEF Abstract!Skip, Abstract!Answers

LEMMA consume_refines ==
    ASSUME IInv, consume \/ consume_in_place
    PROVE  Abstract!Discard
<1>1. fut.pc # "read"
  BY DEF consume, consume_in_place, Free
<1>2. PICK len \in Nat : Apart(len) /\ Len(buffer) = len /\ buffer = Slice(pos, len)
  BY <1>1, BeforeAsking
<1>3. Abstract!Ahead = len
  BY <1>2, AheadIs
<1>4. pos' = rpos /\ rpos' = rpos
  BY <1>2 DEF consume, consume_in_place, inner, Apart
<1>5. \/ /\ ret'.op = "consume" /\ ret'.st = "ok"
         /\ ret'.n = len /\ ret'.out = Slice(pos, len)
      \/ ret'.op = "consume_in_place" /\ ret'.st = "ok"
  BY <1>2 DEF consume, consume_in_place, Answer
<1> QED
  BY <1>3, <1>4, <1>5, SameStream
  DEF Abstract!Discard, Abstract!Answers, Abstract!Shows

-----------------------------------------------------------------------------
(* peek and peek_vectored *)

LEMMA PeekShows ==
    ASSUME NEW held, Apart(held), NEW op \in Peeks,
           NEW want \in Nat, NEW n \in Nat, NEW m \in Nat,
           held <= m, n <= m, n <= want,
           n = Smaller(want, m), want <= held => m = held,
           Answer(op, "ok", want, n, Slice(pos, n)),
           pos' = pos, rpos' = pos + m
    PROVE  Abstract!Peek \/ Abstract!PeekVectored
<1>1. /\ ret'.op = op /\ ret'.st = "ok" /\ ret'.want = want
      /\ ret'.n = n /\ ret'.out = Slice(pos, n)
  BY DEF Answer
<1>2. Abstract!Ahead = held
  BY AheadIs
<1>3. PICK r \in Nat : r = rpos' /\ r = pos + m /\ rpos = pos + held
  BY DEF Apart
<1>4. r - pos = m /\ r >= rpos /\ (m = held => r = rpos)
  BY <1>3 DEF Apart
<1>5. rpos' - pos = m /\ rpos' >= rpos /\ (m = held => rpos' = rpos)
  BY <1>3, <1>4
<1>6. CASE op = "peek"
  BY <1>1, <1>2, <1>5, <1>6, SameStream
  DEF Abstract!Peek, Abstract!Answers, Abstract!Shows
<1>7. CASE op = "peek_vectored"
  BY <1>1, <1>5, <1>7, SameStream
  DEF Abstract!PeekVectored, Abstract!Answers, Abstract!Shows
<1> QED
  BY <1>6, <1>7 DEF Peeks

LEMMA PeekFails ==
    ASSUME NEW held, Apart(held), NEW op \in Peeks,
           NEW st \in {"err", "oom"}, NEW want, NEW n, NEW out, want > held,
           Answer(op, st, want, n, out), pos' = pos, rpos' = rpos
    PROVE  Abstract!Peek \/ Abstract!PeekVectored
<1>1. ret'.op = op /\ ret'.st = st /\ ret'.want = want
  BY DEF Answer
<1>2. Abstract!Ahead = held
  BY AheadIs
<1> QED
  BY <1>1, <1>2 DEF Peeks, Abstract!Peek, Abstract!PeekVectored, Abstract!Answers

LEMMA poll_peek_refines ==
    ASSUME IInv, poll_peek
    PROVE  Abstract!Peek \/ Abstract!PeekVectored \/ Hidden
<1>1. fut.pc # "read" /\ pos' = pos /\ rpos' = rpos
  BY DEF poll_peek, client, inner
<1>2. PICK op \in Peeks : op = fut.op
  BY DEF poll_peek
<1>3. PICK want \in Nat : want = fut.want
  BY Facts
<1>4. PICK len \in Nat : Apart(len) /\ Len(buffer) = len
  BY <1>1, BeforeAsking
<1>5. ASSUME NEW st, NEW n, NEW out, Ready(st, n, out)
      PROVE  Answer(op, st, want, n, out)
  BY <1>2, <1>3, <1>5 DEF Ready
<1>6. CASE want <= len /\ Ready("ok", want, SubSeq(buffer, 1, want))
  <2>1. SubSeq(buffer, 1, want) = Slice(pos, want)
    BY <1>1, <1>4, <1>6, FrontIsNext
  <2>2. Answer(op, "ok", want, want, Slice(pos, want))
    BY <1>5, <1>6, <2>1
  <2>3. want = Smaller(want, len)
    BY <1>6 DEF Smaller
  <2>4. rpos' = pos + len
    BY <1>1, <1>4 DEF Apart
  <2> QED
    BY <1>1, <1>4, <1>6, <2>2, <2>3, <2>4, PeekShows
<1>7. CASE want > len /\ Ready("oom", 0, <<>>)
  BY <1>1, <1>4, <1>5, <1>7, PeekFails
<1>8. CASE ret' = ret
  BY <1>1, <1>8 DEF Hidden
<1> QED
  BY <1>3, <1>4, <1>6, <1>7, <1>8 DEF poll_peek, Continue

(* How far a peek may get. *)
LEMMA PeekAsks ==
    ASSUME IInv, InRead(Peeks)
    PROVE  \E want \in Nat : /\ fut.want = want /\ Len(buffer) = want
                             /\ \A old \in Nat : Had(old) => old < want
<1>1. fut.op \in Peeks /\ fut.pc = "read"
  BY DEF InRead
<1>2. PICK want \in Nat : want = fut.want
  BY Facts
<1>3. Len(buffer) = want
  BY <1>1, <1>2 DEF IInv, PollIntact
<1>4. PICK o \in Nat : fut.old = o /\ o < want
  BY <1>1, <1>3, Asking
<1> QED
  BY <1>2, <1>3, <1>4 DEF Had

LEMMA poll_peek_blocked_refines ==
    ASSUME IInv, poll_peek_blocked
    PROVE  Abstract!Peek \/ Abstract!PeekVectored \/ Hidden
<1>1. /\ InRead(Peeks) /\ fut.pc = "read" /\ Untouched /\ RollBack
      /\ ReaderFails \/ ReaderPends
  BY DEF poll_peek_blocked, InRead, Untouched, ReaderWouldBlock
<1>2. PICK op \in Peeks : op = fut.op
  BY <1>1 DEF InRead
<1>3. PICK old \in Nat : /\ Had(old) /\ Apart(old) /\ pos' = pos /\ rpos' = rpos
                         /\ buffer' = Slice(pos, old)
  BY <1>1, AfterNotOk
<1>4. PICK want \in Nat : fut.want = want /\ old < want
  BY <1>1, <1>3, PeekAsks
<1>5. CASE Ready("ok", fut.old, buffer')
  <2>1. Answer(op, "ok", want, old, Slice(pos, old))
    BY <1>2, <1>3, <1>4, <1>5 DEF Ready, Had
  <2>2. old = Smaller(want, old) /\ old <= want
    BY <1>4 DEF Smaller
  <2>3. rpos' = pos + old
    BY <1>3 DEF Apart
  <2> QED
    BY <1>3, <1>4, <2>1, <2>2, <2>3, PeekShows
<1>6. CASE Pending
  BY <1>3, <1>6 DEF Pending, Hidden
<1> QED
  BY <1>5, <1>6 DEF poll_peek_blocked

LEMMA poll_peek_read_refines ==
    ASSUME IInv, poll_peek_read
    PROVE  Abstract!Peek \/ Abstract!PeekVectored
<1>1. InRead(Peeks) /\ fut.pc = "read" /\ Untouched
  BY DEF poll_peek_read, InRead, Untouched
<1>2. PICK op \in Peeks : op = fut.op
  BY <1>1 DEF InRead
<1>3. CASE \E n \in 0..Room : ReadOk(n) /\ Ready("ok", fut.old + n, buffer')
  <2>1. PICK n \in 0..Room : ReadOk(n) /\ Ready("ok", fut.old + n, buffer')
    BY <1>3
  <2>2. n \in Nat
    BY <1>1, Asking
  <2>3. PICK old \in Nat : /\ Had(old) /\ Apart(old) /\ pos' = pos
                           /\ rpos' = pos + (old + n) /\ buffer' = Slice(pos, old + n)
                           /\ old + n <= Len(buffer)
    BY <1>1, <2>1, <2>2, AfterOk
  <2>4. PICK want \in Nat : fut.want = want /\ Len(buffer) = want /\ old < want
    BY <1>1, <2>3, PeekAsks
  <2>5. PICK m \in Nat : m = old + n
    BY <2>2
  <2>6. Answer(op, "ok", want, m, Slice(pos, m))
    BY <1>2, <2>1, <2>3, <2>4, <2>5 DEF Ready, Had
  <2>7. old <= m /\ m <= want /\ m = Smaller(want, m)
    BY <2>2, <2>3, <2>4, <2>5 DEF Smaller
  <2> QED
    BY <2>3, <2>4, <2>5, <2>6, <2>7, PeekShows
<1>4. CASE ReaderFails /\ RollBack /\ Ready("err", 0, <<>>)
  <2>1. PICK old \in Nat : Had(old) /\ Apart(old) /\ pos' = pos /\ rpos' = rpos
    BY <1>1, <1>4, AfterNotOk
  <2>2. PICK want \in Nat : fut.want = want /\ old < want
    BY <1>1, <2>1, PeekAsks
  <2>3. Answer(op, "err", want, 0, <<>>)
    BY <1>2, <1>4, <2>2 DEF Ready
  <2> QED
    BY <2>1, <2>2, <2>3, PeekFails
<1> QED
  BY <1>3, <1>4 DEF poll_peek_read

-----------------------------------------------------------------------------
(* peek_exact *)

LEMMA PeekExactShows ==
    ASSUME NEW held, Apart(held), NEW want \in Nat,
           Answer("peek_exact", "ok", want, want, Slice(pos, want)),
           pos' = pos, rpos' = IF want <= held THEN rpos ELSE pos + want
    PROVE  Abstract!PeekExact
<1>1. /\ ret'.op = "peek_exact" /\ ret'.st = "ok" /\ ret'.want = want
      /\ ret'.n = want /\ ret'.out = Slice(pos, want)
  BY DEF Answer
<1>2. rpos' = Larger(rpos, pos + want)
  BY DEF Apart, Larger
<1> QED
  BY <1>1, <1>2, SameStream
  DEF Abstract!PeekExact, Abstract!Answers, Abstract!Shows

LEMMA PeekExactFails ==
    ASSUME NEW held, Apart(held), NEW st \in {"err", "oom", "eof"}, NEW want,
           want > held, NEW n, Answer("peek_exact", st, want, n, Slice(pos, held)),
           pos' = pos, rpos' = rpos
    PROVE  Abstract!PeekExact
<1>1. /\ ret'.op = "peek_exact" /\ ret'.st = st /\ ret'.want = want
      /\ ret'.out = Slice(pos, held)
  BY DEF Answer
<1> QED
  BY <1>1, AheadIs DEF Abstract!PeekExact, Abstract!Answers

LEMMA peek_exact_enter_refines ==
    ASSUME IInv, peek_exact_enter
    PROVE  Abstract!PeekExact \/ Hidden
<1>1. /\ fut.op = "peek_exact" /\ fut.pc = "enter"
      /\ pos' = pos /\ rpos' = rpos
  BY DEF peek_exact_enter, At, client, inner
<1>2. PICK len \in Nat : /\ Apart(len) /\ Len(buffer) = len /\ Held = len
                         /\ buffer = Slice(pos, len)
  BY <1>1, BeforeAsking
<1>3. PICK want \in Nat : want = fut.want
  BY Facts
<1>4. pos \in Nat
  BY Facts
<1> DEFINE out == IF fut.out = <<>>
                  THEN SubSeq(buffer, 1, Smaller(Len(buffer), fut.want))
                  ELSE fut.out
<1>5. (Len(out) = want /\ Ready("ok", want, out)) \/ ret' = ret
  BY <1>3 DEF peek_exact_enter, Continue
<1>6. Len(out) = want => want <= len /\ out = Slice(pos, want)
  <2>1. CASE fut.out = <<>>
    <3>1. PICK k \in Nat : k = Smaller(len, want) /\ k <= len
      BY DEF Smaller
    <3>2. out = SubSeq(buffer, 1, k)
      BY <1>2, <1>3, <2>1, <3>1
    <3>3. SubSeq(buffer, 1, k) = Slice(pos, k)
      BY <1>1, <1>2, <3>1, FrontIsNext
    <3>4. Len(Slice(pos, k)) = k
      BY <1>4, SliceFacts
    <3> HIDE DEF out
    <3> QED
      BY <3>1, <3>2, <3>3, <3>4
  <2>2. CASE fut.out # <<>>
    <3>1. fut.out = Slice(pos, len) /\ len < want
      BY <1>1, <1>2, <1>3, <2>2 DEF IInv, PollIntact
    <3>2. Len(Slice(pos, len)) = len
      BY <1>4, SliceFacts
    <3>3. len # want
      BY <3>1
    <3> QED
      BY <2>2, <3>1, <3>2, <3>3
  <2> QED
    BY <2>1, <2>2
<1> HIDE DEF out
<1>7. CASE Len(out) = want /\ Ready("ok", want, out)
  <2>1. Answer("peek_exact", "ok", want, want, Slice(pos, want)) /\ want <= len
    BY <1>1, <1>3, <1>6, <1>7 DEF Ready
  <2> QED
    BY <1>1, <1>2, <2>1, PeekExactShows
<1>8. CASE ret' = ret
  BY <1>1, <1>8 DEF Hidden
<1> QED
  BY <1>5, <1>7, <1>8

LEMMA peek_exact_resize_refines ==
    ASSUME IInv, peek_exact_resize
    PROVE  Abstract!PeekExact \/ Hidden
<1>1. /\ At("peek_exact", "grow") /\ fut.pc # "read" /\ fut.op = "peek_exact"
      /\ pos' = pos /\ rpos' = rpos
  BY DEF peek_exact_resize, At, client, inner
<1>2. PICK len \in Nat, want \in Nat :
             /\ Len(buffer) = len /\ fut.want = want /\ len < want
             /\ fut.out = Slice(pos, len)
  BY <1>1, MissingFacts
<1>3. Apart(len)
  BY <1>1, <1>2, BeforeAsking
<1>4. CASE Ready("oom", 0, fut.out)
  <2>1. Answer("peek_exact", "oom", want, 0, Slice(pos, len))
    BY <1>1, <1>2, <1>4 DEF Ready
  <2> QED
    BY <1>1, <1>2, <1>3, <2>1, PeekExactFails
<1>5. CASE ret' = ret
  BY <1>1, <1>5 DEF Hidden
<1> QED
  BY <1>4, <1>5 DEF peek_exact_resize, Continue

(* While PeekExact asks, the slice it offers makes the caller's full. *)
LEMMA ExactAsks ==
    ASSUME IInv, At("peek_exact", "read")
    PROVE  \E want \in Nat, held \in Nat :
             /\ fut.want = want /\ Len(buffer) = want /\ Held = held
             /\ held < want /\ fut.out = Slice(pos, held)
<1>1. fut.op = "peek_exact" /\ fut.pc = "read"
  BY DEF At
<1>2. PICK want \in Nat : want = fut.want
  BY Facts
<1>3. Len(buffer) = want
  BY <1>1, <1>2 DEF IInv, PollIntact
<1>4. PICK held \in Nat : Held = held
  BY <1>1, Asking
<1>5. fut.out = Slice(pos, held) /\ held < want
  BY <1>1, <1>2, <1>4 DEF IInv, ProgressIntact
<1> QED
  BY <1>2, <1>3, <1>4, <1>5

LEMMA peek_exact_read_refines ==
    ASSUME IInv, peek_exact_read
    PROVE  Abstract!PeekExact \/ Abstract!ReadAhead
<1>1. /\ At("peek_exact", "read") /\ fut.pc = "read" /\ fut.op = "peek_exact"
      /\ Untouched /\ fut.op \in Copying
  BY DEF peek_exact_read, At, Untouched, Copying
<1>2. PICK want \in Nat, held \in Nat :
             /\ fut.want = want /\ Len(buffer) = want /\ Held = held
             /\ held < want /\ fut.out = Slice(pos, held)
  BY <1>1, ExactAsks
<1>3. rpos \in Nat
  BY Facts
<1>4. CASE ReadOk(0) /\ Ready("eof", 0, fut.out)
  <2>1. PICK old \in Nat : /\ Apart(old) /\ Held = old /\ pos' = pos
                           /\ rpos' = rpos + 0
    BY <1>1, <1>4, AfterOk
  <2>2. rpos' = rpos
    BY <1>3, <2>1
  <2>3. Answer("peek_exact", "eof", want, 0, Slice(pos, held)) /\ Apart(held)
    BY <1>1, <1>2, <1>4, <2>1 DEF Ready
  <2> QED
    BY <1>2, <2>1, <2>2, <2>3, PeekExactFails
<1>5. ASSUME NEW n \in 1..Room, ReadOk(n),
             NEW out, out = fut.out \o SubSeq(buffer', fut.old + 1, fut.old + n),
             \/ Len(out) < fut.want /\ Continue("grow", 0, out)
             \/ Len(out) >= fut.want /\ Ready("ok", Len(out), out)
      PROVE  Abstract!PeekExact \/ Abstract!ReadAhead
  <2>1. n \in Nat
    BY <1>1, Asking
  <2>2. PICK old \in Nat : /\ Had(old) /\ Whole(old + n) /\ pos' = pos
                           /\ Apart(old) /\ Held = old /\ rpos' = rpos + n
                           /\ rpos' = pos + (old + n)
                           /\ old + n <= Len(buffer)
    BY <1>1, <1>5, <2>1, AfterOk
  <2>3. out = Slice(pos, old + n) /\ Len(out) = old + n
    BY <1>1, <1>5, <2>1, <2>2, Copied
  <2>4. PICK m \in Nat : m = old + n
    BY <2>1
  <2>5. CASE Continue("grow", 0, out)
    BY <1>3, <2>1, <2>2, <2>5, AdvanceIsReadAhead DEF Continue
  <2>6. CASE Len(out) >= fut.want /\ Ready("ok", Len(out), out)
    <3>1. m = want
      BY <1>2, <2>2, <2>3, <2>4, <2>6
    <3>2. Answer("peek_exact", "ok", want, want, Slice(pos, want))
      BY <1>1, <1>2, <2>3, <2>4, <2>6, <3>1 DEF Ready
    <3>3. old < want
      BY <1>2, <2>2
    <3>4. rpos' = IF want <= old THEN rpos ELSE pos + want
      BY <2>2, <2>4, <3>1, <3>3
    <3> QED
      BY <2>2, <3>2, <3>4, PeekExactShows
  <2> QED
    BY <1>5, <2>5, <2>6
<1>6. CASE ReaderFails /\ RollBack /\ Ready("err", 0, fut.out)
  <2>1. PICK old \in Nat : Apart(old) /\ Held = old /\ pos' = pos /\ rpos' = rpos
    BY <1>1, <1>6, AfterNotOk
  <2>2. Answer("peek_exact", "err", want, 0, Slice(pos, held)) /\ Apart(held)
    BY <1>1, <1>2, <1>6, <2>1 DEF Ready
  <2> QED
    BY <1>2, <2>1, <2>2, PeekExactFails
<1> QED
  BY <1>4, <1>5, <1>6 DEF peek_exact_read

-----------------------------------------------------------------------------
(* peek_to_end, peek_to_string and fill_peek_buf *)

LEMMA PeekToEndAnswers ==
    ASSUME NEW held, Apart(held), NEW st \in {"ok", "err", "oom"}, NEW want, NEW n,
           st = "ok" => n = held, Answer("peek_to_end", st, want, n, Slice(pos, held)),
           pos' = pos, rpos' = rpos
    PROVE  Abstract!PeekToEnd
<1>1. /\ ret'.op = "peek_to_end" /\ ret'.st = st /\ ret'.n = n
      /\ ret'.out = Slice(pos, held)
  BY DEF Answer
<1> QED
  BY <1>1, AheadIs DEF Abstract!PeekToEnd, Abstract!Answers

(* The bytes b that decide peek_to_string are all that was peeked. *)
LEMMA Conclude_refines ==
    ASSUME NEW held, Apart(held), NEW b, b = Slice(pos, held),
           NEW st \in {"ok", "err", "oom"}, fut.op = "peek_to_string",
           Conclude(st, b), pos' = pos, rpos' = rpos
    PROVE  Abstract!PeekToString
<1>1. Abstract!Ahead = held /\ held \in Nat /\ pos \in Nat
  BY AheadIs DEF Apart
<1>2. Len(b) = held
  BY <1>1, SliceFacts
<1>3. \A k \in 0..held : SubSeq(b, 1, k) = Slice(pos, k) /\ Len(Slice(pos, k)) = k
  BY <1>1, SliceFront
<1>4. CASE Ready(st, IF st = "ok" THEN Len(b) ELSE 0, b)
  <2>1. /\ ret'.op = "peek_to_string" /\ ret'.st = st /\ ret'.out = b
        /\ st = "ok" => ret'.n = Len(b)
    BY <1>4 DEF Ready, Answer
  <2>2. Len(ret'.out) <= held /\ Len(ret'.out) = held
    BY <1>1, <1>2, <2>1
  <2> QED
    BY <1>1, <1>2, <2>1, <2>2, SameStream
    DEF Abstract!PeekToString, Abstract!Answers, Abstract!Shows
<1>5. CASE Ready("invalid", 0, <<>>)
  <2>1. ret'.op = "peek_to_string" /\ ret'.st = "invalid" /\ ret'.out = <<>>
    BY <1>5 DEF Ready, Answer
  <2> QED
    BY <2>1 DEF Abstract!PeekToString, Abstract!Answers
<1>6. CASE st # "ok" /\ \E vut \in 0..Len(b) : Ready(st, 0, SubSeq(b, 1, vut))
  <2>1. PICK vut \in 0..held : Ready(st, 0, SubSeq(b, 1, vut))
    BY <1>2, <1>6
  <2>2. /\ ret'.op = "peek_to_string" /\ ret'.st = st /\ ret'.out = Slice(pos, vut)
        /\ Len(Slice(pos, vut)) = vut
    BY <1>3, <2>1 DEF Ready, Answer
  <2>3. vut <= held
    BY <1>1
  <2> QED
    BY <1>1, <1>6, <2>2, <2>3, SameStream
    DEF Abstract!PeekToString, Abstract!Answers
<1> QED
  BY <1>4, <1>5, <1>6 DEF Conclude

LEMMA Fail_refines ==
    ASSUME IInv, NEW held, Apart(held), Held = held, fut.pc \in {"grow", "read"},
           NEW b, b = Slice(pos, held), NEW st \in {"err", "oom"},
           fut.op \in Wholes, Fail(st, b), pos' = pos, rpos' = rpos
    PROVE  Abstract!PeekToEnd \/ Abstract!PeekToString
<1>1. CASE fut.op = "peek_to_end" /\ Ready(st, 0, fut.out)
  <2>1. fut.out = Slice(pos, held)
    BY <1>1, WholeProgress DEF Copying
  <2>2. Answer("peek_to_end", st, fut.want, 0, Slice(pos, held))
    BY <1>1, <2>1 DEF Ready
  <2> QED
    BY <2>2, PeekToEndAnswers
<1>2. CASE fut.op = "peek_to_string" /\ Conclude(st, b)
  BY <1>2, Conclude_refines
<1> QED
  BY <1>1, <1>2 DEF Fail

LEMMA peek_to_enter_refines ==
    ASSUME IInv, peek_to_end_enter \/ peek_to_string_enter
    PROVE  Abstract!PeekToString \/ Hidden
<1>1. pos' = pos /\ rpos' = rpos
  BY DEF peek_to_end_enter, peek_to_string_enter, client, inner
<1>2. CASE peek_to_string_enter /\ Ready("rejected", 0, <<>>)
  <2>1. ret'.op = "peek_to_string" /\ ret'.st = "rejected" /\ ret'.out = <<>>
    BY <1>2 DEF peek_to_string_enter, At, Ready, Answer
  <2> QED
    BY <1>1, <2>1 DEF Abstract!PeekToString, Abstract!Answers
<1>3. CASE ret' = ret
  BY <1>1, <1>3 DEF Hidden
<1> QED
  BY <1>2, <1>3 DEF peek_to_end_enter, peek_to_string_enter, Continue

LEMMA grow_peek_buffer_refines ==
    ASSUME IInv, grow_peek_buffer
    PROVE  Abstract!PeekToEnd \/ Abstract!PeekToString \/ Hidden
<1>1. /\ fut.pc = "grow" /\ fut.op \in Wholes /\ pos' = pos /\ rpos' = rpos
  BY DEF grow_peek_buffer, client, inner
<1>2. PICK len \in Nat : Apart(len) /\ Held = len /\ buffer = Slice(pos, len)
  BY <1>1, BeforeAsking
<1>3. CASE Fail("oom", buffer)
  BY <1>1, <1>2, <1>3, Fail_refines
<1>4. CASE ret' = ret
  BY <1>1, <1>4 DEF Hidden
<1> QED
  BY <1>3, <1>4 DEF grow_peek_buffer, Continue

LEMMA peek_whole_read_refines ==
    ASSUME IInv, peek_whole_read
    PROVE  Abstract!PeekToEnd \/ Abstract!PeekToString \/ Abstract!ReadAhead
<1>1. fut.pc = "read" /\ fut.op \in Wholes /\ Untouched
  BY DEF peek_whole_read, InRead, Untouched
<1>2. rpos \in Nat
  BY Facts
<1>3. ASSUME ReadOk(0),
             \/ fut.op = "peek_to_end" /\ Ready("ok", Len(buffer'), fut.out)
             \/ fut.op = "peek_to_string" /\ Conclude("ok", buffer')
      PROVE  Abstract!PeekToEnd \/ Abstract!PeekToString
  <2>1. PICK old \in Nat : /\ Apart(old) /\ Held = old /\ pos' = pos
                           /\ rpos' = rpos + 0 /\ buffer' = Slice(pos, old + 0)
                           /\ Len(buffer') = old + 0
    BY <1>1, <1>3, AfterOk
  <2>2. rpos + 0 = rpos /\ old + 0 = old
    BY <1>2
  <2>3. rpos' = rpos /\ buffer' = Slice(pos, old) /\ Len(buffer') = old
    BY <2>1, <2>2
  <2>4. CASE fut.op = "peek_to_end" /\ Ready("ok", Len(buffer'), fut.out)
    <3>1. fut.out = Slice(pos, old)
      BY <1>1, <2>1, <2>4, WholeProgress DEF Copying
    <3>2. Answer("peek_to_end", "ok", fut.want, old, Slice(pos, old))
      BY <2>3, <2>4, <3>1 DEF Ready
    <3> QED
      BY <2>1, <2>3, <3>2, PeekToEndAnswers
  <2>5. CASE fut.op = "peek_to_string" /\ Conclude("ok", buffer')
    BY <2>1, <2>3, <2>5, Conclude_refines
  <2> QED
    BY <1>3, <2>4, <2>5
<1>4. ASSUME NEW n \in 1..Room, ReadOk(n), ret' = ret
      PROVE  Abstract!ReadAhead
  <2>1. n \in Nat
    BY <1>1, Asking
  <2>2. pos' = pos /\ rpos' = rpos + n
    BY <1>1, <1>4, <2>1, AfterOk
  <2> QED
    BY <1>2, <1>4, <2>1, <2>2, AdvanceIsReadAhead
<1>5. CASE ReaderFails /\ RollBack /\ Fail("err", buffer')
  <2>1. PICK old \in Nat : /\ Apart(old) /\ Held = old /\ pos' = pos
                           /\ rpos' = rpos /\ buffer' = Slice(pos, old)
    BY <1>1, <1>5, AfterNotOk
  <2> QED
    BY <1>1, <1>5, <2>1, Fail_refines
<1> QED
  BY <1>3, <1>4, <1>5 DEF peek_whole_read, Continue

LEMMA fill_peek_buf_enter_refines ==
    ASSUME IInv, fill_peek_buf_enter
    PROVE  Abstract!FillPeekBuf \/ Hidden
<1>1. fut.op = "fill_peek_buf" /\ pos' = pos /\ rpos' = rpos
  BY DEF fill_peek_buf_enter, At, client, inner
<1>2. ASSUME NEW st \in {"ok", "oom"}, Ready(st, 0, <<>>)
      PROVE  Abstract!FillPeekBuf
  <2>1. ret'.op = "fill_peek_buf" /\ ret'.st = st /\ ret'.n = 0
    BY <1>1, <1>2 DEF Ready, Answer
  <2>2. rpos' = rpos + 0
    BY <1>1, Facts
  <2> QED
    BY <1>1, <2>1, <2>2 DEF Abstract!FillPeekBuf, Abstract!Answers
<1>3. CASE ret' = ret
  BY <1>1, <1>3 DEF Hidden
<1> QED
  BY <1>2, <1>3 DEF fill_peek_buf_enter, Continue

LEMMA fill_peek_buf_read_refines ==
    ASSUME IInv, fill_peek_buf_read
    PROVE  Abstract!FillPeekBuf
<1>1. fut.op = "fill_peek_buf"
  BY DEF fill_peek_buf_read, At
<1>2. ASSUME NEW n \in 0..Room, ReadOk(n), Ready("ok", n, <<>>)
      PROVE  Abstract!FillPeekBuf
  <2>1. pos' = pos /\ rpos' = rpos + n
    BY <1>2 DEF fill_peek_buf_read, ReadOk, Advance, client
  <2>2. ret'.op = "fill_peek_buf" /\ ret'.st = "ok" /\ ret'.n = n
    BY <1>1, <1>2 DEF Ready, Answer
  <2> QED
    BY <2>1, <2>2 DEF Abstract!FillPeekBuf, Abstract!Answers
<1>3. CASE ReaderFails /\ Ready("err", 0, <<>>)
  <2>1. pos' = pos /\ rpos' = rpos
    BY <1>3 DEF fill_peek_buf_read, ReaderFails, inner, client
  <2>2. ret'.op = "fill_peek_buf" /\ ret'.st = "err"
    BY <1>1, <1>3 DEF Ready, Answer
  <2> QED
    BY <2>1, <2>2 DEF Abstract!FillPeekBuf, Abstract!Answers
<1> QED
  BY <1>2, <1>3 DEF fill_peek_buf_read

-----------------------------------------------------------------------------
(* Every step, and the theorem. *)

LEMMA CreationIsHidden ==
    ASSUME \/ \E want \in 0..MaxWant : read(want) \/ peek(want) \/ peek_exact(want)
           \/ \E len1, len2 \in 0..MaxWant : peek_vectored(len1, len2)
           \/ fill_buf \/ peek_to_end \/ peek_to_string \/ fill_peek_buf
    PROVE  Hidden
<1>1. ASSUME NEW op, NEW want, NEW old, Create(op, want, old) PROVE Hidden
  BY <1>1 DEF Create, Hidden, client, inner
<1> QED
  BY <1>1 DEF read, peek, peek_exact, peek_vectored, fill_buf, peek_to_end,
              peek_to_string, fill_peek_buf

LEMMA CallRefines ==
    ASSUME IInv, Call
    PROVE  Abstract!Next \/ Hidden
<1>1. CASE \E amt \in 0..MaxWant : BufRead_consume(amt)
  <2>1. PICK amt \in 0..MaxWant : BufRead_consume(amt)
    BY <1>1
  <2>2. amt \in Nat
    BY TaskAssumption
  <2> QED
    BY <2>1, <2>2, BufRead_consume_refines DEF Abstract!Next
<1>2. CASE consume \/ consume_in_place
  BY <1>2, consume_refines DEF Abstract!Next
<1> QED
  BY <1>1, <1>2, CreationIsHidden DEF Call

LEMMA PollRefines ==
    ASSUME IInv, Prepare \/ Outcome
    PROVE  Abstract!Next \/ Hidden
<1> USE DEF Abstract!Next
<1>1. CASE Prepare
  BY <1>1, poll_peek_refines, peek_exact_enter_refines,
     peek_exact_resize_refines, peek_to_enter_refines,
     grow_peek_buffer_refines, fill_peek_buf_enter_refines
  DEF Prepare
<1>2. CASE Outcome
  BY <1>2, poll_read_refines, poll_fill_buf_refines, poll_peek_read_refines,
     peek_exact_read_refines, peek_whole_read_refines,
     fill_peek_buf_read_refines
  DEF Outcome
<1> QED
  BY <1>1, <1>2

LEMMA WaitingIsHidden ==
    ASSUME delegated_pends \/ pending \/ poll_peek_again \/ interrupted
    PROVE  Hidden
BY DEF delegated_pends, pending, poll_peek_again, interrupted, Pending, Continue,
       ReaderPends, ReaderFails, client, inner, Hidden

LEMMA NextRefines ==
    ASSUME IInv, [Next]_vars
    PROVE  [Abstract!Next]_(Abstract!vars)
<1>1. ASSUME Arrive \/ Close PROVE Hidden
  BY <1>1 DEF Arrive, Close, inner, client, Hidden
<1>2. ASSUME poll \/ drop_future PROVE Hidden
  BY <1>2 DEF poll, drop_future, inner, client, Hidden
<1>3. ASSUME UNCHANGED vars PROVE Hidden
  BY <1>3 DEF vars, Hidden
<1>4. ASSUME NoOutcome PROVE Abstract!Next \/ Hidden
  BY <1>4, poll_peek_blocked_refines, WaitingIsHidden DEF NoOutcome, Abstract!Next
<1> QED
  BY <1>1, <1>2, <1>3, <1>4, CallRefines, PollRefines, HiddenIsStutter DEF Next

(* Peeking without blocking is still looking ahead in a stream that stays  *)
(* as it is: Pending, wake-ups, futures dropped half-way and polls that    *)
(* start over do not show in what any method answers.                      *)
THEOREM WrapperIsStream == Spec => ImplementsPeekStream
<1>1. Init => Abstract!Init
  BY DEF Init, ReaderInit, NoAnswer, Abstract!Init
<1>2. IInv /\ [Next]_vars => [Abstract!Next]_(Abstract!vars)
  BY NextRefines
<1> QED
  BY <1>1, <1>2, Invariance, PTL DEF Spec, ImplementsPeekStream, Abstract!Spec

-----------------------------------------------------------------------------
(* The end of the file. *)

Silent ==
    ret' = ret /\ (fut.pc \in {"enter", "grow", "read"} => fut'.pc # "none")

LEMMA SilentIsUnanswered ==
    ASSUME Silent, NEW S
    PROVE  ~Answered(S)
BY DEF Silent, Answered

LEMMA GoingOnIsSilent ==
    ASSUME IInv, Pending \/ \E pc \in {"grow", "read"} : \E old, out : Continue(pc, old, out)
    PROVE  Silent
<1>1. fut \in FutureType
  BY Facts
<1> QED
  BY <1>1 DEF Pending, Continue, FutureType, Silent

EofStep ==
    /\ Answered(Peeks) /\ ret'.st = "ok" /\ ret'.n = 0 /\ ret'.want > 0
       => closed /\ rpos' = avail /\ pos' = rpos'
    /\ Answered({"peek_exact"}) /\ ret'.st = "eof"
       => closed /\ rpos' = avail /\ rpos' < pos + ret'.want
    /\ Answered(Wholes) /\ ret'.st = "ok"
       => closed /\ rpos' = avail

(* Most steps answer nothing, or neither "ok" nor "eof", or something else *)
(* than a peek.                                                            *)
LEMMA OtherAnswers ==
    ASSUME \/ Silent
           \/ ret'.st \notin {"ok", "eof"}
           \/ ret'.op \notin Peeks \cup Loops
           \/ ret'.op = "peek_exact" /\ ret'.st # "eof"
    PROVE  EofStep
BY SilentIsUnanswered DEF EofStep, Answered, Peeks, Loops, Wholes

LEMMA NotAnEnd ==
    ASSUME NEW st, NEW n, NEW out, Ready(st, n, out),
           st \notin {"ok", "eof"} \/ fut.op \notin Peeks \cup Loops
             \/ (fut.op = "peek_exact" /\ st # "eof")
    PROVE  EofStep
<1>1. ret'.op = fut.op /\ ret'.st = st
  BY DEF Ready, Answer
<1> QED
  BY <1>1, OtherAnswers

(* An Ok(0) for the nonempty slice a future offers. *)
LEMMA NothingRead ==
    ASSUME IInv, fut.pc = "read", ReadOk(0)
    PROVE  closed /\ rpos = avail /\ rpos' = avail
<1>1. Room > 0
  BY DEF IInv, ProgressIntact
<1>2. rpos = avail /\ closed
  BY <1>1 DEF ReadOk, MayRead
<1>3. rpos' = rpos
  <2>1. rpos \in Nat
    BY Facts
  <2>2. rpos + 0 = rpos
    BY <2>1
  <2> QED
    BY <2>2 DEF ReadOk, Advance
<1> QED
  BY <1>2, <1>3

LEMMA poll_peek_eof ==
    ASSUME poll_peek, IInv
    PROVE  EofStep
<1>1. CASE Ready("ok", fut.want, SubSeq(buffer, 1, fut.want))
  <2>1. ret'.op \in Peeks /\ ret'.n = fut.want /\ ret'.want = fut.want
    BY <1>1 DEF poll_peek, Ready, Answer
  <2>2. ~(ret'.n = 0 /\ ret'.want > 0)
    BY <2>1
  <2> QED
    BY <2>1, <2>2 DEF EofStep, Answered, Peeks, Wholes
<1>2. CASE Ready("oom", 0, <<>>)
  BY <1>2, NotAnEnd
<1>3. CASE Continue("read", Len(buffer), <<>>)
  BY <1>3, GoingOnIsSilent, OtherAnswers
<1> QED
  BY <1>1, <1>2, <1>3 DEF poll_peek

LEMMA poll_peek_blocked_eof ==
    ASSUME IInv, poll_peek_blocked
    PROVE  EofStep
<1>1. CASE fut.old > 0 /\ Ready("ok", fut.old, buffer')
  <2>1. ret'.op \in Peeks /\ ret'.n = fut.old
    BY <1>1 DEF poll_peek_blocked, InRead, Ready, Answer
  <2>2. ret'.n # 0
    <3>1. PICK old \in Nat : old = fut.old
      BY Facts
    <3> QED
      BY <1>1, <2>1, <3>1
  <2> QED
    BY <2>1, <2>2 DEF EofStep, Answered, Peeks, Wholes
<1>2. CASE Pending
  BY <1>2, GoingOnIsSilent, OtherAnswers
<1> QED
  BY <1>1, <1>2 DEF poll_peek_blocked

LEMMA poll_peek_read_eof ==
    ASSUME IInv, poll_peek_read
    PROVE  EofStep
<1>1. fut.pc = "read" /\ fut.op \in Peeks /\ Untouched
  BY DEF poll_peek_read, InRead, Untouched
<1>2. CASE \E n \in 0..Room : ReadOk(n) /\ Ready("ok", fut.old + n, buffer')
  <2>1. PICK n \in 0..Room : ReadOk(n) /\ Ready("ok", fut.old + n, buffer')
    BY <1>2
  <2>2. n \in Nat
    BY <1>1, Asking
  <2>3. PICK old \in Nat : Had(old) /\ pos' = pos /\ rpos' = pos + (old + n)
    BY <1>1, <2>1, <2>2, AfterOk
  <2>4. ret'.op = fut.op /\ ret'.n = old + n
    BY <2>1, <2>3 DEF Ready, Answer, Had
  <2>5. CASE n = 0 /\ old = 0
    <3>1. closed /\ rpos' = avail
      BY <1>1, <2>1, <2>5, NothingRead
    <3>2. pos + (0 + 0) = pos
      BY Facts
    <3>3. pos' = rpos'
      BY <2>3, <2>5, <3>2
    <3> QED
      BY <1>1, <2>4, <3>1, <3>3 DEF EofStep, Answered, Peeks, Wholes
  <2>6. CASE ~(n = 0 /\ old = 0)
    <3>1. old + n # 0
      BY <2>2, <2>6
    <3> QED
      BY <1>1, <2>4, <3>1 DEF EofStep, Answered, Peeks, Wholes
  <2> QED
    BY <2>5, <2>6
<1>3. CASE Ready("err", 0, <<>>)
  BY <1>3, NotAnEnd
<1> QED
  BY <1>2, <1>3 DEF poll_peek_read

LEMMA peek_exact_read_eof ==
    ASSUME IInv, peek_exact_read
    PROVE  EofStep
<1>1. /\ At("peek_exact", "read") /\ fut.op = "peek_exact" /\ fut.pc = "read"
      /\ Untouched
  BY DEF peek_exact_read, At, Untouched
<1>2. CASE ReadOk(0) /\ Ready("eof", 0, fut.out)
  <2>1. closed /\ rpos = avail /\ rpos' = avail
    BY <1>1, <1>2, NothingRead
  <2>2. PICK want \in Nat, held \in Nat :
             fut.want = want /\ Held = held /\ held < want
    BY <1>1, ExactAsks
  <2>3. ret'.op = "peek_exact" /\ ret'.want = want
    BY <1>1, <1>2, <2>2 DEF Ready, Answer
  <2>4. rpos = pos + held /\ pos \in Nat
    BY <2>2, Facts DEF IInv, StreamIntact
  <2>5. rpos < pos + want
    BY <2>2, <2>4
  <2>6. rpos' < pos + ret'.want
    BY <2>1, <2>3, <2>5
  <2> QED
    BY <2>1, <2>3, <2>6 DEF EofStep, Answered, Peeks, Wholes
<1>3. ASSUME NEW st, NEW n, NEW out, Ready(st, n, out), st # "eof" PROVE EofStep
  BY <1>1, <1>3, NotAnEnd
<1>4. ASSUME NEW out, Continue("grow", 0, out) PROVE EofStep
  BY <1>4, GoingOnIsSilent, OtherAnswers
<1> QED
  BY <1>2, <1>3, <1>4 DEF peek_exact_read

(* The status of a Conclude is the one it is given, or "invalid". *)
LEMMA ConcludeSays ==
    ASSUME NEW st, NEW b, Conclude(st, b)
    PROVE  ret'.op = fut.op /\ ret'.st \in {st, "invalid"}
BY DEF Conclude, Ready, Answer

LEMMA FailSays ==
    ASSUME NEW st, NEW b, Fail(st, b)
    PROVE  ret'.op = fut.op /\ ret'.st \in {st, "invalid"}
BY ConcludeSays DEF Fail, Ready, Answer

LEMMA grow_peek_buffer_eof ==
    ASSUME IInv, grow_peek_buffer
    PROVE  EofStep
<1>1. CASE Fail("oom", buffer)
  BY <1>1, FailSays, OtherAnswers
<1>2. ASSUME NEW old, NEW out, Continue("read", old, out) PROVE EofStep
  BY <1>2, GoingOnIsSilent, OtherAnswers
<1> QED
  BY <1>1, <1>2 DEF grow_peek_buffer

LEMMA peek_whole_read_eof ==
    ASSUME IInv, peek_whole_read
    PROVE  EofStep
<1>1. fut.op \in Wholes /\ fut.pc = "read"
  BY DEF peek_whole_read, InRead
<1>2. ASSUME ReadOk(0), ret'.op = fut.op PROVE EofStep
  <2>1. closed /\ rpos' = avail
    BY <1>1, <1>2, NothingRead
  <2>2. ret'.op \in Wholes
    BY <1>1, <1>2
  <2> QED
    BY <2>1, <2>2 DEF EofStep, Answered, Peeks, Wholes
<1>3. ASSUME Ready("ok", Len(buffer'), fut.out) PROVE ret'.op = fut.op
  BY <1>3 DEF Ready, Answer
<1>4. CASE Fail("err", buffer')
  BY <1>4, FailSays, OtherAnswers
<1>5. ASSUME NEW out, Continue("grow", 0, out) PROVE EofStep
  BY <1>5, GoingOnIsSilent, OtherAnswers
<1> QED
  BY <1>2, <1>3, <1>4, <1>5, ConcludeSays DEF peek_whole_read

LEMMA OutcomeEof ==
    ASSUME IInv, Outcome
    PROVE  EofStep
<1>1. ASSUME NEW st, NEW n, NEW out, Ready(st, n, out),
             fut.op \in {"read", "fill_buf", "fill_peek_buf"}
      PROVE  EofStep
  BY <1>1, NotAnEnd DEF Peeks, Loops, Wholes
<1>2. CASE poll_read
  BY <1>1, <1>2 DEF poll_read, At, read_buffered, read_top_up, read_inner
<1>3. CASE poll_fill_buf
  BY <1>1, <1>3 DEF poll_fill_buf, At
<1>4. CASE fill_peek_buf_read
  BY <1>1, <1>4 DEF fill_peek_buf_read, At
<1> QED
  BY <1>2, <1>3, <1>4, poll_peek_read_eof, peek_exact_read_eof,
     peek_whole_read_eof DEF Outcome

LEMMA PrepareEof ==
    ASSUME IInv, Prepare
    PROVE  EofStep
<1>1. ASSUME NEW st, NEW n, NEW out, Ready(st, n, out),
             \/ st \notin {"ok", "eof"}
             \/ fut.op = "fill_peek_buf"
             \/ fut.op = "peek_exact" /\ st # "eof"
      PROVE  EofStep
  BY <1>1, NotAnEnd DEF Peeks, Loops, Wholes
<1>2. ASSUME NEW pc \in {"grow", "read"}, NEW old, NEW out, Continue(pc, old, out)
      PROVE  EofStep
  BY <1>2, GoingOnIsSilent, OtherAnswers
<1>3. CASE peek_exact_enter
  BY <1>1, <1>2, <1>3 DEF peek_exact_enter, At
<1>4. CASE peek_exact_resize
  BY <1>1, <1>2, <1>4 DEF peek_exact_resize, At
<1>5. CASE peek_to_end_enter
  BY <1>2, <1>5 DEF peek_to_end_enter
<1>6. CASE peek_to_string_enter
  BY <1>1, <1>2, <1>6 DEF peek_to_string_enter
<1>7. CASE fill_peek_buf_enter
  BY <1>1, <1>2, <1>7 DEF fill_peek_buf_enter, At
<1> QED
  BY <1>3, <1>4, <1>5, <1>6, <1>7, poll_peek_eof, grow_peek_buffer_eof
  DEF Prepare

(* The steps that neither ask nor answer. *)
LEMMA IdleIsSilent ==
    ASSUME IInv, \/ Arrive \/ Close \/ poll \/ drop_future
                 \/ delegated_pends \/ pending \/ poll_peek_again \/ interrupted
                 \/ UNCHANGED vars
    PROVE  Silent
<1>1. fut \in FutureType
  BY Facts
<1>2. CASE Arrive \/ Close \/ poll_peek_again \/ UNCHANGED vars
  BY <1>2 DEF Arrive, Close, poll_peek_again, vars, Silent
<1>3. CASE poll \/ drop_future
  BY <1>3 DEF poll, drop_future, Suspended, Silent
<1>4. CASE delegated_pends \/ pending \/ interrupted
  BY <1>4, GoingOnIsSilent DEF delegated_pends, pending, interrupted
<1> QED
  BY <1>2, <1>3, <1>4

LEMMA CreationIsSilent ==
    ASSUME \/ \E want \in 0..MaxWant : read(want) \/ peek(want) \/ peek_exact(want)
           \/ \E len1, len2 \in 0..MaxWant : peek_vectored(len1, len2)
           \/ fill_buf \/ peek_to_end \/ peek_to_string \/ fill_peek_buf
    PROVE  Silent
<1>1. ASSUME NEW op, NEW want, NEW old, Create(op, want, old) PROVE Silent
  BY <1>1 DEF Create, Free, Silent
<1> QED
  BY <1>1 DEF read, peek, peek_exact, peek_vectored, fill_buf, peek_to_end,
              peek_to_string, fill_peek_buf

(* What the methods that are no futures answer is about no peek. *)
LEMMA DirectAnswers ==
    ASSUME \/ \E amt \in 0..MaxWant : BufRead_consume(amt)
           \/ consume \/ consume_in_place
    PROVE  ret'.op \in {"BufRead_consume", "consume", "consume_in_place"}
BY DEF BufRead_consume, consume, consume_in_place, Answer

LEMMA StepEof ==
    ASSUME IInv, [Next]_vars
    PROVE  EofStep
<1>1. ASSUME Silent PROVE EofStep
  BY <1>1, OtherAnswers
<1>2. CASE Call
  <2>1. ASSUME ret'.op \in {"BufRead_consume", "consume", "consume_in_place"}
        PROVE  EofStep
    BY <2>1, OtherAnswers DEF Peeks, Loops, Wholes
  <2> QED
    BY <1>1, <1>2, <2>1, CreationIsSilent, DirectAnswers DEF Call
<1>3. CASE NoOutcome
  BY <1>1, <1>3, IdleIsSilent, poll_peek_blocked_eof DEF NoOutcome
<1> QED
  BY <1>1, <1>2, <1>3, IdleIsSilent, PrepareEof, OutcomeEof DEF Next

(* "End of file" is not "nothing yet": what a peek, PeekExact, PeekToEnd   *)
(* and PeekToString report as the end is a far end that has closed and a   *)
(* reader that is drained, with nothing peeked that was not counted.       *)
THEOREM EndIsTheEnd == Spec => EofIsReal
<1>1. IInv /\ [Next]_vars => EofStep
  BY StepEof
<1>2. EofStep => /\ Answered(Peeks) /\ ret'.st = "ok" /\ ret'.n = 0
                      /\ ret'.want > 0
                    => closed /\ rpos' = avail /\ pos' = rpos'
                 /\ Answered({"peek_exact"}) /\ ret'.st = "eof"
                    => closed /\ rpos' = avail /\ rpos' < pos + ret'.want
                 /\ Answered(Wholes) /\ ret'.st = "ok"
                    => closed /\ rpos' = avail
  BY DEF EofStep
<1> QED
  BY <1>1, <1>2, Invariance, PTL DEF Spec, EofIsReal

-----------------------------------------------------------------------------
(* How far PeekExact goes. *)

BoundedStep == fut.op = "peek_exact" /\ rpos' # rpos => rpos' <= pos + fut.want

LEMMA peek_exact_read_bounded ==
    ASSUME IInv, peek_exact_read
    PROVE  BoundedStep
<1>1. At("peek_exact", "read") /\ fut.pc = "read" /\ Untouched
  BY DEF peek_exact_read, At, Untouched
<1>2. PICK want \in Nat : fut.want = want /\ Len(buffer) = want
  BY <1>1, ExactAsks
<1>3. ASSUME NEW n \in Nat, ReadOk(n) PROVE BoundedStep
  <2>1. PICK old \in Nat : rpos' = pos + (old + n) /\ old + n <= Len(buffer)
    BY <1>1, <1>3, AfterOk
  <2>2. pos \in Nat
    BY Facts
  <2>3. pos + (old + n) <= pos + want
    BY <1>2, <2>1, <2>2
  <2> QED
    BY <1>2, <2>1, <2>3 DEF BoundedStep
<1>4. CASE ReaderFails
  BY <1>4 DEF ReaderFails, inner, BoundedStep
<1>5. 0 \in Nat /\ \A n \in 1..Room : n \in Nat
  BY <1>1, Asking
<1> QED
  BY <1>3, <1>4, <1>5 DEF peek_exact_read

(* No other step has PeekExact move the reader. *)
LEMMA OthersAreBounded ==
    ASSUME IInv, [Next]_vars, ~peek_exact_read
    PROVE  BoundedStep
<1>1. ASSUME rpos' = rpos PROVE BoundedStep
  BY <1>1 DEF BoundedStep
<1>2. ASSUME fut.op # "peek_exact" PROVE BoundedStep
  BY <1>2 DEF BoundedStep
<1>3. CASE Arrive \/ Close \/ poll \/ drop_future \/ UNCHANGED vars
  BY <1>1, <1>3 DEF Arrive, Close, poll, drop_future, vars, inner
<1>4. CASE Call
  <2>1. ASSUME Free PROVE fut.op # "peek_exact"
    BY <2>1 DEF Free, IInv, PollIntact
  <2>2. CASE \E amt \in 0..MaxWant : BufRead_consume(amt)
    BY <1>2, <2>1, <2>2 DEF BufRead_consume
  <2>3. CASE consume \/ consume_in_place
    BY <1>1, <2>3 DEF consume, consume_in_place, inner
  <2>4. ASSUME Hidden PROVE BoundedStep
    BY <1>1, <2>4 DEF Hidden
  <2> QED
    BY <1>4, <2>2, <2>3, <2>4, CreationIsHidden DEF Call
<1>5. CASE Prepare
  BY <1>1, <1>5 DEF Prepare, poll_peek, peek_exact_enter, peek_exact_resize,
    peek_to_end_enter, peek_to_string_enter, grow_peek_buffer,
    fill_peek_buf_enter, inner
<1>6. CASE Outcome
  BY <1>2, <1>6 DEF Outcome, poll_read, poll_fill_buf, poll_peek_read,
    peek_whole_read, fill_peek_buf_read, At, InRead, Peeks, Wholes
<1>7. CASE NoOutcome
  BY <1>1, <1>7 DEF NoOutcome, delegated_pends, poll_peek_blocked, pending,
    poll_peek_again, interrupted, ReaderPends, ReaderWouldBlock, ReaderFails,
    inner
<1> QED
  BY <1>3, <1>4, <1>5, <1>6, <1>7 DEF Next

(* Over all its polls together, PeekExact takes the reader no further than *)
(* the bytes it was asked for.                                             *)
THEOREM ExactIsBounded == Spec => PeekExactBounded
<1>1. IInv /\ [Next]_vars => BoundedStep
  BY peek_exact_read_bounded, OthersAreBounded
<1> QED
  BY <1>1, Invariance, PTL DEF Spec, PeekExactBounded, BoundedStep

-----------------------------------------------------------------------------
(* What PeekToString decides on: a piece of the stream, as text. *)

LEMMA TextTyped == ASSUME IInv PROVE text \in [1..N -> Classes]
BY Facts, TaskAssumption

LEMMA SpeltSlice ==
    ASSUME text \in [1..N -> Classes], NEW p \in Nat, NEW n \in Nat, p + n <= N
    PROVE  /\ Spelt(Slice(p, n)) = SubSeq(text, p + 1, p + n)
           /\ Spelt(Slice(p, n)) \in Text /\ Len(Spelt(Slice(p, n))) = n
<1> DEFINE b == Slice(p, n)
           s == SubSeq(text, p + 1, p + n)
<1>1. Len(b) = n /\ \A i \in 1..n : b[i] = p + i
  BY SliceFacts
<1>2. s \in Text /\ Len(s) = n /\ \A i \in 1..n : s[i] = text[p + i]
  BY PieceOfText, ReaderAssumption
<1> HIDE DEF b, s
<1>3. \A i \in 1..n : p + i \in 1..N
  BY ReaderAssumption
<1>4. \A i \in 1..n : Spelt(b)[i] = text[p + i]
  BY <1>1 DEF Spelt, Zero
<1>5. Spelt(b) \in [1..n -> Classes]
  BY <1>1, <1>3, <1>4 DEF Spelt
<1>6. Spelt(b) \in Seq(Classes) /\ Len(Spelt(b)) = n
  BY <1>5, FunctionIsSeq
<1>7. Spelt(b) = s
  BY <1>2, <1>4, <1>6, SeqEqual DEF Text
<1> QED
  BY <1>2, <1>7 DEF b, s

LEMMA SpeltPrefix ==
    ASSUME text \in [1..N -> Classes], NEW p \in Nat, NEW n \in Nat, p + n <= N,
           NEW k \in 0..n
    PROVE  Spelt(SubSeq(Slice(p, n), 1, k)) = SubSeq(Spelt(Slice(p, n)), 1, k)
<1>1. SubSeq(Slice(p, n), 1, k) = Slice(p, k) /\ k \in Nat /\ p + k <= N
  BY SliceFront, ReaderAssumption
<1> DEFINE s == Spelt(Slice(p, n))
           u == Spelt(Slice(p, k))
<1>2. u = SubSeq(text, p + 1, p + k) /\ u \in Text /\ Len(u) = k
  BY <1>1, SpeltSlice
<1>3. s = SubSeq(text, p + 1, p + n) /\ s \in Text /\ Len(s) = n
  BY SpeltSlice
<1> HIDE DEF s, u
<1>4. /\ \A i \in 1..k : u[i] = text[p + i]
      /\ \A i \in 1..n : s[i] = text[p + i]
  <2>1. \A i \in 1..k : u[i] = text[p + i]
    BY <1>1, <1>2, PieceOfText, ReaderAssumption
  <2>2. \A i \in 1..n : s[i] = text[p + i]
    BY <1>3, PieceOfText, ReaderAssumption
  <2> QED
    BY <2>1, <2>2
<1>5. /\ SubSeq(s, 1, k) \in Text /\ Len(SubSeq(s, 1, k)) = k
      /\ \A i \in 1..k : SubSeq(s, 1, k)[i] = s[i]
  <2>1. k \in 0..Len(s)
    BY <1>3
  <2> QED
    BY <1>3, <2>1, PrefixOf DEF Text
<1>6. \A i \in 1..k : u[i] = SubSeq(s, 1, k)[i]
  BY <1>4, <1>5
<1>7. u = SubSeq(s, 1, k)
  BY <1>2, <1>5, <1>6, SeqEqual DEF Text
<1> QED
  BY <1>1, <1>7 DEF s, u

LEMMA SpeltNothing == Valid(Spelt(<<>>))
BY EmptySeq, NothingIsValid, FunctionIsSeq DEF Spelt

(* How PeekToString comes to answer: its first poll turns the stream down  *)
(* before the reader is asked, or it concludes from the len bytes that are *)
(* peeked, whatever polls and whatever other futures peeked them.          *)
TurnsDown ==
    /\ fut.pc = "enter"
    /\ DefinitelyInvalid(Spelt(buffer))
    /\ ret'.st = "rejected" /\ ret'.out = <<>>

ConcludesFrom(st, len) ==
    /\ st \in {"ok", "err", "oom"}
    /\ pos + len <= N /\ Conclude(st, Slice(pos, len))
    /\ st = "ok" => avail = pos + len

Judges == Answered({"peek_to_string"})

LEMMA NoJudgement ==
    ASSUME Silent \/ ret'.op # "peek_to_string"
    PROVE  ~Judges
BY SilentIsUnanswered DEF Judges, Answered

LEMMA OtherReadies ==
    ASSUME fut.op # "peek_to_string", NEW st, NEW n, NEW out, Ready(st, n, out)
    PROVE  ~Judges
BY NoJudgement DEF Ready, Answer

LEMMA EnterJudges ==
    ASSUME IInv, Judges, peek_to_string_enter
    PROVE  TurnsDown
<1>1. ~Continue("grow", 0, <<>>)
  BY GoingOnIsSilent, NoJudgement
<1> QED
  BY <1>1 DEF peek_to_string_enter, At, TurnsDown, Ready, Answer

LEMMA GrowJudges ==
    ASSUME IInv, Judges, grow_peek_buffer
    PROVE  \E len \in Nat : ConcludesFrom("oom", len)
<1>1. fut.pc = "grow"
  BY DEF grow_peek_buffer
<1>2. ASSUME NEW old, NEW out PROVE ~Continue("read", old, out)
  BY GoingOnIsSilent, NoJudgement
<1>3. Fail("oom", buffer)
  BY <1>2 DEF grow_peek_buffer
<1>4. Conclude("oom", buffer)
  BY <1>3, OtherReadies DEF Fail
<1>5. PICK len \in Nat : buffer = Slice(pos, len) /\ rpos = pos + len
  BY <1>1, AllPeeked
<1>6. pos + len <= N
  <2>1. rpos \in Nat /\ ibuf \in Nat /\ avail \in 0..N /\ N \in Nat
        /\ rpos <= ibuf /\ ibuf <= avail
    BY Facts
  <2> QED
    BY <1>5, <2>1
<1> QED
  BY <1>4, <1>5, <1>6 DEF ConcludesFrom

LEMMA ReadJudges ==
    ASSUME IInv, Judges, peek_whole_read
    PROVE  \E st \in {"ok", "err"}, len \in Nat : ConcludesFrom(st, len)
<1>1. fut.pc = "read" /\ Untouched
  BY DEF peek_whole_read, InRead, Untouched
<1>2. avail \in 0..N /\ N \in Nat /\ rpos <= ibuf /\ ibuf <= avail
      /\ rpos \in Nat /\ ibuf \in Nat
  BY Facts
<1>3. ASSUME NEW out PROVE ~Continue("grow", 0, out)
  BY GoingOnIsSilent, NoJudgement
<1>4. CASE ReadOk(0) /\ Conclude("ok", buffer')
  <2>1. rpos' = avail
    BY <1>1, <1>4, NothingRead
  <2>2. PICK old \in Nat : /\ rpos' = pos + (old + 0)
                           /\ buffer' = Slice(pos, old + 0)
    BY <1>1, <1>4, AfterOk
  <2>3. old + 0 = old
    OBVIOUS
  <2>4. avail = pos + old /\ pos + old <= N
    BY <1>2, <2>1, <2>2, <2>3
  <2> QED
    BY <1>4, <2>2, <2>3, <2>4 DEF ConcludesFrom
<1>5. CASE ReaderFails /\ RollBack /\ Conclude("err", buffer')
  <2>1. PICK old \in Nat : Apart(old) /\ buffer' = Slice(pos, old)
    BY <1>1, <1>5, AfterNotOk
  <2>2. pos + old <= N
    BY <1>2, <2>1 DEF Apart
  <2> QED
    BY <1>5, <2>1, <2>2 DEF ConcludesFrom
<1>6. ASSUME NEW n, NEW out, fut.op = "peek_to_end" PROVE ~Ready("ok", n, out)
  BY <1>6, OtherReadies
<1>7. ASSUME Fail("err", buffer') PROVE Conclude("err", buffer')
  BY <1>7, OtherReadies DEF Fail
<1> QED
  BY <1>3, <1>4, <1>5, <1>6, <1>7 DEF peek_whole_read

LEMMA OtherPollsDoNotJudge ==
    ASSUME IInv, Prepare \/ Outcome \/ NoOutcome, fut.op # "peek_to_string"
    PROVE  ~Judges
<1>1. ASSUME NEW st, NEW n, NEW out PROVE Ready(st, n, out) => ~Judges
  BY OtherReadies
<1>2. ASSUME NEW pc \in {"grow", "read"}, NEW old, NEW out
      PROVE  Continue(pc, old, out) => ~Judges
  BY GoingOnIsSilent, NoJudgement
<1>3. ASSUME NEW st, NEW b PROVE Fail(st, b) => ~Judges
  BY <1>1 DEF Fail
<1>4. Pending => ~Judges
  BY GoingOnIsSilent, NoJudgement
<1>5. CASE Prepare
  BY <1>1, <1>2, <1>3, <1>5 DEF Prepare, poll_peek, peek_exact_enter,
    peek_exact_resize, peek_to_end_enter, peek_to_string_enter, At,
    grow_peek_buffer, fill_peek_buf_enter
<1>6. CASE Outcome
  BY <1>1, <1>2, <1>3, <1>6 DEF Outcome, poll_read, read_buffered, read_top_up,
    read_inner, poll_fill_buf, poll_peek_read, peek_exact_read, peek_whole_read,
    fill_peek_buf_read
<1>7. CASE NoOutcome
  BY <1>1, <1>4, <1>7, IdleIsSilent, NoJudgement DEF NoOutcome, poll_peek_blocked
<1> QED
  BY <1>5, <1>6, <1>7

LEMMA HowItJudges ==
    ASSUME IInv, [Next]_vars, Judges
    PROVE  TurnsDown \/ \E st, len : len \in Nat /\ ConcludesFrom(st, len)
<1>1. ~Silent
  BY NoJudgement
<1>2. ~Call
  BY <1>1, CreationIsSilent, DirectAnswers, NoJudgement DEF Call
<1>3. Prepare \/ Outcome \/ NoOutcome
  BY <1>1, <1>2, IdleIsSilent DEF Next
<1>4. fut.op = "peek_to_string"
  BY <1>3, OtherPollsDoNotJudge
<1>5. CASE Prepare
  BY <1>4, <1>5, EnterJudges, GrowJudges DEF Prepare, poll_peek, Peeks,
    peek_exact_enter, peek_exact_resize, peek_to_end_enter,
    fill_peek_buf_enter, At
<1>6. CASE Outcome
  BY <1>4, <1>6, ReadJudges DEF Outcome, poll_read, poll_fill_buf,
    poll_peek_read, peek_exact_read, fill_peek_buf_read, At, InRead, Peeks
<1>7. ~NoOutcome
  BY <1>1, <1>4, IdleIsSilent DEF NoOutcome, poll_peek_blocked, InRead, Peeks
<1> QED
  BY <1>3, <1>5, <1>6, <1>7

Verdict ==
    /\ Valid(Spelt(ret'.out))
    /\ ret'.st = "ok" => Valid(SubSeq(text, pos + 1, avail))
    /\ ret'.st = "invalid" => ~Valid(SubSeq(text, pos + 1, avail))
    /\ ret'.st = "rejected" =>
         \A t \in Texts :
           (\A i \in (pos + 1)..rpos : t[i] = text[i])
           => \A e \in rpos..N : ~Valid(SubSeq(t, pos + 1, e))

LEMMA TurningDown ==
    ASSUME IInv, TurnsDown
    PROVE  Verdict
<1>1. ret'.st = "rejected" /\ ret'.out = <<>>
  BY DEF TurnsDown
<1>2. text \in [1..N -> Classes] /\ pos \in Nat /\ N \in Nat
  BY TextTyped, Facts
<1>3. PICK len \in Nat : buffer = Slice(pos, len) /\ rpos = pos + len
  BY AllPeeked DEF TurnsDown
<1>4. pos + len <= N
  <2>1. rpos \in Nat /\ ibuf \in Nat /\ avail \in 0..N
        /\ rpos <= ibuf /\ ibuf <= avail
    BY Facts
  <2> QED
    BY <1>2, <1>3, <2>1
<1>5. DefinitelyInvalid(SubSeq(text, pos + 1, pos + len))
  <2>1. Spelt(buffer) = SubSeq(text, pos + 1, pos + len)
    BY <1>2, <1>3, <1>4, SpeltSlice
  <2> QED
    BY <2>1 DEF TurnsDown
<1>6. ASSUME NEW t \in Texts, \A i \in (pos + 1)..rpos : t[i] = text[i],
             NEW e \in rpos..N
      PROVE  ~Valid(SubSeq(t, pos + 1, e))
  <2>1. t \in [1..N -> Classes]
    BY TaskAssumption
  <2>2. /\ e \in (pos + len)..N
        /\ \A i \in (pos + 1)..(pos + len) : t[i] = text[i]
    BY <1>3, <1>6
  <2>3. len \in Nat
    OBVIOUS
  <2> QED
    BY ONLY <1>2, <1>4, <1>5, <2>1, <2>2, <2>3, NoContinuation
<1> QED
  BY <1>1, <1>6, SpeltNothing DEF Verdict

LEMMA Concluding ==
    ASSUME IInv, NEW st, NEW len \in Nat, ConcludesFrom(st, len)
    PROVE  Verdict
<1>1. /\ text \in [1..N -> Classes] /\ pos \in Nat /\ pos + len <= N
      /\ st \in {"ok", "err", "oom"}
      /\ st = "ok" => avail = pos + len
  BY TextTyped, Facts DEF ConcludesFrom
<1> DEFINE b == Slice(pos, len)
<1>2. Conclude(st, b)
  BY DEF ConcludesFrom
<1>3. Len(b) = len
  BY ONLY <1>1, len \in Nat, SliceFacts
<1>4. /\ Spelt(b) = SubSeq(text, pos + 1, pos + len)
      /\ Spelt(b) \in Text /\ Len(Spelt(b)) = len
  BY <1>1, SpeltSlice
<1>5. \A k \in 0..len : Spelt(SubSeq(b, 1, k)) = SubSeq(Spelt(b), 1, k)
  BY <1>1, SpeltPrefix
<1> HIDE DEF b
<1>6. CASE Valid(Spelt(b)) /\ \E n : Ready(st, n, b)
  <2>1. ret'.st = st /\ ret'.out = b
    BY <1>6 DEF Ready, Answer
  <2> QED
    BY <1>1, <1>4, <1>6, <2>1 DEF Verdict
<1>7. CASE ~Valid(Spelt(b)) /\ st = "ok" /\ Ready("invalid", 0, <<>>)
  <2>1. ret'.st = "invalid" /\ ret'.out = <<>>
    BY <1>7 DEF Ready, Answer
  <2> QED
    BY <1>1, <1>4, <1>7, <2>1, SpeltNothing DEF Verdict
<1>8. ASSUME st # "ok", NEW vut \in 0..Len(b), vut = ValidUpTo(Spelt(b)),
             Ready(st, 0, SubSeq(b, 1, vut))
      PROVE  Verdict
  <2>1. ret'.st = st /\ ret'.out = SubSeq(b, 1, vut)
    BY <1>8 DEF Ready, Answer
  <2>2. Valid(SubSeq(Spelt(b), 1, vut))
    BY <1>4, <1>8, ValidUpToFacts
  <2>3. Spelt(SubSeq(b, 1, vut)) = SubSeq(Spelt(b), 1, vut)
    BY <1>3, <1>5
  <2> QED
    BY <1>1, <1>8, <2>1, <2>2, <2>3 DEF Verdict
<1> QED
  BY <1>2, <1>6, <1>7, <1>8 DEF Conclude

(* PeekToString turns a stream down only when it is not text, or cannot    *)
(* become so however it goes on, and gives only text; a character that a   *)
(* Pending or an earlier peek has split is no reason, since the whole of   *)
(* what is peeked is judged, and only once.                                *)
THEOREM VerdictIsRight == Spec => StringVerdict
<1>1. IInv /\ [Next]_vars => [Judges => Verdict]_vars
  BY HowItJudges, TurningDown, Concluding
<1> QED
  BY <1>1, Invariance, PTL DEF Spec, StringVerdict, Judges, Verdict
=============================================================================
