-------------------------- MODULE RefinementProofs --------------------------
(***************************************************************************)
(* Peekable implements two abstract specifications.  It is a reader: every *)
(* step of it is one that the contract of Read and BufRead (PlainReader)   *)
(* allows, or shows nothing to a consumer who does not peek.  And it is a  *)
(* stream with two cursors (PeekStream): every step moves the cursors and  *)
(* answers as a stream that keeps its bytes would, or shows nothing.       *)
(*                                                                         *)
(* The lemmas go method by method; the inductive invariant of              *)
(* PeekableProofs ties what a method hands out to where the consumer       *)
(* stands, and what is between the cursors to what the peek buffer holds.  *)
(***************************************************************************)
EXTENDS PeekableProofs

-----------------------------------------------------------------------------
(* Pieces of the stream. *)

(* The front of the peek buffer is what the consumer gets next. *)
LEMMA FrontIsNext ==
    ASSUME IInv, call.pc # "read", NEW k \in 0..Len(buffer)
    PROVE  SubSeq(buffer, 1, k) = Slice(pos, k)
<1>1. buffer \in Seq(Nat) /\ pos \in Nat /\ Len(buffer) \in Nat
  BY Facts
<1>2. /\ SubSeq(buffer, 1, k) \in Seq(Nat)
      /\ Len(SubSeq(buffer, 1, k)) = k
      /\ \A i \in 1..k : SubSeq(buffer, 1, k)[i] = buffer[i]
  BY <1>1, PrefixFacts
<1>3. \A i \in 1..k : buffer[i] = pos + i
  BY <1>1, HeldIsAll
<1> DEFINE s == SubSeq(buffer, 1, k)
<1>4. s \in Seq(Nat) /\ Len(s) = k /\ \A i \in 1..Len(s) : s[i] = pos + i
  BY <1>2, <1>3
<1> HIDE DEF s
<1>5. s = Slice(pos, Len(s))
  BY <1>1, <1>4, IsSlice
<1> QED
  BY <1>4, <1>5 DEF s

(* The contract speaks of the same stream. *)
LEMMA SameSlice == \A p, n : AsReader!Slice(p, n) = Slice(p, n)
BY DEF AsReader!Slice, Slice

-----------------------------------------------------------------------------
(* read *)

LEMMA ReadAnswers ==
    ASSUME NEW want \in Nat, NEW k \in Nat, pos \in Nat, avail \in Nat,
           k <= want, pos + k <= avail, k = 0 => want = 0 \/ pos = avail,
           Answer("read", "ok", want, k, Slice(pos, k)),
           pos' = pos + k, lent' = 0
    PROVE  AsReader!Read
<1>1. /\ ret'.op = "read" /\ ret'.st = "ok" /\ ret'.want = want
      /\ ret'.n = k /\ ret'.out = Slice(pos, k)
  BY DEF Answer
<1> QED
  BY <1>1, SameSlice
  DEF AsReader!Read, AsReader!Says, AsReader!NextBytes, AsReader!AtEnd

LEMMA read_is_Read ==
    ASSUME IInv, NEW want \in Nat, read(want)
    PROVE  AsReader!Read /\ avail' = avail
<1>1. /\ Idle /\ call.pc # "read" /\ lent' = 0 /\ avail' = avail
  BY DEF read, Idle
<1>2. /\ pos \in Nat /\ rpos \in Nat /\ avail \in Nat /\ Len(buffer) \in Nat
      /\ ibuf \in Nat /\ rpos <= ibuf /\ ibuf <= avail /\ buffer \in Seq(Nat)
  BY Facts
<1>3. rpos = pos + Len(buffer)
  BY <1>1, HeldIsAll
<1>4. buffer = Slice(pos, Len(buffer))
  BY <1>1, BufferIsSlice
<1>5. buffer = <<>> <=> Len(buffer) = 0
  BY <1>2, EmptySeq
<1>6. PICK len \in Nat : len = Len(buffer)
  BY <1>2
<1>7. CASE read_buffered(want)
  <2>1. want <= len /\ pos' = pos + want
    BY <1>6, <1>7 DEF read_buffered
  <2>2. Answer("read", "ok", want, want, Slice(pos, want))
    <3>1. want \in 0..Len(buffer)
      BY <1>6, <2>1
    <3>2. SubSeq(buffer, 1, want) = Slice(pos, want)
      BY <1>1, <3>1, FrontIsNext
    <3>3. Answer("read", "ok", want, want, SubSeq(buffer, 1, want))
      BY <1>7 DEF read_buffered
    <3> QED
      BY <3>2, <3>3
  <2>3. pos + want <= avail
    BY <1>2, <1>3, <1>6, <2>1
  <2> QED
    BY <1>1, <1>2, <2>1, <2>2, <2>3, ReadAnswers
<1>8. CASE read_top_up(want)
  <2>1. len > 0 /\ want > len
    BY <1>5, <1>6, <1>8 DEF read_top_up
  <2>2. CASE \E n \in 0..(want - Len(buffer)) :
            /\ MayRead(want - Len(buffer), n)
            /\ pos' = pos + Len(buffer) + n
            /\ Answer("read", "ok", want, Len(buffer) + n,
                      buffer \o Slice(rpos, n))
    <3>1. PICK n \in 0..(want - len) :
            /\ rpos + n <= avail
            /\ pos' = pos + len + n
            /\ Answer("read", "ok", want, len + n, buffer \o Slice(rpos, n))
      BY <1>6, <2>2 DEF MayRead
    <3>2. n \in Nat /\ len + n \in Nat /\ len + n <= want /\ len + n # 0
      BY <2>1
    <3>3. buffer \o Slice(rpos, n) = Slice(pos, len + n)
      <4>1. pos \in Nat /\ n \in Nat
        BY <1>2, <3>2
      <4>2. Slice(pos, len) \o Slice(pos + len, n) = Slice(pos, len + n)
        BY <4>1, SlicesMeet
      <4>3. buffer = Slice(pos, len) /\ rpos = pos + len
        BY <1>3, <1>4, <1>6
      <4> QED
        BY <4>2, <4>3
    <3>4. pos + (len + n) <= avail /\ pos' = pos + (len + n)
      BY <1>2, <1>3, <1>6, <3>1, <3>2
    <3> QED
      BY <1>1, <1>2, <3>1, <3>2, <3>3, <3>4, ReadAnswers
  <2>3. CASE /\ pos' = pos + Len(buffer)
             /\ Answer("read", "ok", want, Len(buffer), buffer)
    <3>1. len <= want /\ len # 0 /\ pos + len <= avail /\ pos' = pos + len
      BY <1>2, <1>3, <1>6, <2>1, <2>3
    <3>2. Answer("read", "ok", want, len, Slice(pos, len))
      BY <1>4, <1>6, <2>3
    <3> QED
      BY <1>1, <1>2, <3>1, <3>2, ReadAnswers
  <2> QED
    BY <1>8, <2>2, <2>3 DEF read_top_up
<1>9. CASE read_inner(want)
  <2>1. rpos = pos
    BY <1>2, <1>3, <1>5, <1>9 DEF read_inner
  <2>2. CASE \E n \in 0..want :
            /\ MayRead(want, n)
            /\ pos' = pos + n
            /\ Answer("read", "ok", want, n, Slice(rpos, n))
    <3>1. PICK n \in 0..want :
            /\ MayRead(want, n)
            /\ pos' = pos + n
            /\ Answer("read", "ok", want, n, Slice(rpos, n))
      BY <2>2
    <3>2. /\ n \in Nat /\ n <= want /\ pos + n <= avail
          /\ n = 0 => want = 0 \/ pos = avail
      BY <2>1, <3>1 DEF MayRead
    <3> QED
      BY <1>1, <1>2, <2>1, <3>1, <3>2, ReadAnswers
  <2>3. CASE pos' = pos /\ Answer("read", "err", want, 0, <<>>)
    BY <1>1, <2>3 DEF Answer, AsReader!Read, AsReader!Says
  <2> QED
    BY <1>9, <2>2, <2>3 DEF read_inner
<1> QED
  BY <1>1, <1>7, <1>8, <1>9 DEF read

-----------------------------------------------------------------------------
(* fill_buf *)

LEMMA FillBufAnswers ==
    ASSUME NEW k \in Nat, pos \in Nat, avail \in Nat,
           pos + k <= avail, k = 0 => pos = avail,
           Answer("fill_buf", "ok", 0, k, Slice(pos, k)),
           pos' = pos, lent' = k
    PROVE  AsReader!FillBuf
<1>1. /\ ret'.op = "fill_buf" /\ ret'.st = "ok"
      /\ ret'.n = k /\ ret'.out = Slice(pos, k)
  BY DEF Answer
<1> QED
  BY <1>1, SameSlice
  DEF AsReader!FillBuf, AsReader!Says, AsReader!NextBytes, AsReader!AtEnd

LEMMA fill_buf_is_FillBuf ==
    ASSUME IInv, fill_buf
    PROVE  AsReader!FillBuf /\ avail' = avail
<1>1. Idle /\ call.pc # "read" /\ pos' = pos /\ avail' = avail
  BY DEF fill_buf, Idle, client
<1>2. /\ pos \in Nat /\ rpos \in Nat /\ avail \in Nat /\ Len(buffer) \in Nat
      /\ ibuf \in Nat /\ rpos <= ibuf /\ ibuf <= avail /\ buffer \in Seq(Nat)
  BY Facts
<1>3. rpos = pos + Len(buffer) /\ buffer = Slice(pos, Len(buffer))
  BY <1>1, HeldIsAll, BufferIsSlice
<1>4. buffer = <<>> <=> Len(buffer) = 0
  BY <1>2, EmptySeq
<1>5. PICK len \in Nat : len = Len(buffer)
  BY <1>2
<1>6. CASE /\ buffer # <<>>
           /\ lent' = Len(buffer)
           /\ Answer("fill_buf", "ok", 0, Len(buffer), buffer)
  <2>1. len # 0 /\ pos + len <= avail
    BY <1>2, <1>3, <1>4, <1>5, <1>6
  <2>2. Answer("fill_buf", "ok", 0, len, Slice(pos, len)) /\ lent' = len
    BY <1>3, <1>5, <1>6
  <2> QED
    BY <1>1, <1>2, <2>1, <2>2, FillBufAnswers
<1>7. CASE /\ buffer = <<>>
           /\ inner_fill_buf
           /\ lent' = ibuf' - rpos
           /\ Answer("fill_buf", "ok", 0, ibuf' - rpos,
                     Slice(rpos, ibuf' - rpos))
  <2>1. rpos = pos
    BY <1>2, <1>3, <1>4, <1>7
  <2>2. PICK i \in Nat : /\ i = ibuf' /\ pos <= i /\ i <= avail
                         /\ i = pos => pos = avail
    <3>1. CASE pos < ibuf /\ ibuf' = ibuf
      BY <1>2, <2>1, <3>1
    <3>2. CASE pos = ibuf /\ ibuf < avail /\ ibuf' \in (ibuf + 1)..avail
      <4>1. PICK i \in (ibuf + 1)..avail : i = ibuf'
        BY <3>2
      <4>2. i \in Nat /\ pos <= i /\ i <= avail /\ i # pos
        BY <1>2, <3>2, <4>1
      <4> QED
        BY <4>1, <4>2
    <3>3. CASE pos = avail /\ ibuf' = ibuf
      BY <1>2, <2>1, <3>3
    <3> QED
      BY <1>7, <2>1, <3>1, <3>2, <3>3 DEF inner_fill_buf
  <2>. pos \in Nat /\ avail \in Nat
    BY <1>2
  <2>. pos <= i /\ i <= avail /\ (i = pos => pos = avail)
    BY <2>2
  <2>3. PICK k \in Nat : k = i - pos
    OBVIOUS
  <2>4. pos + k <= avail /\ (k = 0 => pos = avail)
    BY <2>3
  <2>5. Answer("fill_buf", "ok", 0, k, Slice(pos, k)) /\ lent' = k
    BY <1>7, <2>1, <2>2, <2>3
  <2> QED
    BY <1>1, <1>2, <2>4, <2>5, FillBufAnswers
<1>8. CASE lent' = 0 /\ Answer("fill_buf", "err", 0, 0, <<>>)
  BY <1>1, <1>8 DEF Answer, AsReader!FillBuf, AsReader!Says
<1> QED
  BY <1>6, <1>7, <1>8 DEF fill_buf

-----------------------------------------------------------------------------
(* The methods that drop bytes. *)

LEMMA BufRead_consume_is_Consume ==
    ASSUME NEW amt \in Nat, BufRead_consume(amt)
    PROVE  AsReader!Consume /\ avail' = avail
BY DEF BufRead_consume, Answer, AsReader!Consume, AsReader!Says

LEMMA DiscardIsSkip ==
    ASSUME IInv, NEW op \in {"consume", "consume_in_place"}, NEW n,
           NEW out, Idle, pos' = pos + Len(buffer), lent' = 0,
           Answer(op, "ok", 0, n, out)
    PROVE  AsReader!Skip
<1>1. rpos = pos + Len(buffer)
  BY HeldIsAll DEF Idle
<1>2. pos + Len(buffer) <= avail /\ pos <= pos + Len(buffer)
  BY <1>1, Facts
<1>3. ret'.op = op /\ ret'.st = "ok"
  BY DEF Answer
<1> QED
  BY <1>2, <1>3 DEF AsReader!Skip, AsReader!Says

LEMMA consume_is_Skip ==
    ASSUME IInv, consume \/ consume_in_place
    PROVE  AsReader!Skip /\ avail' = avail
<1>1. CASE consume
  BY <1>1, DiscardIsSkip DEF consume
<1>2. CASE consume_in_place
  BY <1>2, DiscardIsSkip DEF consume_in_place
<1> QED
  BY <1>1, <1>2

-----------------------------------------------------------------------------
(* The peeks, and their steps. *)

Peeks == {"peek", "peek_vectored", "peek_exact", "peek_to_end",
          "peek_to_string", "fill_peek_buf"}

(* Nothing but a peek is answered, the consumer's cursors stay. *)
Quiet ==
    /\ ret' = ret \/ ret'.op \in Peeks
    /\ pos' = pos /\ lent' = lent /\ avail' = avail

LEMMA QuietIsAside == ASSUME Quiet PROVE AsReader!Aside
BY DEF Quiet, Peeks, AsReader!Aside

LEMMA AnswerIsPeek ==
    ASSUME NEW op \in Peeks, NEW st, NEW want, NEW n, NEW out,
           Answer(op, st, want, n, out)
    PROVE  ret'.op \in Peeks
BY DEF Answer

LEMMA ReturnIsPeek ==
    ASSUME call.op \in Peeks, NEW st, NEW n, NEW out, Return(st, n, out)
    PROVE  ret'.op \in Peeks
BY AnswerIsPeek DEF Return

LEMMA ConcludeIsPeek ==
    ASSUME call.op \in Peeks, NEW st, NEW b, Conclude(st, b)
    PROVE  ret'.op \in Peeks
BY ReturnIsPeek DEF Conclude

LEMMA PeekInto_is_quiet ==
    ASSUME NEW op \in Peeks, NEW asked, NEW want, PeekInto(op, asked, want)
    PROVE  Quiet
BY AnswerIsPeek DEF PeekInto, Quiet, client

LEMMA StartIsQuiet ==
    ASSUME \/ \E want \in 0..MaxWant : peek(want) \/ peek_exact(want)
           \/ \E len1, len2 \in 0..MaxWant : peek_vectored(len1, len2)
           \/ peek_to_end \/ peek_to_string \/ fill_peek_buf
    PROVE  Quiet
<1> USE DEF Quiet, client
<1>0. /\ "peek" \in Peeks /\ "peek_vectored" \in Peeks
      /\ "peek_exact" \in Peeks /\ "peek_to_string" \in Peeks
      /\ "fill_peek_buf" \in Peeks
  BY DEF Peeks
<1>1. ASSUME NEW want, peek(want) PROVE Quiet
  BY <1>0, <1>1, PeekInto_is_quiet DEF peek
<1>2. ASSUME NEW want, peek_exact(want) PROVE Quiet
  BY <1>0, <1>2, AnswerIsPeek DEF peek_exact
<1>3. ASSUME NEW len1, NEW len2, peek_vectored(len1, len2) PROVE Quiet
  BY <1>0, <1>3, PeekInto_is_quiet DEF peek_vectored
<1>4. ASSUME peek_to_end PROVE Quiet
  BY <1>4 DEF peek_to_end
<1>5. ASSUME peek_to_string PROVE Quiet
  BY <1>0, <1>5, AnswerIsPeek DEF peek_to_string
<1>6. ASSUME fill_peek_buf PROVE Quiet
  BY <1>0, <1>6, AnswerIsPeek DEF fill_peek_buf
<1> QED
  BY <1>1, <1>2, <1>3, <1>4, <1>5, <1>6

LEMMA StepIsQuiet ==
    ASSUME Step
    PROVE  Quiet
<1> USE DEF Quiet, client, ReadAgain
<1>1. Step => call.op \in Peeks
  BY DEF Step, peek_read, peek_exact_resize, peek_exact_read,
         grow_peek_buffer, peek_to_end_read, peek_to_string_read,
         peek_to_interrupted, fill_peek_buf_read, At, Peeks
<1>2. call.op \in Peeks
  BY <1>1
<1>3. ASSUME peek_read PROVE Quiet
  BY <1>2, <1>3, ReturnIsPeek DEF peek_read
<1>4. ASSUME peek_exact_resize PROVE Quiet
  BY <1>2, <1>4, ReturnIsPeek DEF peek_exact_resize
<1>5. ASSUME peek_exact_read PROVE Quiet
  BY <1>2, <1>5, ReturnIsPeek DEF peek_exact_read
<1>6. ASSUME grow_peek_buffer PROVE Quiet
  BY <1>2, <1>6, ReturnIsPeek, ConcludeIsPeek
  DEF grow_peek_buffer, grow_ok, grow_halve, grow_fail
<1>7. ASSUME peek_to_end_read PROVE Quiet
  BY <1>2, <1>7, ReturnIsPeek DEF peek_to_end_read, Again
<1>8. ASSUME peek_to_string_read PROVE Quiet
  BY <1>2, <1>8, ConcludeIsPeek DEF peek_to_string_read, Again
<1>9. ASSUME peek_to_interrupted PROVE Quiet
  BY <1>9 DEF peek_to_interrupted, Again
<1>10. ASSUME fill_peek_buf_read PROVE Quiet
  BY <1>2, <1>10, ReturnIsPeek DEF fill_peek_buf_read
<1> QED
  BY <1>3, <1>4, <1>5, <1>6, <1>7, <1>8, <1>9, <1>10 DEF Step

-----------------------------------------------------------------------------
(* Every step, and the theorem. *)

LEMMA NextIsReader ==
    ASSUME IInv, [Next]_vars
    PROVE  [AsReader!Next]_(AsReader!vars)
<1> USE DEF AsReader!Next, AsReader!source
<1>1. ASSUME Arrive PROVE AsReader!Arrive
  BY <1>1, Facts DEF Arrive, client, AsReader!Arrive
<1>2. ASSUME NEW want \in 0..MaxWant, read(want) PROVE AsReader!Next
  <2>1. want \in Nat
    BY ClientAssumption
  <2> QED
    BY <1>2, <2>1, read_is_Read
<1>3. ASSUME fill_buf PROVE AsReader!Next
  BY <1>3, fill_buf_is_FillBuf
<1>4. ASSUME NEW amt \in 0..MaxWant, BufRead_consume(amt)
      PROVE  AsReader!Next
  <2>1. amt \in Nat
    BY ClientAssumption
  <2> QED
    BY <1>4, <2>1, BufRead_consume_is_Consume
<1>5. ASSUME consume \/ consume_in_place PROVE AsReader!Next
  BY <1>5, consume_is_Skip
<1>6. ASSUME Quiet PROVE AsReader!Next
  BY <1>6, QuietIsAside DEF Quiet
<1>7. ASSUME Call PROVE AsReader!Next
  BY <1>2, <1>3, <1>4, <1>5, <1>6, <1>7, StartIsQuiet DEF Call
<1>8. ASSUME Step PROVE AsReader!Next
  BY <1>6, <1>8, StepIsQuiet
<1>9. ASSUME UNCHANGED vars PROVE UNCHANGED AsReader!vars
  BY <1>9 DEF vars, AsReader!vars
<1> QED
  BY <1>1, <1>7, <1>8, <1>9 DEF Next

(* The wrapper is a reader: whatever is peeked in between, its read,       *)
(* fill_buf and consume keep the contract of Read and BufRead.             *)
THEOREM PeekableIsReader == Spec => ActsAsReader
<1>1. Init => AsReader!Init
  BY DEF Init, NoAnswer, AsReader!Init
<1>2. IInv /\ [Next]_vars => [AsReader!Next]_(AsReader!vars)
  BY NextIsReader
<1> QED
  BY <1>1, <1>2, Invariance, PTL DEF Spec, ActsAsReader, AsReader!Spec

-----------------------------------------------------------------------------
(* The abstract stream and this one. *)

LEMMA SameStream ==
    /\ \A p, n : Abstract!Slice(p, n) = Slice(p, n)
    /\ \A a, b : Abstract!Smaller(a, b) = Smaller(a, b)
    /\ \A a, b : Abstract!Larger(a, b) = Larger(a, b)
BY DEF Abstract!Slice, Slice, Abstract!Smaller, Smaller, Abstract!Larger, Larger

(* The cursors are held bytes apart. *)
Apart(held) == rpos = pos + held /\ pos \in Nat /\ held \in Nat

LEMMA ApartFacts ==
    ASSUME IInv
    PROVE  Apart(Held) /\ (call.pc # "read" => Apart(Len(buffer)))
BY Facts, HeldIsAll DEF Apart

LEMMA AheadIs ==
    ASSUME NEW held, Apart(held)
    PROVE  Abstract!Ahead = held /\ Abstract!Peeked = Slice(pos, held)
<1>1. Abstract!Ahead = held
  BY DEF Apart, Abstract!Ahead
<1> QED
  BY <1>1, SameStream DEF Abstract!Peeked

(* A whole buffer is a slice. *)
LEMMA WholeIsSlice ==
    ASSUME NEW held, Whole(held), Len(buffer') = held
    PROVE  buffer' = Slice(pos', held)
BY IsSlice DEF Whole, Bytes

(* A step that shows nothing. *)
Hidden == pos' = pos /\ rpos' = rpos /\ ret' = ret

LEMMA HiddenIsStutter == ASSUME Hidden PROVE UNCHANGED Abstract!vars
BY DEF Hidden, Abstract!vars

(* The reader is advanced inside a call. *)
LEMMA AdvanceIsReadAhead ==
    ASSUME rpos \in Nat, NEW n \in Nat, rpos' = rpos + n, pos' = pos, ret' = ret
    PROVE  Abstract!ReadAhead
BY DEF Abstract!ReadAhead

-----------------------------------------------------------------------------
(* read *)

LEMMA ReadDelivers ==
    ASSUME NEW held, Apart(held), NEW want \in Nat, NEW k \in Nat,
           k <= want, want <= held \/ held <= k, want <= held => k = want,
           Answer("read", "ok", want, k, Slice(pos, k)), pos' = pos + k,
           rpos' = IF k <= held THEN rpos ELSE pos + k
    PROVE  Abstract!Read
<1>1. /\ ret'.op = "read" /\ ret'.st = "ok" /\ ret'.want = want
      /\ ret'.n = k /\ ret'.out = Slice(pos, k)
  BY DEF Answer
<1>2. Abstract!Ahead = held
  BY AheadIs
<1>3. Smaller(want, held) <= k /\ rpos' = Larger(rpos, pos + k)
  BY DEF Apart, Smaller, Larger
<1> QED
  BY <1>1, <1>2, <1>3, SameStream
  DEF Abstract!Read, Abstract!Answers, Abstract!Shows

LEMMA read_refines ==
    ASSUME IInv, NEW want \in Nat, read(want)
    PROVE  Abstract!Read
<1>1. /\ Idle /\ call.pc # "read"
  BY DEF read, Idle
<1>2. /\ pos \in Nat /\ rpos \in Nat /\ Len(buffer) \in Nat
      /\ buffer \in Seq(Nat)
  BY Facts
<1>3. PICK len \in Nat : len = Len(buffer)
  BY <1>2
<1>4. Apart(len) /\ rpos = pos + len /\ buffer = Slice(pos, len)
  BY <1>1, <1>3, ApartFacts, BufferIsSlice DEF Apart
<1>5. buffer = <<>> <=> len = 0
  BY <1>2, <1>3, EmptySeq
<1>6. CASE read_buffered(want)
  <2>1. want <= len /\ pos' = pos + want /\ rpos' = rpos
    BY <1>3, <1>6 DEF read_buffered, inner
  <2>2. SubSeq(buffer, 1, want) = Slice(pos, want)
    <3>1. want \in 0..Len(buffer)
      BY <1>3, <2>1
    <3> QED
      BY <1>1, <3>1, FrontIsNext
  <2>3. Answer("read", "ok", want, want, Slice(pos, want))
    BY <1>6, <2>2 DEF read_buffered
  <2> QED
    BY <1>4, <2>1, <2>3, ReadDelivers
<1>7. CASE read_top_up(want)
  <2>1. want > len
    BY <1>3, <1>7 DEF read_top_up
  <2>2. CASE \E n \in 0..(want - Len(buffer)) :
            /\ MayRead(want - Len(buffer), n)
            /\ Advance(n)
            /\ pos' = pos + Len(buffer) + n
            /\ Answer("read", "ok", want, Len(buffer) + n,
                      buffer \o Slice(rpos, n))
    <3>1. PICK n \in 0..(want - len) :
            /\ rpos' = rpos + n
            /\ pos' = pos + len + n
            /\ Answer("read", "ok", want, len + n, buffer \o Slice(rpos, n))
      BY <1>3, <2>2 DEF Advance
    <3>2. n \in Nat
      BY <2>1
    <3>3. PICK k \in Nat : k = len + n
      BY <3>2
    <3>4. buffer \o Slice(rpos, n) = Slice(pos, k)
      <4>1. Slice(pos, len) \o Slice(pos + len, n) = Slice(pos, len + n)
        BY <1>2, <3>2, SlicesMeet
      <4> QED
        BY <1>4, <3>3, <4>1
    <3>5. k <= want /\ len <= k
      BY <2>1, <3>1, <3>2, <3>3
    <3>6. pos + len + n = pos + k /\ rpos + n = pos + k
      BY <1>2, <1>4, <3>2, <3>3
    <3>7. rpos + n = IF k <= len THEN rpos ELSE pos + k
      BY <1>2, <1>4, <3>2, <3>3
    <3>8. pos' = pos + k /\ rpos' = IF k <= len THEN rpos ELSE pos + k
      BY <3>1, <3>6, <3>7
    <3>9. Answer("read", "ok", want, k, Slice(pos, k))
      BY <3>1, <3>3, <3>4
    <3> QED
      BY <1>4, <2>1, <3>5, <3>8, <3>9, ReadDelivers
  <2>3. CASE /\ ReaderFails
             /\ pos' = pos + Len(buffer)
             /\ Answer("read", "ok", want, Len(buffer), buffer)
    <3>1. pos' = pos + len /\ rpos' = rpos
      BY <1>3, <2>3 DEF ReaderFails, inner
    <3>2. Answer("read", "ok", want, len, Slice(pos, len))
      BY <1>3, <1>4, <2>3
    <3> QED
      BY <1>4, <2>1, <3>1, <3>2, ReadDelivers
  <2> QED
    BY <1>7, <2>2, <2>3 DEF read_top_up
<1>8. CASE read_inner(want)
  <2>1. len = 0 /\ rpos = pos /\ Apart(0)
    BY <1>2, <1>4, <1>5, <1>8 DEF read_inner
  <2>2. CASE \E n \in 0..want :
            /\ MayRead(want, n)
            /\ Advance(n)
            /\ pos' = pos + n
            /\ Answer("read", "ok", want, n, Slice(rpos, n))
    <3>1. PICK n \in 0..want :
            /\ rpos' = pos + n
            /\ pos' = pos + n
            /\ Answer("read", "ok", want, n, Slice(pos, n))
      BY <2>1, <2>2 DEF Advance
    <3>2. pos + n = IF n <= 0 THEN rpos ELSE pos + n
      BY <1>2, <2>1
    <3>3. /\ n \in Nat /\ n <= want /\ 0 <= n /\ (want <= 0 => n = want)
          /\ rpos' = IF n <= 0 THEN rpos ELSE pos + n
      BY <3>1, <3>2
    <3> QED
      BY <2>1, <3>1, <3>3, ReadDelivers
  <2>3. CASE ReaderFails /\ pos' = pos /\ Answer("read", "err", want, 0, <<>>)
    <3>1. Abstract!Ahead = 0
      BY <2>1, AheadIs
    <3>2. ret'.op = "read" /\ ret'.st = "err" /\ rpos' = rpos /\ pos' = pos
      BY <2>3 DEF Answer, ReaderFails, inner
    <3> QED
      BY <3>1, <3>2 DEF Abstract!Read, Abstract!Answers
  <2> QED
    BY <1>8, <2>2, <2>3 DEF read_inner
<1> QED
  BY <1>6, <1>7, <1>8 DEF read

-----------------------------------------------------------------------------
(* fill_buf and the methods that drop bytes *)

LEMMA fill_buf_refines ==
    ASSUME IInv, fill_buf
    PROVE  Abstract!FillBuf
<1>1. call.pc # "read" /\ pos' = pos /\ rpos' = rpos
  BY DEF fill_buf, Idle, client, storage, inner, inner_fill_buf, ReaderFails
<1>2. Abstract!Ahead = Len(buffer)
  BY <1>1, ApartFacts, AheadIs
<1>3. buffer = <<>> <=> Len(buffer) = 0
  BY Facts, EmptySeq
<1>4. \/ /\ ret'.op = "fill_buf" /\ ret'.st = "ok" /\ ret'.out = Slice(pos, ret'.n)
         /\ Len(buffer) > 0 => ret'.n = Len(buffer)
      \/ ret'.op = "fill_buf" /\ ret'.st = "err" /\ Len(buffer) = 0
  <2>1. AsReader!FillBuf
    BY fill_buf_is_FillBuf
  <2>2. \/ ret'.op = "fill_buf" /\ ret'.st = "ok" /\ ret'.out = Slice(pos, ret'.n)
        \/ ret'.op = "fill_buf" /\ ret'.st = "err"
    BY <2>1, SameSlice DEF AsReader!FillBuf, AsReader!Says, AsReader!NextBytes
  <2>3. ret'.st = "err" => buffer = <<>>
    BY DEF fill_buf, Answer
  <2>4. buffer # <<>> => ret'.n = Len(buffer)
    BY DEF fill_buf, Answer
  <2> QED
    BY <1>3, <2>2, <2>3, <2>4, Facts
<1> QED
  BY <1>1, <1>2, <1>4, SameStream
  DEF Abstract!FillBuf, Abstract!Answers, Abstract!Shows

LEMMA BufRead_consume_refines ==
    ASSUME IInv, NEW amt \in Nat, BufRead_consume(amt)
    PROVE  Abstract!Skip
<1>1. call.pc # "read"
  BY DEF BufRead_consume, Idle
<1>2. PICK len \in Nat : len = Len(buffer)
  BY Facts
<1>3. rpos = pos + len /\ pos \in Nat
  BY <1>1, <1>2, ApartFacts DEF Apart
<1>4. rpos + (amt - Smaller(amt, len)) = Larger(rpos, pos + amt)
  BY <1>3 DEF Smaller, Larger
<1>5. /\ ret'.op = "BufRead_consume" /\ ret'.st = "ok" /\ ret'.want = amt
      /\ pos' = pos + amt
      /\ rpos' = rpos + (amt - Smaller(amt, len))
  BY <1>2 DEF BufRead_consume, Answer, FromBuffer
<1> QED
  BY <1>4, <1>5, SameStream DEF Abstract!Skip, Abstract!Answers

LEMMA consume_refines ==
    ASSUME IInv, consume \/ consume_in_place
    PROVE  Abstract!Discard
<1>1. call.pc # "read"
  BY DEF consume, consume_in_place, Idle
<1>2. /\ Abstract!Ahead = Len(buffer) /\ rpos = pos + Len(buffer)
      /\ buffer = Slice(pos, Len(buffer))
  BY <1>1, ApartFacts, AheadIs, BufferIsSlice DEF Apart
<1>3. pos' = rpos /\ rpos' = rpos
  BY <1>2 DEF consume, consume_in_place, inner
<1>4. \/ /\ ret'.op = "consume" /\ ret'.st = "ok"
         /\ ret'.n = Len(buffer) /\ ret'.out = buffer
      \/ ret'.op = "consume_in_place" /\ ret'.st = "ok"
  BY DEF consume, consume_in_place, Answer
<1> QED
  BY <1>2, <1>3, <1>4, SameStream
  DEF Abstract!Discard, Abstract!Answers, Abstract!Shows

-----------------------------------------------------------------------------
(* peek and peek_vectored *)

LEMMA PeekShows ==
    ASSUME NEW held, Apart(held), NEW op \in {"peek", "peek_vectored"},
           NEW want \in Nat, NEW n \in Nat, NEW m \in Nat,
           held <= m, n <= m, n <= want,
           op = "peek" => n = Smaller(want, m) /\ (want <= held => m = held),
           Answer(op, "ok", want, n, Slice(pos, n)),
           pos' = pos, rpos' = pos + m
    PROVE  Abstract!Peek \/ Abstract!PeekVectored
<1>1. /\ ret'.op = op /\ ret'.st = "ok" /\ ret'.want = want
      /\ ret'.n = n /\ ret'.out = Slice(pos, n)
  BY DEF Answer
<1>2. Abstract!Ahead = held
  BY AheadIs
<1>3. PICK r \in Nat : r = rpos' /\ r = pos + m /\ rpos = pos + held
  BY DEF Apart
<1>4. r - pos = m /\ r >= rpos /\ (m = held => r = rpos)
  BY <1>3 DEF Apart
<1>5. rpos' - pos = m /\ rpos' >= rpos /\ (m = held => rpos' = rpos)
  BY <1>3, <1>4
<1>6. CASE op = "peek"
  BY <1>1, <1>2, <1>5, <1>6, SameStream
  DEF Abstract!Peek, Abstract!Answers, Abstract!Shows
<1>7. CASE op = "peek_vectored"
  BY <1>1, <1>5, <1>7, SameStream
  DEF Abstract!PeekVectored, Abstract!Answers, Abstract!Shows
<1> QED
  BY <1>6, <1>7

LEMMA PeekFails ==
    ASSUME NEW held, Apart(held), NEW op \in {"peek", "peek_vectored"},
           NEW st \in {"err", "oom"}, NEW want, NEW n, NEW out,
           op = "peek" => want > held,
           Answer(op, st, want, n, out), pos' = pos, rpos' = rpos
    PROVE  Abstract!Peek \/ Abstract!PeekVectored
<1>1. ret'.op = op /\ ret'.st = st /\ ret'.want = want
  BY DEF Answer
<1>2. Abstract!Ahead = held
  BY AheadIs
<1> QED
  BY <1>1, <1>2 DEF Abstract!Peek, Abstract!PeekVectored, Abstract!Answers

LEMMA PeekInto_refines ==
    ASSUME IInv, NEW op \in {"peek", "peek_vectored"}, NEW asked \in Nat,
           NEW want \in Nat, want <= asked, op = "peek" => asked = want,
           PeekInto(op, asked, want)
    PROVE  Abstract!Peek \/ Abstract!PeekVectored \/ Hidden
<1>1. call.pc # "read" /\ pos' = pos /\ rpos' = rpos
  BY DEF PeekInto, Idle, client, inner
<1>2. PICK len \in Nat : len = Len(buffer)
  BY Facts
<1>3. Apart(len) /\ rpos' = pos + len
  BY <1>1, <1>2, ApartFacts DEF Apart
<1>4. CASE /\ want <= Len(buffer)
           /\ Answer(op, "ok", asked, want, SubSeq(buffer, 1, want))
  <2>1. want \in 0..Len(buffer) /\ want <= len
    BY <1>2, <1>4
  <2>2. SubSeq(buffer, 1, want) = Slice(pos, want)
    BY <1>1, <2>1, FrontIsNext
  <2>3. op = "peek" => want = Smaller(asked, len)
    BY <2>1 DEF Smaller
  <2>4. Answer(op, "ok", asked, want, Slice(pos, want))
    BY <1>4, <2>2
  <2> QED
    BY <1>1, <1>3, <2>1, <2>3, <2>4, PeekShows
<1>5. CASE want > Len(buffer) /\ Answer(op, "oom", asked, 0, <<>>)
  <2>1. op = "peek" => asked > len
    BY <1>2, <1>5
  <2> QED
    BY <1>1, <1>3, <1>5, <2>1, PeekFails
<1>6. CASE ret' = ret
  BY <1>1, <1>6 DEF Hidden
<1> QED
  BY <1>4, <1>5, <1>6 DEF PeekInto

(* What recording an Ok(n) or taking the growth back leaves behind. *)
LEMMA AfterOk ==
    ASSUME IInv, call.pc = "read", NEW old \in Nat, Handed(old),
           NEW n \in Nat, ReadOk(n), UNCHANGED <<avail, given, client>>
    PROVE  /\ Apart(old) /\ old + n \in Nat /\ old + n <= Len(buffer)
           /\ pos' = pos /\ rpos' = rpos + n /\ rpos' = pos + (old + n)
           /\ Whole(old + n) /\ Len(buffer') = old + n
           /\ buffer' = Slice(pos, old + n)
<1>1. Apart(old)
  BY HeldIsOld, Facts DEF Handed, Apart
<1>2. /\ Whole(old + n) /\ Len(buffer') = old + n
      /\ old + n <= Len(buffer) /\ rpos' = rpos + n /\ pos' = pos
  BY RecordedWhole DEF given, client
<1>3. buffer' = Slice(pos, old + n)
  BY <1>2, WholeIsSlice
<1>4. old + n \in Nat /\ rpos + n = pos + (old + n)
  BY <1>1 DEF Apart
<1> QED
  BY <1>1, <1>2, <1>3, <1>4

LEMMA AfterErr ==
    ASSUME IInv, call.pc = "read", NEW old \in Nat, Handed(old),
           ReadErr, UNCHANGED <<avail, given, client>>
    PROVE  /\ Apart(old) /\ pos' = pos /\ rpos' = rpos
           /\ Whole(old) /\ Len(buffer') = old /\ buffer' = Slice(pos, old)
<1>1. Apart(old)
  BY HeldIsOld, Facts DEF Handed, Apart
<1>2. Whole(old) /\ Len(buffer') = old /\ pos' = pos /\ rpos' = rpos
  BY RolledBackWhole DEF given, client, ReadErr, ReaderFails, inner
<1>3. buffer' = Slice(pos, old)
  BY <1>2, WholeIsSlice
<1> QED
  BY <1>1, <1>2, <1>3

LEMMA AgainIsHidden ==
    ASSUME ReadAgain, UNCHANGED client
    PROVE  Hidden
BY DEF ReadAgain, ReaderFails, inner, client, Hidden

LEMMA peek_read_refines ==
    ASSUME IInv, peek_read
    PROVE  Abstract!Peek \/ Abstract!PeekVectored \/ Hidden
<1>1. /\ call.pc = "read" /\ UNCHANGED <<avail, given, client>>
  BY DEF peek_read, At
<1>2. PICK op \in {"peek", "peek_vectored"} : op = call.op
  BY DEF peek_read, At
<1>3. PICK old \in Nat : Handed(old)
  BY <1>1, HeldIsOld
<1>4. PICK want \in Nat : want = call.want
  BY Facts DEF CallType
<1>5. PICK len \in Nat : len = Len(buffer)
  BY Facts
<1>6. /\ op = "peek" => len = want
      /\ len <= want
      /\ old < len
  <2>1. /\ op = "peek" => Len(buffer) = call.want
        /\ op = "peek_vectored" => Len(buffer) <= call.want
        /\ Room > 0
    BY <1>1, <1>2 DEF IInv, CallIntact, At
  <2>2. len - old > 0
    BY <1>3, <1>5, <2>1 DEF Room, Handed
  <2> QED
    BY <1>4, <1>5, <2>1, <2>2
<1>7. CASE \E n \in 0..Room : ReadOk(n) /\ Return("ok", call.old + n, buffer')
  <2>1. PICK n \in 0..Room : ReadOk(n) /\ Return("ok", call.old + n, buffer')
    BY <1>7
  <2>2. PICK m \in Nat : m = old + n
    OBVIOUS
  <2>3. /\ Apart(old) /\ m <= len /\ pos' = pos /\ rpos' = pos + m
        /\ buffer' = Slice(pos, m)
    BY <1>1, <1>3, <1>5, <2>1, <2>2, AfterOk
  <2>4. Answer(op, "ok", want, m, Slice(pos, m))
    BY <1>2, <1>3, <1>4, <2>1, <2>2, <2>3 DEF Return, Handed
  <2>5. old <= m /\ m <= want
    BY <1>6, <2>1, <2>2, <2>3
  <2>6. op = "peek" => m = Smaller(want, m) /\ (want <= old => m = old)
    BY <1>6, <2>5 DEF Smaller
  <2> QED
    BY <2>3, <2>4, <2>5, <2>6, PeekShows
<1>8. CASE ReadErr /\ Return("err", 0, <<>>)
  <2>1. Apart(old) /\ pos' = pos /\ rpos' = rpos
    BY <1>1, <1>3, <1>8, AfterErr
  <2>2. Answer(op, "err", want, 0, <<>>)
    BY <1>2, <1>4, <1>8 DEF Return
  <2>3. op = "peek" => want > old
    BY <1>6
  <2> QED
    BY <2>1, <2>2, <2>3, PeekFails
<1>9. CASE ReadAgain
  BY <1>1, <1>9, AgainIsHidden
<1> QED
  BY <1>7, <1>8, <1>9 DEF peek_read

-----------------------------------------------------------------------------
(* peek_exact *)

LEMMA PeekExactShows ==
    ASSUME NEW held, Apart(held), NEW want \in Nat,
           Answer("peek_exact", "ok", want, want, Slice(pos, want)),
           pos' = pos, rpos' = IF want <= held THEN rpos ELSE pos + want
    PROVE  Abstract!PeekExact
<1>1. /\ ret'.op = "peek_exact" /\ ret'.st = "ok" /\ ret'.want = want
      /\ ret'.n = want /\ ret'.out = Slice(pos, want)
  BY DEF Answer
<1>2. rpos' = Larger(rpos, pos + want)
  BY DEF Apart, Larger
<1> QED
  BY <1>1, <1>2, SameStream
  DEF Abstract!PeekExact, Abstract!Answers, Abstract!Shows

LEMMA PeekExactFails ==
    ASSUME NEW held, Apart(held), NEW st \in {"err", "oom", "eof"}, NEW want,
           want > held, NEW n, Answer("peek_exact", st, want, n, Slice(pos, held)),
           pos' = pos, rpos' = rpos
    PROVE  Abstract!PeekExact
<1>1. /\ ret'.op = "peek_exact" /\ ret'.st = st /\ ret'.want = want
      /\ ret'.out = Slice(pos, held)
  BY DEF Answer
<1> QED
  BY <1>1, AheadIs DEF Abstract!PeekExact, Abstract!Answers

LEMMA peek_exact_refines ==
    ASSUME IInv, NEW total \in Nat, peek_exact(total)
    PROVE  Abstract!PeekExact \/ Hidden
<1>1. call.pc # "read" /\ pos' = pos /\ rpos' = rpos
  BY DEF peek_exact, Idle, client, inner
<1>2. CASE /\ total <= Len(buffer)
           /\ Answer("peek_exact", "ok", total, total, SubSeq(buffer, 1, total))
  <2>1. SubSeq(buffer, 1, total) = Slice(pos, total)
    BY <1>1, <1>2, FrontIsNext, Facts
  <2> QED
    BY <1>1, <1>2, <2>1, ApartFacts, PeekExactShows
<1>3. CASE ret' = ret
  BY <1>1, <1>3 DEF Hidden
<1> QED
  BY <1>2, <1>3 DEF peek_exact

LEMMA peek_exact_resize_refines ==
    ASSUME IInv, peek_exact_resize
    PROVE  Abstract!PeekExact \/ Hidden
<1>1. /\ At("peek_exact", "grow") /\ call.pc # "read" /\ call.op = "peek_exact"
      /\ pos' = pos /\ rpos' = rpos
  BY DEF peek_exact_resize, At, client, inner
<1>2. PICK len \in Nat : len = Len(buffer)
  BY Facts
<1>3. /\ Apart(len) /\ call.out = Slice(pos, len) /\ call.want > len
  BY <1>1, <1>2, ApartFacts, MissingFacts
<1>4. CASE Return("oom", 0, call.out)
  <2>1. Answer("peek_exact", "oom", call.want, 0, Slice(pos, len))
    BY <1>1, <1>3, <1>4 DEF Return
  <2> QED
    BY <1>1, <1>3, <2>1, PeekExactFails
<1>5. CASE ret' = ret
  BY <1>1, <1>5 DEF Hidden
<1> QED
  BY <1>4, <1>5 DEF peek_exact_resize

LEMMA peek_exact_read_refines ==
    ASSUME IInv, peek_exact_read
    PROVE  Abstract!PeekExact \/ Abstract!ReadAhead \/ Hidden
<1>1. /\ call.pc = "read" /\ call.op = "peek_exact" /\ At("peek_exact", "read")
      /\ UNCHANGED <<avail, given, client>>
  BY DEF peek_exact_read, At
<1>2. PICK old \in Nat : Handed(old)
  BY <1>1, HeldIsOld
<1>3. PICK want \in Nat : want = call.want
  BY Facts DEF CallType
<1>4. /\ Len(buffer) = want /\ old < want /\ call.out = Slice(pos, old)
      /\ Apart(old) /\ rpos \in Nat
  <2>1. Held = old
    BY <1>1, <1>2 DEF Held, Handed
  <2> QED
    BY <1>1, <1>3, <2>1, ApartFacts, Facts DEF IInv, CallIntact
<1>5. CASE ReadOk(0) /\ Return("eof", 0, call.out)
  <2>1. pos' = pos /\ rpos' = rpos
    BY <1>1, <1>2, <1>4, <1>5, AfterOk
  <2>2. Answer("peek_exact", "eof", want, 0, Slice(pos, old))
    BY <1>1, <1>3, <1>4, <1>5 DEF Return
  <2> QED
    BY <1>4, <2>1, <2>2, PeekExactFails
<1>6. CASE \E n \in 1..Room :
            /\ ReadOk(n)
            /\ LET out == call.out \o SubSeq(buffer', call.old + 1, call.old + n)
               IN  \/ ret' = ret
                   \/ Len(out) >= call.want /\ Return("ok", Len(out), out)
  <2> DEFINE out(n) == call.out \o SubSeq(buffer', call.old + 1, call.old + n)
  <2>1. PICK n \in 1..Room :
            /\ ReadOk(n)
            /\ \/ ret' = ret
               \/ Len(out(n)) >= call.want /\ Return("ok", Len(out(n)), out(n))
    BY <1>6
  <2>2. PICK m \in Nat : m = old + n
    OBVIOUS
  <2>3. n \in Nat
    OBVIOUS
  <2>4. /\ m <= want /\ pos' = pos /\ rpos' = rpos + n /\ rpos' = pos + m
        /\ Whole(m) /\ Len(buffer') = m
    BY <1>1, <1>2, <1>4, <2>1, <2>2, <2>3, AfterOk
  <2>5. out(n) = Slice(pos, m)
    BY <1>1, <1>2, <2>2, <2>3, <2>4, CopiedSlice
  <2> HIDE DEF out
  <2>6. CASE ret' = ret
    BY <1>4, <2>3, <2>4, <2>6, AdvanceIsReadAhead
  <2>7. CASE Len(out(n)) >= call.want /\ Return("ok", Len(out(n)), out(n))
    <3>1. Len(out(n)) = m
      BY <1>4, <2>5, SliceFacts DEF Apart
    <3>2. m = want
      BY <1>3, <2>4, <2>7, <3>1
    <3>3. Answer("peek_exact", "ok", want, want, Slice(pos, want))
      BY <1>1, <1>3, <2>5, <2>7, <3>1, <3>2 DEF Return
    <3>4. rpos' = IF want <= old THEN rpos ELSE pos + want
      BY <1>4, <2>4, <3>2
    <3> QED
      BY <1>4, <2>4, <3>3, <3>4, PeekExactShows
  <2> QED
    BY <2>1, <2>6, <2>7
<1>7. CASE ReadErr /\ Return("err", 0, call.out)
  <2>1. pos' = pos /\ rpos' = rpos
    BY <1>1, <1>2, <1>7, AfterErr
  <2>2. Answer("peek_exact", "err", want, 0, Slice(pos, old))
    BY <1>1, <1>3, <1>4, <1>7 DEF Return
  <2> QED
    BY <1>4, <2>1, <2>2, PeekExactFails
<1>8. CASE ReadAgain
  BY <1>1, <1>8, AgainIsHidden
<1> QED
  BY <1>5, <1>6, <1>7, <1>8 DEF peek_exact_read

-----------------------------------------------------------------------------
(* peek_to_end, peek_to_string and grow_peek_buffer *)

LEMMA PeekToEndAnswers ==
    ASSUME NEW held, Apart(held), NEW st \in {"ok", "err", "oom"}, NEW want, NEW n,
           st = "ok" => n = held, Answer("peek_to_end", st, want, n, Slice(pos, held)),
           pos' = pos, rpos' = rpos
    PROVE  Abstract!PeekToEnd
<1>1. /\ ret'.op = "peek_to_end" /\ ret'.st = st /\ ret'.n = n
      /\ ret'.out = Slice(pos, held)
  BY DEF Answer
<1> QED
  BY <1>1, AheadIs DEF Abstract!PeekToEnd, Abstract!Answers

(* The bytes b that decide peek_to_string are all that was peeked. *)
LEMMA Conclude_refines ==
    ASSUME NEW held, Apart(held), NEW b, b = Slice(pos, held),
           NEW st \in {"ok", "err", "oom"}, call.op = "peek_to_string",
           Conclude(st, b), pos' = pos, rpos' = rpos
    PROVE  Abstract!PeekToString
<1>1. Abstract!Ahead = held /\ held \in Nat /\ pos \in Nat
  BY AheadIs DEF Apart
<1>2. Len(b) = held
  BY <1>1, SliceFacts
<1>3. \A k \in 0..held : SubSeq(b, 1, k) = Slice(pos, k) /\ Len(Slice(pos, k)) = k
  BY <1>1, SliceFront
<1>4. CASE Return(st, IF st = "ok" THEN Len(b) ELSE 0, b)
  <2>1. /\ ret'.op = "peek_to_string" /\ ret'.st = st /\ ret'.out = b
        /\ st = "ok" => ret'.n = Len(b)
    BY <1>4 DEF Return, Answer
  <2>2. Len(ret'.out) <= held /\ Len(ret'.out) = held
    BY <1>1, <1>2, <2>1
  <2> QED
    BY <1>1, <1>2, <2>1, <2>2, SameStream
    DEF Abstract!PeekToString, Abstract!Answers, Abstract!Shows
<1>5. CASE Return("invalid", 0, <<>>)
  <2>1. ret'.op = "peek_to_string" /\ ret'.st = "invalid" /\ ret'.out = <<>>
    BY <1>5 DEF Return, Answer
  <2> QED
    BY <2>1 DEF Abstract!PeekToString, Abstract!Answers
<1>6. CASE st # "ok" /\ \E vut \in 0..Len(b) : Return(st, 0, SubSeq(b, 1, vut))
  <2>1. PICK vut \in 0..held : Return(st, 0, SubSeq(b, 1, vut))
    BY <1>2, <1>6
  <2>2. /\ ret'.op = "peek_to_string" /\ ret'.st = st /\ ret'.out = Slice(pos, vut)
        /\ Len(Slice(pos, vut)) = vut
    BY <1>3, <2>1 DEF Return, Answer
  <2>3. vut <= held
    BY <1>1
  <2> QED
    BY <1>1, <1>6, <2>2, <2>3, SameStream
    DEF Abstract!PeekToString, Abstract!Answers
<1> QED
  BY <1>4, <1>5, <1>6 DEF Conclude

LEMMA peek_to_string_refines ==
    ASSUME peek_to_string
    PROVE  Abstract!PeekToString \/ Hidden
<1>1. pos' = pos /\ rpos' = rpos
  BY DEF peek_to_string, client, inner
<1>2. CASE Answer("peek_to_string", "rejected", 0, 0, <<>>)
  <2>1. ret'.op = "peek_to_string" /\ ret'.st = "rejected" /\ ret'.out = <<>>
    BY <1>2 DEF Answer
  <2> QED
    BY <1>1, <2>1 DEF Abstract!PeekToString, Abstract!Answers
<1>3. CASE ret' = ret
  BY <1>1, <1>3 DEF Hidden
<1> QED
  BY <1>2, <1>3 DEF peek_to_string

LEMMA grow_peek_buffer_refines ==
    ASSUME IInv, grow_peek_buffer
    PROVE  Abstract!PeekToEnd \/ Abstract!PeekToString \/ Hidden
<1>1. /\ call.pc = "grow" /\ call.op \in {"peek_to_end", "peek_to_string"}
      /\ pos' = pos /\ rpos' = rpos
  BY DEF grow_peek_buffer, At, client, inner
<1>2. PICK len \in Nat : len = Len(buffer)
  BY Facts
<1>3. /\ Apart(len) /\ buffer = Slice(pos, len)
      /\ call.op = "peek_to_end" => call.out = Slice(pos, len)
  BY <1>1, <1>2, ApartFacts, BufferIsSlice DEF IInv, CallIntact, Held
<1>4. CASE grow_ok \/ grow_halve
  BY <1>1, <1>4 DEF grow_ok, grow_halve, Hidden
<1>5. CASE grow_fail
  <2>1. CASE call.op = "peek_to_end" /\ Return("oom", 0, call.out)
    <3>1. Answer("peek_to_end", "oom", call.want, 0, Slice(pos, len))
      BY <1>3, <2>1 DEF Return
    <3> QED
      BY <1>1, <1>3, <3>1, PeekToEndAnswers
  <2>2. CASE call.op = "peek_to_string" /\ Conclude("oom", buffer)
    BY <1>1, <1>3, <2>2, Conclude_refines
  <2> QED
    BY <1>5, <2>1, <2>2 DEF grow_fail
<1> QED
  BY <1>4, <1>5 DEF grow_peek_buffer

LEMMA peek_to_end_read_refines ==
    ASSUME IInv, peek_to_end_read
    PROVE  Abstract!PeekToEnd \/ Abstract!ReadAhead
<1>1. /\ call.pc = "read" /\ call.op = "peek_to_end"
      /\ UNCHANGED <<avail, given, client>>
  BY DEF peek_to_end_read, At
<1>2. PICK old \in Nat : Handed(old)
  BY <1>1, HeldIsOld
<1>3. Apart(old) /\ rpos \in Nat /\ call.out = Slice(pos, old)
  BY <1>1, <1>2, ApartFacts, Facts DEF IInv, CallIntact, Held, Handed
<1>4. CASE ReadOk(0) /\ Return("ok", Len(buffer'), call.out)
  <2>1. pos' = pos /\ rpos' = rpos /\ Len(buffer') = old
    BY <1>1, <1>2, <1>3, <1>4, AfterOk
  <2>2. Answer("peek_to_end", "ok", call.want, old, Slice(pos, old))
    BY <1>1, <1>3, <1>4, <2>1 DEF Return
  <2> QED
    BY <1>3, <2>1, <2>2, PeekToEndAnswers
<1>5. ASSUME NEW n \in 1..Room, ReadOk(n), ret' = ret
      PROVE  Abstract!ReadAhead
  <2>1. n \in Nat
    OBVIOUS
  <2>2. pos' = pos /\ rpos' = rpos + n
    BY <1>1, <1>2, <1>5, <2>1, AfterOk
  <2> QED
    BY <1>3, <1>5, <2>1, <2>2, AdvanceIsReadAhead
<1>6. CASE ReadErr /\ Return("err", 0, call.out)
  <2>1. pos' = pos /\ rpos' = rpos
    BY <1>1, <1>2, <1>6, AfterErr
  <2>2. Answer("peek_to_end", "err", call.want, 0, Slice(pos, old))
    BY <1>1, <1>3, <1>6 DEF Return
  <2> QED
    BY <1>3, <2>1, <2>2, PeekToEndAnswers
<1> QED
  BY <1>4, <1>5, <1>6 DEF peek_to_end_read, Again

LEMMA peek_to_string_read_refines ==
    ASSUME IInv, peek_to_string_read
    PROVE  Abstract!PeekToString \/ Abstract!ReadAhead
<1>1. /\ call.pc = "read" /\ call.op = "peek_to_string"
      /\ UNCHANGED <<avail, given, client>>
  BY DEF peek_to_string_read, At
<1>2. PICK old \in Nat : Handed(old)
  BY <1>1, HeldIsOld
<1>3. Apart(old) /\ rpos \in Nat
  BY <1>1, <1>2, ApartFacts, Facts DEF Held, Handed
<1>4. CASE ReadOk(0) /\ Conclude("ok", buffer')
  <2>1. old + 0 = old
    OBVIOUS
  <2>2. pos' = pos /\ rpos' = rpos /\ buffer' = Slice(pos, old)
    BY <1>1, <1>2, <1>3, <1>4, <2>1, AfterOk
  <2> QED
    BY <1>1, <1>3, <1>4, <2>2, Conclude_refines
<1>5. ASSUME NEW n \in 1..Room, ReadOk(n), ret' = ret
      PROVE  Abstract!ReadAhead
  <2>1. n \in Nat
    OBVIOUS
  <2>2. pos' = pos /\ rpos' = rpos + n
    BY <1>1, <1>2, <1>5, <2>1, AfterOk
  <2> QED
    BY <1>3, <1>5, <2>1, <2>2, AdvanceIsReadAhead
<1>6. CASE ReadErr /\ Conclude("err", buffer')
  <2>1. pos' = pos /\ rpos' = rpos /\ buffer' = Slice(pos, old)
    BY <1>1, <1>2, <1>6, AfterErr
  <2> QED
    BY <1>1, <1>3, <1>6, <2>1, Conclude_refines
<1> QED
  BY <1>4, <1>5, <1>6 DEF peek_to_string_read, Again

-----------------------------------------------------------------------------
(* fill_peek_buf *)

LEMMA fill_peek_buf_refines ==
    ASSUME fill_peek_buf
    PROVE  Abstract!FillPeekBuf \/ Hidden
<1>1. pos' = pos /\ rpos' = rpos
  BY DEF fill_peek_buf, client, inner
<1>2. CASE Answer("fill_peek_buf", "oom", 0, 0, <<>>)
  BY <1>1, <1>2 DEF Answer, Abstract!FillPeekBuf, Abstract!Answers
<1>3. CASE ret' = ret
  BY <1>1, <1>3 DEF Hidden
<1> QED
  BY <1>2, <1>3 DEF fill_peek_buf

LEMMA fill_peek_buf_read_refines ==
    ASSUME IInv, fill_peek_buf_read
    PROVE  Abstract!FillPeekBuf \/ Hidden
<1>1. /\ call.pc = "read" /\ call.op = "fill_peek_buf"
      /\ UNCHANGED <<avail, given, client>>
  BY DEF fill_peek_buf_read, At
<1>2. ASSUME NEW n \in 0..Room, ReadOk(n), Return("ok", n, <<>>)
      PROVE  Abstract!FillPeekBuf
  <2>1. pos' = pos /\ rpos' = rpos + n
    BY <1>1, <1>2 DEF ReadOk, Advance, client
  <2>2. ret'.op = "fill_peek_buf" /\ ret'.st = "ok" /\ ret'.n = n
    BY <1>1, <1>2 DEF Return, Answer
  <2> QED
    BY <2>1, <2>2 DEF Abstract!FillPeekBuf, Abstract!Answers
<1>3. CASE ReadErr /\ Return("err", 0, <<>>)
  <2>1. pos' = pos /\ rpos' = rpos
    BY <1>1, <1>3 DEF ReadErr, ReaderFails, inner, client
  <2>2. ret'.op = "fill_peek_buf" /\ ret'.st = "err"
    BY <1>1, <1>3 DEF Return, Answer
  <2> QED
    BY <2>1, <2>2 DEF Abstract!FillPeekBuf, Abstract!Answers
<1>4. CASE ReadAgain
  BY <1>1, <1>4, AgainIsHidden
<1> QED
  BY <1>2, <1>3, <1>4 DEF fill_peek_buf_read

-----------------------------------------------------------------------------
(* Every step, and the theorem. *)

LEMMA CallRefines ==
    ASSUME IInv, Call
    PROVE  Abstract!Next \/ Hidden
<1> USE DEF Abstract!Next
<1>1. 0..MaxWant \subseteq Nat
  BY ClientAssumption
<1>2. ASSUME NEW want \in 0..MaxWant, read(want) PROVE Abstract!Next
  BY <1>1, <1>2, read_refines
<1>3. ASSUME NEW want \in 0..MaxWant, peek(want) PROVE Abstract!Next \/ Hidden
  BY <1>1, <1>3, PeekInto_refines DEF peek
<1>4. ASSUME NEW want \in 0..MaxWant, peek_exact(want)
      PROVE  Abstract!Next \/ Hidden
  BY <1>1, <1>4, peek_exact_refines
<1>5. ASSUME NEW len1 \in 0..MaxWant, NEW len2 \in 0..MaxWant,
             peek_vectored(len1, len2)
      PROVE  Abstract!Next \/ Hidden
  <2> DEFINE want == IF len1 > 0 THEN len1 ELSE len2
  <2>1. want \in Nat /\ len1 + len2 \in Nat /\ want <= len1 + len2
    BY <1>1
  <2>2. PeekInto("peek_vectored", len1 + len2, want)
    BY <1>5 DEF peek_vectored
  <2> HIDE DEF want
  <2> QED
    BY <2>1, <2>2, PeekInto_refines
<1>6. ASSUME NEW amt \in 0..MaxWant, BufRead_consume(amt) PROVE Abstract!Next
  BY <1>1, <1>6, BufRead_consume_refines
<1>7. ASSUME fill_buf PROVE Abstract!Next
  BY <1>7, fill_buf_refines
<1>8. ASSUME consume \/ consume_in_place PROVE Abstract!Next
  BY <1>8, consume_refines
<1>9. ASSUME peek_to_end PROVE Hidden
  BY <1>9 DEF peek_to_end, client, inner, Hidden
<1>10. ASSUME peek_to_string PROVE Abstract!Next \/ Hidden
  BY <1>10, peek_to_string_refines
<1>11. ASSUME fill_peek_buf PROVE Abstract!Next \/ Hidden
  BY <1>11, fill_peek_buf_refines
<1> QED
  BY <1>2, <1>3, <1>4, <1>5, <1>6, <1>7, <1>8, <1>9, <1>10, <1>11 DEF Call

LEMMA StepRefines ==
    ASSUME IInv, Step
    PROVE  Abstract!Next \/ Hidden
<1> USE DEF Abstract!Next
<1>1. ASSUME peek_to_interrupted PROVE Hidden
  BY <1>1
  DEF peek_to_interrupted, ReadErr, ReaderFails, Again, inner, client, Hidden
<1> QED
  BY <1>1, peek_read_refines, peek_exact_resize_refines,
     peek_exact_read_refines, grow_peek_buffer_refines,
     peek_to_end_read_refines, peek_to_string_read_refines,
     fill_peek_buf_read_refines
  DEF Step

LEMMA NextRefines ==
    ASSUME IInv, [Next]_vars
    PROVE  [Abstract!Next]_(Abstract!vars)
<1>1. ASSUME Arrive PROVE Hidden
  BY <1>1 DEF Arrive, inner, client, Hidden
<1>2. ASSUME UNCHANGED vars PROVE Hidden
  BY <1>2 DEF vars, Hidden
<1> QED
  BY <1>1, <1>2, CallRefines, StepRefines, HiddenIsStutter DEF Next

(* Peeking is looking ahead in a stream that stays as it is: every method  *)
(* of Peekable, however its inner reader and its back end behave, answers  *)
(* as a reader with two cursors and no peek buffer would.                  *)
THEOREM PeekableIsStream == Spec => ImplementsPeekStream
<1>1. Init => Abstract!Init
  BY DEF Init, NoAnswer, Abstract!Init
<1>2. IInv /\ [Next]_vars => [Abstract!Next]_(Abstract!vars)
  BY NextRefines
<1> QED
  BY <1>1, <1>2, Invariance, PTL DEF Spec, ImplementsPeekStream, Abstract!Spec
=============================================================================
