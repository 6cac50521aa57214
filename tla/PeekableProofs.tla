--------------------------- MODULE PeekableProofs ---------------------------
(***************************************************************************)
(* Theorems about Peekable, for every length of stream, every capacity,    *)
(* every bound of the back end and every way the reader answers.           *)
(*                                                                         *)
(* StreamIntact alone is not inductive: that a read leaves the buffer      *)
(* whole depends on where the call stands (what the reader was handed, and *)
(* what the caller has been given).  The inductive invariant adds the      *)
(* types and CallIntact; BufReadContract and CapacityKept ride along.      *)
(***************************************************************************)
EXTENDS Peekable, OperatorProofs

IInv ==
    /\ TypeOK
    /\ StreamIntact
    /\ CallIntact
    /\ BufReadContract
    /\ CapacityKept

(* What a step may do to everything but the call and the answer: the       *)
(* buffer then holds held bytes of the stream, and perhaps filler.         *)
Whole(held) ==
    /\ buffer' \in Bytes
    /\ held \in Nat /\ held <= Len(buffer')
    /\ pos' \in Nat /\ rpos' \in Nat /\ rpos' = pos' + held
    /\ \A i \in 1..held : buffer'[i] = pos' + i
    /\ ibuf' \in Nat /\ rpos' <= ibuf' /\ ibuf' <= avail'
    /\ lent' \in Nat /\ pos' + lent' <= ibuf'
    /\ avail' \in 0..N
    /\ text' = text /\ buf_cap' = buf_cap
    /\ cap' \in Nat /\ Len(buffer') <= cap' /\ InlineCap <= cap'
    /\ buf_cap # None => buf_cap <= cap'

-----------------------------------------------------------------------------
(* The invariant, taken apart: what every proof below starts from. *)
LEMMA Facts ==
    ASSUME IInv
    PROVE  /\ rpos \in Nat /\ ibuf \in Nat /\ avail \in Nat /\ pos \in Nat
           /\ lent \in Nat /\ cap \in Nat /\ avail \in 0..N
           /\ buffer \in Seq(Nat) /\ Len(buffer) \in Nat
           /\ call \in CallType /\ ret \in AnswerType
           /\ call.out \in Seq(Nat) /\ Len(call.out) \in Nat
           /\ Held \in Nat /\ Held <= Len(buffer) /\ rpos = pos + Held
           /\ \A i \in 1..Held : buffer[i] = pos + i
           /\ rpos <= ibuf /\ ibuf <= avail /\ pos + lent <= ibuf
           /\ Len(buffer) <= cap /\ InlineCap <= cap
           /\ buf_cap \in Nat \cup {None} /\ (buf_cap # None => buf_cap <= cap)
<1>1. TypeOK /\ StreamIntact /\ BufReadContract /\ CapacityKept
  BY DEF IInv
<1>2. /\ buffer \in Seq(Nat) /\ Len(buffer) \in Nat
      /\ call \in CallType /\ ret \in AnswerType
      /\ call.out \in Seq(Nat) /\ Len(call.out) \in Nat /\ call.old \in Nat
  <2>1. buffer \in Seq(Nat) /\ call \in CallType /\ ret \in AnswerType
    BY <1>1 DEF TypeOK, Bytes
  <2>2. call.out \in Seq(Nat) /\ call.old \in Nat
    BY <2>1 DEF CallType, Bytes
  <2> QED
    BY <2>1, <2>2, LenProperties
<1>3. Held \in Nat
  BY <1>2 DEF Held
<1>4. avail \in Nat
  BY <1>1, ClientAssumption DEF TypeOK
<1>5. buf_cap \in Nat \cup {None}
  BY <1>1, ClientAssumption DEF TypeOK
<1>6. /\ rpos \in Nat /\ ibuf \in Nat /\ pos \in Nat /\ lent \in Nat
      /\ cap \in Nat /\ avail \in 0..N
  BY <1>1 DEF TypeOK
<1>7. /\ Held <= Len(buffer) /\ rpos = pos + Held
      /\ \A i \in 1..Held : buffer[i] = pos + i
  BY <1>1 DEF StreamIntact
<1>8. /\ rpos <= ibuf /\ ibuf <= avail /\ pos + lent <= ibuf
      /\ Len(buffer) <= cap /\ InlineCap <= cap
      /\ (buf_cap # None => buf_cap <= cap)
  BY <1>1 DEF BufReadContract, CapacityKept
<1> QED
  BY <1>2, <1>3, <1>4, <1>5, <1>6, <1>7, <1>8

(* The types of a step that leaves the buffer whole. *)
LEMMA WholeTyped ==
    ASSUME IInv, NEW held, Whole(held), call' \in CallType, ret' \in AnswerType
    PROVE  TypeOK'
<1>1. text \in Texts /\ buf_cap \in BufCaps
  BY DEF IInv, TypeOK
<1>2. /\ avail' \in 0..N /\ ibuf' \in Nat /\ buffer' \in Bytes
      /\ rpos' \in Nat /\ cap' \in Nat /\ pos' \in Nat /\ lent' \in Nat
  BY DEF Whole
<1>3. text' \in Texts /\ buf_cap' \in BufCaps
  BY <1>1 DEF Whole
<1> QED
  BY <1>2, <1>3 DEF TypeOK

(* A method that returns with a whole buffer keeps the invariant. *)
LEMMA Settled ==
    ASSUME IInv, Whole(Len(buffer')), ret' \in AnswerType,
           call' \in CallType, call'.pc = "idle", call'.op = "none"
    PROVE  IInv'
<1>2. TypeOK'
  BY WholeTyped
<1> USE DEF Whole
<1>4. Held' = Len(buffer')
  BY DEF Held
<1>5. StreamIntact'
  BY <1>4 DEF StreamIntact
<1>6. CallIntact'
  BY DEF CallIntact, At
<1>7. BufReadContract' /\ CapacityKept'
  BY DEF BufReadContract, CapacityKept
<1> QED
  BY <1>2, <1>5, <1>6, <1>7 DEF IInv

(* A call that goes to the head of its loop, likewise. *)
LEMMA AtLoopHead ==
    ASSUME IInv, Whole(Len(buffer')), ret' \in AnswerType,
           call' \in CallType, call'.pc = "grow", call'.op \in Growing,
           call'.op \in {"peek_exact", "peek_to_end"}
             => call'.out = Slice(pos', Len(buffer')),
           call'.op = "peek_exact" => Len(buffer') < call'.want
    PROVE  IInv'
<1>2. TypeOK'
  BY WholeTyped
<1> USE DEF Whole
<1>4. Held' = Len(buffer')
  BY DEF Held
<1>5. StreamIntact'
  BY <1>4 DEF StreamIntact
<1>6. CallIntact'
  BY <1>4 DEF CallIntact, At
<1>7. BufReadContract' /\ CapacityKept'
  BY DEF BufReadContract, CapacityKept
<1> QED
  BY <1>2, <1>5, <1>6, <1>7 DEF IInv

(* A call that hands the grown tail to the reader, likewise. *)
LEMMA AtReader ==
    ASSUME IInv, Whole(call'.old), ret' \in AnswerType,
           call' \in CallType, call'.pc = "read", call'.op \in Reading,
           call'.op # "fill_peek_buf" => call'.old < Len(buffer'),
           call'.op \in {"peek_exact", "peek_to_end"}
             => call'.out = Slice(pos', call'.old),
           call'.op = "peek_exact" => call'.old < call'.want,
           call'.op \in {"peek", "peek_exact"} => Len(buffer') = call'.want,
           call'.op = "peek_vectored" => Len(buffer') <= call'.want
    PROVE  IInv'
<1>2. TypeOK'
  BY WholeTyped
<1> USE DEF Whole
<1>3. Len(buffer') \in Nat /\ call'.old \in Nat
  BY LenProperties DEF Bytes
<1>4. Held' = call'.old
  BY DEF Held
<1>5. StreamIntact'
  BY <1>4 DEF StreamIntact
<1>6. CallIntact'
  BY <1>3, <1>4 DEF CallIntact, At, Room
<1>7. BufReadContract' /\ CapacityKept'
  BY DEF BufReadContract, CapacityKept
<1> QED
  BY <1>2, <1>5, <1>6, <1>7 DEF IInv

-----------------------------------------------------------------------------
(* What the steps do to the buffer and the cursors. *)

(* The reader was handed the tail above old.  (A name for call.old that is *)
(* a number: the provers do not do arithmetic with fields of records.)     *)
Handed(old) == call.old = old

(* Outside a read, all of the buffer is bytes of the stream. *)
LEMMA HeldIsAll ==
    ASSUME IInv, call.pc # "read"
    PROVE  /\ Held = Len(buffer) /\ rpos = pos + Len(buffer)
           /\ \A i \in 1..Len(buffer) : buffer[i] = pos + i
<1>1. Held = Len(buffer)
  BY DEF Held
<1> QED
  BY <1>1, Facts

(* During one, the bytes before call.old are. *)
LEMMA HeldIsOld ==
    ASSUME IInv, call.pc = "read"
    PROVE  \E old \in Nat :
             /\ Handed(old)
             /\ old <= Len(buffer)
             /\ rpos = pos + old
             /\ \A i \in 1..old : buffer[i] = pos + i
<1>1. Held = call.old
  BY DEF Held
<1> QED
  BY <1>1, Facts DEF Handed

LEMMA UntouchedWhole ==
    ASSUME IInv, call.pc # "read",
           UNCHANGED <<rpos, ibuf, avail, text, buf_cap, buffer, cap, pos, lent>>
    PROVE  Whole(Len(buffer'))
<1>1. buffer' = buffer
  OBVIOUS
<1> QED
  BY <1>1, Facts, HeldIsAll DEF Whole, Bytes

(* resize: the old bytes stay in front. *)
LEMMA ResizedWhole ==
    ASSUME IInv, call.pc # "read", NEW len \in Nat, Len(buffer) <= len,
           ResizeTo(len), UNCHANGED <<rpos, ibuf, avail, text, buf_cap, pos, lent>>
    PROVE  Whole(Len(buffer)) /\ Len(buffer') = len
<1>1. buffer \in Seq(Nat) /\ Len(buffer) \in Nat /\ cap \in Nat
  BY Facts
<1>2. buffer' = Resize(buffer, len) /\ cap' \in Allocate(cap, len)
  BY DEF ResizeTo
<1>3. /\ buffer' \in Seq(Nat) /\ Len(buffer') = len
      /\ \A i \in 1..len : i <= Len(buffer) => buffer'[i] = buffer[i]
  BY <1>1, <1>2, ResizeFacts
<1>4. cap' \in Nat /\ len <= cap' /\ cap <= cap'
  BY <1>1, <1>2, AllocateFacts
<1>5. InlineCap <= cap' /\ (buf_cap # None => buf_cap <= cap')
  <2>1. InlineCap \in Nat /\ InlineCap <= cap
    BY Facts, BufferAssumption
  <2>2. buf_cap # None => buf_cap \in Nat /\ buf_cap <= cap
    BY Facts
  <2> QED
    BY <1>1, <1>4, <2>1, <2>2
<1>6. \A i \in 1..Len(buffer) : buffer'[i] = pos + i
  <2> TAKE i \in 1..Len(buffer)
  <2>1. i \in 1..len /\ i <= Len(buffer)
    BY <1>1
  <2> QED
    BY <2>1, <1>3, HeldIsAll
<1> QED
  BY <1>1, <1>3, <1>4, <1>5, <1>6, Facts, HeldIsAll DEF Whole, Bytes

(* Ok(n): the n bytes the reader handed out are now in the buffer, behind  *)
(* the old ones, and nothing else is.                                      *)
LEMMA RecordedWhole ==
    ASSUME IInv, call.pc = "read", NEW old \in Nat, Handed(old),
           NEW n \in Nat, ReadOk(n), UNCHANGED <<avail, text, buf_cap, pos, lent>>
    PROVE  /\ Whole(old + n)
           /\ Len(buffer') = old + n
           /\ old + n <= Len(buffer)
           /\ rpos' = rpos + n
<1>1. /\ buffer \in Seq(Nat) /\ Len(buffer) \in Nat /\ rpos \in Nat
      /\ ibuf \in Nat /\ avail \in Nat /\ pos \in Nat /\ cap \in Nat
      /\ Len(buffer) <= cap
  BY Facts
<1>2. /\ old <= Len(buffer) /\ rpos = pos + old
      /\ \A i \in 1..old : buffer[i] = pos + i
  BY HeldIsOld DEF Handed
<1>3. /\ n <= Len(buffer) - old /\ rpos + n <= avail
      /\ rpos' = rpos + n /\ ibuf' = Larger(ibuf, rpos + n)
      /\ buffer' = Truncate(Store(buffer, old, pos + old, n), old + n)
      /\ cap' = cap
  BY <1>2 DEF ReadOk, MayRead, Advance, Recorded, Room, Handed
<1>4. old + n \in Nat /\ old + n <= Len(buffer) /\ old + n <= cap
  BY <1>1, <1>2, <1>3
<1>5. /\ buffer' \in Seq(Nat) /\ Len(buffer') = old + n
      /\ \A i \in 1..(old + n) : buffer'[i] = pos + i
  <2> DEFINE b == Truncate(Store(buffer, old, pos + old, n), old + n)
  <2>1. /\ b \in Seq(Nat) /\ Len(b) = old + n
        /\ \A i \in 1..(old + n) : b[i] = pos + i
    <3>1. buffer \in Seq(Nat) /\ pos \in Nat /\ old + n <= Len(buffer)
      BY <1>1, <1>4
    <3>2. \A i \in 1..old : buffer[i] = pos + i
      BY <1>2
    <3> QED
      BY <3>1, <3>2, RecordedFacts, ZenonT(60)
  <2>2. buffer' = b
    BY <1>3
  <2> HIDE DEF b
  <2> QED
    BY <2>1, <2>2
<1>6. /\ rpos' \in Nat /\ ibuf' \in Nat /\ rpos' <= ibuf'
      /\ ibuf <= ibuf' /\ ibuf' <= avail
  <2>1. PICK r \in Nat : r = rpos + n
    BY <1>1
  <2>2. r <= avail /\ ibuf <= avail
    BY <1>3, <2>1, Facts
  <2>3. /\ Larger(ibuf, r) \in Nat
        /\ r <= Larger(ibuf, r) /\ ibuf <= Larger(ibuf, r)
        /\ Larger(ibuf, r) <= avail
    BY <1>1, <2>1, <2>2 DEF Larger
  <2>4. rpos' = r /\ ibuf' = Larger(ibuf, r)
    BY <1>3, <2>1
  <2> QED
    BY <2>1, <2>3, <2>4
<1>7. lent \in Nat /\ pos + lent <= ibuf'
  BY <1>1, <1>6, Facts
<1>8. rpos' = pos + (old + n)
  BY <1>1, <1>2, <1>3
<1>9. Whole(old + n)
  <2>1. /\ cap' = cap /\ cap \in Nat /\ old + n <= cap /\ InlineCap <= cap
        /\ (buf_cap # None => buf_cap <= cap)
    BY <1>1, <1>3, <1>4, Facts
  <2>2. avail' = avail /\ avail \in 0..N /\ pos' = pos /\ lent' = lent
    BY Facts
  <2>3. old + n \in Nat /\ old + n <= Len(buffer')
    BY <1>4, <1>5
  <2> QED
    BY <1>1, <1>5, <1>6, <1>7, <1>8, <2>1, <2>2, <2>3 DEF Whole, Bytes
<1> QED
  BY <1>3, <1>4, <1>5, <1>9

(* Err, and Interrupted where it takes the growth back. *)
LEMMA RolledBackWhole ==
    ASSUME IInv, call.pc = "read", NEW old \in Nat, Handed(old),
           ReadErr, UNCHANGED <<avail, text, buf_cap, pos, lent>>
    PROVE  Whole(old) /\ Len(buffer') = old
<1>1. /\ buffer \in Seq(Nat) /\ Len(buffer) \in Nat /\ Len(buffer) <= cap
      /\ cap \in Nat /\ pos \in Nat
  BY Facts
<1>2. /\ old <= Len(buffer) /\ rpos = pos + old
      /\ \A i \in 1..old : buffer[i] = pos + i
  BY HeldIsOld DEF Handed
<1>3. /\ rpos' = rpos /\ ibuf' = ibuf
      /\ buffer' = Truncate(buffer, old) /\ cap' = cap
  BY DEF ReadErr, ReaderFails, RolledBack, inner, Handed
<1>4. /\ buffer' \in Seq(Nat) /\ Len(buffer') = old
      /\ \A i \in 1..old : buffer'[i] = pos + i
  BY <1>1, <1>2, <1>3, RolledBackFacts, ZenonT(60)
<1>5. old <= cap
  BY <1>1, <1>2
<1>6. Whole(old)
  BY <1>2, <1>3, <1>4, <1>5, Facts DEF Whole, Bytes
<1> QED
  BY <1>4, <1>6

-----------------------------------------------------------------------------
(* What the steps do to the call and the answer. *)

LEMMA RestTyped == Rest \in CallType /\ Rest.pc = "idle" /\ Rest.op = "none"
BY BufferAssumption, EmptySeq DEF Rest, CallType, Ops, Bytes

LEMMA AnswerTyped ==
    ASSUME NEW op \in Ops, NEW st \in Statuses, NEW want \in Nat, NEW n \in Nat,
           NEW out \in Seq(Nat), Answer(op, st, want, n, out)
    PROVE  ret' \in AnswerType
BY DEF Answer, AnswerType, Bytes

(* A method that returns after its buffer was made whole. *)
LEMMA ReturnKeeps ==
    ASSUME IInv, NEW held, Whole(held), Len(buffer') = held,
           NEW st \in Statuses, NEW n \in Nat, NEW out \in Seq(Nat), Return(st, n, out)
    PROVE  IInv'
<1>1. call.op \in Ops /\ call.want \in Nat
  BY Facts DEF CallType
<1>2. ret' \in AnswerType
  BY <1>1, AnswerTyped DEF Return
<1>3. call' \in CallType /\ call'.pc = "idle" /\ call'.op = "none"
  BY RestTyped DEF Return
<1> QED
  BY <1>2, <1>3, Settled

(* A method that answers at once. *)
LEMMA AnswerKeeps ==
    ASSUME IInv, Idle, call' = call, NEW held, Whole(held), Len(buffer') = held,
           NEW op \in Ops, NEW st \in Statuses, NEW want \in Nat, NEW n \in Nat,
           NEW out \in Seq(Nat), Answer(op, st, want, n, out)
    PROVE  IInv'
<1>1. ret' \in AnswerType
  BY AnswerTyped
<1>2. call \in CallType /\ call.pc = "idle" /\ call.op = "none"
  BY Facts DEF Idle, IInv, CallIntact
<1> QED
  BY <1>1, <1>2, Settled

LEMMA GotoFields ==
    ASSUME NEW op \in Ops, NEW pc \in {"idle", "grow", "read"}, NEW want \in Nat,
           NEW old \in Nat, NEW out \in Seq(Nat), Goto(op, pc, want, old, out)
    PROVE  /\ call' \in CallType
           /\ call'.op = op /\ call'.pc = pc /\ call'.want = want
           /\ call'.old = old /\ call'.out = out
BY BufferAssumption DEF Goto, CallType, Bytes

(* A call that goes to the head of its loop. *)
LEMMA GotoLoopKeeps ==
    ASSUME IInv, NEW held, Whole(held), Len(buffer') = held, ret' = ret,
           NEW op \in Growing, NEW want \in Nat, NEW out \in Seq(Nat),
           Goto(op, "grow", want, 0, out),
           op \in {"peek_exact", "peek_to_end"} => out = Slice(pos', held),
           op = "peek_exact" => held < want
    PROVE  IInv'
<1>1. op \in Ops
  BY DEF Growing, Ops
<1>2. /\ call' \in CallType /\ call'.op = op /\ call'.pc = "grow"
      /\ call'.want = want /\ call'.out = out
  BY <1>1, GotoFields
<1>3. ret' \in AnswerType
  BY Facts
<1> QED
  BY <1>2, <1>3, AtLoopHead

(* A call that hands the reader the tail above old. *)
LEMMA GotoReaderKeeps ==
    ASSUME IInv, NEW old \in Nat, Whole(old), ret' = ret,
           NEW op \in Reading, NEW want \in Nat, NEW out \in Seq(Nat),
           Goto(op, "read", want, old, out),
           op # "fill_peek_buf" => old < Len(buffer'),
           op \in {"peek_exact", "peek_to_end"} => out = Slice(pos', old),
           op = "peek_exact" => old < want,
           op \in {"peek", "peek_exact"} => Len(buffer') = want,
           op = "peek_vectored" => Len(buffer') <= want
    PROVE  IInv'
<1>1. op \in Ops
  BY DEF Growing, Reading, Ops
<1>2. /\ call' \in CallType /\ call'.op = op /\ call'.pc = "read"
      /\ call'.want = want /\ call'.out = out /\ call'.old = old
  BY <1>1, GotoFields
<1>3. ret' \in AnswerType
  BY Facts
<1> QED
  BY <1>2, <1>3, AtReader

-----------------------------------------------------------------------------
(* The consuming calls. *)

(* The first k bytes of the buffer go to the consumer. *)
LEMMA DrainedWhole ==
    ASSUME IInv, call.pc # "read", NEW k \in Nat, k <= Len(buffer),
           buffer' = Drain(buffer, k), pos' = pos + k,
           UNCHANGED <<rpos, ibuf, avail, text, buf_cap, cap>>,
           NEW l \in Nat, lent' = l, (pos + k) + l <= ibuf
    PROVE  Whole(Len(buffer) - k) /\ Len(buffer') = Len(buffer) - k
<1>1. /\ buffer \in Seq(Nat) /\ Len(buffer) \in Nat /\ pos \in Nat /\ cap \in Nat
      /\ Len(buffer) <= cap /\ rpos \in Nat /\ ibuf \in Nat
  BY Facts
<1>2. /\ rpos = pos + Len(buffer)
      /\ \A i \in 1..Len(buffer) : buffer[i] = pos + i
  BY HeldIsAll
<1>3. k \in 0..Len(buffer)
  BY <1>1
<1> DEFINE m == Len(buffer) - k
           d == Drain(buffer, k)
<1>4. d \in Seq(Nat) /\ Len(d) = m /\ \A i \in 1..m : d[i] = buffer[k + i]
  BY <1>1, <1>3, DrainFacts
<1>5. m \in Nat /\ m <= cap /\ pos + k \in Nat /\ rpos = (pos + k) + m
  BY <1>1, <1>2, <1>3
<1>6. \A i \in 1..m : d[i] = (pos + k) + i
  <2> TAKE i \in 1..m
  <2>1. k + i \in 1..Len(buffer)
    BY <1>1, <1>3
  <2>2. buffer[k + i] = pos + (k + i)
    BY <1>2, <2>1
  <2>3. pos + (k + i) = (pos + k) + i
    BY <1>1
  <2> QED
    BY <1>4, <2>2, <2>3
<1> HIDE DEF m, d
<1>7. buffer' = d
  BY DEF d
<1>8. Whole(m)
  <2>1. /\ cap' = cap /\ InlineCap <= cap /\ (buf_cap # None => buf_cap <= cap)
        /\ avail' = avail /\ avail \in 0..N /\ rpos <= ibuf /\ ibuf <= avail
    BY Facts
  <2> QED
    BY <1>1, <1>4, <1>5, <1>6, <1>7, <2>1 DEF Whole, Bytes
<1> QED
  BY <1>4, <1>7, <1>8 DEF m

(* Nothing peeked is left: the two cursors meet. *)
LEMMA EmptiedWhole ==
    ASSUME IInv, buffer' \in Seq(Nat), Len(buffer') = 0,
           NEW p \in Nat, pos' = p, rpos' = p,
           NEW e \in Nat, ibuf' = e, p <= e, e <= avail,
           NEW l \in Nat, lent' = l, p + l <= e,
           NEW c \in Nat, cap' = c, InlineCap <= c, buf_cap # None => buf_cap <= c,
           UNCHANGED <<avail, text, buf_cap>>
    PROVE  Whole(0)
<1>1. avail \in 0..N /\ avail' = avail
  BY Facts
<1>2. p = p + 0
  OBVIOUS
<1> QED
  BY <1>1, <1>2 DEF Whole, Bytes

LEMMA read_buffered_keeps ==
    ASSUME IInv, Idle, NEW want \in Nat, read_buffered(want),
           lent' = 0, UNCHANGED <<avail, given, cap, call>>
    PROVE  IInv'
<1>1. /\ want <= Len(buffer) /\ buffer' = Drain(buffer, want)
      /\ pos' = pos + want /\ rpos' = rpos /\ ibuf' = ibuf
      /\ Answer("read", "ok", want, want, SubSeq(buffer, 1, want))
      /\ avail' = avail /\ text' = text /\ buf_cap' = buf_cap /\ cap' = cap
      /\ call' = call
  BY DEF read_buffered, inner, given
<1>2. call.pc # "read"
  BY DEF Idle
<1>3. buffer \in Seq(Nat) /\ Len(buffer) \in Nat
  BY Facts
<1>4. (pos + want) + 0 <= ibuf
  <2>1. pos \in Nat /\ ibuf \in Nat /\ rpos <= ibuf
    BY Facts
  <2>2. rpos = pos + Len(buffer)
    BY <1>2, HeldIsAll
  <2> QED
    BY <1>1, <1>3, <2>1, <2>2
<1>5. Whole(Len(buffer) - want) /\ Len(buffer') = Len(buffer) - want
  BY <1>1, <1>2, <1>4, DrainedWhole
<1>6. SubSeq(buffer, 1, want) \in Seq(Nat)
  BY <1>1, <1>3, PrefixFacts
<1> QED
  BY <1>1, <1>5, <1>6, AnswerKeeps DEF Ops, Statuses

(* Both forms of reading past the peek buffer leave it empty, with n bytes *)
(* taken from the reader.                                                  *)
LEMMA ReadPast ==
    ASSUME IInv, Idle, NEW n \in Nat, rpos + n <= avail, Advance(n),
           pos' = pos + Len(buffer) + n, buffer' = <<>>,
           lent' = 0, UNCHANGED <<avail, given, cap, call>>
    PROVE  Whole(0) /\ Len(buffer') = 0
<1>1. /\ rpos \in Nat /\ ibuf \in Nat /\ avail \in Nat /\ pos \in Nat
      /\ Len(buffer) \in Nat /\ cap \in Nat /\ ibuf <= avail /\ InlineCap <= cap
      /\ (buf_cap # None => buf_cap <= cap)
  BY Facts
<1>2. rpos = pos + Len(buffer)
  BY HeldIsAll DEF Idle
<1>3. rpos' = rpos + n /\ ibuf' = Larger(ibuf, rpos + n)
  BY DEF Advance
<1>4. pos' = rpos + n /\ rpos + n \in Nat
  BY <1>1, <1>2
<1> DEFINE e == Larger(ibuf, rpos + n)
           p == rpos + n
<1>5. e \in Nat /\ p <= e /\ e <= avail /\ p + 0 <= e
  BY <1>1 DEF Larger
<1>6. p \in Nat /\ pos' = p /\ rpos' = p /\ ibuf' = e
  BY <1>3, <1>4
<1> HIDE DEF p, e
<1>7. buffer' \in Seq(Nat) /\ Len(buffer') = 0
  BY EmptySeq
<1>8. cap' = cap /\ avail' = avail /\ text' = text /\ buf_cap' = buf_cap
  BY DEF given
<1> QED
  BY <1>1, <1>5, <1>6, <1>7, <1>8, EmptiedWhole

LEMMA read_top_up_keeps ==
    ASSUME IInv, Idle, NEW want \in Nat, read_top_up(want),
           lent' = 0, UNCHANGED <<avail, given, cap, call>>
    PROVE  IInv'
<1>1. want > Len(buffer) /\ buffer' = <<>> /\ call' = call
  BY DEF read_top_up
<1>2. /\ buffer \in Seq(Nat) /\ Len(buffer) \in Nat /\ rpos \in Nat /\ pos \in Nat
      /\ ibuf \in Nat /\ avail \in Nat /\ rpos <= ibuf /\ ibuf <= avail
  BY Facts
<1>3. CASE \E n \in 0..(want - Len(buffer)) :
              /\ MayRead(want - Len(buffer), n)
              /\ Advance(n)
              /\ pos' = pos + Len(buffer) + n
              /\ Answer("read", "ok", want, Len(buffer) + n, buffer \o Slice(rpos, n))
  <2>1. PICK n \in 0..(want - Len(buffer)) :
              /\ MayRead(want - Len(buffer), n)
              /\ Advance(n)
              /\ pos' = pos + Len(buffer) + n
              /\ Answer("read", "ok", want, Len(buffer) + n, buffer \o Slice(rpos, n))
    BY <1>3
  <2>2. n \in Nat /\ Len(buffer) + n \in Nat
    BY <1>2
  <2>3. rpos + n <= avail
    BY <2>1 DEF MayRead
  <2>4. Whole(0) /\ Len(buffer') = 0
    BY <1>1, <2>1, <2>2, <2>3, ReadPast
  <2>5. buffer \o Slice(rpos, n) \in Seq(Nat)
    BY <1>2, <2>2, SliceFacts, ConcatProperties
  <2> QED
    BY <1>1, <2>1, <2>2, <2>4, <2>5, AnswerKeeps DEF Ops, Statuses
<1>4. CASE /\ ReaderFails
           /\ pos' = pos + Len(buffer)
           /\ Answer("read", "ok", want, Len(buffer), buffer)
  <2>1. rpos + 0 <= avail /\ pos' = pos + Len(buffer) + 0 /\ Advance(0)
    <3>1. rpos' = rpos /\ ibuf' = ibuf
      BY <1>4 DEF ReaderFails, inner
    <3> QED
      BY <1>2, <1>4, <3>1 DEF Advance, Larger
  <2>2. Whole(0) /\ Len(buffer') = 0
    BY <1>1, <2>1, ReadPast
  <2> QED
    BY <1>1, <1>2, <1>4, <2>2, AnswerKeeps DEF Ops, Statuses
<1> QED
  BY <1>3, <1>4 DEF read_top_up

LEMMA read_inner_keeps ==
    ASSUME IInv, Idle, NEW want \in Nat, read_inner(want),
           lent' = 0, UNCHANGED <<avail, given, cap, call>>
    PROVE  IInv'
<1>1. buffer = <<>> /\ buffer' = <<>> /\ call' = call
  BY DEF read_inner
<1>2. /\ Len(buffer) = 0 /\ rpos \in Nat /\ pos \in Nat
      /\ ibuf \in Nat /\ avail \in Nat /\ rpos <= ibuf /\ ibuf <= avail
  BY <1>1, Facts, EmptySeq
<1>3. CASE \E n \in 0..want :
              /\ MayRead(want, n)
              /\ Advance(n)
              /\ pos' = pos + n
              /\ Answer("read", "ok", want, n, Slice(rpos, n))
  <2>1. PICK n \in 0..want :
              /\ MayRead(want, n)
              /\ Advance(n)
              /\ pos' = pos + n
              /\ Answer("read", "ok", want, n, Slice(rpos, n))
    BY <1>3
  <2>2. n \in Nat /\ pos' = pos + Len(buffer) + n
    BY <1>2, <2>1
  <2>3. rpos + n <= avail
    BY <2>1 DEF MayRead
  <2>4. Whole(0) /\ Len(buffer') = 0
    BY <1>1, <2>1, <2>2, <2>3, ReadPast
  <2>5. Slice(rpos, n) \in Seq(Nat)
    BY <1>2, <2>2, SliceFacts
  <2> QED
    BY <1>1, <2>1, <2>2, <2>4, <2>5, AnswerKeeps DEF Ops, Statuses
<1>4. CASE ReaderFails /\ pos' = pos /\ Answer("read", "err", want, 0, <<>>)
  <2>1. rpos + 0 <= avail /\ pos' = pos + Len(buffer) + 0 /\ Advance(0)
    <3>1. rpos' = rpos /\ ibuf' = ibuf
      BY <1>4 DEF ReaderFails, inner
    <3> QED
      BY <1>2, <1>4, <3>1 DEF Advance, Larger
  <2>2. Whole(0) /\ Len(buffer') = 0
    BY <1>1, <2>1, ReadPast
  <2>3. <<>> \in Seq(Nat)
    BY EmptySeq
  <2> QED
    BY <1>1, <1>4, <2>2, <2>3, AnswerKeeps DEF Ops, Statuses
<1> QED
  BY <1>3, <1>4 DEF read_inner

LEMMA read_keeps ==
    ASSUME IInv, NEW want \in Nat, read(want)
    PROVE  IInv'
BY read_buffered_keeps, read_top_up_keeps, read_inner_keeps DEF read

LEMMA fill_buf_keeps ==
    ASSUME IInv, fill_buf
    PROVE  IInv'
<1>1. /\ call' = call /\ Idle /\ buffer' = buffer /\ cap' = cap /\ avail' = avail
      /\ text' = text /\ buf_cap' = buf_cap /\ pos' = pos /\ call.pc # "read"
  BY DEF fill_buf, given, storage, Idle
<1>2. /\ buffer \in Seq(Nat) /\ Len(buffer) \in Nat /\ rpos \in Nat /\ pos \in Nat
      /\ ibuf \in Nat /\ avail \in Nat /\ rpos <= ibuf /\ ibuf <= avail
      /\ cap \in Nat /\ avail \in 0..N /\ Len(buffer) <= cap /\ InlineCap <= cap
      /\ (buf_cap # None => buf_cap <= cap)
  BY Facts
<1>3. /\ rpos = pos + Len(buffer)
      /\ \A i \in 1..Len(buffer) : buffer[i] = pos + i
  BY <1>1, HeldIsAll
<1>4. ASSUME rpos' = rpos, NEW e \in Nat, ibuf' = e, rpos <= e, e <= avail,
             NEW l \in Nat, lent' = l, pos + l <= e
      PROVE  Whole(Len(buffer)) /\ Len(buffer') = Len(buffer)
  BY <1>1, <1>2, <1>3, <1>4 DEF Whole, Bytes
<1>5. CASE /\ lent' = Len(buffer)
           /\ Answer("fill_buf", "ok", 0, Len(buffer), buffer)
           /\ UNCHANGED inner
  <2>1. rpos' = rpos /\ ibuf' = ibuf /\ pos + Len(buffer) <= ibuf
    BY <1>2, <1>3, <1>5 DEF inner
  <2>2. Whole(Len(buffer)) /\ Len(buffer') = Len(buffer)
    BY <1>2, <1>4, <1>5, <2>1
  <2> QED
    BY <1>1, <1>2, <1>5, <2>2, AnswerKeeps DEF Ops, Statuses
<1>6. CASE /\ buffer = <<>>
           /\ inner_fill_buf
           /\ lent' = ibuf' - rpos
           /\ Answer("fill_buf", "ok", 0, ibuf' - rpos, Slice(rpos, ibuf' - rpos))
  <2>1. PICK e \in Nat : ibuf' = e /\ rpos <= e /\ e <= avail
    <3>1. CASE ibuf' = ibuf
      BY <1>2, <3>1
    <3>2. CASE ibuf' \in (ibuf + 1)..avail
      BY <1>2, <3>2
    <3> QED
      BY <1>6, <3>1, <3>2 DEF inner_fill_buf
  <2>2. Len(buffer) = 0 /\ rpos = pos /\ rpos' = rpos
    BY <1>2, <1>3, <1>6, EmptySeq DEF inner_fill_buf
  <2>3. e - rpos \in Nat /\ pos + (e - rpos) <= e
    BY <1>2, <2>1, <2>2
  <2>4. Whole(Len(buffer)) /\ Len(buffer') = Len(buffer)
    BY <1>4, <1>6, <2>1, <2>2, <2>3
  <2>5. Slice(rpos, e - rpos) \in Seq(Nat)
    BY <1>2, <2>3, SliceFacts
  <2>6. Answer("fill_buf", "ok", 0, e - rpos, Slice(rpos, e - rpos))
    BY <1>6, <2>1
  <2> QED
    BY <1>1, <2>3, <2>4, <2>5, <2>6, AnswerKeeps DEF Ops, Statuses
<1>7. CASE ReaderFails /\ lent' = 0 /\ Answer("fill_buf", "err", 0, 0, <<>>)
  <2>1. rpos' = rpos /\ ibuf' = ibuf /\ pos + 0 <= ibuf
    BY <1>2, <1>3, <1>7 DEF ReaderFails, inner
  <2>2. Whole(Len(buffer)) /\ Len(buffer') = Len(buffer)
    BY <1>2, <1>4, <1>7, <2>1
  <2>3. <<>> \in Seq(Nat)
    BY EmptySeq
  <2> QED
    BY <1>1, <1>7, <2>2, <2>3, AnswerKeeps DEF Ops, Statuses
<1> QED
  BY <1>5, <1>6, <1>7 DEF fill_buf

LEMMA BufRead_consume_keeps ==
    ASSUME IInv, NEW amt \in Nat, BufRead_consume(amt)
    PROVE  IInv'
<1>1. /\ call' = call /\ Idle /\ cap' = cap /\ avail' = avail /\ ibuf' = ibuf
      /\ text' = text /\ buf_cap' = buf_cap /\ call.pc # "read"
      /\ amt <= lent /\ buffer' = Drain(buffer, FromBuffer(amt))
      /\ rpos' = rpos + (amt - FromBuffer(amt))
      /\ pos' = pos + amt /\ lent' = lent - amt
      /\ Answer("BufRead_consume", "ok", amt, 0, <<>>)
  BY DEF BufRead_consume, given, Idle
<1>2. /\ buffer \in Seq(Nat) /\ Len(buffer) \in Nat /\ rpos \in Nat /\ pos \in Nat
      /\ ibuf \in Nat /\ avail \in Nat /\ rpos <= ibuf /\ ibuf <= avail
      /\ cap \in Nat /\ Len(buffer) <= cap /\ InlineCap <= cap
      /\ (buf_cap # None => buf_cap <= cap) /\ lent \in Nat /\ pos + lent <= ibuf
  BY Facts
<1>3. rpos = pos + Len(buffer)
  BY <1>1, HeldIsAll
<1>4. lent - amt \in Nat /\ (pos + amt) + (lent - amt) <= ibuf
  BY <1>1, <1>2
<1>5. <<>> \in Seq(Nat)
  BY EmptySeq
<1>6. CASE amt <= Len(buffer)
  <2>1. FromBuffer(amt) = amt
    BY <1>6 DEF FromBuffer, Smaller
  <2>2. rpos' = rpos /\ buffer' = Drain(buffer, amt)
    BY <1>1, <1>2, <2>1
  <2>3. Whole(Len(buffer) - amt) /\ Len(buffer') = Len(buffer) - amt
    BY <1>1, <1>4, <1>6, <2>2, DrainedWhole
  <2> QED
    BY <1>1, <1>5, <2>3, AnswerKeeps DEF Ops, Statuses
<1>7. CASE amt > Len(buffer)
  <2>1. FromBuffer(amt) = Len(buffer)
    BY <1>2, <1>7 DEF FromBuffer, Smaller
  <2>2. buffer' \in Seq(Nat) /\ Len(buffer') = 0
    <3>1. Len(buffer) \in 0..Len(buffer) /\ Len(buffer) - Len(buffer) = 0
      BY <1>2
    <3> QED
      BY <1>1, <1>2, <2>1, <3>1, DrainFacts
  <2>3. pos + amt \in Nat /\ rpos' = pos + amt /\ pos + amt <= ibuf
    <3>1. rpos' = rpos + (amt - Len(buffer))
      BY <1>1, <2>1
    <3>2. rpos + (amt - Len(buffer)) = pos + amt
      BY <1>2, <1>3
    <3>3. pos + amt \in Nat /\ pos + amt <= ibuf
      BY <1>1, <1>2
    <3> QED
      BY <3>1, <3>2, <3>3
  <2>4. Whole(0) /\ Len(buffer') = 0
    BY <1>1, <1>2, <1>4, <2>2, <2>3, EmptiedWhole
  <2>5. Idle /\ call' = call /\ Answer("BufRead_consume", "ok", amt, 0, <<>>)
    BY <1>1
  <2>6. "BufRead_consume" \in Ops /\ "ok" \in Statuses /\ 0 \in Nat
    BY DEF Ops, Statuses
  <2> QED
    BY <1>5, <2>4, <2>5, <2>6, AnswerKeeps
<1> QED
  BY <1>2, <1>6, <1>7

(* consume and consume_in_place: all that was peeked goes. *)
LEMMA DiscardWhole ==
    ASSUME IInv, Idle, buffer' = <<>>, pos' = pos + Len(buffer), lent' = 0,
           NEW c \in Nat, cap' = c, InlineCap <= c, buf_cap # None => buf_cap <= c,
           UNCHANGED <<inner, avail, given, call>>
    PROVE  Whole(0) /\ Len(buffer') = 0
<1>1. rpos \in Nat /\ ibuf \in Nat /\ rpos <= ibuf /\ ibuf <= avail /\ rpos + 0 <= ibuf
  BY Facts
<1>2. rpos = pos + Len(buffer)
  BY HeldIsAll DEF Idle
<1>3. /\ pos' = rpos /\ rpos' = rpos /\ ibuf' = ibuf /\ avail' = avail
      /\ text' = text /\ buf_cap' = buf_cap
  BY <1>2 DEF inner, given
<1>4. buffer' \in Seq(Nat) /\ Len(buffer') = 0
  BY EmptySeq
<1> QED
  BY <1>1, <1>3, <1>4, EmptiedWhole

LEMMA consume_keeps ==
    ASSUME IInv, consume
    PROVE  IInv'
<1>1. /\ buffer \in Seq(Nat) /\ Len(buffer) \in Nat
      /\ buf_cap \in Nat \cup {None}
  BY Facts
<1>2. /\ FreshCapacity(buf_cap) \in Nat /\ InlineCap <= FreshCapacity(buf_cap)
      /\ (buf_cap # None => buf_cap <= FreshCapacity(buf_cap))
  BY <1>1, FreshCapacityFacts
<1>3. Whole(0) /\ Len(buffer') = 0
  BY <1>2, DiscardWhole DEF consume
<1> QED
  BY <1>1, <1>3, AnswerKeeps DEF consume, Ops, Statuses

LEMMA consume_in_place_keeps ==
    ASSUME IInv, consume_in_place
    PROVE  IInv'
<1>1. cap \in Nat /\ InlineCap <= cap /\ (buf_cap # None => buf_cap <= cap)
  BY Facts
<1>2. Whole(0) /\ Len(buffer') = 0
  BY <1>1, DiscardWhole DEF consume_in_place
<1>3. <<>> \in Seq(Nat)
  BY EmptySeq
<1> QED
  BY <1>2, <1>3, AnswerKeeps DEF consume_in_place, Ops, Statuses

-----------------------------------------------------------------------------
(* peek and peek_vectored. *)

LEMMA StutterKeeps ==
    ASSUME IInv, UNCHANGED vars
    PROVE  IInv'
BY DEF IInv, vars, TypeOK, StreamIntact, CallIntact, BufReadContract, CapacityKept,
       Held, Room, At

(* A call that answers without touching the buffer or the reader. *)
LEMMA AnswerAtOnce ==
    ASSUME IInv, Idle, UNCHANGED <<inner, avail, given, storage, client, call>>,
           NEW op \in Ops, NEW st \in Statuses, NEW want \in Nat, NEW n \in Nat,
           NEW out \in Seq(Nat), Answer(op, st, want, n, out)
    PROVE  IInv'
<1>1. Whole(Len(buffer'))
  BY UntouchedWhole DEF Idle, inner, given, storage, client
<1> QED
  BY <1>1, AnswerKeeps

LEMMA PeekInto_keeps ==
    ASSUME IInv, NEW op \in {"peek", "peek_vectored"}, NEW asked \in Nat,
           NEW want \in Nat, want <= asked, op = "peek" => asked = want,
           PeekInto(op, asked, want)
    PROVE  IInv'
<1>1. /\ Idle /\ call.pc # "read" /\ op \in Ops /\ op \in Reading
      /\ UNCHANGED <<inner, avail, given, client>>
  BY DEF PeekInto, Idle, Ops, Reading
<1>2. buffer \in Seq(Nat) /\ Len(buffer) \in Nat /\ <<>> \in Seq(Nat)
  BY Facts, EmptySeq
<1>3. "ok" \in Statuses /\ "oom" \in Statuses /\ 0 \in Nat
  BY DEF Statuses
<1>4. CASE /\ want <= Len(buffer)
           /\ Answer(op, "ok", asked, want, SubSeq(buffer, 1, want))
           /\ UNCHANGED <<storage, call>>
  <2>1. SubSeq(buffer, 1, want) \in Seq(Nat)
    BY <1>2, <1>4, PrefixFacts
  <2> QED
    BY <1>1, <1>3, <1>4, <2>1, AnswerAtOnce
<1>5. CASE Answer(op, "oom", asked, 0, <<>>) /\ UNCHANGED <<storage, call>>
  BY <1>1, <1>2, <1>3, <1>5, AnswerAtOnce
<1>6. CASE /\ want > Len(buffer) /\ ResizeTo(want)
           /\ Goto(op, "read", asked, Len(buffer), <<>>) /\ ret' = ret
  <2>1. Len(buffer) <= want
    BY <1>2, <1>6
  <2>2. Whole(Len(buffer)) /\ Len(buffer') = want
    BY <1>1, <1>6, <2>1, ResizedWhole DEF inner, given, client
  <2>3. op \notin {"peek_exact", "peek_to_end"}
    OBVIOUS
  <2> QED
    BY <1>1, <1>2, <1>6, <2>2, <2>3, GotoReaderKeeps
<1> QED
  BY <1>4, <1>5, <1>6 DEF PeekInto

LEMMA peek_keeps ==
    ASSUME IInv, NEW want \in Nat, peek(want)
    PROVE  IInv'
BY PeekInto_keeps DEF peek

LEMMA peek_vectored_keeps ==
    ASSUME IInv, NEW len1 \in Nat, NEW len2 \in Nat, peek_vectored(len1, len2)
    PROVE  IInv'
BY PeekInto_keeps DEF peek_vectored

(* The reader is asked again, nothing has happened. *)
LEMMA ReadAgainKeeps ==
    ASSUME IInv, ReadAgain, UNCHANGED <<avail, given, client>>
    PROVE  IInv'
BY StutterKeeps DEF ReadAgain, ReaderFails, inner, given, storage, client, vars

(* The reader has failed, the method returns. *)
LEMMA ReadErrKeeps ==
    ASSUME IInv, call.pc = "read", ReadErr, UNCHANGED <<avail, given, client>>,
           NEW out \in Seq(Nat), Return("err", 0, out)
    PROVE  IInv'
<1>1. PICK old \in Nat : Handed(old)
  BY HeldIsOld
<1>2. Whole(old) /\ Len(buffer') = old
  BY <1>1, RolledBackWhole DEF given, client
<1>3. "err" \in Statuses /\ 0 \in Nat
  BY DEF Statuses
<1> QED
  BY <1>2, <1>3, ReturnKeeps

LEMMA peek_read_keeps ==
    ASSUME IInv, peek_read
    PROVE  IInv'
<1>1. call.pc = "read" /\ UNCHANGED <<avail, given, client>>
  BY DEF peek_read, At
<1>2. PICK old \in Nat : Handed(old)
  BY <1>1, HeldIsOld
<1>3. CASE \E n \in 0..Room : ReadOk(n) /\ Return("ok", call.old + n, buffer')
  <2>1. PICK n \in 0..Room : ReadOk(n) /\ Return("ok", call.old + n, buffer')
    BY <1>3
  <2>2. n \in Nat /\ old + n \in Nat
    OBVIOUS
  <2>3. Whole(old + n) /\ Len(buffer') = old + n
    BY <1>1, <1>2, <2>1, <2>2, RecordedWhole DEF given, client
  <2>4. buffer' \in Seq(Nat)
    BY <2>3 DEF Whole, Bytes
  <2>5. Return("ok", old + n, buffer')
    BY <1>2, <2>1 DEF Handed
  <2>6. "ok" \in Statuses
    BY DEF Statuses
  <2> QED
    BY <2>2, <2>3, <2>4, <2>5, <2>6, ReturnKeeps
<1>4. CASE ReadErr /\ Return("err", 0, <<>>)
  <2>1. <<>> \in Seq(Nat)
    BY EmptySeq
  <2> QED
    BY <1>1, <1>4, <2>1, ReadErrKeeps
<1>5. CASE ReadAgain
  BY <1>1, <1>5, ReadAgainKeeps
<1> QED
  BY <1>3, <1>4, <1>5 DEF peek_read

-----------------------------------------------------------------------------
(* peek_exact. *)

(* Outside a read, what is peeked is a slice of the stream. *)
LEMMA BufferIsSlice ==
    ASSUME IInv, call.pc # "read"
    PROVE  buffer = Slice(pos, Len(buffer))
BY Facts, HeldIsAll, IsSlice

LEMMA peek_exact_keeps ==
    ASSUME IInv, NEW total \in Nat, peek_exact(total)
    PROVE  IInv'
<1>1. /\ Idle /\ call.pc # "read"
      /\ UNCHANGED <<inner, avail, given, storage, client>>
  BY DEF peek_exact, Idle
<1>2. buffer \in Seq(Nat) /\ Len(buffer) \in Nat
  BY Facts
<1>3. CASE /\ total <= Len(buffer)
           /\ Answer("peek_exact", "ok", total, total, SubSeq(buffer, 1, total))
           /\ call' = call
  <2>1. SubSeq(buffer, 1, total) \in Seq(Nat)
    BY <1>2, <1>3, PrefixFacts
  <2>2. "peek_exact" \in Ops /\ "ok" \in Statuses
    BY DEF Ops, Statuses
  <2> QED
    BY <1>1, <1>3, <2>1, <2>2, AnswerAtOnce
<1>4. CASE /\ total > Len(buffer)
           /\ Goto("peek_exact", "grow", total, 0, buffer)
           /\ ret' = ret
  <2>1. Whole(Len(buffer')) /\ buffer' = buffer /\ pos' = pos
    BY <1>1, UntouchedWhole DEF inner, given, storage, client
  <2>2. buffer = Slice(pos', Len(buffer'))
    BY <1>1, <2>1, BufferIsSlice
  <2>3. "peek_exact" \in Growing /\ Len(buffer') < total
    BY <1>2, <1>4, <2>1 DEF Growing
  <2> QED
    BY <1>2, <1>4, <2>1, <2>2, <2>3, GotoLoopKeeps
<1> QED
  BY <1>3, <1>4 DEF peek_exact

(* At the head of the loop the caller has all that is peeked, and what is  *)
(* missing makes the slice full.                                           *)
LEMMA MissingFacts ==
    ASSUME IInv, At("peek_exact", "grow")
    PROVE  /\ call.out = Slice(pos, Len(buffer))
           /\ call.want \in Nat /\ Len(buffer) < call.want
           /\ Len(buffer) + Missing = call.want
<1>1. call.pc # "read" /\ call.op = "peek_exact"
  BY DEF At
<1>2. Held = Len(buffer)
  BY <1>1, HeldIsAll
<1>3. call.out = Slice(pos, Len(buffer)) /\ Len(buffer) < call.want
  BY <1>1, <1>2 DEF IInv, CallIntact
<1>4. call.want \in Nat /\ Len(buffer) \in Nat /\ pos \in Nat
  BY Facts DEF CallType
<1>5. Len(call.out) = Len(buffer)
  BY <1>3, <1>4, SliceFacts
<1>6. PICK w \in Nat : w = call.want
  BY <1>4
<1>7. Missing = w - Len(buffer)
  BY <1>5, <1>6 DEF Missing
<1>8. Len(buffer) + (w - Len(buffer)) = w
  BY <1>4
<1> QED
  BY <1>3, <1>4, <1>6, <1>7, <1>8

LEMMA peek_exact_resize_keeps ==
    ASSUME IInv, peek_exact_resize
    PROVE  IInv'
<1>1. /\ At("peek_exact", "grow") /\ call.pc # "read"
      /\ UNCHANGED <<inner, avail, given, client>>
  BY DEF peek_exact_resize, At
<1>2. PICK w \in Nat : /\ w = call.want /\ Len(buffer) < w
                       /\ Len(buffer) + Missing = w
                       /\ call.out = Slice(pos, Len(buffer))
  BY <1>1, MissingFacts
<1>3. Len(buffer) \in Nat /\ call.out \in Seq(Nat)
  BY Facts
<1>4. CASE /\ ResizeTo(Len(buffer) + Missing)
           /\ Goto("peek_exact", "read", call.want, Len(buffer), call.out)
           /\ ret' = ret
  <2>1. ResizeTo(w) /\ Len(buffer) <= w
    BY <1>2, <1>3, <1>4
  <2>2. Whole(Len(buffer)) /\ Len(buffer') = w /\ pos' = pos
    BY <1>1, <2>1, ResizedWhole DEF inner, given, client
  <2>3. Goto("peek_exact", "read", w, Len(buffer), call.out)
    BY <1>2, <1>4
  <2>4. "peek_exact" \in Reading /\ Len(buffer) < Len(buffer')
    BY <1>2, <2>2 DEF Reading, Growing
  <2>5. call.out = Slice(pos', Len(buffer))
    BY <1>2, <2>2
  <2> QED
    BY <1>2, <1>3, <1>4, <2>2, <2>3, <2>4, <2>5, GotoReaderKeeps
<1>5. CASE Return("oom", 0, call.out) /\ UNCHANGED storage
  <2>1. Whole(Len(buffer'))
    BY <1>1, <1>5, UntouchedWhole DEF inner, given, storage, client
  <2>2. "oom" \in Statuses /\ 0 \in Nat
    BY DEF Statuses
  <2> QED
    BY <1>3, <1>5, <2>1, <2>2, ReturnKeeps
<1> QED
  BY <1>4, <1>5 DEF peek_exact_resize

(* After Ok(n) the caller's copy again mirrors the peek buffer. *)
LEMMA CopiedSlice ==
    ASSUME IInv, call.pc = "read", call.op \in {"peek_exact", "peek_to_end"},
           NEW old \in Nat, Handed(old), NEW n \in Nat,
           Whole(old + n), Len(buffer') = old + n, pos' = pos
    PROVE  call.out \o SubSeq(buffer', call.old + 1, call.old + n) = Slice(pos, old + n)
<1>1. call.out = Slice(pos, old)
  BY DEF IInv, CallIntact, Held, Handed
<1>2. pos \in Nat
  BY Facts
<1>3. buffer' \in Seq(Nat) /\ \A i \in 1..(old + n) : buffer'[i] = pos + i
  BY DEF Whole, Bytes
<1>4. Slice(pos, old) \o SubSeq(buffer', old + 1, old + n) = Slice(pos, old + n)
  BY <1>2, <1>3, ExtendSlice
<1> QED
  BY <1>1, <1>4 DEF Handed

LEMMA peek_exact_read_keeps ==
    ASSUME IInv, peek_exact_read
    PROVE  IInv'
<1>1. /\ call.pc = "read" /\ call.op = "peek_exact"
      /\ UNCHANGED <<avail, given, client>> /\ pos' = pos
  BY DEF peek_exact_read, At, client
<1>2. PICK old \in Nat : Handed(old)
  BY <1>1, HeldIsOld
<1>3. /\ call.out \in Seq(Nat) /\ call.want \in Nat /\ pos \in Nat
      /\ "eof" \in Statuses /\ "ok" \in Statuses /\ 0 \in Nat
  BY Facts DEF CallType, Statuses
<1>4. CASE ReadOk(0) /\ Return("eof", 0, call.out)
  <2>1. Whole(old + 0) /\ Len(buffer') = old + 0
    BY <1>1, <1>2, <1>3, <1>4, RecordedWhole DEF given, client
  <2> QED
    BY <1>3, <1>4, <2>1, ReturnKeeps
<1>5. CASE \E n \in 1..Room :
            /\ ReadOk(n)
            /\ LET out == call.out \o SubSeq(buffer', call.old + 1, call.old + n)
               IN  \/ /\ Len(out) < call.want
                      /\ Goto("peek_exact", "grow", call.want, 0, out)
                      /\ ret' = ret
                   \/ /\ Len(out) >= call.want
                      /\ Return("ok", Len(out), out)
  <2> DEFINE out(n) == call.out \o SubSeq(buffer', call.old + 1, call.old + n)
  <2>1. PICK n \in 1..Room :
            /\ ReadOk(n)
            /\ \/ /\ Len(out(n)) < call.want
                  /\ Goto("peek_exact", "grow", call.want, 0, out(n))
                  /\ ret' = ret
               \/ Return("ok", Len(out(n)), out(n))
    BY <1>5
  <2>2. n \in Nat
    OBVIOUS
  <2>3. Whole(old + n) /\ Len(buffer') = old + n
    BY <1>1, <1>2, <2>1, <2>2, RecordedWhole DEF given, client
  <2>4. out(n) = Slice(pos, old + n)
    BY <1>1, <1>2, <2>2, <2>3, CopiedSlice
  <2>5. old + n \in Nat
    BY <2>2
  <2> DEFINE m == old + n
  <2> HIDE DEF out, m
  <2>6. out(n) = Slice(pos, m) /\ m \in Nat /\ Whole(m) /\ Len(buffer') = m
    BY <2>3, <2>4, <2>5 DEF m
  <2>7. out(n) \in Seq(Nat) /\ Len(out(n)) = m
    BY <1>3, <2>6, SliceFacts
  <2>8. CASE /\ Len(out(n)) < call.want
             /\ Goto("peek_exact", "grow", call.want, 0, out(n))
             /\ ret' = ret
    <3>1. "peek_exact" \in Growing /\ out(n) = Slice(pos', m) /\ m < call.want
      BY <1>1, <2>6, <2>7, <2>8 DEF Growing
    <3> QED
      BY <1>3, <2>6, <2>7, <2>8, <3>1, GotoLoopKeeps
  <2>9. CASE Return("ok", Len(out(n)), out(n))
    BY <1>3, <2>6, <2>7, <2>9, ReturnKeeps
  <2> QED
    BY <2>1, <2>8, <2>9
<1>6. CASE ReadErr /\ Return("err", 0, call.out)
  BY <1>1, <1>3, <1>6, ReadErrKeeps
<1>7. CASE ReadAgain
  BY <1>1, <1>7, ReadAgainKeeps
<1> QED
  BY <1>4, <1>5, <1>6, <1>7 DEF peek_exact_read

-----------------------------------------------------------------------------
(* peek_to_end and peek_to_string. *)

LEMMA peek_to_end_keeps ==
    ASSUME IInv, peek_to_end
    PROVE  IInv'
<1>1. /\ call.pc # "read" /\ ret' = ret /\ Goto("peek_to_end", "grow", 0, 0, buffer)
      /\ UNCHANGED <<inner, avail, given, storage, client>>
  BY DEF peek_to_end, Idle
<1>2. buffer \in Seq(Nat) /\ 0 \in Nat
  BY Facts
<1>3. Whole(Len(buffer')) /\ buffer' = buffer /\ pos' = pos
  BY <1>1, UntouchedWhole DEF inner, given, storage, client
<1>4. buffer = Slice(pos', Len(buffer'))
  BY <1>1, <1>3, BufferIsSlice
<1>5. "peek_to_end" \in Growing
  BY DEF Growing
<1> QED
  BY <1>1, <1>2, <1>3, <1>4, <1>5, GotoLoopKeeps

LEMMA peek_to_string_keeps ==
    ASSUME IInv, peek_to_string
    PROVE  IInv'
<1>1. /\ Idle /\ call.pc # "read"
      /\ UNCHANGED <<inner, avail, given, storage, client>>
  BY DEF peek_to_string, Idle
<1>2. <<>> \in Seq(Nat) /\ 0 \in Nat
  BY EmptySeq
<1>3. CASE Answer("peek_to_string", "rejected", 0, 0, <<>>) /\ call' = call
  <2>1. "peek_to_string" \in Ops /\ "rejected" \in Statuses
    BY DEF Ops, Statuses
  <2> QED
    BY <1>1, <1>2, <1>3, <2>1, AnswerAtOnce
<1>4. CASE Goto("peek_to_string", "grow", 0, 0, <<>>) /\ ret' = ret
  <2>1. Whole(Len(buffer'))
    BY <1>1, UntouchedWhole DEF inner, given, storage, client
  <2>2. /\ "peek_to_string" \in Growing /\ "peek_to_string" # "peek_exact"
        /\ "peek_to_string" \notin {"peek_exact", "peek_to_end"}
    BY DEF Growing
  <2> QED
    BY <1>2, <1>4, <2>1, <2>2, GotoLoopKeeps
<1> QED
  BY <1>3, <1>4 DEF peek_to_string

(* However peek_to_string ends, its buffer stays whole. *)
LEMMA ConcludeKeeps ==
    ASSUME IInv, NEW held, Whole(held), Len(buffer') = held,
           NEW st \in {"ok", "err", "oom"}, NEW b \in Seq(Nat), Conclude(st, b)
    PROVE  IInv'
<1>1. /\ Len(b) \in Nat /\ 0 \in Nat /\ <<>> \in Seq(Nat)
      /\ st \in Statuses /\ "invalid" \in Statuses
  BY LenProperties, EmptySeq DEF Statuses
<1>2. CASE Return(st, IF st = "ok" THEN Len(b) ELSE 0, b)
  <2> DEFINE k == IF st = "ok" THEN Len(b) ELSE 0
  <2>1. k \in Nat
    BY <1>1
  <2>2. Return(st, k, b)
    BY <1>2
  <2> HIDE DEF k
  <2> QED
    BY <1>1, <2>1, <2>2, ReturnKeeps
<1>3. CASE Return("invalid", 0, <<>>)
  BY <1>1, <1>3, ReturnKeeps
<1>4. CASE \E vut \in 0..Len(b) :
             vut = ValidUpTo(Spelt(b)) /\ Return(st, 0, SubSeq(b, 1, vut))
  <2>1. PICK vut \in 0..Len(b) : Return(st, 0, SubSeq(b, 1, vut))
    BY <1>4
  <2>2. SubSeq(b, 1, vut) \in Seq(Nat)
    BY PrefixFacts
  <2> QED
    BY <1>1, <2>1, <2>2, ReturnKeeps
<1> QED
  BY <1>2, <1>3, <1>4 DEF Conclude

LEMMA HalfFacts ==
    ASSUME NEW g \in Nat, g > 1
    PROVE  g \div 2 \in Nat \ {0}
OBVIOUS

LEMMA grow_peek_buffer_keeps ==
    ASSUME IInv, grow_peek_buffer
    PROVE  IInv'
<1>1. /\ call.pc = "grow" /\ call.pc # "read"
      /\ call.op \in {"peek_to_end", "peek_to_string"}
      /\ UNCHANGED <<inner, avail, given, client>>
  BY DEF grow_peek_buffer, At
<1>2. /\ buffer \in Seq(Nat) /\ Len(buffer) \in Nat /\ call \in CallType
      /\ ret \in AnswerType /\ call.out \in Seq(Nat)
  BY Facts
<1>3. call.op = "peek_to_end" => call.out = Slice(pos, Len(buffer))
  <2>1. Held = Len(buffer)
    BY <1>1, HeldIsAll
  <2> QED
    BY <2>1 DEF IInv, CallIntact
<1>4. CASE grow_ok
  <2>1. PICK g \in Nat \ {0} : g = call.growth
    BY <1>2 DEF CallType
  <2>2. ResizeTo(Len(buffer) + g)
    BY <1>4, <2>1 DEF grow_ok
  <2>3. Len(buffer) + g \in Nat /\ Len(buffer) <= Len(buffer) + g
        /\ Len(buffer) < Len(buffer) + g
    BY <1>2
  <2>4. Whole(Len(buffer)) /\ Len(buffer') = Len(buffer) + g /\ pos' = pos
    BY <1>1, <2>2, <2>3, ResizedWhole DEF inner, given, client
  <2>5. Len(buffer) < Len(buffer')
    BY <2>3, <2>4
  <2>6. call' = [call EXCEPT !.pc = "read", !.old = Len(buffer)] /\ ret' = ret
    BY <1>4 DEF grow_ok
  <2>7. /\ call' \in CallType /\ call'.pc = "read" /\ call'.old = Len(buffer)
        /\ call'.op = call.op /\ call'.out = call.out
    BY <1>2, <2>6 DEF CallType
  <2>8. /\ call'.op \in Reading
        /\ call'.op \notin {"peek", "peek_vectored", "peek_exact"}
    BY <1>1, <2>7 DEF Reading, Growing
  <2>9. call'.op = "peek_to_end" => call'.out = Slice(pos', call'.old)
    BY <1>3, <2>4, <2>7
  <2>10. Whole(call'.old) /\ call'.old < Len(buffer')
    BY <2>4, <2>5, <2>7
  <2>11. ret' \in AnswerType
    BY <1>2, <2>6
  <2> QED
    BY <2>7, <2>8, <2>9, <2>10, <2>11, AtReader
<1>5. CASE grow_halve
  <2>1. Whole(Len(buffer')) /\ buffer' = buffer /\ pos' = pos
    BY <1>1, <1>5, UntouchedWhole DEF grow_halve, inner, given, storage, client
  <2>2. call.growth \in Nat /\ call.growth > 1
    BY <1>2, <1>5 DEF CallType, grow_halve
  <2>3. PICK h \in Nat \ {0} : h = call.growth \div 2
    BY <2>2, HalfFacts
  <2>4. call' = [call EXCEPT !.growth = h] /\ ret' = ret
    BY <1>5, <2>3 DEF grow_halve
  <2>5. /\ call' \in CallType /\ call'.pc = "grow"
        /\ call'.op = call.op /\ call'.out = call.out
    BY <1>1, <1>2, <2>4 DEF CallType
  <2>6. call'.op \in Growing /\ call'.op # "peek_exact"
    BY <1>1, <2>5 DEF Growing
  <2>7. call'.op = "peek_to_end" => call'.out = Slice(pos', Len(buffer'))
    BY <1>3, <2>1, <2>5
  <2>8. ret' \in AnswerType
    BY <1>2, <2>4
  <2> QED
    BY <2>1, <2>5, <2>6, <2>7, <2>8, AtLoopHead
<1>6. CASE grow_fail
  <2>1. Whole(Len(buffer')) /\ buffer' = buffer
    BY <1>1, <1>6, UntouchedWhole DEF grow_fail, inner, given, storage, client
  <2>2. "oom" \in Statuses /\ 0 \in Nat
    BY DEF Statuses
  <2>3. CASE Return("oom", 0, call.out)
    BY <1>2, <2>1, <2>2, <2>3, ReturnKeeps
  <2>4. CASE Conclude("oom", buffer)
    BY <1>2, <2>1, <2>4, ConcludeKeeps
  <2> QED
    BY <1>6, <2>3, <2>4 DEF grow_fail
<1> QED
  BY <1>4, <1>5, <1>6 DEF grow_peek_buffer

(* Again: back to the head of the loop of peek_to_end or peek_to_string. *)
LEMMA AgainKeeps ==
    ASSUME IInv, call.op \in {"peek_to_end", "peek_to_string"},
           NEW held, Whole(held), Len(buffer') = held, NEW out \in Seq(Nat),
           call.op = "peek_to_end" => out = Slice(pos', held), Again(out)
    PROVE  IInv'
<1>1. /\ call.op \in Growing /\ call.op # "peek_exact" /\ call.want \in Nat
      /\ Goto(call.op, "grow", call.want, 0, out) /\ ret' = ret
  BY Facts DEF Growing, CallType, Again
<1> QED
  BY <1>1, GotoLoopKeeps

LEMMA peek_to_end_read_keeps ==
    ASSUME IInv, peek_to_end_read
    PROVE  IInv'
<1>1. /\ call.pc = "read" /\ call.op = "peek_to_end"
      /\ UNCHANGED <<avail, given, client>> /\ pos' = pos
  BY DEF peek_to_end_read, At, client
<1>2. PICK old \in Nat : Handed(old)
  BY <1>1, HeldIsOld
<1>3. /\ call.out \in Seq(Nat) /\ pos \in Nat /\ "ok" \in Statuses /\ 0 \in Nat
  BY Facts DEF Statuses
<1>4. CASE ReadOk(0) /\ Return("ok", Len(buffer'), call.out)
  <2>1. Whole(old + 0) /\ Len(buffer') = old + 0
    BY <1>1, <1>2, <1>3, <1>4, RecordedWhole DEF given, client
  <2>2. Whole(old) /\ Len(buffer') = old /\ Return("ok", old, call.out)
    <3>1. old + 0 = old
      OBVIOUS
    <3> QED
      BY <1>4, <2>1, <3>1
  <2> QED
    BY <1>3, <2>2, ReturnKeeps
<1>5. CASE \E n \in 1..Room :
            /\ ReadOk(n)
            /\ Again(call.out \o SubSeq(buffer', call.old + 1, call.old + n))
  <2> DEFINE out(n) == call.out \o SubSeq(buffer', call.old + 1, call.old + n)
  <2>1. PICK n \in 1..Room : ReadOk(n) /\ Again(out(n))
    BY <1>5
  <2>2. n \in Nat /\ old + n \in Nat
    OBVIOUS
  <2>3. Whole(old + n) /\ Len(buffer') = old + n
    BY <1>1, <1>2, <2>1, <2>2, RecordedWhole DEF given, client
  <2>4. out(n) = Slice(pos, old + n)
    BY <1>1, <1>2, <2>2, <2>3, CopiedSlice
  <2> HIDE DEF out
  <2>5. out(n) \in Seq(Nat) /\ out(n) = Slice(pos', old + n)
    BY <1>1, <1>3, <2>2, <2>4, SliceFacts
  <2> QED
    BY <1>1, <2>1, <2>3, <2>5, AgainKeeps
<1>6. CASE ReadErr /\ Return("err", 0, call.out)
  BY <1>1, <1>3, <1>6, ReadErrKeeps
<1> QED
  BY <1>4, <1>5, <1>6 DEF peek_to_end_read

LEMMA peek_to_string_read_keeps ==
    ASSUME IInv, peek_to_string_read
    PROVE  IInv'
<1>1. /\ call.pc = "read" /\ call.op = "peek_to_string"
      /\ UNCHANGED <<avail, given, client>>
  BY DEF peek_to_string_read, At
<1>2. PICK old \in Nat : Handed(old)
  BY <1>1, HeldIsOld
<1>3. <<>> \in Seq(Nat) /\ 0 \in Nat
  BY EmptySeq
<1>4. CASE ReadOk(0) /\ Conclude("ok", buffer')
  <2>1. Whole(old + 0) /\ Len(buffer') = old + 0
    BY <1>1, <1>2, <1>3, <1>4, RecordedWhole DEF given, client
  <2>2. buffer' \in Seq(Nat)
    BY <2>1 DEF Whole, Bytes
  <2> QED
    BY <1>4, <2>1, <2>2, ConcludeKeeps
<1>5. CASE \E n \in 1..Room : ReadOk(n) /\ Again(<<>>)
  <2>1. PICK n \in 1..Room : ReadOk(n) /\ Again(<<>>)
    BY <1>5
  <2>2. n \in Nat
    OBVIOUS
  <2>3. Whole(old + n) /\ Len(buffer') = old + n
    BY <1>1, <1>2, <2>1, <2>2, RecordedWhole DEF given, client
  <2> QED
    BY <1>1, <1>3, <2>1, <2>3, AgainKeeps
<1>6. CASE ReadErr /\ Conclude("err", buffer')
  <2>1. Whole(old) /\ Len(buffer') = old
    BY <1>1, <1>2, <1>6, RolledBackWhole DEF given, client
  <2>2. buffer' \in Seq(Nat)
    BY <2>1 DEF Whole, Bytes
  <2> QED
    BY <1>6, <2>1, <2>2, ConcludeKeeps
<1> QED
  BY <1>4, <1>5, <1>6 DEF peek_to_string_read

LEMMA peek_to_interrupted_keeps ==
    ASSUME IInv, peek_to_interrupted
    PROVE  IInv'
<1>1. /\ call.pc = "read" /\ call.op \in {"peek_to_end", "peek_to_string"}
      /\ UNCHANGED <<avail, given, client>> /\ pos' = pos
      /\ ReadErr /\ Again(call.out)
  BY DEF peek_to_interrupted, At, client
<1>2. PICK old \in Nat : Handed(old)
  BY <1>1, HeldIsOld
<1>3. Whole(old) /\ Len(buffer') = old
  BY <1>1, <1>2, RolledBackWhole DEF given, client
<1>4. call.op = "peek_to_end" => call.out = Slice(pos', old)
  BY <1>1, <1>2 DEF IInv, CallIntact, Held, Handed
<1>5. call.out \in Seq(Nat)
  BY Facts
<1> QED
  BY <1>1, <1>3, <1>4, <1>5, AgainKeeps

-----------------------------------------------------------------------------
(* fill_peek_buf. *)

LEMMA fill_peek_buf_keeps ==
    ASSUME IInv, fill_peek_buf
    PROVE  IInv'
<1>1. Idle /\ call.pc # "read" /\ UNCHANGED <<inner, avail, given, client>>
  BY DEF fill_peek_buf, Idle
<1>2. cap \in Nat /\ Len(buffer) \in Nat /\ Len(buffer) <= cap
  BY Facts
<1>3. <<>> \in Seq(Nat) /\ 0 \in Nat
  BY EmptySeq
<1>4. CASE /\ ResizeTo(cap)
           /\ Goto("fill_peek_buf", "read", 0, Len(buffer), <<>>)
           /\ ret' = ret
  <2>1. Whole(Len(buffer))
    BY <1>1, <1>2, <1>4, ResizedWhole DEF inner, given, client
  <2>2. /\ "fill_peek_buf" \in Reading
        /\ "fill_peek_buf" \notin {"peek", "peek_vectored", "peek_exact",
                                   "peek_to_end"}
        /\ "fill_peek_buf" # "peek_exact"
    BY DEF Reading
  <2> QED
    BY <1>2, <1>3, <1>4, <2>1, <2>2, GotoReaderKeeps
<1>5. CASE Answer("fill_peek_buf", "oom", 0, 0, <<>>) /\ UNCHANGED <<storage, call>>
  <2>1. "fill_peek_buf" \in Ops /\ "oom" \in Statuses
    BY DEF Ops, Statuses
  <2> QED
    BY <1>1, <1>3, <1>5, <2>1, AnswerAtOnce
<1> QED
  BY <1>4, <1>5 DEF fill_peek_buf

LEMMA fill_peek_buf_read_keeps ==
    ASSUME IInv, fill_peek_buf_read
    PROVE  IInv'
<1>1. call.pc = "read" /\ UNCHANGED <<avail, given, client>>
  BY DEF fill_peek_buf_read, At
<1>2. PICK old \in Nat : Handed(old)
  BY <1>1, HeldIsOld
<1>3. <<>> \in Seq(Nat) /\ "ok" \in Statuses
  BY EmptySeq DEF Statuses
<1>4. CASE \E n \in 0..Room : ReadOk(n) /\ Return("ok", n, <<>>)
  <2>1. PICK n \in 0..Room : ReadOk(n) /\ Return("ok", n, <<>>)
    BY <1>4
  <2>2. n \in Nat
    OBVIOUS
  <2>3. Whole(old + n) /\ Len(buffer') = old + n
    BY <1>1, <1>2, <2>1, <2>2, RecordedWhole DEF given, client
  <2> QED
    BY <1>3, <2>1, <2>2, <2>3, ReturnKeeps
<1>5. CASE ReadErr /\ Return("err", 0, <<>>)
  BY <1>1, <1>3, <1>5, ReadErrKeeps
<1>6. CASE ReadAgain
  BY <1>1, <1>6, ReadAgainKeeps
<1> QED
  BY <1>4, <1>5, <1>6 DEF fill_peek_buf_read

-----------------------------------------------------------------------------
(* Someone gives the reader a byte. *)
LEMMA Arrive_keeps ==
    ASSUME IInv, Arrive
    PROVE  IInv'
<1>1. /\ avail < N /\ avail' = avail + 1
      /\ UNCHANGED <<inner, given, storage, client, call, ret>>
  BY DEF Arrive
<1>2. avail \in 0..N /\ avail \in Nat /\ ibuf \in Nat /\ ibuf <= avail /\ N \in Nat
  BY Facts, ClientAssumption
<1>3. avail' \in 0..N /\ ibuf' <= avail'
  <2>1. avail + 1 \in 0..N /\ ibuf <= avail + 1
    BY <1>1, <1>2
  <2>2. ibuf' = ibuf /\ avail' = avail + 1
    BY <1>1 DEF inner
  <2> QED
    BY <2>1, <2>2
<1>4. /\ rpos' = rpos /\ ibuf' = ibuf /\ text' = text /\ buf_cap' = buf_cap
      /\ buffer' = buffer /\ cap' = cap /\ pos' = pos /\ lent' = lent
      /\ call' = call /\ ret' = ret
  BY <1>1 DEF inner, given, storage, client
<1>5. Held' = Held
  BY <1>4 DEF Held
<1>6. TypeOK'
  BY <1>3, <1>4 DEF IInv, TypeOK
<1>7. StreamIntact' /\ CallIntact'
  BY <1>4, <1>5 DEF IInv, StreamIntact, CallIntact, Room, At
<1>8. BufReadContract' /\ CapacityKept'
  BY <1>3, <1>4 DEF IInv, BufReadContract, CapacityKept
<1> QED
  BY <1>6, <1>7, <1>8 DEF IInv

(* Initially nothing is peeked and nobody is inside a call. *)
LEMMA InitHolds == Init => IInv
<1> SUFFICES ASSUME Init PROVE IInv
  OBVIOUS
<1>1. /\ rpos = 0 /\ ibuf = 0 /\ avail \in 0..N /\ text \in Texts
      /\ buffer = <<>> /\ buf_cap \in BufCaps /\ cap = FreshCapacity(buf_cap)
      /\ pos = 0 /\ lent = 0 /\ call = Rest /\ ret = NoAnswer
  BY DEF Init, construct
<1>2. buffer \in Seq(Nat) /\ Len(buffer) = 0
  BY <1>1, EmptySeq
<1>3. buf_cap \in Nat \cup {None}
  BY <1>1, ClientAssumption
<1>4. /\ cap \in Nat /\ InlineCap <= cap /\ (buf_cap # None => buf_cap <= cap)
  BY <1>1, <1>3, FreshCapacityFacts
<1>5. call \in CallType /\ call.pc = "idle" /\ call.op = "none"
  BY <1>1, RestTyped
<1>6. ret \in AnswerType
  BY <1>1, EmptySeq DEF NoAnswer, AnswerType, Ops, Statuses, Bytes
<1>7. Held = 0
  BY <1>2, <1>5 DEF Held
<1>8. TypeOK
  BY <1>1, <1>2, <1>4, <1>5, <1>6 DEF TypeOK, Bytes
<1>9. StreamIntact
  BY <1>1, <1>2, <1>7 DEF StreamIntact
<1>10. CallIntact
  BY <1>5 DEF CallIntact, At
<1>11. BufReadContract /\ CapacityKept
  BY <1>1, <1>2, <1>4, ClientAssumption DEF BufReadContract, CapacityKept
<1> QED
  BY <1>8, <1>9, <1>10, <1>11 DEF IInv

(* Every step of every method keeps the invariant. *)
LEMMA NextKeeps ==
    ASSUME IInv, [Next]_vars
    PROVE  IInv'
<1>1. CASE Arrive
  BY <1>1, Arrive_keeps
<1>2. CASE Call
  <2>0. 0..MaxWant \subseteq Nat
    BY ClientAssumption
  <2>1. CASE \E want \in 0..MaxWant : read(want) \/ peek(want) \/ peek_exact(want)
    BY <2>0, <2>1, read_keeps, peek_keeps, peek_exact_keeps
  <2>2. CASE \E len1, len2 \in 0..MaxWant : peek_vectored(len1, len2)
    BY <2>0, <2>2, peek_vectored_keeps
  <2>3. CASE fill_buf
    BY <2>3, fill_buf_keeps
  <2>4. CASE \E amt \in 0..MaxWant : BufRead_consume(amt)
    BY <2>0, <2>4, BufRead_consume_keeps
  <2>5. CASE consume
    BY <2>5, consume_keeps
  <2>6. CASE consume_in_place
    BY <2>6, consume_in_place_keeps
  <2>7. CASE peek_to_end
    BY <2>7, peek_to_end_keeps
  <2>8. CASE peek_to_string
    BY <2>8, peek_to_string_keeps
  <2>9. CASE fill_peek_buf
    BY <2>9, fill_peek_buf_keeps
  <2> QED
    BY <1>2, <2>1, <2>2, <2>3, <2>4, <2>5, <2>6, <2>7, <2>8, <2>9 DEF Call
<1>3. CASE Step
  <2>1. CASE peek_read
    BY <2>1, peek_read_keeps
  <2>2. CASE peek_exact_resize
    BY <2>2, peek_exact_resize_keeps
  <2>3. CASE peek_exact_read
    BY <2>3, peek_exact_read_keeps
  <2>4. CASE grow_peek_buffer
    BY <2>4, grow_peek_buffer_keeps
  <2>5. CASE peek_to_end_read
    BY <2>5, peek_to_end_read_keeps
  <2>6. CASE peek_to_string_read
    BY <2>6, peek_to_string_read_keeps
  <2>7. CASE peek_to_interrupted
    BY <2>7, peek_to_interrupted_keeps
  <2>8. CASE fill_peek_buf_read
    BY <2>8, fill_peek_buf_read_keeps
  <2> QED
    BY <1>3, <2>1, <2>2, <2>3, <2>4, <2>5, <2>6, <2>7, <2>8 DEF Step
<1>4. CASE UNCHANGED vars
  BY <1>4, StutterKeeps
<1> QED
  BY <1>1, <1>2, <1>3, <1>4 DEF Next

-----------------------------------------------------------------------------
(* The inductive invariant holds of every reachable state. *)
THEOREM Invariance == Spec => []IInv
<1>1. Init => IInv
  BY InitHolds
<1>2. IInv /\ [Next]_vars => IInv'
  BY NextKeeps
<1> QED
  BY <1>1, <1>2, PTL DEF Spec

(* The variables keep their types. *)
THEOREM TypeCorrect == Spec => []TypeOK
<1>1. IInv => TypeOK
  BY DEF IInv
<1> QED
  BY <1>1, Invariance, PTL

(* No method, on any path, with any back end and any reader, loses,        *)
(* repeats, reorders or invents a byte.                                    *)
THEOREM NoByteLost == Spec => []StreamIntact
<1>1. IInv => StreamIntact
  BY DEF IInv
<1> QED
  BY <1>1, Invariance, PTL

(* Inside a call the caller's slice mirrors the peek buffer, and the       *)
(* reader is not asked to fill an empty slice.                             *)
THEOREM CallsMirrorBuffer == Spec => []CallIntact
<1>1. IInv => CallIntact
  BY DEF IInv
<1> QED
  BY <1>1, Invariance, PTL

(* BufRead::consume asks of the inner reader only what that has shown. *)
THEOREM ConsumesOnlyShown == Spec => []BufReadContract
<1>1. IInv => BufReadContract
  BY DEF IInv
<1> QED
  BY <1>1, Invariance, PTL

(* The capacity asked for survives every call. *)
THEOREM CapacitySurvives == Spec => []CapacityKept
<1>1. IInv => CapacityKept
  BY DEF IInv
<1> QED
  BY <1>1, Invariance, PTL
-----------------------------------------------------------------------------
(* peek_exact reads into the tail that resize has added, which ends where  *)
(* its caller's slice ends.                                                *)
LEMMA PeekExactReads ==
    ASSUME IInv, At("peek_exact", "read"), NEW n \in Nat, ReadOk(n)
    PROVE  rpos' <= pos + call.want
<1>1. call.pc = "read"
  BY DEF At
<1>2. PICK old \in Nat : Handed(old)
  BY <1>1, HeldIsOld
<1>3. /\ call.old = old /\ rpos = pos + old /\ pos \in Nat
      /\ Len(buffer) = call.want
  BY <1>1, <1>2, Facts DEF Handed, IInv, StreamIntact, CallIntact, Held
<1>4. n <= Len(buffer) - call.old /\ rpos' = rpos + n
  BY DEF ReadOk, MayRead, Advance, Room
<1>5. PICK len \in Nat : len = Len(buffer)
  BY Facts
<1>6. n <= len - old /\ rpos' = pos + old + n /\ call.want = len
  BY <1>3, <1>4, <1>5
<1> QED
  BY <1>3, <1>6

(* No other step of peek_exact moves the reader. *)
LEMMA PeekExactStep ==
    ASSUME IInv, [Next]_vars, call.op = "peek_exact", rpos' # rpos
    PROVE  rpos' <= pos + call.want
<1>1. ~Idle
  BY DEF IInv, CallIntact, Idle
<1>2. CASE Arrive
  BY <1>2 DEF Arrive, inner
<1>3. CASE Call
  BY <1>1, <1>3 DEF Call, read, fill_buf, BufRead_consume, consume,
     consume_in_place, peek, peek_vectored, PeekInto, peek_exact, peek_to_end,
     peek_to_string, fill_peek_buf
<1>4. CASE Step
  <2>1. CASE peek_exact_read
    <3>1. At("peek_exact", "read")
      BY <2>1 DEF peek_exact_read
    <3>2. PICK n \in Nat : ReadOk(n)
      BY <2>1 DEF peek_exact_read, ReadErr, ReadAgain, ReaderFails, inner
    <3> QED
      BY <3>1, <3>2, PeekExactReads
  <2>2. CASE peek_exact_resize
    BY <2>2 DEF peek_exact_resize, inner
  <2> QED
    BY <1>4, <2>1, <2>2 DEF Step, At, peek_read, grow_peek_buffer,
       peek_to_end_read, peek_to_string_read, peek_to_interrupted,
       fill_peek_buf_read
<1>5. CASE UNCHANGED vars
  BY <1>5 DEF vars
<1> QED
  BY <1>2, <1>3, <1>4, <1>5 DEF Next

(* peek_exact takes the reader no further than what it was asked for,      *)
(* however many reads it takes and whatever the back end refuses.          *)
THEOREM PeekExactStops == Spec => PeekExactBounded
<1>1. IInv /\ [Next]_vars
        => [call.op = "peek_exact" /\ rpos' # rpos
              => rpos' <= pos + call.want]_vars
  BY PeekExactStep
<1> QED
  BY <1>1, Invariance, PTL DEF Spec, PeekExactBounded
=============================================================================
