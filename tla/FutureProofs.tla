---------------------------- MODULE FutureProofs ----------------------------
(***************************************************************************)
(* Theorems about FuturePeekable, for every length of stream, every        *)
(* capacity, every bound of the back end, every way the reader answers and *)
(* every way futures are polled, parked and dropped.                       *)
(*                                                                         *)
(* What a poll leaves behind must suit the next poll and, should there be  *)
(* none, the next method.  None of the safety properties is inductive on   *)
(* its own: they need to know, at every point a poll can stand at, how     *)
(* much of the buffer is bytes of the stream and what the future's fields  *)
(* have to do with it.  PollIntact says what the properties leave out.     *)
(***************************************************************************)
EXTENDS FuturePeekable, OperatorProofs

Reading == Peeks \cup Loops \cup {"fill_peek_buf"}
Patient == {"read", "fill_buf", "peek", "peek_vectored"}
Copying == {"peek_exact", "peek_to_end"}

PollIntact ==
    /\ fut.pc = "none" <=> fut.op = "none"
    /\ fut.pc = "ready" => fut.first /\ fut.out = <<>>
    /\ fut.pc = "grow" => fut.op \in Loops
    /\ fut.pc = "read" => fut.op \in Reading
    /\ fut.pc = "enter" /\ fut.op = "peek_exact" =>
         fut.out = <<>> \/ (fut.out = Slice(pos, Held) /\ Held < fut.want)
    /\ fut.pc = "enter" /\ fut.op = "peek_to_end" =>
         fut.first \/ fut.out = Slice(pos, Held)
    /\ fut.pc = "read" /\ fut.op \in Peeks \cup {"peek_exact"} =>
         Len(buffer) = fut.want
    /\ Len(buffer) <= cap

IInv ==
    /\ TypeOK
    /\ StreamIntact
    /\ ProgressIntact
    /\ BufReadContract
    /\ WaitsForSomething
    /\ PollIntact

-----------------------------------------------------------------------------
(* Bytes of the stream. *)

(* What stands where in the stream may be handed to a caller. *)
LEMMA SliceDelivered ==
    ASSUME NEW p \in Nat, NEW n \in Nat, p + n <= N
    PROVE  Slice(p, n) \in Delivered /\ Slice(p, n) \in Seq(0..N)
<1>1. N \in Nat
  BY ReaderAssumption
<1>2. \A i \in 1..n : p + i \in 1..N /\ p + i \in 0..N
  BY <1>1
<1>3. Slice(p, n) \in [1..n -> 1..N] /\ Slice(p, n) \in [1..n -> 0..N]
  BY <1>2 DEF Slice
<1> QED
  BY <1>3, FunctionIsSeq DEF Delivered

LEMMA BytesAreNumbers ==
    ASSUME NEW b, b \in Seq(0..N) \/ b \in Delivered
    PROVE  b \in Seq(Nat) /\ Len(b) \in Nat
<1>1. N \in Nat
  BY ReaderAssumption
<1>2. Len(b) \in Nat /\ b \in [1..Len(b) -> Nat]
  <2>1. CASE b \in Seq(0..N)
    BY <1>1, <2>1, LenProperties, ElementOfSeq
  <2>2. CASE b \in Delivered
    BY <1>1, <2>2, LenProperties, ElementOfSeq DEF Delivered
  <2> QED
    BY <2>1, <2>2
<1> QED
  BY <1>2, FunctionIsSeq

LEMMA NothingDelivered ==
    /\ <<>> \in Delivered /\ <<>> \in Seq(0..N) /\ Len(<<>>) = 0
    /\ \A p : Slice(p, 0) = <<>>
<1>1. <<>> \in Delivered /\ <<>> \in Seq(0..N) /\ Len(<<>>) = 0
  BY EmptySeq DEF Delivered
<1>2. ASSUME NEW p PROVE Slice(p, 0) = <<>>
  <2>1. Slice(p, 0) \in [1..0 -> Nat]
    BY DEF Slice
  <2>2. Slice(p, 0) \in Seq(Nat) /\ Len(Slice(p, 0)) = 0
    BY <2>1, FunctionIsSeq
  <2> QED
    BY <2>2, EmptySeq
<1> QED
  BY <1>1, <1>2

(* resize pads with filler, which is no byte of the stream but a byte. *)
LEMMA ResizeTyped ==
    ASSUME NEW b \in Seq(0..N), NEW len \in Nat
    PROVE  Resize(b, len) \in Seq(0..N)
<1>1. N \in Nat /\ Len(b) \in Nat /\ \A i \in 1..Len(b) : b[i] \in 0..N
  BY ReaderAssumption, LenProperties, ElementOfSeq
<1>2. Resize(b, len) \in [1..len -> 0..N]
  BY <1>1 DEF Resize, Zero
<1> QED
  BY <1>2, FunctionIsSeq

(* consume(..k) of a slice. *)
LEMMA DrainedSlice ==
    ASSUME NEW p \in Nat, NEW n \in Nat, NEW k \in 0..n
    PROVE  Drain(Slice(p, n), k) = Slice(p + k, n - k) /\ n - k \in Nat
<1> DEFINE b == Slice(p, n)
<1>1. b \in Seq(Nat) /\ Len(b) = n /\ \A i \in 1..n : b[i] = p + i
  BY SliceFacts
<1> HIDE DEF b
<1>2. k \in 0..Len(b) /\ n - k \in Nat /\ p + k \in Nat
  BY <1>1
<1>3. /\ Drain(b, k) \in Seq(Nat)
      /\ Len(Drain(b, k)) = n - k
      /\ \A i \in 1..(n - k) : Drain(b, k)[i] = b[k + i]
  BY <1>1, <1>2, DrainFacts
<1>4. ASSUME NEW i \in 1..(n - k) PROVE Drain(b, k)[i] = (p + k) + i
  <2>1. k + i \in 1..n
    OBVIOUS
  <2>2. b[k + i] = p + (k + i)
    BY <1>1, <2>1
  <2> QED
    BY <1>3, <2>2
<1> DEFINE d == Drain(b, k)
<1>5. d \in Seq(Nat) /\ Len(d) = n - k /\ \A i \in 1..Len(d) : d[i] = (p + k) + i
  BY <1>3, <1>4
<1> HIDE DEF d
<1>6. d = Slice(p + k, Len(d))
  BY <1>2, <1>5, IsSlice
<1> QED
  BY <1>2, <1>5, <1>6 DEF d, b

-----------------------------------------------------------------------------
(* The invariant, taken apart. *)

LEMMA Facts ==
    ASSUME IInv
    PROVE  /\ rpos \in Nat /\ ibuf \in Nat /\ avail \in Nat /\ pos \in Nat
           /\ lent \in Nat /\ cap \in Nat /\ N \in Nat /\ avail \in 0..N
           /\ closed \in BOOLEAN /\ armed \in BOOLEAN /\ woken \in BOOLEAN
           /\ text \in Texts /\ buf_cap \in BufCaps
           /\ buffer \in Seq(0..N) /\ buffer \in Seq(Nat) /\ Len(buffer) \in Nat
           /\ Len(buffer) <= cap
           /\ rpos <= ibuf /\ ibuf <= avail /\ pos + lent <= ibuf
           /\ fut \in FutureType /\ ret \in AnswerType
           /\ fut.op \in Ops /\ fut.want \in Nat /\ fut.old \in Nat
           /\ fut.first \in BOOLEAN /\ fut.out \in Delivered
<1>1. TypeOK /\ BufReadContract /\ PollIntact
  BY DEF IInv
<1>2. buffer \in Seq(Nat) /\ Len(buffer) \in Nat
  BY <1>1, BytesAreNumbers DEF TypeOK
<1>3. /\ rpos \in Nat /\ ibuf \in Nat /\ avail \in Nat /\ pos \in Nat
      /\ lent \in Nat /\ cap \in Nat /\ N \in Nat /\ avail \in 0..N
  BY <1>1, ReaderAssumption DEF TypeOK, ReaderTypeOK
<1>4. /\ closed \in BOOLEAN /\ armed \in BOOLEAN /\ woken \in BOOLEAN
      /\ text \in Texts /\ buf_cap \in BufCaps /\ buffer \in Seq(0..N)
      /\ fut \in FutureType /\ ret \in AnswerType
  BY <1>1 DEF TypeOK, ReaderTypeOK
<1>5. /\ fut.op \in Ops /\ fut.want \in Nat /\ fut.old \in Nat
      /\ fut.first \in BOOLEAN /\ fut.out \in Delivered
  BY <1>4 DEF FutureType
<1> QED
  BY <1>1, <1>2, <1>3, <1>4, <1>5 DEF BufReadContract, PollIntact

(* Unless the reader is being asked, the buffer is what comes next. *)
LEMMA AllPeeked ==
    ASSUME IInv, fut.pc # "read"
    PROVE  \E len \in Nat :
             /\ Held = len /\ Len(buffer) = len
             /\ buffer = Slice(pos, len)
             /\ rpos = pos + len
<1>1. Held = Len(buffer)
  BY DEF Held
<1>2. rpos = pos + Len(buffer) /\ \A i \in 1..Len(buffer) : buffer[i] = pos + i
  BY <1>1 DEF IInv, StreamIntact
<1>3. buffer = Slice(pos, Len(buffer))
  BY <1>2, Facts, IsSlice
<1> QED
  BY <1>1, <1>2, <1>3, Facts

(* While it is, the first fut.old bytes are; the rest is for the reader.  *)
(* (Names for the fields that are numbers: the provers do not do          *)
(* arithmetic with fields of records.)                                    *)
LEMMA Asking ==
    ASSUME IInv, fut.pc = "read"
    PROVE  \E old \in Nat, len \in Nat :
             /\ fut.old = old /\ Held = old /\ Len(buffer) = len
             /\ old < len /\ Room = len - old
             /\ rpos = pos + old
             /\ \A i \in 1..old : buffer[i] = pos + i
<1>1. PICK old \in Nat : old = fut.old
  BY Facts
<1>2. PICK len \in Nat : len = Len(buffer)
  BY Facts
<1>3. Held = old
  BY <1>1 DEF Held
<1>4. rpos = pos + old /\ \A i \in 1..old : buffer[i] = pos + i
  BY <1>3 DEF IInv, StreamIntact
<1>5. Room = len - old
  BY <1>1, <1>2 DEF Room
<1>6. len - old > 0
  BY <1>5 DEF IInv, ProgressIntact
<1>7. old < len
  BY <1>6
<1> QED
  BY <1>1, <1>2, <1>3, <1>4, <1>5, <1>7

-----------------------------------------------------------------------------
(* What a step leaves in the wrapper: held bytes of the stream in a buffer *)
(* of len bytes, and cursors that agree.                                   *)

Cursors(held, len) ==
    /\ held \in Nat /\ len \in Nat /\ held <= len
    /\ pos' \in Nat /\ rpos' = pos' + held
    /\ ibuf' \in Nat /\ rpos' <= ibuf' /\ ibuf' <= avail' /\ avail' \in 0..N
    /\ lent' \in Nat /\ pos' + lent' <= ibuf'
    /\ closed' \in BOOLEAN /\ armed' \in BOOLEAN /\ woken' \in BOOLEAN
    /\ text' = text /\ buf_cap' = buf_cap
    /\ cap' \in Nat /\ len <= cap'

Offered(held, len) ==
    /\ Cursors(held, len)
    /\ buffer' \in Seq(0..N) /\ Len(buffer') = len
    /\ \A i \in 1..held : buffer'[i] = pos' + i

Whole(held) == Cursors(held, held) /\ buffer' = Slice(pos', held)

LEMMA WholeIsOffered ==
    ASSUME NEW held, Whole(held)
    PROVE  Offered(held, held)
<1>1. PICK p \in Nat : p = pos'
  BY DEF Whole, Cursors
<1>2. PICK e \in Nat : e = ibuf'
  BY DEF Whole, Cursors
<1>3. held \in Nat /\ p + held <= e /\ e <= N
  <2>1. /\ held \in Nat /\ rpos' = p + held /\ rpos' <= e /\ e <= avail'
        /\ avail' \in 0..N
    BY <1>1, <1>2 DEF Whole, Cursors
  <2> QED
    BY <2>1, ReaderAssumption
<1>4. p + held <= N
  BY <1>3, ReaderAssumption
<1>5. Slice(p, held) \in Seq(0..N)
  BY <1>3, <1>4, SliceDelivered
<1>6. Len(Slice(p, held)) = held /\ \A i \in 1..held : Slice(p, held)[i] = p + i
  BY <1>3, SliceFacts
<1> QED
  BY <1>1, <1>5, <1>6 DEF Whole, Offered

(* Such a step keeps the invariant when the future, and the answer, fit. *)
LEMMA Kept ==
    ASSUME IInv, NEW held, NEW len, Offered(held, len),
           Held' = held, fut' \in FutureType, ret' \in AnswerType,
           ProgressIntact', WaitsForSomething',
           fut'.pc = "none" <=> fut'.op = "none",
           fut'.pc = "ready" => fut'.first /\ fut'.out = <<>>,
           fut'.pc = "grow" => fut'.op \in Loops,
           fut'.pc = "read" => fut'.op \in Reading,
           fut'.pc = "enter" /\ fut'.op = "peek_exact" =>
             fut'.out = <<>> \/ (fut'.out = Slice(pos', held) /\ held < fut'.want),
           fut'.pc = "enter" /\ fut'.op = "peek_to_end" =>
             fut'.first \/ fut'.out = Slice(pos', held),
           fut'.pc = "read" /\ fut'.op \in Peeks \cup {"peek_exact"} =>
             len = fut'.want
    PROVE  IInv'
<1>1. TypeOK'
  <2>1. /\ rpos' \in Nat /\ ibuf' \in Nat /\ avail' \in 0..N
        /\ closed' \in BOOLEAN /\ armed' \in BOOLEAN /\ woken' \in BOOLEAN
    <3>1. PICK p \in Nat : p = pos'
      BY DEF Offered, Cursors
    <3>2. held \in Nat /\ rpos' = p + held
      BY <3>1 DEF Offered, Cursors
    <3>3. rpos' \in Nat
      BY <3>2
    <3> QED
      BY <3>3 DEF Offered, Cursors
  <2>2. text' \in Texts /\ buf_cap' \in BufCaps
    BY Facts DEF Offered, Cursors
  <2>3. buffer' \in Seq(0..N) /\ cap' \in Nat /\ pos' \in Nat /\ lent' \in Nat
    BY DEF Offered, Cursors
  <2> QED
    BY <2>1, <2>2, <2>3 DEF TypeOK, ReaderTypeOK
<1>2. StreamIntact'
  BY DEF StreamIntact, Offered, Cursors
<1>3. BufReadContract'
  BY DEF BufReadContract, Offered, Cursors
<1>4. Len(buffer') <= cap' /\ Len(buffer') = len
  BY DEF Offered, Cursors
<1>5. PollIntact'
  BY <1>4 DEF PollIntact
<1> QED
  BY <1>1, <1>2, <1>3, <1>5 DEF IInv

-----------------------------------------------------------------------------
(* What a step does to the future. *)

LEMMA NoFutureTyped ==
    NoFuture \in FutureType /\ NoFuture.pc = "none" /\ NoFuture.op = "none"
BY NothingDelivered DEF NoFuture, FutureType, Ops

(* There is none when the step has been made. *)
LEMMA FreeKeeps ==
    ASSUME IInv, NEW held, Whole(held), ret' \in AnswerType,
           fut' \in FutureType, fut'.pc = "none", fut'.op = "none"
    PROVE  IInv'
<1>1. Offered(held, held) /\ Len(buffer') = held
  BY WholeIsOffered DEF Offered
<1>2. Held' = held
  BY <1>1 DEF Held
<1>3. ProgressIntact' /\ WaitsForSomething'
  BY DEF ProgressIntact, WaitsForSomething
<1> QED
  BY <1>1, <1>2, <1>3, Kept

LEMMA AnswerTyped ==
    ASSUME NEW op \in Ops, NEW st \in Statuses, NEW want \in Nat, NEW n \in Nat,
           NEW out \in Delivered, Answer(op, st, want, n, out)
    PROVE  ret' \in AnswerType
BY DEF Answer, AnswerType

LEMMA ReadyKeeps ==
    ASSUME IInv, NEW held, Whole(held),
           NEW st \in Statuses, NEW n \in Nat, NEW out \in Delivered,
           Ready(st, n, out)
    PROVE  IInv'
<1>1. ret' \in AnswerType
  BY Facts, AnswerTyped DEF Ready
<1>2. fut' \in FutureType /\ fut'.pc = "none" /\ fut'.op = "none"
  BY NoFutureTyped DEF Ready
<1> QED
  BY <1>1, <1>2, FreeKeeps

(* A method that is no future answers. *)
LEMMA AnswerKeeps ==
    ASSUME IInv, Free, fut' = fut, NEW held, Whole(held),
           NEW op \in Ops, NEW st \in Statuses, NEW want \in Nat, NEW n \in Nat,
           NEW out \in Delivered, Answer(op, st, want, n, out)
    PROVE  IInv'
<1>1. ret' \in AnswerType
  BY AnswerTyped
<1>2. fut' \in FutureType /\ fut'.pc = "none" /\ fut'.op = "none"
  BY Facts DEF Free, IInv, PollIntact
<1> QED
  BY <1>1, <1>2, FreeKeeps

LEMMA PendingFields ==
    ASSUME IInv, Pending
    PROVE  /\ fut' \in FutureType /\ ret' \in AnswerType
           /\ fut'.pc = "parked" /\ fut'.op = fut.op /\ fut'.want = fut.want
           /\ fut'.old = fut.old /\ fut'.out = fut.out /\ fut'.first = fut.first
<1>1. fut \in FutureType /\ ret \in AnswerType
  BY Facts
<1> QED
  BY <1>1 DEF Pending, FutureType

LEMMA PendingKeeps ==
    ASSUME IInv, Pending, NEW held, Whole(held), fut.op # "none",
           fut.op \in Patient => held = 0,
           fut.op \in Copying => fut.out = Slice(pos', held),
           fut.op = "peek_exact" => held < fut.want,
           fut.op = "fill_peek_buf" => fut.old = held /\ fut.want = cap'
    PROVE  IInv'
<1>1. Offered(held, held) /\ Len(buffer') = held
  BY WholeIsOffered DEF Offered
<1>2. /\ fut' \in FutureType /\ ret' \in AnswerType
      /\ fut'.pc = "parked" /\ fut'.op = fut.op /\ fut'.want = fut.want
      /\ fut'.old = fut.old /\ fut'.out = fut.out
  BY PendingFields
<1>3. Held' = held
  BY <1>1, <1>2 DEF Held
<1>4. ProgressIntact'
  BY <1>2, <1>3 DEF ProgressIntact, Copying
<1>5. held = 0 => buffer' = <<>>
  BY NothingDelivered DEF Whole
<1>6. WaitsForSomething'
  BY <1>1, <1>2, <1>5 DEF WaitsForSomething, Patient
<1> QED
  BY <1>1, <1>2, <1>3, <1>4, <1>6, Kept

LEMMA ContinueFields ==
    ASSUME IInv, NEW pc \in {"grow", "read"}, NEW old \in Nat,
           NEW out \in Delivered, Continue(pc, old, out)
    PROVE  /\ fut' \in FutureType /\ ret' \in AnswerType
           /\ fut'.pc = pc /\ fut'.op = fut.op /\ fut'.want = fut.want
           /\ fut'.old = old /\ fut'.out = out
<1>1. fut \in FutureType /\ ret \in AnswerType
  BY Facts
<1> QED
  BY <1>1 DEF Continue, FutureType

LEMMA GrowKeeps ==
    ASSUME IInv, NEW held, Whole(held), fut.op \in Loops,
           NEW out \in Delivered, Continue("grow", 0, out),
           fut.op \in Copying => out = Slice(pos', held),
           fut.op = "peek_exact" => held < fut.want
    PROVE  IInv'
<1>1. Offered(held, held) /\ Len(buffer') = held
  BY WholeIsOffered DEF Offered
<1>2. /\ fut' \in FutureType /\ ret' \in AnswerType
      /\ fut'.pc = "grow" /\ fut'.op = fut.op /\ fut'.want = fut.want
      /\ fut'.out = out
  BY ContinueFields
<1>3. Held' = held
  BY <1>1, <1>2 DEF Held
<1>4. ProgressIntact'
  BY <1>2, <1>3 DEF ProgressIntact, Copying, Loops, Wholes
<1>5. WaitsForSomething'
  BY <1>2 DEF WaitsForSomething
<1>6. fut.op # "none"
  BY DEF Loops, Wholes
<1> QED
  BY <1>1, <1>2, <1>3, <1>4, <1>5, <1>6, Kept

LEMMA AskKeeps ==
    ASSUME IInv, NEW old, NEW len, Offered(old, len), old < len,
           fut.op \in Reading, NEW out \in Delivered, Continue("read", old, out),
           fut.op \in Copying => out = Slice(pos', old),
           fut.op = "peek_exact" => old < fut.want,
           fut.op \in Peeks \cup {"peek_exact"} => len = fut.want,
           fut.op = "fill_peek_buf" => fut.want = cap'
    PROVE  IInv'
<1>1. old \in Nat /\ len \in Nat /\ Len(buffer') = len
  BY DEF Offered, Cursors
<1>2. /\ fut' \in FutureType /\ ret' \in AnswerType
      /\ fut'.pc = "read" /\ fut'.op = fut.op /\ fut'.want = fut.want
      /\ fut'.old = old /\ fut'.out = out
  BY <1>1, ContinueFields
<1>3. Held' = old /\ Room' = len - old
  BY <1>1, <1>2 DEF Held, Room
<1>4. len - old > 0
  BY <1>1
<1>5. ProgressIntact'
  BY <1>2, <1>3, <1>4 DEF ProgressIntact, Copying
<1>6. WaitsForSomething'
  BY <1>2 DEF WaitsForSomething
<1>7. fut.op # "none"
  BY DEF Reading, Peeks, Loops, Wholes
<1> QED
  BY <1>1, <1>2, <1>3, <1>5, <1>6, <1>7, Kept

-----------------------------------------------------------------------------
(* What a step does to the buffer and the cursors. *)

Untouched == UNCHANGED <<far, given, client>>
WakerTyped == armed' \in BOOLEAN /\ woken' \in BOOLEAN

LEMMA WakerKept ==
    ASSUME IInv, UNCHANGED waking \/ ReaderPends \/ ReaderFails
    PROVE  WakerTyped
<1>1. armed \in BOOLEAN /\ woken \in BOOLEAN
  BY Facts
<1>2. CASE UNCHANGED waking
  BY <1>1, <1>2 DEF waking, WakerTyped
<1>3. CASE ReaderFails
  BY <1>1, <1>3 DEF waking, ReaderFails, WakerTyped
<1>4. CASE ReaderPends
  BY <1>1, <1>4 DEF ReaderPends, WakerTyped
<1> QED
  BY <1>2, <1>3, <1>4

(* The reader and the buffer are left alone. *)
LEMMA QuietWhole ==
    ASSUME IInv, fut.pc # "read", Untouched, WakerTyped,
           UNCHANGED <<inner, storage>>
    PROVE  Whole(Len(buffer)) /\ cap' = cap
<1>1. PICK len \in Nat : /\ Len(buffer) = len /\ buffer = Slice(pos, len)
                         /\ rpos = pos + len
  BY AllPeeked
<1>2. Cursors(len, len)
  BY <1>1, Facts
  DEF Cursors, Untouched, WakerTyped, inner, storage, far, given, client
<1> QED
  BY <1>1, <1>2 DEF Whole, storage, Untouched, client

(* resize: the bytes of the stream stay in front. *)
LEMMA ResizedOffered ==
    ASSUME IInv, fut.pc # "read", Untouched, UNCHANGED <<inner, waking>>,
           NEW len \in Nat, Len(buffer) <= len, ResizeTo(len)
    PROVE  /\ Offered(Len(buffer), len) /\ len <= cap'
           /\ len <= cap => cap' = cap
<1>1. PICK held \in Nat : /\ Len(buffer) = held /\ rpos = pos + held
                          /\ \A i \in 1..held : buffer[i] = pos + i
  BY AllPeeked DEF IInv, StreamIntact
<1>2. buffer' = Resize(buffer, len) /\ cap' \in Allocate(cap, len)
  BY DEF ResizeTo
<1>3. /\ buffer' \in Seq(0..N) /\ Len(buffer') = len
      /\ \A i \in 1..len : i <= held => buffer'[i] = buffer[i]
  BY <1>1, <1>2, Facts, ResizeTyped, ResizeFacts
<1>4. cap' \in Nat /\ len <= cap'
  BY <1>2, Facts, AllocateFacts
<1>5. len <= cap => cap' = cap
  BY <1>2 DEF Allocate
<1>6. Cursors(held, len)
  BY <1>1, <1>4, Facts DEF Cursors, Untouched, inner, waking, far, given, client
<1>7. \A i \in 1..held : buffer'[i] = pos + i
  <2> TAKE i \in 1..held
  <2>1. i \in 1..len /\ i <= held
    BY <1>1
  <2> QED
    BY <1>1, <1>3, <2>1
<1> QED
  BY <1>1, <1>3, <1>4, <1>5, <1>6, <1>7 DEF Offered, Untouched, client

(* The bytes held before the reader was asked. *)
Had(old) == fut.old = old

(* Ready(Ok(n)): the n bytes the reader handed out are in the buffer,      *)
(* behind those that were there, and nothing else is.                      *)
LEMMA RecordedWhole ==
    ASSUME IInv, fut.pc = "read", Untouched,
           NEW old \in Nat, Had(old), NEW n \in Nat, ReadOk(n)
    PROVE  /\ Whole(old + n) /\ Len(buffer') = old + n
           /\ old + n <= Len(buffer)
           /\ rpos' = rpos + n /\ rpos' <= avail
           /\ pos' = pos /\ cap' = cap
<1>1. PICK len \in Nat : /\ Len(buffer) = len /\ old < len /\ Room = len - old
                         /\ rpos = pos + old
                         /\ \A i \in 1..old : buffer[i] = pos + i
  BY Asking DEF Had
<1>2. /\ pos \in Nat /\ ibuf \in Nat /\ avail \in Nat /\ lent \in Nat
      /\ cap \in Nat /\ len <= cap /\ buffer \in Seq(Nat)
      /\ ibuf <= avail /\ pos + lent <= ibuf
  BY <1>1, Facts
<1>3. PICK r \in Nat : r = pos + old
  BY <1>2
<1>4. n <= Room /\ r + n <= avail
  BY <1>1, <1>3 DEF ReadOk, MayRead
<1>5. old + n <= len /\ old + n \in Nat /\ old + n <= cap
  BY <1>1, <1>2, <1>4
<1>6. /\ rpos' = r + n /\ ibuf' = Larger(ibuf, r + n)
      /\ armed' = armed /\ woken' = woken /\ cap' = cap
      /\ buffer' = Truncate(Store(buffer, old, pos + old, n), old + n)
  BY <1>1, <1>3 DEF ReadOk, Advance, waking, Had
<1> DEFINE b == Truncate(Store(buffer, old, pos + old, n), old + n)
<1>7. b \in Seq(Nat) /\ Len(b) = old + n /\ \A i \in 1..(old + n) : b[i] = pos + i
  <2>1. buffer \in Seq(Nat) /\ pos \in Nat /\ old + n <= Len(buffer)
    BY <1>1, <1>2, <1>5
  <2>2. \A i \in 1..old : buffer[i] = pos + i
    BY <1>1
  <2> QED
    BY <2>1, <2>2, RecordedFacts, ZenonT(60)
<1> HIDE DEF b
<1>8. b = Slice(pos, old + n)
  BY <1>2, <1>7, IsSlice
<1>9. buffer' = Slice(pos, old + n)
  BY <1>6, <1>8 DEF b
<1>10. /\ Larger(ibuf, r + n) \in Nat /\ r + n <= Larger(ibuf, r + n)
       /\ ibuf <= Larger(ibuf, r + n) /\ Larger(ibuf, r + n) <= avail
  BY <1>2, <1>4 DEF Larger
<1>11. PICK e \in Nat : e = ibuf' /\ r + n <= e /\ ibuf <= e /\ e <= avail
  BY <1>6, <1>10
<1>12. pos + lent <= e /\ r + n = pos + (old + n)
  BY <1>2, <1>3, <1>11
<1>13. Cursors(old + n, old + n)
  BY <1>2, <1>5, <1>6, <1>11, <1>12, Facts
  DEF Cursors, Untouched, far, given, client
<1>14. rpos' = rpos + n /\ rpos' <= avail
  BY <1>1, <1>3, <1>4, <1>6
<1> QED
  BY <1>1, <1>5, <1>6, <1>7, <1>9, <1>13, <1>14
  DEF Whole, b, Untouched, client

(* Pending, Err, and Interrupted where it takes the growth back. *)
LEMMA RolledBackWhole ==
    ASSUME IInv, fut.pc = "read", Untouched, UNCHANGED inner, WakerTyped,
           NEW old \in Nat, Had(old), RollBack
    PROVE  Whole(old) /\ Len(buffer') = old /\ pos' = pos /\ cap' = cap
<1>1. PICK len \in Nat : /\ Len(buffer) = len /\ old < len
                         /\ rpos = pos + old
                         /\ \A i \in 1..old : buffer[i] = pos + i
  BY Asking DEF Had
<1>2. buffer \in Seq(Nat) /\ pos \in Nat /\ old <= Len(buffer)
  BY <1>1, Facts
<1>3. buffer' = Truncate(buffer, old) /\ cap' = cap
  BY DEF RollBack, Had
<1>4. /\ buffer' \in Seq(Nat) /\ Len(buffer') = old
      /\ \A i \in 1..old : buffer'[i] = pos + i
  BY <1>1, <1>2, <1>3, RolledBackFacts, ZenonT(60)
<1>5. PICK b : b = buffer'
  OBVIOUS
<1>6. b = Slice(pos, old)
  BY <1>2, <1>4, <1>5, IsSlice
<1>7. old <= cap
  BY <1>1, Facts
<1>8. Cursors(old, old)
  BY <1>1, <1>3, <1>7, Facts
  DEF Cursors, Untouched, WakerTyped, inner, far, given, client
<1> QED
  BY <1>3, <1>4, <1>5, <1>6, <1>8 DEF Whole, Untouched, client

-----------------------------------------------------------------------------
(* The far end, the executor, and the methods that make a future. *)

LEMMA Far_keeps ==
    ASSUME IInv, Arrive \/ Close
    PROVE  IInv'
<1>1. UNCHANGED <<inner, given, storage, client, fut, ret>>
  BY DEF Arrive, Close
<1>2. /\ armed \in BOOLEAN /\ woken \in BOOLEAN /\ closed \in BOOLEAN
      /\ avail \in 0..N /\ avail \in Nat /\ N \in Nat /\ ibuf \in Nat
      /\ ibuf <= avail
  BY Facts
<1>3. avail' \in 0..N /\ closed' \in BOOLEAN /\ ibuf <= avail'
  <2>1. CASE Arrive
    BY <1>2, <2>1 DEF Arrive, Send
  <2>2. CASE Close
    BY <1>2, <2>2 DEF Close, HangUp
  <2> QED
    BY <2>1, <2>2
<1>4. armed' \in BOOLEAN /\ woken' \in BOOLEAN
  BY <1>2 DEF Arrive, Close, Send, HangUp, Wake
<1>5. TypeOK'
  BY <1>1, <1>3, <1>4 DEF IInv, TypeOK, ReaderTypeOK, inner, given, storage, client
<1>6. BufReadContract'
  BY <1>1, <1>3 DEF IInv, BufReadContract, inner, client
<1>7. StreamIntact' /\ ProgressIntact' /\ WaitsForSomething' /\ PollIntact'
  BY <1>1 DEF IInv, StreamIntact, ProgressIntact, WaitsForSomething, PollIntact,
              Held, Room, inner, storage, client
<1> QED
  BY <1>5, <1>6, <1>7 DEF IInv

LEMMA poll_keeps ==
    ASSUME IInv, poll
    PROVE  IInv'
<1>1. /\ fut.pc \in {"ready", "parked"}
      /\ fut' = [fut EXCEPT !.pc = "enter"] /\ ret' = ret
      /\ UNCHANGED <<inner, far, given, storage, client>>
      /\ armed' = armed /\ woken' = FALSE
  BY DEF poll, Suspended
<1>2. fut.pc # "read" /\ fut.pc # "none"
  BY <1>1
<1>3. Untouched /\ WakerTyped
  BY <1>1, Facts DEF Untouched, WakerTyped
<1>4. PICK len \in Nat : Held = len /\ Len(buffer) = len /\ Whole(len) /\ cap' = cap
  BY <1>1, <1>2, <1>3, AllPeeked, QuietWhole
<1>5. Offered(len, len) /\ Len(buffer') = len /\ pos' = pos
  BY <1>1, <1>4, WholeIsOffered DEF Offered, client
<1>6. /\ fut' \in FutureType /\ ret' \in AnswerType /\ fut'.pc = "enter"
      /\ fut'.op = fut.op /\ fut'.want = fut.want /\ fut'.old = fut.old
      /\ fut'.out = fut.out /\ fut'.first = fut.first
  BY <1>1, Facts DEF FutureType
<1>7. Held' = len
  BY <1>5, <1>6 DEF Held
<1>8. ProgressIntact' /\ WaitsForSomething'
  BY <1>4, <1>6, <1>7 DEF ProgressIntact, WaitsForSomething, IInv
<1>9. fut.op # "none"
  BY <1>2 DEF IInv, PollIntact
<1>10. fut.op = "peek_exact" =>
         fut.out = <<>> \/ (fut.out = Slice(pos, len) /\ len < fut.want)
  BY <1>1, <1>4 DEF IInv, PollIntact, ProgressIntact
<1>11. fut.op = "peek_to_end" => fut.first \/ fut.out = Slice(pos, len)
  BY <1>1, <1>4 DEF IInv, PollIntact, ProgressIntact
<1> QED
  BY <1>5, <1>6, <1>7, <1>8, <1>9, <1>10, <1>11, Kept

LEMMA drop_future_keeps ==
    ASSUME IInv, drop_future
    PROVE  IInv'
<1>1. /\ fut.pc # "read" /\ fut' = NoFuture /\ ret' = ret
      /\ UNCHANGED <<inner, far, waking, given, storage, client>>
  BY DEF drop_future, Suspended
<1>2. Untouched /\ WakerTyped
  BY <1>1, WakerKept DEF Untouched
<1>3. Whole(Len(buffer))
  BY <1>1, <1>2, QuietWhole
<1> QED
  BY <1>1, <1>3, Facts, NoFutureTyped, FreeKeeps

LEMMA Create_keeps ==
    ASSUME IInv, NEW op \in Ops \ {"none"}, NEW want \in Nat, NEW old \in Nat,
           Create(op, want, old),
           op = "fill_peek_buf" => want = cap /\ old = Len(buffer)
    PROVE  IInv'
<1>1. /\ fut.pc = "none" /\ ret' = ret
      /\ fut' = [NoFuture EXCEPT !.op = op, !.pc = "ready", !.want = want,
                                 !.old = old]
      /\ UNCHANGED <<inner, far, waking, given, storage, client>>
  BY DEF Create, Free
<1>2. Untouched /\ WakerTyped
  BY <1>1, WakerKept DEF Untouched
<1>3. PICK len \in Nat : Len(buffer) = len /\ Whole(len) /\ cap' = cap
  BY <1>1, <1>2, AllPeeked, QuietWhole
<1>4. Offered(len, len) /\ Len(buffer') = len
  BY <1>3, WholeIsOffered DEF Offered
<1>5. fut' = [op |-> op, pc |-> "ready", want |-> want, old |-> old,
              first |-> TRUE, out |-> <<>>]
  BY <1>1 DEF NoFuture
<1>6. /\ fut' \in FutureType /\ fut'.pc = "ready" /\ fut'.op = op
      /\ fut'.want = want /\ fut'.old = old /\ fut'.first /\ fut'.out = <<>>
  BY <1>5, NothingDelivered DEF FutureType
<1>7. Held' = len
  BY <1>4, <1>6 DEF Held
<1>8. ProgressIntact' /\ WaitsForSomething'
  BY <1>3, <1>6, <1>7 DEF ProgressIntact, WaitsForSomething
<1>9. ret' \in AnswerType
  BY <1>1, Facts
<1> QED
  BY <1>4, <1>6, <1>7, <1>8, <1>9, Kept

LEMMA Creation_keeps ==
    ASSUME IInv,
           \/ \E want \in 0..MaxWant : read(want) \/ peek(want) \/ peek_exact(want)
           \/ \E len1, len2 \in 0..MaxWant : peek_vectored(len1, len2)
           \/ fill_buf \/ peek_to_end \/ peek_to_string \/ fill_peek_buf
    PROVE  IInv'
<1>1. cap \in Nat /\ Len(buffer) \in Nat /\ 0..MaxWant \subseteq Nat
  BY Facts
<1>2. ASSUME NEW want \in Nat,
             read(want) \/ peek(want) \/ peek_exact(want)
             \/ Create("peek_vectored", want, 0)
      PROVE  IInv'
  BY <1>2, Create_keeps DEF read, peek, peek_exact, Ops
<1>3. ASSUME NEW len1 \in 0..MaxWant, NEW len2 \in 0..MaxWant,
             peek_vectored(len1, len2)
      PROVE  IInv'
  BY <1>1, <1>2, <1>3 DEF peek_vectored
<1>4. CASE fill_buf \/ peek_to_end \/ peek_to_string
  BY <1>4, Create_keeps DEF fill_buf, peek_to_end, peek_to_string, Ops
<1>5. CASE fill_peek_buf
  BY <1>1, <1>5, Create_keeps DEF fill_peek_buf, Ops
<1> QED
  BY <1>1, <1>2, <1>3, <1>4, <1>5

-----------------------------------------------------------------------------
(* The consuming calls. *)

LEMMA FrontIsNext ==
    ASSUME IInv, fut.pc # "read", NEW k \in Nat, k <= Len(buffer)
    PROVE  /\ SubSeq(buffer, 1, k) = Slice(pos, k)
           /\ Slice(pos, k) \in Delivered
           /\ Drain(buffer, k) = Slice(pos + k, Len(buffer) - k)
           /\ Len(buffer) - k \in Nat
<1>1. PICK len \in Nat : /\ Len(buffer) = len /\ buffer = Slice(pos, len)
                         /\ rpos = pos + len
  BY AllPeeked
<1>2. PICK p \in Nat : p = pos
  BY Facts
<1>3. k \in 0..len /\ p + k <= N
  <2>1. rpos = p + len /\ rpos <= N
    BY <1>1, <1>2, Facts
  <2> QED
    BY <1>1, <2>1, Facts
<1>4. SubSeq(Slice(p, len), 1, k) = Slice(p, k)
  BY <1>3, SliceFront
<1>5. Drain(Slice(p, len), k) = Slice(p + k, len - k) /\ len - k \in Nat
  BY <1>3, DrainedSlice
<1>6. Slice(p, k) \in Delivered
  BY <1>3, SliceDelivered
<1> QED
  BY <1>1, <1>2, <1>4, <1>5, <1>6

(* The first k bytes of the buffer go to the consumer. *)
LEMMA DrainedWhole ==
    ASSUME IInv, fut.pc # "read", NEW k \in Nat, k <= Len(buffer),
           buffer' = Drain(buffer, k), pos' = pos + k,
           UNCHANGED <<inner, far, waking, given, cap>>,
           NEW l \in Nat, lent' = l, (pos + k) + l <= ibuf
    PROVE  Whole(Len(buffer) - k)
<1>1. PICK len \in Nat : Len(buffer) = len /\ rpos = pos + len
  BY AllPeeked
<1>2. PICK m \in Nat : /\ m = len - k
                       /\ buffer' = Slice(pos + k, m)
  BY <1>1, FrontIsNext
<1>3. PICK p \in Nat : p = pos + k /\ rpos = p + m
  <2>1. pos \in Nat /\ pos + k \in Nat
    BY Facts
  <2>2. rpos = (pos + k) + m
    BY <1>1, <1>2, <2>1
  <2> QED
    BY <2>1, <2>2
<1>4. m <= cap
  BY <1>1, <1>2, Facts
<1>5. Cursors(m, m)
  BY <1>3, <1>4, Facts DEF Cursors, inner, far, waking, given
<1> QED
  BY <1>1, <1>2, <1>5 DEF Whole

(* Nothing peeked is left: the two cursors meet. *)
LEMMA EmptiedWhole ==
    ASSUME IInv, buffer' = <<>>,
           NEW p \in Nat, pos' = p, rpos' = p,
           NEW e \in Nat, ibuf' = e, p <= e, e <= avail,
           NEW l \in Nat, lent' = l, p + l <= e,
           NEW c \in Nat, cap' = c, WakerTyped, UNCHANGED <<far, given>>
    PROVE  Whole(0)
<1>1. p = p + 0
  OBVIOUS
<1>2. Cursors(0, 0)
  BY <1>1, Facts DEF Cursors, WakerTyped, far, given
<1> QED
  BY <1>2, NothingDelivered DEF Whole

LEMMA BufRead_consume_keeps ==
    ASSUME IInv, NEW amt \in Nat, BufRead_consume(amt)
    PROVE  IInv'
<1>1. /\ Free /\ fut.pc # "read" /\ fut' = fut /\ amt <= lent
      /\ buffer' = Drain(buffer, FromBuffer(amt))
      /\ rpos' = rpos + (amt - FromBuffer(amt))
      /\ pos' = pos + amt /\ lent' = lent - amt
      /\ Answer("BufRead_consume", "ok", amt, 0, <<>>)
      /\ UNCHANGED <<ibuf, far, waking, given, cap>>
  BY DEF BufRead_consume, Free
<1>2. PICK len \in Nat : Len(buffer) = len /\ rpos = pos + len
  BY <1>1, AllPeeked
<1>3. PICK l \in Nat : l = lent - amt /\ (pos + amt) + l <= ibuf
  <2>1. lent - amt \in Nat /\ (pos + amt) + (lent - amt) = pos + lent
    <3>1. pos \in Nat /\ lent \in Nat /\ amt <= lent
      BY <1>1, Facts
    <3> QED
      BY ONLY <3>1, amt \in Nat
  <2> QED
    BY <2>1, Facts
<1>4. CASE amt <= len
  <2>1. FromBuffer(amt) = amt
    BY <1>2, <1>4 DEF FromBuffer, Smaller
  <2>2. rpos' = rpos
    BY <1>1, <2>1, Facts
  <2>3. Whole(Len(buffer) - amt)
    BY <1>1, <1>2, <1>3, <1>4, <2>1, <2>2, DrainedWhole DEF inner
  <2> QED
    BY <1>1, <2>3, NothingDelivered, AnswerKeeps DEF Ops, Statuses
<1>5. CASE ~(amt <= len)
  <2>1. FromBuffer(amt) = len
    BY <1>2, <1>5 DEF FromBuffer, Smaller
  <2>2. buffer' = <<>>
    <3>1. Drain(buffer, len) = Slice(pos + len, len - len) /\ len - len = 0
      BY <1>1, <1>2, FrontIsNext
    <3>2. Drain(buffer, len) = Slice(pos + len, 0)
      BY <3>1
    <3> QED
      BY <1>1, <2>1, <3>2, NothingDelivered
  <2>3. PICK p \in Nat : p = pos + amt
    BY Facts
  <2>4. rpos' = p
    BY <1>1, <1>2, <2>1, <2>3, Facts
  <2>5. PICK e \in Nat : e = ibuf
    BY Facts
  <2>6. p <= e /\ e <= avail /\ p + l <= e
    BY <1>3, <2>3, <2>5, Facts
  <2>7. cap \in Nat /\ WakerTyped
    BY <1>1, Facts, WakerKept
  <2>8. Whole(0)
    BY <1>1, <1>3, <2>2, <2>3, <2>4, <2>5, <2>6, <2>7, EmptiedWhole
  <2> QED
    BY <1>1, <2>8, NothingDelivered, AnswerKeeps DEF Ops, Statuses
<1> QED
  BY <1>4, <1>5

LEMMA DiscardWhole ==
    ASSUME IInv, Free, buffer' = <<>>, pos' = pos + Len(buffer), lent' = 0,
           NEW c \in Nat, cap' = c, UNCHANGED <<inner, far, waking, given>>
    PROVE  Whole(0)
<1>1. PICK len \in Nat : Len(buffer) = len /\ rpos = pos + len
  BY AllPeeked DEF Free
<1>2. PICK p \in Nat : p = rpos
  BY Facts
<1>3. PICK e \in Nat : e = ibuf /\ p <= e /\ p + 0 <= e /\ e <= avail
  BY <1>2, Facts
<1>4. WakerTyped
  BY WakerKept
<1>5. pos' = p /\ rpos' = p /\ ibuf' = e
  BY <1>1, <1>2, <1>3 DEF inner
<1> QED
  BY <1>3, <1>4, <1>5, EmptiedWhole

LEMMA consume_keeps ==
    ASSUME IInv, consume
    PROVE  IInv'
<1>1. /\ Free /\ fut.pc # "read" /\ fut' = fut
      /\ buffer' = <<>> /\ pos' = pos + Len(buffer) /\ lent' = 0
      /\ cap' = FreshCapacity(buf_cap)
      /\ Answer("consume", "ok", 0, Len(buffer), buffer)
      /\ UNCHANGED <<inner, far, waking, given>>
  BY DEF consume, Free
<1>2. FreshCapacity(buf_cap) \in Nat
  BY Facts, TaskAssumption, FreshCapacityFacts
<1>3. Whole(0)
  BY <1>1, <1>2, DiscardWhole
<1>4. buffer \in Delivered /\ Len(buffer) \in Nat
  <2>1. PICK len \in Nat : Len(buffer) = len /\ buffer = Slice(pos, len)
    BY <1>1, AllPeeked
  <2> QED
    BY <1>1, <2>1, FrontIsNext
<1> QED
  BY <1>1, <1>3, <1>4, AnswerKeeps DEF Ops, Statuses

LEMMA consume_in_place_keeps ==
    ASSUME IInv, consume_in_place
    PROVE  IInv'
<1>1. /\ Free /\ fut' = fut
      /\ buffer' = <<>> /\ pos' = pos + Len(buffer) /\ lent' = 0
      /\ cap' = cap
      /\ Answer("consume_in_place", "ok", 0, 0, <<>>)
      /\ UNCHANGED <<inner, far, waking, given>>
  BY DEF consume_in_place
<1>2. cap \in Nat
  BY Facts
<1>3. Whole(0)
  BY <1>1, <1>2, DiscardWhole
<1> QED
  BY <1>1, <1>3, NothingDelivered, AnswerKeeps DEF Ops, Statuses

-----------------------------------------------------------------------------
(* poll_read and poll_fill_buf *)

(* The reader has handed out n bytes, and nothing peeked is left. *)
LEMMA ReadPast ==
    ASSUME IInv, fut.pc # "read", NEW n \in Nat, rpos + n <= avail, Advance(n),
           pos' = pos + Len(buffer) + n, buffer' = <<>>, lent' = 0,
           UNCHANGED <<far, given, cap>>
    PROVE  Whole(0)
<1>1. PICK len \in Nat : Len(buffer) = len /\ rpos = pos + len
  BY AllPeeked
<1>2. PICK p \in Nat : p = rpos + n /\ p <= avail
  BY Facts
<1>3. pos' = p /\ rpos' = p
  BY <1>1, <1>2, Facts DEF Advance
<1>4. /\ Larger(ibuf, p) \in Nat /\ p <= Larger(ibuf, p)
      /\ Larger(ibuf, p) <= avail
  BY <1>2, Facts DEF Larger
<1>5. PICK e \in Nat : e = ibuf' /\ p <= e /\ e <= avail /\ p + 0 <= e
  BY <1>2, <1>4 DEF Advance
<1>6. WakerTyped /\ cap' \in Nat
  BY Facts, WakerKept DEF Advance
<1> QED
  BY <1>3, <1>5, <1>6, EmptiedWhole

(* What was peeked, and what the reader adds to it. *)
LEMMA JoinedSlice ==
    ASSUME IInv, fut.pc # "read", NEW n \in Nat, rpos + n <= avail
    PROVE  /\ buffer \o Slice(rpos, n) = Slice(pos, Len(buffer) + n)
           /\ buffer \o Slice(rpos, n) \in Delivered
<1>1. PICK len \in Nat : /\ Len(buffer) = len /\ rpos = pos + len
                         /\ buffer = Slice(pos, len)
  BY AllPeeked
<1>2. PICK p \in Nat : p = pos
  BY Facts
<1>3. p + (len + n) <= N /\ len + n \in Nat
  BY <1>1, <1>2, Facts
<1>4. Slice(p, len) \o Slice(p + len, n) = Slice(p, len + n)
  BY SlicesMeet
<1>5. Slice(p, len + n) \in Delivered
  BY <1>3, SliceDelivered
<1> QED
  BY <1>1, <1>2, <1>4, <1>5

LEMMA read_buffered_keeps ==
    ASSUME IInv, poll_read, read_buffered
    PROVE  IInv'
<1>1. PICK want \in Nat : want = fut.want
  BY Facts
<1>2. /\ fut.pc # "read" /\ want <= Len(buffer)
      /\ buffer' = Drain(buffer, want) /\ pos' = pos + want
      /\ Ready("ok", want, SubSeq(buffer, 1, want))
      /\ lent' = 0 /\ UNCHANGED <<inner, far, waking, given, cap>>
  BY <1>1 DEF poll_read, read_buffered, At
<1>3. (pos + want) + 0 <= ibuf
  <2>1. PICK len \in Nat : Len(buffer) = len /\ rpos = pos + len
    BY <1>2, AllPeeked
  <2> QED
    BY <1>2, <2>1, Facts
<1>4. Whole(Len(buffer) - want)
  BY <1>2, <1>3, DrainedWhole
<1>5. SubSeq(buffer, 1, want) \in Delivered
  BY <1>2, FrontIsNext
<1> QED
  BY <1>2, <1>4, <1>5, ReadyKeeps DEF Statuses

LEMMA read_top_up_keeps ==
    ASSUME IInv, poll_read, read_top_up
    PROVE  IInv'
<1>1. PICK want \in Nat : want = fut.want
  BY Facts
<1>2. /\ fut.pc # "read" /\ buffer' = <<>> /\ lent' = 0
      /\ UNCHANGED <<far, given, cap>>
  BY DEF poll_read, read_top_up, At
<1>3. PICK len \in Nat : /\ Len(buffer) = len /\ rpos = pos + len
                         /\ buffer = Slice(pos, len)
  BY <1>2, AllPeeked
<1>4. CASE \E n \in 0..(want - len) :
             /\ MayRead(want - len, n)
             /\ Advance(n)
             /\ pos' = pos + len + n
             /\ Ready("ok", len + n, buffer \o Slice(rpos, n))
  <2>1. PICK n \in 0..(want - len) :
             /\ MayRead(want - len, n)
             /\ Advance(n)
             /\ pos' = pos + len + n
             /\ Ready("ok", len + n, buffer \o Slice(rpos, n))
    BY <1>4
  <2>2. n \in Nat /\ len + n \in Nat /\ rpos + n <= avail
    BY <2>1 DEF MayRead
  <2>3. Whole(0)
    BY <1>2, <1>3, <2>1, <2>2, ReadPast
  <2>4. buffer \o Slice(rpos, n) \in Delivered
    BY <1>2, <2>2, JoinedSlice
  <2> QED
    BY <2>1, <2>2, <2>3, <2>4, ReadyKeeps DEF Statuses
<1>5. CASE /\ ReaderFails \/ ReaderPends
           /\ pos' = pos + len
           /\ Ready("ok", len, buffer)
  <2>1. rpos' = rpos /\ ibuf' = ibuf /\ WakerTyped
    BY <1>5, WakerKept DEF ReaderFails, ReaderPends, inner
  <2>2. PICK p \in Nat : p = rpos
    BY Facts
  <2>3. PICK e \in Nat : e = ibuf /\ p <= e /\ p + 0 <= e /\ e <= avail
    BY <2>2, Facts
  <2>4. pos' = p /\ cap' \in Nat
    BY <1>2, <1>3, <1>5, <2>2, Facts
  <2>5. Whole(0)
    BY <1>2, <2>1, <2>2, <2>3, <2>4, EmptiedWhole
  <2>6. buffer \in Delivered
    BY <1>2, <1>3, FrontIsNext
  <2> QED
    BY <1>5, <2>5, <2>6, ReadyKeeps DEF Statuses
<1> QED
  BY <1>1, <1>3, <1>4, <1>5 DEF read_top_up

LEMMA read_inner_keeps ==
    ASSUME IInv, poll_read, read_inner
    PROVE  IInv'
<1>1. PICK want \in Nat : want = fut.want
  BY Facts
<1>2. /\ fut.pc # "read" /\ buffer = <<>> /\ buffer' = <<>> /\ lent' = 0
      /\ UNCHANGED <<far, given, cap>> /\ Len(buffer) = 0
  BY NothingDelivered DEF poll_read, read_inner, At
<1>3. rpos = pos /\ rpos \in Nat
  <2>1. PICK len \in Nat : Len(buffer) = len /\ rpos = pos + len
    BY <1>2, AllPeeked
  <2> QED
    BY <1>2, <2>1, Facts
<1>4. CASE \E n \in 0..want :
             /\ MayRead(want, n)
             /\ Advance(n)
             /\ pos' = pos + n
             /\ Ready("ok", n, Slice(rpos, n))
  <2>1. PICK n \in 0..want :
             /\ MayRead(want, n)
             /\ Advance(n)
             /\ pos' = pos + n
             /\ Ready("ok", n, Slice(rpos, n))
    BY <1>4
  <2>2. n \in Nat /\ rpos + n <= avail /\ pos' = pos + Len(buffer) + n
    BY <1>2, <2>1, Facts DEF MayRead
  <2>3. Whole(0)
    BY <1>2, <2>1, <2>2, ReadPast
  <2>4. rpos + n <= N
    BY <2>2, Facts
  <2>5. Slice(rpos, n) \in Delivered
    BY <1>3, <2>2, <2>4, SliceDelivered
  <2> QED
    BY <2>1, <2>2, <2>3, <2>5, ReadyKeeps DEF Statuses
<1>5. CASE ReaderFails /\ pos' = pos /\ Ready("err", 0, <<>>)
  <2>1. rpos' = rpos /\ ibuf' = ibuf /\ WakerTyped
    BY <1>5, WakerKept DEF ReaderFails, inner
  <2>2. PICK p \in Nat : p = rpos
    BY Facts
  <2>3. PICK e \in Nat : e = ibuf /\ p <= e /\ p + 0 <= e /\ e <= avail
    BY <2>2, Facts
  <2>4. pos' = p /\ cap' \in Nat
    BY <1>2, <1>3, <1>5, <2>2, Facts
  <2>5. Whole(0)
    BY <1>2, <2>1, <2>2, <2>3, <2>4, EmptiedWhole
  <2> QED
    BY <1>5, <2>5, NothingDelivered, ReadyKeeps DEF Statuses
<1> QED
  BY <1>1, <1>4, <1>5 DEF read_inner

LEMMA poll_read_keeps ==
    ASSUME IInv, poll_read
    PROVE  IInv'
BY read_buffered_keeps, read_top_up_keeps, read_inner_keeps DEF poll_read

LEMMA poll_fill_buf_keeps ==
    ASSUME IInv, poll_fill_buf
    PROVE  IInv'
<1>1. /\ fut.pc # "read" /\ UNCHANGED <<far, given, storage, pos>>
  BY DEF poll_fill_buf, At
<1>2. PICK len \in Nat : /\ Len(buffer) = len /\ rpos = pos + len
                         /\ buffer = Slice(pos, len)
  BY <1>1, AllPeeked
<1>3. PICK p \in Nat : p = pos
  BY Facts
<1>4. ASSUME NEW e \in Nat, ibuf' = e, p + len <= e, e <= avail, rpos' = rpos,
             NEW l \in Nat, lent' = l, p + l <= e, WakerTyped
      PROVE  Whole(len)
  <2>1. Cursors(len, len)
    BY <1>1, <1>2, <1>3, <1>4, Facts
    DEF Cursors, WakerTyped, far, given, storage
  <2> QED
    BY <1>1, <1>2, <2>1 DEF Whole, storage
<1>5. CASE /\ buffer # <<>>
           /\ lent' = Len(buffer)
           /\ Ready("ok", Len(buffer), buffer)
           /\ UNCHANGED <<inner, waking>>
  <2>1. PICK e \in Nat : e = ibuf /\ p + len <= e /\ e <= avail
    BY <1>2, <1>3, Facts
  <2>2. Whole(len)
    BY <1>2, <1>4, <1>5, <2>1, WakerKept DEF inner
  <2>3. buffer \in Delivered
    BY <1>1, <1>2, FrontIsNext
  <2> QED
    BY <1>2, <1>5, <2>2, <2>3, ReadyKeeps DEF Statuses
<1>6. CASE /\ buffer = <<>>
           /\ ReaderShows
           /\ lent' = ibuf' - rpos
           /\ Ready("ok", ibuf' - rpos, Slice(rpos, ibuf' - rpos))
  <2>1. len = 0 /\ rpos = p
    BY <1>2, <1>3, <1>6, NothingDelivered
  <2>2. PICK e \in Nat : e = ibuf' /\ p <= e /\ e <= avail
    BY <1>6, <2>1, Facts DEF ReaderShows
  <2>3. PICK l \in Nat : l = e - p /\ p + l <= e
    <3>1. p <= e
      BY <2>2
    <3>2. e - p \in Nat /\ p + (e - p) <= e
      BY <3>1
    <3> QED
      BY <3>2
  <2>4. WakerTyped /\ rpos' = rpos /\ lent' = l /\ p + len <= e
    BY <1>6, <2>1, <2>2, <2>3, WakerKept DEF ReaderShows
  <2>5. Whole(len)
    BY <1>4, <2>2, <2>3, <2>4
  <2>6. p + l <= N
    BY <2>2, <2>3, Facts
  <2>7. Ready("ok", l, Slice(p, l)) /\ Slice(p, l) \in Delivered
    BY <1>6, <2>1, <2>2, <2>3, <2>6, SliceDelivered
  <2> QED
    BY <2>5, <2>7, ReadyKeeps DEF Statuses
<1>7. CASE buffer = <<>> /\ ReaderFails /\ lent' = 0 /\ Ready("err", 0, <<>>)
  <2>1. PICK e \in Nat : e = ibuf /\ p + len <= e /\ e <= avail /\ p + 0 <= e
    BY <1>2, <1>3, Facts
  <2>2. WakerTyped /\ rpos' = rpos /\ ibuf' = e
    BY <1>7, <2>1, WakerKept DEF ReaderFails, inner
  <2>3. Whole(len)
    BY <1>4, <1>7, <2>1, <2>2
  <2> QED
    BY <1>7, <2>3, NothingDelivered, ReadyKeeps DEF Statuses
<1> QED
  BY <1>5, <1>6, <1>7 DEF poll_fill_buf

LEMMA delegated_pends_keeps ==
    ASSUME IInv, delegated_pends
    PROVE  IInv'
<1>1. /\ fut.pc # "read" /\ fut.op \in {"read", "fill_buf"}
      /\ buffer = <<>> /\ ReaderPends /\ Pending /\ lent' = 0
      /\ UNCHANGED <<far, given, storage, pos>>
  BY DEF delegated_pends, At
<1>2. rpos = pos
  <2>1. PICK len \in Nat : Len(buffer) = len /\ rpos = pos + len
    BY <1>1, AllPeeked
  <2>2. len = 0
    BY <1>1, <2>1, NothingDelivered
  <2> QED
    BY <2>1, <2>2, Facts
<1>3. PICK p \in Nat : p = rpos
  BY Facts
<1>4. PICK e \in Nat : e = ibuf /\ p <= e /\ e <= avail /\ p + 0 <= e
  BY <1>3, Facts
<1>5. rpos' = p /\ ibuf' = e /\ pos' = p /\ buffer' = <<>> /\ cap' = cap
  BY <1>1, <1>2, <1>3, <1>4 DEF ReaderPends, inner, storage
<1>6. WakerTyped /\ cap \in Nat
  BY <1>1, WakerKept, Facts
<1>7. Whole(0)
  BY <1>1, <1>4, <1>5, <1>6, EmptiedWhole
<1> QED
  BY <1>1, <1>7, PendingKeeps DEF Copying, Patient

-----------------------------------------------------------------------------
(* poll_peek and poll_peek_vectored *)

(* What a step leaves in the buffer may be shown to the caller. *)
LEMMA WholeDelivered ==
    ASSUME NEW held, Whole(held)
    PROVE  /\ held \in Nat /\ buffer' = Slice(pos', held)
           /\ buffer' \in Delivered /\ Len(buffer') = held
<1>1. PICK p \in Nat : p = pos'
  BY DEF Whole, Cursors
<1>2. PICK e \in Nat : e = ibuf'
  BY DEF Whole, Cursors
<1>3. /\ held \in Nat /\ rpos' = p + held /\ rpos' <= e /\ e <= avail'
      /\ avail' \in 0..N
  BY <1>1, <1>2 DEF Whole, Cursors
<1>4. p + held <= N
  BY <1>3, ReaderAssumption
<1>5. Slice(p, held) \in Delivered /\ Len(Slice(p, held)) = held
  BY <1>3, <1>4, SliceDelivered, SliceFacts
<1> QED
  BY <1>1, <1>3, <1>5 DEF Whole

LEMMA PrepareWhole ==
    ASSUME IInv, fut.pc # "read",
           UNCHANGED <<inner, far, waking, given, storage, client>>
    PROVE  Whole(Len(buffer)) /\ cap' = cap /\ pos' = pos
BY WakerKept, QuietWhole DEF Untouched, client

(* The reader's answer: recorded, or not. *)
LEMMA OkWhole ==
    ASSUME IInv, fut.pc = "read", Untouched, NEW n \in Nat, ReadOk(n)
    PROVE  \E old \in Nat : /\ Had(old) /\ Held = old /\ Whole(old + n)
                            /\ pos' = pos /\ cap' = cap /\ rpos = pos + old
                            /\ rpos' = rpos + n /\ rpos' <= avail
                            /\ Len(buffer') = old + n
                            /\ old + n <= Len(buffer)
<1>1. PICK old \in Nat : Had(old) /\ Held = old /\ rpos = pos + old
  BY Asking DEF Had
<1> QED
  BY <1>1, RecordedWhole

LEMMA NotOkWhole ==
    ASSUME IInv, fut.pc = "read", Untouched, RollBack, ReaderFails \/ ReaderPends
    PROVE  \E old \in Nat : /\ Had(old) /\ Held = old /\ Whole(old)
                            /\ pos' = pos /\ cap' = cap /\ Len(buffer') = old
                            /\ rpos' = rpos /\ rpos = pos + old
<1>1. PICK old \in Nat : Had(old) /\ Held = old /\ rpos = pos + old
  BY Asking DEF Had
<1>2. WakerTyped /\ UNCHANGED inner
  BY WakerKept DEF ReaderFails, ReaderPends, inner
<1> QED
  BY <1>1, <1>2, RolledBackWhole DEF inner

LEMMA poll_peek_keeps ==
    ASSUME IInv, poll_peek
    PROVE  IInv'
<1>1. /\ fut.op \in Peeks /\ fut.pc # "read"
      /\ UNCHANGED <<inner, far, waking, given, client>>
  BY DEF poll_peek
<1>2. PICK want \in Nat : want = fut.want
  BY Facts
<1>3. PICK len \in Nat : Len(buffer) = len
  BY Facts
<1>4. CASE /\ want <= len
           /\ Ready("ok", want, SubSeq(buffer, 1, want))
           /\ UNCHANGED storage
  <2>1. Whole(len)
    BY <1>1, <1>3, <1>4, PrepareWhole
  <2>2. SubSeq(buffer, 1, want) \in Delivered
    BY <1>1, <1>3, <1>4, FrontIsNext
  <2> QED
    BY <1>4, <2>1, <2>2, ReadyKeeps DEF Statuses
<1>5. CASE Ready("oom", 0, <<>>) /\ UNCHANGED storage
  <2>1. Whole(len)
    BY <1>1, <1>3, <1>5, PrepareWhole
  <2> QED
    BY <1>5, <2>1, NothingDelivered, ReadyKeeps DEF Statuses
<1>6. CASE want > len /\ ResizeTo(want) /\ Continue("read", len, <<>>)
  <2>1. Offered(len, want)
    BY <1>1, <1>3, <1>6, ResizedOffered DEF Untouched
  <2>2. len < want /\ fut.op \in Reading /\ fut.op \notin Copying
        /\ fut.op # "peek_exact" /\ fut.op # "fill_peek_buf"
    BY <1>1, <1>6 DEF Peeks, Reading, Copying
  <2> QED
    BY <1>2, <1>6, <2>1, <2>2, NothingDelivered, AskKeeps
<1> QED
  BY <1>2, <1>3, <1>4, <1>5, <1>6 DEF poll_peek

LEMMA poll_peek_blocked_keeps ==
    ASSUME IInv, poll_peek_blocked
    PROVE  IInv'
<1>1. /\ fut.op \in Peeks /\ fut.pc = "read" /\ Untouched /\ RollBack
      /\ ReaderFails \/ ReaderPends
  BY DEF poll_peek_blocked, InRead, Untouched, ReaderWouldBlock
<1>2. PICK old \in Nat : Had(old) /\ Whole(old)
  BY <1>1, NotOkWhole
<1>3. CASE Ready("ok", old, buffer')
  BY <1>2, <1>3, WholeDelivered, ReadyKeeps DEF Statuses
<1>4. CASE old = 0 /\ Pending
  <2>1. fut.op # "none" /\ fut.op \notin Copying /\ fut.op # "peek_exact"
        /\ fut.op # "fill_peek_buf"
    BY <1>1 DEF Peeks, Copying
  <2> QED
    BY <1>2, <1>4, <2>1, PendingKeeps
<1> QED
  BY <1>2, <1>3, <1>4 DEF poll_peek_blocked, Had

LEMMA poll_peek_read_keeps ==
    ASSUME IInv, poll_peek_read
    PROVE  IInv'
<1>1. fut.pc = "read" /\ Untouched
  BY DEF poll_peek_read, InRead, Untouched
<1>2. CASE \E n \in 0..Room : ReadOk(n) /\ Ready("ok", fut.old + n, buffer')
  <2>1. PICK n \in 0..Room : ReadOk(n) /\ Ready("ok", fut.old + n, buffer')
    BY <1>2
  <2>2. n \in Nat
    BY <1>1, Asking
  <2>3. PICK old \in Nat : Had(old) /\ Whole(old + n)
    BY <1>1, <2>1, <2>2, OkWhole
  <2>4. Ready("ok", old + n, buffer')
    BY <2>1, <2>3 DEF Had
  <2> QED
    BY <2>3, <2>4, WholeDelivered, ReadyKeeps DEF Statuses
<1>3. CASE ReaderFails /\ RollBack /\ Ready("err", 0, <<>>)
  <2>1. PICK old \in Nat : Whole(old)
    BY <1>1, <1>3, NotOkWhole
  <2> QED
    BY <1>3, <2>1, NothingDelivered, ReadyKeeps DEF Statuses
<1> QED
  BY <1>2, <1>3 DEF poll_peek_read

(* Nothing at all changes. *)
LEMMA StutterKeeps ==
    ASSUME IInv, UNCHANGED vars
    PROVE  IInv'
<1> USE DEF vars
<1>1. TypeOK' /\ BufReadContract'
  BY DEF IInv, TypeOK, ReaderTypeOK, BufReadContract
<1>2. StreamIntact' /\ ProgressIntact' /\ WaitsForSomething' /\ PollIntact'
  BY DEF IInv, StreamIntact, ProgressIntact, WaitsForSomething, PollIntact,
         Held, Room
<1> QED
  BY <1>1, <1>2 DEF IInv

LEMMA AgainIsStutter == ASSUME poll_peek_again PROVE UNCHANGED vars
BY DEF poll_peek_again, ReaderFails, vars, inner, waking, far, given, client, storage

-----------------------------------------------------------------------------
(* PeekExact *)

LEMMA peek_exact_enter_keeps ==
    ASSUME IInv, peek_exact_enter
    PROVE  IInv'
<1>1. /\ fut.op = "peek_exact" /\ fut.pc = "enter"
      /\ UNCHANGED <<inner, far, waking, given, storage, client>>
  BY DEF peek_exact_enter, At
<1>2. PICK len \in Nat : /\ Len(buffer) = len /\ Held = len
                         /\ buffer = Slice(pos, len)
  BY <1>1, AllPeeked
<1>3. Whole(len) /\ pos' = pos
  BY <1>1, <1>2, PrepareWhole
<1>4. PICK want \in Nat : want = fut.want
  BY Facts
<1> DEFINE out == IF fut.out = <<>>
                  THEN SubSeq(buffer, 1, Smaller(Len(buffer), fut.want))
                  ELSE fut.out
<1>5. \/ Len(out) = want /\ Ready("ok", want, out)
      \/ Len(out) # want /\ Continue("grow", 0, out)
  BY <1>4 DEF peek_exact_enter
<1>6. out \in Delivered /\ (Len(out) # want => out = Slice(pos, len) /\ len < want)
  <2>1. CASE fut.out = <<>>
    <3>1. PICK k \in Nat : /\ k = Smaller(len, want) /\ k <= len
                           /\ (k # want => k = len /\ len < want)
      BY DEF Smaller
    <3>2. out = SubSeq(buffer, 1, k)
      BY <1>2, <1>4, <2>1, <3>1
    <3>3. SubSeq(buffer, 1, k) = Slice(pos, k) /\ Slice(pos, k) \in Delivered
      BY <1>1, <1>2, <3>1, FrontIsNext
    <3>4. Len(Slice(pos, k)) = k
      BY Facts, SliceFacts
    <3> HIDE DEF out
    <3> QED
      BY <3>1, <3>2, <3>3, <3>4
  <2>2. CASE fut.out # <<>>
    <3>1. fut.out = Slice(pos, len) /\ len < fut.want
      BY <1>1, <1>2, <2>2 DEF IInv, PollIntact
    <3> QED
      BY <1>4, <2>2, <3>1, Facts
  <2> QED
    BY <2>1, <2>2
<1> HIDE DEF out
<1>7. CASE Ready("ok", want, out)
  BY <1>3, <1>6, <1>7, ReadyKeeps DEF Statuses
<1>8. CASE Len(out) # want /\ Continue("grow", 0, out)
  BY <1>1, <1>3, <1>4, <1>6, <1>8, GrowKeeps DEF Loops
<1> QED
  BY <1>5, <1>7, <1>8

(* At the head of the loop, what is missing makes the slice full. *)
LEMMA MissingFacts ==
    ASSUME IInv, At("peek_exact", "grow")
    PROVE  \E len \in Nat, want \in Nat :
             /\ Len(buffer) = len /\ fut.want = want /\ len < want
             /\ fut.out = Slice(pos, len) /\ Len(buffer) + Missing = want
<1>1. fut.op = "peek_exact" /\ fut.pc = "grow"
  BY DEF At
<1>2. PICK len \in Nat : Len(buffer) = len /\ Held = len
  BY <1>1, AllPeeked
<1>3. PICK want \in Nat : want = fut.want
  BY Facts
<1>4. fut.out = Slice(pos, len) /\ len < want
  BY <1>1, <1>2, <1>3 DEF IInv, ProgressIntact
<1>5. Len(fut.out) = len
  BY <1>4, Facts, SliceFacts
<1>6. Missing = want - len
  BY <1>3, <1>5 DEF Missing
<1>7. len + (want - len) = want
  OBVIOUS
<1> QED
  BY <1>2, <1>3, <1>4, <1>6, <1>7

LEMMA peek_exact_resize_keeps ==
    ASSUME IInv, peek_exact_resize
    PROVE  IInv'
<1>1. /\ At("peek_exact", "grow") /\ fut.pc # "read" /\ fut.op = "peek_exact"
      /\ UNCHANGED <<inner, far, waking, given, client>>
  BY DEF peek_exact_resize, At
<1>2. PICK len \in Nat, want \in Nat :
             /\ Len(buffer) = len /\ fut.want = want /\ len < want
             /\ fut.out = Slice(pos, len) /\ Len(buffer) + Missing = want
  BY <1>1, MissingFacts
<1>3. fut.out \in Delivered
  BY Facts
<1>4. CASE ResizeTo(want) /\ Continue("read", len, fut.out)
  <2>1. Offered(len, want) /\ pos' = pos
    BY <1>1, <1>2, <1>4, ResizedOffered DEF Untouched, client
  <2>2. fut.op \in Reading /\ fut.op # "fill_peek_buf"
    BY <1>1 DEF Reading, Loops
  <2> QED
    BY <1>2, <1>3, <1>4, <2>1, <2>2, AskKeeps
<1>5. CASE Ready("oom", 0, fut.out) /\ UNCHANGED storage
  <2>1. Whole(len)
    BY <1>1, <1>2, <1>5, PrepareWhole
  <2> QED
    BY <1>3, <1>5, <2>1, ReadyKeeps DEF Statuses
<1> QED
  BY <1>2, <1>4, <1>5 DEF peek_exact_resize

(* After Ok(n) the caller's copy again mirrors the peek buffer. *)
LEMMA Copied ==
    ASSUME IInv, fut.pc = "read", fut.op \in Copying, NEW old \in Nat, Had(old),
           NEW n \in Nat, Whole(old + n), pos' = pos
    PROVE  /\ fut.out \o SubSeq(buffer', fut.old + 1, fut.old + n)
                = Slice(pos, old + n)
           /\ Slice(pos, old + n) \in Delivered
           /\ Len(Slice(pos, old + n)) = old + n
<1>1. PICK p \in Nat : p = pos
  BY Facts
<1>2. PICK b : b = buffer'
  OBVIOUS
<1>3. b = Slice(p, old + n) /\ b \in Delivered /\ Len(b) = old + n
  BY <1>1, <1>2, WholeDelivered
<1>4. b \in Seq(Nat) /\ \A i \in 1..(old + n) : b[i] = p + i
  <2>1. PICK m \in Nat : m = old + n
    OBVIOUS
  <2>2. /\ Slice(p, m) \in Seq(Nat)
        /\ \A i \in 1..m : Slice(p, m)[i] = p + i
    BY SliceFacts
  <2> QED
    BY <1>3, <2>1, <2>2
<1>5. Slice(p, old) \o SubSeq(b, old + 1, old + n) = Slice(p, old + n)
  BY <1>3, <1>4, ExtendSlice
<1>6. fut.out = Slice(p, old)
  BY <1>1 DEF IInv, ProgressIntact, Held, Had, Copying
<1> QED
  BY <1>1, <1>2, <1>3, <1>5, <1>6 DEF Had

LEMMA peek_exact_read_keeps ==
    ASSUME IInv, peek_exact_read
    PROVE  IInv'
<1>1. fut.op = "peek_exact" /\ fut.pc = "read" /\ Untouched /\ fut.op \in Copying
  BY DEF peek_exact_read, At, Untouched, Copying
<1>2. PICK want \in Nat : want = fut.want
  BY Facts
<1>3. CASE ReadOk(0) /\ Ready("eof", 0, fut.out)
  <2>1. PICK old \in Nat : Whole(old + 0)
    BY <1>1, <1>3, OkWhole
  <2> QED
    BY <1>3, <2>1, Facts, ReadyKeeps DEF Statuses
<1>4. ASSUME NEW n \in 1..Room, ReadOk(n),
             NEW out, out = fut.out \o SubSeq(buffer', fut.old + 1, fut.old + n),
             \/ Len(out) < fut.want /\ Continue("grow", 0, out)
             \/ Len(out) >= fut.want /\ Ready("ok", Len(out), out)
      PROVE  IInv'
  <2>1. n \in Nat
    BY <1>1, Asking
  <2>2. PICK old \in Nat : Had(old) /\ Whole(old + n) /\ pos' = pos
    BY <1>1, <1>4, <2>1, OkWhole
  <2>3. out = Slice(pos, old + n) /\ out \in Delivered /\ Len(out) = old + n
    BY <1>1, <1>4, <2>1, <2>2, Copied
  <2>4. PICK m \in Nat : m = old + n
    BY <2>1
  <2>5. CASE Len(out) < fut.want /\ Continue("grow", 0, out)
    BY <1>1, <2>2, <2>3, <2>4, <2>5, GrowKeeps DEF Loops
  <2>6. CASE Ready("ok", Len(out), out)
    BY <2>2, <2>3, <2>4, <2>6, ReadyKeeps DEF Statuses
  <2> QED
    BY <1>4, <2>5, <2>6
<1>5. CASE ReaderFails /\ RollBack /\ Ready("err", 0, fut.out)
  <2>1. PICK old \in Nat : Whole(old)
    BY <1>1, <1>5, NotOkWhole
  <2> QED
    BY <1>5, <2>1, Facts, ReadyKeeps DEF Statuses
<1> QED
  BY <1>3, <1>4, <1>5 DEF peek_exact_read

-----------------------------------------------------------------------------
(* PeekToEnd, PeekToString and FillPeekBuf *)

LEMMA peek_to_end_enter_keeps ==
    ASSUME IInv, peek_to_end_enter
    PROVE  IInv'
<1>1. /\ fut.op = "peek_to_end" /\ fut.pc = "enter"
      /\ UNCHANGED <<inner, far, waking, given, storage, client>>
      /\ Continue("grow", 0, IF fut.first THEN buffer ELSE fut.out)
  BY DEF peek_to_end_enter, At
<1>2. PICK len \in Nat : /\ Len(buffer) = len /\ Held = len
                         /\ buffer = Slice(pos, len)
  BY <1>1, AllPeeked
<1>3. Whole(len) /\ pos' = pos
  BY <1>1, <1>2, PrepareWhole
<1>4. PICK out : out = IF fut.first THEN buffer ELSE fut.out
  OBVIOUS
<1>5. out = Slice(pos, len) /\ out \in Delivered
  <2>1. ~fut.first => fut.out = Slice(pos, len)
    BY <1>1, <1>2 DEF IInv, PollIntact
  <2>2. out = Slice(pos, len)
    BY <1>2, <1>4, <2>1
  <2> QED
    BY <1>1, <1>2, <2>2, FrontIsNext
<1>6. Continue("grow", 0, out)
  BY <1>1, <1>4
<1> QED
  BY <1>1, <1>3, <1>5, <1>6, GrowKeeps DEF Loops, Wholes

LEMMA peek_to_string_enter_keeps ==
    ASSUME IInv, peek_to_string_enter
    PROVE  IInv'
<1>1. /\ fut.op = "peek_to_string" /\ fut.pc = "enter"
      /\ UNCHANGED <<inner, far, waking, given, storage, client>>
      /\ Ready("rejected", 0, <<>>) \/ Continue("grow", 0, <<>>)
  BY DEF peek_to_string_enter, At
<1>2. Whole(Len(buffer))
  BY <1>1, PrepareWhole
<1>3. CASE Ready("rejected", 0, <<>>)
  BY <1>2, <1>3, NothingDelivered, ReadyKeeps DEF Statuses
<1>4. CASE Continue("grow", 0, <<>>)
  <2>1. fut.op \in Loops /\ fut.op \notin Copying /\ fut.op # "peek_exact"
    BY <1>1 DEF Loops, Wholes, Copying
  <2> QED
    BY <1>2, <1>4, <2>1, NothingDelivered, GrowKeeps
<1> QED
  BY <1>1, <1>3, <1>4

LEMMA ConcludeKeeps ==
    ASSUME IInv, NEW held, Whole(held), NEW st \in {"ok", "err", "oom"},
           NEW b, b = Slice(pos', held), Conclude(st, b)
    PROVE  IInv'
<1>1. b \in Delivered /\ Len(b) = held /\ held \in Nat /\ b = buffer'
  BY WholeDelivered
<1>2. CASE Ready(st, IF st = "ok" THEN Len(b) ELSE 0, b)
  <2>1. PICK n \in Nat : Ready(st, n, b)
    BY <1>1, <1>2
  <2> QED
    BY <1>1, <2>1, ReadyKeeps DEF Statuses
<1>3. CASE Ready("invalid", 0, <<>>)
  BY <1>3, NothingDelivered, ReadyKeeps DEF Statuses
<1>4. ASSUME NEW vut \in 0..Len(b), Ready(st, 0, SubSeq(b, 1, vut))
      PROVE  IInv'
  <2>1. PICK p \in Nat : p = pos'
    BY DEF Whole, Cursors
  <2>2. vut \in 0..held /\ vut \in Nat
    BY <1>1
  <2>3. SubSeq(b, 1, vut) = Slice(p, vut)
    <3>1. SubSeq(Slice(p, held), 1, vut) = Slice(p, vut)
      BY <1>1, <2>2, SliceFront
    <3> QED
      BY <2>1, <3>1
  <2>4. p + vut <= N
    <3>1. PICK e \in Nat : e = ibuf'
      BY DEF Whole, Cursors
    <3>2. /\ rpos' = p + held /\ rpos' <= e /\ e <= avail' /\ avail' \in 0..N
      BY <2>1, <3>1 DEF Whole, Cursors
    <3>3. p + held <= N
      BY <1>1, <3>2, ReaderAssumption
    <3> QED
      BY <1>1, <2>2, <3>3, ReaderAssumption
  <2>5. SubSeq(b, 1, vut) \in Delivered
    BY <2>2, <2>3, <2>4, SliceDelivered
  <2> QED
    BY <1>4, <2>5, ReadyKeeps DEF Statuses
<1> QED
  BY <1>2, <1>3, <1>4 DEF Conclude

LEMMA FailKeeps ==
    ASSUME IInv, NEW held, Whole(held), NEW st \in {"err", "oom"},
           NEW b, b = Slice(pos', held), Fail(st, b)
    PROVE  IInv'
<1>1. CASE Ready(st, 0, fut.out)
  BY <1>1, Facts, ReadyKeeps DEF Statuses
<1>2. CASE Conclude(st, b)
  BY <1>2, ConcludeKeeps
<1> QED
  BY <1>1, <1>2 DEF Fail

(* At the head of the loop PeekToEnd has given its caller what is peeked. *)
LEMMA WholeProgress ==
    ASSUME IInv, fut.op \in Wholes
    PROVE  /\ fut.op \in Loops /\ fut.op \in Reading
           /\ fut.op \notin Peeks \cup {"peek_exact", "fill_peek_buf"}
           /\ fut.op \in Copying => fut.op = "peek_to_end"
           /\ fut.op \in Copying /\ fut.pc \in {"grow", "read"}
                => fut.out = Slice(pos, Held)
<1>1. /\ fut.op \in Loops /\ fut.op \in Reading
      /\ fut.op \notin Peeks \cup {"peek_exact", "fill_peek_buf"}
      /\ fut.op \in Copying => fut.op = "peek_to_end"
  BY DEF Wholes, Loops, Reading, Peeks, Copying
<1> QED
  BY <1>1 DEF IInv, ProgressIntact

LEMMA grow_peek_buffer_keeps ==
    ASSUME IInv, grow_peek_buffer
    PROVE  IInv'
<1>1. /\ fut.op \in Wholes /\ fut.pc = "grow"
      /\ UNCHANGED <<inner, far, waking, given, client>>
  BY DEF grow_peek_buffer
<1>2. PICK len \in Nat : /\ Len(buffer) = len /\ Held = len
                         /\ buffer = Slice(pos, len)
  BY <1>1, AllPeeked
<1>3. fut.op \in Copying => fut.out = Slice(pos, len)
  BY <1>1, <1>2, WholeProgress
<1>4. ASSUME NEW growth \in Growths, ResizeTo(len + growth),
             Continue("read", len, fut.out)
      PROVE  IInv'
  <2>1. growth \in Nat /\ growth # 0
    BY GrowthsAre, HalvedFacts
  <2>2. PICK m \in Nat : m = len + growth /\ len < m
    BY <2>1
  <2>3. Offered(len, m) /\ pos' = pos
    BY <1>1, <1>2, <1>4, <2>2, ResizedOffered DEF Untouched, client
  <2>4. /\ fut.op \in Reading
        /\ fut.op \notin Peeks \cup {"peek_exact", "fill_peek_buf"}
    BY <1>1, WholeProgress
  <2> QED
    BY <1>3, <1>4, <2>2, <2>3, <2>4, Facts, AskKeeps
<1>5. CASE Fail("oom", buffer) /\ UNCHANGED storage
  <2>1. Whole(len) /\ buffer = Slice(pos', len)
    BY <1>1, <1>2, <1>5, PrepareWhole
  <2> QED
    BY <1>5, <2>1, FailKeeps
<1> QED
  BY <1>2, <1>4, <1>5 DEF grow_peek_buffer

LEMMA peek_whole_read_keeps ==
    ASSUME IInv, peek_whole_read
    PROVE  IInv'
<1>1. fut.op \in Wholes /\ fut.pc = "read" /\ Untouched
  BY DEF peek_whole_read, InRead, Untouched
<1>2. /\ fut.op \in Loops /\ fut.op # "peek_exact"
      /\ fut.op \in Copying => fut.op = "peek_to_end"
  BY <1>1, WholeProgress
<1>3. ASSUME ReadOk(0),
             \/ fut.op = "peek_to_end" /\ Ready("ok", Len(buffer'), fut.out)
             \/ fut.op = "peek_to_string" /\ Conclude("ok", buffer')
      PROVE  IInv'
  <2>1. PICK old \in Nat : Whole(old + 0)
    BY <1>1, <1>3, OkWhole
  <2>2. PICK b : /\ b = buffer' /\ b = Slice(pos', old + 0)
                 /\ Len(b) \in Nat
    BY <2>1, WholeDelivered
  <2>3. CASE Ready("ok", Len(buffer'), fut.out)
    BY <2>1, <2>2, <2>3, Facts, ReadyKeeps DEF Statuses
  <2>4. CASE Conclude("ok", buffer')
    BY <2>1, <2>2, <2>4, ConcludeKeeps
  <2> QED
    BY <1>3, <2>3, <2>4
<1>4. ASSUME NEW n \in 1..Room, ReadOk(n),
             Continue("grow", 0,
                 IF fut.op = "peek_to_end"
                 THEN fut.out \o SubSeq(buffer', fut.old + 1, fut.old + n)
                 ELSE <<>>)
      PROVE  IInv'
  <2>1. n \in Nat
    BY <1>1, Asking
  <2>2. PICK old \in Nat : Had(old) /\ Whole(old + n) /\ pos' = pos
    BY <1>1, <1>4, <2>1, OkWhole
  <2>3. PICK out : out = IF fut.op = "peek_to_end"
                 THEN fut.out \o SubSeq(buffer', fut.old + 1, fut.old + n)
                 ELSE <<>>
    OBVIOUS
  <2>4. out \in Delivered /\ (fut.op \in Copying => out = Slice(pos, old + n))
    <3>1. CASE fut.op = "peek_to_end"
      <4>1. fut.op \in Copying
        BY <3>1 DEF Copying
      <4> QED
        BY <1>1, <2>1, <2>2, <2>3, <3>1, <4>1, Copied
    <3>2. CASE fut.op # "peek_to_end"
      BY <1>2, <2>3, <3>2, NothingDelivered
    <3> QED
      BY <3>1, <3>2
  <2>5. Continue("grow", 0, out)
    BY <1>4, <2>3
  <2> QED
    BY <1>2, <2>2, <2>4, <2>5, GrowKeeps
<1>5. CASE ReaderFails /\ RollBack /\ Fail("err", buffer')
  <2>1. PICK old \in Nat : Whole(old)
    BY <1>1, <1>5, NotOkWhole
  <2>2. PICK b : b = buffer' /\ b = Slice(pos', old)
    BY <2>1, WholeDelivered
  <2> QED
    BY <1>5, <2>1, <2>2, FailKeeps
<1> QED
  BY <1>3, <1>4, <1>5 DEF peek_whole_read

LEMMA fill_peek_buf_enter_keeps ==
    ASSUME IInv, fill_peek_buf_enter
    PROVE  IInv'
<1>1. /\ fut.op = "fill_peek_buf" /\ fut.pc = "enter" /\ fut.pc # "read"
      /\ UNCHANGED <<inner, far, waking, given, client>>
  BY DEF fill_peek_buf_enter, At
<1>2. PICK len \in Nat : Len(buffer) = len /\ Held = len
  BY <1>1, AllPeeked
<1>3. fut.old = len /\ fut.want = cap
  BY <1>1, <1>2 DEF IInv, ProgressIntact
<1>4. PICK c \in Nat : c = cap /\ len <= c
  BY <1>2, Facts
<1>5. ASSUME NEW st \in Statuses, Ready(st, 0, <<>>), UNCHANGED storage
      PROVE  IInv'
  BY <1>1, <1>5, PrepareWhole, NothingDelivered, ReadyKeeps
<1>6. CASE c # len /\ ResizeTo(c) /\ Continue("read", len, <<>>)
  <2>1. Offered(len, c) /\ cap' = cap /\ len < c
    BY <1>1, <1>2, <1>4, <1>6, ResizedOffered DEF Untouched
  <2>2. /\ fut.op \in Reading /\ fut.op \notin Copying
        /\ fut.op \notin Peeks \cup {"peek_exact"}
    BY <1>1 DEF Reading, Copying, Peeks
  <2> QED
    BY <1>3, <1>4, <1>6, <2>1, <2>2, NothingDelivered, AskKeeps
<1> QED
  BY <1>3, <1>4, <1>5, <1>6 DEF fill_peek_buf_enter, Statuses

LEMMA fill_peek_buf_read_keeps ==
    ASSUME IInv, fill_peek_buf_read
    PROVE  IInv'
<1>1. fut.pc = "read" /\ Untouched
  BY DEF fill_peek_buf_read, At, Untouched
<1>2. ASSUME NEW n \in 0..Room, ReadOk(n), Ready("ok", n, <<>>)
      PROVE  IInv'
  <2>1. n \in Nat
    BY <1>1, Asking
  <2>2. PICK old \in Nat : Whole(old + n)
    BY <1>1, <1>2, <2>1, OkWhole
  <2> QED
    BY <1>2, <2>1, <2>2, NothingDelivered, ReadyKeeps DEF Statuses
<1>3. CASE ReaderFails /\ RollBack /\ Ready("err", 0, <<>>)
  <2>1. PICK old \in Nat : Whole(old)
    BY <1>1, <1>3, NotOkWhole
  <2> QED
    BY <1>3, <2>1, NothingDelivered, ReadyKeeps DEF Statuses
<1> QED
  BY <1>2, <1>3 DEF fill_peek_buf_read

-----------------------------------------------------------------------------
(* The arms that the loops share: what the future has given its caller is  *)
(* what the buffer holds once the growth is taken back.                    *)

LEMMA interrupted_keeps ==
    ASSUME IInv, interrupted
    PROVE  IInv'
<1>1. /\ fut.op \in Loops /\ fut.pc = "read" /\ Untouched
      /\ ReaderFails /\ RollBack /\ Continue("grow", 0, fut.out)
  BY DEF interrupted, InRead, Untouched
<1>2. PICK old \in Nat : Held = old /\ Whole(old) /\ pos' = pos
  BY <1>1, NotOkWhole
<1>3. /\ fut.op \in Copying => fut.out = Slice(pos, old)
      /\ fut.op = "peek_exact" => old < fut.want
  BY <1>1, <1>2 DEF IInv, ProgressIntact, Copying
<1> QED
  BY <1>1, <1>2, <1>3, Facts, GrowKeeps

LEMMA pending_keeps ==
    ASSUME IInv, pending
    PROVE  IInv'
<1>1. /\ fut.op \in Loops \cup {"fill_peek_buf"} /\ fut.pc = "read" /\ Untouched
      /\ ReaderPends /\ RollBack /\ Pending
  BY DEF pending, InRead, Untouched
<1>2. PICK old \in Nat : Held = old /\ Whole(old) /\ pos' = pos /\ cap' = cap
  BY <1>1, NotOkWhole
<1>3. /\ fut.op \in Copying => fut.out = Slice(pos, old)
      /\ fut.op = "peek_exact" => old < fut.want
      /\ fut.op = "fill_peek_buf" => fut.old = old /\ fut.want = cap
  BY <1>1, <1>2 DEF IInv, ProgressIntact, Copying
<1>4. fut.op # "none" /\ fut.op \notin Patient
  BY <1>1 DEF Loops, Wholes, Patient
<1> QED
  BY <1>1, <1>2, <1>3, <1>4, PendingKeeps

-----------------------------------------------------------------------------
(* The invariant holds of every behaviour. *)

LEMMA InitHolds == Init => IInv
<1> SUFFICES ASSUME Init PROVE IInv
  OBVIOUS
<1> USE DEF Init, ReaderInit, construct
<1>1. buffer \in Seq(0..N) /\ Len(buffer) = 0
  BY NothingDelivered
<1>2. buf_cap \in Nat \cup {None}
  BY TaskAssumption
<1>3. cap \in Nat
  BY <1>2, FreshCapacityFacts
<1>4. fut \in FutureType /\ fut.pc = "none" /\ fut.op = "none"
  BY NoFutureTyped
<1>5. ret \in AnswerType
  BY NothingDelivered DEF NoAnswer, AnswerType, Ops, Statuses
<1>6. N \in Nat
  BY ReaderAssumption
<1>7. TypeOK
  <2>1. ReaderTypeOK
    <3>1. rpos \in Nat /\ ibuf \in Nat /\ avail \in 0..N
      BY <1>6
    <3>2. closed \in BOOLEAN /\ armed \in BOOLEAN /\ woken \in BOOLEAN
      BY Zenon
    <3> QED
      BY <3>1, <3>2, Zenon DEF ReaderTypeOK
  <2>2. text \in Texts /\ buf_cap \in BufCaps /\ pos \in Nat /\ lent \in Nat
    OBVIOUS
  <2> QED
    BY <1>1, <1>3, <1>4, <1>5, <2>1, <2>2, Zenon DEF TypeOK
<1>8. Held = 0
  BY <1>1, <1>4 DEF Held
<1>9. StreamIntact
  BY <1>1, <1>8 DEF StreamIntact
<1>10. ProgressIntact /\ WaitsForSomething
  BY <1>4 DEF ProgressIntact, WaitsForSomething
<1>11. BufReadContract
  BY DEF BufReadContract
<1>12. PollIntact
  BY <1>1, <1>3, <1>4 DEF PollIntact
<1> QED
  BY <1>7, <1>9, <1>10, <1>11, <1>12 DEF IInv

LEMMA NextKeeps == IInv /\ [Next]_vars => IInv'
<1> SUFFICES ASSUME IInv, [Next]_vars PROVE IInv'
  OBVIOUS
<1>1. CASE UNCHANGED vars
  BY <1>1, StutterKeeps
<1>2. CASE Arrive \/ Close
  BY <1>2, Far_keeps
<1>3. CASE Call
  <2>1. \A amt \in 0..MaxWant : amt \in Nat
    OBVIOUS
  <2>2. \/ \/ \E want \in 0..MaxWant : read(want) \/ peek(want) \/ peek_exact(want)
           \/ \E len1, len2 \in 0..MaxWant : peek_vectored(len1, len2)
           \/ fill_buf \/ peek_to_end \/ peek_to_string \/ fill_peek_buf
        \/ \E amt \in 0..MaxWant : BufRead_consume(amt)
        \/ consume \/ consume_in_place
    BY <1>3, Zenon DEF Call
  <2> QED
    BY <2>1, <2>2, Creation_keeps, BufRead_consume_keeps, consume_keeps,
       consume_in_place_keeps
<1>4. CASE poll \/ drop_future
  BY <1>4, poll_keeps, drop_future_keeps
<1>5. CASE Prepare
  BY <1>5, poll_peek_keeps, peek_exact_enter_keeps, peek_exact_resize_keeps,
     peek_to_end_enter_keeps, peek_to_string_enter_keeps, grow_peek_buffer_keeps,
     fill_peek_buf_enter_keeps DEF Prepare
<1>6. CASE Outcome
  BY <1>6, poll_read_keeps, poll_fill_buf_keeps, poll_peek_read_keeps,
     peek_exact_read_keeps, peek_whole_read_keeps, fill_peek_buf_read_keeps
  DEF Outcome
<1>7. CASE NoOutcome
  BY <1>7, delegated_pends_keeps, poll_peek_blocked_keeps, pending_keeps,
     AgainIsStutter, StutterKeeps, interrupted_keeps DEF NoOutcome
<1> QED
  BY <1>1, <1>2, <1>3, <1>4, <1>5, <1>6, <1>7 DEF Next

THEOREM Invariance == Spec => []IInv
<1>1. Init => IInv
  BY InitHolds
<1>2. IInv /\ [Next]_vars => IInv'
  BY NextKeeps
<1> QED
  BY <1>1, <1>2, PTL DEF Spec

(* The variables hold what they are declared to, and no caller is ever     *)
(* given filler.                                                           *)
THEOREM TypeCorrect == Spec => []TypeOK
<1>1. IInv => TypeOK
  BY DEF IInv
<1> QED
  BY <1>1, Invariance, PTL

(* No byte is lost, duplicated, reordered or invented, whenever a future   *)
(* is parked, dropped or finished.                                         *)
THEOREM NoByteLost == Spec => []StreamIntact
<1>1. IInv => StreamIntact
  BY DEF IInv
<1> QED
  BY <1>1, Invariance, PTL

(* What a future has given its caller is what has been peeked, across any  *)
(* number of polls; FillPeekBuf's snapshot is not stale when it is used.   *)
THEOREM ProgressIsTrue == Spec => []ProgressIntact
<1>1. IInv => ProgressIntact
  BY DEF IInv
<1> QED
  BY <1>1, Invariance, PTL

(* consume never forwards to the reader more than the reader has shown.    *)
THEOREM ConsumesOnlyShown == Spec => []BufReadContract
<1>1. IInv => BufReadContract
  BY DEF IInv
<1> QED
  BY <1>1, Invariance, PTL

(* No future waits for more while it could answer. *)
THEOREM WaitsOnlyForMore == Spec => []WaitsForSomething
<1>1. IInv => WaitsForSomething
  BY DEF IInv
<1> QED
  BY <1>1, Invariance, PTL

-----------------------------------------------------------------------------
(* The waker.  A reader that says WouldBlock leaves none, and poll_peek    *)
(* says Pending all the same: what follows is about readers that keep the  *)
(* contract of AsyncRead.                                                  *)

Unparked == fut'.pc # "parked"

LEMMA ReadyIsUnparked ==
    ASSUME NEW st, NEW n, NEW out, Ready(st, n, out)
    PROVE  Unparked
BY NoFutureTyped DEF Ready, Unparked

LEMMA ContinueIsUnparked ==
    ASSUME IInv, NEW pc \in {"grow", "read"}, NEW old, NEW out, Continue(pc, old, out)
    PROVE  Unparked
<1>1. fut \in FutureType
  BY Facts
<1>2. fut'.pc = pc
  BY <1>1 DEF Continue, FutureType
<1> QED
  BY <1>2 DEF Unparked

LEMMA CallIsUnparked ==
    ASSUME IInv, Call
    PROVE  Unparked
<1>1. ASSUME NEW op, NEW want, NEW old, Create(op, want, old) PROVE Unparked
  BY <1>1 DEF Create, NoFuture, Unparked
<1>2. ASSUME Free, fut' = fut PROVE Unparked
  BY <1>2 DEF Free, Unparked
<1>3. CASE \E want \in 0..MaxWant : read(want) \/ peek(want) \/ peek_exact(want)
  BY <1>1, <1>3 DEF read, peek, peek_exact
<1>4. CASE \E len1, len2 \in 0..MaxWant : peek_vectored(len1, len2)
  BY <1>1, <1>4 DEF peek_vectored
<1>5. CASE fill_buf \/ peek_to_end \/ peek_to_string \/ fill_peek_buf
  BY <1>1, <1>5 DEF fill_buf, peek_to_end, peek_to_string, fill_peek_buf
<1>6. CASE \E amt \in 0..MaxWant : BufRead_consume(amt)
  BY <1>2, <1>6 DEF BufRead_consume
<1>7. CASE consume \/ consume_in_place
  BY <1>2, <1>7 DEF consume, consume_in_place
<1> QED
  BY <1>3, <1>4, <1>5, <1>6, <1>7, Zenon DEF Call

LEMMA PrepareIsUnparked ==
    ASSUME IInv, Prepare
    PROVE  Unparked
<1>1. ASSUME \/ \E st, n, out : Ready(st, n, out)
             \/ \E pc \in {"grow", "read"} : \E old, out : Continue(pc, old, out)
      PROVE  Unparked
  BY <1>1, ReadyIsUnparked, ContinueIsUnparked
<1>2. ASSUME NEW st, NEW b, Fail(st, b) PROVE Unparked
  BY <1>1, <1>2 DEF Fail, Conclude
<1>3. CASE poll_peek
  BY <1>1, <1>3 DEF poll_peek
<1>4. CASE peek_exact_enter
  BY <1>1, <1>4 DEF peek_exact_enter
<1>5. CASE peek_exact_resize
  BY <1>1, <1>5 DEF peek_exact_resize
<1>6. CASE peek_to_end_enter
  BY <1>1, <1>6 DEF peek_to_end_enter
<1>7. CASE peek_to_string_enter
  BY <1>1, <1>7 DEF peek_to_string_enter
<1>8. CASE grow_peek_buffer
  BY <1>1, <1>2, <1>8 DEF grow_peek_buffer
<1>9. CASE fill_peek_buf_enter
  BY <1>1, <1>9 DEF fill_peek_buf_enter
<1> QED
  BY <1>3, <1>4, <1>5, <1>6, <1>7, <1>8, <1>9 DEF Prepare

LEMMA OutcomeIsUnparked ==
    ASSUME IInv, Outcome
    PROVE  Unparked
<1>1. ASSUME \/ \E st, n, out : Ready(st, n, out)
             \/ \E pc \in {"grow", "read"} : \E old, out : Continue(pc, old, out)
      PROVE  Unparked
  BY <1>1, ReadyIsUnparked, ContinueIsUnparked
<1>2. ASSUME NEW st, NEW b, Fail(st, b) \/ Conclude(st, b) PROVE Unparked
  BY <1>1, <1>2 DEF Fail, Conclude
<1>3. CASE poll_read
  BY <1>1, <1>3 DEF poll_read, read_buffered, read_top_up, read_inner
<1>4. CASE poll_fill_buf
  BY <1>1, <1>4 DEF poll_fill_buf
<1>5. CASE poll_peek_read
  BY <1>1, <1>5 DEF poll_peek_read
<1>6. CASE peek_exact_read
  BY <1>1, <1>6 DEF peek_exact_read
<1>7. CASE peek_whole_read
  BY <1>1, <1>2, <1>7 DEF peek_whole_read
<1>8. CASE fill_peek_buf_read
  BY <1>1, <1>8 DEF fill_peek_buf_read
<1> QED
  BY <1>3, <1>4, <1>5, <1>6, <1>7, <1>8 DEF Outcome

(* A reader that says Pending has kept the waker, or used it. *)
LEMMA PendingIsWatched == ASSUME ReaderPends PROVE armed' \/ woken'
BY DEF ReaderPends

LEMMA WatchedStep ==
    ASSUME ~WouldBlocks, IInv, ParkedIsWatched, [Next]_vars
    PROVE  ParkedIsWatched'
<1>1. ASSUME Unparked \/ ReaderPends PROVE ParkedIsWatched'
  BY <1>1, PendingIsWatched DEF Unparked, ParkedIsWatched
<1>2. CASE UNCHANGED vars
  BY <1>2 DEF vars, ParkedIsWatched
<1>3. CASE Arrive \/ Close
  BY <1>3 DEF Arrive, Close, Send, HangUp, Wake, ParkedIsWatched
<1>4. CASE Call
  BY <1>1, <1>4, CallIsUnparked
<1>5. CASE poll
  <2>1. Unparked
    BY <1>5, Facts DEF poll, FutureType, Unparked
  <2> QED
    BY <1>1, <2>1
<1>6. CASE drop_future
  BY <1>1, <1>6, NoFutureTyped DEF drop_future, Unparked
<1>7. CASE Prepare
  BY <1>1, <1>7, PrepareIsUnparked
<1>8. CASE Outcome
  BY <1>1, <1>8, OutcomeIsUnparked
<1>9. CASE NoOutcome
  <2>1. CASE delegated_pends \/ pending
    BY <1>1, <2>1 DEF delegated_pends, pending
  <2>2. CASE poll_peek_blocked
    BY <1>1, <2>2 DEF poll_peek_blocked, ReaderWouldBlock
  <2>3. CASE poll_peek_again
    BY <1>2, <2>3, AgainIsStutter
  <2>4. CASE interrupted
    BY <1>1, <2>4, ContinueIsUnparked DEF interrupted
  <2> QED
    BY <1>9, <2>1, <2>2, <2>3, <2>4 DEF NoOutcome
<1> QED
  BY <1>2, <1>3, <1>4, <1>5, <1>6, <1>7, <1>8, <1>9 DEF Next

(* A future that is parked has its waker with the reader, or a wake-up on  *)
(* its way.                                                                *)
THEOREM ParkedIsWoken ==
    ASSUME ~WouldBlocks
    PROVE  Spec => []ParkedIsWatched
<1>1. Init => ParkedIsWatched
  BY NoFutureTyped DEF Init, ParkedIsWatched
<1>2. IInv /\ ParkedIsWatched /\ [Next]_vars => ParkedIsWatched'
  BY WatchedStep
<1> QED
  BY <1>1, <1>2, Invariance, PTL DEF Spec
=============================================================================
