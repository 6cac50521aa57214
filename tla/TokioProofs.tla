---------------------------- MODULE TokioProofs ----------------------------
(***************************************************************************)
(* TokioPeekable behaves like FuturePeekable: every step of it, seen       *)
(* without ReadBufs, is a step of the other wrapper, so what is proved of  *)
(* that one holds of this one.  What the steps need to be told apart from  *)
(* their twins is little: that a ReadBuf has as much room as the twin's    *)
(* slice is long and holds nothing of this call yet (ReadBufIntact), and   *)
(* that PeekExact asks for no more than is missing.                        *)
(***************************************************************************)
EXTENDS TokioPeekable, OperatorProofs

-----------------------------------------------------------------------------
(* The inductive invariant. *)

(* The calls that are given a ReadBuf. *)
Handing == {"read"} \cup Peeks

Futures == {"none", "read", "fill_buf", "peek", "peek_buf", "peek_exact",
            "peek_to_end", "peek_to_string", "fill_peek_buf"}

Places == {"none", "ready", "parked", "enter", "grow", "read"}

FutRecord ==
    [op : Futures, pc : Places, want : Nat, old : Nat, first : BOOLEAN,
     out : Seq(Nat), rb : [capacity : Nat, filled : Seq(Nat)], before : Nat]

(* Nothing of this call is in the ReadBuf yet, and it has room for what    *)
(* was asked for.                                                          *)
HandedBuf ==
    /\ Len(fut.rb.filled) = fut.before
    /\ fut.op \in Handing => fut.rb.capacity = fut.before + fut.want

(* A peek that asks the reader kept what was peeked before. *)
PeekTail ==
    fut.pc = "read" /\ fut.op \in Peeks \cup {"peek_exact"}
        => fut.old <= Len(buffer)

(* PeekExact asks for what is missing, and no more. *)
ExactTail ==
    fut.op = "peek_exact" =>
        /\ Len(fut.out) <= fut.want
        /\ fut.pc = "read" => Len(buffer) - fut.old = fut.want - Len(fut.out)

IInv ==
    /\ buffer \in Seq(Nat) /\ rpos \in Nat
    /\ fut \in FutRecord
    /\ HandedBuf
    /\ PeekTail
    /\ ExactTail

(* FillPeekBuf wants what the buffer may hold. *)
CapTyped == cap \in Nat /\ buf_cap \in BufCaps

-----------------------------------------------------------------------------
(* ReadBufs. *)

(* What a ReadBuf has grown by is what was put. *)
LEMMA GrownByPut ==
    ASSUME NEW f \in Seq(Nat), NEW s \in Seq(Nat)
    PROVE  SubSeq(f \o s, Len(f) + 1, Len(f \o s)) = s
<1>1. PICK a \in Nat, n \in Nat : a = Len(f) /\ n = Len(s)
  BY LenProperties
<1>2. /\ f \o s \in Seq(Nat) /\ Len(f \o s) = a + n
      /\ \A i \in 1..(a + n) : (f \o s)[i] = IF i <= a THEN f[i] ELSE s[i - a]
  BY <1>1, ConcatProperties
<1> DEFINE b == f \o s
<1>3. SubSeq(b, a + 1, Len(b)) = Drain(b, a)
  BY DEF Drain
<1> HIDE DEF b
<1>4. b \in Seq(Nat) /\ Len(b) = a + n /\ a \in 0..Len(b) /\ Len(b) - a = n
  BY <1>2 DEF b
<1>5. /\ Drain(b, a) \in Seq(Nat) /\ Len(Drain(b, a)) = n
      /\ \A i \in 1..n : Drain(b, a)[i] = b[a + i]
  BY <1>4, DrainFacts
<1>6. \A i \in 1..n : b[a + i] = s[i]
  <2> TAKE i \in 1..n
  <2>1. a + i \in 1..(a + n) /\ ~(a + i <= a) /\ (a + i) - a = i
    OBVIOUS
  <2> QED
    BY <1>2, <2>1 DEF b
<1>7. Drain(b, a) = s
  BY <1>1, <1>5, <1>6, SeqEqual
<1> QED
  BY <1>1, <1>3, <1>7 DEF b

LEMMA PutTogether ==
    ASSUME NEW f \in Seq(Nat), NEW s \in Seq(Nat), NEW t \in Seq(Nat)
    PROVE  (f \o s) \o t = f \o (s \o t) /\ s \o t \in Seq(Nat)
<1>1. PICK a \in Nat, n \in Nat, m \in Nat :
           a = Len(f) /\ n = Len(s) /\ m = Len(t)
  BY LenProperties
<1>2. /\ f \o s \in Seq(Nat) /\ Len(f \o s) = a + n
      /\ \A i \in 1..(a + n) : (f \o s)[i] = IF i <= a THEN f[i] ELSE s[i - a]
  BY <1>1, ConcatProperties
<1>3. /\ s \o t \in Seq(Nat) /\ Len(s \o t) = n + m
      /\ \A i \in 1..(n + m) : (s \o t)[i] = IF i <= n THEN s[i] ELSE t[i - n]
  BY <1>1, ConcatProperties
<1> DEFINE fs == f \o s
           st == s \o t
<1> HIDE DEF fs, st
<1>4. /\ fs \o t \in Seq(Nat) /\ Len(fs \o t) = (a + n) + m
      /\ \A i \in 1..((a + n) + m) :
           (fs \o t)[i] = IF i <= a + n THEN fs[i] ELSE t[i - (a + n)]
  BY <1>1, <1>2, ConcatProperties DEF fs
<1>5. /\ f \o st \in Seq(Nat) /\ Len(f \o st) = a + (n + m)
      /\ \A i \in 1..(a + (n + m)) :
           (f \o st)[i] = IF i <= a THEN f[i] ELSE st[i - a]
  BY <1>1, <1>3, ConcatProperties DEF st
<1>6. ASSUME NEW i \in 1..((a + n) + m) PROVE (fs \o t)[i] = (f \o st)[i]
  <2>1. i \in 1..(a + (n + m))
    OBVIOUS
  <2>2. CASE i <= a
    <3>1. i \in 1..(a + n)
      BY <2>2
    <3> QED
      BY <1>2, <1>4, <1>5, <2>1, <2>2, <3>1 DEF fs
  <2>3. CASE ~(i <= a) /\ i <= a + n
    <3>1. i \in 1..(a + n) /\ i - a \in 1..(n + m) /\ i - a <= n
      BY <2>3
    <3> QED
      BY <1>2, <1>3, <1>4, <1>5, <2>1, <2>3, <3>1 DEF fs, st
  <2>4. CASE ~(i <= a + n)
    <3>1. /\ i - a \in 1..(n + m) /\ ~(i - a <= n) /\ ~(i <= a)
          /\ (i - a) - n = i - (a + n)
      BY <2>4
    <3> QED
      BY <1>3, <1>4, <1>5, <2>1, <2>4, <3>1 DEF st
  <2> QED
    BY <2>2, <2>3, <2>4
<1>7. (a + n) + m = a + (n + m)
  OBVIOUS
<1>8. fs \o t = f \o st
  BY <1>4, <1>5, <1>6, <1>7, SeqEqual
<1> QED
  BY <1>3, <1>8 DEF fs, st

(* What a call answers that puts s, whatever the ReadBuf held before. *)
LEMMA FilledIs ==
    ASSUME IInv, fut.op \in Handing, NEW s \in Seq(Nat),
           Filled(put_slice(fut.rb, s))
    PROVE  Ready("ok", Len(s), s)
<1>1. fut.rb \in [capacity : Nat, filled : Seq(Nat)]
  BY DEF IInv, FutRecord
<1>2. put_slice(fut.rb, s).filled = fut.rb.filled \o s
  BY <1>1 DEF put_slice
<1>3. /\ fut.rb.filled \in Seq(Nat) /\ fut.before = Len(fut.rb.filled)
  BY <1>1 DEF IInv, HandedBuf
<1>4. SubSeq(put_slice(fut.rb, s).filled, fut.before + 1,
             Len(put_slice(fut.rb, s).filled)) = s
  BY <1>2, <1>3, GrownByPut
<1> QED
  BY <1>4 DEF Filled

LEMMA FilledTwiceIs ==
    ASSUME IInv, fut.op \in Handing, NEW s \in Seq(Nat), NEW t \in Seq(Nat),
           Filled(put_slice(put_slice(fut.rb, s), t))
    PROVE  Ready("ok", Len(s \o t), s \o t)
<1>1. fut.rb \in [capacity : Nat, filled : Seq(Nat)]
  BY DEF IInv, FutRecord
<1>2. put_slice(put_slice(fut.rb, s), t).filled = (fut.rb.filled \o s) \o t
  BY <1>1 DEF put_slice
<1>3. put_slice(fut.rb, s \o t).filled = fut.rb.filled \o (s \o t)
  BY <1>1 DEF put_slice
<1>4. /\ s \o t \in Seq(Nat)
      /\ put_slice(put_slice(fut.rb, s), t).filled
           = put_slice(fut.rb, s \o t).filled
  BY <1>1, <1>2, <1>3, PutTogether
<1>5. Filled(put_slice(fut.rb, s \o t))
  BY <1>4 DEF Filled
<1> QED
  BY <1>4, <1>5, FilledIs

LEMMA RoomIs ==
    ASSUME IInv, fut.op \in Handing
    PROVE  Remaining(fut.rb) = fut.want
<1>1. PICK c \in Nat, b \in Nat, w \in Nat :
           c = fut.rb.capacity /\ b = fut.before /\ w = fut.want
  BY DEF IInv, FutRecord
<1>2. c = b + w /\ Len(fut.rb.filled) = b
  BY <1>1 DEF IInv, HandedBuf
<1>3. c - b = w
  BY <1>2
<1> QED
  BY <1>1, <1>2, <1>3 DEF Remaining

(* The ReadBuf over the tail has room for the tail. *)
LEMMA SpareIs ==
    ASSUME NEW len \in Nat, NEW old \in Nat, len = Len(buffer), old = fut.old
    PROVE  Remaining(Spare) = len - old
<1>1. [i \in 1..0 |-> Zero] \in [1..0 -> Nat]
  BY DEF Zero
<1>2. Len([i \in 1..0 |-> Zero]) = 0
  BY <1>1, FunctionIsSeq
<1>3. Remaining(Spare) = (0 + (len - old)) - 0
  BY <1>2 DEF Remaining, Spare, ReadBuf
<1> QED
  BY <1>3

-----------------------------------------------------------------------------
(* The twin's operators. *)

LEMMA SameStorage ==
    /\ \A p, n : Twin!Slice(p, n) = Slice(p, n)
    /\ \A a, b : Twin!Smaller(a, b) = Smaller(a, b)
    /\ \A a, b : Twin!Larger(a, b) = Larger(a, b)
    /\ \A b, len : Twin!Resize(b, len) = Resize(b, len)
    /\ \A b, len : Twin!Truncate(b, len) = Truncate(b, len)
    /\ \A b, k : Twin!Drain(b, k) = Drain(b, k)
    /\ \A b, at, r, n : Twin!Store(b, at, r, n) = Store(b, at, r, n)
    /\ \A c, len : Twin!Allocate(c, len) = Allocate(c, len)
    /\ \A len : Twin!Fits(len) = Fits(len) /\ Twin!Refuses(len) = Refuses(len)
    /\ \A bc : Twin!FreshCapacity(bc) = FreshCapacity(bc)
    /\ Twin!None = None /\ Twin!Zero = Zero
<1> USE DEF Twin!Slice, Slice, Twin!Smaller, Smaller, Twin!Larger, Larger,
      Twin!Resize, Resize, Twin!Truncate, Truncate, Twin!Drain, Drain,
      Twin!Store, Store, Twin!Allocate, Allocate, Twin!Fits, Fits,
      Twin!Refuses, Refuses, Twin!FreshCapacity, FreshCapacity,
      Twin!None, None, Twin!Zero, Zero
<1> QED
  BY Zenon

LEMMA SameGrowths ==
    /\ Twin!Growths = Growths
    /\ \A len, g : Twin!GrowsBy(len, g) = GrowsBy(len, g)
    /\ \A len : Twin!CannotGrow(len) = CannotGrow(len)
<1>1. Twin!Halved = Halved
  BY DEF Twin!Halved, Halved
<1>2. Twin!Growths = Growths
  BY <1>1 DEF Twin!Growths, Growths
<1> QED
  BY <1>2, SameStorage
  DEF Twin!GrowsBy, GrowsBy, Twin!CannotGrow, CannotGrow

LEMMA SameText ==
    /\ \A s : Twin!Valid(s) = Valid(s)
    /\ \A s : Twin!ValidUpTo(s) = ValidUpTo(s)
    /\ \A s : Twin!DefinitelyInvalid(s) = DefinitelyInvalid(s)
    /\ \A b : Twin!Spelt(b) = Spelt(b)
<1>1. \A c : Twin!Width(c) = Width(c)
  BY DEF Twin!Width, Width
<1>2. \A s : Twin!Valid(s) = Valid(s)
  BY <1>1 DEF Twin!Valid, Valid
<1>3. \A S : Twin!Max(S) = Max(S)
  BY DEF Twin!Max, Max
<1>4. \A s : Twin!ValidUpTo(s) = ValidUpTo(s)
  BY <1>2, <1>3 DEF Twin!ValidUpTo, ValidUpTo
<1>5. \A s : Twin!DefinitelyInvalid(s) = DefinitelyInvalid(s)
  BY <1>1, <1>2, <1>4
  DEF Twin!DefinitelyInvalid, DefinitelyInvalid, Twin!Incomplete, Incomplete
<1>6. \A b : Twin!Spelt(b) = Spelt(b)
  BY SameStorage DEF Twin!Spelt, Spelt
<1> QED
  BY <1>2, <1>4, <1>5, <1>6

(* The reader, the far end and the waker are the same ones. *)
LEMMA SameReader ==
    /\ \A len, n : Twin!MayRead(len, n) <=> MayRead(len, n)
    /\ \A n : Twin!Advance(n) <=> Advance(n)
    /\ Twin!ReaderFails <=> ReaderFails
    /\ Twin!ReaderPends <=> ReaderPends
    /\ Twin!ReaderWouldBlock <=> ReaderWouldBlock
    /\ Twin!ReaderShows <=> ReaderShows
    /\ Twin!RollBack <=> RollBack
    /\ \A len : Twin!ResizeTo(len) <=> ResizeTo(len)
<1> USE SameStorage
    DEF Twin!inner, inner, Twin!waking, waking, TwinFut
<1>1. Twin!ReaderFails <=> ReaderFails
  BY DEF Twin!ReaderFails, ReaderFails
<1> QED
  BY <1>1 DEF Twin!MayRead, MayRead, Twin!Advance, Advance,
  Twin!ReaderPends, ReaderPends, Twin!ReaderWouldBlock, ReaderWouldBlock,
  Twin!ReaderShows, ReaderShows, Twin!RollBack, RollBack,
  Twin!ResizeTo, ResizeTo

LEMMA SameTuples ==
    /\ UNCHANGED inner => UNCHANGED Twin!inner
    /\ UNCHANGED far => UNCHANGED Twin!far
    /\ UNCHANGED waking => UNCHANGED Twin!waking
    /\ UNCHANGED given => UNCHANGED Twin!given
    /\ UNCHANGED storage => UNCHANGED Twin!storage
    /\ UNCHANGED client => UNCHANGED Twin!client
    /\ UNCHANGED fut => UNCHANGED TwinFut
    /\ UNCHANGED ret => UNCHANGED TwinRet
BY DEF inner, far, waking, given, storage, client, Twin!inner, Twin!far,
   Twin!waking, Twin!given, Twin!storage, Twin!client, TwinFut, TwinRet

LEMMA TwinFields ==
    /\ TwinFut.op = AsPeek(fut.op) /\ TwinFut.pc = fut.pc
    /\ TwinFut.want = fut.want /\ TwinFut.old = fut.old
    /\ TwinFut.first = fut.first /\ TwinFut.out = fut.out
BY DEF TwinFut

LEMMA AnswerTwin ==
    ASSUME NEW op, NEW st, NEW want, NEW n, NEW out, Answer(op, st, want, n, out)
    PROVE  TwinRet' = [op |-> AsPeek(op), st |-> st, want |-> want, n |-> n,
                       out |-> out]
BY DEF Answer, TwinRet

LEMMA ReadyTwin ==
    ASSUME NEW st, NEW n, NEW out, Ready(st, n, out)
    PROVE  Twin!Ready(st, n, out)
<1>1. TwinRet' = [op |-> TwinFut.op, st |-> st, want |-> TwinFut.want, n |-> n,
                  out |-> out]
  BY TwinFields, AnswerTwin DEF Ready
<1>2. TwinFut' = Twin!NoFuture
  BY DEF Ready, TwinFut, NoFuture, Twin!NoFuture, AsPeek
<1> QED
  BY <1>1, <1>2 DEF Twin!Ready, Twin!Answer

LEMMA PendingTwin ==
    ASSUME IInv, Pending
    PROVE  Twin!Pending
<1>1. /\ fut'.op = fut.op /\ fut'.pc = "parked" /\ fut'.want = fut.want
      /\ fut'.old = fut.old /\ fut'.first = fut.first /\ fut'.out = fut.out
  BY DEF IInv, FutRecord, Pending
<1>2. TwinFut' = [op |-> AsPeek(fut.op), pc |-> "parked", want |-> fut.want,
                  old |-> fut.old, first |-> fut.first, out |-> fut.out]
  BY <1>1 DEF TwinFut
<1>3. TwinFut' = [TwinFut EXCEPT !.pc = "parked"]
  BY <1>2 DEF TwinFut
<1>4. TwinRet' = TwinRet
  BY DEF Pending, TwinRet
<1> QED
  BY <1>3, <1>4 DEF Twin!Pending

(* Fields set together are set one after the other. *)
LEMMA ContinueTwin ==
    ASSUME IInv, NEW pc, NEW old, NEW out, Continue(pc, old, out)
    PROVE  Twin!Continue(pc, old, out)
<1> PICK no : no = FALSE
  OBVIOUS
<1> DEFINE r0 == [op |-> AsPeek(fut.op), pc |-> fut.pc, want |-> fut.want,
                  old |-> fut.old, first |-> fut.first, out |-> fut.out]
           r1 == [op |-> AsPeek(fut.op), pc |-> pc, want |-> fut.want,
                  old |-> fut.old, first |-> fut.first, out |-> fut.out]
           r2 == [op |-> AsPeek(fut.op), pc |-> pc, want |-> fut.want,
                  old |-> old, first |-> fut.first, out |-> fut.out]
           r3 == [op |-> AsPeek(fut.op), pc |-> pc, want |-> fut.want,
                  old |-> old, first |-> fut.first, out |-> out]
           r4 == [op |-> AsPeek(fut.op), pc |-> pc, want |-> fut.want,
                  old |-> old, first |-> no, out |-> out]
<1>1. /\ [r0 EXCEPT !.pc = pc] = r1 /\ [r1 EXCEPT !.old = old] = r2
      /\ [r2 EXCEPT !.out = out] = r3
  OBVIOUS
<1>2. [r3 EXCEPT !.first = no] = r4
  OBVIOUS
<1>3. /\ fut'.op = fut.op /\ fut'.pc = pc /\ fut'.want = fut.want
      /\ fut'.old = old /\ fut'.first = no /\ fut'.out = out
  BY DEF IInv, FutRecord, Continue
<1>4. TwinFut' = r4 /\ TwinFut = r0
  BY <1>3 DEF TwinFut
<1>5. TwinRet' = TwinRet
  BY DEF Continue, TwinRet
<1> HIDE DEF r0, r1, r2, r3, r4
<1>6. [TwinFut EXCEPT !.pc = pc, !.old = old, !.out = out, !.first = no] = r4
  BY <1>1, <1>2, <1>4
<1>7. TwinFut' = [TwinFut EXCEPT !.pc = pc, !.old = old, !.out = out,
                                 !.first = FALSE]
  BY <1>4, <1>6
<1> QED
  BY <1>5, <1>7 DEF Twin!Continue

LEMMA CreateTwin ==
    ASSUME NEW op, NEW want, NEW old, NEW rb, Create(op, want, old, rb)
    PROVE  Twin!Create(AsPeek(op), want, old)
<1> PICK yes : yes = TRUE
  OBVIOUS
<1> DEFINE r0 == [op |-> "none", pc |-> "none", want |-> 0,
                  old |-> 0, first |-> yes, out |-> <<>>]
           r1 == [op |-> AsPeek(op), pc |-> "none", want |-> 0,
                  old |-> 0, first |-> yes, out |-> <<>>]
           r2 == [op |-> AsPeek(op), pc |-> "ready", want |-> 0,
                  old |-> 0, first |-> yes, out |-> <<>>]
           r3 == [op |-> AsPeek(op), pc |-> "ready", want |-> want,
                  old |-> 0, first |-> yes, out |-> <<>>]
           r4 == [op |-> AsPeek(op), pc |-> "ready", want |-> want,
                  old |-> old, first |-> yes, out |-> <<>>]
<1>1. /\ [r0 EXCEPT !.op = AsPeek(op)] = r1
      /\ [r1 EXCEPT !.pc = "ready"] = r2
      /\ [r2 EXCEPT !.want = want] = r3
      /\ [r3 EXCEPT !.old = old] = r4
  <2>1. [r0 EXCEPT !.op = AsPeek(op)] = r1
    BY ONLY TRUE
  <2>2. [r1 EXCEPT !.pc = "ready"] = r2
    BY ONLY TRUE
  <2>3. [r2 EXCEPT !.want = want] = r3
    BY ONLY TRUE
  <2>4. [r3 EXCEPT !.old = old] = r4
    BY ONLY TRUE
  <2> QED
    BY <2>1, <2>2, <2>3, <2>4
<1>2. /\ fut'.op = op /\ fut'.pc = "ready" /\ fut'.want = want
      /\ fut'.old = old /\ fut'.first = yes /\ fut'.out = <<>>
  BY DEF Create, NoFuture
<1>3. TwinFut' = r4
  BY <1>2 DEF TwinFut
<1>4. Twin!NoFuture = r0
  BY DEF Twin!NoFuture
<1>5. TwinRet' = TwinRet
  BY DEF Create, TwinRet
<1>6. Twin!Free
  BY DEF Create, Free, Twin!Free, TwinFut
<1> HIDE DEF r0, r1, r2, r3, r4
<1>7. TwinFut' = [Twin!NoFuture EXCEPT !.op = AsPeek(op), !.pc = "ready",
                                       !.want = want, !.old = old]
  BY <1>1, <1>3, <1>4
<1> QED
  BY <1>5, <1>6, <1>7
  DEF Create, inner, far, waking, given, storage, client, Twin!Create,
      Twin!inner, Twin!far, Twin!waking, Twin!given, Twin!storage, Twin!client

-----------------------------------------------------------------------------
(* The steps, one by one: outside of polls. *)

LEMMA TwinGuards ==
    /\ \A op, pc : op \notin Peeks /\ At(op, pc) => Twin!At(op, pc)
    /\ fut.op \in Peeks => TwinFut.op \in Twin!Peeks
    /\ InRead(Peeks) => Twin!InRead(Twin!Peeks)
    /\ InRead(Loops) => Twin!InRead(Twin!Loops)
    /\ InRead(Wholes) => Twin!InRead(Twin!Wholes)
    /\ InRead(Loops \cup {"fill_peek_buf"})
         => Twin!InRead(Twin!Loops \cup {"fill_peek_buf"})
    /\ fut.op \in Wholes => TwinFut.op \in Twin!Wholes /\ TwinFut.op = fut.op
<1> USE TwinFields
<1>1. \A op, pc : op \notin Peeks /\ At(op, pc) => Twin!At(op, pc)
  BY DEF At, Twin!At, AsPeek, Peeks
<1> QED
  BY <1>1 DEF AsPeek, InRead, Twin!InRead, Peeks, Twin!Peeks, Loops,
     Twin!Loops, Wholes, Twin!Wholes

LEMMA WorldTwin ==
    /\ Arrive => Twin!Arrive
    /\ Close => Twin!Close
<1>1. Arrive => Twin!Arrive
  BY DEF Arrive, Twin!Arrive, Send, Twin!Send, Wake, Twin!Wake, inner, given,
     storage, client, Twin!inner, Twin!given, Twin!storage, Twin!client,
     TwinFut, TwinRet
<1>2. Close => Twin!Close
  BY DEF Close, Twin!Close, HangUp, Twin!HangUp, Wake, Twin!Wake, inner, given,
     storage, client, Twin!inner, Twin!given, Twin!storage, Twin!client,
     TwinFut, TwinRet
<1> QED
  BY <1>1, <1>2

LEMMA PollTwin == IInv /\ poll => Twin!poll
<1> SUFFICES ASSUME IInv, poll PROVE Twin!poll
  OBVIOUS
<1>1. /\ fut'.op = fut.op /\ fut'.pc = "enter" /\ fut'.want = fut.want
      /\ fut'.old = fut.old /\ fut'.first = fut.first /\ fut'.out = fut.out
  BY DEF IInv, FutRecord, poll
<1>2. TwinFut' = [op |-> AsPeek(fut.op), pc |-> "enter", want |-> fut.want,
                  old |-> fut.old, first |-> fut.first, out |-> fut.out]
  BY <1>1 DEF TwinFut
<1>3. TwinFut' = [TwinFut EXCEPT !.pc = "enter"]
  BY <1>2 DEF TwinFut
<1>4. TwinRet' = TwinRet
  BY DEF poll, TwinRet
<1>5. Twin!Suspended
  BY TwinFields DEF poll, Suspended, Twin!Suspended
<1> QED
  BY <1>3, <1>4, <1>5 DEF poll, Twin!poll, inner, far, given, storage, client,
     Twin!inner, Twin!far, Twin!given, Twin!storage, Twin!client

LEMMA DropTwin == drop_future => Twin!drop_future
<1> SUFFICES ASSUME drop_future PROVE Twin!drop_future
  OBVIOUS
<1>1. TwinFut' = Twin!NoFuture
  BY DEF drop_future, TwinFut, NoFuture, Twin!NoFuture, AsPeek
<1>2. TwinRet' = TwinRet
  BY DEF drop_future, TwinRet
<1>3. Twin!Suspended
  BY TwinFields DEF drop_future, Suspended, Twin!Suspended
<1> QED
  BY <1>1, <1>2, <1>3 DEF drop_future, Twin!drop_future, inner, far, waking,
     given, storage, client, Twin!inner, Twin!far, Twin!waking, Twin!given,
     Twin!storage, Twin!client

LEMMA ConsumeTwin ==
    /\ \A amt : BufRead_consume(amt) => Twin!BufRead_consume(amt)
    /\ consume => Twin!consume
    /\ consume_in_place => Twin!consume_in_place
<1> USE SameStorage, TwinFields
    DEF inner, far, waking, given, storage, client, Twin!inner, Twin!far,
        Twin!waking, Twin!given, Twin!storage, Twin!client
<1>1. Free => Twin!Free
  BY DEF Free, Twin!Free
<1>2. UNCHANGED fut => UNCHANGED TwinFut
  BY DEF TwinFut
<1>3. ASSUME NEW amt, BufRead_consume(amt) PROVE Twin!BufRead_consume(amt)
  <2>1. Twin!Answer("BufRead_consume", "ok", amt, 0, <<>>)
    BY ONLY <1>3, AnswerTwin DEF BufRead_consume, Twin!Answer, AsPeek
  <2> QED
    BY <1>1, <1>2, <1>3, <2>1
    DEF BufRead_consume, Twin!BufRead_consume, FromBuffer, Twin!FromBuffer
<1>4. ASSUME consume PROVE Twin!consume
  <2>1. Twin!Answer("consume", "ok", 0, Len(buffer), buffer)
    BY ONLY <1>4, AnswerTwin DEF consume, Twin!Answer, AsPeek
  <2> QED
    BY <1>1, <1>4, <2>1 DEF consume, Twin!consume, TwinFut
<1>5. ASSUME consume_in_place PROVE Twin!consume_in_place
  <2>1. Twin!Answer("consume_in_place", "ok", 0, 0, <<>>)
    BY ONLY <1>5, AnswerTwin DEF consume_in_place, Twin!Answer, AsPeek
  <2> QED
    BY <1>1, <1>2, <1>5, <2>1 DEF consume_in_place, Twin!consume_in_place
<1> QED
  BY <1>3, <1>4, <1>5

LEMMA CallTwin == Call => Twin!Call
<1> USE DEF AsPeek
<1>1. ASSUME NEW pre \in 0..MaxFilled, NEW room \in 0..MaxWant,
             read(pre, room) \/ peek(pre, room)
      PROVE  Twin!read(room) \/ Twin!peek(room)
  BY <1>1, CreateTwin DEF read, peek, Twin!read, Twin!peek
<1>2. ASSUME NEW want \in 0..MaxWant, peek_buf(want) \/ peek_exact(want)
      PROVE  Twin!peek(want) \/ Twin!peek_exact(want)
  BY <1>2, CreateTwin DEF peek_buf, peek_exact, Twin!peek, Twin!peek_exact
<1>3. fill_buf => Twin!fill_buf
  BY CreateTwin DEF fill_buf, Twin!fill_buf
<1>4. peek_to_end => Twin!peek_to_end
  BY CreateTwin DEF peek_to_end, Twin!peek_to_end
<1>5. peek_to_string => Twin!peek_to_string
  BY CreateTwin DEF peek_to_string, Twin!peek_to_string
<1>6. fill_peek_buf => Twin!fill_peek_buf
  BY CreateTwin DEF fill_peek_buf, Twin!fill_peek_buf
<1> QED
  BY <1>1, <1>2, <1>3, <1>4, <1>5, <1>6, ConsumeTwin DEF Call, Twin!Call

-----------------------------------------------------------------------------
(* The polls. *)

LEMMA InvFacts ==
    ASSUME IInv
    PROVE  /\ buffer \in Seq(Nat) /\ Len(buffer) \in Nat /\ rpos \in Nat
           /\ fut.want \in Nat /\ fut.old \in Nat /\ fut.before \in Nat
           /\ fut.out \in Seq(Nat) /\ Len(fut.out) \in Nat
           /\ fut.rb.filled \in Seq(Nat) /\ fut.rb.capacity \in Nat
           /\ Len(fut.rb.filled) \in Nat
           /\ fut.rb \in [capacity : Nat, filled : Seq(Nat)]
<1>1. fut \in FutRecord /\ buffer \in Seq(Nat) /\ rpos \in Nat
  BY DEF IInv
<1>2. /\ fut.rb \in [capacity : Nat, filled : Seq(Nat)]
      /\ fut.want \in Nat /\ fut.old \in Nat /\ fut.before \in Nat
      /\ fut.out \in Seq(Nat)
  BY <1>1 DEF FutRecord
<1>3. fut.rb.filled \in Seq(Nat) /\ fut.rb.capacity \in Nat
  BY <1>2
<1> QED
  BY <1>1, <1>2, <1>3, LenProperties

(* The room that is left when s has been put. *)
LEMMA RoomAfterPut ==
    ASSUME IInv, fut.op \in Handing, NEW s \in Seq(Nat)
    PROVE  Remaining(put_slice(fut.rb, s)) = fut.want - Len(s)
<1>1. PICK b \in Nat, w \in Nat, l \in Nat, f \in Seq(Nat) :
           b = fut.before /\ w = fut.want /\ l = Len(s) /\ f = fut.rb.filled
  BY InvFacts, LenProperties
<1>2. fut.rb.capacity = b + w /\ Len(f) = b
  BY <1>1 DEF IInv, HandedBuf
<1>3. Len(f \o s) = Len(f) + Len(s)
  BY ONLY f \in Seq(Nat), s \in Seq(Nat), ConcatProperties
<1>4. /\ put_slice(fut.rb, s).capacity = b + w
      /\ put_slice(fut.rb, s).filled = f \o s
  BY <1>1, <1>2, InvFacts DEF put_slice
<1>5. Remaining(put_slice(fut.rb, s)) = (b + w) - (b + l)
  BY <1>1, <1>2, <1>3, <1>4 DEF Remaining
<1>6. (b + w) - (b + l) = w - l
  OBVIOUS
<1> QED
  BY <1>1, <1>5, <1>6

(* Nothing was put. *)
LEMMA FilledNone ==
    ASSUME IInv, fut.op \in Handing, Filled(fut.rb)
    PROVE  Ready("ok", 0, <<>>)
<1>1. PICK f \in Seq(Nat), b \in Nat :
           f = fut.rb.filled /\ b = Len(f) /\ fut.before = b
  BY InvFacts DEF IInv, HandedBuf
<1>2. b \in 0..Len(f) /\ Len(f) - b = 0
  BY <1>1
<1>3. Drain(f, b) \in Seq(Nat) /\ Len(Drain(f, b)) = 0
  BY <1>2, DrainFacts
<1>4. SubSeq(f, b + 1, Len(f)) = <<>>
  BY <1>3, EmptySeq DEF Drain
<1>5. Len(<<>>) = 0
  BY EmptySeq
<1> QED
  BY <1>1, <1>4, <1>5 DEF Filled

(* The two wrappers ask the reader for the same, and keep the same. *)
LEMMA ReadTwin ==
    ASSUME IInv
    PROVE  /\ Twin!Room = Remaining(Spare)
           /\ \A n : ReadOk(n) => Twin!ReadOk(n)
<1>1. Twin!Room = Len(buffer) - fut.old
  BY TwinFields DEF Twin!Room
<1>2. Remaining(Spare) = Len(buffer) - fut.old
  BY InvFacts, SpareIs
<1>3. ASSUME NEW n, ReadOk(n) PROVE Twin!ReadOk(n)
  BY <1>1, <1>2, <1>3, SameReader, SameStorage, TwinFields
  DEF ReadOk, Twin!ReadOk
<1> QED
  BY <1>1, <1>2, <1>3

LEMMA PollReadTwin == IInv /\ poll_read => Twin!poll_read
<1> SUFFICES ASSUME IInv, poll_read PROVE Twin!poll_read
  OBVIOUS
<1> USE DEF inner, far, waking, given, storage, client, Twin!inner, Twin!far,
        Twin!waking, Twin!given, Twin!storage, Twin!client
<1>1. Twin!At("read", "enter") /\ fut.op \in Handing
  BY TwinGuards DEF poll_read, At, Handing, Peeks
<1>2. Remaining(fut.rb) = fut.want /\ TwinFut.want = fut.want
  BY <1>1, RoomIs, TwinFields
<1>3. CASE read_buffered
  <2> DEFINE s == SubSeq(buffer, 1, fut.want)
  <2>1. fut.want <= Len(buffer) /\ Filled(put_slice(fut.rb, s))
    BY <1>2, <1>3 DEF read_buffered
  <2>2. fut.want \in 0..Len(buffer)
    BY <2>1, InvFacts
  <2>3. s \in Seq(Nat) /\ Len(s) = fut.want
    BY <2>2, InvFacts, PrefixFacts
  <2> HIDE DEF s
  <2>4. Ready("ok", fut.want, s)
    BY <1>1, <2>1, <2>3, FilledIs
  <2>5. Twin!Ready("ok", fut.want, s)
    BY <2>4, ReadyTwin
  <2>6. Twin!read_buffered
    BY <1>2, <1>3, <2>5, SameStorage DEF read_buffered, Twin!read_buffered, s
  <2> QED
    BY <1>1, <2>6 DEF poll_read, Twin!poll_read
<1>4. CASE read_top_up
  <2>1. Remaining(put_slice(fut.rb, buffer)) = fut.want - Len(buffer)
    BY <1>1, InvFacts, RoomAfterPut
  <2>2. CASE /\ ReaderFails \/ ReaderPends
             /\ pos' = pos + Len(buffer)
             /\ Filled(put_slice(fut.rb, buffer))
    <3>1. Twin!Ready("ok", Len(buffer), buffer)
      BY <1>1, <2>2, InvFacts, FilledIs, ReadyTwin
    <3>2. Twin!read_top_up
      BY <1>2, <1>4, <2>2, <3>1, SameReader DEF read_top_up, Twin!read_top_up
    <3> QED
      BY <1>1, <3>2 DEF poll_read, Twin!poll_read
  <2>3. ASSUME NEW n \in 0..(fut.want - Len(buffer)),
               MayRead(fut.want - Len(buffer), n), Advance(n),
               pos' = pos + Len(buffer) + n,
               Filled(put_slice(put_slice(fut.rb, buffer), Slice(rpos, n)))
        PROVE  Twin!poll_read
    <3>1. n \in Nat
      BY InvFacts
    <3>2. Slice(rpos, n) \in Seq(Nat) /\ Len(Slice(rpos, n)) = n
      BY <3>1, InvFacts, SliceFacts
    <3>3. Len(buffer \o Slice(rpos, n)) = Len(buffer) + n
      BY <3>2, InvFacts, ConcatProperties
    <3>4. Twin!Ready("ok", Len(buffer) + n, buffer \o Slice(rpos, n))
      BY <1>1, <2>3, <3>2, <3>3, InvFacts, FilledTwiceIs, ReadyTwin
    <3>5. Twin!read_top_up
      BY <1>2, <1>4, <2>3, <3>4, SameReader, SameStorage
      DEF read_top_up, Twin!read_top_up
    <3> QED
      BY <1>1, <3>5 DEF poll_read, Twin!poll_read
  <2> QED
    BY <1>4, <2>1, <2>2, <2>3 DEF read_top_up
<1>5. CASE read_inner
  <2>1. CASE ReaderFails /\ pos' = pos /\ Ready("err", 0, <<>>)
    <3>1. Twin!read_inner
      BY <1>5, <2>1, ReadyTwin, SameReader DEF read_inner, Twin!read_inner
    <3> QED
      BY <1>1, <3>1 DEF poll_read, Twin!poll_read
  <2>2. ASSUME NEW n \in 0..fut.want, MayRead(fut.want, n), Advance(n),
               pos' = pos + n, Filled(put_slice(fut.rb, Slice(rpos, n)))
        PROVE  Twin!poll_read
    <3>1. n \in Nat
      BY InvFacts
    <3>2. Slice(rpos, n) \in Seq(Nat) /\ Len(Slice(rpos, n)) = n
      BY <3>1, InvFacts, SliceFacts
    <3>3. Twin!Ready("ok", n, Slice(rpos, n))
      BY <1>1, <2>2, <3>2, FilledIs, ReadyTwin
    <3>4. Twin!read_inner
      BY <1>2, <1>5, <2>2, <3>3, SameReader, SameStorage
      DEF read_inner, Twin!read_inner
    <3> QED
      BY <1>1, <3>4 DEF poll_read, Twin!poll_read
  <2> QED
    BY <1>2, <1>5, <2>1, <2>2 DEF read_inner
<1> QED
  BY <1>3, <1>4, <1>5 DEF poll_read

LEMMA FillBufTwin ==
    /\ poll_fill_buf => Twin!poll_fill_buf
    /\ IInv /\ delegated_pends => Twin!delegated_pends
<1> USE DEF inner, far, waking, given, storage, client, Twin!inner, Twin!far,
        Twin!waking, Twin!given, Twin!storage, Twin!client
<1>1. ASSUME poll_fill_buf PROVE Twin!poll_fill_buf
  <2>1. Twin!At("fill_buf", "enter")
    BY <1>1, TwinGuards DEF poll_fill_buf, At, Peeks
  <2>2. CASE buffer # <<>>
    <3>1. Twin!Ready("ok", Len(buffer), buffer)
      BY <1>1, <2>2, ReadyTwin DEF poll_fill_buf
    <3> QED
      BY <1>1, <2>1, <2>2, <3>1 DEF poll_fill_buf, Twin!poll_fill_buf
  <2>3. CASE /\ buffer = <<>>
             /\ ReaderShows
             /\ lent' = ibuf' - rpos
             /\ Ready("ok", ibuf' - rpos, Slice(rpos, ibuf' - rpos))
    <3>1. Twin!Ready("ok", ibuf' - rpos, Slice(rpos, ibuf' - rpos))
      BY <2>3, ReadyTwin
    <3>2. /\ Twin!ReaderShows
          /\ Twin!Slice(rpos, ibuf' - rpos) = Slice(rpos, ibuf' - rpos)
      BY <2>3, SameReader, SameStorage
    <3> QED
      BY <1>1, <2>1, <2>3, <3>1, <3>2 DEF poll_fill_buf, Twin!poll_fill_buf
  <2>4. CASE /\ buffer = <<>> /\ ReaderFails /\ lent' = 0
             /\ Ready("err", 0, <<>>)
    <3>1. Twin!Ready("err", 0, <<>>) /\ Twin!ReaderFails
      BY <2>4, ReadyTwin, SameReader
    <3> QED
      BY <1>1, <2>1, <2>4, <3>1 DEF poll_fill_buf, Twin!poll_fill_buf
  <2> QED
    BY <1>1, <2>2, <2>3, <2>4 DEF poll_fill_buf
<1>2. ASSUME IInv, delegated_pends PROVE Twin!delegated_pends
  <2>1. Twin!At("read", "enter") \/ Twin!At("fill_buf", "enter")
    BY <1>2, TwinGuards DEF delegated_pends, At, Peeks
  <2>2. Twin!Pending /\ Twin!ReaderPends
    BY <1>2, PendingTwin, SameReader DEF delegated_pends
  <2> QED
    BY <1>2, <2>1, <2>2 DEF delegated_pends, Twin!delegated_pends
<1> QED
  BY <1>1, <1>2

LEMMA PollPeekTwin == IInv /\ poll_peek => Twin!poll_peek
<1> SUFFICES ASSUME IInv, poll_peek PROVE Twin!poll_peek
  OBVIOUS
<1> USE DEF inner, far, waking, given, storage, client, Twin!inner, Twin!far,
        Twin!waking, Twin!given, Twin!storage, Twin!client
<1>1. /\ TwinFut.op \in Twin!Peeks /\ TwinFut.pc = "enter"
      /\ fut.op \in Handing
  BY TwinGuards, TwinFields DEF poll_peek, Handing
<1>2. Remaining(fut.rb) = fut.want /\ TwinFut.want = fut.want
  BY <1>1, RoomIs, TwinFields
<1>3. CASE fut.want = 0 /\ Filled(fut.rb) /\ UNCHANGED storage
  <2>1. 0 \in 0..Len(buffer)
    BY InvFacts
  <2>2. SubSeq(buffer, 1, 0) = <<>>
    BY <2>1, InvFacts, PrefixFacts, EmptySeq
  <2>3. Twin!Ready("ok", 0, <<>>)
    BY <1>1, <1>3, FilledNone, ReadyTwin
  <2>4. TwinFut.want = 0 /\ TwinFut.want <= Len(buffer)
    BY <1>2, <1>3, <2>1
  <2>5. Twin!Ready("ok", TwinFut.want, SubSeq(buffer, 1, TwinFut.want))
    BY <2>2, <2>3, <2>4
  <2> QED
    BY <1>1, <1>3, <2>4, <2>5 DEF poll_peek, Twin!poll_peek
<1>4. CASE /\ fut.want > 0 /\ Len(buffer) >= fut.want
           /\ Filled(put_slice(fut.rb, SubSeq(buffer, 1, fut.want)))
           /\ UNCHANGED storage
  <2> DEFINE s == SubSeq(buffer, 1, fut.want)
  <2>1. fut.want \in 0..Len(buffer) /\ fut.want <= Len(buffer)
    BY <1>4, InvFacts
  <2>2. s \in Seq(Nat) /\ Len(s) = fut.want
    BY <2>1, InvFacts, PrefixFacts
  <2>3. Filled(put_slice(fut.rb, s))
    BY <1>4
  <2> HIDE DEF s
  <2>4. Twin!Ready("ok", fut.want, s)
    BY <1>1, <2>2, <2>3, FilledIs, ReadyTwin
  <2> QED
    BY <1>1, <1>2, <1>4, <2>1, <2>4 DEF poll_peek, Twin!poll_peek, s
<1>5. ASSUME Len(buffer) < fut.want PROVE fut.want > Len(buffer)
  BY <1>5, InvFacts
<1>6. CASE /\ Len(buffer) < fut.want /\ Refuses(fut.want)
           /\ Ready("oom", 0, <<>>) /\ UNCHANGED storage
  <2>1. Twin!Ready("oom", 0, <<>>) /\ Twin!Refuses(fut.want)
    BY <1>6, ReadyTwin, SameStorage
  <2> QED
    BY <1>1, <1>2, <1>5, <1>6, <2>1 DEF poll_peek, Twin!poll_peek
<1>7. CASE /\ Len(buffer) < fut.want /\ ResizeTo(fut.want)
           /\ Continue("read", Len(buffer), <<>>)
  <2>1. Twin!Continue("read", Len(buffer), <<>>) /\ Twin!ResizeTo(fut.want)
    BY <1>7, ContinueTwin, SameReader
  <2> QED
    BY <1>1, <1>2, <1>5, <1>7, <2>1 DEF poll_peek, Twin!poll_peek
<1> QED
  BY <1>2, <1>3, <1>4, <1>6, <1>7 DEF poll_peek

LEMMA PeekBlockedTwin == IInv /\ poll_peek_blocked => Twin!poll_peek_blocked
<1> SUFFICES ASSUME IInv, poll_peek_blocked PROVE Twin!poll_peek_blocked
  OBVIOUS
<1> DEFINE b == Truncate(buffer, fut.old)
<1>1. /\ Twin!InRead(Twin!Peeks) /\ fut.op \in Handing /\ TwinFut.old = fut.old
      /\ Twin!RollBack /\ (Twin!ReaderPends \/ Twin!ReaderWouldBlock)
  BY TwinGuards, TwinFields, SameReader
  DEF poll_peek_blocked, Handing, InRead
<1>2. buffer' = b
  BY DEF poll_peek_blocked, RollBack
<1>3. fut.old \in Nat /\ fut.old <= Len(buffer) /\ buffer \in Seq(Nat)
      /\ Len(buffer) \in Nat
  BY InvFacts DEF IInv, PeekTail, poll_peek_blocked, InRead
<1>4. Smaller(fut.old, Len(buffer)) = fut.old
  BY <1>3 DEF Smaller
<1>5. b \in Seq(Nat) /\ Len(b) = fut.old
  BY <1>3, <1>4, TruncateFacts
<1> HIDE DEF b
<1> USE DEF inner, far, waking, given, storage, client, Twin!inner, Twin!far,
        Twin!waking, Twin!given, Twin!storage, Twin!client
<1>6. CASE fut.old > 0 /\ Filled(put_slice(fut.rb, buffer'))
  <2>1. Filled(put_slice(fut.rb, b))
    BY <1>2, <1>6 DEF Filled, Ready, Answer
  <2>2. Twin!Ready("ok", fut.old, b)
    BY <1>1, <1>5, <2>1, FilledIs, ReadyTwin
  <2>3. Twin!Ready("ok", fut.old, buffer')
    BY <1>2, <2>2 DEF Twin!Ready, Twin!Answer
  <2> QED
    BY <1>1, <1>6, <2>3 DEF poll_peek_blocked, Twin!poll_peek_blocked
<1>7. CASE fut.old = 0 /\ Pending
  <2>1. Twin!Pending
    BY <1>7, PendingTwin
  <2> QED
    BY <1>1, <1>7, <2>1 DEF poll_peek_blocked, Twin!poll_peek_blocked
<1> QED
  BY <1>6, <1>7 DEF poll_peek_blocked

(* What ReadOk leaves in the peek buffer. *)
LEMMA ReadLeaves ==
    ASSUME IInv, fut.op \in Peeks \cup {"peek_exact"}, fut.pc = "read",
           NEW n \in 0..Remaining(Spare), ReadOk(n)
    PROVE  /\ n \in Nat /\ fut.old + n \in Nat
           /\ fut.old + n <= Len(buffer)
           /\ buffer' = Truncate(Store(buffer, fut.old, rpos, n), fut.old + n)
           /\ Truncate(Store(buffer, fut.old, rpos, n), fut.old + n) \in Seq(Nat)
           /\ Len(Truncate(Store(buffer, fut.old, rpos, n), fut.old + n))
                = fut.old + n
<1> PICK old \in Nat, len \in Nat, r \in Nat :
         old = fut.old /\ len = Len(buffer) /\ r = rpos
  BY InvFacts
<1>1. Remaining(Spare) = len - old /\ buffer \in Seq(Nat)
  BY SpareIs, InvFacts
<1>2. old <= len
  BY DEF IInv, PeekTail
<1>3. n \in Nat /\ old + n \in Nat /\ old + n <= len
  BY <1>1, <1>2
<1> DEFINE s == Store(buffer, old, r, n)
<1>4. s \in Seq(Nat) /\ Len(s) = len
  BY <1>1, <1>3, StoreFacts
<1> HIDE DEF s
<1>5. Smaller(old + n, Len(s)) = old + n
  BY <1>3, <1>4 DEF Smaller
<1>6. Truncate(s, old + n) \in Seq(Nat) /\ Len(Truncate(s, old + n)) = old + n
  BY <1>3, <1>4, <1>5, TruncateFacts
<1> QED
  BY <1>3, <1>6 DEF ReadOk, s

LEMMA PeekReadTwin == IInv /\ poll_peek_read => Twin!poll_peek_read
<1> SUFFICES ASSUME IInv, poll_peek_read PROVE Twin!poll_peek_read
  OBVIOUS
<1>1. /\ Twin!InRead(Twin!Peeks) /\ fut.op \in Handing /\ TwinFut.old = fut.old
      /\ fut.op \in Peeks /\ fut.pc = "read"
  BY TwinGuards, TwinFields DEF poll_peek_read, Handing, InRead
<1> USE DEF inner, far, waking, given, storage, client, Twin!inner, Twin!far,
        Twin!waking, Twin!given, Twin!storage, Twin!client
<1>2. CASE ReaderFails /\ RollBack /\ Ready("err", 0, <<>>)
  <2>1. Twin!ReaderFails /\ Twin!RollBack /\ Twin!Ready("err", 0, <<>>)
    BY <1>2, SameReader, ReadyTwin
  <2> QED
    BY <1>1, <1>2, <2>1 DEF poll_peek_read, Twin!poll_peek_read
<1>3. ASSUME NEW n \in 0..Remaining(Spare), ReadOk(n),
             Filled(put_slice(fut.rb, buffer'))
      PROVE  Twin!poll_peek_read
  <2> DEFINE b == Truncate(Store(buffer, fut.old, rpos, n), fut.old + n)
  <2>1. buffer' = b /\ b \in Seq(Nat) /\ Len(b) = fut.old + n
    BY <1>1, <1>3, ReadLeaves
  <2> HIDE DEF b
  <2>2. Filled(put_slice(fut.rb, b))
    BY <1>3, <2>1 DEF Filled, Ready, Answer
  <2>3. Twin!Ready("ok", fut.old + n, b)
    BY <1>1, <2>1, <2>2, FilledIs, ReadyTwin
  <2>4. Twin!Ready("ok", fut.old + n, buffer')
    BY <2>1, <2>3 DEF Twin!Ready, Twin!Answer
  <2>5. n \in 0..Twin!Room /\ Twin!ReadOk(n)
    BY <1>3, ReadTwin
  <2> QED
    BY <1>1, <2>4, <2>5 DEF poll_peek_read, Twin!poll_peek_read
<1> QED
  BY <1>2, <1>3 DEF poll_peek_read

LEMMA PeekAgainTwin == poll_peek_again => Twin!poll_peek_again
<1> SUFFICES ASSUME poll_peek_again PROVE Twin!poll_peek_again
  OBVIOUS
<1>1. Twin!InRead(Twin!Peeks) /\ Twin!ReaderFails
  BY TwinGuards, SameReader DEF poll_peek_again
<1> QED
  BY <1>1, SameTuples DEF poll_peek_again, Twin!poll_peek_again, far, given,
     client, storage, Twin!far, Twin!given, Twin!client, Twin!storage

LEMMA ExactTwin ==
    ASSUME IInv
    PROVE  /\ peek_exact_enter => Twin!peek_exact_enter
           /\ peek_exact_resize => Twin!peek_exact_resize
           /\ peek_exact_read => Twin!peek_exact_read
<1> USE TwinFields, SameStorage
    DEF inner, far, waking, given, storage, client, Twin!inner, Twin!far,
        Twin!waking, Twin!given, Twin!storage, Twin!client
<1>1. ASSUME peek_exact_enter PROVE Twin!peek_exact_enter
  <2>1. Twin!At("peek_exact", "enter")
    BY <1>1, TwinGuards DEF peek_exact_enter, Peeks
  <2>2. PICK out : /\ out = IF fut.out = <<>>
                            THEN SubSeq(buffer, 1, Smaller(Len(buffer), fut.want))
                            ELSE fut.out
                   /\ \/ Len(out) = fut.want /\ Ready("ok", fut.want, out)
                      \/ Len(out) # fut.want /\ Continue("grow", 0, out)
    BY <1>1 DEF peek_exact_enter
  <2>3. \/ Len(out) = fut.want /\ Twin!Ready("ok", fut.want, out)
        \/ Len(out) # fut.want /\ Twin!Continue("grow", 0, out)
    BY <2>2, ReadyTwin, ContinueTwin
  <2> QED
    BY <1>1, <2>1, <2>2, <2>3 DEF peek_exact_enter, Twin!peek_exact_enter
<1>2. ASSUME peek_exact_resize PROVE Twin!peek_exact_resize
  <2>1. Twin!At("peek_exact", "grow")
    BY <1>2, TwinGuards DEF peek_exact_resize, Peeks
  <2>2. Twin!Missing = Missing
    BY DEF Twin!Missing, Missing
  <2>3. CASE /\ ResizeTo(Len(buffer) + Missing)
             /\ Continue("read", Len(buffer), fut.out)
    <3>1. /\ Twin!ResizeTo(Len(buffer) + Missing)
          /\ Twin!Continue("read", Len(buffer), fut.out)
      BY <2>3, SameReader, ContinueTwin
    <3> QED
      BY <1>2, <2>1, <2>2, <3>1 DEF peek_exact_resize, Twin!peek_exact_resize
  <2>4. CASE /\ Refuses(Len(buffer) + Missing)
             /\ Ready("oom", 0, fut.out)
             /\ UNCHANGED storage
    <3>1. Twin!Ready("oom", 0, fut.out)
      BY <2>4, ReadyTwin
    <3> QED
      BY <1>2, <2>1, <2>2, <2>4, <3>1
      DEF peek_exact_resize, Twin!peek_exact_resize
  <2> QED
    BY <1>2, <2>3, <2>4 DEF peek_exact_resize
<1>3. ASSUME peek_exact_read PROVE Twin!peek_exact_read
  <2>1. /\ Twin!At("peek_exact", "read") /\ fut.op = "peek_exact"
        /\ fut.pc = "read"
    BY <1>3, TwinGuards DEF peek_exact_read, Peeks, At
  <2>2. CASE ReaderFails /\ RollBack /\ Ready("err", 0, fut.out)
    <3>1. Twin!ReaderFails /\ Twin!RollBack /\ Twin!Ready("err", 0, fut.out)
      BY <2>2, SameReader, ReadyTwin
    <3> QED
      BY <1>3, <2>1, <3>1 DEF peek_exact_read, Twin!peek_exact_read
  <2>3. CASE ReadOk(0) /\ Ready("eof", 0, fut.out)
    <3>1. Twin!ReadOk(0) /\ Twin!Ready("eof", 0, fut.out)
      BY <2>3, ReadTwin, ReadyTwin
    <3> QED
      BY <1>3, <2>1, <3>1 DEF peek_exact_read, Twin!peek_exact_read
  <2>4. ASSUME NEW n \in 1..Remaining(Spare), ReadOk(n),
               NEW out,
               out = fut.out \o SubSeq(buffer', fut.old + 1, fut.old + n),
               \/ Len(out) < fut.want /\ Continue("grow", 0, out)
               \/ Len(out) >= fut.want /\ Ready("ok", fut.want, out)
        PROVE  Twin!peek_exact_read
    <3> DEFINE b == Truncate(Store(buffer, fut.old, rpos, n), fut.old + n)
               piece == SubSeq(b, fut.old + 1, fut.old + n)
    <3>1. n \in 0..Remaining(Spare) /\ n \in 1..Twin!Room /\ Twin!ReadOk(n)
      BY <2>4, ReadTwin
    <3>2. /\ buffer' = b /\ b \in Seq(Nat) /\ Len(b) = fut.old + n /\ n \in Nat
          /\ fut.old + n <= Len(buffer)
      BY <2>1, <2>4, <3>1, ReadLeaves
    <3> HIDE DEF b
    <3> PICK old \in Nat, w \in Nat, f \in Nat, len \in Nat :
             old = fut.old /\ w = fut.want /\ f = Len(fut.out)
             /\ len = Len(buffer)
      BY InvFacts
    <3>3. old \in 0..Len(b) /\ Len(b) - old = n
      BY <3>2
    <3>4. piece = Drain(b, old)
      BY <3>2 DEF Drain
    <3>5. piece \in Seq(Nat) /\ Len(piece) = n
      BY <3>2, <3>3, <3>4, DrainFacts
    <3>6. out = fut.out \o piece
      BY <2>4, <3>2
    <3> HIDE DEF piece
    <3>7. Len(out) = f + n
      BY <3>5, <3>6, InvFacts, ConcatProperties
    <3>8. len - old = w - f /\ old + n <= len
      BY <2>1, <3>2 DEF IInv, ExactTail
    <3>9. f + n <= w
      BY ONLY <3>2, <3>8, n \in Nat, old \in Nat, w \in Nat, f \in Nat, len \in Nat
    <3>10. CASE Len(out) < fut.want /\ Continue("grow", 0, out)
      <4>1. Twin!Continue("grow", 0, out)
        BY <3>10, ContinueTwin
      <4> QED
        BY <1>3, <2>1, <2>4, <3>1, <3>10, <4>1
        DEF peek_exact_read, Twin!peek_exact_read
    <3>11. CASE Len(out) >= fut.want /\ Ready("ok", fut.want, out)
      <4> PICK l \in Nat : l = Len(out) /\ l = f + n
        BY <3>2, <3>7
      <4>1. Len(out) = fut.want
        <5>1. l >= w
          BY <3>11
        <5>2. l = w
          BY <3>9, <5>1
        <5> QED
          BY <5>2
      <4>2. Twin!Ready("ok", Len(out), out)
        BY <3>11, <4>1, ReadyTwin
      <4> QED
        BY <1>3, <2>1, <2>4, <3>1, <3>11, <4>2
        DEF peek_exact_read, Twin!peek_exact_read
    <3> QED
      BY <2>4, <3>10, <3>11
  <2> QED
    BY <1>3, <2>2, <2>3, <2>4 DEF peek_exact_read
<1> QED
  BY <1>1, <1>2, <1>3

LEMMA ConcludeTwin ==
    ASSUME NEW st, NEW b, Conclude(st, b)
    PROVE  Twin!Conclude(st, b)
BY SameText, ReadyTwin DEF Conclude, Twin!Conclude

LEMMA FailTwin ==
    ASSUME NEW st, NEW b, Fail(st, b)
    PROVE  Twin!Fail(st, b)
BY ConcludeTwin, ReadyTwin, TwinFields DEF Fail, Twin!Fail, AsPeek

LEMMA WholeTwin ==
    ASSUME IInv
    PROVE  /\ peek_to_end_enter => Twin!peek_to_end_enter
           /\ peek_to_string_enter => Twin!peek_to_string_enter
           /\ grow_peek_buffer => Twin!grow_peek_buffer
           /\ peek_whole_read => Twin!peek_whole_read
<1> USE TwinFields
    DEF inner, far, waking, given, storage, client, Twin!inner, Twin!far,
        Twin!waking, Twin!given, Twin!storage, Twin!client
<1>1. ASSUME peek_to_end_enter PROVE Twin!peek_to_end_enter
  <2>1. Twin!At("peek_to_end", "enter")
    BY <1>1, TwinGuards DEF peek_to_end_enter, Peeks
  <2>2. Twin!Continue("grow", 0, IF fut.first THEN buffer ELSE fut.out)
    BY <1>1, ContinueTwin DEF peek_to_end_enter
  <2> QED
    BY <1>1, <2>1, <2>2 DEF peek_to_end_enter, Twin!peek_to_end_enter
<1>2. ASSUME peek_to_string_enter PROVE Twin!peek_to_string_enter
  <2>1. Twin!At("peek_to_string", "enter")
    BY <1>2, TwinGuards DEF peek_to_string_enter, Peeks
  <2>2. Twin!DefinitelyInvalid(Twin!Spelt(buffer))
          <=> DefinitelyInvalid(Spelt(buffer))
    BY SameText
  <2>3. \/ /\ fut.first /\ DefinitelyInvalid(Spelt(buffer))
           /\ Twin!Ready("rejected", 0, <<>>)
        \/ /\ ~(fut.first /\ DefinitelyInvalid(Spelt(buffer)))
           /\ Twin!Continue("grow", 0, <<>>)
    BY <1>2, ReadyTwin, ContinueTwin DEF peek_to_string_enter
  <2> QED
    BY <1>2, <2>1, <2>2, <2>3 DEF peek_to_string_enter, Twin!peek_to_string_enter
<1>3. ASSUME grow_peek_buffer PROVE Twin!grow_peek_buffer
  <2>1. TwinFut.op \in Twin!Wholes /\ TwinFut.pc = "grow"
    BY <1>3, TwinGuards DEF grow_peek_buffer
  <2>2. ASSUME NEW growth \in Growths, GrowsBy(Len(buffer), growth),
               ResizeTo(Len(buffer) + growth),
               Continue("read", Len(buffer), fut.out)
        PROVE  Twin!grow_peek_buffer
    <3>1. growth \in Twin!Growths /\ Twin!GrowsBy(Len(buffer), growth)
      BY <2>2, SameGrowths
    <3>2. Twin!ResizeTo(Len(buffer) + growth)
      BY <2>2, SameReader
    <3>3. Twin!Continue("read", Len(buffer), TwinFut.out)
      BY <2>2, ContinueTwin
    <3> QED
      BY <1>3, <2>1, <3>1, <3>2, <3>3 DEF grow_peek_buffer, Twin!grow_peek_buffer
  <2>3. CASE CannotGrow(Len(buffer)) /\ Fail("oom", buffer) /\ UNCHANGED storage
    <3>1. Twin!CannotGrow(Len(buffer)) /\ Twin!Fail("oom", buffer)
      BY <2>3, SameGrowths, FailTwin
    <3> QED
      BY <1>3, <2>1, <2>3, <3>1 DEF grow_peek_buffer, Twin!grow_peek_buffer
  <2> QED
    BY <1>3, <2>2, <2>3 DEF grow_peek_buffer
<1>4. ASSUME peek_whole_read PROVE Twin!peek_whole_read
  <2>1. Twin!InRead(Twin!Wholes) /\ TwinFut.op = fut.op
    BY <1>4, TwinGuards DEF peek_whole_read, InRead
  <2>2. CASE /\ ReadOk(0)
             /\ \/ fut.op = "peek_to_end" /\ Ready("ok", Len(buffer'), fut.out)
                \/ fut.op = "peek_to_string" /\ Conclude("ok", buffer')
    <3>1. Twin!ReadOk(0)
      BY <2>2, ReadTwin
    <3>2. CASE fut.op = "peek_to_end" /\ Ready("ok", Len(buffer'), fut.out)
      <4> DEFINE b == Truncate(Store(buffer, fut.old, rpos, 0), fut.old + 0)
      <4>1. buffer' = b
        BY <2>2 DEF ReadOk
      <4> HIDE DEF b
      <4>2. Ready("ok", Len(b), fut.out)
        BY <3>2, <4>1 DEF Ready, Answer
      <4>3. Twin!Ready("ok", Len(b), fut.out)
        BY <4>2, ReadyTwin
      <4>4. Twin!Ready("ok", Len(buffer'), TwinFut.out)
        BY <4>1, <4>3 DEF Twin!Ready, Twin!Answer
      <4> QED
        BY <1>4, <2>1, <3>1, <3>2, <4>4 DEF peek_whole_read, Twin!peek_whole_read
    <3>3. CASE fut.op = "peek_to_string" /\ Conclude("ok", buffer')
      <4>1. Twin!Conclude("ok", buffer')
        BY <3>3, ConcludeTwin
      <4> QED
        BY <1>4, <2>1, <3>1, <3>3, <4>1 DEF peek_whole_read, Twin!peek_whole_read
    <3> QED
      BY <2>2, <3>2, <3>3
  <2>3. ASSUME NEW n \in 1..Remaining(Spare), ReadOk(n), NEW out,
               out = IF fut.op = "peek_to_end"
                     THEN fut.out \o SubSeq(buffer', fut.old + 1, fut.old + n)
                     ELSE <<>>,
               Continue("grow", 0, out)
        PROVE  Twin!peek_whole_read
    <3>1. n \in 1..Twin!Room /\ Twin!ReadOk(n)
      BY <2>3, ReadTwin
    <3>2. Twin!Continue("grow", 0, out)
      BY <2>3, ContinueTwin
    <3> QED
      BY <1>4, <2>1, <2>3, <3>1, <3>2 DEF peek_whole_read, Twin!peek_whole_read
  <2>4. CASE ReaderFails /\ RollBack /\ Fail("err", buffer')
    <3>1. Twin!ReaderFails /\ Twin!RollBack /\ Twin!Fail("err", buffer')
      BY <2>4, SameReader, FailTwin
    <3> QED
      BY <1>4, <2>1, <3>1 DEF peek_whole_read, Twin!peek_whole_read
  <2> QED
    BY <1>4, <2>2, <2>3, <2>4 DEF peek_whole_read
<1> QED
  BY <1>1, <1>2, <1>3, <1>4

LEMMA FillPeekBufTwin ==
    ASSUME IInv
    PROVE  /\ fill_peek_buf_enter => Twin!fill_peek_buf_enter
           /\ fill_peek_buf_read => Twin!fill_peek_buf_read
<1> USE TwinFields
    DEF inner, far, waking, given, storage, client, Twin!inner, Twin!far,
        Twin!waking, Twin!given, Twin!storage, Twin!client
<1>1. ASSUME fill_peek_buf_enter PROVE Twin!fill_peek_buf_enter
  <2>1. Twin!At("fill_peek_buf", "enter")
    BY <1>1, TwinGuards DEF fill_peek_buf_enter, Peeks
  <2>2. CASE fut.want = fut.old /\ Ready("ok", 0, <<>>) /\ UNCHANGED storage
    <3>1. Twin!Ready("ok", 0, <<>>)
      BY <2>2, ReadyTwin
    <3> QED
      BY <1>1, <2>1, <2>2, <3>1 DEF fill_peek_buf_enter, Twin!fill_peek_buf_enter
  <2>3. CASE /\ fut.want # fut.old /\ ResizeTo(fut.want)
             /\ Continue("read", fut.old, <<>>)
    <3>1. Twin!ResizeTo(fut.want) /\ Twin!Continue("read", fut.old, <<>>)
      BY <2>3, SameReader, ContinueTwin
    <3> QED
      BY <1>1, <2>1, <2>3, <3>1 DEF fill_peek_buf_enter, Twin!fill_peek_buf_enter
  <2>4. CASE /\ fut.want # fut.old /\ Refuses(fut.want)
             /\ Ready("oom", 0, <<>>) /\ UNCHANGED storage
    <3>1. Twin!Refuses(fut.want) /\ Twin!Ready("oom", 0, <<>>)
      BY <2>4, SameStorage, ReadyTwin
    <3> QED
      BY <1>1, <2>1, <2>4, <3>1 DEF fill_peek_buf_enter, Twin!fill_peek_buf_enter
  <2> QED
    BY <1>1, <2>2, <2>3, <2>4 DEF fill_peek_buf_enter
<1>2. ASSUME fill_peek_buf_read PROVE Twin!fill_peek_buf_read
  <2>1. Twin!At("fill_peek_buf", "read")
    BY <1>2, TwinGuards DEF fill_peek_buf_read, Peeks
  <2>2. ASSUME NEW n \in 0..Remaining(Spare), ReadOk(n), Ready("ok", n, <<>>)
        PROVE  Twin!fill_peek_buf_read
    <3>1. n \in 0..Twin!Room /\ Twin!ReadOk(n) /\ Twin!Ready("ok", n, <<>>)
      BY <2>2, ReadTwin, ReadyTwin
    <3> QED
      BY <1>2, <2>1, <3>1 DEF fill_peek_buf_read, Twin!fill_peek_buf_read
  <2>3. CASE ReaderFails /\ RollBack /\ Ready("err", 0, <<>>)
    <3>1. Twin!ReaderFails /\ Twin!RollBack /\ Twin!Ready("err", 0, <<>>)
      BY <2>3, SameReader, ReadyTwin
    <3> QED
      BY <1>2, <2>1, <3>1 DEF fill_peek_buf_read, Twin!fill_peek_buf_read
  <2> QED
    BY <1>2, <2>2, <2>3 DEF fill_peek_buf_read
<1> QED
  BY <1>1, <1>2

LEMMA SharedTwin ==
    ASSUME IInv
    PROVE  /\ interrupted => Twin!interrupted
           /\ pending => Twin!pending
<1> USE TwinFields
    DEF inner, far, waking, given, storage, client, Twin!inner, Twin!far,
        Twin!waking, Twin!given, Twin!storage, Twin!client
<1>1. ASSUME interrupted PROVE Twin!interrupted
  <2>1. /\ Twin!InRead(Twin!Loops) /\ Twin!ReaderFails /\ Twin!RollBack
        /\ Twin!Continue("grow", 0, fut.out)
    BY <1>1, TwinGuards, SameReader, ContinueTwin DEF interrupted
  <2> QED
    BY <1>1, <2>1 DEF interrupted, Twin!interrupted
<1>2. ASSUME pending PROVE Twin!pending
  <2>1. /\ Twin!InRead(Twin!Loops \cup {"fill_peek_buf"}) /\ Twin!ReaderPends
        /\ Twin!RollBack /\ Twin!Pending
    BY <1>2, TwinGuards, SameReader, PendingTwin DEF pending
  <2> QED
    BY <1>2, <2>1 DEF pending, Twin!pending
<1> QED
  BY <1>1, <1>2

LEMMA InitTwin == Init => Twin!Init
<1> SUFFICES ASSUME Init PROVE Twin!Init
  OBVIOUS
<1>1. TwinFut = Twin!NoFuture
  BY DEF Init, TwinFut, NoFuture, Twin!NoFuture, AsPeek
<1>2. TwinRet = Twin!NoAnswer
  BY DEF Init, TwinRet, NoAnswer, Twin!NoAnswer, AsPeek
<1>3. Twin!construct
  BY SameStorage DEF Init, construct, Twin!construct
<1> QED
  BY <1>1, <1>2, <1>3 DEF Init, Twin!Init, ReaderInit, Twin!ReaderInit

LEMMA NextTwin == IInv /\ [Next]_vars => [Twin!Next]_Twin!vars
<1> SUFFICES ASSUME IInv, [Next]_vars PROVE [Twin!Next]_Twin!vars
  OBVIOUS
<1>1. CASE Prepare
  BY <1>1, PollPeekTwin, ExactTwin, WholeTwin, FillPeekBufTwin
  DEF Prepare, Twin!Prepare, Twin!Next
<1>2. CASE Outcome
  BY <1>2, PollReadTwin, FillBufTwin, PeekReadTwin, ExactTwin, WholeTwin,
     FillPeekBufTwin
  DEF Outcome, Twin!Outcome, Twin!Next
<1>3. CASE NoOutcome
  BY <1>3, FillBufTwin, PeekBlockedTwin, PeekAgainTwin, SharedTwin
  DEF NoOutcome, Twin!NoOutcome, Twin!Next
<1>4. CASE Arrive \/ Close \/ Call \/ poll \/ drop_future
  BY <1>4, WorldTwin, CallTwin, PollTwin, DropTwin DEF Twin!Next
<1>5. CASE UNCHANGED vars
  <2>1. UNCHANGED TwinFut /\ UNCHANGED TwinRet
    BY <1>5 DEF vars, TwinFut, TwinRet
  <2> QED
    BY <1>5, <2>1 DEF vars, Twin!vars
<1> QED
  BY <1>1, <1>2, <1>3, <1>4, <1>5 DEF Next

-----------------------------------------------------------------------------
(* IInv is inductive. *)

LEMMA ReadBufIs ==
    ASSUME NEW pre \in Nat, NEW room \in Nat
    PROVE  /\ ReadBuf(pre, room) \in [capacity : Nat, filled : Seq(Nat)]
           /\ Len(ReadBuf(pre, room).filled) = pre
           /\ ReadBuf(pre, room).capacity = pre + room
<1>1. [i \in 1..pre |-> Zero] \in [1..pre -> Nat]
  BY DEF Zero
<1>2. [i \in 1..pre |-> Zero] \in Seq(Nat) /\ Len([i \in 1..pre |-> Zero]) = pre
  BY <1>1, FunctionIsSeq
<1> QED
  BY <1>2 DEF ReadBuf

(* What leaves the buffer a sequence and the reader's cursor a number. *)
LEMMA StorageKept ==
    ASSUME IInv
    PROVE  /\ RollBack => buffer' \in Seq(Nat)
           /\ \A len \in Nat : ResizeTo(len)
                => buffer' \in Seq(Nat) /\ Len(buffer') = len
           /\ UNCHANGED storage => buffer' \in Seq(Nat)
           /\ buffer' = <<>> => buffer' \in Seq(Nat)
           /\ \A n \in Nat : ReadOk(n) => buffer' \in Seq(Nat) /\ rpos' \in Nat
           /\ UNCHANGED inner => rpos' \in Nat
           /\ ReaderPends \/ ReaderWouldBlock \/ ReaderFails => rpos' \in Nat
<1>1. RollBack => buffer' \in Seq(Nat)
  BY InvFacts, TruncateFacts DEF RollBack
<1>2. ASSUME NEW len \in Nat, ResizeTo(len)
      PROVE  buffer' \in Seq(Nat) /\ Len(buffer') = len
  BY <1>2, InvFacts, ResizeFacts DEF ResizeTo
<1>3. ASSUME NEW n \in Nat, ReadOk(n) PROVE buffer' \in Seq(Nat) /\ rpos' \in Nat
  <2> DEFINE s == Store(buffer, fut.old, rpos, n)
  <2>1. s \in Seq(Nat)
    BY InvFacts, StoreFacts
  <2>2. fut.old + n \in Nat /\ rpos + n \in Nat
    BY InvFacts
  <2> HIDE DEF s
  <2>3. Truncate(s, fut.old + n) \in Seq(Nat)
    BY <2>1, <2>2, TruncateFacts
  <2> QED
    BY <1>3, <2>2, <2>3 DEF ReadOk, Advance, s
<1>4. UNCHANGED storage => buffer' \in Seq(Nat)
  BY InvFacts DEF storage
<1>5. buffer' = <<>> => buffer' \in Seq(Nat)
  BY EmptySeq
<1> QED
  BY <1>1, <1>2, <1>3, <1>4, <1>5, InvFacts
  DEF inner, ReaderPends, ReaderWouldBlock, ReaderFails

LEMMA IdleInv ==
    ASSUME buffer' \in Seq(Nat), rpos' \in Nat, fut' = NoFuture
    PROVE  IInv'
<1>1. /\ NoBuf \in [capacity : Nat, filled : Seq(Nat)]
      /\ Len(NoBuf.filled) = 0
  BY ReadBufIs DEF NoBuf
<1>2. <<>> \in Seq(Nat)
  BY EmptySeq
<1>3. NoFuture \in FutRecord
  BY <1>1, <1>2 DEF NoFuture, FutRecord, Futures, Places
<1>4. /\ fut'.op = "none" /\ fut'.pc = "none"
      /\ Len(fut'.rb.filled) = fut'.before
  BY <1>1 DEF NoFuture
<1>5. "none" \notin Handing /\ "none" # "peek_exact" /\ "none" # "read"
  BY DEF Handing, Peeks
<1> QED
  BY <1>3, <1>4, <1>5 DEF IInv, HandedBuf, PeekTail, ExactTail

LEMMA CreateInv ==
    ASSUME IInv, NEW op \in Futures, NEW want \in Nat, NEW old \in Nat,
           NEW pre \in Nat, NEW room \in Nat,
           op \in Handing => want = room,
           Create(op, want, old, ReadBuf(pre, room))
    PROVE  IInv'
<1> DEFINE rb == ReadBuf(pre, room)
<1>1. /\ rb \in [capacity : Nat, filled : Seq(Nat)]
      /\ Len(rb.filled) = pre /\ rb.capacity = pre + room
  BY ReadBufIs
<1> HIDE DEF rb
<1>2. fut' = [op |-> op, pc |-> "ready", want |-> want, old |-> old,
              first |-> TRUE, out |-> <<>>, rb |-> rb, before |-> pre]
  BY <1>1 DEF Create, NoFuture, rb
<1>3. <<>> \in Seq(Nat) /\ Len(<<>>) = 0
  BY EmptySeq
<1>4. fut' \in FutRecord
  BY <1>1, <1>2, <1>3 DEF FutRecord, Places
<1>5. HandedBuf'
  BY <1>1, <1>2 DEF HandedBuf
<1>6. PeekTail' /\ ExactTail'
  BY <1>2, <1>3 DEF PeekTail, ExactTail
<1>7. buffer' \in Seq(Nat) /\ rpos' \in Nat
  BY StorageKept DEF Create
<1> QED
  BY <1>4, <1>5, <1>6, <1>7 DEF IInv

(* A poll that suspends, goes on, or begins. *)
LEMMA GoingInv ==
    ASSUME IInv, NEW pc \in {"enter", "grow", "parked"},
           buffer' \in Seq(Nat), rpos' \in Nat,
           fut' \in FutRecord, fut'.op = fut.op, fut'.pc = pc,
           fut'.want = fut.want, fut'.rb = fut.rb, fut'.before = fut.before,
           fut.op = "peek_exact" => Len(fut'.out) <= fut.want
    PROVE  IInv'
<1>1. HandedBuf'
  BY DEF IInv, HandedBuf
<1>2. PeekTail' /\ ExactTail'
  BY DEF PeekTail, ExactTail
<1> QED
  BY <1>1, <1>2 DEF IInv

LEMMA SuspendInv ==
    ASSUME IInv, NEW pc \in {"enter", "parked"},
           buffer' \in Seq(Nat), rpos' \in Nat,
           fut' = [fut EXCEPT !.pc = pc]
    PROVE  IInv'
<1>1. /\ fut' \in FutRecord /\ fut'.op = fut.op /\ fut'.pc = pc
      /\ fut'.want = fut.want /\ fut'.rb = fut.rb /\ fut'.before = fut.before
      /\ fut'.out = fut.out
  <2>1. pc \in Places
    BY DEF Places
  <2> QED
    BY <2>1 DEF IInv, FutRecord
<1>2. fut.op = "peek_exact" => Len(fut'.out) <= fut.want
  BY <1>1 DEF IInv, ExactTail
<1> QED
  BY <1>1, <1>2, GoingInv

LEMMA ContinueIs ==
    ASSUME IInv, NEW pc \in Places, NEW old \in Nat, NEW out \in Seq(Nat),
           Continue(pc, old, out)
    PROVE  /\ fut' \in FutRecord /\ fut'.op = fut.op /\ fut'.pc = pc
           /\ fut'.want = fut.want /\ fut'.rb = fut.rb
           /\ fut'.before = fut.before /\ fut'.old = old /\ fut'.out = out
BY DEF IInv, FutRecord, Continue

LEMMA GrowInv ==
    ASSUME IInv, NEW out \in Seq(Nat), Continue("grow", 0, out),
           fut.op = "peek_exact" => Len(out) <= fut.want,
           buffer' \in Seq(Nat), rpos' \in Nat
    PROVE  IInv'
<1>1. /\ fut' \in FutRecord /\ fut'.op = fut.op /\ fut'.pc = "grow"
      /\ fut'.want = fut.want /\ fut'.rb = fut.rb
      /\ fut'.before = fut.before /\ fut'.out = out
  <2>1. "grow" \in Places /\ 0 \in Nat
    BY DEF Places
  <2> QED
    BY ONLY <2>1, IInv, out \in Seq(Nat), Continue("grow", 0, out), ContinueIs
<1> QED
  BY <1>1, GoingInv

LEMMA ReadInv ==
    ASSUME IInv, NEW old \in Nat, NEW out \in Seq(Nat), NEW len \in Nat,
           Continue("read", old, out), ResizeTo(len), rpos' \in Nat,
           fut.op \in Peeks \cup {"peek_exact"} => old <= len,
           fut.op = "peek_exact" => /\ Len(out) <= fut.want
                                    /\ len - old = fut.want - Len(out)
    PROVE  IInv'
<1>1. /\ fut' \in FutRecord /\ fut'.op = fut.op /\ fut'.pc = "read"
      /\ fut'.want = fut.want /\ fut'.rb = fut.rb
      /\ fut'.before = fut.before /\ fut'.old = old /\ fut'.out = out
  <2>1. "read" \in Places
    BY DEF Places
  <2> QED
    BY ONLY <2>1, IInv, old \in Nat, out \in Seq(Nat),
            Continue("read", old, out), ContinueIs
<1>2. buffer' \in Seq(Nat) /\ Len(buffer') = len
  BY StorageKept
<1>3. HandedBuf'
  BY <1>1 DEF IInv, HandedBuf
<1>4. PeekTail' /\ ExactTail'
  BY <1>1, <1>2 DEF PeekTail, ExactTail
<1> QED
  BY <1>1, <1>2, <1>3, <1>4 DEF IInv

LEMMA KeptInv ==
    ASSUME IInv, UNCHANGED fut, buffer' \in Seq(Nat), rpos' \in Nat,
           fut.pc = "read" => UNCHANGED storage
    PROVE  IInv'
BY DEF IInv, HandedBuf, PeekTail, ExactTail, storage

LEMMA ReadyInv ==
    ASSUME NEW st, NEW n, NEW out, Ready(st, n, out),
           buffer' \in Seq(Nat), rpos' \in Nat
    PROVE  IInv'
BY IdleInv DEF Ready

LEMMA FilledInv ==
    ASSUME NEW rb, Filled(rb), buffer' \in Seq(Nat), rpos' \in Nat
    PROVE  IInv'
BY IdleInv DEF Filled, Ready

LEMMA InitInv == Init => IInv
<1> SUFFICES ASSUME Init PROVE IInv
  OBVIOUS
<1>1. buffer \in Seq(Nat) /\ rpos \in Nat
  BY EmptySeq DEF Init, construct, ReaderInit
<1>2. /\ NoBuf \in [capacity : Nat, filled : Seq(Nat)]
      /\ Len(NoBuf.filled) = 0
  BY ReadBufIs DEF NoBuf
<1>3. <<>> \in Seq(Nat)
  BY EmptySeq
<1>4. fut \in FutRecord
  BY <1>2, <1>3 DEF Init, NoFuture, FutRecord, Futures, Places
<1>5. /\ fut.op = "none" /\ fut.pc = "none"
      /\ Len(fut.rb.filled) = fut.before
  BY <1>2 DEF Init, NoFuture
<1> QED
  BY <1>1, <1>4, <1>5
  DEF IInv, HandedBuf, PeekTail, ExactTail, Handing, Peeks

LEMMA CallInv == IInv /\ CapTyped /\ Call => IInv'
<1> SUFFICES ASSUME IInv, CapTyped, Call PROVE IInv'
  OBVIOUS
<1> USE TokioAssumption
<1>1. ASSUME NEW pre \in 0..MaxFilled, NEW room \in 0..MaxWant,
             read(pre, room) \/ peek(pre, room)
      PROVE  IInv'
  <2>1. /\ pre \in Nat /\ room \in Nat /\ 0 \in Nat
        /\ "read" \in Futures /\ "peek" \in Futures
    BY DEF Futures
  <2>2. CASE read(pre, room)
    <3>1. Create("read", room, 0, ReadBuf(pre, room))
      BY <2>2 DEF read
    <3> QED
      BY ONLY IInv, <2>1, <3>1, CreateInv
  <2>3. CASE peek(pre, room)
    <3>1. Create("peek", room, 0, ReadBuf(pre, room))
      BY <2>3 DEF peek
    <3> QED
      BY ONLY IInv, <2>1, <3>1, CreateInv
  <2> QED
    BY <1>1, <2>2, <2>3
<1>2. ASSUME NEW want \in 0..MaxWant, peek_buf(want) PROVE IInv'
  <2>1. want \in Nat /\ 0 \in Nat /\ "peek_buf" \in Futures
    BY DEF Futures
  <2>2. Create("peek_buf", want, 0, ReadBuf(0, want))
    BY <1>2 DEF peek_buf
  <2> QED
    BY ONLY IInv, <2>1, <2>2, CreateInv
<1>3. ASSUME NEW op \in Futures \ Handing, NEW want \in Nat, NEW old \in Nat,
             Create(op, want, old, NoBuf)
      PROVE  IInv'
  <2>1. Create(op, want, old, ReadBuf(0, 0)) /\ 0 \in Nat
    BY <1>3 DEF NoBuf
  <2> QED
    BY ONLY IInv, op \in Futures \ Handing, want \in Nat, old \in Nat, <2>1,
            CreateInv
<1>4. ASSUME NEW want \in 0..MaxWant, peek_exact(want) PROVE IInv'
  BY <1>3, <1>4 DEF peek_exact, Futures, Handing, Peeks
<1>5. CASE fill_buf
  BY <1>3, <1>5 DEF fill_buf, Futures, Handing, Peeks
<1>6. CASE peek_to_end
  BY <1>3, <1>6 DEF peek_to_end, Futures, Handing, Peeks
<1>7. CASE peek_to_string
  BY <1>3, <1>7 DEF peek_to_string, Futures, Handing, Peeks
<1>8. CASE fill_peek_buf
  <2>1. "fill_peek_buf" \in Futures \ Handing
    BY DEF Futures, Handing, Peeks
  <2> QED
    BY <1>3, <1>8, <2>1, InvFacts DEF fill_peek_buf, CapTyped
<1>9. ASSUME NEW amt \in 0..MaxWant, BufRead_consume(amt) PROVE IInv'
  <2>0. amt \in Nat /\ Len(buffer) \in Nat /\ FromBuffer(amt) \in Nat
    BY InvFacts DEF FromBuffer, Smaller
  <2> PICK a \in Nat, len \in Nat, k \in Nat :
           a = amt /\ len = Len(buffer) /\ k = FromBuffer(amt)
    BY <2>0
  <2>1. k \in 0..Len(buffer) /\ a - k \in Nat
    BY InvFacts DEF FromBuffer, Smaller
  <2>2. Drain(buffer, k) \in Seq(Nat)
    BY <2>1, InvFacts, DrainFacts
  <2>3. buffer' \in Seq(Nat)
    BY <1>9, <2>2 DEF BufRead_consume
  <2>4. rpos' \in Nat
    <3>1. rpos' = rpos + (a - k)
      BY <1>9 DEF BufRead_consume
    <3> QED
      BY ONLY <2>1, <3>1, InvFacts, IInv
  <2> QED
    BY <1>9, <2>3, <2>4, KeptInv DEF BufRead_consume, Free
<1>10. CASE consume \/ consume_in_place
  <2>1. buffer' \in Seq(Nat) /\ rpos' \in Nat
    BY <1>10, StorageKept DEF consume, consume_in_place
  <2> QED
    BY <1>10, <2>1, KeptInv DEF consume, consume_in_place, Free
<1> QED
  BY <1>1, <1>2, <1>4, <1>5, <1>6, <1>7, <1>8, <1>9, <1>10 DEF Call

LEMMA WorldInv == IInv /\ (Arrive \/ Close \/ poll \/ drop_future) => IInv'
<1> SUFFICES ASSUME IInv, Arrive \/ Close \/ poll \/ drop_future PROVE IInv'
  OBVIOUS
<1>1. buffer' \in Seq(Nat) /\ rpos' \in Nat
  BY StorageKept DEF Arrive, Close, poll, drop_future
<1>2. CASE Arrive \/ Close
  BY <1>1, <1>2, KeptInv DEF Arrive, Close
<1>3. CASE poll
  BY <1>1, <1>3, SuspendInv DEF poll
<1>4. CASE drop_future
  BY <1>1, <1>4, IdleInv DEF drop_future
<1> QED
  BY <1>2, <1>3, <1>4

LEMMA DelegatedInv ==
    IInv /\ (poll_read \/ poll_fill_buf \/ delegated_pends) => IInv'
<1> SUFFICES ASSUME IInv, poll_read \/ poll_fill_buf \/ delegated_pends
             PROVE  IInv'
  OBVIOUS
<1>1. ASSUME NEW n \in Nat, Advance(n) PROVE rpos' \in Nat
  BY <1>1, InvFacts DEF Advance
<1>2. CASE read_buffered /\ At("read", "enter")
  <2>1. Remaining(fut.rb) = fut.want
    BY <1>2, RoomIs DEF At, Handing
  <2>2. fut.want \in 0..Len(buffer)
    BY <1>2, <2>1, InvFacts DEF read_buffered
  <2>3. buffer' \in Seq(Nat)
    BY <1>2, <2>1, <2>2, InvFacts, DrainFacts DEF read_buffered
  <2>4. rpos' \in Nat
    BY <1>2, StorageKept DEF read_buffered
  <2> QED
    BY <1>2, <2>3, <2>4, FilledInv DEF read_buffered
<1>3. CASE read_top_up /\ At("read", "enter")
  <2> DEFINE rb == put_slice(fut.rb, buffer)
  <2>1. buffer' \in Seq(Nat)
    BY <1>3, StorageKept DEF read_top_up
  <2>2. CASE (ReaderFails \/ ReaderPends) /\ Filled(rb)
    BY <2>1, <2>2, StorageKept, FilledInv
  <2>3. ASSUME NEW n \in 0..Remaining(rb), Advance(n),
               Filled(put_slice(rb, Slice(rpos, n)))
        PROVE  IInv'
    <3>1. Remaining(rb) = fut.want - Len(buffer)
      BY <1>3, InvFacts, RoomAfterPut DEF At, Handing
    <3>2. n \in Nat
      BY <3>1, InvFacts
    <3> QED
      BY <1>1, <2>1, <2>3, <3>2, FilledInv
  <2> QED
    BY <1>3, <2>2, <2>3 DEF read_top_up
<1>4. CASE read_inner /\ At("read", "enter")
  <2>1. buffer' \in Seq(Nat)
    BY <1>4, InvFacts DEF read_inner
  <2>2. CASE ReaderFails /\ Ready("err", 0, <<>>)
    BY <2>1, <2>2, StorageKept, ReadyInv
  <2>3. ASSUME NEW n \in 0..Remaining(fut.rb), Advance(n),
               Filled(put_slice(fut.rb, Slice(rpos, n)))
        PROVE  IInv'
    <3>1. Remaining(fut.rb) = fut.want
      BY <1>4, RoomIs DEF At, Handing
    <3>2. n \in Nat
      BY <3>1, InvFacts
    <3> QED
      BY <1>1, <2>1, <2>3, <3>2, FilledInv
  <2> QED
    BY <1>4, <2>2, <2>3 DEF read_inner
<1>5. CASE poll_fill_buf
  <2>1. buffer' \in Seq(Nat)
    BY <1>5, StorageKept DEF poll_fill_buf
  <2>2. rpos' \in Nat
    BY <1>5, StorageKept, InvFacts DEF poll_fill_buf, ReaderShows
  <2>3. fut' = NoFuture
    BY <1>5 DEF poll_fill_buf, Ready
  <2> QED
    BY <2>1, <2>2, <2>3, IdleInv
<1>6. CASE delegated_pends
  <2>1. buffer' \in Seq(Nat) /\ rpos' \in Nat
    BY <1>6, StorageKept DEF delegated_pends
  <2> QED
    BY <1>6, <2>1, SuspendInv DEF delegated_pends, Pending
<1> QED
  BY <1>2, <1>3, <1>4, <1>5, <1>6 DEF poll_read

LEMMA PeekInv ==
    IInv /\ (poll_peek \/ poll_peek_blocked \/ poll_peek_read \/ poll_peek_again)
      => IInv'
<1> SUFFICES ASSUME IInv, \/ poll_peek \/ poll_peek_blocked
                          \/ poll_peek_read \/ poll_peek_again
             PROVE  IInv'
  OBVIOUS
<1>1. CASE poll_peek
  <2>1. /\ Remaining(fut.rb) = fut.want /\ fut.op \in Peeks
        /\ fut.op # "peek_exact"
    BY <1>1, RoomIs DEF poll_peek, Handing, Peeks
  <2>2. rpos' \in Nat
    BY <1>1, StorageKept DEF poll_peek
  <2>3. CASE UNCHANGED storage /\ fut' = NoFuture
    BY <2>2, <2>3, StorageKept, IdleInv
  <2>4. CASE /\ Len(buffer) < fut.want /\ ResizeTo(fut.want)
             /\ Continue("read", Len(buffer), <<>>)
    <3>1. Len(buffer) <= fut.want /\ <<>> \in Seq(Nat)
      BY <2>4, InvFacts, EmptySeq
    <3> QED
      BY <2>1, <2>2, <2>4, <3>1, InvFacts, ReadInv
  <2> QED
    BY <1>1, <2>1, <2>3, <2>4 DEF poll_peek, Filled, Ready
<1>2. CASE poll_peek_blocked
  <2>1. buffer' \in Seq(Nat) /\ rpos' \in Nat
    BY <1>2, StorageKept DEF poll_peek_blocked
  <2>2. fut' = NoFuture \/ fut' = [fut EXCEPT !.pc = "parked"]
    BY <1>2 DEF poll_peek_blocked, Filled, Ready, Pending
  <2> QED
    BY <2>1, <2>2, IdleInv, SuspendInv
<1>3. CASE poll_peek_read
  <2>1. fut' = NoFuture
    BY <1>3 DEF poll_peek_read, Filled, Ready
  <2>2. CASE ReaderFails /\ RollBack
    BY <2>1, <2>2, StorageKept, IdleInv
  <2>3. ASSUME NEW n \in 0..Remaining(Spare), ReadOk(n) PROVE IInv'
    <3>1. n \in Nat
      BY InvFacts, SpareIs
    <3> QED
      BY <2>1, <2>3, <3>1, StorageKept, IdleInv
  <2> QED
    BY <1>3, <2>2, <2>3 DEF poll_peek_read
<1>4. CASE poll_peek_again
  <2>1. buffer' \in Seq(Nat) /\ rpos' \in Nat
    BY <1>4, StorageKept DEF poll_peek_again
  <2> QED
    BY <1>4, <2>1, KeptInv DEF poll_peek_again
<1> QED
  BY <1>1, <1>2, <1>3, <1>4

LEMMA MissingIs ==
    ASSUME IInv, fut.op = "peek_exact"
    PROVE  /\ Missing \in Nat /\ Missing = fut.want - Len(fut.out)
           /\ Len(buffer) + Missing \in Nat
           /\ Len(buffer) <= Len(buffer) + Missing
           /\ (Len(buffer) + Missing) - Len(buffer) = fut.want - Len(fut.out)
<1> PICK w \in Nat, f \in Nat, len \in Nat :
         w = fut.want /\ f = Len(fut.out) /\ len = Len(buffer)
  BY InvFacts
<1>1. f <= w
  BY DEF IInv, ExactTail
<1>2. Missing = w - f
  BY DEF Missing
<1>3. /\ w - f \in Nat /\ len + (w - f) \in Nat
      /\ len <= len + (w - f) /\ (len + (w - f)) - len = w - f
  BY ONLY <1>1, w \in Nat, f \in Nat, len \in Nat
<1> QED
  BY <1>2, <1>3

(* What is read for PeekExact fits. *)
LEMMA PieceIs ==
    ASSUME IInv, fut.op = "peek_exact" \/ fut.op = "peek_to_end",
           fut.pc = "read", NEW n \in 1..Remaining(Spare), ReadOk(n)
    PROVE  fut.out \o SubSeq(buffer', fut.old + 1, fut.old + n) \in Seq(Nat)
<1> PICK old \in Nat, len \in Nat, r \in Nat :
         old = fut.old /\ len = Len(buffer) /\ r = rpos
  BY InvFacts
<1>1. Remaining(Spare) = len - old /\ buffer \in Seq(Nat)
  BY SpareIs, InvFacts
<1>2. n \in Nat /\ old + n \in Nat /\ old + n <= len
  BY <1>1
<1> DEFINE s == Store(buffer, old, r, n)
           b == Truncate(s, old + n)
<1>3. s \in Seq(Nat) /\ Len(s) = len
  BY <1>1, <1>2, StoreFacts
<1> HIDE DEF s
<1>4. Smaller(old + n, Len(s)) = old + n
  BY <1>2, <1>3 DEF Smaller
<1>5. b \in Seq(Nat) /\ Len(b) = old + n
  BY <1>2, <1>3, <1>4, TruncateFacts
<1>6. buffer' = b
  BY DEF ReadOk, s
<1> HIDE DEF b
<1>7. old \in 0..Len(b) /\ SubSeq(b, old + 1, old + n) = Drain(b, old)
  BY <1>2, <1>5 DEF Drain
<1>8. SubSeq(b, old + 1, old + n) \in Seq(Nat)
  BY <1>5, <1>7, DrainFacts
<1> QED
  BY <1>6, <1>8, InvFacts, ConcatProperties

LEMMA ExactInv ==
    IInv /\ (peek_exact_enter \/ peek_exact_resize \/ peek_exact_read) => IInv'
<1> SUFFICES ASSUME IInv, \/ peek_exact_enter \/ peek_exact_resize
                          \/ peek_exact_read
             PROVE  IInv'
  OBVIOUS
<1>0. fut.op = "peek_exact" /\ Len(fut.out) <= fut.want
  BY DEF peek_exact_enter, peek_exact_resize, peek_exact_read, At, IInv,
     ExactTail
<1>1. CASE peek_exact_enter
  <2>1. buffer' \in Seq(Nat) /\ rpos' \in Nat
    BY <1>1, StorageKept DEF peek_exact_enter
  <2> DEFINE k == Smaller(Len(buffer), fut.want)
  <2>2. k \in 0..Len(buffer) /\ k <= fut.want
    BY InvFacts DEF Smaller
  <2> HIDE DEF k
  <2>3. SubSeq(buffer, 1, k) \in Seq(Nat) /\ Len(SubSeq(buffer, 1, k)) = k
    BY <2>2, InvFacts, PrefixFacts
  <2>4. ASSUME NEW out, out = IF fut.out = <<>> THEN SubSeq(buffer, 1, k)
                              ELSE fut.out
        PROVE  out \in Seq(Nat) /\ Len(out) <= fut.want
    BY <1>0, <2>2, <2>3, <2>4, InvFacts
  <2> QED
    BY <1>1, <2>1, <2>4, ReadyInv, GrowInv DEF peek_exact_enter, k
<1>2. CASE peek_exact_resize
  <2>1. rpos' \in Nat
    BY <1>2, StorageKept DEF peek_exact_resize
  <2>2. CASE /\ ResizeTo(Len(buffer) + Missing)
             /\ Continue("read", Len(buffer), fut.out)
    BY <1>0, <2>1, <2>2, MissingIs, InvFacts, ReadInv
  <2>3. CASE Ready("oom", 0, fut.out) /\ UNCHANGED storage
    BY <2>1, <2>3, StorageKept, ReadyInv
  <2> QED
    BY <1>2, <2>2, <2>3 DEF peek_exact_resize
<1>3. CASE peek_exact_read
  <2>1. CASE ReadOk(0) /\ Ready("eof", 0, fut.out)
    BY <2>1, StorageKept, ReadyInv
  <2>2. CASE ReaderFails /\ RollBack /\ Ready("err", 0, fut.out)
    BY <2>2, StorageKept, ReadyInv
  <2>3. ASSUME NEW n \in 1..Remaining(Spare), ReadOk(n), NEW out,
               out = fut.out \o SubSeq(buffer', fut.old + 1, fut.old + n),
               \/ Len(out) < fut.want /\ Continue("grow", 0, out)
               \/ Len(out) >= fut.want /\ Ready("ok", fut.want, out)
        PROVE  IInv'
    <3>1. n \in Nat
      BY InvFacts, SpareIs
    <3>2. buffer' \in Seq(Nat) /\ rpos' \in Nat
      BY <2>3, <3>1, StorageKept
    <3>3. out \in Seq(Nat) /\ Len(out) \in Nat
      BY <1>0, <1>3, <2>3, PieceIs, LenProperties DEF peek_exact_read, At
    <3>4. Len(out) < fut.want => Len(out) <= fut.want
      BY <3>3, InvFacts
    <3> QED
      BY <2>3, <3>2, <3>3, <3>4, ReadyInv, GrowInv
  <2> QED
    BY <1>3, <2>1, <2>2, <2>3 DEF peek_exact_read
<1> QED
  BY <1>1, <1>2, <1>3

LEMMA FailEnds ==
    /\ \A st, b : Conclude(st, b) => fut' = NoFuture
    /\ \A st, b : Fail(st, b) => fut' = NoFuture
BY DEF Conclude, Fail, Ready

LEMMA GrowthsTyped == Growths \subseteq Nat
BY GrowthsAre, HalvedFacts

LEMMA WholeInv ==
    IInv /\ (\/ peek_to_end_enter \/ peek_to_string_enter \/ grow_peek_buffer
             \/ peek_whole_read)
      => IInv'
<1> SUFFICES ASSUME IInv, \/ peek_to_end_enter \/ peek_to_string_enter
                          \/ grow_peek_buffer \/ peek_whole_read
             PROVE  IInv'
  OBVIOUS
<1>0. fut.op \in Wholes /\ fut.op # "peek_exact" /\ fut.op \notin Peeks
      /\ <<>> \in Seq(Nat)
  BY EmptySeq DEF peek_to_end_enter, peek_to_string_enter, grow_peek_buffer,
     peek_whole_read, At, InRead, Wholes, Peeks
<1>1. CASE peek_to_end_enter
  <2>1. buffer' \in Seq(Nat) /\ rpos' \in Nat
    BY <1>1, StorageKept DEF peek_to_end_enter
  <2> PICK out \in Seq(Nat) : out = IF fut.first THEN buffer ELSE fut.out
    BY InvFacts
  <2>2. Continue("grow", 0, out)
    BY <1>1 DEF peek_to_end_enter
  <2> QED
    BY <1>0, <2>1, <2>2, GrowInv
<1>2. CASE peek_to_string_enter
  <2>1. buffer' \in Seq(Nat) /\ rpos' \in Nat
    BY <1>2, StorageKept DEF peek_to_string_enter
  <2> QED
    BY <1>0, <1>2, <2>1, ReadyInv, GrowInv DEF peek_to_string_enter
<1>3. CASE grow_peek_buffer
  <2>1. rpos' \in Nat
    BY <1>3, StorageKept DEF grow_peek_buffer
  <2>2. ASSUME NEW growth \in Growths, ResizeTo(Len(buffer) + growth),
               Continue("read", Len(buffer), fut.out)
        PROVE  IInv'
    <3>1. Len(buffer) + growth \in Nat
      BY GrowthsTyped, InvFacts
    <3> QED
      BY <1>0, <2>1, <2>2, <3>1, InvFacts, ReadInv
  <2>3. CASE UNCHANGED storage /\ Fail("oom", buffer)
    BY <2>1, <2>3, StorageKept, FailEnds, IdleInv
  <2> QED
    BY <1>3, <2>2, <2>3 DEF grow_peek_buffer
<1>4. CASE peek_whole_read
  <2>1. CASE ReadOk(0) /\ fut' = NoFuture
    BY <2>1, StorageKept, IdleInv
  <2>2. ASSUME NEW n \in 1..Remaining(Spare), ReadOk(n), NEW out,
               out = IF fut.op = "peek_to_end"
                     THEN fut.out \o SubSeq(buffer', fut.old + 1, fut.old + n)
                     ELSE <<>>,
               Continue("grow", 0, out)
        PROVE  IInv'
    <3>1. n \in Nat
      BY InvFacts, SpareIs
    <3>2. buffer' \in Seq(Nat) /\ rpos' \in Nat
      BY <2>2, <3>1, StorageKept
    <3>3. out \in Seq(Nat)
      BY <1>0, <1>4, <2>2, PieceIs DEF peek_whole_read, InRead
    <3> QED
      BY <1>0, <2>2, <3>2, <3>3, GrowInv
  <2>3. CASE ReaderFails /\ RollBack /\ Fail("err", buffer')
    <3>1. fut' = NoFuture
      BY <2>3, FailEnds
    <3> QED
      BY <2>3, <3>1, StorageKept, IdleInv
  <2>4. \/ ReadOk(0) /\ fut' = NoFuture
        \/ \E n \in 1..Remaining(Spare) :
             /\ ReadOk(n)
             /\ Continue("grow", 0,
                  IF fut.op = "peek_to_end"
                  THEN fut.out \o SubSeq(buffer', fut.old + 1, fut.old + n)
                  ELSE <<>>)
        \/ ReaderFails /\ RollBack /\ Fail("err", buffer')
    BY <1>4, FailEnds DEF peek_whole_read, Ready
  <2> QED
    BY <2>1, <2>2, <2>3, <2>4
<1> QED
  BY <1>1, <1>2, <1>3, <1>4

LEMMA RestInv ==
    IInv /\ (\/ fill_peek_buf_enter \/ fill_peek_buf_read
             \/ interrupted \/ pending)
      => IInv'
<1> SUFFICES ASSUME IInv, \/ fill_peek_buf_enter \/ fill_peek_buf_read
                          \/ interrupted \/ pending
             PROVE  IInv'
  OBVIOUS
<1>1. CASE fill_peek_buf_enter
  <2>1. /\ rpos' \in Nat /\ <<>> \in Seq(Nat)
        /\ fut.op \notin Peeks \cup {"peek_exact"}
    BY <1>1, StorageKept, EmptySeq DEF fill_peek_buf_enter, At, Peeks
  <2>2. CASE UNCHANGED storage /\ fut' = NoFuture
    BY <2>1, <2>2, StorageKept, IdleInv
  <2>3. CASE ResizeTo(fut.want) /\ Continue("read", fut.old, <<>>)
    BY <2>1, <2>3, InvFacts, ReadInv
  <2> QED
    BY <1>1, <2>2, <2>3 DEF fill_peek_buf_enter, Ready
<1>2. CASE fill_peek_buf_read
  <2>1. fut' = NoFuture
    BY <1>2 DEF fill_peek_buf_read, Ready
  <2>2. CASE ReaderFails /\ RollBack
    BY <2>1, <2>2, StorageKept, IdleInv
  <2>3. ASSUME NEW n \in 0..Remaining(Spare), ReadOk(n) PROVE IInv'
    <3>1. n \in Nat
      BY InvFacts, SpareIs
    <3> QED
      BY <2>1, <2>3, <3>1, StorageKept, IdleInv
  <2> QED
    BY <1>2, <2>2, <2>3 DEF fill_peek_buf_read
<1>3. CASE interrupted
  <2>1. buffer' \in Seq(Nat) /\ rpos' \in Nat
    BY <1>3, StorageKept DEF interrupted
  <2>2. fut.op = "peek_exact" => Len(fut.out) <= fut.want
    BY DEF IInv, ExactTail
  <2> QED
    BY <1>3, <2>1, <2>2, InvFacts, GrowInv DEF interrupted
<1>4. CASE pending
  <2>1. buffer' \in Seq(Nat) /\ rpos' \in Nat
    BY <1>4, StorageKept DEF pending
  <2> QED
    BY <1>4, <2>1, SuspendInv DEF pending, Pending
<1> QED
  BY <1>1, <1>2, <1>3, <1>4

(* The capacity is what resize or a constructor has left. *)
LEMMA CapInv == IInv /\ CapTyped /\ [Next]_vars => CapTyped'
<1> SUFFICES ASSUME IInv, CapTyped, [Next]_vars PROVE CapTyped'
  OBVIOUS
<1>1. ASSUME buf_cap' = buf_cap, cap' = cap \/ cap' = FreshCapacity(buf_cap)
      PROVE  CapTyped'
  BY <1>1, TokioAssumption, FreshCapacityFacts DEF CapTyped
<1>2. ASSUME buf_cap' = buf_cap, NEW len \in Nat, ResizeTo(len)
      PROVE  CapTyped'
  BY <1>2, AllocateFacts DEF CapTyped, ResizeTo
<1> USE DEF given, storage
<1>3. CASE Call
  BY <1>1, <1>3
  DEF Call, read, peek, peek_buf, peek_exact, fill_buf, peek_to_end,
      peek_to_string, fill_peek_buf, Create, BufRead_consume, consume,
      consume_in_place
<1>4. CASE poll_peek
  <2>1. Remaining(fut.rb) = fut.want
    BY <1>4, RoomIs DEF poll_peek, Handing
  <2> QED
    BY <1>1, <1>2, <1>4, <2>1, InvFacts DEF poll_peek
<1>5. CASE peek_exact_resize
  <2>1. Len(buffer) + Missing \in Nat
    BY <1>5, MissingIs DEF peek_exact_resize, At
  <2> QED
    BY <1>1, <1>2, <1>5, <2>1 DEF peek_exact_resize
<1>6. CASE grow_peek_buffer
  <2>1. \A growth \in Growths : Len(buffer) + growth \in Nat
    BY GrowthsTyped, InvFacts
  <2> QED
    BY <1>1, <1>2, <1>6, <2>1 DEF grow_peek_buffer
<1>7. CASE fill_peek_buf_enter
  BY <1>1, <1>2, <1>7, InvFacts DEF fill_peek_buf_enter
<1>8. CASE peek_exact_enter \/ peek_to_end_enter \/ peek_to_string_enter
  BY <1>1, <1>8 DEF peek_exact_enter, peek_to_end_enter, peek_to_string_enter
<1>9. CASE Outcome
  BY <1>1, <1>9 DEF Outcome, poll_read, poll_fill_buf, poll_peek_read,
     peek_exact_read, peek_whole_read, fill_peek_buf_read, ReadOk, RollBack
<1>10. CASE NoOutcome
  BY <1>1, <1>10 DEF NoOutcome, delegated_pends, poll_peek_blocked, pending,
     poll_peek_again, interrupted, RollBack
<1>11. CASE Arrive \/ Close \/ poll \/ drop_future \/ UNCHANGED vars
  BY <1>1, <1>11 DEF Arrive, Close, poll, drop_future, vars
<1> QED
  BY <1>3, <1>4, <1>5, <1>6, <1>7, <1>8, <1>9, <1>10, <1>11
  DEF Next, Prepare

LEMMA NextInv == IInv /\ CapTyped /\ [Next]_vars => IInv'
<1> SUFFICES ASSUME IInv, CapTyped, [Next]_vars PROVE IInv'
  OBVIOUS
<1>1. CASE UNCHANGED vars
  BY <1>1 DEF vars, IInv, HandedBuf, PeekTail, ExactTail
<1>2. CASE Prepare
  BY <1>2, PeekInv, ExactInv, WholeInv, RestInv DEF Prepare
<1>3. CASE Outcome
  BY <1>3, DelegatedInv, PeekInv, ExactInv, WholeInv, RestInv DEF Outcome
<1>4. CASE NoOutcome
  BY <1>4, DelegatedInv, PeekInv, RestInv DEF NoOutcome
<1> QED
  BY <1>1, <1>2, <1>3, <1>4, WorldInv, CallInv DEF Next

LEMMA Invariance == Spec => [](IInv /\ CapTyped)
<1>1. Init => CapTyped
  BY TokioAssumption, FreshCapacityFacts DEF Init, construct, CapTyped
<1> QED
  BY <1>1, InitInv, NextInv, CapInv, PTL DEF Spec

-----------------------------------------------------------------------------
(* Theorems. *)

(* A call that has not answered has left the caller's ReadBuf alone        *)
(* (poll_read in src/src/tokio.rs, and the ReadBufs its futures make): a   *)
(* poll that puts bytes and then says Pending would put them again.        *)
THEOREM ReadBufsIntact == Spec => []ReadBufIntact
<1>1. IInv => ReadBufIntact
  BY DEF IInv, HandedBuf, ReadBufIntact
<1> QED
  BY <1>1, Invariance, PTL

(* The crate's two asynchronous wrappers behave alike: every step of       *)
(* src/src/tokio.rs and src/src/tokio/, with its ReadBufs left out, is one *)
(* of src/src/future.rs and src/src/future/.                               *)
THEOREM BehavesLikeFuture == Spec => ImplementsFuture
BY InitTwin, NextTwin, Invariance, PTL DEF Spec, ImplementsFuture, Twin!Spec

-----------------------------------------------------------------------------
(* What is proved of the other wrapper is proved of this one.  The theorem *)
(* module brings operators of its own; they are the twin's.                *)
Carried == INSTANCE FutureAnswerProofs WITH fut <- TwinFut, ret <- TwinRet

LEMMA SameVerdicts ==
    /\ Twin!Growths = Carried!Growths
    /\ \A len, g : Twin!GrowsBy(len, g) <=> Carried!GrowsBy(len, g)
    /\ \A len : Twin!CannotGrow(len) <=> Carried!CannotGrow(len)
    /\ \A b : Twin!DefinitelyInvalid(Twin!Spelt(b))
                <=> Carried!DefinitelyInvalid(Carried!Spelt(b))
    /\ \A st, b : Twin!Fail(st, b) <=> Carried!Fail(st, b)
    /\ \A st, b : Twin!Conclude(st, b) <=> Carried!Conclude(st, b)
<1>1. Twin!Halved = Carried!Halved
  BY DEF Twin!Halved, Carried!Halved
<1>2. Twin!Growths = Carried!Growths
  BY <1>1 DEF Twin!Growths, Carried!Growths
<1>3. /\ \A len, g : Twin!GrowsBy(len, g) <=> Carried!GrowsBy(len, g)
      /\ \A len : Twin!CannotGrow(len) <=> Carried!CannotGrow(len)
  BY <1>2 DEF Twin!GrowsBy, Carried!GrowsBy, Twin!CannotGrow,
     Carried!CannotGrow, Twin!Fits, Carried!Fits, Twin!Refuses, Carried!Refuses
<1>4. \A c : Twin!Width(c) = Carried!Width(c)
  BY DEF Twin!Width, Carried!Width
<1>5. \A s : Twin!Valid(s) <=> Carried!Valid(s)
  BY <1>4 DEF Twin!Valid, Carried!Valid
<1>6. \A S : Twin!Max(S) = Carried!Max(S)
  BY DEF Twin!Max, Carried!Max
<1>7. \A s : Twin!ValidUpTo(s) = Carried!ValidUpTo(s)
  BY <1>5, <1>6 DEF Twin!ValidUpTo, Carried!ValidUpTo
<1>8. \A s : Twin!DefinitelyInvalid(s) <=> Carried!DefinitelyInvalid(s)
  BY <1>4, <1>5, <1>7
  DEF Twin!DefinitelyInvalid, Carried!DefinitelyInvalid, Twin!Incomplete,
      Carried!Incomplete
<1>9. \A b : Twin!Spelt(b) = Carried!Spelt(b)
  BY DEF Twin!Spelt, Carried!Spelt, Twin!Zero, Carried!Zero
<1>10. \A st, n, out : Twin!Ready(st, n, out) <=> Carried!Ready(st, n, out)
  BY Zenon DEF Twin!Ready, Carried!Ready, Twin!Answer, Carried!Answer,
     Twin!NoFuture, Carried!NoFuture
<1>11. \A st, b : Twin!Conclude(st, b) <=> Carried!Conclude(st, b)
  BY <1>5, <1>7, <1>9, <1>10 DEF Twin!Conclude, Carried!Conclude
<1>12. \A st, b : Twin!Fail(st, b) <=> Carried!Fail(st, b)
  BY <1>10, <1>11 DEF Twin!Fail, Carried!Fail
<1> QED
  BY <1>2, <1>3, <1>8, <1>9, <1>11, <1>12

LEMMA SameSteps == Twin!Next <=> Carried!Next
<1> USE DEF
      Twin!given, Carried!given, Twin!inner, Carried!inner, Twin!far,
      Carried!far, Twin!storage, Carried!storage, Twin!client,
      Carried!client, Twin!waking, Carried!waking, Twin!Free, Carried!Free,
      Twin!NoFuture, Carried!NoFuture, Twin!Create, Carried!Create,
      Twin!Answer, Carried!Answer, Twin!Ready, Carried!Ready, Twin!At,
      Carried!At, Twin!Continue, Carried!Continue, Twin!Pending,
      Carried!Pending, Twin!InRead, Carried!InRead, Twin!Suspended,
      Carried!Suspended, Twin!Smaller, Carried!Smaller, Twin!Larger,
      Carried!Larger, Twin!Zero, Carried!Zero, Twin!Slice, Carried!Slice,
      Twin!Fits, Carried!Fits, Twin!Refuses, Carried!Refuses, Twin!Resize,
      Carried!Resize, Twin!Allocate, Carried!Allocate, Twin!Truncate,
      Carried!Truncate, Twin!Drain, Carried!Drain, Twin!Store, Carried!Store,
      Twin!MayRead, Carried!MayRead, Twin!Advance, Carried!Advance,
      Twin!ReaderFails, Carried!ReaderFails, Twin!ReaderPends,
      Carried!ReaderPends, Twin!ReaderWouldBlock, Carried!ReaderWouldBlock,
      Twin!ReaderShows, Carried!ReaderShows, Twin!RollBack, Carried!RollBack,
      Twin!Room, Carried!Room, Twin!ResizeTo, Carried!ResizeTo, Twin!ReadOk,
      Carried!ReadOk, Twin!Peeks, Carried!Peeks, Twin!Wholes, Carried!Wholes,
      Twin!Loops, Carried!Loops, Twin!Send, Carried!Send, Twin!HangUp,
      Carried!HangUp, Twin!Wake, Carried!Wake, Twin!None, Carried!None,
      Twin!FreshCapacity, Carried!FreshCapacity, Twin!FromBuffer,
      Carried!FromBuffer, Twin!Missing, Carried!Missing
<1>1. Twin!Arrive <=> Carried!Arrive
  BY Zenon DEF Twin!Arrive, Carried!Arrive
<1>2. Twin!Close <=> Carried!Close
  BY Zenon DEF Twin!Close, Carried!Close
<1>3. Twin!poll <=> Carried!poll
  BY Zenon DEF Twin!poll, Carried!poll
<1>4. Twin!drop_future <=> Carried!drop_future
  BY Zenon DEF Twin!drop_future, Carried!drop_future
<1>5. \A w : Twin!read(w) <=> Carried!read(w)
  BY Zenon DEF Twin!read, Carried!read
<1>6. Twin!fill_buf <=> Carried!fill_buf
  BY Zenon DEF Twin!fill_buf, Carried!fill_buf
<1>7. \A w : Twin!peek(w) <=> Carried!peek(w)
  BY Zenon DEF Twin!peek, Carried!peek
<1>8. \A v, w : Twin!peek_vectored(v, w) <=> Carried!peek_vectored(v, w)
  BY Zenon DEF Twin!peek_vectored, Carried!peek_vectored
<1>9. \A w : Twin!peek_exact(w) <=> Carried!peek_exact(w)
  BY Zenon DEF Twin!peek_exact, Carried!peek_exact
<1>10. Twin!peek_to_end <=> Carried!peek_to_end
  BY Zenon DEF Twin!peek_to_end, Carried!peek_to_end
<1>11. Twin!peek_to_string <=> Carried!peek_to_string
  BY Zenon DEF Twin!peek_to_string, Carried!peek_to_string
<1>12. Twin!fill_peek_buf <=> Carried!fill_peek_buf
  BY Zenon DEF Twin!fill_peek_buf, Carried!fill_peek_buf
<1>13. \A w : Twin!BufRead_consume(w) <=> Carried!BufRead_consume(w)
  BY Zenon DEF Twin!BufRead_consume, Carried!BufRead_consume
<1>14. Twin!consume <=> Carried!consume
  BY Zenon DEF Twin!consume, Carried!consume
<1>15. Twin!consume_in_place <=> Carried!consume_in_place
  BY Zenon DEF Twin!consume_in_place, Carried!consume_in_place
<1>16. Twin!poll_read <=> Carried!poll_read
  BY Zenon DEF
    Twin!poll_read, Carried!poll_read, Twin!read_buffered,
    Carried!read_buffered, Twin!read_top_up, Carried!read_top_up,
    Twin!read_inner, Carried!read_inner
<1>17. Twin!poll_fill_buf <=> Carried!poll_fill_buf
  BY Zenon DEF Twin!poll_fill_buf, Carried!poll_fill_buf
<1>18. Twin!delegated_pends <=> Carried!delegated_pends
  BY Zenon DEF Twin!delegated_pends, Carried!delegated_pends
<1>19. Twin!poll_peek <=> Carried!poll_peek
  BY Zenon DEF Twin!poll_peek, Carried!poll_peek
<1>20. Twin!poll_peek_blocked <=> Carried!poll_peek_blocked
  BY Zenon DEF Twin!poll_peek_blocked, Carried!poll_peek_blocked
<1>21. Twin!poll_peek_read <=> Carried!poll_peek_read
  BY Zenon DEF Twin!poll_peek_read, Carried!poll_peek_read
<1>22. Twin!poll_peek_again <=> Carried!poll_peek_again
  BY Zenon DEF Twin!poll_peek_again, Carried!poll_peek_again
<1>23. Twin!peek_exact_enter <=> Carried!peek_exact_enter
  BY Zenon DEF Twin!peek_exact_enter, Carried!peek_exact_enter
<1>24. Twin!peek_exact_resize <=> Carried!peek_exact_resize
  BY Zenon DEF Twin!peek_exact_resize, Carried!peek_exact_resize
<1>25. Twin!peek_exact_read <=> Carried!peek_exact_read
  BY Zenon DEF Twin!peek_exact_read, Carried!peek_exact_read
<1>26. Twin!peek_to_end_enter <=> Carried!peek_to_end_enter
  BY Zenon DEF Twin!peek_to_end_enter, Carried!peek_to_end_enter
<1>27. Twin!peek_to_string_enter <=> Carried!peek_to_string_enter
  BY SameVerdicts, Zenon DEF Twin!peek_to_string_enter, Carried!peek_to_string_enter
<1>28. Twin!grow_peek_buffer <=> Carried!grow_peek_buffer
  BY SameVerdicts, Zenon DEF Twin!grow_peek_buffer, Carried!grow_peek_buffer
<1>29. Twin!peek_whole_read <=> Carried!peek_whole_read
  BY SameVerdicts, Zenon DEF Twin!peek_whole_read, Carried!peek_whole_read
<1>30. Twin!fill_peek_buf_enter <=> Carried!fill_peek_buf_enter
  BY Zenon DEF Twin!fill_peek_buf_enter, Carried!fill_peek_buf_enter
<1>31. Twin!fill_peek_buf_read <=> Carried!fill_peek_buf_read
  BY Zenon DEF Twin!fill_peek_buf_read, Carried!fill_peek_buf_read
<1>32. Twin!interrupted <=> Carried!interrupted
  BY Zenon DEF Twin!interrupted, Carried!interrupted
<1>33. Twin!pending <=> Carried!pending
  BY Zenon DEF Twin!pending, Carried!pending
<1> QED
  BY ONLY <1>1, <1>2, <1>3, <1>4, <1>5, <1>6, <1>7, <1>8, <1>9, <1>10, <1>11, <1>12,
     <1>13, <1>14, <1>15, <1>16, <1>17, <1>18, <1>19, <1>20, <1>21, <1>22,
     <1>23, <1>24, <1>25, <1>26, <1>27, <1>28, <1>29, <1>30, <1>31, <1>32,
     <1>33, Zenon
  DEF Twin!Next, Carried!Next, Twin!Call, Carried!Call, Twin!Prepare,
      Carried!Prepare, Twin!Outcome, Carried!Outcome, Twin!NoOutcome,
      Carried!NoOutcome

LEMMA CarriedSpec == Spec => Carried!Spec
<1>1. Twin!Init => Carried!Init
  BY Zenon DEF Twin!Init, Carried!Init, Twin!ReaderInit, Carried!ReaderInit,
     Twin!construct, Carried!construct, Twin!NoFuture, Carried!NoFuture,
     Twin!NoAnswer, Carried!NoAnswer, Twin!FreshCapacity,
     Carried!FreshCapacity, Twin!None, Carried!None, Twin!Larger,
     Carried!Larger
<1>2. [Twin!Next]_Twin!vars => [Carried!Next]_Carried!vars
  BY SameSteps, Zenon DEF Twin!vars, Carried!vars
<1> QED
  BY <1>1, <1>2, InitTwin, NextTwin, Invariance, PTL DEF Spec, Carried!Spec

(* The assumptions of the other wrapper's module are this one's. *)
LEMMA CarriedAssumptions ==
    Carried!ReaderAssumption /\ Carried!BufferAssumption
      /\ Carried!TaskAssumption
BY ReaderAssumption, BufferAssumption, TokioAssumption, Zenon
DEF ReaderAssumption, BufferAssumption, TokioAssumption, None, Classes,
    Carried!ReaderAssumption, Carried!BufferAssumption,
    Carried!TaskAssumption, Carried!None, Carried!Classes

(* No byte is lost, duplicated, reordered or invented, the progress fields *)
(* tell the truth, consume forwards no more than was shown, and no future  *)
(* waits that could answer, in src/src/tokio.rs as in src/src/future.rs.   *)
THEOREM NoByteLost ==
    Spec => []( /\ Carried!StreamIntact /\ Carried!ProgressIntact
                /\ Carried!BufReadContract /\ Carried!WaitsForSomething )
BY CarriedSpec, CarriedAssumptions, Carried!NoByteLost,
   Carried!ProgressIsTrue, Carried!ConsumesOnlyShown,
   Carried!WaitsOnlyForMore, PTL
(* A future that is parked has its waker with the reader, or a wake-up on  *)
(* its way.                                                                *)
THEOREM ParkedIsWoken ==
    ASSUME ~WouldBlocks
    PROVE  Spec => []Carried!ParkedIsWatched
<1>1. Carried!Spec => []Carried!ParkedIsWatched
  BY CarriedAssumptions, Carried!ParkedIsWoken
<1> QED
  BY <1>1, CarriedSpec, PTL

(* Seen by its callers, the wrapper over tokio readers is the stream with  *)
(* two cursors of PeekStream, and itself a reader that keeps the contract. *)
THEOREM IsStreamAndReader ==
    Spec => Carried!ImplementsPeekStream /\ Carried!ActsAsReader
BY CarriedSpec, CarriedAssumptions, Carried!WrapperIsStream,
   Carried!WrapperIsReader, PTL

(* Ends of file are real, PeekExact reads no further than it must, and     *)
(* PeekToString turns down only what is not text.                          *)
THEOREM AnswersAreRight ==
    Spec => /\ Carried!EofIsReal
            /\ Carried!PeekExactBounded
            /\ Carried!StringVerdict
BY CarriedSpec, CarriedAssumptions, Carried!EndIsTheEnd,
   Carried!ExactIsBounded, Carried!VerdictIsRight, PTL

(* The variables hold what their declarations say, and no caller is given *)
(* filler.                                                                *)
THEOREM TypeCorrect == Spec => []TypeOK
<1>1. Carried!TypeOK /\ IInv => TypeOK
  <2> SUFFICES ASSUME Carried!TypeOK, IInv PROVE TypeOK
    OBVIOUS
  <2>1. /\ TwinFut \in Carried!FutureType /\ TwinRet \in Carried!AnswerType
        /\ Carried!ReaderTypeOK
    BY DEF Carried!TypeOK
  <2>2. /\ fut.want \in Nat /\ fut.old \in Nat /\ fut.first \in BOOLEAN
        /\ fut.out \in Seq(1..N)
    BY <2>1, TwinFields DEF Carried!FutureType, Carried!Delivered
  <2>3. ret.n \in Nat /\ ret.out \in Seq(1..N)
    BY <2>1 DEF Carried!AnswerType, Carried!Delivered, TwinRet
  <2>4. ReaderTypeOK
    BY <2>1 DEF Carried!ReaderTypeOK, ReaderTypeOK
  <2> QED
    BY <2>2, <2>3, <2>4 DEF Carried!TypeOK, TypeOK
<1> QED
  BY <1>1, Invariance, CarriedSpec, CarriedAssumptions, Carried!TypeCorrect,
     PTL
=============================================================================
