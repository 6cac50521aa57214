---------------------------- MODULE AnswerProofs ----------------------------
(***************************************************************************)
(* What an answer of Peekable may say: when it reports the end of the      *)
(* file, when it gives up for want of room, how far grow_peek_buffer grows *)
(* and how peek_to_string judges.  These are action properties; each is    *)
(* proved of one step from the inductive invariant, the two about growth   *)
(* with an invariant of their own besides.                                 *)
(***************************************************************************)
EXTENDS RefinementProofs

-----------------------------------------------------------------------------
(* Steps that answer nothing. *)

Silent == ret' = ret /\ (call.pc # "idle" => call'.pc # "idle")

LEMMA SilentIsUnanswered ==
    ASSUME Silent, NEW S
    PROVE  ~Answered(S)
BY DEF Silent, Answered, Idle

LEMMA AgainIsSilent == ASSUME ReadAgain PROVE Silent
BY DEF ReadAgain, Silent

LEMMA GotoIsSilent ==
    ASSUME NEW op, NEW pc \in {"grow", "read"}, NEW want, NEW old, NEW out,
           Goto(op, pc, want, old, out), ret' = ret
    PROVE  Silent
BY DEF Goto, Silent

-----------------------------------------------------------------------------
(* The end of the file. *)

EofStep ==
    /\ Answered({"peek", "peek_vectored"}) /\ ret'.st = "ok" /\ ret'.n = 0
         /\ ret'.want > 0
       => rpos' = avail /\ pos' = rpos'
    /\ Answered({"peek_exact"}) /\ ret'.st = "eof"
       => rpos' = avail /\ rpos' < pos + ret'.want
    /\ Answered({"peek_to_end", "peek_to_string"}) /\ ret'.st = "ok"
       => rpos' = avail

(* Most steps answer nothing, or neither "ok" nor "eof", or something else *)
(* than a peek.                                                            *)
LEMMA OtherAnswers ==
    ASSUME \/ Silent
           \/ ret'.st \notin {"ok", "eof"}
           \/ ret'.op \notin {"peek", "peek_vectored", "peek_exact",
                              "peek_to_end", "peek_to_string"}
           \/ ret'.op = "peek_exact" /\ ret'.st # "eof"
    PROVE  EofStep
BY SilentIsUnanswered DEF EofStep, Answered

LEMMA PeekInto_eof ==
    ASSUME NEW op \in {"peek", "peek_vectored"}, NEW asked \in Nat,
           NEW want \in Nat, asked > 0 => want > 0, PeekInto(op, asked, want)
    PROVE  EofStep
<1>1. CASE Answer(op, "ok", asked, want, SubSeq(buffer, 1, want))
  <2>1. /\ ret'.op \in {"peek", "peek_vectored"} /\ ret'.st = "ok"
        /\ ret'.n = want /\ ret'.want = asked
    BY <1>1 DEF Answer
  <2>2. ~(ret'.n = 0 /\ ret'.want > 0)
    BY <2>1
  <2> QED
    BY <2>1, <2>2 DEF EofStep, Answered
<1>2. CASE Answer(op, "oom", asked, 0, <<>>)
  BY <1>2, OtherAnswers DEF Answer
<1>3. CASE ret' = ret /\ Goto(op, "read", asked, Len(buffer), <<>>)
  BY <1>3, GotoIsSilent, OtherAnswers
<1> QED
  BY <1>1, <1>2, <1>3 DEF PeekInto

(* Ok(0) for a slice that is not empty: nothing has arrived beyond rpos. *)
LEMMA NothingRead ==
    ASSUME IInv, call.pc = "read", Room > 0, ReadOk(0)
    PROVE  rpos' = avail /\ rpos' = rpos
<1>1. PICK room : room = Room
  OBVIOUS
<1>2. (room = 0 \/ rpos = avail) /\ rpos' = rpos + 0
  BY <1>1 DEF ReadOk, MayRead, Advance
<1> QED
  BY <1>1, <1>2, Facts

LEMMA peek_read_eof ==
    ASSUME IInv, peek_read
    PROVE  EofStep
<1>1. /\ call.pc = "read" /\ call.op \in {"peek", "peek_vectored"}
      /\ UNCHANGED <<avail, given, client>>
  BY DEF peek_read, At
<1>2. Room > 0
  BY <1>1 DEF IInv, CallIntact
<1>3. PICK old \in Nat : Handed(old)
  BY <1>1, HeldIsOld
<1>4. ASSUME NEW n \in 0..Room, ReadOk(n), Return("ok", call.old + n, buffer')
      PROVE  EofStep
  <2>1. /\ ret'.op \in {"peek", "peek_vectored"} /\ ret'.n = old + n
    BY <1>1, <1>3, <1>4 DEF Return, Answer, Handed
  <2>2. CASE old + n # 0
    BY <2>1, <2>2 DEF EofStep, Answered
  <2>3. CASE old + n = 0
    <3>1. n = 0 /\ old = 0
      BY <2>3
    <3>2. rpos' = avail /\ rpos' = rpos
      BY <1>1, <1>2, <1>4, <3>1, NothingRead
    <3>3. rpos = pos + 0 /\ pos \in Nat /\ pos' = pos
      BY <1>1, <1>3, <3>1, Facts DEF Held, Handed, client
    <3>4. pos' = rpos'
      BY <3>2, <3>3
    <3> QED
      BY <2>1, <3>2, <3>4 DEF EofStep, Answered
  <2> QED
    BY <2>2, <2>3
<1>5. CASE Return("err", 0, <<>>)
  BY <1>5, OtherAnswers DEF Return, Answer
<1>6. CASE ReadAgain
  BY <1>6, AgainIsSilent, OtherAnswers
<1> QED
  BY <1>4, <1>5, <1>6 DEF peek_read

LEMMA peek_exact_read_eof ==
    ASSUME IInv, peek_exact_read
    PROVE  EofStep
<1>1. /\ call.pc = "read" /\ call.op = "peek_exact"
      /\ UNCHANGED <<avail, given, client>>
  BY DEF peek_exact_read, At
<1>2. CASE ReadOk(0) /\ Return("eof", 0, call.out)
  <2>1. Room > 0 /\ Held < call.want
    BY <1>1 DEF IInv, CallIntact
  <2>2. rpos' = avail /\ rpos' = rpos
    BY <1>1, <1>2, <2>1, NothingRead
  <2>3. ret'.op = "peek_exact" /\ ret'.want = call.want
    BY <1>1, <1>2 DEF Return, Answer
  <2>4. PICK want \in Nat, held \in Nat : want = call.want /\ held = Held
    BY Facts DEF CallType
  <2>5. rpos = pos + held /\ pos \in Nat /\ held < want
    BY <2>1, <2>4, Facts
  <2>6. rpos < pos + want
    BY <2>5
  <2> QED
    BY <2>2, <2>3, <2>4, <2>6 DEF EofStep, Answered
<1>3. ASSUME NEW n, NEW out, Return("ok", n, out) PROVE EofStep
  BY <1>1, <1>3, OtherAnswers DEF Return, Answer
<1>4. CASE \E out : Goto("peek_exact", "grow", call.want, 0, out) /\ ret' = ret
  BY <1>4, GotoIsSilent, OtherAnswers
<1>5. CASE Return("err", 0, call.out)
  BY <1>5, OtherAnswers DEF Return, Answer
<1>6. CASE ReadAgain
  BY <1>6, AgainIsSilent, OtherAnswers
<1> QED
  BY <1>2, <1>3, <1>4, <1>5, <1>6 DEF peek_exact_read

(* peek_to_end and peek_to_string end well where the reader says Ok(0). *)
LEMMA WholeAnswer ==
    ASSUME call.op \in {"peek_to_end", "peek_to_string"},
           NEW st, NEW n, NEW out, Return(st, n, out),
           st = "ok" => rpos' = avail, st # "eof"
    PROVE  EofStep
<1>1. ret'.op \in {"peek_to_end", "peek_to_string"} /\ ret'.st = st
  BY DEF Return, Answer
<1> QED
  BY <1>1 DEF EofStep, Answered

LEMMA ConcludeAnswer ==
    ASSUME call.op \in {"peek_to_end", "peek_to_string"},
           NEW st, NEW b, Conclude(st, b), st = "ok" => rpos' = avail, st # "eof"
    PROVE  EofStep
<1>1. \A s : s = "invalid" => (s = "ok" => rpos' = avail) /\ s # "eof"
  OBVIOUS
<1>2. ASSUME NEW n, NEW out, Return(st, n, out) PROVE EofStep
  BY <1>2, WholeAnswer
<1>3. CASE Return("invalid", 0, <<>>)
  BY <1>1, <1>3, WholeAnswer
<1> QED
  BY <1>2, <1>3 DEF Conclude

LEMMA peek_to_end_read_eof ==
    ASSUME IInv, peek_to_end_read
    PROVE  EofStep
<1>1. call.pc = "read" /\ call.op = "peek_to_end"
  BY DEF peek_to_end_read, At
<1>2. CASE ReadOk(0) /\ Return("ok", Len(buffer'), call.out)
  <2>1. rpos' = avail
    BY <1>1, <1>2, NothingRead DEF IInv, CallIntact
  <2> QED
    BY <1>1, <1>2, <2>1, WholeAnswer
<1>3. ASSUME NEW out, Again(out) PROVE EofStep
  BY <1>3, GotoIsSilent, OtherAnswers DEF Again
<1>4. CASE Return("err", 0, call.out)
  BY <1>1, <1>4, WholeAnswer
<1> QED
  BY <1>2, <1>3, <1>4 DEF peek_to_end_read

LEMMA peek_to_string_read_eof ==
    ASSUME IInv, peek_to_string_read
    PROVE  EofStep
<1>1. call.pc = "read" /\ call.op = "peek_to_string"
  BY DEF peek_to_string_read, At
<1>2. CASE ReadOk(0) /\ Conclude("ok", buffer')
  <2>1. rpos' = avail
    BY <1>1, <1>2, NothingRead DEF IInv, CallIntact
  <2> QED
    BY <1>1, <1>2, <2>1, ConcludeAnswer
<1>3. CASE Again(<<>>)
  BY <1>3, GotoIsSilent, OtherAnswers DEF Again
<1>4. CASE Conclude("err", buffer')
  BY <1>1, <1>4, ConcludeAnswer
<1> QED
  BY <1>2, <1>3, <1>4 DEF peek_to_string_read

(* The attempts of grow_peek_buffer that do not give up answer nothing. *)
LEMMA GrowIsSilent ==
    ASSUME IInv, call.pc = "grow", grow_ok \/ grow_halve
    PROVE  Silent
<1>1. call \in CallType /\ ret' = ret
  BY Facts DEF grow_ok, grow_halve
<1>2. CASE grow_ok
  BY <1>1, <1>2 DEF grow_ok, Silent, CallType
<1>3. CASE grow_halve
  BY <1>1, <1>3 DEF grow_halve, Silent, CallType
<1> QED
  BY <1>2, <1>3

LEMMA grow_peek_buffer_eof ==
    ASSUME IInv, grow_peek_buffer
    PROVE  EofStep
<1>1. call.op \in {"peek_to_end", "peek_to_string"} /\ call.pc = "grow"
  BY DEF grow_peek_buffer, At
<1>2. CASE grow_ok
  BY <1>1, <1>2, GrowIsSilent, OtherAnswers
<1>3. CASE grow_halve
  BY <1>1, <1>3, GrowIsSilent, OtherAnswers
<1>4. CASE grow_fail
  BY <1>1, <1>4, WholeAnswer, ConcludeAnswer DEF grow_fail
<1> QED
  BY <1>2, <1>3, <1>4 DEF grow_peek_buffer

LEMMA CallEof ==
    ASSUME IInv, Call
    PROVE  EofStep
<1>1. 0..MaxWant \subseteq Nat
  BY ClientAssumption
<1>2. ASSUME NEW want \in 0..MaxWant, read(want) PROVE EofStep
  BY <1>2, OtherAnswers
  DEF read, read_buffered, read_top_up, read_inner, Answer
<1>3. ASSUME NEW want \in 0..MaxWant, peek(want) PROVE EofStep
  BY <1>1, <1>3, PeekInto_eof DEF peek
<1>4. ASSUME NEW want \in 0..MaxWant, peek_exact(want) PROVE EofStep
  BY <1>4, GotoIsSilent, OtherAnswers DEF peek_exact, Answer
<1>5. ASSUME NEW len1 \in 0..MaxWant, NEW len2 \in 0..MaxWant,
             peek_vectored(len1, len2)
      PROVE  EofStep
  <2> DEFINE want == IF len1 > 0 THEN len1 ELSE len2
  <2>1. /\ want \in Nat /\ len1 + len2 \in Nat
        /\ len1 + len2 > 0 => want > 0
    BY <1>1
  <2>2. PeekInto("peek_vectored", len1 + len2, want)
    BY <1>5 DEF peek_vectored
  <2> HIDE DEF want
  <2> QED
    BY <2>1, <2>2, PeekInto_eof
<1>6. ASSUME NEW amt \in 0..MaxWant, BufRead_consume(amt) PROVE EofStep
  BY <1>6, OtherAnswers DEF BufRead_consume, Answer
<1>7. CASE fill_buf \/ consume \/ consume_in_place
  BY <1>7, OtherAnswers DEF fill_buf, consume, consume_in_place, Answer
<1>8. CASE peek_to_end \/ peek_to_string \/ fill_peek_buf
  <2>1. CASE peek_to_end
    BY <2>1, GotoIsSilent, OtherAnswers DEF peek_to_end
  <2>2. CASE peek_to_string
    BY <2>2, GotoIsSilent, OtherAnswers DEF peek_to_string, Answer
  <2>3. CASE fill_peek_buf
    BY <2>3, GotoIsSilent, OtherAnswers DEF fill_peek_buf, Answer
  <2> QED
    BY <1>8, <2>1, <2>2, <2>3
<1> QED
  BY <1>2, <1>3, <1>4, <1>5, <1>6, <1>7, <1>8 DEF Call

LEMMA StepEof ==
    ASSUME IInv, [Next]_vars
    PROVE  EofStep
<1>1. CASE Arrive
  BY <1>1, OtherAnswers DEF Arrive, Silent
<1>2. CASE UNCHANGED vars
  BY <1>2, OtherAnswers DEF vars, Silent
<1>3. CASE peek_exact_resize
  BY <1>3, GotoIsSilent, OtherAnswers DEF peek_exact_resize, Return, Answer
<1>4. CASE peek_to_interrupted
  BY <1>4, GotoIsSilent, OtherAnswers DEF peek_to_interrupted, Again
<1>5. CASE fill_peek_buf_read
  <2>1. call.op = "fill_peek_buf"
    BY <1>5 DEF fill_peek_buf_read, At
  <2> QED
    BY <1>5, <2>1, AgainIsSilent, OtherAnswers
    DEF fill_peek_buf_read, Return, Answer
<1> QED
  BY <1>1, <1>2, <1>3, <1>4, <1>5, CallEof, peek_read_eof,
     peek_exact_read_eof, grow_peek_buffer_eof, peek_to_end_read_eof,
     peek_to_string_read_eof
  DEF Next, Step

(* "End of file" is only said at the end of the file: no short read, no    *)
(* interruption and no growth of zero is taken for it.                     *)
THEOREM EndIsTheEnd == Spec => EofIsReal
<1>1. IInv /\ [Next]_vars => [EofStep]_vars
  BY StepEof
<1> QED
  BY <1>1, Invariance, PTL DEF Spec, EofIsReal, EofStep

-----------------------------------------------------------------------------
(* Room in the back end.  No method makes the buffer longer except by a    *)
(* resize that the back end has granted.                                   *)

WithinBound == Len(buffer) <= Bound

Grown == Len(buffer') \in Nat /\ (Len(buffer') <= Len(buffer) \/ Len(buffer') <= Bound)

LEMMA ResizeIsGranted ==
    ASSUME IInv, NEW len \in Nat, ResizeTo(len)
    PROVE  Grown
<1>1. Len(buffer') = len
  BY Facts, ResizeFacts DEF ResizeTo
<1> QED
  BY <1>1 DEF ResizeTo, Fits, Grown

LEMMA UntouchedIsGrown == ASSUME IInv, buffer' = buffer PROVE Grown
BY Facts DEF Grown

LEMMA EmptiedIsGrown == ASSUME IInv, buffer' = <<>> PROVE Grown
BY Facts, EmptySeq DEF Grown

LEMMA DrainIsGrown ==
    ASSUME IInv, NEW k \in 0..Len(buffer), buffer' = Drain(buffer, k)
    PROVE  Grown
<1>1. buffer \in Seq(Nat) /\ Len(buffer) \in Nat
  BY Facts
<1>2. Len(buffer') = Len(buffer) - k
  BY <1>1, DrainFacts
<1> QED
  BY <1>1, <1>2 DEF Grown

LEMMA ReadIsGrown ==
    ASSUME IInv, call.pc = "read", UNCHANGED <<avail, given, client>>,
           (\E n \in 0..Room : ReadOk(n)) \/ ReadErr \/ ReadAgain
    PROVE  Grown
<1>1. PICK old \in Nat : Handed(old) /\ old <= Len(buffer)
  BY HeldIsOld
<1>2. ASSUME NEW n \in 0..Room, ReadOk(n) PROVE Grown
  <2>1. n \in Nat
    OBVIOUS
  <2>2. Len(buffer') = old + n /\ old + n \in Nat /\ old + n <= Len(buffer)
    BY <1>1, <1>2, <2>1, AfterOk
  <2> QED
    BY <2>2 DEF Grown
<1>3. CASE ReadErr
  <2>1. Len(buffer') = old
    BY <1>1, <1>3, AfterErr
  <2> QED
    BY <1>1, <2>1 DEF Grown
<1>4. CASE ReadAgain
  BY <1>4, UntouchedIsGrown DEF ReadAgain, storage
<1> QED
  BY <1>2, <1>3, <1>4

LEMMA CallIsGrown ==
    ASSUME IInv, Call
    PROVE  Grown
<1>1. 0..MaxWant \subseteq Nat
  BY ClientAssumption
<1>2. Len(buffer) \in Nat
  BY Facts
<1>3. ASSUME NEW want \in Nat, read(want) PROVE Grown
  <2>1. CASE read_buffered(want)
    BY <1>2, <2>1, DrainIsGrown DEF read_buffered
  <2> QED
    BY <1>3, <2>1, EmptiedIsGrown, UntouchedIsGrown
    DEF read, read_top_up, read_inner
<1>4. ASSUME NEW op, NEW asked, NEW want \in Nat, PeekInto(op, asked, want)
      PROVE  Grown
  BY <1>4, ResizeIsGranted, UntouchedIsGrown DEF PeekInto, storage
<1>5. ASSUME NEW amt \in Nat, BufRead_consume(amt) PROVE Grown
  <2>1. FromBuffer(amt) \in 0..Len(buffer)
    BY <1>2 DEF FromBuffer, Smaller
  <2> QED
    BY <1>5, <2>1, DrainIsGrown DEF BufRead_consume
<1>6. ASSUME fill_peek_buf PROVE Grown
  <2>1. cap \in Nat
    BY Facts
  <2> QED
    BY <1>6, <2>1, ResizeIsGranted, UntouchedIsGrown DEF fill_peek_buf, storage
<1>7. ASSUME NEW len1 \in Nat, NEW len2 \in Nat, peek_vectored(len1, len2)
      PROVE  Grown
  BY <1>4, <1>7 DEF peek_vectored
<1>8. ASSUME NEW want \in Nat, peek(want) PROVE Grown
  BY <1>4, <1>8 DEF peek
<1>9. ASSUME NEW want \in Nat, peek_exact(want) PROVE Grown
  BY <1>9, UntouchedIsGrown DEF peek_exact, storage
<1>10. CASE fill_buf \/ consume \/ consume_in_place
  BY <1>10, UntouchedIsGrown, EmptiedIsGrown
  DEF fill_buf, consume, consume_in_place, storage
<1>11. CASE peek_to_end \/ peek_to_string
  BY <1>11, UntouchedIsGrown DEF peek_to_end, peek_to_string, storage
<1> QED
  BY <1>1, <1>3, <1>5, <1>6, <1>7, <1>8, <1>9, <1>10, <1>11 DEF Call

LEMMA StepIsGrown ==
    ASSUME IInv, [Next]_vars
    PROVE  Grown
<1>1. CASE Arrive \/ UNCHANGED vars
  BY <1>1, UntouchedIsGrown DEF Arrive, storage, vars
<1>2. CASE peek_exact_resize
  <2>1. Len(buffer) + Missing \in Nat
    BY <1>2, MissingFacts DEF peek_exact_resize
  <2> QED
    BY <1>2, <2>1, ResizeIsGranted, UntouchedIsGrown
    DEF peek_exact_resize, storage
<1>3. CASE grow_peek_buffer
  <2>1. Len(buffer) + call.growth \in Nat
    BY Facts DEF CallType
  <2> QED
    BY <1>3, <2>1, ResizeIsGranted, UntouchedIsGrown
    DEF grow_peek_buffer, grow_ok, grow_halve, grow_fail, storage
<1>4. 1..Room \subseteq 0..Room
  OBVIOUS
<1>5. ASSUME IInv, call.pc = "read", ReadOk(0) PROVE 0 \in 0..Room
  BY <1>5 DEF ReadOk, MayRead
<1>6. CASE \/ peek_read \/ peek_exact_read \/ peek_to_end_read
           \/ peek_to_string_read \/ peek_to_interrupted \/ fill_peek_buf_read
  <2>1. /\ call.pc = "read" /\ UNCHANGED <<avail, given, client>>
        /\ (\E n \in 0..Room : ReadOk(n)) \/ ReadErr \/ ReadAgain
    BY <1>4, <1>5, <1>6
    DEF peek_read, peek_exact_read, peek_to_end_read, peek_to_string_read,
        peek_to_interrupted, fill_peek_buf_read, At
  <2> QED
    BY <2>1, ReadIsGrown
<1> QED
  BY <1>1, <1>2, <1>3, <1>6, CallIsGrown DEF Next, Step

LEMMA GrownKeeps ==
    ASSUME IInv, WithinBound, Grown
    PROVE  WithinBound'
<1>1. PICK a \in Nat, b \in Nat : a = Len(buffer) /\ b = Len(buffer')
  BY Facts DEF Grown
<1>2. a <= Bound /\ (b <= a \/ b <= Bound) /\ Bound \in Nat
  BY <1>1, BufferAssumption DEF WithinBound, Grown
<1>3. b <= Bound
  BY <1>2
<1> QED
  BY <1>1, <1>3 DEF WithinBound

LEMMA StaysWithinBound == Spec => []WithinBound
<1>1. Init => WithinBound
  BY EmptySeq, BufferAssumption DEF Init, construct, WithinBound
<1>2. IInv /\ WithinBound /\ [Next]_vars => WithinBound'
  BY StepIsGrown, GrownKeeps
<1> QED
  BY <1>1, <1>2, Invariance, PTL DEF Spec

(* Giving up. *)

GivesUp == Answered({"peek_to_end", "peek_to_string"}) /\ ret'.st = "oom"

LEMMA StayingIsNotGivingUp ==
    ASSUME \/ Silent
           \/ ret'.st # "oom"
           \/ ret'.op \notin {"peek_to_end", "peek_to_string"}
    PROVE  ~GivesUp
BY SilentIsUnanswered DEF GivesUp, Answered

LEMMA ConcludeGives ==
    ASSUME NEW st, NEW b, Conclude(st, b), st # "oom"
    PROVE  ret'.st # "oom"
BY DEF Conclude, Return, Answer

(* Only the last attempt of grow_peek_buffer gives up. *)
LEMMA GivesUpInGrow ==
    ASSUME IInv, [Next]_vars, GivesUp
    PROVE  grow_peek_buffer /\ grow_fail
<1> USE DEF Return, Answer
<1>1. ~Arrive /\ ~UNCHANGED vars
  BY StayingIsNotGivingUp DEF Arrive, vars, Silent
<1>2. ASSUME Call PROVE FALSE
  <2>1. ASSUME NEW want, read(want) PROVE FALSE
    BY <2>1, StayingIsNotGivingUp DEF read, read_buffered, read_top_up, read_inner
  <2>2. ASSUME NEW op \in {"peek", "peek_vectored"}, NEW asked, NEW want,
               PeekInto(op, asked, want)
        PROVE  FALSE
    BY <2>2, GotoIsSilent, StayingIsNotGivingUp DEF PeekInto
  <2>3. ASSUME NEW want, peek(want) PROVE FALSE
    BY <2>2, <2>3 DEF peek
  <2>4. ASSUME NEW len1, NEW len2, peek_vectored(len1, len2) PROVE FALSE
    BY <2>2, <2>4 DEF peek_vectored
  <2>5. ASSUME NEW want, peek_exact(want) PROVE FALSE
    BY <2>5, GotoIsSilent, StayingIsNotGivingUp DEF peek_exact
  <2>6. ASSUME NEW amt, BufRead_consume(amt) PROVE FALSE
    BY <2>6, StayingIsNotGivingUp DEF BufRead_consume
  <2>7. ASSUME fill_buf \/ consume \/ consume_in_place PROVE FALSE
    BY <2>7, StayingIsNotGivingUp DEF fill_buf, consume, consume_in_place
  <2>8. ASSUME peek_to_end PROVE FALSE
    BY <2>8, GotoIsSilent, StayingIsNotGivingUp DEF peek_to_end
  <2>9. ASSUME peek_to_string PROVE FALSE
    BY <2>9, GotoIsSilent, StayingIsNotGivingUp DEF peek_to_string
  <2>10. ASSUME fill_peek_buf PROVE FALSE
    BY <2>10, GotoIsSilent, StayingIsNotGivingUp DEF fill_peek_buf
  <2> QED
    BY <1>2, <2>1, <2>3, <2>4, <2>5, <2>6, <2>7, <2>8, <2>9, <2>10 DEF Call
<1>3. ASSUME NEW op, op \notin {"peek_to_end", "peek_to_string"},
             NEW pc, At(op, pc), NEW st, NEW n, NEW out, Return(st, n, out)
      PROVE  FALSE
  BY <1>3, StayingIsNotGivingUp DEF At
<1>4. ~peek_read
  BY <1>3, AgainIsSilent, StayingIsNotGivingUp DEF peek_read
<1>5. ~peek_exact_resize
  BY <1>3, GotoIsSilent, StayingIsNotGivingUp DEF peek_exact_resize
<1>6. ~peek_exact_read
  BY <1>3, AgainIsSilent, GotoIsSilent, StayingIsNotGivingUp DEF peek_exact_read
<1>7. ~peek_to_end_read
  BY GotoIsSilent, StayingIsNotGivingUp DEF peek_to_end_read, Again
<1>8. ~peek_to_string_read
  BY GotoIsSilent, ConcludeGives, StayingIsNotGivingUp
  DEF peek_to_string_read, Again
<1>9. ~peek_to_interrupted
  BY GotoIsSilent, StayingIsNotGivingUp DEF peek_to_interrupted, Again
<1>10. ~fill_peek_buf_read
  BY <1>3, AgainIsSilent, StayingIsNotGivingUp DEF fill_peek_buf_read
<1>11. grow_peek_buffer
  BY <1>1, <1>2, <1>4, <1>5, <1>6, <1>7, <1>8, <1>9, <1>10 DEF Next, Step
<1>12. ~grow_ok /\ ~grow_halve
  <2>1. call.pc = "grow"
    BY <1>11 DEF grow_peek_buffer, At
  <2> QED
    BY <2>1, GrowIsSilent, StayingIsNotGivingUp
<1> QED
  BY <1>11, <1>12 DEF grow_peek_buffer

LEMMA FullStep ==
    ASSUME ~Flaky, IInv, WithinBound, [Next]_vars, GivesUp
    PROVE  Len(buffer') = Bound /\ pos + Bound <= avail
<1>1. grow_peek_buffer /\ grow_fail
  BY GivesUpInGrow
<1>2. call.pc # "read" /\ buffer' = buffer
  BY <1>1 DEF grow_peek_buffer, At, grow_fail, storage
<1>3. PICK len \in Nat, growth \in Nat \ {0} :
        len = Len(buffer) /\ growth = call.growth
  BY Facts DEF CallType
<1>4. Bound \in Nat /\ len <= Bound /\ growth <= 1 /\ ~(len + growth <= Bound)
  BY <1>1, <1>3, BufferAssumption DEF WithinBound, grow_fail, Refuses, Fits
<1>5. len = Bound
  BY <1>4
<1>6. rpos = pos + len /\ rpos <= ibuf /\ ibuf <= avail
  BY <1>2, <1>3, HeldIsAll, Facts
<1>7. pos + Bound <= avail
  BY <1>5, <1>6, Facts
<1> QED
  BY <1>2, <1>3, <1>5, <1>7

(* A back end that fails only beyond a bound fails a peek of everything    *)
(* only when it is filled, to the last byte, with bytes of the stream.     *)
THEOREM GivesUpWhenFull ==
    ASSUME ~Flaky
    PROVE  Spec => FailsOnlyWhenFull
<1>1. IInv /\ WithinBound /\ [Next]_vars
        => [GivesUp => Len(buffer') = Bound /\ pos + Bound <= avail]_vars
  BY FullStep
<1> QED
  BY <1>1, Invariance, StaysWithinBound, PTL DEF Spec, FailsOnlyWhenFull, GivesUp

-----------------------------------------------------------------------------
(* The loop of grow_peek_buffer.  At its head, the growth about to be      *)
(* tried is the k-th half of READ_CHUNK, and all before it were refused.   *)

Tried(len, growth) ==
    \E k \in Nat : /\ growth = Halved[k]
                   /\ \A j \in Nat : j < k => Refuses(len + Halved[j])

AtGrow(op, pc) == pc = "grow" /\ op # "peek_exact"

AttemptsInOrder == AtGrow(call.op, call.pc) => Tried(Len(buffer), call.growth)

LEMMA FirstAttempt == ASSUME NEW len PROVE Tried(len, READ_CHUNK)
<1>1. READ_CHUNK = Halved[0] /\ \A j \in Nat : ~(j < 0)
  BY HalvedFacts
<1> QED
  BY <1>1 DEF Tried

LEMMA NextAttempt ==
    ASSUME NEW len, NEW growth, Tried(len, growth), Refuses(len + growth)
    PROVE  Tried(len, growth \div 2)
<1>1. PICK k \in Nat : /\ growth = Halved[k]
                       /\ \A j \in Nat : j < k => Refuses(len + Halved[j])
  BY DEF Tried
<1>2. Halved[k + 1] = growth \div 2 /\ k + 1 \in Nat
  BY <1>1, HalvedFacts
<1>3. ASSUME NEW j \in Nat, j < k + 1 PROVE Refuses(len + Halved[j])
  <2>1. j < k \/ j = k
    BY <1>3
  <2> QED
    BY <1>1, <2>1
<1> QED
  BY <1>2, <1>3 DEF Tried

(* A step that does not leave the call at the head of the loop, goes there *)
(* anew, or does not touch call and buffer.                                *)
LEMMA AttemptsKept ==
    ASSUME AttemptsInOrder,
           \/ call'.pc # "grow"
           \/ call'.op = "peek_exact"
           \/ call'.growth = READ_CHUNK
           \/ call' = call /\ buffer' = buffer
    PROVE  AttemptsInOrder'
BY FirstAttempt DEF AttemptsInOrder, AtGrow

LEMMA GotoKeepsAttempts ==
    ASSUME AttemptsInOrder, NEW op, NEW pc, NEW want, NEW old, NEW out,
           Goto(op, pc, want, old, out)
    PROVE  AttemptsInOrder'
BY AttemptsKept DEF Goto

LEMMA ReturnKeepsAttempts ==
    ASSUME AttemptsInOrder, NEW st, NEW n, NEW out, Return(st, n, out)
    PROVE  AttemptsInOrder'
BY AttemptsKept DEF Return, Rest

LEMMA ConcludeKeepsAttempts ==
    ASSUME AttemptsInOrder, NEW st, NEW b, Conclude(st, b)
    PROVE  AttemptsInOrder'
BY ReturnKeepsAttempts DEF Conclude

LEMMA AttemptsStep ==
    ASSUME IInv, AttemptsInOrder, [Next]_vars
    PROVE  AttemptsInOrder'
<1>1. CASE Arrive \/ UNCHANGED vars
  BY <1>1, AttemptsKept DEF Arrive, storage, vars
<1>2. CASE Call
  <2>1. call.pc # "grow"
    BY <1>2 DEF Call, read, fill_buf, BufRead_consume, consume,
       consume_in_place, peek, peek_vectored, PeekInto, peek_exact,
       peek_to_end, peek_to_string, fill_peek_buf, Idle
  <2>2. call' = call => AttemptsInOrder'
    BY <2>1, AttemptsKept
  <2>3. ASSUME NEW op, NEW asked, NEW want, PeekInto(op, asked, want)
        PROVE  AttemptsInOrder'
    BY <2>2, <2>3, GotoKeepsAttempts DEF PeekInto
  <2>4. ASSUME NEW want, read(want) PROVE AttemptsInOrder'
    BY <2>2, <2>4 DEF read
  <2>5. ASSUME NEW want, peek_exact(want) PROVE AttemptsInOrder'
    BY <2>2, <2>5, GotoKeepsAttempts DEF peek_exact
  <2>6. ASSUME NEW amt, BufRead_consume(amt) PROVE AttemptsInOrder'
    BY <2>2, <2>6 DEF BufRead_consume
  <2>7. fill_buf \/ consume \/ consume_in_place => AttemptsInOrder'
    BY <2>2 DEF fill_buf, consume, consume_in_place
  <2>8. peek_to_end => AttemptsInOrder'
    BY GotoKeepsAttempts DEF peek_to_end
  <2>9. peek_to_string => AttemptsInOrder'
    BY <2>2, GotoKeepsAttempts DEF peek_to_string
  <2>10. fill_peek_buf => AttemptsInOrder'
    BY <2>2, GotoKeepsAttempts DEF fill_peek_buf
  <2> QED
    BY <1>2, <2>3, <2>4, <2>5, <2>6, <2>7, <2>8, <2>9, <2>10
    DEF Call, peek, peek_vectored
<1>3. CASE grow_peek_buffer
  <2>1. call \in CallType /\ AtGrow(call.op, call.pc)
    BY <1>3, Facts DEF grow_peek_buffer, At, AtGrow
  <2>2. CASE grow_ok
    <3>1. call'.pc = "read"
      BY <2>1, <2>2 DEF grow_ok, CallType
    <3> QED
      BY <3>1, AttemptsKept
  <2>3. CASE grow_halve
    <3>1. call'.growth = call.growth \div 2 /\ buffer' = buffer
      BY <2>1, <2>3 DEF grow_halve, CallType, storage
    <3>2. Tried(Len(buffer), call.growth) /\ Refuses(Len(buffer) + call.growth)
      BY <2>1, <2>3 DEF AttemptsInOrder, grow_halve
    <3>3. Tried(Len(buffer), call.growth \div 2)
      BY <3>2, NextAttempt
    <3> QED
      BY <3>1, <3>3 DEF AttemptsInOrder
  <2>4. CASE grow_fail
    BY <2>4, ReturnKeepsAttempts, ConcludeKeepsAttempts DEF grow_fail
  <2> QED
    BY <1>3, <2>2, <2>3, <2>4 DEF grow_peek_buffer
<1>4. ReadAgain => AttemptsInOrder'
  BY AttemptsKept DEF ReadAgain, storage
<1>5. peek_read => AttemptsInOrder'
  BY <1>4, ReturnKeepsAttempts DEF peek_read
<1>6. peek_exact_resize => AttemptsInOrder'
  BY ReturnKeepsAttempts, GotoKeepsAttempts DEF peek_exact_resize
<1>7. peek_exact_read => AttemptsInOrder'
  BY <1>4, ReturnKeepsAttempts, GotoKeepsAttempts DEF peek_exact_read
<1>8. peek_to_end_read => AttemptsInOrder'
  BY ReturnKeepsAttempts, GotoKeepsAttempts DEF peek_to_end_read, Again
<1>9. peek_to_string_read => AttemptsInOrder'
  BY ConcludeKeepsAttempts, GotoKeepsAttempts DEF peek_to_string_read, Again
<1>10. peek_to_interrupted => AttemptsInOrder'
  BY GotoKeepsAttempts DEF peek_to_interrupted, Again
<1>11. fill_peek_buf_read => AttemptsInOrder'
  BY <1>4, ReturnKeepsAttempts DEF fill_peek_buf_read
<1> QED
  BY <1>1, <1>2, <1>3, <1>5, <1>6, <1>7, <1>8, <1>9, <1>10, <1>11 DEF Next, Step

LEMMA InOrder == Spec => []AttemptsInOrder
<1>1. Init => AttemptsInOrder
  BY DEF Init, Rest, AttemptsInOrder, AtGrow
<1>2. IInv /\ AttemptsInOrder /\ [Next]_vars => AttemptsInOrder'
  BY AttemptsStep
<1> QED
  BY <1>1, <1>2, Invariance, PTL DEF Spec

GrowStep ==
    /\ call.pc = "grow" /\ call'.pc = "read" /\ call.op # "peek_exact"
         => GrowsBy(Len(buffer), Len(buffer') - Len(buffer))
    /\ Answered({"peek_to_end", "peek_to_string"}) /\ ret'.st = "oom"
         => CannotGrow(Len(buffer))

(* Of the steps from the head of the loop to the reader, only grow_ok is   *)
(* not one of peek_exact.                                                  *)
LEMMA ToTheReader ==
    ASSUME IInv, [Next]_vars, call.pc = "grow", call'.pc = "read",
           call.op # "peek_exact"
    PROVE  grow_peek_buffer /\ grow_ok
<1>1. ~Idle
  BY DEF Idle
<1>2. ~(UNCHANGED vars) /\ ~Arrive
  BY DEF vars, Arrive
<1>3. ~Call
  BY <1>1 DEF Call, read, fill_buf, BufRead_consume, consume,
     consume_in_place, peek, peek_vectored, PeekInto, peek_exact,
     peek_to_end, peek_to_string, fill_peek_buf
<1>4. grow_peek_buffer
  BY <1>2, <1>3 DEF Next, Step, peek_read, peek_exact_resize, peek_exact_read,
     peek_to_end_read, peek_to_string_read, peek_to_interrupted,
     fill_peek_buf_read, At
<1>5. ~grow_halve
  BY Facts DEF grow_halve, CallType
<1>6. ~grow_fail
  BY DEF grow_fail, Conclude, Return, Rest
<1> QED
  BY <1>4, <1>5, <1>6 DEF grow_peek_buffer

LEMMA GrowsOnce ==
    ASSUME IInv, AttemptsInOrder, [Next]_vars
    PROVE  GrowStep
<1>1. PICK len \in Nat : len = Len(buffer)
  BY Facts
<1>2. PICK growth \in Nat \ {0} : growth = call.growth
  BY Facts DEF CallType
<1>3. grow_peek_buffer => Tried(len, growth)
  BY <1>1, <1>2 DEF AttemptsInOrder, AtGrow, grow_peek_buffer, At
<1>4. ASSUME call.pc = "grow", call'.pc = "read", call.op # "peek_exact"
      PROVE  GrowsBy(Len(buffer), Len(buffer') - Len(buffer))
  <2>1. grow_peek_buffer /\ grow_ok
    BY <1>4, ToTheReader
  <2>2. PICK sum \in Nat : sum = len + growth
    OBVIOUS
  <2>3. ResizeTo(sum)
    BY <1>1, <1>2, <2>1, <2>2 DEF grow_ok
  <2>4. Fits(sum) /\ Len(buffer') = sum
    BY <2>2, <2>3, Facts, ResizeFacts DEF ResizeTo
  <2>5. sum - len = growth
    BY <2>2
  <2>6. PICK k \in Nat : /\ growth = Halved[k]
                         /\ \A j \in Nat : j < k => Refuses(len + Halved[j])
    BY <1>3, <2>1 DEF Tried
  <2>7. GrowsBy(len, growth)
    BY <2>2, <2>4, <2>6, FirstGranted
  <2> QED
    BY <1>1, <2>4, <2>5, <2>7
<1>5. ASSUME GivesUp PROVE CannotGrow(Len(buffer))
  <2>1. grow_peek_buffer /\ grow_fail
    BY <1>5, GivesUpInGrow
  <2>2. Refuses(len + growth) /\ growth <= 1
    BY <1>1, <1>2, <2>1 DEF grow_fail
  <2>3. growth = 1
    BY <2>2
  <2>4. PICK k \in Nat : /\ growth = Halved[k]
                         /\ \A j \in Nat : j < k => Refuses(len + Halved[j])
    BY <1>3, <2>1 DEF Tried
  <2> QED
    BY <1>1, <2>2, <2>3, <2>4, NoneGranted
<1> QED
  BY <1>4, <1>5 DEF GrowStep, GivesUp

(* The attempts of grow_peek_buffer are together one step: the largest     *)
(* growth the back end grants, or a failure when it grants none, for every *)
(* READ_CHUNK.  This is the step the asynchronous models take it for.      *)
THEOREM GrowsToTheLargest == Spec => GrowsAsOneStep
<1>1. IInv /\ AttemptsInOrder /\ [Next]_vars => [GrowStep]_vars
  BY GrowsOnce
<1> QED
  BY <1>1, Invariance, InOrder, PTL DEF Spec, GrowsAsOneStep, GrowStep

-----------------------------------------------------------------------------
(* What peek_to_string decides on.  The bytes it shows to from_utf8 are a  *)
(* piece of the stream.                                                    *)

LEMMA SpeltSlice ==
    ASSUME text \in [1..N -> Classes], NEW p \in Nat, NEW n \in Nat, p + n <= N
    PROVE  /\ Spelt(Slice(p, n)) = SubSeq(text, p + 1, p + n)
           /\ Spelt(Slice(p, n)) \in Text /\ Len(Spelt(Slice(p, n))) = n
           /\ \A i \in 1..n : Spelt(Slice(p, n))[i] = text[p + i]
<1> DEFINE b == Slice(p, n)
           s == SubSeq(text, p + 1, p + n)
<1>1. Len(b) = n /\ \A i \in 1..n : b[i] = p + i
  BY SliceFacts
<1>2. s \in Text /\ Len(s) = n /\ \A i \in 1..n : s[i] = text[p + i]
  BY PieceOfText, ClientAssumption
<1> HIDE DEF b, s
<1>3. \A i \in 1..n : Spelt(b)[i] = text[p + i]
  BY <1>1 DEF Spelt, Zero
<1>4. Spelt(b) \in [1..n -> Classes]
  <2>1. \A i \in 1..n : p + i \in 1..N
    BY ClientAssumption
  <2> QED
    BY <1>1, <1>3, <2>1 DEF Spelt
<1>5. Spelt(b) \in Seq(Classes) /\ Len(Spelt(b)) = n
  BY <1>4, FunctionIsSeq
<1>6. Spelt(b) = s
  BY <1>2, <1>3, <1>5, SeqEqual DEF Text
<1> QED
  BY <1>2, <1>6 DEF b, s

(* The prefix of a slice spells the prefix of its text. *)
LEMMA SpeltPrefix ==
    ASSUME text \in [1..N -> Classes], NEW p \in Nat, NEW n \in Nat, p + n <= N,
           NEW k \in 0..n
    PROVE  Spelt(SubSeq(Slice(p, n), 1, k)) = SubSeq(Spelt(Slice(p, n)), 1, k)
<1>1. SubSeq(Slice(p, n), 1, k) = Slice(p, k) /\ k \in Nat /\ p + k <= N
  BY SliceFront, ClientAssumption
<1> DEFINE s == Spelt(Slice(p, n))
           u == Spelt(Slice(p, k))
<1>2. /\ u \in Text /\ Len(u) = k /\ \A i \in 1..k : u[i] = text[p + i]
  BY <1>1, SpeltSlice
<1>3. /\ s \in Text /\ Len(s) = n /\ \A i \in 1..n : s[i] = text[p + i]
  BY SpeltSlice
<1> HIDE DEF s, u
<1>4. /\ SubSeq(s, 1, k) \in Text /\ Len(SubSeq(s, 1, k)) = k
      /\ \A i \in 1..k : SubSeq(s, 1, k)[i] = s[i]
  <2>1. k \in 0..Len(s)
    BY <1>3
  <2> QED
    BY <1>3, <2>1, PrefixOf DEF Text
<1>5. \A i \in 1..k : u[i] = SubSeq(s, 1, k)[i]
  BY <1>2, <1>3, <1>4
<1>6. u = SubSeq(s, 1, k)
  BY <1>2, <1>4, <1>5, SeqEqual DEF Text
<1> QED
  BY <1>1, <1>6 DEF s, u

LEMMA SpeltNothing == Valid(Spelt(<<>>))
BY EmptySeq, NothingIsValid, FunctionIsSeq DEF Spelt

LEMMA TextTyped == ASSUME IInv PROVE text \in [1..N -> Classes]
BY ClientAssumption DEF IInv, TypeOK

(* How peek_to_string comes to answer: it turns the stream down before     *)
(* reading on, or concludes from b, which is all that is peeked then.      *)
TurnsDown ==
    /\ call.pc = "idle"
    /\ DefinitelyInvalid(Spelt(buffer))
    /\ Answer("peek_to_string", "rejected", 0, 0, <<>>)
    /\ UNCHANGED <<pos, rpos, avail>>

ConcludesFrom(st, len) ==
    /\ st \in {"ok", "err", "oom"}
    /\ buffer' = Slice(pos, len) /\ pos + len <= N /\ Conclude(st, buffer')
    /\ pos' = pos
    /\ st = "ok" => avail = pos + len

Judges == Answered({"peek_to_string"})

LEMMA SilentIsNoJudgement ==
    ASSUME Silent \/ ret'.op # "peek_to_string"
    PROVE  ~Judges
BY SilentIsUnanswered DEF Judges, Answered

LEMMA OtherReturns ==
    ASSUME call.op # "peek_to_string", NEW st, NEW n, NEW out, Return(st, n, out)
    PROVE  ~Judges
BY SilentIsNoJudgement DEF Return, Answer

LEMMA GrowJudges ==
    ASSUME IInv, Judges, grow_peek_buffer
    PROVE  \E len \in Nat : ConcludesFrom("oom", len)
<1>1. /\ call.pc = "grow" /\ pos' = pos
      /\ call.op \in {"peek_to_end", "peek_to_string"}
  BY DEF grow_peek_buffer, At, client
<1>2. grow_fail
  BY <1>1, GrowIsSilent, SilentIsNoJudgement DEF grow_peek_buffer
<1>3. Conclude("oom", buffer) /\ buffer' = buffer
  BY <1>1, <1>2, OtherReturns DEF grow_fail, storage
<1>4. PICK len \in Nat : len = Len(buffer)
  BY Facts
<1>5. buffer = Slice(pos, len) /\ pos + len <= N
  <2>1. buffer = Slice(pos, len) /\ rpos = pos + len
    BY <1>1, <1>4, BufferIsSlice, HeldIsAll
  <2>2. rpos <= N /\ rpos \in Nat
    BY Facts, ClientAssumption
  <2> QED
    BY <2>1, <2>2
<1> QED
  BY <1>1, <1>3, <1>5 DEF ConcludesFrom

LEMMA ReadJudges ==
    ASSUME IInv, Judges, peek_to_string_read
    PROVE  \E st \in {"ok", "err"}, len \in Nat : ConcludesFrom(st, len)
<1>1. /\ call.pc = "read" /\ call.op = "peek_to_string"
      /\ UNCHANGED <<avail, given, client>>
  BY DEF peek_to_string_read, At
<1>2. PICK old \in Nat : Handed(old)
  BY <1>1, HeldIsOld
<1>3. pos + old <= N /\ rpos = pos + old
  <2>1. rpos = pos + old
    BY <1>1, <1>2, ApartFacts DEF Held, Handed, Apart
  <2> QED
    BY <2>1, Facts, ClientAssumption
<1>4. ASSUME NEW out, Again(out) PROVE FALSE
  BY <1>4, GotoIsSilent, SilentIsNoJudgement DEF Again
<1>5. CASE ReadOk(0) /\ Conclude("ok", buffer')
  <2>1. old + 0 = old
    OBVIOUS
  <2>2. buffer' = Slice(pos, old) /\ pos' = pos
    BY <1>1, <1>2, <1>5, <2>1, AfterOk
  <2>3. rpos' = avail /\ rpos' = rpos
    BY <1>1, <1>5, NothingRead DEF IInv, CallIntact
  <2> QED
    BY <1>3, <1>5, <2>2, <2>3 DEF ConcludesFrom
<1>6. CASE ReadErr /\ Conclude("err", buffer')
  <2>1. buffer' = Slice(pos, old) /\ pos' = pos
    BY <1>1, <1>2, <1>6, AfterErr
  <2> QED
    BY <1>3, <1>6, <2>1 DEF ConcludesFrom
<1> QED
  BY <1>4, <1>5, <1>6 DEF peek_to_string_read

LEMMA HowItJudges ==
    ASSUME IInv, [Next]_vars, Judges
    PROVE  TurnsDown \/ \E st, len : len \in Nat /\ ConcludesFrom(st, len)
<1>1. ~Arrive /\ ~UNCHANGED vars
  BY SilentIsNoJudgement DEF Arrive, vars, Silent
<1>2. ASSUME Call PROVE TurnsDown
  <2> USE DEF Answer
  <2>1. ASSUME NEW want, read(want) PROVE FALSE
    BY <2>1, SilentIsNoJudgement DEF read, read_buffered, read_top_up, read_inner
  <2>2. ASSUME NEW op \in {"peek", "peek_vectored"}, NEW asked, NEW want,
               PeekInto(op, asked, want)
        PROVE  FALSE
    BY <2>2, GotoIsSilent, SilentIsNoJudgement DEF PeekInto
  <2>3. ASSUME NEW want, peek(want) PROVE FALSE
    BY <2>2, <2>3 DEF peek
  <2>4. ASSUME NEW len1, NEW len2, peek_vectored(len1, len2) PROVE FALSE
    BY <2>2, <2>4 DEF peek_vectored
  <2>5. ASSUME NEW want, peek_exact(want) PROVE FALSE
    BY <2>5, GotoIsSilent, SilentIsNoJudgement DEF peek_exact
  <2>6. ASSUME NEW amt, BufRead_consume(amt) PROVE FALSE
    BY <2>6, SilentIsNoJudgement DEF BufRead_consume
  <2>7. ASSUME fill_buf \/ consume \/ consume_in_place PROVE FALSE
    BY <2>7, SilentIsNoJudgement DEF fill_buf, consume, consume_in_place
  <2>8. ASSUME peek_to_end PROVE FALSE
    BY <2>8, GotoIsSilent, SilentIsNoJudgement DEF peek_to_end
  <2>9. ASSUME fill_peek_buf PROVE FALSE
    BY <2>9, GotoIsSilent, SilentIsNoJudgement DEF fill_peek_buf
  <2>10. ASSUME peek_to_string PROVE TurnsDown
    BY <2>10, GotoIsSilent, SilentIsNoJudgement
    DEF peek_to_string, TurnsDown, Idle, inner, client
  <2> QED
    BY <1>2, <2>1, <2>3, <2>4, <2>5, <2>6, <2>7, <2>8, <2>9, <2>10 DEF Call
<1>3. ~peek_read
  BY OtherReturns, AgainIsSilent, SilentIsNoJudgement DEF peek_read, At
<1>4. ~peek_exact_resize
  BY OtherReturns, GotoIsSilent, SilentIsNoJudgement DEF peek_exact_resize, At
<1>5. ~peek_exact_read
  BY OtherReturns, AgainIsSilent, GotoIsSilent, SilentIsNoJudgement
  DEF peek_exact_read, At
<1>6. ~peek_to_end_read
  BY OtherReturns, GotoIsSilent, SilentIsNoJudgement
  DEF peek_to_end_read, At, Again
<1>7. ~peek_to_interrupted
  BY GotoIsSilent, SilentIsNoJudgement DEF peek_to_interrupted, Again
<1>8. ~fill_peek_buf_read
  BY OtherReturns, AgainIsSilent, SilentIsNoJudgement DEF fill_peek_buf_read, At
<1> QED
  BY <1>1, <1>2, <1>3, <1>4, <1>5, <1>6, <1>7, <1>8, GrowJudges, ReadJudges
  DEF Next, Step

-----------------------------------------------------------------------------
(* The judgement is right. *)

Verdict ==
    /\ Valid(Spelt(ret'.out))
    /\ ret'.st = "ok" => Valid(SubSeq(text, pos + 1, avail))
    /\ ret'.st = "invalid" => ~Valid(SubSeq(text, pos + 1, avail))
    /\ ret'.st = "rejected" =>
         \A t \in Texts :
           (\A i \in (pos + 1)..rpos : t[i] = text[i])
           => \A e \in rpos..N : ~Valid(SubSeq(t, pos + 1, e))

LongestKept ==
    ret'.st \in {"err", "oom"} =>
        /\ ret'.out = SubSeq(buffer', 1, Len(ret'.out))
        /\ \A k \in (Len(ret'.out) + 1)..Len(buffer') :
             ~Valid(Spelt(SubSeq(buffer', 1, k)))

LEMMA TurningDown ==
    ASSUME IInv, TurnsDown
    PROVE  Verdict /\ LongestKept
<1>1. ret'.st = "rejected" /\ ret'.out = <<>>
  BY DEF TurnsDown, Answer
<1>2. text \in [1..N -> Classes] /\ pos \in Nat /\ rpos \in Nat /\ N \in Nat
  BY TextTyped, Facts, ClientAssumption
<1>3. PICK len \in Nat : len = Len(buffer)
  BY Facts
<1>4. buffer = Slice(pos, len) /\ rpos = pos + len /\ rpos <= N
  BY <1>3, BufferIsSlice, HeldIsAll, Facts, ClientAssumption DEF TurnsDown
<1>5. DefinitelyInvalid(SubSeq(text, pos + 1, pos + len))
  <2>1. Spelt(buffer) = SubSeq(text, pos + 1, pos + len)
    BY <1>2, <1>4, SpeltSlice
  <2> QED
    BY <2>1 DEF TurnsDown
<1>6. ASSUME NEW t \in Texts, \A i \in (pos + 1)..rpos : t[i] = text[i],
             NEW e \in rpos..N
      PROVE  ~Valid(SubSeq(t, pos + 1, e))
  <2>1. t \in [1..N -> Classes]
    BY ClientAssumption
  <2>2. /\ pos + len <= N /\ e \in (pos + len)..N
        /\ \A i \in (pos + 1)..(pos + len) : t[i] = text[i]
    BY <1>4, <1>6
  <2>3. len \in Nat
    BY <1>3
  <2> QED
    BY ONLY <1>2, <1>5, <2>1, <2>2, <2>3, NoContinuation
<1> QED
  BY <1>1, <1>6, SpeltNothing DEF Verdict, LongestKept

LEMMA Concluding ==
    ASSUME IInv, NEW st, NEW len \in Nat, ConcludesFrom(st, len)
    PROVE  Verdict /\ LongestKept
<1>1. /\ text \in [1..N -> Classes] /\ pos \in Nat /\ pos + len <= N
      /\ st \in {"ok", "err", "oom"} /\ Conclude(st, buffer')
      /\ st = "ok" => avail = pos + len
  BY TextTyped, Facts DEF ConcludesFrom
<1>2. PICK b : b = buffer' /\ b = Slice(pos, len)
  BY DEF ConcludesFrom
<1>3. Len(b) = len /\ b \in Seq(Nat)
  BY <1>1, <1>2, SliceFacts
<1>4. Spelt(b) = SubSeq(text, pos + 1, pos + len)
  BY <1>1, <1>2, SpeltSlice
<1>5. Spelt(b) \in Text /\ Len(Spelt(b)) = len
  BY <1>1, <1>2, SpeltSlice
<1>6. \A k \in 0..len : Spelt(SubSeq(b, 1, k)) = SubSeq(Spelt(b), 1, k)
  BY <1>1, <1>2, SpeltPrefix
<1>7. CASE Valid(Spelt(b)) /\ \E n : Return(st, n, b)
  <2>1. ret'.st = st /\ ret'.out = b
    BY <1>7 DEF Return, Answer
  <2>2. Verdict
    BY <1>1, <1>4, <1>7, <2>1 DEF Verdict
  <2>3. b = SubSeq(b, 1, Len(b))
    <3>1. len \in 0..Len(b)
      BY <1>3
    <3>2. /\ SubSeq(b, 1, len) \in Seq(Nat) /\ Len(SubSeq(b, 1, len)) = len
          /\ \A i \in 1..len : SubSeq(b, 1, len)[i] = b[i]
      BY <1>3, <3>1, PrefixFacts
    <3> QED
      BY <1>3, <3>2, SeqEqual
  <2>4. \A k \in (Len(b) + 1)..Len(b) : FALSE
    BY <1>3
  <2> QED
    BY <1>2, <2>1, <2>2, <2>3, <2>4 DEF LongestKept
<1>8. CASE ~Valid(Spelt(b)) /\ st = "ok" /\ Return("invalid", 0, <<>>)
  <2>1. ret'.st = "invalid" /\ ret'.out = <<>>
    BY <1>8 DEF Return, Answer
  <2> QED
    BY <1>1, <1>4, <1>8, <2>1, SpeltNothing DEF Verdict, LongestKept
<1>9. ASSUME st # "ok", NEW vut \in 0..Len(b), vut = ValidUpTo(Spelt(b)),
             Return(st, 0, SubSeq(b, 1, vut))
      PROVE  Verdict /\ LongestKept
  <2>1. ret'.st = st /\ ret'.out = SubSeq(b, 1, vut)
    BY <1>9 DEF Return, Answer
  <2>2. Len(SubSeq(b, 1, vut)) = vut
    BY <1>3, PrefixFacts
  <2>3. /\ Valid(SubSeq(Spelt(b), 1, vut))
        /\ \A k \in 0..len : Valid(SubSeq(Spelt(b), 1, k)) => k <= vut
    BY <1>5, <1>9, ValidUpToFacts
  <2>4. Valid(Spelt(SubSeq(b, 1, vut)))
    BY <1>3, <1>6, <2>3
  <2>5. ASSUME NEW k \in (vut + 1)..Len(b)
        PROVE  ~Valid(Spelt(SubSeq(b, 1, k)))
    <3>1. k \in 0..len /\ ~(k <= vut)
      BY <1>3
    <3> QED
      BY <1>6, <2>3, <3>1
  <2>6. Verdict
    BY <1>1, <1>9, <2>1, <2>4 DEF Verdict
  <2>7. LongestKept
    BY <1>2, <2>1, <2>2, <2>5 DEF LongestKept
  <2> QED
    BY <2>6, <2>7
<1> QED
  BY <1>1, <1>2, <1>7, <1>8, <1>9 DEF Conclude

LEMMA JudgementStep ==
    ASSUME IInv, [Next]_vars
    PROVE  Judges => Verdict /\ LongestKept
BY HowItJudges, TurningDown, Concluding

(* peek_to_string keeps its String text, accepts the stream only when it   *)
(* is text to its end, and turns it down only when it is not, or cannot    *)
(* become so however it goes on.                                           *)
THEOREM VerdictIsRight == Spec => StringVerdict
<1>1. IInv /\ [Next]_vars => [Judges => Verdict]_vars
  BY JudgementStep
<1> QED
  BY <1>1, Invariance, PTL DEF Spec, StringVerdict, Judges, Verdict

(* When it fails on the way, the caller keeps the longest prefix that is   *)
(* text.                                                                   *)
THEOREM PrefixIsLongest == Spec => LongestPrefixKept
<1>1. IInv /\ [Next]_vars
        => [Judges /\ ret'.st \in {"err", "oom"} =>
              /\ ret'.out = SubSeq(buffer', 1, Len(ret'.out))
              /\ \A k \in (Len(ret'.out) + 1)..Len(buffer') :
                   ~Valid(Spelt(SubSeq(buffer', 1, k)))]_vars
  BY JudgementStep DEF LongestKept
<1> QED
  BY <1>1, Invariance, PTL DEF Spec, LongestPrefixKept, Judges
=============================================================================
