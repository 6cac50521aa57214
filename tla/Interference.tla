---------------------------- MODULE Interference ----------------------------
(***************************************************************************)
(* The synchronous wrapper when its reader does not move by its hand only. *)
(*                                                                         *)
(* get_mut lends the inner reader, whose cursor stands behind everything   *)
(* that was peeked, and its user may read from it; Write passes what is    *)
(* written to the inner reader, which may keep one cursor for both (a      *)
(* file); into_components takes the wrapper apart, and the reader may be   *)
(* wrapped again; and the inner read may panic, with the panic caught      *)
(* further up, between the resize of the peek buffer and its truncate, or  *)
(* between the delivery of the peek buffer and its clearing.               *)
(*                                                                         *)
(* The stream the consumer sees then has holes, and after a panic filler,  *)
(* so StreamIntact is too much to ask.  What remains: of the stream's own  *)
(* bytes none vanishes, and none comes twice or out of order.              *)
(***************************************************************************)
EXTENDS Peekable

CONSTANT MaxPanics  \* bound: panics of the reader that are caught

ASSUME PanicAssumption == MaxPanics \in Nat

VARIABLES
    had,    \* history: what the consumer is done with, filler included
    taken,  \* history: bytes the inner reader was moved over by its user
    panics  \* panics caught so far

ivars == <<vars, had, taken, panics>>

IInit == Init /\ had = <<>> /\ taken = {} /\ panics = 0

-----------------------------------------------------------------------------
(* The calls of Peekable, with what the consumer is then done with. *)

Passed(b) == had' = had \o b

Consuming ==
    /\ \/ \E want \in 0..MaxWant : read(want) /\ Passed(ret'.out)
       \/ \E amt \in 0..MaxWant :
            LET n == FromBuffer(amt)
            IN  /\ BufRead_consume(amt)
                /\ Passed(SubSeq(buffer, 1, n) \o Slice(rpos, amt - n))
       \/ (consume \/ consume_in_place) /\ Passed(buffer)
    /\ UNCHANGED <<taken, panics>>

Peeking ==
    /\ \/ \E want \in 0..MaxWant : peek(want) \/ peek_exact(want)
       \/ \E len1, len2 \in 0..MaxWant : peek_vectored(len1, len2)
       \/ fill_buf
       \/ peek_to_end \/ peek_to_string \/ fill_peek_buf
       \/ Step
       \/ Arrive
    /\ UNCHANGED <<had, taken, panics>>

-----------------------------------------------------------------------------
(* The inner reader moves over n bytes; whoever moved it calls fill_buf    *)
(* anew before the next consume(amt).                                      *)
MovesOver(n) ==
    /\ Idle
    /\ n > 0
    /\ Advance(n)
    /\ taken' = taken \cup (rpos + 1)..(rpos + n)
    /\ lent' = 0
    /\ UNCHANGED <<given, storage, pos, call, ret, had, panics>>

(* The user of get_mut reads n bytes. *)
get_mut(n) ==
    /\ MayRead(n, n)
    /\ MovesOver(n)
    /\ avail' = avail

(* n bytes are written where the inner cursor stands, over what is there or  *)
(* beyond the end.  (Of a reader with a cursor for each nothing is seen.)    *)
write(n) ==
    /\ rpos + n <= N
    /\ MovesOver(n)
    /\ avail' = Larger(avail, rpos + n)

(* A reader is wrapped, with a capacity or without. *)
peekable ==
    /\ buffer' = <<>>
    /\ buf_cap' \in BufCaps
    /\ cap' = FreshCapacity(buf_cap')

(* The user keeps the peeked bytes and wraps the reader again. *)
into_components ==
    /\ Idle
    /\ Passed(buffer)
    /\ peekable
    /\ pos' = pos + Len(buffer)
    /\ lent' = 0
    /\ UNCHANGED <<inner, avail, text, call, ret, taken, panics>>

-----------------------------------------------------------------------------
(* Panics.  The reader hands out nothing; what fill_buf has shown before   *)
(* is not consumed after.                                                  *)

Caught ==
    /\ panics < MaxPanics
    /\ panics' = panics + 1
    /\ call' = Rest
    /\ lent' = 0
    /\ UNCHANGED <<inner, avail, given, pos, ret, had, taken>>

(* In a peek: the tail stays where resize has put it. *)
peek_panics ==
    /\ call.pc = "read"
    /\ Caught
    /\ UNCHANGED storage

(* Bug: the peek buffer is cleared before the reader is asked. *)
Bug_clear_first(want) ==
    /\ Idle
    /\ buffer # <<>> /\ want > Len(buffer)
    /\ Caught
    /\ buffer' = <<>>
    /\ cap' = cap

(* In read: the peek buffer has been copied to a caller who never sees the *)
(* copy, and is not cleared yet.                                           *)
read_panics(want) ==
    /\ Idle
    /\ buffer # <<>> /\ want > Len(buffer)
    /\ Caught
    /\ UNCHANGED storage

INext ==
    \/ Consuming \/ Peeking
    \/ \E n \in 1..MaxWant : get_mut(n) \/ write(n) \/ read_panics(n)
    \/ into_components
    \/ peek_panics

ISpec == IInit /\ [][INext]_ivars

-----------------------------------------------------------------------------
(* The bytes of the stream in b, which may hold filler too. *)
StreamBytes(b) == {b[i] : i \in 1..Len(b)} \ {Zero}

(* Every byte that has left the inner reader is accounted for: the         *)
(* consumer has had it, the reader's own user has moved over it, or it is  *)
(* still in the peek buffer.  A panic in the middle of a call is no way    *)
(* for a byte to vanish.                                                   *)
NothingLost ==
    StreamBytes(had) \cup taken \cup StreamBytes(buffer) = 1..rpos

(* No byte comes twice or out of order, neither to the consumer nor to the *)
(* consumer and the reader's own user: get_mut hands out only what follows *)
(* the peeked bytes, and a write lands behind them.                        *)
OnceInOrder ==
    LET s == had \o buffer
    IN  /\ \A i, j \in 1..Len(s) :
             i < j /\ s[i] # Zero /\ s[j] # Zero => s[i] < s[j]
        /\ taken \cap StreamBytes(s) = {}

(* Moving the reader behind the wrapper's back makes holes, never filler:  *)
(* only a panic leaves any in the peek buffer.                             *)
FillerOnlyFromPanics ==
    panics = 0 => \A i \in 1..Held : buffer[i] # Zero
=============================================================================
