----------------------------- MODULE AsyncReader ----------------------------
(***************************************************************************)
(* What the asynchronous wrappers stand on: an inner AsyncRead (and        *)
(* AsyncBufRead) that is polled, the far end that feeds it, and the waker  *)
(* of the one task that polls.  External: any R that keeps the contract of *)
(* futures_util::AsyncRead or tokio::io::AsyncRead.                        *)
(***************************************************************************)
EXTENDS ByteStream

CONSTANTS
    N,          \* bound: bytes the far end sends
    WouldBlocks \* does the reader ever answer Err(WouldBlock)?

ASSUME ReaderAssumption == N \in Nat /\ WouldBlocks \in BOOLEAN

VARIABLES
    rpos,   \* bytes the reader has handed out
    ibuf,   \* end of what the reader's own buffer holds
    avail,  \* bytes the far end has sent
    closed, \* the far end will send nothing more
    armed,  \* the reader holds the task's waker
    woken   \* the task has been woken since it was last polled

inner == <<rpos, ibuf>>
far == <<avail, closed>>
waking == <<armed, woken>>

ReaderInit ==
    /\ rpos = 0 /\ ibuf = 0
    /\ avail = 0 /\ closed = FALSE
    /\ armed = FALSE /\ woken = FALSE

(* A waker is used once. *)
Wake ==
    /\ woken' = (woken \/ armed)
    /\ armed' = FALSE

Send ==
    /\ ~closed /\ avail < N
    /\ avail' = avail + 1 /\ closed' = closed
    /\ Wake

HangUp ==
    /\ ~closed
    /\ closed' = TRUE /\ avail' = avail
    /\ Wake

(* poll_read is Ready(Ok), with n bytes, for a slice of len bytes. *)
MayRead(len, n) ==
    /\ n <= len
    /\ rpos + n <= avail
    /\ n = 0 => len = 0 \/ (rpos = avail /\ closed)

Advance(n) ==
    /\ rpos' = rpos + n
    /\ ibuf' = Larger(ibuf, rpos + n)
    /\ UNCHANGED waking

(* poll_read is Ready(Err): nothing is handed out, no waker is kept. *)
ReaderFails == UNCHANGED <<inner, waking>>

(* poll_read is Pending: the reader keeps the waker until there is        *)
(* something to read, or has woken the task itself to let others run.     *)
ReaderPends ==
    /\ UNCHANGED inner
    /\ \/ rpos = avail /\ ~closed /\ armed' = TRUE /\ woken' = woken
       \/ armed' = armed /\ woken' = TRUE

(* poll_read is Ready(Err(WouldBlock)), from a reader that is a           *)
(* nonblocking one in disguise.                                           *)
ReaderWouldBlock == WouldBlocks /\ ReaderFails

(* poll_fill_buf is Ready(Ok): what the reader's own buffer still holds,  *)
(* or a refill, or nothing at the end.                                    *)
ReaderShows ==
    /\ rpos' = rpos
    /\ \/ rpos < ibuf /\ ibuf' = ibuf
       \/ rpos = ibuf /\ ibuf < avail /\ ibuf' \in (ibuf + 1)..avail
       \/ rpos = avail /\ closed /\ ibuf' = ibuf
    /\ UNCHANGED waking

ReaderTypeOK ==
    /\ rpos \in Nat /\ ibuf \in Nat
    /\ avail \in 0..N /\ closed \in BOOLEAN
    /\ armed \in BOOLEAN /\ woken \in BOOLEAN
=============================================================================
