----------------------------- MODULE PeekBuffer -----------------------------
(***************************************************************************)
(* The Buffer trait (src/src/buffer.rs): the storage of the peek buffer.   *)
(* A buffer's contents are a sequence of bytes; its capacity is a number   *)
(* the models keep beside it, because only fill_peek_buf looks at it.      *)
(*                                                                         *)
(* The bundled back ends (Vec, SmallVec, TinyVec) never fail; the trait    *)
(* lets resize return an error, and a custom back end may: always beyond a *)
(* length (Bound: an array), or today and not tomorrow (Flaky: a back end  *)
(* that allocates with try_reserve).  A Bound no run can reach and no      *)
(* Flaky stand for the bundled back ends.                                  *)
(***************************************************************************)
EXTENDS ByteStream

CONSTANTS
    Bound,      \* longest length for which Buffer::resize may return Ok
    Flaky,      \* may resize also fail for a length within Bound?
    Slack,      \* a back end that must allocate takes up to Slack bytes more
    InlineCap,  \* capacity of B::new(): 0 for Vec, N for SmallVec/TinyVec
    READ_CHUNK  \* first growth grow_peek_buffer tries (1024 in the code)

ASSUME BufferAssumption ==
    /\ Bound \in Nat
    /\ Flaky \in BOOLEAN
    /\ Slack \in Nat
    /\ InlineCap \in Nat
    /\ READ_CHUNK \in Nat \ {0}

(* buf_cap: Option<usize>. *)
None == -1

(* Buffer::resize: may it return Ok?  May it return Err?  An Err leaves *)
(* the buffer alone.                                                    *)
Fits(len) == len <= Bound
Refuses(len) == Flaky \/ ~Fits(len)

(* Buffer::resize(len) of the Ok case: cut, or pad with zero bytes. *)
Resize(b, len) == [i \in 1..len |-> IF i <= Len(b) THEN b[i] ELSE Zero]

(* Buffer::truncate(len): no effect on a buffer that is short enough. *)
Truncate(b, len) == SubSeq(b, 1, Smaller(len, Len(b)))

(* Buffer::consume(..k): the first k bytes go, the rest move to the left. *)
Drain(b, k) == SubSeq(b, k + 1, Len(b))

(* Capacities a back end may have after a resize to len. *)
Allocate(c, len) == IF len <= c THEN {c} ELSE len..(len + Slack)

(* B::new() or B::with_capacity(c), as buf_cap says. *)
FreshCapacity(bc) == IF bc = None THEN InlineCap ELSE Larger(InlineCap, bc)

(* grow_peek_buffer tries READ_CHUNK, then half of it, down to 1, and ends *)
(* with the first growth that is not refused.                              *)
Halved[k \in Nat] == IF k = 0 THEN READ_CHUNK ELSE Halved[k - 1] \div 2

Growths == {Halved[k] : k \in 0..READ_CHUNK} \ {0}

GrowsBy(len, growth) ==
    /\ growth \in Growths /\ Fits(len + growth)
    /\ \A g \in Growths : g > growth => Refuses(len + g)

CannotGrow(len) == \A g \in Growths : Refuses(len + g)

(* The inner reader writes n stream bytes, the ones after its cursor r, *)
(* into the slice of b that starts after index at.                      *)
Store(b, at, r, n) ==
    [i \in 1..Len(b) |-> IF at < i /\ i <= at + n THEN r + (i - at) ELSE b[i]]
=============================================================================
