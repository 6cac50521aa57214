# Verification of `peekable`

TLA+ models of the `peekable` crate, TLC runs that check them on small
instances, and proofs, checked by TLAPS, that the safety properties of all three
wrappers hold for every value of the parameters.

## The system

A `Peekable<R, B>` wraps a reader and lets its user look at bytes before taking
them. Bytes that are peeked leave the inner reader for good; the *peek buffer*
is then the only place that holds them. Everything the crate promises follows
from one sentence, *the peek buffer holds exactly the bytes that the reader has
handed out and the consumer has not had, in order*, and everything that is hard
about it is keeping that sentence true on every return path.

| Component | Source | State | Operations |
|---|---|---|---|
| `Peekable` | `src/src/lib.rs` | `reader`, `buffer`, `buf_cap` | `Read::read`, `BufRead::fill_buf` / `consume(amt)`, `consume`, `consume_in_place`, `peek`, `peek_vectored`, `peek_exact`, `peek_to_end`, `peek_to_string`, `fill_peek_buf`; `get_ref`, `get_mut`, `into_components`, `Write` pass-through, `PeekExt` |
| `grow_peek_buffer` | `src/src/lib.rs` | none | grows the peek buffer by `READ_CHUNK`, halving while `resize` fails |
| `Buffer` | `src/src/buffer.rs` | contents, capacity | `new`, `with_capacity`, `consume(..n)`, `clear`, `resize` (may fail), `truncate`, ... ; back ends `Vec`, `SmallVec`, `TinyVec` |
| `future::AsyncPeekable` | `src/src/future.rs`, `src/src/future/` | the same three fields; each future has progress fields (`filled`, `prefix_copied`, `started`, `cap`/`original`) | `poll_read`, `poll_fill_buf`, `consume(amt)`, `poll_peek`, `poll_peek_vectored`, six futures |
| `tokio::AsyncPeekable` | `src/src/tokio.rs`, `src/src/tokio/` | the same | the same over `ReadBuf`, and `peek_buf` |

**How they interact.** The wrapper calls the inner reader and the `Buffer`
back end; nothing calls back into it. A synchronous method holds `&mut self`
and a future borrows it mutably, so methods never overlap. Concurrency enters
from the other side: the reader's source receives bytes, ends, or wakes the
task *between* two calls the method makes, and an asynchronous method stops in
the middle (Pending), is polled again, or is dropped and followed by another
method.

**What is hard.**

* *Growing before reading.* A method grows the buffer, lets the reader write
  into the tail, and cuts the tail back. A missed truncate (error, Interrupted,
  Pending, failed growth) leaves zero bytes that later look like data.
* *Partial failure.* Reads may be short, `Buffer::resize` may fail in a later
  round, and `read` may fail after half the caller's slice was filled.
* *Two counts of the same bytes.* `peek_exact` and `peek_to_end` copy piece by
  piece into a caller's buffer that is not the one they read into.
* *Ok(0).* It means end of file, unless the slice was empty or, in the
  asynchronous wrapper, the reader merely has nothing yet.
* *Characters split by earlier peeks, by short reads, or by Pending.*
* *Progress fields across polls*, and buffers left behind by dropped futures.
* *Wake-ups.* Pending is a promise that somebody holds the waker.
* *Hands on the inner reader.* `get_mut` lends it, `write` goes to its cursor,
  which stands behind everything that was peeked, and it may panic between the
  growth of the buffer and its cut.
* *Being a reader.* The wrapper implements the traits it asks of the reader it
  wraps, so whoever is handed it as a plain reader relies on the same contract.

`PROJECT.json` lists these hazards at their lines, with the properties aimed
at them.

## Modules

| Module | Models | Uses |
|---|---|---|
| `ByteStream` | bytes as positions in the stream, filler as 0 | |
| `PeekBuffer` | `Buffer` as operators on sequences: `Resize`, `Truncate`, `Drain`, `Fits`, capacities | `ByteStream` |
| `Utf8` | `from_utf8`, `valid_up_to`, `error_len` over classes of bytes | |
| `PeekStream` | **abstract**: a stream with two cursors, `pos` (consumed) and `seen` (handed out by the reader), and what each method may answer | `ByteStream` |
| `PlainReader` | **abstract**: the contract of `Read` and `BufRead` (`AsyncRead`, `AsyncBufRead`) towards a consumer who never peeks: one cursor | `ByteStream` |
| `Peekable` | the synchronous wrapper | `PeekBuffer`, `Utf8`; implements `PeekStream` and `PlainReader` |
| `Interference` | `Peekable` with a user who reads or writes the inner reader behind its back, takes the wrapper apart, and catches the reader's panics | `Peekable` |
| `AsyncReader` | external: the inner `AsyncRead` that is polled, the far end that feeds it, the waker | `ByteStream` |
| `FuturePeekable` | the futures-util wrapper, its futures and their drops | `AsyncReader`, `PeekBuffer`, `Utf8`; implements `PeekStream` and `PlainReader` |
| `TokioPeekable` | the tokio wrapper, the same over `ReadBuf`, and `peek_buf` | `AsyncReader`, `PeekBuffer`, `Utf8`; implements `FuturePeekable` |
| `MCPeekable`, `MCInterference`, `MCFuture`, `MCTokio` | instances for TLC | |
| `OperatorProofs` | lemmas about the operators of `PeekBuffer` and `Utf8` | `PeekBuffer`, `Utf8` |
| `PeekableProofs` | the inductive invariant of `Peekable` and what follows from it | `Peekable`, `OperatorProofs` |
| `RefinementProofs` | that `Peekable` refines `PlainReader` and `PeekStream` | `PeekableProofs` |
| `AnswerProofs` | the action properties of `Peekable`: ends of file, failures, growth, UTF-8 verdicts | `RefinementProofs` |
| `InterferenceProofs` | the inductive invariant of `Interference` and its three properties | `Interference`, `PeekableProofs` |
| `FutureProofs` | the inductive invariant of `FuturePeekable` and what follows from it | `FuturePeekable`, `OperatorProofs` |
| `FutureAnswerProofs` | the refinements and action properties of `FuturePeekable` | `FutureProofs` |
| `TokioProofs` | that `TokioPeekable` refines `FuturePeekable`, and so has its properties | `TokioPeekable`, `OperatorProofs`; instances `FutureAnswerProofs` |

**Bytes.** The code copies bytes without looking at them, so a byte is its
position in the stream: 1, 2, 3, ... A lost, repeated, reordered or invented
byte is a wrong number, a filler byte is 0. Only `peek_to_string` reads them;
`text` gives every position a class (one-byte character, lead byte of two or
three, continuation, never valid).

**State.** `buffer`, `cap` and `buf_cap` are the fields of the struct. The inner
reader is `rpos` (bytes handed out), `ibuf` (how far its own `BufRead` buffer
reaches) and `avail` (bytes that have arrived). `call` is the method on the
stack with its locals (`old` is `old_len`, `out` the caller's buffer) and its
program counter: `grow` at the head of a loop, `read` with the reader about to
be called. In `FuturePeekable`, `fut` is the future with its progress fields
and `armed` / `woken` are the waker (`AsyncReader`). `pos` and `lent` are history: what the
consumer has had, and what `fill_buf` has shown and may still be consumed.
`ret` is the last answer.

**Actions.** A call that needs the reader at most once and leaves the buffer
alone until it has answered (`read`, `fill_buf`, ...) is one step. A call that
grows the buffer first is one step to grow and one for each answer of the
reader, because bytes may arrive in between and because the reader may be
interrupted, short or failing at every round. Answers of the reader: `Ok(n)`
for every `n` it may give, `Err`, `Err(Interrupted)` where the code treats it
apart, and in `AsyncReader` `Pending` (with its waker kept, or having woken
the task already) and `Err(WouldBlock)`. `FuturePeekable` adds `poll` (due or
spurious) and `drop_future`. `grow_peek_buffer` is one step per attempt in
`Peekable`, where its loop is examined, and one step (`GrowsBy`, `CannotGrow`)
in the asynchronous modules; `GrowsAsOneStep` checks that they agree.

**The tokio copy.** The crate writes its asynchronous wrapper twice, and mends
it twice. `TokioPeekable` is translated from `src/src/tokio*` on its own; its
futures also carry the caller's `ReadBuf` (`rb`: a capacity and a filled part,
and `before`, how much was filled when the call was made). `ImplementsFuture`
forgets the ReadBufs, takes `peek_buf` for a `peek`, and says that what is left
is a behaviour of `FuturePeekable`: same storage, same answers, same waits. The
safety properties of `FuturePeekable`, and through it `PeekStream`, are then
those of the tokio wrapper: they are not run again, and `TokioProofs` carries
their theorems over.

**Back ends.** `resize(len)` may succeed if `Fits(len)`, that is `len <= Bound`,
and may fail if it `Refuses(len)`: beyond the bound always, within it if `Flaky`.
With `Bound` out of reach and no `Flaky` the back end never fails (Vec,
SmallVec, TinyVec); with a `Bound` it is an array; `Flaky` is a back end that
allocates with `try_reserve`, which may refuse a length now and accept it at the
next attempt. `Slack` is the freedom to allocate more than was asked,
`InlineCap` the inline capacity of `SmallVec` and `TinyVec`.

**One reader inside another.** `Peekable` and `FuturePeekable` assume of the
inner reader what `MayRead`, `inner_fill_buf` and `ReaderShows` say: bytes that
have arrived, in order, none only at the end (or for an empty slice), nothing
moved by an Err. `ActsAsReader` says that the wrapper gives its own callers just
that, whatever was peeked, parked or dropped in between. Together the two
justify wrapping a wrapper, and handing one to code that knows only `Read`.

**Interference.** `get_mut(n)` and `write(n)` move the inner cursor over `n`
bytes; `write` is that of a reader with one cursor for both (a `File`, a
`Cursor`), a socket has two and shows nothing. That it lands at the inner cursor
is the definition of `write` (the code forwards it), not a result; what is checked is that
the peeked bytes survive it. `peek_panics` unwinds from the
inner read with the grown tail in the buffer, `read_panics` with the peek buffer
copied and not yet cleared. `StreamIntact` fails then, by right: there are holes
in what the consumer sees, and filler after a panic. What the module shows is
what is left of it. `had`, a history variable, holds what the consumer is done
with, filler included (`pos` is its length); `StreamBytes` leaves the filler out. The user is assumed
to call `fill_buf` anew before `BufRead::consume` after any of this (`lent` is
0): otherwise `consume` would pass over filler in place of the bytes shown.

## Runs

| Run | Instance | Shows |
|---|---|---|
| `sync` | 3 bytes, slices up to 4, `READ_CHUNK` 2, capacities None and 2, a flaky back end | `StreamIntact`, `CallIntact`, `BufReadContract`, `CapacityKept`, `EofIsReal`, `PeekExactBounded`, and that `Peekable` implements `PeekStream` and `PlainReader` (`ActsAsReader`) |
| `sync_bounded` | 3 bytes, back end of 2, `READ_CHUNK` 4, fairness | `TypeOK`, `FailsOnlyWhenFull`, `GrowsAsOneStep`, the refinement, with every failure of `resize`, and `CallsReturn` |
| `sync_utf8` | every text of 4 bytes over 5 classes, flaky back end with room for them and for the read that meets the end | `StringVerdict`, `LongestPrefixKept` |
| `sync_interference` | 3 bytes, slices up to 2, one panic | `NothingLost`, `OnceInOrder`, `FillerOnlyFromPanics` |
| `future` | 3 bytes, slices up to 3, a reader that may say WouldBlock, a flaky back end | `StreamIntact`, `ProgressIntact`, `BufReadContract`, `WaitsForSomething`, `EofIsReal`, `PeekExactBounded`, and that `FuturePeekable` implements `PeekStream` and `PlainReader` |
| `future_wake` | 2 bytes, flaky back end of 2, fairness | `TypeOK`, `ParkedIsWatched` (no wake-up lost), `AnsweredAtLast` |
| `future_utf8` | every text of 3 bytes, back end that never fails | `StringVerdict`, across Pendings |
| `tokio` | 2 bytes, slices up to 2, flaky back end of 3, ReadBufs with 0 or 1 byte in them, three texts, a reader that may say WouldBlock | `ImplementsFuture`, `ReadBufIntact` |
| `tokio_wake` | 2 bytes, back end of 2, fairness | `TypeOK`, `AnsweredAtLast` |
| `sync_unchanged` | violated | CHANGELOG.md: the `String` "is still left unchanged" |
| `sync_vectored` | violated | `peek_vectored` "must behave equivalently to a single call to `peek` with concatenated buffers" |
| `future_wouldblock` | violated | `poll_peek` "returns `Poll::Pending` and arranges for ... a notification" |

**Bounds.** `N` bytes of stream, slices of at most `MaxWant`, and `READ_CHUNK`
of 2 or 4 instead of 1024. Every comparison in the code is between the wanted
length, the peeked length, the capacity and the bytes left; three bytes with
slices of up to four put each of them below, at and above each other, and let
a call take several short reads with peeked bytes before it. `READ_CHUNK` = 4
against a `Bound` of 2 makes the halving go 4, 2, 1 and then fail. Two bytes
are enough for the asynchronous liveness runs, which are about loops and waking rather than
lengths. For texts, a character of up to three bytes in a stream of four can be
preceded, followed, split by a peek, and cut short by the end or an error. Their
`Bound` is `N + READ_CHUNK`, the longest length a growth asks for, so every text can be
read to its end and judged whole.
One panic in `sync_interference` may happen in every state a call can be in, with
one, two or no bytes before it, and leaves enough of the stream to see what the
next calls make of the filler. The tokio runs have two bytes and slices of two: a request can be below, at and
above what is peeked, and one byte already in the ReadBuf tells its capacity
from its remaining part. The theorems below have no bound.

The UTF-8 runs use `Utf8Spec`, the part of the next-state relation that
decides where `peek_to_string` starts and what it judges; the other calls
answer alike for every text, and the other runs exercise them.

**Fairness.** In the synchronous model a method that was called runs on (weak
fairness of its steps), and `peek_to_end` and `peek_to_string` are not
interrupted for ever (strong fairness of the reader's other answers): the code
retries Interrupted without limit, as `std` does, so without this nothing could
be shown. `peek_exact_read` and `peek_read` need weak fairness only because an
interruption leaves their state as it is. In the asynchronous model the
executor polls a new or woken task, a poll runs on, the reader does not say
Interrupted or yield for ever, and the far end closes some day. Nothing is
assumed about spurious polls or drops. That a parked task is polled again
follows only from a wake-up: that is what the run is about.

**Mutants.** Every property has a mutant, a `Bug_...` operator that changes a
definition the way a plausible mistake would (a missing truncate, clear, or
subtraction, an off-by-one, a halving to zero, the two re-poll bugs that
release 0.6.0 mended). Each makes TLC refute its property.

## Proofs

The theorems hold for every value of the parameters that the modules' `ASSUME`s
allow: `BufferAssumption` (naturals, a nonzero `READ_CHUNK`, any back end, flaky
or not), `ClientAssumption`, `TaskAssumption`, `TokioAssumption` and
`ReaderAssumption` (a stream of any length and text, slices of any length, any
capacities), `PanicAssumption`. No other assumption is made, but for the two
theorems whose hypothesis is given below. The specifications are the safety
parts, `Spec` and `ISpec`; `FairSpec` implies `Spec`.

### The synchronous wrapper

| Module | Theorem | `Spec =>` |
|---|---|---|
| `PeekableProofs` | `TypeCorrect` | `[]TypeOK`; its growth in `Nat \ {0}` says the halving loop never offers an empty slice |
| | `NoByteLost` | `[]StreamIntact` |
| | `CallsMirrorBuffer` | `[]CallIntact` |
| | `ConsumesOnlyShown` | `[]BufReadContract` |
| | `CapacitySurvives` | `[]CapacityKept` |
| | `PeekExactStops` | `PeekExactBounded` |
| `RefinementProofs` | `PeekableIsReader` | `ActsAsReader` |
| | `PeekableIsStream` | `ImplementsPeekStream` |
| `AnswerProofs` | `EndIsTheEnd` | `EofIsReal` |
| | `GivesUpWhenFull` | `FailsOnlyWhenFull`, if the back end is not `Flaky` |
| | `GrowsToTheLargest` | `GrowsAsOneStep` |
| | `VerdictIsRight` | `StringVerdict` |
| | `PrefixIsLongest` | `LongestPrefixKept` |

**The invariant.** The first five follow from `Invariance`: `IInv`, the
conjunction of the five, is inductive. None of the parts is inductive alone.
That a read leaves the buffer whole (`StreamIntact`) needs that the recorded
`old` is where the stream bytes end (`Held`, inside a read) and that the call is
one of those that grow (`CallIntact`). That `peek_exact` stops needs `out` to be
as long as what is peeked. `BufReadContract` needs `rpos = pos + Held`, since
`consume(amt)` computes the reader's share from the buffer's length.

The argument has one lemma per action. Each shows `Whole(held)`, that the new
buffer starts with `held` bytes of the stream and the cursors agree, and what
became of the call and the answer; `Whole` and the lemmas `WholeTyped`,
... put the invariant back together. The buffer operations come from
`OperatorProofs`: what `Resize`, `Truncate`, `Drain` and `Store` do to a
buffer that starts with a slice of the stream.

The rest is proved of one step, from the invariant at the state before it.

* `PeekExactStops`: only the step that records a read moves the reader during
  `peek_exact`, by at most `Room`, and `CallIntact` says that the grown buffer
  is as long as what was asked.
* The refinements. `StreamIntact` makes the front of the buffer the next bytes
  of the stream (`FrontIsNext`), a top-up joins two pieces that meet
  (`SlicesMeet`), an empty answer of the inner reader finds the consumer at the
  reader's own position. For `PlainReader` every peek is a stutter; for
  `PeekStream`, whose second cursor is `rpos`, the steps that only grow or roll
  back are, and a read moves that cursor before its method answers.
* `EndIsTheEnd`: the answers in question come from a read that returned 0 for a
  slice that `CallIntact` says is not empty, so the reader is drained.
* `GivesUpWhenFull`: with `WithinBound` (the buffer never outgrows what a resize
  granted), a refused growth of 1 means that the bound is reached.
* `GrowsToTheLargest`: the loop's own invariant (`AttemptsInOrder`) says that
  `growth` is some `Halved[k]` and every earlier half was refused. `Halved` is a
  recursive function, and the induction that it falls to 0 is done with a least
  element (`LeastOne`, `SetInduction`).
* The verdicts: no text begins with bytes that `from_utf8` finds definitely
  invalid (`NoTextBeginsSo`), `ValidUpTo` is the longest valid prefix
  (`ValidUpToFacts`), and a valid stream cut after whole characters leaves a
  valid rest (`NoContinuation`).

### Interference

| Module | Theorem | `ISpec =>` |
|---|---|---|
| `InterferenceProofs` | `NoByteVanishes` | `[]NothingLost` |
| | `NoByteTwice` | `[]OnceInOrder` |
| | `OnlyPanicsPad` | `[]FillerOnlyFromPanics` |

`IInv` of `Peekable` is broken there on purpose, so this has an invariant of its
own, `Accounted`. It looks at one sequence, `had` followed by the contents of
the peek buffer without the tail that a read was handed: its nonzero entries
rise, with `taken` they are just `1..rpos`, and it has zeros only after a panic.
A call that consumes moves bytes from the second part to the first and appends
what the reader hands out (`PassedStored`, `AccountGrows`); a read appends
(`RecordedStored`); the reader's user extends `taken` (`AccountMoves`); a panic
turns the tail into contents (`AccountPadded`). That the tail is filler, and that
`peek_exact` never asks for fewer bytes than it has (so that no resize cuts the
buffer), is what `Shape` adds.

### The futures-util wrapper

| Module | Theorem | `Spec =>` |
|---|---|---|
| `FutureProofs` | `TypeCorrect` | `[]TypeOK` |
| | `NoByteLost` | `[]StreamIntact` |
| | `ProgressIsTrue` | `[]ProgressIntact` |
| | `ConsumesOnlyShown` | `[]BufReadContract` |
| | `WaitsOnlyForMore` | `[]WaitsForSomething` |
| | `ParkedIsWoken` | `[]ParkedIsWatched`, if the reader never says WouldBlock |
| `FutureAnswerProofs` | `WrapperIsReader` | `ActsAsReader` |
| | `WrapperIsStream` | `ImplementsPeekStream` |
| | `EndIsTheEnd` | `EofIsReal` |
| | `ExactIsBounded` | `PeekExactBounded` |
| | `VerdictIsRight` | `StringVerdict` |

`IInv` is the conjunction of the five checked invariants and `PollIntact`. The
checked ones speak of a future between polls, or of a poll inside a read. What
they leave out is the way there: which future may stand at which point, that one
not yet polled has no progress, and what `out` holds while a poll is under way
and the progress fields have not been written back. Without it a spurious poll,
or a drop in the middle of a growth, reaches states from which a byte is lost.
The hypothesis of `ParkedIsWoken` is the contract of `AsyncRead`; without it the
run `future_wouldblock` refutes the property.

### The tokio wrapper

| Module | Theorem | `Spec =>` |
|---|---|---|
| `TokioProofs` | `ReadBufsIntact` | `[]ReadBufIntact` |
| | `BehavesLikeFuture` | `ImplementsFuture` |
| | `NoByteLost` | `[]` of the four safety invariants of `FuturePeekable` |
| | `ParkedIsWoken` | `[]ParkedIsWatched` of `FuturePeekable`, if the reader never says WouldBlock |
| | `IsStreamAndReader` | `ImplementsPeekStream` and `ActsAsReader` of `FuturePeekable` |
| | `AnswersAreRight` | `EofIsReal`, `PeekExactBounded`, `StringVerdict` of `FuturePeekable` |
| | `TypeCorrect` | `[]TypeOK` |

The refinement is proved action by action (the lemmas ending in `_twin`). What
it needs of the state is small (`IInv`): a ReadBuf has as much room as the
twin's slice is long and holds nothing of this call yet (`HandedBuf`), and the
buffer handed to the reader is as long as the twin's (`PeekTail`, `ExactTail`).
No invariant about the stream is proved a second time: `Carried` instantiates
`FutureAnswerProofs` with the wrapper seen without ReadBufs, and the theorems of
that module hold of every behaviour that implements its `Spec`.

### Only model-checked

* Liveness (`CallsReturn`, `AnsweredAtLast`): the prover does not reason about
  fairness and ENABLED.
* The three runs that expect a violation: a counterexample needs no proof.

Everything else that a run checks is a theorem.

## Findings

1. `peek_to_string` keeps the longest valid prefix on an I/O error in the middle
   of a character (lib.rs:791-803); CHANGELOG.md:25-27 and the comment at
   tests/sync.rs:879 say the `String` stays unchanged. The test cannot tell:
   its text is one incomplete character.
2. `peek_vectored` fills the first nonempty slice only (lib.rs:583-591);
   lib.rs:577-579 promises what `peek` does with the slices concatenated.
3. `poll_peek` turns `WouldBlock` into Pending without arranging a wake-up
   (future.rs:338-341, asked for at future.rs:44-47); future.rs:36-40 promises
   a notification with every Pending. tokio.rs:278-286 does the same, against
   tokio.rs:70-72 (no run of its own: `ImplementsFuture` holds).

One more, about words only: tokio.rs:308 and tokio.rs:352 say "The peek buffer
will have a capacity of 1024 bytes", and the constructors below them take
whatever `B::new()` gives (64 inline bytes for the default `SmallVec`, none for
`Vec`).

## Not modelled

* `get_ref`, which changes nothing, and the accessors, `AsyncWrite` and
  `AsyncPeekExt` of the asynchronous wrappers: one-line forwards, the same as
  those `Interference` examines in the synchronous one. A poll that panics
  leaves the buffer as `peek_panics` does.
* The forwarding `AsyncPeek` impls for `Box`, `&mut` and `Pin`: one call each.
* A user of `get_mut` who moves the reader back (`seek`), and a panicking reader
  that hands out bytes: what the consumer sees is then up to them.
* A reader that answers `Ok(n)` with `n` above the slice's length: outside the
  contract of `Read`.
* Bytes above `n` in the slice that a reader may have scribbled on: they are
  cut off in every path before anybody looks.

## Plan

1. Done: `PeekBuffer`, `Utf8`, `PeekStream`, `PlainReader`, `Peekable`, their
   runs; `Interference`; `AsyncReader`, `FuturePeekable`, `TokioPeekable` and
   their runs.
2. Done: the proofs of every safety property, action property and refinement
   that the passing runs check.
3. Left: shorter proofs. `RefinementProofs` and `FutureAnswerProofs` argue alike
   about `PeekStream`, and lemmas on slices of the stream that both could cite
   belong in `OperatorProofs`.
