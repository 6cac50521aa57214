--------------------------- MODULE OperatorProofs ---------------------------
(***************************************************************************)
(* The facts about operators that the proofs about the wrappers rest on,   *)
(* stated once: what the operations of PeekBuffer return, and what         *)
(* from_utf8 (Utf8) may be relied on for.                                  *)
(***************************************************************************)
EXTENDS PeekBuffer, Utf8, SequenceTheorems, WellFoundedInduction, TLAPS

-----------------------------------------------------------------------------
(* Storage. *)

(* A sequence is the function it looks like. *)
LEMMA FunctionIsSeq ==
    ASSUME NEW S, NEW n \in Nat, NEW f, f \in [1..n -> S]
    PROVE  f \in Seq(S) /\ Len(f) = n
<1>1. f \in Seq(S)
  BY SeqDef
<1>2. DOMAIN f = 1..n /\ DOMAIN f = 1..Len(f) /\ Len(f) \in Nat
  BY <1>1, LenProperties
<1> QED
  BY <1>1, <1>2

(* The n bytes after the first p are n bytes, the i-th of them is p + i. *)
LEMMA SliceFacts ==
    ASSUME NEW p \in Nat, NEW n \in Nat
    PROVE  /\ Slice(p, n) \in Seq(Nat)
           /\ Len(Slice(p, n)) = n
           /\ \A i \in 1..n : Slice(p, n)[i] = p + i
<1>1. Slice(p, n) \in [1..n -> Nat]
  BY DEF Slice
<1> QED
  BY <1>1, FunctionIsSeq DEF Slice

(* A sequence of n consecutive bytes of the stream is that slice of it. *)
LEMMA IsSlice ==
    ASSUME NEW s \in Seq(Nat), NEW p \in Nat, \A i \in 1..Len(s) : s[i] = p + i
    PROVE  s = Slice(p, Len(s))
<1>1. Len(s) \in Nat
  BY LenProperties
<1> QED
  BY <1>1, SliceFacts, SeqEqual

(* resize: the length asked for, the old bytes first, zeros after them. *)
LEMMA ResizeFacts ==
    ASSUME NEW b \in Seq(Nat), NEW len \in Nat
    PROVE  /\ Resize(b, len) \in Seq(Nat)
           /\ Len(Resize(b, len)) = len
           /\ \A i \in 1..len : i <= Len(b) => Resize(b, len)[i] = b[i]
<1>0. Len(b) \in Nat /\ \A i \in 1..Len(b) : b[i] \in Nat
  BY LenProperties, ElementOfSeq
<1>1. Resize(b, len) \in [1..len -> Nat]
  BY <1>0 DEF Resize, Zero
<1> QED
  BY <1>1, FunctionIsSeq DEF Resize

(* truncate: the first len bytes, or all of a shorter buffer. *)
LEMMA TruncateFacts ==
    ASSUME NEW b \in Seq(Nat), NEW len \in Nat
    PROVE  /\ Truncate(b, len) \in Seq(Nat)
           /\ Len(Truncate(b, len)) = Smaller(len, Len(b))
           /\ \A i \in 1..Smaller(len, Len(b)) : Truncate(b, len)[i] = b[i]
<1>0. Len(b) \in Nat /\ \A i \in 1..Len(b) : b[i] \in Nat
  BY LenProperties, ElementOfSeq
<1> DEFINE m == Smaller(len, Len(b))
<1>1. m \in Nat /\ m <= Len(b)
  BY <1>0 DEF Smaller
<1>2. \A i \in 1..m : b[i] \in Nat
  BY <1>0, <1>1
<1> HIDE DEF m
<1>3. /\ SubSeq(b, 1, m) \in Seq(Nat)
      /\ Len(SubSeq(b, 1, m)) = IF 1 <= m THEN m - 1 + 1 ELSE 0
      /\ \A i \in 1..(m - 1 + 1) : SubSeq(b, 1, m)[i] = b[1 + i - 1]
  BY <1>1, <1>2, SubSeqProperties
<1>4. /\ SubSeq(b, 1, m) \in Seq(Nat)
      /\ Len(SubSeq(b, 1, m)) = m
      /\ \A i \in 1..m : SubSeq(b, 1, m)[i] = b[i]
  BY <1>1, <1>3
<1> QED
  BY <1>4 DEF Truncate, m

(* consume(..k): what is left are the bytes after the first k. *)
LEMMA DrainFacts ==
    ASSUME NEW b \in Seq(Nat), NEW k \in 0..Len(b)
    PROVE  /\ Drain(b, k) \in Seq(Nat)
           /\ Len(Drain(b, k)) = Len(b) - k
           /\ \A i \in 1..(Len(b) - k) : Drain(b, k)[i] = b[k + i]
<1>0. Len(b) \in Nat /\ \A i \in 1..Len(b) : b[i] \in Nat
  BY LenProperties, ElementOfSeq
<1>1. /\ SubSeq(b, k + 1, Len(b)) \in Seq(Nat)
      /\ Len(SubSeq(b, k + 1, Len(b)))
           = IF k + 1 <= Len(b) THEN Len(b) - (k + 1) + 1 ELSE 0
      /\ \A i \in 1..(Len(b) - (k + 1) + 1) :
           SubSeq(b, k + 1, Len(b))[i] = b[(k + 1) + i - 1]
  BY <1>0, SubSeqProperties
<1>2. \A i \in 1..(Len(b) - k) : SubSeq(b, k + 1, Len(b))[i] = b[k + i]
  <2> TAKE i \in 1..(Len(b) - k)
  <2>1. i \in 1..(Len(b) - (k + 1) + 1) /\ (k + 1) + i - 1 = k + i
    BY <1>0
  <2> QED
    BY <1>1, <2>1
<1> QED
  BY <1>0, <1>1, <1>2 DEF Drain

(* A prefix is made of the same bytes. *)
LEMMA PrefixFacts ==
    ASSUME NEW b \in Seq(Nat), NEW k \in 0..Len(b)
    PROVE  /\ SubSeq(b, 1, k) \in Seq(Nat)
           /\ Len(SubSeq(b, 1, k)) = k
           /\ \A i \in 1..k : SubSeq(b, 1, k)[i] = b[i]
<1>1. k \in Nat /\ Smaller(k, Len(b)) = k
  BY LenProperties DEF Smaller
<1> QED
  BY <1>1, TruncateFacts DEF Truncate

(* The reader's bytes fill the n places after the first at, nothing else. *)
LEMMA StoreFacts ==
    ASSUME NEW b \in Seq(Nat), NEW at \in Nat, NEW r \in Nat, NEW n \in Nat
    PROVE  /\ Store(b, at, r, n) \in Seq(Nat)
           /\ Len(Store(b, at, r, n)) = Len(b)
           /\ \A i \in 1..Len(b) :
                Store(b, at, r, n)[i] =
                  IF at < i /\ i <= at + n THEN r + (i - at) ELSE b[i]
<1>0. Len(b) \in Nat /\ \A i \in 1..Len(b) : b[i] \in Nat
  BY LenProperties, ElementOfSeq
<1>1. \A i \in 1..Len(b) : at < i => r + (i - at) \in Nat
  BY <1>0
<1>2. Store(b, at, r, n) \in [1..Len(b) -> Nat]
  BY <1>0, <1>1 DEF Store
<1> QED
  BY <1>0, <1>2, FunctionIsSeq DEF Store

(* Bytes recorded: a buffer that holds the first old bytes after p, and    *)
(* then whatever resize put there, holds the first old + n of them when    *)
(* the reader has stored n and the rest is cut off.                        *)
LEMMA RecordedFacts ==
    ASSUME NEW b \in Seq(Nat), NEW p \in Nat, NEW old \in Nat, NEW n \in Nat,
           old + n <= Len(b), \A i \in 1..old : b[i] = p + i
    PROVE  /\ Truncate(Store(b, old, p + old, n), old + n) \in Seq(Nat)
           /\ Len(Truncate(Store(b, old, p + old, n), old + n)) = old + n
           /\ \A i \in 1..(old + n) :
                Truncate(Store(b, old, p + old, n), old + n)[i] = p + i
<1> DEFINE s == Store(b, old, p + old, n)
<1>1. Len(b) \in Nat /\ p + old \in Nat /\ old + n \in Nat
  BY LenProperties
<1>2. /\ s \in Seq(Nat) /\ Len(s) = Len(b)
      /\ \A i \in 1..Len(b) :
           s[i] = IF old < i /\ i <= old + n THEN (p + old) + (i - old) ELSE b[i]
  BY <1>1, StoreFacts
<1> HIDE DEF s
<1>3. Smaller(old + n, Len(s)) = old + n
  BY <1>2 DEF Smaller
<1>4. /\ Truncate(s, old + n) \in Seq(Nat)
      /\ Len(Truncate(s, old + n)) = old + n
      /\ \A i \in 1..(old + n) : Truncate(s, old + n)[i] = s[i]
  BY <1>1, <1>2, <1>3, TruncateFacts
<1>5. \A i \in 1..(old + n) : s[i] = p + i
  <2> TAKE i \in 1..(old + n)
  <2>1. i \in 1..Len(b)
    BY <1>1
  <2>2. CASE old < i
    BY <2>1, <2>2, <1>1, <1>2
  <2>3. CASE ~(old < i)
    <3>1. s[i] = b[i] /\ i \in 1..old
      BY <2>1, <2>3, <1>1, <1>2
    <3> QED
      BY <3>1
  <2> QED
    BY <2>2, <2>3
<1> QED
  BY <1>4, <1>5 DEF s

(* Bytes not recorded: truncate(old) leaves those that were held before. *)
LEMMA RolledBackFacts ==
    ASSUME NEW b \in Seq(Nat), NEW p \in Nat, NEW old \in Nat,
           old <= Len(b), \A i \in 1..old : b[i] = p + i
    PROVE  /\ Truncate(b, old) \in Seq(Nat)
           /\ Len(Truncate(b, old)) = old
           /\ \A i \in 1..old : Truncate(b, old)[i] = p + i
<1>1. Len(b) \in Nat
  BY LenProperties
<1>2. Smaller(old, Len(b)) = old
  BY <1>1 DEF Smaller
<1> QED
  BY <1>2, TruncateFacts

(* Copying piece by piece: the old bytes the caller has, and the n that    *)
(* were just recorded behind them in b, are what b holds.                  *)
LEMMA ExtendSlice ==
    ASSUME NEW p \in Nat, NEW old \in Nat, NEW n \in Nat, NEW b \in Seq(Nat),
           Len(b) = old + n, \A i \in 1..(old + n) : b[i] = p + i
    PROVE  Slice(p, old) \o SubSeq(b, old + 1, old + n) = Slice(p, old + n)
<1> DEFINE a == Slice(p, old)
           c == SubSeq(b, old + 1, old + n)
<1>1. a \in Seq(Nat) /\ Len(a) = old /\ \A i \in 1..old : a[i] = p + i
  BY SliceFacts
<1>2. c = Drain(b, old) /\ old \in 0..Len(b) /\ Len(b) - old = n
  BY DEF Drain
<1>3. c \in Seq(Nat) /\ Len(c) = n /\ \A i \in 1..n : c[i] = b[old + i]
  BY <1>2, DrainFacts
<1> HIDE DEF a, c
<1>4. /\ a \o c \in Seq(Nat) /\ Len(a \o c) = old + n
      /\ \A i \in 1..(old + n) :
           (a \o c)[i] = IF i <= old THEN a[i] ELSE c[i - old]
  BY <1>1, <1>3, ConcatProperties, ZenonT(60)
<1>5. \A i \in 1..(old + n) : (a \o c)[i] = p + i
  <2> TAKE i \in 1..(old + n)
  <2>1. CASE i <= old
    BY <2>1, <1>1, <1>4
  <2>2. CASE ~(i <= old)
    <3>1. i - old \in 1..n /\ old + (i - old) = i
      BY <2>2
    <3>2. c[i - old] = b[old + (i - old)]
      BY <1>3, <3>1
    <3>3. (a \o c)[i] = c[i - old]
      BY <1>4, <2>2
    <3> QED
      BY <3>1, <3>2, <3>3
  <2> QED
    BY <2>1, <2>2
<1>6. a \o c = Slice(p, Len(a \o c))
  BY <1>4, <1>5, IsSlice
<1> QED
  BY <1>4, <1>6 DEF a, c

(* Two pieces that meet are one. *)
LEMMA SlicesMeet ==
    ASSUME NEW p \in Nat, NEW a \in Nat, NEW n \in Nat
    PROVE  Slice(p, a) \o Slice(p + a, n) = Slice(p, a + n)
<1> DEFINE s == Slice(p, a)
           t == Slice(p + a, n)
<1>1. s \in Seq(Nat) /\ Len(s) = a /\ \A i \in 1..a : s[i] = p + i
  BY SliceFacts
<1>2. p + a \in Nat
  OBVIOUS
<1>3. t \in Seq(Nat) /\ Len(t) = n /\ \A i \in 1..n : t[i] = (p + a) + i
  BY <1>2, SliceFacts
<1> HIDE DEF s, t
<1>4. /\ s \o t \in Seq(Nat) /\ Len(s \o t) = a + n
      /\ \A i \in 1..(a + n) :
           (s \o t)[i] = IF i <= a THEN s[i] ELSE t[i - a]
  BY <1>1, <1>3, ConcatProperties
<1>5. \A i \in 1..Len(s \o t) : (s \o t)[i] = p + i
  BY <1>1, <1>3, <1>4
<1>6. s \o t = Slice(p, Len(s \o t))
  BY <1>4, <1>5, IsSlice
<1> QED
  BY <1>4, <1>6 DEF s, t

(* The front of a slice is a slice. *)
LEMMA SliceFront ==
    ASSUME NEW p \in Nat, NEW n \in Nat, NEW k \in 0..n
    PROVE  SubSeq(Slice(p, n), 1, k) = Slice(p, k) /\ Len(Slice(p, k)) = k
<1> DEFINE b == Slice(p, n)
<1>1. b \in Seq(Nat) /\ Len(b) = n /\ \A i \in 1..n : b[i] = p + i
  BY SliceFacts
<1> HIDE DEF b
<1>2. k \in 0..Len(b)
  BY <1>1
<1>3. /\ SubSeq(b, 1, k) \in Seq(Nat)
      /\ Len(SubSeq(b, 1, k)) = k
      /\ \A i \in 1..k : SubSeq(b, 1, k)[i] = b[i]
  BY <1>1, <1>2, PrefixFacts
<1> DEFINE s == SubSeq(b, 1, k)
<1>4. s \in Seq(Nat) /\ Len(s) = k /\ \A i \in 1..Len(s) : s[i] = p + i
  BY <1>1, <1>3
<1> HIDE DEF s
<1>5. s = Slice(p, Len(s))
  BY <1>4, IsSlice
<1> QED
  BY <1>4, <1>5 DEF s, b

(* A back end that resizes has room for what it holds. *)
LEMMA AllocateFacts ==
    ASSUME NEW c \in Nat, NEW len \in Nat, NEW d \in Allocate(c, len)
    PROVE  d \in Nat /\ len <= d /\ c <= d
BY BufferAssumption DEF Allocate

(* A new buffer has the capacity that was asked for. *)
LEMMA FreshCapacityFacts ==
    ASSUME NEW bc \in Nat \cup {None}
    PROVE  /\ FreshCapacity(bc) \in Nat
           /\ InlineCap <= FreshCapacity(bc)
           /\ bc # None => bc <= FreshCapacity(bc)
BY BufferAssumption DEF FreshCapacity, Larger, None

-----------------------------------------------------------------------------
(* Induction.  The library states it of an operator, which the provers     *)
(* cannot instantiate; its minimum principle is about sets.                *)

LEMMA LeastOne ==
    ASSUME NEW T \in SUBSET Nat, T # {}
    PROVE  \E x \in T : \A y \in T : x <= y
<1>1. \E x \in T : \A y \in T : ~(<<y, x>> \in OpToRel(<, Nat))
  BY WFMin, NatLessThanWellFounded, Zenon
<1>2. PICK x \in T : \A y \in T : ~(<<y, x>> \in OpToRel(<, Nat))
  BY <1>1
<1>3. \A y \in T : ~(y < x)
  <2> TAKE y \in T
  <2>1. ASSUME y < x PROVE <<y, x>> \in OpToRel(<, Nat)
    BY <2>1, Zenon DEF OpToRel
  <2> QED
    BY <1>2, <2>1
<1> QED
  BY <1>3

LEMMA SetInduction ==
    ASSUME NEW S \in SUBSET Nat, 0 \in S, \A n \in S : n + 1 \in S
    PROVE  S = Nat
<1> SUFFICES ASSUME Nat \ S # {} PROVE FALSE
  OBVIOUS
<1>1. PICK x \in Nat \ S : \A y \in Nat \ S : x <= y
  BY LeastOne
<1>2. x # 0 /\ x - 1 \in Nat /\ ~(x <= x - 1)
  BY <1>1
<1>3. x - 1 \in S
  BY <1>1, <1>2
<1>4. (x - 1) + 1 \in S
  BY <1>3
<1> QED
  BY <1>1, <1>4

(* The longest of a set of lengths. *)
LEMMA GreatestOne ==
    ASSUME NEW T \in SUBSET Nat, T # {}, NEW n \in Nat, \A x \in T : x <= n
    PROVE  \E x \in T : \A y \in T : y <= x
<1> DEFINE B == {b \in Nat : \A x \in T : x <= b}
<1>1. n \in B /\ B \in SUBSET Nat
  OBVIOUS
<1>2. PICK b \in B : \A c \in B : b <= c
  BY <1>1, LeastOne
<1>3. ASSUME b \notin T PROVE FALSE
  <2>0. PICK x \in T : x \in Nat /\ x <= b
    BY <1>2
  <2>1. b # 0
    BY <1>3, <2>0
  <2>2. b - 1 \in B
    BY <1>2, <1>3, <2>1
  <2> QED
    BY <1>2, <2>2
<1> QED
  BY <1>2, <1>3

-----------------------------------------------------------------------------
(* The growths grow_peek_buffer tries. *)

LEMMA HalfLess ==
    ASSUME NEW g \in Nat
    PROVE  g \div 2 \in Nat /\ g \div 2 <= g /\ (g > 0 => g \div 2 + 1 <= g)
OBVIOUS

(* A recursive function is what its equation says: there is one such       *)
(* function, of which every initial piece is determined.                   *)
LEMMA HalvedExists ==
    Halved = [k \in Nat |-> IF k = 0 THEN READ_CHUNK ELSE Halved[k - 1] \div 2]
<1> DEFINE Piece(g, n) == /\ g \in [0..n -> Nat]
                          /\ g[0] = READ_CHUNK
                          /\ \A i \in 1..n : g[i] = g[i - 1] \div 2
<1>1. ASSUME NEW n \in Nat, NEW g, Piece(g, n)
      PROVE  \E h : Piece(h, n + 1)
  <2> DEFINE h == [i \in 0..(n + 1) |-> IF i <= n THEN g[i] ELSE g[n] \div 2]
  <2>1. g[n] \in Nat /\ g[n] \div 2 \in Nat
    BY <1>1, HalfLess
  <2>2. h \in [0..(n + 1) -> Nat] /\ h[0] = READ_CHUNK
    BY <1>1, <2>1
  <2>3. ASSUME NEW i \in 1..(n + 1) PROVE h[i] = h[i - 1] \div 2
    <3>1. i - 1 \in 0..n /\ i \in 0..(n + 1) /\ i - 1 \in 0..(n + 1)
      OBVIOUS
    <3>2. h[i - 1] = g[i - 1]
      BY <3>1
    <3>3. CASE i <= n
      BY <1>1, <3>1, <3>2, <3>3
    <3>4. CASE i = n + 1
      BY <3>1, <3>2, <3>4
    <3> QED
      BY <3>3, <3>4
  <2> HIDE DEF h
  <2> QED
    BY <2>2, <2>3
<1>2. \A n \in Nat : \E g : Piece(g, n)
  <2> DEFINE S == {n \in Nat : \E g : Piece(g, n)}
  <2>1. 0 \in S
    <3>1. Piece([i \in 0..0 |-> READ_CHUNK], 0)
      BY BufferAssumption
    <3> QED
      BY <3>1
  <2> HIDE DEF Piece
  <2>2. ASSUME NEW n \in S PROVE n + 1 \in S
    <3>1. n \in Nat /\ \E g : Piece(g, n)
      OBVIOUS
    <3>2. \E h : Piece(h, n + 1)
      BY <1>1, <3>1
    <3> QED
      BY <3>1, <3>2
  <2>3. S = Nat
    BY <2>1, <2>2, SetInduction
  <2> QED
    BY <2>3
<1>3. ASSUME NEW n \in Nat, NEW m \in Nat, n <= m,
             NEW g, Piece(g, n), NEW h, Piece(h, m)
      PROVE  \A i \in 0..n : g[i] = h[i]
  <2> DEFINE S == {i \in Nat : i <= n => g[i] = h[i]}
  <2>1. 0 \in S
    BY <1>3
  <2>2. ASSUME NEW i \in S PROVE i + 1 \in S
    <3>1. SUFFICES ASSUME i + 1 <= n PROVE g[i + 1] = h[i + 1]
      OBVIOUS
    <3>2. i + 1 \in 1..n /\ i + 1 \in 1..m /\ (i + 1) - 1 = i /\ i <= n
      BY <1>3, <3>1
    <3>3. g[i + 1] = g[i] \div 2 /\ h[i + 1] = h[i] \div 2
      BY <1>3, <3>2
    <3> QED
      BY <3>2, <3>3
  <2>3. S = Nat
    <3> HIDE DEF S
    <3>1. S \in SUBSET Nat
      BY DEF S
    <3> QED
      BY <2>1, <2>2, <3>1, SetInduction
  <2> QED
    BY <2>3
<1> DEFINE G(n) == CHOOSE g : Piece(g, n)
           f == [n \in Nat |-> G(n)[n]]
<1>4. \A n \in Nat : Piece(G(n), n)
  <2> HIDE DEF Piece
  <2> QED
    BY <1>2
<1>5. f = [k \in Nat |-> IF k = 0 THEN READ_CHUNK ELSE f[k - 1] \div 2]
  <2> HIDE DEF G, Piece
  <2> SUFFICES ASSUME NEW k \in Nat
               PROVE  f[k] = IF k = 0 THEN READ_CHUNK ELSE f[k - 1] \div 2
    OBVIOUS
  <2> USE DEF Piece
  <2>1. CASE k = 0
    BY <1>4, <2>1
  <2>2. CASE k # 0
    <3>1. k - 1 \in Nat /\ k - 1 <= k /\ k - 1 \in 0..(k - 1) /\ k \in 1..k
      BY <2>2
    <3>2. Piece(G(k), k) /\ Piece(G(k - 1), k - 1)
      BY <1>4, <3>1
    <3>3. G(k)[k] = G(k)[k - 1] \div 2
      BY <3>1, <3>2
    <3>4. G(k - 1)[k - 1] = G(k)[k - 1]
      <4> HIDE DEF Piece, G
      <4> QED
        BY <1>3, <3>1, <3>2
    <3>5. f[k] = G(k)[k] /\ f[k - 1] = G(k - 1)[k - 1]
      BY <3>1
    <3> HIDE DEF f, G
    <3> QED
      BY <2>2, <3>3, <3>4, <3>5
  <2> QED
    BY <2>1, <2>2
<1> HIDE DEF f
<1>6. \E e : e = [k \in Nat |-> IF k = 0 THEN READ_CHUNK ELSE e[k - 1] \div 2]
  BY <1>5
<1> QED
  BY <1>6 DEF Halved

LEMMA HalvedFacts ==
    /\ Halved[0] = READ_CHUNK
    /\ \A k \in Nat : Halved[k] \in Nat /\ Halved[k + 1] = Halved[k] \div 2
<1>1. Halved[0] = READ_CHUNK
  BY HalvedExists
<1>2. ASSUME NEW k \in Nat PROVE Halved[k + 1] = Halved[k] \div 2
  <2>1. k + 1 \in Nat /\ k + 1 # 0 /\ (k + 1) - 1 = k
    OBVIOUS
  <2> QED
    BY <2>1, HalvedExists
<1> DEFINE S == {k \in Nat : Halved[k] \in Nat}
<1>3. 0 \in S
  BY <1>1, BufferAssumption
<1>4. \A k \in S : k + 1 \in S
  BY <1>2, HalfLess
<1>5. S = Nat
  <2> HIDE DEF S
  <2>1. S \in SUBSET Nat
    BY DEF S
  <2> QED
    BY <1>3, <1>4, <2>1, SetInduction
<1>6. \A k \in Nat : Halved[k] \in Nat
  BY <1>5
<1> QED
  BY <1>1, <1>2, <1>6

(* Each attempt asks for no more than the ones before it. *)
LEMMA HalvedFalls ==
    ASSUME NEW j \in Nat, NEW k \in Nat, j <= k
    PROVE  Halved[k] <= Halved[j]
<1> DEFINE S == {d \in Nat : Halved[j + d] <= Halved[j]}
<1>1. 0 \in S
  BY HalvedFacts
<1>2. ASSUME NEW d \in S PROVE d + 1 \in S
  <2>1. j + d \in Nat /\ (j + d) + 1 = j + (d + 1) /\ d + 1 \in Nat
    OBVIOUS
  <2>2. /\ Halved[j + d] \in Nat /\ Halved[j] \in Nat
        /\ Halved[(j + d) + 1] = Halved[j + d] \div 2
        /\ Halved[j + d] <= Halved[j]
    BY <2>1, HalvedFacts
  <2>3. Halved[j + d] \div 2 <= Halved[j + d] /\ Halved[j + d] \div 2 \in Nat
    BY <2>2, HalfLess
  <2> QED
    BY <2>1, <2>2, <2>3
<1>3. S = Nat
  <2> HIDE DEF S
  <2>1. S \in SUBSET Nat
    BY DEF S
  <2> QED
    BY <1>1, <1>2, <2>1, SetInduction
<1>4. PICK d \in Nat : j + d = k
  <2>1. k - j \in Nat /\ j + (k - j) = k
    OBVIOUS
  <2> QED
    BY <2>1
<1> QED
  BY <1>3, <1>4

(* They end within READ_CHUNK attempts. *)
LEMMA HalvedEnds ==
    ASSUME NEW k \in Nat, Halved[k] # 0
    PROVE  Halved[k] + k <= READ_CHUNK
<1> DEFINE S == {i \in Nat : Halved[i] = 0 \/ Halved[i] + i <= READ_CHUNK}
<1>1. 0 \in S
  BY HalvedFacts, BufferAssumption
<1>2. ASSUME NEW i \in S PROVE i + 1 \in S
  <2>1. PICK g \in Nat, h \in Nat, r \in Nat :
          g = Halved[i] /\ h = Halved[i + 1] /\ r = READ_CHUNK
    BY HalvedFacts, BufferAssumption
  <2>2. h = g \div 2
    BY <2>1, HalvedFacts
  <2>3. h <= g /\ (g > 0 => h + 1 <= g)
    BY <2>2, HalfLess
  <2>4. g = 0 \/ g + i <= r
    BY <2>1
  <2>5. h = 0 \/ h + (i + 1) <= r
    BY <2>3, <2>4
  <2> QED
    BY <2>1, <2>5
<1>3. S = Nat
  <2> HIDE DEF S
  <2>1. S \in SUBSET Nat
    BY DEF S
  <2> QED
    BY <1>1, <1>2, <2>1, SetInduction
<1> QED
  BY <1>3

(* So the growths are what the attempts ask for until one asks for none. *)
LEMMA GrowthsAre == Growths = {Halved[k] : k \in Nat} \ {0}
<1>1. ASSUME NEW k \in Nat, Halved[k] # 0 PROVE k \in 0..READ_CHUNK
  <2>1. Halved[k] \in Nat /\ Halved[k] + k <= READ_CHUNK /\ READ_CHUNK \in Nat
    BY <1>1, HalvedEnds, HalvedFacts, BufferAssumption
  <2> QED
    BY <2>1
<1>2. 0..READ_CHUNK \subseteq Nat
  OBVIOUS
<1> QED
  BY <1>1, <1>2 DEF Growths

(* When the first k attempts were refused and the next, for growth, is     *)
(* not, growth is what the loop as a whole ends with.                      *)
LEMMA FirstGranted ==
    ASSUME NEW len \in Nat, NEW k \in Nat, Halved[k] # 0,
           \A j \in Nat : j < k => Refuses(len + Halved[j]),
           Fits(len + Halved[k])
    PROVE  GrowsBy(len, Halved[k])
<1>1. Halved[k] \in Growths
  BY GrowthsAre
<1>2. ASSUME NEW g \in Growths, g > Halved[k] PROVE Refuses(len + g)
  <2>1. PICK j \in Nat : g = Halved[j]
    BY GrowthsAre
  <2>2. ~(k <= j)
    <3>1. Halved[k] \in Nat /\ Halved[j] \in Nat
      BY HalvedFacts
    <3> QED
      BY <1>2, <2>1, <3>1, HalvedFalls
  <2> QED
    BY <2>1, <2>2
<1> QED
  BY <1>1, <1>2 DEF GrowsBy

(* When the last one, for a single byte, is refused too, none can be had. *)
LEMMA NoneGranted ==
    ASSUME NEW len \in Nat, NEW k \in Nat, Halved[k] = 1,
           \A j \in Nat : j < k => Refuses(len + Halved[j]),
           Refuses(len + Halved[k])
    PROVE  CannotGrow(len)
<1>1. ASSUME NEW g \in Growths PROVE Refuses(len + g)
  <2>1. PICK j \in Nat : g = Halved[j] /\ g # 0 /\ g \in Nat
    BY GrowthsAre, HalvedFacts
  <2>2. CASE j < k
    BY <2>1, <2>2
  <2>3. CASE k <= j
    <3>1. g <= 1
      BY <2>1, <2>3, HalvedFalls
    <3>2. g = 1
      BY <2>1, <3>1
    <3> QED
      BY <3>2
  <2> QED
    BY <2>2, <2>3
<1> QED
  BY <1>1 DEF CannotGrow

-----------------------------------------------------------------------------
(* Text: the valid prefix is the longest, and what is called definitely    *)
(* invalid stays so however the text goes on.                              *)

Text == Seq(Classes)

LEMMA NothingIsValid == ASSUME NEW s, Len(s) = 0 PROVE Valid(s)
BY DEF Valid

(* The bytes of a prefix. *)
LEMMA PrefixOf ==
    ASSUME NEW S, NEW s \in Seq(S), NEW k \in 0..Len(s)
    PROVE  /\ SubSeq(s, 1, k) \in Seq(S) /\ Len(SubSeq(s, 1, k)) = k
           /\ \A i \in 1..k : SubSeq(s, 1, k)[i] = s[i]
<1>1. Len(s) \in Nat /\ \A i \in 1..Len(s) : s[i] \in S
  BY LenProperties, ElementOfSeq
<1>2. k \in Int /\ \A i \in 1..k : s[i] \in S
  BY <1>1
<1>3. /\ SubSeq(s, 1, k) \in Seq(S)
      /\ Len(SubSeq(s, 1, k)) = IF 1 <= k THEN k - 1 + 1 ELSE 0
      /\ \A i \in 1..(k - 1 + 1) : SubSeq(s, 1, k)[i] = s[1 + i - 1]
  BY <1>2, SubSeqProperties
<1> QED
  BY <1>1, <1>3

(* valid_up_to() is reached, and is the longest valid prefix. *)
LEMMA ValidUpToFacts ==
    ASSUME NEW s \in Text
    PROVE  /\ ValidUpTo(s) \in 0..Len(s)
           /\ Valid(SubSeq(s, 1, ValidUpTo(s)))
           /\ \A k \in 0..Len(s) : Valid(SubSeq(s, 1, k)) => k <= ValidUpTo(s)
<1> DEFINE K == {k \in 0..Len(s) : Valid(SubSeq(s, 1, k))}
<1>1. Len(s) \in Nat
  BY LenProperties DEF Text
<1>2. 0 \in K
  <2>1. 0 \in 0..Len(s)
    BY <1>1
  <2>2. Len(SubSeq(s, 1, 0)) = 0
    BY <2>1, PrefixOf DEF Text
  <2> QED
    BY <2>1, <2>2, NothingIsValid
<1>3. K \in SUBSET Nat /\ \A k \in K : k <= Len(s)
  BY <1>1
<1>4. \E x \in K : \A y \in K : y <= x
  <2> HIDE DEF K
  <2> QED
    BY <1>1, <1>2, <1>3, GreatestOne
<1>5. ValidUpTo(s) \in K /\ \A y \in K : ValidUpTo(s) >= y
  <2>1. ValidUpTo(s) = CHOOSE x \in K : \A y \in K : x >= y
    BY DEF ValidUpTo, Max
  <2>2. \E x \in K : \A y \in K : x >= y
    BY <1>1, <1>4
  <2> HIDE DEF K
  <2> QED
    BY <2>1, <2>2
<1>6. ValidUpTo(s) \in Nat
  BY <1>3, <1>5
<1> HIDE DEF K
<1>7. \A k \in K : k <= ValidUpTo(s)
  BY <1>3, <1>5, <1>6
<1> QED
  BY <1>5, <1>7 DEF K

LEMMA WidthFacts ==
    ASSUME NEW c \in Classes
    PROVE  /\ Width(c) \in 0..3
           /\ c \notin {"bad", "cont"} => Width(c) > 0
           /\ c = "cont" => Width(c) = 0
BY DEF Classes, Width

(* In valid text no continuation byte follows a prefix that is valid: the  *)
(* character it would belong to begins in the prefix and ends there.       *)
LEMMA NoStrayContinuation ==
    ASSUME NEW t \in Text, Valid(t), NEW v \in 0..Len(t), v < Len(t),
           Valid(SubSeq(t, 1, v))
    PROVE  t[v + 1] # "cont" /\ t[v + 1] # "bad"
<1>1. Len(t) \in Nat /\ \A i \in 1..Len(t) : t[i] \in Classes
  BY LenProperties, ElementOfSeq DEF Text
<1>2. PICK i \in 1..Len(t) : i = v + 1
  BY <1>1
<1>3. /\ t[i] # "bad"
      /\ t[i] = "cont" => \E d \in 1..2 : d < i /\ Width(t[i - d]) > d
  BY DEF Valid
<1>4. SUFFICES ASSUME t[i] = "cont" PROVE FALSE
  BY <1>2, <1>3
<1>5. PICK d \in 1..2 : d < i /\ Width(t[i - d]) > d
  BY <1>3, <1>4
<1>6. PICK j \in 1..v : j = i - d
  BY <1>2, <1>5
<1>7. /\ Len(SubSeq(t, 1, v)) = v
      /\ \A k \in 1..v : SubSeq(t, 1, v)[k] = t[k]
  BY PrefixOf DEF Text
<1>8. PICK w \in 0..3 : w = Width(t[j])
  BY <1>1, <1>6, WidthFacts
<1>9. d \in 1..(w - 1)
  BY <1>5, <1>6, <1>8
<1>10. j + d <= v
  BY <1>7, <1>8, <1>9 DEF Valid
<1> QED
  BY <1>2, <1>6, <1>10

(* What follows a valid prefix of valid text is one whole character, and   *)
(* the prefix is valid with it too.                                        *)
LEMMA NextCharacter ==
    ASSUME NEW t \in Text, Valid(t), NEW v \in 0..Len(t), v < Len(t),
           Valid(SubSeq(t, 1, v)), NEW w, w = Width(t[v + 1])
    PROVE  /\ w \in 1..3 /\ v + w <= Len(t)
           /\ \A i \in 2..w : t[v + i] = "cont"
           /\ Valid(SubSeq(t, 1, v + w))
<1>1. Len(t) \in Nat /\ \A i \in 1..Len(t) : t[i] \in Classes
  BY LenProperties, ElementOfSeq DEF Text
<1>2. v + 1 \in 1..Len(t)
  BY <1>1
<1>3. w \in 1..3
  BY <1>1, <1>2, NoStrayContinuation, WidthFacts
<1>4. \A d \in 1..(w - 1) : (v + 1) + d <= Len(t) /\ t[(v + 1) + d] = "cont"
  BY <1>2 DEF Valid
<1>5. v + w <= Len(t)
  <2>1. CASE w = 1
    BY <1>1, <2>1
  <2>2. CASE w # 1
    <3>1. w - 1 \in 1..(w - 1) /\ (v + 1) + (w - 1) = v + w
      BY <1>3, <2>2
    <3> QED
      BY <1>4, <3>1
  <2> QED
    BY <2>1, <2>2
<1>6. \A i \in 2..w : t[v + i] = "cont"
  <2> TAKE i \in 2..w
  <2>1. i - 1 \in 1..(w - 1) /\ (v + 1) + (i - 1) = v + i
    BY <1>3
  <2> QED
    BY <1>4, <2>1
<1> DEFINE p == SubSeq(t, 1, v + w)
<1>7. v + w \in 0..Len(t)
  BY <1>3, <1>5
<1>8. Len(p) = v + w /\ \A i \in 1..(v + w) : p[i] = t[i]
  BY <1>7, PrefixOf DEF Text
<1>9. /\ Len(SubSeq(t, 1, v)) = v
      /\ \A i \in 1..v : SubSeq(t, 1, v)[i] = t[i]
  BY PrefixOf DEF Text
<1> HIDE DEF p
<1>10. ASSUME NEW i \in 1..(v + w)
       PROVE  /\ p[i] # "bad"
              /\ \A d \in 1..(Width(p[i]) - 1) : i + d <= v + w /\ p[i + d] = "cont"
              /\ p[i] = "cont" => \E d \in 1..2 : d < i /\ Width(p[i - d]) > d
  <2>1. i \in 1..Len(t) /\ p[i] = t[i] /\ t[i] \in Classes
    BY <1>1, <1>7, <1>8
  <2>2. /\ t[i] # "bad"
        /\ t[i] = "cont" => \E d \in 1..2 : d < i /\ Width(t[i - d]) > d
    BY <2>1 DEF Valid
  <2>3. p[i] = "cont" => \E d \in 1..2 : d < i /\ Width(p[i - d]) > d
    <3>1. SUFFICES ASSUME p[i] = "cont"
                   PROVE  \E d \in 1..2 : d < i /\ Width(p[i - d]) > d
      OBVIOUS
    <3>2. PICK d \in 1..2 : d < i /\ Width(t[i - d]) > d
      BY <2>1, <2>2, <3>1
    <3>3. i - d \in 1..(v + w)
      BY <1>3, <3>2
    <3>4. p[i - d] = t[i - d]
      BY <1>8, <3>3
    <3> QED
      BY <3>2, <3>4
  <2>4. PICK m \in 0..3 : m = Width(t[i])
    BY <2>1, WidthFacts
  <2>5. ASSUME NEW d \in 1..(m - 1)
        PROVE  i + d <= v + w /\ p[i + d] = "cont"
    <3>1. CASE i <= v
      <4>1. i \in 1..v /\ SubSeq(t, 1, v)[i] = t[i]
        BY <1>9, <3>1
      <4>2. i + d <= v /\ SubSeq(t, 1, v)[i + d] = "cont"
        BY <1>9, <2>4, <4>1 DEF Valid
      <4>3. i + d \in 1..v /\ i + d \in 1..(v + w) /\ i + d <= v + w
        BY <1>3, <4>2
      <4> QED
        BY <1>8, <1>9, <4>2, <4>3
    <3>2. CASE i = v + 1
      <4>1. m = w
        BY <2>4, <3>2
      <4>2. i + d = (v + 1) + d /\ i + d \in 1..(v + w) /\ i + d <= v + w
        BY <1>3, <3>2, <4>1
      <4> QED
        BY <1>4, <1>8, <4>1, <4>2
    <3>3. CASE i > v + 1
      <4>1. i - v \in 2..w /\ v + (i - v) = i
        BY <1>3, <3>3
      <4>2. t[i] = "cont"
        BY <1>6, <4>1
      <4>3. m = 0
        BY <2>1, <2>4, <4>2, WidthFacts
      <4> QED
        BY <4>3
    <3> QED
      BY <3>1, <3>2, <3>3
  <2> QED
    BY <2>1, <2>2, <2>3, <2>4, <2>5
<1>11. Valid(p)
  BY <1>8, <1>10 DEF Valid
<1> QED
  BY <1>3, <1>5, <1>6, <1>11 DEF p

(* A prefix of valid text is valid, or breaks off within a character: the  *)
(* bytes that from_utf8 finds definitely invalid no text can begin with.   *)
LEMMA NoTextBeginsSo ==
    ASSUME NEW t \in Text, Valid(t), NEW n \in 0..Len(t)
    PROVE  ~DefinitelyInvalid(SubSeq(t, 1, n))
<1> DEFINE s == SubSeq(t, 1, n)
<1>1. s \in Text /\ Len(s) = n /\ \A i \in 1..n : s[i] = t[i]
  BY PrefixOf DEF Text
<1>2. Len(t) \in Nat
  BY LenProperties DEF Text
<1> HIDE DEF s
<1>3. \A k \in 0..n : SubSeq(s, 1, k) = SubSeq(t, 1, k)
  <2> TAKE k \in 0..n
  <2>1. k \in 0..Len(s) /\ k \in 0..Len(t)
    BY <1>1, <1>2
  <2>2. /\ SubSeq(s, 1, k) \in Text /\ Len(SubSeq(s, 1, k)) = k
        /\ \A i \in 1..k : SubSeq(s, 1, k)[i] = s[i]
    BY <1>1, <2>1, PrefixOf DEF Text
  <2>3. /\ SubSeq(t, 1, k) \in Text /\ Len(SubSeq(t, 1, k)) = k
        /\ \A i \in 1..k : SubSeq(t, 1, k)[i] = t[i]
    BY <2>1, PrefixOf DEF Text
  <2>4. \A i \in 1..k : SubSeq(s, 1, k)[i] = SubSeq(t, 1, k)[i]
    BY <1>1, <2>2, <2>3
  <2> QED
    BY <2>2, <2>3, <2>4, SeqEqual DEF Text
<1>4. PICK v \in 0..n : /\ v = ValidUpTo(s) /\ Valid(SubSeq(t, 1, v))
                        /\ \A k \in 0..n : Valid(SubSeq(t, 1, k)) => k <= v
  BY <1>1, <1>3, ValidUpToFacts
<1>5. CASE v = n
  <2>1. Valid(s)
    BY <1>4, <1>5 DEF s
  <2> QED
    BY <2>1 DEF DefinitelyInvalid, s
<1>6. CASE v < n
  <2>1. v \in 0..Len(t) /\ v < Len(t)
    BY <1>2, <1>6
  <2>2. PICK w : w = Width(t[v + 1])
    OBVIOUS
  <2>3. /\ w \in 1..3 /\ v + w <= Len(t)
        /\ \A i \in 2..w : t[v + i] = "cont"
        /\ Valid(SubSeq(t, 1, v + w))
    BY <1>4, <2>1, <2>2, NextCharacter
  <2>4. ~(v + w <= n)
    <3>1. v + w <= n => v + w \in 0..n
      BY <2>3
    <3>2. v + w <= n => v + w <= v
      BY <1>4, <2>3, <3>1
    <3> QED
      BY <2>3, <3>2
  <2> DEFINE rest == SubSeq(s, v + 1, n)
  <2>5. /\ Len(rest) = n - v /\ rest \in Text
        /\ \A i \in 1..(n - v) : rest[i] = t[v + i]
    <3>1. \A i \in (v + 1)..n : s[i] \in Classes /\ s[i] = t[i]
      BY <1>1, ElementOfSeq DEF Text
    <3>2. /\ rest \in Seq(Classes)
          /\ Len(rest) = IF v + 1 <= n THEN n - (v + 1) + 1 ELSE 0
          /\ \A i \in 1..(n - (v + 1) + 1) : rest[i] = s[(v + 1) + i - 1]
      <4>1. v + 1 \in Int /\ n \in Int
        OBVIOUS
      <4> QED
        BY <3>1, <4>1, SubSeqProperties
    <3>3. ASSUME NEW i \in 1..(n - v) PROVE rest[i] = t[v + i]
      <4>1. /\ i \in 1..(n - (v + 1) + 1) /\ (v + 1) + i - 1 = v + i
            /\ v + i \in (v + 1)..n
        BY <1>6
      <4> HIDE DEF rest
      <4> QED
        BY <3>1, <3>2, <4>1
    <3> HIDE DEF rest
    <3> QED
      BY <1>6, <3>2, <3>3 DEF Text
  <2> HIDE DEF rest
  <2>6. rest # <<>> /\ Width(rest[1]) > Len(rest)
    <3>1. 1 \in 1..(n - v)
      BY <1>6
    <3>2. rest[1] = t[v + 1] /\ Len(rest) # 0
      BY <2>5, <3>1
    <3>3. w > n - v
      BY <2>3, <2>4
    <3> QED
      BY <2>2, <2>5, <3>2, <3>3, EmptySeq DEF Text
  <2>7. \A i \in 2..Len(rest) : rest[i] = "cont"
    <3> TAKE i \in 2..Len(rest)
    <3>1. i \in 1..(n - v) /\ i \in 2..w
      BY <2>3, <2>4, <2>5
    <3> QED
      BY <2>3, <2>5, <3>1
  <2>8. rest = SubSeq(s, ValidUpTo(s) + 1, Len(s))
    BY <1>1, <1>4 DEF rest
  <2>9. Incomplete(s)
    BY <2>6, <2>7, <2>8 DEF Incomplete
  <2> QED
    BY <2>9 DEF DefinitelyInvalid, s
<1> QED
  BY <1>4, <1>5, <1>6

(* The n bytes of the stream x that follow the first p, as text. *)
LEMMA PieceOfText ==
    ASSUME NEW L \in Nat, NEW x \in [1..L -> Classes],
           NEW p \in Nat, NEW n \in Nat, p + n <= L
    PROVE  /\ SubSeq(x, p + 1, p + n) \in Text
           /\ Len(SubSeq(x, p + 1, p + n)) = n
           /\ \A i \in 1..n : SubSeq(x, p + 1, p + n)[i] = x[p + i]
<1>1. \A i \in (p + 1)..(p + n) : x[i] \in Classes
  OBVIOUS
<1>2. p + 1 \in Int /\ p + n \in Int
  OBVIOUS
<1> DEFINE s == SubSeq(x, p + 1, p + n)
<1>3. /\ s \in Seq(Classes)
      /\ Len(s) = IF p + 1 <= p + n THEN (p + n) - (p + 1) + 1 ELSE 0
      /\ \A i \in 1..((p + n) - (p + 1) + 1) : s[i] = x[(p + 1) + i - 1]
  BY <1>1, <1>2, SubSeqProperties
<1> HIDE DEF s
<1>4. ASSUME NEW i \in 1..n PROVE s[i] = x[p + i]
  <2>1. i \in 1..((p + n) - (p + 1) + 1) /\ (p + 1) + i - 1 = p + i
    OBVIOUS
  <2> QED
    BY <1>3, <2>1
<1> QED
  BY <1>3, <1>4 DEF s, Text

(* However a stream goes on that begins with definitely invalid bytes, it  *)
(* is not text.                                                            *)
LEMMA NoContinuation ==
    ASSUME NEW L \in Nat, NEW x \in [1..L -> Classes], NEW t \in [1..L -> Classes],
           NEW p \in Nat, NEW n \in Nat, p + n <= L,
           DefinitelyInvalid(SubSeq(x, p + 1, p + n)),
           \A i \in (p + 1)..(p + n) : t[i] = x[i],
           NEW e \in (p + n)..L
    PROVE  ~Valid(SubSeq(t, p + 1, e))
<1>1. PICK m \in Nat : e = p + m /\ n <= m /\ p + m <= L
  <2>1. e - p \in Nat /\ p + (e - p) = e /\ n <= e - p /\ e <= L
    OBVIOUS
  <2> QED
    BY <2>1
<1> DEFINE y == SubSeq(t, p + 1, p + m)
           s == SubSeq(x, p + 1, p + n)
<1>2. y \in Text /\ Len(y) = m /\ \A i \in 1..m : y[i] = t[p + i]
  <2>1. m \in Nat /\ p + m <= L
    BY <1>1
  <2> QED
    BY ONLY L \in Nat, t \in [1..L -> Classes], p \in Nat, <2>1, PieceOfText
<1>3. s \in Text /\ Len(s) = n /\ \A i \in 1..n : s[i] = x[p + i]
  BY PieceOfText
<1> HIDE DEF y, s
<1>4. \A i \in 1..n : s[i] = y[i]
  <2> TAKE i \in 1..n
  <2>1. i \in 1..m /\ p + i \in (p + 1)..(p + n)
    BY <1>1
  <2> QED
    BY <1>2, <1>3, <2>1
<1>5. n \in 0..Len(y)
  BY <1>1, <1>2
<1>6. /\ SubSeq(y, 1, n) \in Text /\ Len(SubSeq(y, 1, n)) = n
      /\ \A i \in 1..n : SubSeq(y, 1, n)[i] = y[i]
  BY <1>2, <1>5, PrefixOf DEF Text
<1>7. s = SubSeq(y, 1, n)
  BY <1>3, <1>4, <1>6, SeqEqual DEF Text
<1>8. DefinitelyInvalid(s)
  BY DEF s
<1>9. ~Valid(y)
  BY <1>2, <1>5, <1>7, <1>8, NoTextBeginsSo
<1> QED
  BY <1>1, <1>9 DEF y
=============================================================================
