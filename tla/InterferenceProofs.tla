------------------------- MODULE InterferenceProofs -------------------------
(***************************************************************************)
(* Theorems about Interference: whoever reads or writes the inner reader   *)
(* behind the wrapper's back, however often the wrapper is taken apart and *)
(* however often the reader panics, no byte of the stream vanishes, comes  *)
(* twice or comes out of order.                                            *)
(*                                                                         *)
(* The invariant of Peekable is of no use here: rpos and pos drift apart.  *)
(* What is inductive is an account of one sequence, what the consumer is   *)
(* done with followed by what the peek buffer holds: its nonzero entries   *)
(* rise, and together with what the reader's user has moved over they are  *)
(* all that has left the reader.  Every call either moves bytes from the   *)
(* second part of it to the first, or appends what the reader hands out.   *)
(***************************************************************************)
EXTENDS Interference, PeekableProofs

(* The bytes in the peek buffer without the tail the reader was handed. *)
Contents == SubSeq(buffer, 1, Held)

(* The sequence s and the set t share out the first r bytes of the stream; *)
(* filler comes with panics (p) only.                                      *)
Account(s, r, t, p) ==
    /\ s \in Seq(Nat)
    /\ t \subseteq 1..r
    /\ \A i \in 1..Len(s) : s[i] <= r /\ s[i] \notin t
    /\ \A x \in 1..r : x \in t \/ \E i \in 1..Len(s) : s[i] = x
    /\ \A i, j \in 1..Len(s) :
         i < j /\ s[i] # Zero /\ s[j] # Zero => s[i] < s[j]
    /\ p = 0 => \A i \in 1..Len(s) : s[i] # Zero

(* The tail is filler, and a peek_exact has room for no more than it asks  *)
(* for: so a resize never cuts.                                            *)
Shape ==
    /\ rpos \in Nat /\ had \in Seq(Nat) /\ panics \in Nat
    /\ buffer \in Seq(Nat) /\ cap \in Nat /\ Len(buffer) <= cap
    /\ buf_cap \in Nat \cup {None}
    /\ call \in CallType
    /\ Held <= Len(buffer)
    /\ \A i \in (Held + 1)..Len(buffer) : buffer[i] = Zero
    /\ call.op = "peek_exact"
         => Len(call.out) + (Len(buffer) - Held) <= call.want

Accounted == Shape /\ Account(had \o Contents, rpos, taken, panics)

(* What a step may do to everything but the call: the buffer then holds    *)
(* held bytes, and perhaps a tail of filler.                               *)
Stored(held) ==
    /\ rpos' \in Nat /\ had' \in Seq(Nat) /\ panics' \in Nat
    /\ buffer' \in Seq(Nat) /\ cap' \in Nat /\ Len(buffer') <= cap'
    /\ buf_cap' \in Nat \cup {None}
    /\ held \in Nat /\ held <= Len(buffer')
    /\ \A i \in (held + 1)..Len(buffer') : buffer'[i] = Zero
    /\ Account(had' \o SubSeq(buffer', 1, held), rpos', taken', panics')

-----------------------------------------------------------------------------
(* The account. *)

LEMMA Regrouped ==
    \A s, t, u \in Seq(Nat) : (s \o t) \o u = s \o (t \o u)
BY ConcatAssociative

(* The reader hands out its next n bytes. *)
LEMMA AccountGrows ==
    ASSUME NEW s, NEW r \in Nat, NEW t, NEW p, Account(s, r, t, p), NEW n \in Nat
    PROVE  Account(s \o Slice(r, n), r + n, t, p)
<1> DEFINE u == s \o Slice(r, n)
           m == Len(s)
<1>1. /\ s \in Seq(Nat) /\ m \in Nat /\ t \subseteq 1..r
      /\ \A i \in 1..m : s[i] \in Nat
      /\ \A i \in 1..m : s[i] <= r /\ s[i] \notin t
      /\ \A x \in 1..r : x \in t \/ \E i \in 1..m : s[i] = x
      /\ \A i, j \in 1..m :
           i < j /\ s[i] # Zero /\ s[j] # Zero => s[i] < s[j]
      /\ p = 0 => \A i \in 1..m : s[i] # Zero
  BY LenProperties, ElementOfSeq DEF Account
<1>2. /\ u \in Seq(Nat) /\ Len(u) = m + n
      /\ \A i \in 1..m : u[i] = s[i]
      /\ \A i \in (m + 1)..(m + n) : u[i] = r + (i - m)
  <2> DEFINE w == Slice(r, n)
  <2>0. w \in Seq(Nat) /\ Len(w) = n
    BY SliceFacts
  <2>1. /\ u \in Seq(Nat) /\ Len(u) = m + n
        /\ \A i \in 1..(m + n) :
             u[i] = IF i <= m THEN s[i] ELSE w[i - m]
    <3> HIDE DEF w
    <3>1. /\ s \o w \in Seq(Nat) /\ Len(s \o w) = Len(s) + Len(w)
          /\ \A i \in 1..(Len(s) + Len(w)) :
               (s \o w)[i] = IF i <= Len(s) THEN s[i] ELSE w[i - Len(s)]
      BY <1>1, <2>0, ConcatProperties
    <3> QED
      BY <2>0, <3>1 DEF w
  <2>2. \A i \in (m + 1)..(m + n) : i - m \in 1..n /\ ~(i <= m) /\ i \in 1..(m + n)
    BY <1>1
  <2>3. \A i \in 1..n : w[i] = r + i
    BY SliceFacts
  <2>4. \A i \in 1..m : u[i] = s[i]
    BY <1>1, <2>1
  <2> HIDE DEF u, m, w
  <2>5. \A i \in (m + 1)..(m + n) : u[i] = r + (i - m)
    BY <2>1, <2>2, <2>3
  <2> QED
    BY <2>1, <2>4, <2>5
<1> HIDE DEF u, m
<1>3. \A i \in 1..(m + n) : i \in 1..m \/ i \in (m + 1)..(m + n)
  BY <1>1
<1>4. \A i \in (m + 1)..(m + n) : u[i] > r /\ u[i] <= r + n /\ u[i] \in Nat
  BY <1>1, <1>2
<1>5. t \subseteq 1..(r + n)
  BY <1>1
<1>6. \A i \in 1..(m + n) : u[i] <= r + n /\ u[i] \notin t
  <2> TAKE i \in 1..(m + n)
  <2>1. CASE i \in 1..m
    BY <2>1, <1>1, <1>2
  <2>2. CASE i \in (m + 1)..(m + n)
    <3>1. u[i] > r /\ u[i] <= r + n /\ u[i] \in Nat
      BY <2>2, <1>4
    <3>2. u[i] \notin 1..r
      BY <3>1
    <3> QED
      BY <1>1, <3>1, <3>2
  <2> QED
    BY <1>3, <2>1, <2>2
<1>7. \A x \in 1..(r + n) : x \in t \/ \E i \in 1..(m + n) : u[i] = x
  <2> TAKE x \in 1..(r + n)
  <2>1. CASE x <= r
    <3>1. x \in 1..r
      BY <2>1
    <3>2. CASE x \in t
      BY <3>2
    <3>3. CASE \E i \in 1..m : s[i] = x
      <4>1. PICK i \in 1..m : s[i] = x
        BY <3>3
      <4>2. i \in 1..(m + n) /\ u[i] = x
        BY <1>1, <1>2, <4>1
      <4> QED
        BY <4>2
    <3> QED
      BY <1>1, <3>1, <3>2, <3>3
  <2>2. CASE ~(x <= r)
    <3> DEFINE i == m + (x - r)
    <3>1. i \in (m + 1)..(m + n) /\ i \in 1..(m + n) /\ r + (i - m) = x
      BY <2>2, <1>1
    <3> HIDE DEF i
    <3>2. u[i] = x
      BY <1>2, <3>1
    <3> QED
      BY <3>1, <3>2
  <2> QED
    BY <2>1, <2>2
<1>8. \A i, j \in 1..(m + n) :
        i < j /\ u[i] # Zero /\ u[j] # Zero => u[i] < u[j]
  <2> SUFFICES ASSUME NEW i \in 1..(m + n), NEW j \in 1..(m + n), i < j,
                      u[i] # Zero, u[j] # Zero
               PROVE  u[i] < u[j]
    OBVIOUS
  <2>1. CASE j \in 1..m
    <3>1. i \in 1..m
      BY <1>1, <2>1
    <3> QED
      BY <1>1, <1>2, <2>1, <3>1
  <2>2. CASE j \in (m + 1)..(m + n) /\ i \in 1..m
    <3>1. u[i] = s[i] /\ s[i] \in Nat /\ s[i] <= r
      BY <1>1, <1>2, <2>2
    <3>2. u[j] > r /\ u[j] \in Nat
      BY <1>4, <2>2
    <3> QED
      BY <3>1, <3>2
  <2>3. CASE j \in (m + 1)..(m + n) /\ i \in (m + 1)..(m + n)
    <3>1. u[i] = r + (i - m) /\ u[j] = r + (j - m)
      BY <1>2, <2>3
    <3> QED
      BY <1>1, <3>1
  <2> QED
    BY <1>3, <2>1, <2>2, <2>3
<1>9. p = 0 => \A i \in 1..(m + n) : u[i] # Zero
  <2> HAVE p = 0
  <2> TAKE i \in 1..(m + n)
  <2>1. CASE i \in 1..m
    BY <2>1, <1>1, <1>2
  <2>2. CASE i \in (m + 1)..(m + n)
    BY <2>2, <1>4 DEF Zero
  <2> QED
    BY <1>3, <2>1, <2>2
<1>10. Account(u, r + n, t, p)
  BY <1>2, <1>5, <1>6, <1>7, <1>8, <1>9 DEF Account
<1> QED
  BY <1>10 DEF u

(* Its user moves the reader over its next n bytes. *)
LEMMA AccountMoves ==
    ASSUME NEW s, NEW r \in Nat, NEW t, NEW p, Account(s, r, t, p), NEW n \in Nat
    PROVE  Account(s, r + n, t \cup (r + 1)..(r + n), p)
<1>1. /\ s \in Seq(Nat) /\ Len(s) \in Nat /\ t \subseteq 1..r
      /\ \A i \in 1..Len(s) : s[i] \in Nat
      /\ \A i \in 1..Len(s) : s[i] <= r /\ s[i] \notin t
      /\ \A x \in 1..r : x \in t \/ \E i \in 1..Len(s) : s[i] = x
  BY LenProperties, ElementOfSeq DEF Account
<1>2. t \cup (r + 1)..(r + n) \subseteq 1..(r + n)
  BY <1>1
<1>3. \A i \in 1..Len(s) : s[i] <= r + n /\ s[i] \notin t \cup (r + 1)..(r + n)
  BY <1>1
<1>4. \A x \in 1..(r + n) : x \in 1..r \/ x \in (r + 1)..(r + n)
  OBVIOUS
<1>5. \A x \in 1..(r + n) :
        x \in t \cup (r + 1)..(r + n) \/ \E i \in 1..Len(s) : s[i] = x
  BY <1>1, <1>4
<1> QED
  BY <1>1, <1>2, <1>3, <1>5 DEF Account

(* A panic turns the tail into contents. *)
LEMMA AccountPadded ==
    ASSUME NEW s, NEW r \in Nat, NEW t, NEW p, Account(s, r, t, p),
           NEW z \in Seq(Nat), \A i \in 1..Len(z) : z[i] = Zero,
           NEW q \in Nat, q # 0
    PROVE  Account(s \o z, r, t, q)
<1> DEFINE u == s \o z
           m == Len(s)
           n == Len(z)
<1>1. /\ s \in Seq(Nat) /\ m \in Nat /\ n \in Nat /\ t \subseteq 1..r
      /\ \A i \in 1..m : s[i] <= r /\ s[i] \notin t
      /\ \A x \in 1..r : x \in t \/ \E i \in 1..m : s[i] = x
      /\ \A i, j \in 1..m :
           i < j /\ s[i] # Zero /\ s[j] # Zero => s[i] < s[j]
  BY LenProperties, ElementOfSeq DEF Account
<1>2. /\ u \in Seq(Nat) /\ Len(u) = m + n
      /\ \A i \in 1..m : u[i] = s[i]
      /\ \A i \in (m + 1)..(m + n) : u[i] = Zero
  <2>1. /\ u \in Seq(Nat) /\ Len(u) = m + n
        /\ \A i \in 1..(m + n) :
             u[i] = IF i <= m THEN s[i] ELSE z[i - m]
    BY <1>1, ConcatProperties, ZenonT(60)
  <2>2. \A i \in (m + 1)..(m + n) : i - m \in 1..n /\ ~(i <= m) /\ i \in 1..(m + n)
    BY <1>1
  <2>3. \A i \in 1..m : u[i] = s[i]
    BY <1>1, <2>1
  <2>4. \A i \in 1..n : z[i] = Zero
    OBVIOUS
  <2> HIDE DEF u, m, n
  <2>5. \A i \in (m + 1)..(m + n) : u[i] = Zero
    BY <2>1, <2>2, <2>4
  <2> QED
    BY <2>1, <2>3, <2>5
<1> HIDE DEF u, m, n
<1>3. \A i \in 1..(m + n) : i \in 1..m \/ i \in (m + 1)..(m + n)
  BY <1>1
<1>4. Zero <= r /\ Zero \notin t
  BY <1>1 DEF Zero
<1>5. \A i \in 1..(m + n) : u[i] <= r /\ u[i] \notin t
  BY <1>1, <1>2, <1>3, <1>4
<1>6. \A x \in 1..r : x \in t \/ \E i \in 1..(m + n) : u[i] = x
  <2> TAKE x \in 1..r
  <2>1. ASSUME NEW i \in 1..m, s[i] = x
        PROVE  i \in 1..(m + n) /\ u[i] = x
    BY <1>1, <1>2, <2>1
  <2> QED
    BY <1>1, <2>1
<1>7. \A i, j \in 1..(m + n) :
        i < j /\ u[i] # Zero /\ u[j] # Zero => u[i] < u[j]
  BY <1>1, <1>2, <1>3
<1>8. Account(u, r, t, q)
  BY <1>1, <1>2, <1>5, <1>6, <1>7 DEF Account
<1> QED
  BY <1>8 DEF u
-----------------------------------------------------------------------------
(* The invariant, taken apart, and put together again. *)

LEMMA AccountedFacts ==
    ASSUME Accounted
    PROVE  /\ rpos \in Nat /\ had \in Seq(Nat) /\ panics \in Nat
           /\ buffer \in Seq(Nat) /\ Len(buffer) \in Nat
           /\ cap \in Nat /\ Len(buffer) <= cap
           /\ buf_cap \in Nat \cup {None}
           /\ call \in CallType
           /\ Account(had \o Contents, rpos, taken, panics)
<1>1. buffer \in Seq(Nat)
  BY DEF Accounted, Shape
<1> QED
  BY <1>1, LenProperties DEF Accounted, Shape

(* Outside a read, all of the buffer is contents. *)
LEMMA AllContents ==
    ASSUME Accounted, call.pc # "read"
    PROVE  /\ Contents = buffer
           /\ Account(had \o buffer, rpos, taken, panics)
<1>1. Contents = buffer
  BY AccountedFacts, SubSeqFull DEF Contents, Held
<1> QED
  BY <1>1, AccountedFacts

(* During one, the first old bytes are. *)
LEMMA OldContents ==
    ASSUME Accounted, call.pc = "read"
    PROVE  \E old \in Nat :
             /\ Handed(old)
             /\ old <= Len(buffer)
             /\ \A i \in (old + 1)..Len(buffer) : buffer[i] = Zero
             /\ Account(had \o SubSeq(buffer, 1, old), rpos, taken, panics)
             /\ call.op = "peek_exact"
                  => Len(call.out) + (Len(buffer) - old) <= call.want
<1>1. call.old \in Nat
  BY AccountedFacts DEF CallType
<1>2. Held = call.old
  BY DEF Held
<1>3. /\ Handed(call.old)
      /\ call.old <= Len(buffer)
      /\ \A i \in (call.old + 1)..Len(buffer) : buffer[i] = Zero
      /\ Account(had \o SubSeq(buffer, 1, call.old), rpos, taken, panics)
      /\ call.op = "peek_exact"
           => Len(call.out) + (Len(buffer) - call.old) <= call.want
  BY <1>2 DEF Accounted, Shape, Contents, Handed
<1> QED
  BY <1>1, <1>3

LEMMA StoredIsAccounted ==
    ASSUME NEW held, Stored(held), call' \in CallType,
           held = IF call'.pc = "read" THEN call'.old ELSE Len(buffer'),
           call'.op = "peek_exact"
             => Len(call'.out) + (Len(buffer') - held) <= call'.want
    PROVE  Accounted'
<1>1. Held' = held
  BY DEF Held
<1> QED
  BY <1>1 DEF Stored, Accounted, Shape, Contents

(* The variables of Interference that no call of Peekable knows of. *)
Unmoved == had' = had /\ taken' = taken /\ panics' = panics

-----------------------------------------------------------------------------
(* What the steps do to the storage. *)

LEMMA UntouchedStored ==
    ASSUME Accounted, call.pc # "read", Unmoved,
           UNCHANGED <<rpos, buffer, cap, buf_cap>>
    PROVE  Stored(Len(buffer')) /\ Len(buffer') = Len(buffer)
<1>1. /\ buffer' = buffer /\ rpos' = rpos /\ cap' = cap /\ buf_cap' = buf_cap
      /\ had' = had /\ taken' = taken /\ panics' = panics
  BY DEF Unmoved
<1>2. SubSeq(buffer, 1, Len(buffer)) = buffer
  BY AccountedFacts, SubSeqFull
<1>3. \A i \in (Len(buffer) + 1)..Len(buffer) : buffer[i] = Zero
  BY AccountedFacts
<1>4. Account(had' \o SubSeq(buffer', 1, Len(buffer')), rpos', taken', panics')
  BY <1>1, <1>2, AllContents
<1>5. \A i \in (Len(buffer') + 1)..Len(buffer') : buffer'[i] = Zero
  BY <1>1, <1>3
<1> QED
  BY <1>1, <1>4, <1>5, AccountedFacts DEF Stored

(* resize: the old bytes stay in front, filler behind them. *)
LEMMA ResizedStored ==
    ASSUME Accounted, call.pc # "read", Unmoved, NEW len \in Nat,
           Len(buffer) <= len, ResizeTo(len), UNCHANGED <<rpos, buf_cap>>
    PROVE  Stored(Len(buffer)) /\ Len(buffer') = len
<1>1. /\ buffer \in Seq(Nat) /\ Len(buffer) \in Nat /\ cap \in Nat
      /\ had' = had /\ taken' = taken /\ panics' = panics
  BY AccountedFacts DEF Unmoved
<1>2. buffer' = Resize(buffer, len) /\ cap' \in Allocate(cap, len)
  BY DEF ResizeTo
<1>3. /\ buffer' \in Seq(Nat) /\ Len(buffer') = len
      /\ \A i \in 1..len : i <= Len(buffer) => buffer'[i] = buffer[i]
  BY <1>1, <1>2, ResizeFacts
<1>4. cap' \in Nat /\ len <= cap'
  BY <1>1, <1>2, AllocateFacts
<1>5. \A i \in (Len(buffer) + 1)..len : buffer'[i] = Zero
  BY <1>1, <1>2 DEF Resize
<1>6. SubSeq(buffer', 1, Len(buffer)) = buffer
  <2> DEFINE k == Len(buffer)
             f == SubSeq(buffer', 1, k)
  <2>1. k \in 0..Len(buffer')
    BY <1>1, <1>3
  <2>2. /\ f \in Seq(Nat) /\ Len(f) = k
        /\ \A i \in 1..k : f[i] = buffer'[i]
    BY <1>3, <2>1, PrefixFacts
  <2>3. \A i \in 1..k : f[i] = buffer[i]
    BY <1>1, <1>3, <2>2
  <2> HIDE DEF f
  <2>4. f = buffer
    BY <1>1, <2>2, <2>3, SeqEqual
  <2> QED
    BY <2>4 DEF f
<1>7. Account(had' \o SubSeq(buffer', 1, Len(buffer)), rpos', taken', panics')
  BY <1>1, <1>6, AllContents
<1> QED
  BY <1>1, <1>3, <1>4, <1>5, <1>7, AccountedFacts DEF Stored

(* Ok(n): the account grows by what the reader hands out. *)
LEMMA RecordedStored ==
    ASSUME Accounted, call.pc = "read", Unmoved, NEW old \in Nat, Handed(old),
           NEW n \in Nat, ReadOk(n), UNCHANGED buf_cap
    PROVE  /\ Stored(old + n)
           /\ Len(buffer') = old + n
           /\ old + n <= Len(buffer)
<1>1. /\ buffer \in Seq(Nat) /\ Len(buffer) \in Nat /\ cap \in Nat
      /\ Len(buffer) <= cap /\ rpos \in Nat /\ had \in Seq(Nat)
      /\ had' = had /\ taken' = taken /\ panics' = panics
  BY AccountedFacts DEF Unmoved
<1>2. /\ old <= Len(buffer)
      /\ Account(had \o SubSeq(buffer, 1, old), rpos, taken, panics)
  BY OldContents DEF Handed
<1>3. /\ n <= Len(buffer) - old
      /\ rpos' = rpos + n
      /\ buffer' = Truncate(Store(buffer, old, rpos, n), old + n)
      /\ cap' = cap
  BY DEF ReadOk, MayRead, Advance, Recorded, Room, Handed
<1>4. old + n \in Nat /\ old + n <= Len(buffer) /\ old + n <= cap
  BY <1>1, <1>2, <1>3
<1> DEFINE a == SubSeq(buffer, 1, old)
           z == Slice(rpos, n)
           st == Store(buffer, old, rpos, n)
           b == Truncate(st, old + n)
<1>5. /\ st \in Seq(Nat) /\ Len(st) = Len(buffer)
      /\ \A i \in 1..Len(buffer) :
           st[i] = IF old < i /\ i <= old + n THEN rpos + (i - old) ELSE buffer[i]
  BY <1>1, StoreFacts
<1>6. a \in Seq(Nat) /\ Len(a) = old /\ \A i \in 1..old : a[i] = buffer[i]
  BY <1>1, <1>2, PrefixFacts
<1>7. z \in Seq(Nat) /\ Len(z) = n /\ \A i \in 1..n : z[i] = rpos + i
  BY <1>1, SliceFacts
<1> HIDE DEF a, z, st
<1>8. /\ b \in Seq(Nat) /\ Len(b) = old + n
      /\ \A i \in 1..(old + n) : b[i] = st[i]
  <2>1. Smaller(old + n, Len(st)) = old + n
    BY <1>4, <1>5 DEF Smaller
  <2> QED
    BY <1>4, <1>5, <2>1, TruncateFacts
<1> HIDE DEF b
<1>9. /\ a \o z \in Seq(Nat) /\ Len(a \o z) = old + n
      /\ \A i \in 1..(old + n) :
           (a \o z)[i] = IF i <= old THEN a[i] ELSE z[i - old]
  BY <1>6, <1>7, ConcatProperties
<1>10. \A i \in 1..(old + n) : b[i] = (a \o z)[i]
  <2> TAKE i \in 1..(old + n)
  <2>1. i \in 1..Len(buffer)
    BY <1>1, <1>4
  <2>2. CASE i <= old
    <3>1. b[i] = buffer[i]
      BY <1>5, <1>8, <2>1, <2>2
    <3> QED
      BY <1>6, <1>9, <2>2, <3>1
  <2>3. CASE ~(i <= old)
    <3>1. i - old \in 1..n
      BY <2>3
    <3>2. b[i] = rpos + (i - old)
      BY <1>5, <1>8, <2>1, <2>3
    <3> QED
      BY <1>7, <1>9, <2>3, <3>1, <3>2
  <2> QED
    BY <2>2, <2>3
<1>11. b = a \o z
  BY <1>8, <1>9, <1>10, SeqEqual
<1>12. Account(had \o (a \o z), rpos + n, taken, panics)
  <2>1. Account((had \o a) \o z, rpos + n, taken, panics)
    BY <1>1, <1>2, AccountGrows DEF a, z
  <2>2. (had \o a) \o z = had \o (a \o z)
    BY <1>1, <1>6, <1>7, Regrouped, Zenon
  <2> QED
    BY <2>1, <2>2
<1>13. buffer' = b
  BY <1>3 DEF b, st
<1>14. SubSeq(buffer', 1, old + n) = b
  BY <1>8, <1>13, SubSeqFull
<1>15. Stored(old + n)
  <2>1. Account(had' \o SubSeq(buffer', 1, old + n), rpos', taken', panics')
    BY <1>1, <1>3, <1>11, <1>12, <1>14
  <2>2. rpos' \in Nat /\ \A i \in (old + n + 1)..Len(buffer') : buffer'[i] = Zero
    BY <1>1, <1>3, <1>4, <1>8, <1>13
  <2> QED
    BY <1>1, <1>3, <1>4, <1>8, <1>13, <2>1, <2>2, AccountedFacts DEF Stored
<1> QED
  BY <1>4, <1>8, <1>13, <1>15

(* Err, and Interrupted where it takes the growth back. *)
LEMMA RolledBackStored ==
    ASSUME Accounted, call.pc = "read", Unmoved, NEW old \in Nat, Handed(old),
           ReadErr, UNCHANGED buf_cap
    PROVE  Stored(old) /\ Len(buffer') = old
<1>1. /\ buffer \in Seq(Nat) /\ Len(buffer) \in Nat /\ cap \in Nat
      /\ Len(buffer) <= cap /\ rpos \in Nat
      /\ had' = had /\ taken' = taken /\ panics' = panics
  BY AccountedFacts DEF Unmoved
<1>2. /\ old <= Len(buffer)
      /\ Account(had \o SubSeq(buffer, 1, old), rpos, taken, panics)
  BY OldContents DEF Handed
<1>3. /\ rpos' = rpos /\ cap' = cap
      /\ buffer' = Truncate(buffer, old)
  BY DEF ReadErr, ReaderFails, RolledBack, inner, Handed
<1> DEFINE a == SubSeq(buffer, 1, old)
<1>4. a \in Seq(Nat) /\ Len(a) = old
  BY <1>1, <1>2, PrefixFacts
<1>5. buffer' = a
  BY <1>1, <1>2, <1>3 DEF Truncate, Smaller
<1> HIDE DEF a
<1>6. SubSeq(buffer', 1, old) = a
  BY <1>4, <1>5, SubSeqFull
<1>7. Account(had' \o SubSeq(buffer', 1, old), rpos', taken', panics')
  BY <1>1, <1>2, <1>3, <1>6 DEF a
<1>8. old <= cap /\ \A i \in (old + 1)..Len(buffer') : buffer'[i] = Zero
  BY <1>1, <1>2, <1>4, <1>5
<1> QED
  BY <1>1, <1>3, <1>4, <1>5, <1>7, <1>8, AccountedFacts DEF Stored

(* Bytes pass to the consumer: the first of what was peeked and of the n   *)
(* that the reader hands out now; the rest of them is in the buffer.       *)
LEMMA PassedStored ==
    ASSUME Accounted, call.pc # "read", NEW b \in Seq(Nat), Passed(b),
           NEW n \in Nat, rpos' = rpos + n,
           buffer' \in Seq(Nat), b \o buffer' = buffer \o Slice(rpos, n),
           cap' \in Nat, Len(buffer') <= cap', buf_cap' \in Nat \cup {None},
           taken' = taken, panics' = panics
    PROVE  Stored(Len(buffer'))
<1>1. /\ buffer \in Seq(Nat) /\ rpos \in Nat /\ had \in Seq(Nat)
      /\ panics \in Nat /\ had' = had \o b
      /\ Account(had \o buffer, rpos, taken, panics)
  BY AccountedFacts, AllContents DEF Passed
<1> DEFINE z == Slice(rpos, n)
<1>2. z \in Seq(Nat)
  BY <1>1, SliceFacts
<1>3. Account((had \o buffer) \o z, rpos + n, taken, panics)
  BY <1>1, AccountGrows
<1> HIDE DEF z
<1>4. b \o buffer' = buffer \o z
  BY DEF z
<1>5. (had \o b) \o buffer' = (had \o buffer) \o z
  <2>1. (had \o b) \o buffer' = had \o (b \o buffer')
    BY <1>1, Regrouped, Zenon
  <2>2. (had \o buffer) \o z = had \o (buffer \o z)
    BY <1>1, <1>2, Regrouped, Zenon
  <2> QED
    BY <1>4, <2>1, <2>2
<1>6. had \o b \in Seq(Nat)
  BY <1>1, ConcatProperties
<1>7. SubSeq(buffer', 1, Len(buffer')) = buffer' /\ Len(buffer') \in Nat
  BY SubSeqFull, LenProperties
<1>8. rpos' \in Nat /\ \A i \in (Len(buffer') + 1)..Len(buffer') : buffer'[i] = Zero
  BY <1>1, <1>7
<1>9. Account(had' \o SubSeq(buffer', 1, Len(buffer')), rpos', taken', panics')
  BY <1>1, <1>3, <1>5, <1>7
<1>10. had' \in Seq(Nat) /\ panics' \in Nat /\ Len(buffer') <= Len(buffer')
  BY <1>1, <1>6, <1>7
<1> QED
  BY <1>7, <1>8, <1>9, <1>10 DEF Stored
-----------------------------------------------------------------------------
(* What the steps do to the call. *)

(* A method that returns, or is unwound. *)
LEMMA RestAccounted ==
    ASSUME NEW held, Stored(held), Len(buffer') = held, call' = Rest
    PROVE  Accounted'
<1>1. call' \in CallType /\ call'.pc = "idle" /\ call'.op = "none"
  BY RestTyped
<1> QED
  BY <1>1, StoredIsAccounted

LEMMA ReturnAccounted ==
    ASSUME NEW held, Stored(held), Len(buffer') = held,
           NEW st, NEW n, NEW out, Return(st, n, out)
    PROVE  Accounted'
BY RestAccounted DEF Return

(* A method that answers at once. *)
LEMMA CallAccounted ==
    ASSUME Accounted, call.pc # "read",
           NEW held, Stored(held), Len(buffer') = held, call' = call
    PROVE  Accounted'
<1>1. call \in CallType /\ Len(buffer) \in Nat
  BY AccountedFacts
<1>2. held \in Nat
  BY DEF Stored
<1>3. call.op = "peek_exact" => Len(call.out) + (Len(buffer) - Len(buffer)) <= call.want
  BY DEF Accounted, Shape, Held
<1>4. Len(buffer) - Len(buffer) = 0 /\ Len(buffer') - held = 0
  BY <1>1, <1>2
<1>5. call'.op = "peek_exact" => Len(call'.out) + (Len(buffer') - held) <= call'.want
  BY <1>3, <1>4
<1> QED
  BY <1>1, <1>5, StoredIsAccounted

(* A call that goes to the head of its loop. *)
LEMMA LoopAccounted ==
    ASSUME NEW held, Stored(held), Len(buffer') = held,
           NEW op \in Ops, NEW want \in Nat, NEW out \in Seq(Nat),
           Goto(op, "grow", want, 0, out),
           op = "peek_exact" => Len(out) <= want
    PROVE  Accounted'
<1>1. /\ call' \in CallType /\ call'.op = op /\ call'.pc = "grow"
      /\ call'.want = want /\ call'.out = out
  BY GotoFields
<1>2. Len(out) + (Len(buffer') - held) = Len(out)
  BY LenProperties DEF Stored
<1> QED
  BY <1>1, <1>2, StoredIsAccounted

(* A call that hands the reader the tail above old. *)
LEMMA ReaderAccounted ==
    ASSUME NEW old \in Nat, Stored(old),
           NEW op \in Ops, NEW want \in Nat, NEW out \in Seq(Nat),
           Goto(op, "read", want, old, out),
           op = "peek_exact" => Len(out) + (Len(buffer') - old) <= want
    PROVE  Accounted'
<1>1. /\ call' \in CallType /\ call'.op = op /\ call'.pc = "read"
      /\ call'.want = want /\ call'.out = out /\ call'.old = old
  BY GotoFields
<1> QED
  BY <1>1, StoredIsAccounted

-----------------------------------------------------------------------------
(* The consuming calls. *)

(* Splitting what was peeked, or adding nothing to it, leaves it as it is. *)
LEMMA SplitAt ==
    ASSUME NEW b \in Seq(Nat), NEW k \in 0..Len(b)
    PROVE  SubSeq(b, 1, k) \o Drain(b, k) = b
<1>1. Len(b) \in Nat
  BY LenProperties
<1>2. 1 \in 1..(Len(b) + 1) /\ k \in (1 - 1)..Len(b) /\ Len(b) \in k..Len(b)
  BY <1>1
<1>3. SubSeq(b, 1, k) \o SubSeq(b, k + 1, Len(b)) = SubSeq(b, 1, Len(b))
  BY <1>2, ConcatAdjacentSubSeq
<1> QED
  BY <1>3, SubSeqFull DEF Drain

LEMMA AddNothing ==
    ASSUME NEW b \in Seq(Nat), NEW r \in Nat
    PROVE  b \o Slice(r, 0) = b /\ b \o <<>> = b /\ <<>> \o b = b
<1>1. Slice(r, 0) \in Seq(Nat) /\ Len(Slice(r, 0)) = 0
  BY SliceFacts
<1>2. Slice(r, 0) = <<>>
  BY <1>1, EmptySeq
<1> QED
  BY <1>2, ConcatEmptySeq

(* Everything that was peeked passes, and n bytes of the reader behind it. *)
LEMMA EmptiedStored ==
    ASSUME Accounted, call.pc # "read", NEW n \in Nat, rpos' = rpos + n,
           Passed(buffer \o Slice(rpos, n)), buffer' = <<>>,
           cap' \in Nat, buf_cap' \in Nat \cup {None},
           taken' = taken, panics' = panics
    PROVE  Stored(Len(buffer'))
<1>1. buffer \in Seq(Nat) /\ rpos \in Nat
  BY AccountedFacts
<1> DEFINE b == buffer \o Slice(rpos, n)
<1>2. b \in Seq(Nat)
  BY <1>1, SliceFacts, ConcatProperties
<1>3. buffer' \in Seq(Nat) /\ Len(buffer') = 0 /\ b \o buffer' = b
  BY <1>1, <1>2, EmptySeq, AddNothing
<1> HIDE DEF b
<1>4. Passed(b) /\ b \o buffer' = buffer \o Slice(rpos, n)
  BY <1>3 DEF b
<1>5. Len(buffer') <= cap'
  BY <1>3
<1> QED
  BY <1>2, <1>3, <1>4, <1>5, PassedStored

(* ... without the reader. *)
LEMMA HandedOverStored ==
    ASSUME Accounted, call.pc # "read", rpos' = rpos,
           Passed(buffer), buffer' = <<>>,
           cap' \in Nat, buf_cap' \in Nat \cup {None},
           taken' = taken, panics' = panics
    PROVE  Stored(Len(buffer'))
<1>1. buffer \in Seq(Nat) /\ rpos \in Nat
  BY AccountedFacts
<1>2. buffer \o Slice(rpos, 0) = buffer
  BY <1>1, AddNothing
<1>3. rpos' = rpos + 0
  BY <1>1
<1> QED
  BY <1>2, <1>3, EmptiedStored

(* The first k bytes of what was peeked pass. *)
LEMMA DrainedStored ==
    ASSUME Accounted, call.pc # "read", NEW k \in 0..Len(buffer), rpos' = rpos,
           Passed(SubSeq(buffer, 1, k)), buffer' = Drain(buffer, k),
           UNCHANGED <<cap, buf_cap, taken, panics>>
    PROVE  Stored(Len(buffer'))
<1>1. /\ buffer \in Seq(Nat) /\ Len(buffer) \in Nat /\ rpos \in Nat
      /\ cap \in Nat /\ Len(buffer) <= cap /\ buf_cap \in Nat \cup {None}
  BY AccountedFacts
<1> DEFINE b == SubSeq(buffer, 1, k)
<1>2. b \in Seq(Nat)
  BY <1>1, PrefixFacts
<1>3. b \o buffer' = buffer \o Slice(rpos, 0)
  BY <1>1, SplitAt, AddNothing
<1>4. buffer' \in Seq(Nat) /\ Len(buffer') = Len(buffer) - k
  BY <1>1, DrainFacts
<1>5. Len(buffer') <= cap' /\ cap' \in Nat /\ buf_cap' \in Nat \cup {None}
  BY <1>1, <1>4
<1>6. rpos' = rpos + 0 /\ taken' = taken /\ panics' = panics
  BY <1>1
<1> HIDE DEF b
<1>7. Passed(b)
  BY DEF b
<1> QED
  BY <1>2, <1>3, <1>4, <1>5, <1>6, <1>7, PassedStored

LEMMA read_accounted ==
    ASSUME Accounted, NEW want \in Nat, read(want), Passed(ret'.out),
           taken' = taken, panics' = panics
    PROVE  Accounted'
<1>1. /\ call.pc # "read" /\ call' = call /\ cap' = cap /\ buf_cap' = buf_cap
  BY DEF read, Idle, given
<1>2. /\ buffer \in Seq(Nat) /\ Len(buffer) \in Nat /\ rpos \in Nat
      /\ cap \in Nat /\ buf_cap \in Nat \cup {None}
  BY AccountedFacts
<1>3. CASE read_buffered(want)
  <2>1. /\ rpos' = rpos /\ buffer' = Drain(buffer, want) /\ want <= Len(buffer)
        /\ Passed(SubSeq(buffer, 1, want))
    BY <1>3 DEF read_buffered, inner, Answer
  <2>2. want \in 0..Len(buffer)
    BY <1>2, <2>1
  <2>3. Stored(Len(buffer'))
    BY <1>1, <2>1, <2>2, DrainedStored
  <2> QED
    BY <1>1, <2>3, CallAccounted
<1>4. CASE read_top_up(want)
  <2>1. Stored(Len(buffer'))
    <3>1. CASE \E n \in 0..(want - Len(buffer)) :
                  /\ MayRead(want - Len(buffer), n)
                  /\ Advance(n)
                  /\ pos' = pos + Len(buffer) + n
                  /\ Answer("read", "ok", want, Len(buffer) + n,
                            buffer \o Slice(rpos, n))
      <4>1. PICK n \in 0..(want - Len(buffer)) :
                  /\ Advance(n)
                  /\ Answer("read", "ok", want, Len(buffer) + n,
                            buffer \o Slice(rpos, n))
        BY <3>1
      <4>2. n \in Nat /\ rpos' = rpos + n /\ Passed(buffer \o Slice(rpos, n))
        BY <1>2, <4>1 DEF Advance, Answer
      <4>3. buffer' = <<>>
        BY <1>4 DEF read_top_up
      <4> QED
        BY <1>1, <1>2, <4>2, <4>3, EmptiedStored
    <3>2. CASE /\ ReaderFails
               /\ pos' = pos + Len(buffer)
               /\ Answer("read", "ok", want, Len(buffer), buffer)
      <4>1. rpos' = rpos /\ Passed(buffer) /\ buffer' = <<>>
        BY <1>4, <3>2 DEF read_top_up, ReaderFails, inner, Answer
      <4> QED
        BY <1>1, <1>2, <4>1, HandedOverStored
    <3> QED
      BY <1>4, <3>1, <3>2 DEF read_top_up
  <2> QED
    BY <1>1, <2>1, CallAccounted
<1>5. CASE read_inner(want)
  <2>1. buffer = <<>> /\ buffer' = <<>>
    BY <1>5 DEF read_inner
  <2>2. Stored(Len(buffer'))
    <3>1. CASE \E n \in 0..want :
                  /\ MayRead(want, n)
                  /\ Advance(n)
                  /\ pos' = pos + n
                  /\ Answer("read", "ok", want, n, Slice(rpos, n))
      <4>1. PICK n \in 0..want :
                  Advance(n) /\ Answer("read", "ok", want, n, Slice(rpos, n))
        BY <3>1
      <4>2. n \in Nat /\ rpos' = rpos + n /\ Passed(Slice(rpos, n))
        BY <1>2, <4>1 DEF Advance, Answer
      <4>3. buffer \o Slice(rpos, n) = Slice(rpos, n)
        BY <1>2, <2>1, <4>2, SliceFacts, AddNothing
      <4> QED
        BY <1>1, <1>2, <2>1, <4>2, <4>3, EmptiedStored
    <3>2. CASE ReaderFails /\ Answer("read", "err", want, 0, <<>>)
      <4>1. rpos' = rpos /\ Passed(buffer)
        BY <2>1, <3>2 DEF ReaderFails, inner, Answer
      <4> QED
        BY <1>1, <1>2, <2>1, <4>1, HandedOverStored
    <3> QED
      BY <1>5, <3>1, <3>2 DEF read_inner
  <2> QED
    BY <1>1, <2>2, CallAccounted
<1> QED
  BY <1>3, <1>4, <1>5 DEF read

LEMMA BufRead_consume_accounted ==
    ASSUME Accounted, NEW amt \in Nat, BufRead_consume(amt),
           Passed(SubSeq(buffer, 1, FromBuffer(amt))
                    \o Slice(rpos, amt - FromBuffer(amt))),
           taken' = taken, panics' = panics
    PROVE  Accounted'
<1>1. /\ call.pc # "read" /\ call' = call /\ cap' = cap /\ buf_cap' = buf_cap
      /\ buffer' = Drain(buffer, FromBuffer(amt))
      /\ rpos' = rpos + (amt - FromBuffer(amt))
  BY DEF BufRead_consume, Idle, given
<1>2. /\ buffer \in Seq(Nat) /\ Len(buffer) \in Nat /\ rpos \in Nat
      /\ cap \in Nat /\ buf_cap \in Nat \cup {None}
  BY AccountedFacts
<1>3. CASE amt <= Len(buffer)
  <2>1. FromBuffer(amt) = amt /\ amt - amt = 0 /\ amt \in 0..Len(buffer)
    BY <1>2, <1>3 DEF FromBuffer, Smaller
  <2>2. SubSeq(buffer, 1, amt) \in Seq(Nat)
    BY <1>2, <2>1, PrefixFacts
  <2>3. rpos' = rpos /\ buffer' = Drain(buffer, amt)
    BY <1>1, <1>2, <2>1
  <2>4. Passed(SubSeq(buffer, 1, amt))
    BY <1>2, <2>1, <2>2, AddNothing
  <2>5. Stored(Len(buffer'))
    BY <1>1, <2>1, <2>3, <2>4, DrainedStored
  <2> QED
    BY <1>1, <2>5, CallAccounted
<1>4. CASE ~(amt <= Len(buffer))
  <2>1. PICK n \in Nat : n = amt - Len(buffer)
    BY <1>2, <1>4
  <2>2. FromBuffer(amt) = Len(buffer) /\ SubSeq(buffer, 1, Len(buffer)) = buffer
    BY <1>2, <1>4, SubSeqFull DEF FromBuffer, Smaller
  <2>3. rpos' = rpos + n /\ Passed(buffer \o Slice(rpos, n))
    BY <1>1, <2>1, <2>2
  <2>4. buffer' = <<>>
    <3>1. Len(buffer) \in 0..Len(buffer) /\ Len(buffer) - Len(buffer) = 0
      BY <1>2
    <3>2. Drain(buffer, Len(buffer)) \in Seq(Nat)
      BY <1>2, <3>1, DrainFacts
    <3>3. Len(Drain(buffer, Len(buffer))) = 0
      BY <1>2, <3>1, DrainFacts
    <3> QED
      BY <1>1, <2>2, <3>2, <3>3, EmptySeq
  <2>5. Stored(Len(buffer'))
    BY <1>1, <1>2, <2>3, <2>4, EmptiedStored
  <2> QED
    BY <1>1, <2>5, CallAccounted
<1> QED
  BY <1>3, <1>4

LEMMA consume_accounted ==
    ASSUME Accounted, consume \/ consume_in_place, Passed(buffer),
           taken' = taken, panics' = panics
    PROVE  Accounted'
<1>1. /\ call.pc # "read" /\ call' = call /\ buf_cap' = buf_cap
      /\ buffer' = <<>> /\ rpos' = rpos
      /\ cap' = cap \/ cap' = FreshCapacity(buf_cap)
  BY DEF consume, consume_in_place, Idle, given, inner
<1>2. cap' \in Nat /\ buf_cap' \in Nat \cup {None}
  BY <1>1, AccountedFacts, FreshCapacityFacts
<1>3. Stored(Len(buffer'))
  BY <1>1, <1>2, HandedOverStored
<1> QED
  BY <1>1, <1>3, CallAccounted

LEMMA Consuming_accounted ==
    ASSUME Accounted, Consuming
    PROVE  Accounted'
<1>1. taken' = taken /\ panics' = panics
  BY DEF Consuming
<1>2. MaxWant \in Nat
  BY ClientAssumption
<1>3. ASSUME NEW want \in 0..MaxWant, read(want), Passed(ret'.out)
      PROVE  Accounted'
  BY <1>1, <1>2, <1>3, read_accounted
<1>4. ASSUME NEW amt \in 0..MaxWant, BufRead_consume(amt),
             Passed(SubSeq(buffer, 1, FromBuffer(amt))
                      \o Slice(rpos, amt - FromBuffer(amt)))
      PROVE  Accounted'
  BY <1>1, <1>2, <1>4, BufRead_consume_accounted
<1>5. ASSUME consume \/ consume_in_place, Passed(buffer)
      PROVE  Accounted'
  BY <1>1, <1>5, consume_accounted
<1> QED
  BY <1>3, <1>4, <1>5 DEF Consuming
-----------------------------------------------------------------------------
(* The calls that peek. *)

LEMMA StutterAccounted ==
    ASSUME Accounted, Unmoved, UNCHANGED <<rpos, buffer, cap, buf_cap, call>>
    PROVE  Accounted'
<1>1. Held' = Held /\ Contents' = Contents
  BY DEF Held, Contents
<1> QED
  BY <1>1 DEF Accounted, Shape, Unmoved

(* A call that answers without touching the buffer or the reader. *)
LEMMA AnsweredAtOnce ==
    ASSUME Accounted, Unmoved, UNCHANGED <<inner, given, storage, call>>
    PROVE  Accounted'
BY StutterAccounted DEF inner, given, storage

(* The reader has answered and the method returns. *)
LEMMA ReadDone ==
    ASSUME Accounted, Unmoved, call.pc = "read", UNCHANGED given, call' = Rest,
           (\E n \in Nat : ReadOk(n)) \/ ReadErr
    PROVE  Accounted'
<1>1. PICK old \in Nat : Handed(old)
  BY OldContents
<1>2. buf_cap' = buf_cap
  BY DEF given
<1>3. CASE \E n \in Nat : ReadOk(n)
  <2>1. PICK n \in Nat : ReadOk(n)
    BY <1>3
  <2>2. Stored(old + n) /\ Len(buffer') = old + n
    BY <1>1, <1>2, <2>1, RecordedStored
  <2> QED
    BY <2>2, RestAccounted
<1>4. CASE ReadErr
  <2>1. Stored(old) /\ Len(buffer') = old
    BY <1>1, <1>2, <1>4, RolledBackStored
  <2> QED
    BY <2>1, RestAccounted
<1> QED
  BY <1>3, <1>4

(* The reader is asked again, nothing has happened. *)
LEMMA AskedAgain ==
    ASSUME Accounted, Unmoved, UNCHANGED given, ReadAgain
    PROVE  Accounted'
BY AnsweredAtOnce DEF ReadAgain, ReaderFails, storage

LEMMA PeekInto_accounted ==
    ASSUME Accounted, Unmoved, NEW op \in {"peek", "peek_vectored"},
           NEW asked \in Nat, NEW want \in Nat, PeekInto(op, asked, want)
    PROVE  Accounted'
<1>1. /\ call.pc # "read" /\ op \in Ops
      /\ rpos' = rpos /\ buf_cap' = buf_cap /\ UNCHANGED <<inner, given>>
  BY DEF PeekInto, Idle, Ops, inner, given
<1>2. CASE UNCHANGED <<storage, call>>
  BY <1>1, <1>2, AnsweredAtOnce
<1>3. CASE /\ want > Len(buffer) /\ ResizeTo(want)
           /\ Goto(op, "read", asked, Len(buffer), <<>>)
  <2>1. Len(buffer) \in Nat /\ Len(buffer) <= want /\ <<>> \in Seq(Nat)
    BY <1>3, AccountedFacts, EmptySeq
  <2>2. Stored(Len(buffer))
    BY <1>1, <1>3, <2>1, ResizedStored
  <2> QED
    BY <1>1, <1>3, <2>1, <2>2, ReaderAccounted
<1> QED
  BY <1>2, <1>3 DEF PeekInto

LEMMA peek_accounted ==
    ASSUME Accounted, Unmoved, NEW want \in Nat, peek(want)
    PROVE  Accounted'
BY PeekInto_accounted DEF peek

LEMMA peek_vectored_accounted ==
    ASSUME Accounted, Unmoved, NEW len1 \in Nat, NEW len2 \in Nat,
           peek_vectored(len1, len2)
    PROVE  Accounted'
BY PeekInto_accounted DEF peek_vectored

LEMMA peek_read_accounted ==
    ASSUME Accounted, Unmoved, peek_read
    PROVE  Accounted'
<1>1. call.pc = "read" /\ UNCHANGED given
  BY DEF peek_read, At
<1>2. CASE \E n \in 0..Room : ReadOk(n) /\ Return("ok", call.old + n, buffer')
  <2>1. (\E n \in Nat : ReadOk(n)) /\ call' = Rest
    BY <1>2 DEF Return
  <2> QED
    BY <1>1, <2>1, ReadDone
<1>3. CASE ReadErr /\ Return("err", 0, <<>>)
  BY <1>1, <1>3, ReadDone DEF Return
<1>4. CASE ReadAgain
  BY <1>1, <1>4, AskedAgain
<1> QED
  BY <1>2, <1>3, <1>4 DEF peek_read

LEMMA peek_exact_accounted ==
    ASSUME Accounted, Unmoved, NEW total \in Nat, peek_exact(total)
    PROVE  Accounted'
<1>1. call.pc # "read" /\ UNCHANGED <<inner, given, storage>>
  BY DEF peek_exact, Idle
<1>2. CASE call' = call
  BY <1>1, <1>2, AnsweredAtOnce
<1>3. CASE total > Len(buffer) /\ Goto("peek_exact", "grow", total, 0, buffer)
  <2>1. buffer \in Seq(Nat) /\ Len(buffer) \in Nat /\ Len(buffer) <= total
    BY <1>3, AccountedFacts
  <2>2. Stored(Len(buffer'))
    BY <1>1, UntouchedStored DEF inner, given, storage
  <2>3. "peek_exact" \in Ops
    BY DEF Ops
  <2> QED
    BY <1>3, <2>1, <2>2, <2>3, LoopAccounted
<1> QED
  BY <1>2, <1>3 DEF peek_exact

LEMMA peek_exact_resize_accounted ==
    ASSUME Accounted, Unmoved, peek_exact_resize
    PROVE  Accounted'
<1>1. /\ call.op = "peek_exact" /\ call.pc # "read"
      /\ rpos' = rpos /\ buf_cap' = buf_cap /\ UNCHANGED <<inner, given>>
  BY DEF peek_exact_resize, At, inner, given
<1>2. /\ Len(buffer) \in Nat /\ call.out \in Seq(Nat) /\ Len(call.out) \in Nat
      /\ call.want \in Nat
  BY AccountedFacts, LenProperties DEF CallType, Bytes
<1>3. PICK w \in Nat : w = call.want
  BY <1>2
<1>4. PICK k \in Nat : k = Len(call.out)
  BY <1>2
<1>5. k <= w /\ Missing = w - k
  <2>1. k + (Len(buffer) - Len(buffer)) <= w
    BY <1>1, <1>3, <1>4 DEF Accounted, Shape, Held
  <2> QED
    BY <1>2, <1>3, <1>4, <2>1 DEF Missing
<1>6. CASE /\ ResizeTo(Len(buffer) + Missing)
           /\ Goto("peek_exact", "read", call.want, Len(buffer), call.out)
  <2>1. PICK len \in Nat : len = Len(buffer) + (w - k)
    BY <1>2, <1>5
  <2>2. ResizeTo(len) /\ Len(buffer) <= len
    BY <1>2, <1>5, <1>6, <2>1
  <2>3. Stored(Len(buffer)) /\ Len(buffer') = len
    BY <1>1, <2>2, ResizedStored
  <2>4. Len(call.out) + (Len(buffer') - Len(buffer)) <= w
    BY <1>2, <1>4, <2>1, <2>3
  <2>5. "peek_exact" \in Ops /\ Goto("peek_exact", "read", w, Len(buffer), call.out)
    BY <1>3, <1>6 DEF Ops
  <2> QED
    BY <1>2, <2>3, <2>4, <2>5, ReaderAccounted
<1>7. CASE Return("oom", 0, call.out) /\ UNCHANGED storage
  <2>1. Stored(Len(buffer')) /\ call' = Rest
    BY <1>1, <1>7, UntouchedStored DEF inner, given, storage, Return
  <2> QED
    BY <2>1, RestAccounted
<1> QED
  BY <1>6, <1>7 DEF peek_exact_resize

(* The piece that peek_exact and peek_to_end copy to the caller. *)
LEMMA CopiedPiece ==
    ASSUME NEW b \in Seq(Nat), NEW old \in Nat, NEW n \in Nat, Len(b) = old + n,
           NEW out \in Seq(Nat)
    PROVE  /\ out \o SubSeq(b, old + 1, old + n) \in Seq(Nat)
           /\ Len(out \o SubSeq(b, old + 1, old + n)) = Len(out) + n
<1>1. old \in 0..Len(b) /\ Len(b) - old = n
  OBVIOUS
<1>2. Drain(b, old) \in Seq(Nat) /\ Len(Drain(b, old)) = n
  BY <1>1, DrainFacts
<1>3. SubSeq(b, old + 1, old + n) = Drain(b, old)
  BY DEF Drain
<1> QED
  BY <1>2, <1>3, ConcatProperties

LEMMA peek_exact_read_accounted ==
    ASSUME Accounted, Unmoved, peek_exact_read
    PROVE  Accounted'
<1>1. call.op = "peek_exact" /\ call.pc = "read" /\ UNCHANGED given
  BY DEF peek_exact_read, At
<1>2. PICK old \in Nat :
        /\ Handed(old) /\ old <= Len(buffer)
        /\ Len(call.out) + (Len(buffer) - old) <= call.want
  BY <1>1, OldContents
<1>3. /\ Len(buffer) \in Nat /\ call.out \in Seq(Nat) /\ Len(call.out) \in Nat
      /\ call.want \in Nat
  BY AccountedFacts, LenProperties DEF CallType, Bytes
<1>4. CASE ReadOk(0) /\ Return("eof", 0, call.out)
  BY <1>1, <1>4, ReadDone DEF Return
<1>5. CASE \E n \in 1..Room :
            /\ ReadOk(n)
            /\ LET out == call.out \o SubSeq(buffer', call.old + 1, call.old + n)
               IN  \/ /\ Len(out) < call.want
                      /\ Goto("peek_exact", "grow", call.want, 0, out)
                      /\ ret' = ret
                   \/ /\ Len(out) >= call.want
                      /\ Return("ok", Len(out), out)
  <2> DEFINE out(n) == call.out \o SubSeq(buffer', old + 1, old + n)
  <2>1. PICK n \in 1..Room :
            /\ ReadOk(n)
            /\ \/ Goto("peek_exact", "grow", call.want, 0, out(n))
               \/ call' = Rest
    BY <1>2, <1>5 DEF Handed, Return
  <2>2. n \in Nat
    OBVIOUS
  <2>3. Stored(old + n) /\ Len(buffer') = old + n /\ old + n <= Len(buffer)
    BY <1>1, <1>2, <2>1, <2>2, RecordedStored DEF given
  <2>4. buffer' \in Seq(Nat)
    BY <2>3 DEF Stored
  <2>5. out(n) \in Seq(Nat) /\ Len(out(n)) = Len(call.out) + n
    BY <1>3, <2>2, <2>3, <2>4, CopiedPiece
  <2> HIDE DEF out
  <2>6. Len(out(n)) <= call.want
    BY <1>2, <1>3, <2>2, <2>3, <2>5
  <2>7. CASE Goto("peek_exact", "grow", call.want, 0, out(n))
    <3>1. "peek_exact" \in Ops
      BY DEF Ops
    <3> QED
      BY <1>3, <2>3, <2>5, <2>6, <2>7, <3>1, LoopAccounted
  <2>8. CASE call' = Rest
    BY <2>3, <2>8, RestAccounted
  <2> QED
    BY <2>1, <2>7, <2>8
<1>6. CASE ReadErr /\ Return("err", 0, call.out)
  BY <1>1, <1>6, ReadDone DEF Return
<1>7. CASE ReadAgain
  BY <1>1, <1>7, AskedAgain
<1> QED
  BY <1>4, <1>5, <1>6, <1>7 DEF peek_exact_read
LEMMA peek_to_accounted ==
    ASSUME Accounted, Unmoved, peek_to_end \/ peek_to_string
    PROVE  Accounted'
<1>1. call.pc # "read" /\ UNCHANGED <<inner, given, storage>>
  BY DEF peek_to_end, peek_to_string, Idle
<1>2. CASE call' = call
  BY <1>1, <1>2, AnsweredAtOnce
<1>3. CASE \/ Goto("peek_to_end", "grow", 0, 0, buffer)
           \/ Goto("peek_to_string", "grow", 0, 0, <<>>)
  <2>1. buffer \in Seq(Nat) /\ <<>> \in Seq(Nat) /\ 0 \in Nat
    BY AccountedFacts, EmptySeq
  <2>2. Stored(Len(buffer'))
    BY <1>1, UntouchedStored DEF inner, given, storage
  <2>3. "peek_to_end" \in Ops /\ "peek_to_string" \in Ops
    BY DEF Ops
  <2>4. CASE Goto("peek_to_end", "grow", 0, 0, buffer)
    BY <2>1, <2>2, <2>3, <2>4, LoopAccounted
  <2>5. CASE Goto("peek_to_string", "grow", 0, 0, <<>>)
    BY <2>1, <2>2, <2>3, <2>5, LoopAccounted
  <2> QED
    BY <1>3, <2>4, <2>5
<1> QED
  BY <1>2, <1>3 DEF peek_to_end, peek_to_string

(* However peek_to_string concludes, it has returned. *)
LEMMA ConcludeRests ==
    ASSUME NEW st, NEW b, Conclude(st, b)
    PROVE  call' = Rest
BY DEF Conclude, Return

LEMMA grow_peek_buffer_accounted ==
    ASSUME Accounted, Unmoved, grow_peek_buffer
    PROVE  Accounted'
<1>1. /\ call.pc = "grow" /\ call.pc # "read"
      /\ call.op \in {"peek_to_end", "peek_to_string"}
      /\ rpos' = rpos /\ buf_cap' = buf_cap /\ UNCHANGED <<inner, given>>
  BY DEF grow_peek_buffer, At, inner, given
<1>2. Len(buffer) \in Nat /\ call \in CallType
  BY AccountedFacts
<1>3. CASE grow_ok
  <2>1. PICK g \in Nat \ {0} : g = call.growth
    BY <1>2 DEF CallType
  <2>2. ResizeTo(Len(buffer) + g)
    BY <1>3, <2>1 DEF grow_ok
  <2>3. Len(buffer) + g \in Nat /\ Len(buffer) <= Len(buffer) + g
    BY <1>2
  <2>4. Stored(Len(buffer))
    BY <1>1, <2>2, <2>3, ResizedStored
  <2>5. call' = [call EXCEPT !.pc = "read", !.old = Len(buffer)]
    BY <1>3 DEF grow_ok
  <2>6. /\ call' \in CallType /\ call'.pc = "read" /\ call'.old = Len(buffer)
        /\ call'.op = call.op
    BY <1>2, <2>5 DEF CallType
  <2>7. call'.op # "peek_exact"
    BY <1>1, <2>6
  <2> QED
    BY <2>4, <2>6, <2>7, StoredIsAccounted
<1>4. CASE grow_halve
  <2>1. Stored(Len(buffer'))
    BY <1>1, <1>4, UntouchedStored DEF grow_halve, storage
  <2>2. call.growth \in Nat /\ call.growth > 1
    BY <1>2, <1>4 DEF CallType, grow_halve
  <2>3. PICK h \in Nat \ {0} : h = call.growth \div 2
    BY <2>2, HalfFacts
  <2>4. call' = [call EXCEPT !.growth = h]
    BY <1>4, <2>3 DEF grow_halve
  <2>5. call' \in CallType /\ call'.pc = "grow" /\ call'.op = call.op
    BY <1>1, <1>2, <2>4 DEF CallType
  <2>6. call'.op # "peek_exact"
    BY <1>1, <2>5
  <2> QED
    BY <2>1, <2>5, <2>6, StoredIsAccounted
<1>5. CASE grow_fail
  <2>1. Stored(Len(buffer'))
    BY <1>1, <1>5, UntouchedStored DEF grow_fail, storage
  <2>2. call' = Rest
    BY <1>5, ConcludeRests DEF grow_fail, Return
  <2> QED
    BY <2>1, <2>2, RestAccounted
<1> QED
  BY <1>3, <1>4, <1>5 DEF grow_peek_buffer

(* Back to the head of the loop of peek_to_end or peek_to_string. *)
LEMMA AgainAccounted ==
    ASSUME Accounted, call.op \in {"peek_to_end", "peek_to_string"},
           NEW held, Stored(held), Len(buffer') = held,
           NEW out \in Seq(Nat), Again(out)
    PROVE  Accounted'
<1>1. /\ call.op \in Ops /\ call.op # "peek_exact" /\ call.want \in Nat
      /\ Goto(call.op, "grow", call.want, 0, out)
  BY AccountedFacts DEF CallType, Ops, Again
<1> QED
  BY <1>1, LoopAccounted

LEMMA peek_to_end_read_accounted ==
    ASSUME Accounted, Unmoved, peek_to_end_read
    PROVE  Accounted'
<1>1. call.op = "peek_to_end" /\ call.pc = "read" /\ UNCHANGED given
  BY DEF peek_to_end_read, At
<1>2. PICK old \in Nat : Handed(old)
  BY <1>1, OldContents
<1>3. call.out \in Seq(Nat)
  BY AccountedFacts DEF CallType, Bytes
<1>4. CASE ReadOk(0) /\ Return("ok", Len(buffer'), call.out)
  BY <1>1, <1>4, ReadDone DEF Return
<1>5. CASE \E n \in 1..Room :
            /\ ReadOk(n)
            /\ Again(call.out \o SubSeq(buffer', call.old + 1, call.old + n))
  <2> DEFINE out(n) == call.out \o SubSeq(buffer', old + 1, old + n)
  <2>1. PICK n \in 1..Room : ReadOk(n) /\ Again(out(n))
    BY <1>2, <1>5 DEF Handed
  <2>2. n \in Nat
    OBVIOUS
  <2>3. Stored(old + n) /\ Len(buffer') = old + n
    BY <1>1, <1>2, <2>1, <2>2, RecordedStored DEF given
  <2>4. buffer' \in Seq(Nat)
    BY <2>3 DEF Stored
  <2>5. out(n) \in Seq(Nat)
    BY <1>3, <2>2, <2>3, <2>4, CopiedPiece
  <2> HIDE DEF out
  <2> QED
    BY <1>1, <2>1, <2>3, <2>5, AgainAccounted
<1>6. CASE ReadErr /\ Return("err", 0, call.out)
  BY <1>1, <1>6, ReadDone DEF Return
<1> QED
  BY <1>4, <1>5, <1>6 DEF peek_to_end_read

LEMMA peek_to_string_read_accounted ==
    ASSUME Accounted, Unmoved, peek_to_string_read
    PROVE  Accounted'
<1>1. call.op = "peek_to_string" /\ call.pc = "read" /\ UNCHANGED given
  BY DEF peek_to_string_read, At
<1>2. PICK old \in Nat : Handed(old)
  BY <1>1, OldContents
<1>3. CASE ReadOk(0) /\ Conclude("ok", buffer')
  <2>1. call' = Rest
    BY <1>3 DEF Conclude, Return
  <2> QED
    BY <1>1, <1>3, <2>1, ReadDone
<1>4. CASE \E n \in 1..Room : ReadOk(n) /\ Again(<<>>)
  <2>1. PICK n \in 1..Room : ReadOk(n) /\ Again(<<>>)
    BY <1>4
  <2>2. n \in Nat /\ <<>> \in Seq(Nat)
    BY EmptySeq
  <2>3. Stored(old + n) /\ Len(buffer') = old + n
    BY <1>1, <1>2, <2>1, <2>2, RecordedStored DEF given
  <2> QED
    BY <1>1, <2>1, <2>2, <2>3, AgainAccounted
<1>5. CASE ReadErr /\ Conclude("err", buffer')
  <2>1. call' = Rest
    BY <1>5 DEF Conclude, Return
  <2> QED
    BY <1>1, <1>5, <2>1, ReadDone
<1> QED
  BY <1>3, <1>4, <1>5 DEF peek_to_string_read

LEMMA peek_to_interrupted_accounted ==
    ASSUME Accounted, Unmoved, peek_to_interrupted
    PROVE  Accounted'
<1>1. /\ call.op \in {"peek_to_end", "peek_to_string"} /\ call.pc = "read"
      /\ buf_cap' = buf_cap /\ ReadErr /\ Again(call.out)
  BY DEF peek_to_interrupted, At, given
<1>2. PICK old \in Nat : Handed(old)
  BY <1>1, OldContents
<1>3. Stored(old) /\ Len(buffer') = old
  BY <1>1, <1>2, RolledBackStored
<1>4. call.out \in Seq(Nat)
  BY AccountedFacts DEF CallType, Bytes
<1> QED
  BY <1>1, <1>3, <1>4, AgainAccounted

LEMMA fill_peek_buf_accounted ==
    ASSUME Accounted, Unmoved, fill_peek_buf
    PROVE  Accounted'
<1>1. /\ call.pc # "read" /\ rpos' = rpos /\ buf_cap' = buf_cap
      /\ UNCHANGED <<inner, given>>
  BY DEF fill_peek_buf, Idle, inner, given
<1>2. CASE ResizeTo(cap) /\ Goto("fill_peek_buf", "read", 0, Len(buffer), <<>>)
  <2>1. /\ Len(buffer) \in Nat /\ cap \in Nat /\ Len(buffer) <= cap
        /\ <<>> \in Seq(Nat) /\ 0 \in Nat /\ "fill_peek_buf" \in Ops
    BY AccountedFacts, EmptySeq DEF Ops
  <2>2. Stored(Len(buffer))
    BY <1>1, <1>2, <2>1, ResizedStored
  <2> QED
    BY <1>2, <2>1, <2>2, ReaderAccounted
<1>3. CASE UNCHANGED <<storage, call>>
  BY <1>1, <1>3, AnsweredAtOnce
<1> QED
  BY <1>2, <1>3 DEF fill_peek_buf

LEMMA fill_peek_buf_read_accounted ==
    ASSUME Accounted, Unmoved, fill_peek_buf_read
    PROVE  Accounted'
<1>1. call.pc = "read" /\ UNCHANGED given
  BY DEF fill_peek_buf_read, At
<1>2. CASE \E n \in 0..Room : ReadOk(n) /\ Return("ok", n, <<>>)
  <2>1. (\E n \in Nat : ReadOk(n)) /\ call' = Rest
    BY <1>2 DEF Return
  <2> QED
    BY <1>1, <2>1, ReadDone
<1>3. CASE ReadErr /\ Return("err", 0, <<>>)
  BY <1>1, <1>3, ReadDone DEF Return
<1>4. CASE ReadAgain
  BY <1>1, <1>4, AskedAgain
<1> QED
  BY <1>2, <1>3, <1>4 DEF fill_peek_buf_read

LEMMA fill_buf_accounted ==
    ASSUME Accounted, Unmoved, fill_buf
    PROVE  Accounted'
<1>1. rpos' = rpos /\ buffer' = buffer /\ cap' = cap /\ buf_cap' = buf_cap
      /\ call' = call
  BY DEF fill_buf, inner_fill_buf, ReaderFails, inner, given, storage
<1> QED
  BY <1>1, StutterAccounted

LEMMA Arrive_accounted ==
    ASSUME Accounted, Unmoved, Arrive
    PROVE  Accounted'
BY StutterAccounted DEF Arrive, inner, given, storage

LEMMA Step_accounted ==
    ASSUME Accounted, Unmoved, Step
    PROVE  Accounted'
BY peek_read_accounted, peek_exact_resize_accounted, peek_exact_read_accounted,
   grow_peek_buffer_accounted, peek_to_end_read_accounted,
   peek_to_string_read_accounted, peek_to_interrupted_accounted,
   fill_peek_buf_read_accounted DEF Step

LEMMA Peeking_accounted ==
    ASSUME Accounted, Peeking
    PROVE  Accounted'
<1>1. Unmoved
  BY DEF Peeking, Unmoved
<1>2. \A n \in 0..MaxWant : n \in Nat
  BY ClientAssumption
<1>3. ASSUME NEW want \in 0..MaxWant, peek(want) \/ peek_exact(want)
      PROVE  Accounted'
  BY <1>1, <1>2, <1>3, peek_accounted, peek_exact_accounted
<1>4. ASSUME NEW len1 \in 0..MaxWant, NEW len2 \in 0..MaxWant,
             peek_vectored(len1, len2)
      PROVE  Accounted'
  BY <1>1, <1>2, <1>4, peek_vectored_accounted
<1>5. ASSUME fill_buf \/ peek_to_end \/ peek_to_string \/ fill_peek_buf
      PROVE  Accounted'
  BY <1>1, <1>5, fill_buf_accounted, peek_to_accounted, fill_peek_buf_accounted
<1>6. ASSUME Step \/ Arrive PROVE Accounted'
  BY <1>1, <1>6, Step_accounted, Arrive_accounted
<1> QED
  BY <1>3, <1>4, <1>5, <1>6 DEF Peeking
-----------------------------------------------------------------------------
(* Hands on the inner reader, and panics. *)

LEMMA MovesOver_accounted ==
    ASSUME Accounted, NEW n \in Nat, MovesOver(n)
    PROVE  Accounted'
<1>1. /\ call.pc # "read" /\ call' = call /\ buffer' = buffer /\ cap' = cap
      /\ buf_cap' = buf_cap /\ had' = had /\ panics' = panics /\ rpos' = rpos + n
      /\ taken' = taken \cup (rpos + 1)..(rpos + n)
  BY DEF MovesOver, Idle, Advance, given, storage
<1>2. /\ rpos \in Nat /\ buffer \in Seq(Nat) /\ Len(buffer) \in Nat
      /\ SubSeq(buffer, 1, Len(buffer)) = buffer
  BY AccountedFacts, SubSeqFull
<1>3. Account(had \o buffer, rpos + n, taken \cup (rpos + 1)..(rpos + n), panics)
  BY <1>1, <1>2, AllContents, AccountMoves
<1>4. Account(had' \o SubSeq(buffer', 1, Len(buffer')), rpos', taken', panics')
  BY <1>1, <1>2, <1>3
<1>5. rpos' \in Nat /\ \A i \in (Len(buffer') + 1)..Len(buffer') : buffer'[i] = Zero
  BY <1>1, <1>2
<1>6. Stored(Len(buffer'))
  BY <1>1, <1>2, <1>4, <1>5, AccountedFacts DEF Stored
<1> QED
  BY <1>1, <1>6, CallAccounted

LEMMA into_components_accounted ==
    ASSUME Accounted, into_components
    PROVE  Accounted'
<1>1. /\ call.pc # "read" /\ call' = call /\ rpos' = rpos
      /\ Passed(buffer) /\ buffer' = <<>>
      /\ buf_cap' \in BufCaps /\ cap' = FreshCapacity(buf_cap')
      /\ taken' = taken /\ panics' = panics
  BY DEF into_components, peekable, Idle, inner
<1>2. PICK bc \in Nat \cup {None} : bc = buf_cap'
  BY <1>1, ClientAssumption
<1>3. cap' \in Nat /\ buf_cap' \in Nat \cup {None}
  BY <1>1, <1>2, FreshCapacityFacts
<1>4. Stored(Len(buffer'))
  BY <1>1, <1>3, HandedOverStored
<1> QED
  BY <1>1, <1>4, CallAccounted

(* The buffer without its tail, and the tail. *)
LEMMA ContentsAndTail ==
    ASSUME Accounted
    PROVE  \E z \in Seq(Nat) : /\ \A i \in 1..Len(z) : z[i] = Zero
                               /\ buffer = Contents \o z
<1>1. /\ buffer \in Seq(Nat) /\ Len(buffer) \in Nat /\ call \in CallType
  BY AccountedFacts
<1>2. Held \in Nat /\ Held <= Len(buffer)
  BY <1>1 DEF Accounted, Shape, Held, CallType
<1>3. PICK k \in 0..Len(buffer) : k = Held
  BY <1>1, <1>2
<1>4. \A i \in (k + 1)..Len(buffer) : buffer[i] = Zero
  BY <1>3 DEF Accounted, Shape
<1>5. /\ Drain(buffer, k) \in Seq(Nat) /\ Len(Drain(buffer, k)) = Len(buffer) - k
      /\ \A i \in 1..(Len(buffer) - k) : Drain(buffer, k)[i] = buffer[k + i]
  BY <1>1, DrainFacts
<1>6. \A i \in 1..Len(Drain(buffer, k)) : Drain(buffer, k)[i] = Zero
  BY <1>1, <1>4, <1>5
<1>7. buffer = Contents \o Drain(buffer, k)
  BY <1>1, <1>3, SplitAt DEF Contents
<1> QED
  BY <1>5, <1>6, <1>7

(* The account of the whole buffer, tail included. *)
LEMMA WholeBuffer ==
    ASSUME Accounted, NEW q \in Nat, q # 0
    PROVE  Account(had \o buffer, rpos, taken, q)
<1>1. /\ rpos \in Nat /\ had \in Seq(Nat) /\ buffer \in Seq(Nat)
      /\ Account(had \o Contents, rpos, taken, panics)
  BY AccountedFacts
<1>2. Contents \in Seq(Nat)
  <2>1. call \in CallType /\ Len(buffer) \in Nat
    BY AccountedFacts
  <2>2. Held \in 0..Len(buffer)
    BY <2>1 DEF Accounted, Shape, Held, CallType
  <2> QED
    BY <1>1, <2>2, PrefixFacts DEF Contents
<1>3. PICK z \in Seq(Nat) : /\ \A i \in 1..Len(z) : z[i] = Zero
                            /\ buffer = Contents \o z
  BY ContentsAndTail
<1>4. Account((had \o Contents) \o z, rpos, taken, q)
  BY <1>1, <1>3, AccountPadded
<1>5. (had \o Contents) \o z = had \o (Contents \o z)
  BY <1>1, <1>2, Regrouped, Zenon
<1> QED
  BY <1>3, <1>4, <1>5

(* Whatever the buffer holds when the panic passes is contents from then. *)
LEMMA Caught_accounted ==
    ASSUME Accounted, Caught, UNCHANGED storage
    PROVE  Accounted'
<1>1. /\ call' = Rest /\ buffer' = buffer /\ cap' = cap /\ buf_cap' = buf_cap
      /\ had' = had /\ taken' = taken /\ rpos' = rpos /\ panics' = panics + 1
  BY DEF Caught, storage, inner, given
<1>2. /\ buffer \in Seq(Nat) /\ Len(buffer) \in Nat /\ panics \in Nat
      /\ SubSeq(buffer, 1, Len(buffer)) = buffer
  BY AccountedFacts, SubSeqFull
<1>3. panics + 1 \in Nat /\ panics + 1 # 0
  BY <1>2
<1>4. Account(had \o buffer, rpos, taken, panics + 1)
  BY <1>3, WholeBuffer
<1>5. Account(had' \o SubSeq(buffer', 1, Len(buffer')), rpos', taken', panics')
  BY <1>1, <1>2, <1>4
<1>6. panics' \in Nat /\ \A i \in (Len(buffer') + 1)..Len(buffer') : buffer'[i] = Zero
  BY <1>1, <1>2
<1>7. Stored(Len(buffer'))
  BY <1>1, <1>2, <1>5, <1>6, AccountedFacts DEF Stored
<1> QED
  BY <1>1, <1>7, RestAccounted

-----------------------------------------------------------------------------
(* The invariant holds. *)

LEMMA InitAccounted == IInit => Accounted
<1> SUFFICES ASSUME IInit PROVE Accounted
  OBVIOUS
<1>1. /\ rpos = 0 /\ buffer = <<>> /\ buf_cap \in BufCaps
      /\ cap = FreshCapacity(buf_cap) /\ call = Rest
      /\ had = <<>> /\ taken = {} /\ panics = 0
  BY DEF IInit, Init, construct
<1>2. buf_cap \in Nat \cup {None}
  BY <1>1, ClientAssumption
<1>3. cap \in Nat
  BY <1>1, <1>2, FreshCapacityFacts
<1>4. <<>> \in Seq(Nat) /\ Len(<<>>) = 0
  BY EmptySeq
<1>5. call \in CallType /\ call.pc = "idle" /\ call.op = "none"
  BY <1>1, RestTyped
<1>6. Held = 0
  BY <1>1, <1>4, <1>5 DEF Held
<1>7. Shape
  BY <1>1, <1>2, <1>3, <1>4, <1>5, <1>6 DEF Shape
<1>8. had \o Contents = <<>>
  <2>1. Contents = <<>>
    BY <1>1, <1>4, <1>6, SubSeqFull DEF Contents
  <2> QED
    BY <1>1, <1>4, <2>1, ConcatEmptySeq
<1>9. Account(<<>>, 0, {}, 0)
  BY <1>4 DEF Account
<1> QED
  BY <1>1, <1>7, <1>8, <1>9 DEF Accounted

LEMMA NextAccounted == Accounted /\ [INext]_ivars => Accounted'
<1> SUFFICES ASSUME Accounted, [INext]_ivars PROVE Accounted'
  OBVIOUS
<1>1. CASE Consuming
  BY <1>1, Consuming_accounted
<1>2. CASE Peeking
  BY <1>2, Peeking_accounted
<1>3. ASSUME NEW n \in 1..MaxWant, get_mut(n) \/ write(n)
      PROVE  Accounted'
  <2>1. n \in Nat /\ MovesOver(n)
    BY <1>3 DEF get_mut, write
  <2> QED
    BY <2>1, MovesOver_accounted
<1>4. CASE into_components
  BY <1>4, into_components_accounted
<1>5. ASSUME peek_panics \/ \E n \in 1..MaxWant : read_panics(n)
      PROVE  Accounted'
  <2>1. Caught /\ UNCHANGED storage
    BY <1>5 DEF peek_panics, read_panics
  <2> QED
    BY <2>1, Caught_accounted
<1>6. CASE UNCHANGED ivars
  <2>1. Unmoved /\ UNCHANGED <<rpos, buffer, cap, buf_cap, call>>
    BY <1>6 DEF ivars, vars, Unmoved
  <2> QED
    BY <2>1, StutterAccounted
<1> QED
  BY <1>1, <1>2, <1>3, <1>4, <1>5, <1>6 DEF INext

(* The account is kept by every step: the calls of Peekable, the reader's  *)
(* own user, taking the wrapper apart, and panics.                         *)
THEOREM AccountKept == ISpec => []Accounted
<1> QED
  BY InitAccounted, NextAccounted, PTL DEF ISpec

-----------------------------------------------------------------------------
(* What the account says of the properties. *)

LEMMA NothingLostNow == Accounted => NothingLost
<1> SUFFICES ASSUME Accounted PROVE NothingLost
  OBVIOUS
<1> DEFINE s == had \o buffer
<1>1. had \in Seq(Nat) /\ buffer \in Seq(Nat) /\ rpos \in Nat
  BY AccountedFacts
<1>2. Len(had) \in Nat /\ Len(buffer) \in Nat
  BY <1>1, LenProperties
<1>3. /\ s \in Seq(Nat) /\ Len(s) = Len(had) + Len(buffer)
      /\ \A i \in 1..(Len(had) + Len(buffer)) :
           s[i] = IF i <= Len(had) THEN had[i] ELSE buffer[i - Len(had)]
  BY <1>1, ConcatProperties
<1>4. Account(s, rpos, taken, 1)
  BY WholeBuffer
<1> HIDE DEF s
<1>5. \A i \in 1..Len(s) : s[i] \in Nat
  BY <1>3, ElementOfSeq
<1>6. \A i \in 1..Len(had) : i \in 1..Len(s) /\ s[i] = had[i]
  BY <1>2, <1>3
<1>7. \A i \in 1..Len(buffer) :
        Len(had) + i \in 1..Len(s) /\ s[Len(had) + i] = buffer[i]
  <2> TAKE i \in 1..Len(buffer)
  <2>1. /\ Len(had) + i \in 1..(Len(had) + Len(buffer))
        /\ ~(Len(had) + i <= Len(had)) /\ (Len(had) + i) - Len(had) = i
    BY <1>2
  <2> QED
    BY <1>3, <2>1
<1>8. StreamBytes(had) \cup StreamBytes(buffer) = StreamBytes(s)
  <2>1. StreamBytes(had) \cup StreamBytes(buffer) \subseteq StreamBytes(s)
    BY <1>6, <1>7 DEF StreamBytes
  <2>2. ASSUME NEW x \in StreamBytes(s)
        PROVE  x \in StreamBytes(had) \cup StreamBytes(buffer)
    <3>1. PICK i \in 1..Len(s) : x = s[i] /\ x # Zero
      BY DEF StreamBytes
    <3>2. CASE i <= Len(had)
      <4>1. i \in 1..Len(had) /\ x = had[i]
        BY <1>2, <1>3, <3>1, <3>2
      <4> QED
        BY <3>1, <4>1 DEF StreamBytes
    <3>3. CASE ~(i <= Len(had))
      <4>1. i - Len(had) \in 1..Len(buffer) /\ x = buffer[i - Len(had)]
        BY <1>2, <1>3, <3>1, <3>3
      <4> QED
        BY <3>1, <4>1 DEF StreamBytes
    <3> QED
      BY <3>2, <3>3
  <2> QED
    BY <2>1, <2>2
<1>9. StreamBytes(s) \cup taken = 1..rpos
  <2>1. StreamBytes(s) \subseteq 1..rpos
    BY <1>1, <1>4, <1>5 DEF StreamBytes, Account, Zero
  <2>2. taken \subseteq 1..rpos
    BY <1>4 DEF Account
  <2>3. ASSUME NEW x \in 1..rpos
        PROVE  x \in StreamBytes(s) \cup taken
    <3>1. x \in taken \/ \E i \in 1..Len(s) : s[i] = x
      BY <1>4 DEF Account
    <3>2. x # Zero
      BY DEF Zero
    <3> QED
      BY <3>1, <3>2 DEF StreamBytes
  <2> QED
    BY <2>1, <2>2, <2>3
<1> QED
  BY <1>8, <1>9 DEF NothingLost

LEMMA OnceInOrderNow == Accounted => OnceInOrder
<1> SUFFICES ASSUME Accounted PROVE OnceInOrder
  OBVIOUS
<1> DEFINE s == had \o buffer
<1>1. Account(s, rpos, taken, 1)
  BY WholeBuffer
<1> HIDE DEF s
<1>2. \A i, j \in 1..Len(s) :
        i < j /\ s[i] # Zero /\ s[j] # Zero => s[i] < s[j]
  BY <1>1 DEF Account
<1>3. taken \cap StreamBytes(s) = {}
  BY <1>1 DEF Account, StreamBytes
<1> QED
  BY <1>2, <1>3 DEF OnceInOrder, s

LEMMA NoFillerNow == Accounted => FillerOnlyFromPanics
<1> SUFFICES ASSUME Accounted, panics = 0, NEW i \in 1..Held
             PROVE  buffer[i] # Zero
  BY DEF FillerOnlyFromPanics
<1>1. /\ had \in Seq(Nat) /\ buffer \in Seq(Nat) /\ Len(buffer) \in Nat
      /\ call \in CallType /\ Account(had \o Contents, rpos, taken, panics)
  BY AccountedFacts
<1>2. Held \in 0..Len(buffer) /\ Len(had) \in Nat
  BY <1>1, LenProperties DEF Accounted, Shape, Held, CallType
<1> DEFINE c == Contents
           j == Len(had) + i
<1>3. c \in Seq(Nat) /\ Len(c) = Held /\ c[i] = buffer[i]
  BY <1>1, <1>2, PrefixFacts DEF Contents
<1>4. j \in 1..(Len(had) + Len(c)) /\ ~(j <= Len(had)) /\ j - Len(had) = i
  BY <1>2, <1>3
<1> HIDE DEF c, j
<1>5. /\ Len(had \o c) = Len(had) + Len(c)
      /\ (had \o c)[j] = c[j - Len(had)]
  BY <1>1, <1>3, <1>4, ConcatProperties
<1>6. (had \o c)[j] # Zero
  <2>1. Account(had \o c, rpos, taken, 0)
    BY <1>1 DEF c
  <2> QED
    BY <1>4, <1>5, <2>1 DEF Account
<1> QED
  BY <1>3, <1>4, <1>5, <1>6

(* Whoever reads or writes behind the wrapper's back, takes it apart or    *)
(* catches a panic of the reader in the middle of a call: every byte that  *)
(* has left the reader went to the consumer or to the reader's user, or is *)
(* in the peek buffer.                                                     *)
THEOREM NoByteVanishes == ISpec => []NothingLost
<1> QED
  BY AccountKept, NothingLostNow, PTL

(* ... and it went there once, and in order. *)
THEOREM NoByteTwice == ISpec => []OnceInOrder
<1> QED
  BY AccountKept, OnceInOrderNow, PTL

(* ... and among them there is filler only after a panic. *)
THEOREM OnlyPanicsPad == ISpec => []FillerOnlyFromPanics
<1> QED
  BY AccountKept, NoFillerNow, PTL
=============================================================================
