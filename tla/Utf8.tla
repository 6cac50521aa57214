-------------------------------- MODULE Utf8 --------------------------------
(***************************************************************************)
(* What peek_to_string uses of core::str::from_utf8.  A byte has a class;  *)
(* characters of one, two and three bytes are enough to be split at every  *)
(* kind of place (inside the first, between continuation bytes, at a       *)
(* boundary), which is all the code can tell apart.                        *)
(***************************************************************************)
EXTENDS Integers, Sequences, FiniteSetsExt

Classes == {"ascii", "lead2", "lead3", "cont", "bad"}

(* Length of the character a byte of this class begins, 0 if none. *)
Width(c) == CASE c = "ascii" -> 1
              [] c = "lead2" -> 2
              [] c = "lead3" -> 3
              [] OTHER -> 0

(* from_utf8(s).is_ok(): every byte belongs to one complete character. *)
Valid(s) ==
    \A i \in 1..Len(s) :
        /\ s[i] # "bad"
        /\ \A d \in 1..(Width(s[i]) - 1) : i + d <= Len(s) /\ s[i + d] = "cont"
        /\ s[i] = "cont" => \E d \in 1..2 : d < i /\ Width(s[i - d]) > d

(* Utf8Error::valid_up_to(): the longest prefix of complete characters. *)
ValidUpTo(s) == Max({k \in 0..Len(s) : Valid(SubSeq(s, 1, k))})

(* Utf8Error::error_len() = None: s only lacks the end of a character. *)
Incomplete(s) ==
    LET rest == SubSeq(s, ValidUpTo(s) + 1, Len(s))
    IN  /\ rest # <<>>
        /\ Width(rest[1]) > Len(rest)
        /\ \A i \in 2..Len(rest) : rest[i] = "cont"

(* Utf8Error::error_len() = Some(_): no continuation can repair s. *)
DefinitelyInvalid(s) == ~Valid(s) /\ ~Incomplete(s)
=============================================================================
