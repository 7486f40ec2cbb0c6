------------------------------- MODULE Words --------------------------------
(***************************************************************************)
(* A u32 as the C code packs fields into it: the set of its bits.  What is *)
(* shifted beyond bit 31 is lost.                                          *)
(***************************************************************************)
EXTENDS Integers

Bits(n) == {b \in 0 .. 30 : (n \div 2^b) % 2 = 1}

\* The number in a field of six bits.
SixBits == [field \in SUBSET (0 .. 5) |-> CHOOSE n \in 0 .. 63 : Bits(n) = field]

\* word << k, word >> k, and word & ((1 << k) - 1)
Shl(word, k) == {b + k : b \in word} \cap 0 .. 31
Shr(word, k) == {b - k : b \in {c \in word : c >= k}}
Low(word, k) == word \cap 0 .. k - 1
=============================================================================
