----------------------------- MODULE ModularSum -----------------------------
(***************************************************************************)
(* Sums of 128-bit hashes modulo PRIME = 2^127 - 1 (include/utils.h).      *)
(*                                                                         *)
(* Only one thing matters about 2^127: a word is twice as large, and PRIME *)
(* is one less.  HalfWord stands for it, so that every case (a value below *)
(* PRIME, PRIME itself, 2^127, the largest word) occurs with small words.  *)
(* Shifting right by 127 is division by HalfWord, and masking with PRIME   *)
(* is the remainder.  Arithmetic on words wraps around.                    *)
(***************************************************************************)
EXTENDS Naturals

CONSTANT HalfWord      \* 2^127

ASSUME HalfWordAssumption == HalfWord \in Nat /\ HalfWord > 2

PRIME == HalfWord - 1
Word == 0 .. 2 * HalfWord - 1
Wrap(n) == n % (2 * HalfWord)

SubtractPrime(r) == IF r >= PRIME THEN r - PRIME ELSE r

reduce_mod_p(x) == SubtractPrime(Wrap((x \div HalfWord) + (x % HalfWord)))

\* Mutant of add_mod: the sum is not reduced, and outgrows the word.
add_plain(a, b) == a + b

add_mod(a, b) == SubtractPrime(Wrap(reduce_mod_p(a) + reduce_mod_p(b)))
=============================================================================
