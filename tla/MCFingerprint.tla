--------------------------- MODULE MCFingerprint ---------------------------
(***************************************************************************)
(* Small instances of Fingerprint for TLC: words of three bits, so that    *)
(* PRIME is 3, with the values at the boundaries among the hashes.         *)
(***************************************************************************)
EXTENDS Fingerprint

EmptyFile == [kind |-> "empty", hashes |-> <<>>]
Readable(hashes) == [kind |-> "readable", hashes |-> hashes]

\* Every pair of a first file, malformed or not, and a second one.
TwoFiles ==
  {<<first, Readable(hashes)>> :
     first \in {EmptyFile, Readable(<<PRIME>>), Readable(<<1, 2>>)}
               \cup {[kind |-> "malformed", hashes |-> <<1>>]},
     hashes \in [1 .. 3 -> {1, PRIME, HalfWord, 2 * HalfWord - 1}]}

\* More files than descriptors.
ThreeFiles == {<<EmptyFile, Readable(<<1, 2>>), Readable(<<2>>)>>}

\* Both: with two descriptors the second list runs out of them.
AllFiles == TwoFiles \cup {<<Readable(<<1>>), Readable(<<2>>), Readable(<<1>>)>>}
=============================================================================
