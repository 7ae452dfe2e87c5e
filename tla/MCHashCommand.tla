--------------------------- MODULE MCHashCommand ---------------------------
(***************************************************************************)
(* Small instances of HashCommand for TLC.                                 *)
(***************************************************************************)
EXTENDS HashCommand

\* A file of n bytes, all different.
Bytes(n) == [i \in 1 .. n |-> i]

\* 0 is what is read behind the end of a file.
MCByte == 0 .. 37

\* Up to nine chunks of four bytes; the empty file; and lists of two files.
MCInputs ==
  {<<>>} \cup {<<Bytes(n)>> : n \in 0 .. 37}
    \cup {<<Bytes(m), Bytes(n)>> : m \in {1, 9}, n \in {0, 4, 16}}
=============================================================================
