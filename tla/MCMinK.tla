------------------------------- MODULE MCMinK -------------------------------
(***************************************************************************)
(* Small instances of MinK for TLC.                                        *)
(***************************************************************************)
EXTENDS MinK

\* Files of up to four values among four hashes, so that hashes repeat, within
\* a worker and across workers, and more of them are distinct than K.
ShortFiles == UNION {[1 .. n -> Hash] : n \in 0 .. 4}

=============================================================================
