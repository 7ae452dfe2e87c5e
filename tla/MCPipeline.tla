----------------------------- MODULE MCPipeline -----------------------------
(***************************************************************************)
(* Small instances of Pipeline for TLC: the files that may be given.       *)
(***************************************************************************)
EXTENDS Pipeline, SequencesExt

Opened(docs) == [opened |-> TRUE, docs |-> docs]

\* A chunk that simdjson refuses still holds a document.
Unopened == [opened |-> FALSE, docs |-> <<"ok">>]

\* One chunk with whitespace only, chunks that are read, and malformed ones.
Good == {Opened(<<>>), Opened(<<"ok">>)}
Bad == {Opened(<<"bad">>), Opened(<<"ok", "bad">>)}

\* Every file of at most three chunks over these, the empty file included.
SmallFiles == BoundedSeq(Good \cup Bad, 3)
SomeUnopened == BoundedSeq(Good \cup {Opened(<<"ok", "bad">>), Unopened}, 3)
=============================================================================
