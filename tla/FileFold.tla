------------------------------ MODULE FileFold ------------------------------
(***************************************************************************)
(* What run_pipeline promises its caller (include/processor.h): the outcome*)
(* is a function of the file.  If every document of the file can be read,  *)
(* the call returns an accumulator in which every document counts exactly  *)
(* once; if one is malformed, it throws.  There are no threads, no queue   *)
(* and no order: which worker read which chunk, and when, must not show.   *)
(*                                                                         *)
(* A file is the sequence of the chunks the splitter cuts it into.  A      *)
(* chunk tells whether simdjson could open a document stream on it, and    *)
(* for each document of the stream whether it is well formed.  A chunk     *)
(* that could not be opened is left out, or makes the call throw: that the *)
(* promise leaves open.                                                    *)
(*                                                                         *)
(* The calls of the system are numbered in their order: 1 constructs what  *)
(* the call needs, the next ones create a thread each and the last one     *)
(* opens the file.  A file whose call fails is never read: the call throws *)
(* if no thread was running yet, and terminates the process if one was.    *)
(***************************************************************************)
EXTENDS Naturals, Sequences

CONSTANTS
  Files,      \* the files that may be given
  Refusals    \* the numbers of the calls that may fail

VARIABLES
  file,       \* the file being processed
  refused,    \* the number of the call that fails, 0 if none
  outcome,    \* "none" until the call ends: "returned", "threw" or "terminated"
  result      \* the accumulator returned

Chunks == 1 .. Len(file)

\* A document is named by its chunk and its place in it.
Documents == UNION {{c} \X (1 .. Len(file[c].docs)) : c \in Chunks}

AllOpened == \A c \in Chunks : file[c].opened

WellFormed ==
  \A c \in Chunks : file[c].opened => \A d \in 1 .. Len(file[c].docs) : file[c].docs[d] = "ok"

Init ==
  /\ file \in Files
  /\ refused \in Refusals
  /\ outcome = "none"
  /\ result = <<>>

Return ==
  /\ outcome = "none"
  /\ refused = 0
  /\ WellFormed
  /\ outcome' = "returned"
  /\ result' = [doc \in Documents |-> IF file[doc[1]].opened THEN 1 ELSE 0]
  /\ UNCHANGED <<file, refused>>

Throw ==
  /\ outcome = "none"
  /\ refused = 0
  /\ ~(AllOpened /\ WellFormed)
  /\ outcome' = "threw"
  /\ UNCHANGED <<file, refused, result>>

Refused ==
  /\ outcome = "none"
  /\ refused # 0
  /\ outcome' = IF refused <= 2 THEN "threw" ELSE "terminated"
  /\ UNCHANGED <<file, refused, result>>

Next == Return \/ Throw \/ Refused

vars == <<file, refused, outcome, result>>

Spec == Init /\ [][Next]_vars /\ WF_vars(Next)
=============================================================================
