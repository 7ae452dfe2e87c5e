----------------------------- MODULE MCHashWalk -----------------------------
(***************************************************************************)
(* Small files for HashWalk.                                               *)
(***************************************************************************)
EXTENDS Content, TLC

\* Values without children.
Leaf(type, value) == <<>> :> [type |-> type, size |-> 0, keys |-> <<>>, value |-> value]
Number(kind, halves) == Leaf("number", [kind |-> kind, halves |-> halves])

\* A container of the documents kids; keys is <<>> for an array.
Container(type, keys, kids) ==
  LET below == UNION {{<<i>> \o p : p \in DOMAIN kids[i]} : i \in DOMAIN kids}
  IN [p \in {<<>>} \cup below |->
        IF p = <<>> THEN [type |-> type, size |-> Len(kids), keys |-> keys, value |-> 0]
                    ELSE kids[Head(p)][Tail(p)]]

Object(keys, kids) == Container("object", keys, kids)
Array(kids) == Container("array", <<>>, kids)

a == <<97>>
b == <<98>>

\* 2, 2.0, 2.5; 2^63 as an integer, as a double and as the least integer; a
\* double beyond; a big integer; strings with the bytes of true, null and 2.0.
Numbers == {Number("int64", 4), Number("double", 4), Number("double", 5),
            Number("uint64", 8), Number("double", 8), Number("int64", -8),
            Number("double", 12), Number("uint64", 12), Number("big", 20)}
Strings == {Leaf("string", <<>>), Leaf("string", a), Leaf("string", <<1>>), Leaf("string", <<0, 0>>),
            Leaf("string", Int128(2))}
Others == {Leaf("boolean", TRUE), Leaf("boolean", FALSE), Leaf("null", 0),
           Leaf("malformed", 0), Object(<<>>, <<>>), Array(<<>>)}
Values == Numbers \cup Strings \cup Others

\* The values of which two are put together.
Few == {Number("int64", 4), Number("double", 4), Leaf("boolean", TRUE), Array(<<>>)}

\* The last is the key with the bytes of an index.
Keys == {a, b, ArrayIndexPrefix(0)}

Small ==
  {Object(<<k>>, <<v>>) : k \in Keys, v \in Values} \cup {Array(<<v>>) : v \in Values}

Wide ==
  {Object(<<k, l>>, <<v, w>>) : k \in {a, b}, l \in {a, b}, v \in Few, w \in Few}
    \cup {Array(<<v, w>>) : v \in Few, w \in Few}

Deep ==
  UNION {{Object(<<k, l>>, <<Object(<<k>>, <<v>>), Array(<<w, v>>)>>),
          Object(<<l, k>>, <<Array(<<w, v>>), Object(<<k>>, <<v>>)>>),
          Array(<<Object(<<k, l>>, <<v, w>>), v>>),
          Array(<<Object(<<l, k>>, <<w, v>>), v>>),
          Object(<<k>>, <<Object(<<l>>, <<v>>)>>)}
         : k \in {a, b}, l \in {a, b}, v \in Few, w \in Few}

Lines == {Object(<<k>>, <<v>>) : k \in {a, b}, v \in {Number("int64", 4), Leaf("boolean", TRUE)}}
           \cup {Leaf("malformed", 0)}

MCFiles ==
  {<<>>} \cup {<<d>> : d \in Small \cup Wide \cup Deep} \cup {<<d, e>> : d \in Lines, e \in Lines}

\* Two lines with an a and a b each, of 1 and 2.
TwoRecords ==
  {<<Object(<<a, b>>, <<v, w>>), Object(<<a, b>>, <<x, y>>)>> :
     v, w, x, y \in {Number("int64", 2), Number("int64", 4)}}
=============================================================================
