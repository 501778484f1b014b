------------------------------ MODULE MCChunker ------------------------------
(* Pieces of text around the limits of 16 characters and of 8 for a soft     *)
(* boundary, and some of several sentences; x is a letter, n the newline, t   *)
(* white space that is no blank.                                             *)
EXTENDS Chunker

Letters(n) == [i \in 1..n |-> "x"]

MCMarks == {<<" ">>, <<".">>, <<",">>, <<"n">>, <<"t">>}
MCWords == {Letters(n) : n \in {1, 7, 15, 16}}
MCSentences == {<<"x", ".", "x">>, <<"x", ".", " ", "x", ".">>, <<"x", "n", ".", ",">>}
MCDeltas ==
  MCWords \cup MCMarks \cup MCSentences
    \cup {w \o m : w \in MCWords \ {Letters(16)}, m \in MCMarks}
=============================================================================
