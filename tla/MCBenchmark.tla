----------------------------- MODULE MCBenchmark -----------------------------
(***************************************************************************)
(* Three labelled files, two requests at a time.                            *)
(***************************************************************************)
EXTENDS Benchmark

\* The labels of at most one file are not words.
MCInit == Init /\ Cardinality({f \in Files : labels[f] # "words"}) <= 1

MCSpec == MCInit /\ [][Next]_vars /\ WF_vars(Progress)
=============================================================================
