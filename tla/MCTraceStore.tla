----------------------------- MODULE MCTraceStore -----------------------------
(* Instances of TraceStore: three or four requests, two conversations.       *)
EXTENDS TraceStore, TLC

\* Requests are interchangeable, and so are conversation ids.
Symmetry == Permutations(Requests) \cup Permutations(Convs)
=============================================================================
