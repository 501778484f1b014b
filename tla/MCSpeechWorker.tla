--------------------------- MODULE MCSpeechWorker ---------------------------
(* Texts of one clause and of several, cut at marks and for their length.     *)
EXTENDS SpeechWorker

Letters(n) == [i \in 1..n |-> "x"]
MCTexts ==
  {Letters(1), <<" ">> \o Letters(2) \o <<".", " ">> \o Letters(3),
   Letters(17) \o <<".", ".">>, Letters(9) \o <<" ">> \o Letters(9) \o <<",", "n">> \o Letters(1)}
=============================================================================
