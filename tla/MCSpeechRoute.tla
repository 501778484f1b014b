--------------------------- MODULE MCSpeechRoute ---------------------------
(***************************************************************************)
(* Small instances of SpeechRoute.  The identities of the requests and of  *)
(* the texts do not matter.                                                *)
(***************************************************************************)
EXTENDS SpeechRoute

MCSpeech == Reply
MCNBytes == [s \in Reply |-> s.parts]

Symmetry == Permutations(Requests) \cup Permutations(Keys)
=============================================================================
