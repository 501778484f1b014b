--------------------------- MODULE MCSpeechService ---------------------------
(* Two requests for one text, and one worker for both.                       *)
EXTENDS SpeechService

MCSpeech == Reply
MCAsks == [key : Keys, tagged : {TRUE}, stream : BOOLEAN]
MCNBytes == [s \in Reply |-> s.parts]
=============================================================================
