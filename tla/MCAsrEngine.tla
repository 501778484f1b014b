----------------------------- MODULE MCAsrEngine -----------------------------
(***************************************************************************)
(* The users of ZipformerEngine: a request, and a live session.  They      *)
(* share the recognizer and, as its streams are independent, no state; the *)
(* session is explored beside the request that has no clips.               *)
(***************************************************************************)
EXTENDS Transcriber, LiveSession

engineVars == <<vars, sessionVars>>

Request == Work /\ UNCHANGED sessionVars
Session == clips = <<>> /\ SessionNext /\ UNCHANGED vars

EngineInit == Init /\ SessionInit
EngineNext == Request \/ Session \/ (Over /\ UNCHANGED sessionVars)

\* The worker runs on; readers and the recognizer answer.
EngineSpec == EngineInit /\ [][EngineNext]_engineVars /\ WF_engineVars(Request)
=============================================================================
