----------------------------- MODULE LiveSession -----------------------------
(***************************************************************************)
(* ZipformerSession of src/litserver/zipformer/engine.py: one caller's     *)
(* stream, decoded as it arrives.  The caller feeds it frames, takes the   *)
(* transcript for a turn and resets at an endpoint, and finishes when they *)
(* hang up.                                                                *)
(*                                                                         *)
(*   live    the stream of the session                                     *)
(*   call    the method that is running, "none" if none is                 *)
(*   turns   the transcripts the caller took, in order                     *)
(***************************************************************************)
EXTENDS Recognizer

CONSTANTS
  MaxFrames,  \* of one accept; with MaxHeard the bounds of the model
  MaxHeard    \* of a session

ASSUME SessionAssumption == {MaxFrames, MaxHeard} \subseteq Nat

VARIABLES live, call, turns

sessionVars == <<live, call, turns>>

SessionInit == live = Opened /\ call = "none" /\ turns = <<>>

Frames == UNION {[1..n -> {"word", "silence"}] : n \in 0..MaxFrames}

\* accept and finish feed the stream, and step it for as long as it is ready.
Accept(frames) ==
  /\ call = "none" /\ Len(live.heard) + Len(frames) <= MaxHeard
  /\ live' = AcceptWaveform(live, frames)
  /\ call' = "accept"
  /\ UNCHANGED turns

FinishUnpadded ==  \* a bug to be caught: nothing flushes the tail
  /\ call = "none" /\ call' = "finish"
  /\ UNCHANGED <<live, turns>>

Finish ==
  /\ call = "none" /\ call' = "finish"
  /\ live' = AcceptWaveform(live, Silence)
  /\ UNCHANGED turns

Decode ==
  /\ call \in {"accept", "finish"} /\ IsReady(live)
  /\ live' = DecodeStream(live)
  /\ UNCHANGED <<call, turns>>

AcceptReturns ==
  /\ call = "accept" /\ ~IsReady(live) /\ call' = "none"
  /\ UNCHANGED <<live, turns>>

\* The last transcript; the session is over.
FinishReturns ==
  /\ call = "finish" /\ ~IsReady(live) /\ call' = "over"
  /\ turns' = Append(turns, GetResult(live))
  /\ UNCHANGED live

\* is_endpoint() holds: "the text so far is the final turn and reset() starts
\* the next one on the same stream".
TurnEnds ==
  /\ call = "none" /\ IsEndpoint(live)
  /\ turns' = Append(turns, GetResult(live))
  /\ live' = Reset(live)
  /\ UNCHANGED call

SessionNext ==
  \/ \E frames \in Frames : Accept(frames)
  \/ Finish \/ Decode \/ AcceptReturns \/ FinishReturns \/ TurnEnds

SessionSpec == SessionInit /\ [][SessionNext]_sessionVars

-----------------------------------------------------------------------------
(***************************************************************************)
(* Every word a caller said is in one of their turns, once and in order,   *)
(* wherever the endpoints fell and however far the decoder lagged behind:  *)
(* "without the padding the final word of a turn can still be undelivered  *)
(* when the caller hangs up".                                              *)
(***************************************************************************)
NothingSaidIsLost ==
  call = "over" => FlattenSeq(turns) = Words(live, 0, Len(live.heard))
=============================================================================
