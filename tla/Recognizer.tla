------------------------------ MODULE Recognizer ------------------------------
(***************************************************************************)
(* The streams of sherpa-onnx's OnlineRecognizer, which is external, as    *)
(* src/litserver/zipformer/engine.py uses them: they can be stepped as     *)
(* long as there is enough to look at, "the decoder lags its input", and a *)
(* result is what was decoded since the stream was opened or reset.        *)
(*                                                                         *)
(* A stream is what it heard, frame by frame, each a word or silence; how  *)
(* many frames of that are decoded; and how many were at the last reset.   *)
(***************************************************************************)
EXTENDS Integers, Sequences, SequencesExt

CONSTANTS
  Window,  \* frames the decoder looks at in a step
  Shift,   \* frames it is done with after one
  Pad      \* the frames of tail_padding_seconds

\* A second of silence is enough to push the last word through the decoder.
ASSUME RecognizerAssumption ==
  /\ {Window, Shift} \subseteq Nat \ {0} /\ Shift <= Window
  /\ Pad \in Nat /\ Pad >= Window - 1

Opened == [heard |-> <<>>, done |-> 0, from |-> 0]
Silence == [i \in 1..Pad |-> "silence"]

AcceptWaveform(s, frames) == [s EXCEPT !.heard = @ \o frames]
IsReady(s) == Len(s.heard) - s.done >= Window
DecodeStream(s) == [s EXCEPT !.done = @ + Shift]
Reset(s) == [s EXCEPT !.from = s.done]

\* The words of frames m + 1 to n, told apart by where they were said.
Words(s, m, n) ==
  FlattenSeq([i \in 1..(n - m) |->
                IF s.heard[m + i] = "word" THEN <<m + i>> ELSE <<>>])

GetResult(s) == Words(s, s.from, s.done)

\* Trailing silence, of what is decoded, after something was.
IsEndpoint(s) == s.done > s.from /\ s.heard[s.done] = "silence"
=============================================================================
