----------------------------- MODULE Transcriber -----------------------------
(***************************************************************************)
(* One ASR worker process serving one request: ASRLitAPI of                *)
(* src/litserver/litapi.py, decode_base64_audio of src/utils/audio.py and  *)
(* ZipformerEngine.transcribe of src/litserver/zipformer/engine.py.        *)
(*                                                                         *)
(* The request holds clips.  Each is decoded through a temporary file; when *)
(* all have been, they are transcribed in batches of streams of the         *)
(* recognizer (see Recognizer).  libsndfile, ffmpeg and the disk are        *)
(* external, too: readers fail, and a write to a full disk raises.         *)
(*                                                                         *)
(*   clips     what the request holds                                      *)
(*   pc        where the worker is                                         *)
(*   audios    the clips decoded so far, by their place in the request      *)
(*   tmp       the temporary files that exist, by the clip they hold       *)
(*   path      tmp_path: the file the finally of decode_base64_audio knows *)
(*   failure   what the decoder of the current clip raised, None if nothing *)
(*   start     how many clips the loop over batches has passed             *)
(*   streams   the open streams of the batch, and the clips they were fed  *)
(*   results   the clips whose transcripts were appended, in order;         *)
(*             with whether they are of the whole clip, and of speech      *)
(*   outcome   "200", "400" or None                                        *)
(***************************************************************************)
EXTENDS Recognizer

CONSTANTS
  MaxClips,     \* of one request; with MaxWords the bounds of the model
  MaxWords,     \* the longest clip, in frames
  BatchSize,    \* TRANSCRIBE_BATCH_SIZE; Settings takes any integer
  WritesFail,   \* can the disk be full?
  None

\* What can be in a clip: text that is no base64, nothing, what libsndfile
\* reads, what only ffmpeg reads, what neither does, and a container without
\* samples; and, of what can be read, whether the recognizer hears speech.
Kinds == {"not base64", "nothing", "wav", "webm", "garbage", "no samples"}
Clip == [kind : Kinds, speech : BOOLEAN]

ASSUME TranscriberAssumption ==
  /\ MaxClips \in Nat /\ MaxWords \in Nat
  /\ BatchSize \in Int
  /\ WritesFail \in BOOLEAN
  /\ None \notin Nat \cup {"200", "400", "disk", "ffmpeg"}

VARIABLES clips, pc, audios, tmp, path, failure, start, streams, results, outcome

vars == <<clips, pc, audios, tmp, path, failure, start, streams, results, outcome>>
decoding == <<audios, tmp, path, failure>>
recognizing == <<start, streams, results>>

Init ==
  /\ \E n \in 0..MaxClips : clips \in [1..n -> Clip]
  /\ pc = "decode"
  /\ audios = <<>> /\ tmp = {} /\ path = None /\ failure = None
  /\ start = 0 /\ streams = <<>> /\ results = <<>>
  /\ outcome = None

\* The clip being decoded, by its place in the request.
This == Len(audios) + 1
Kind == clips[This].kind

Readable == {"wav", "no samples"}      \* by librosa.load
Convertible == Readable \cup {"webm"}  \* by ffmpeg_decode

-----------------------------------------------------------------------------
\* A bug to be caught: a clip that cannot be decoded is taken for silence.
TakeForSilence ==
  /\ audios' = Append(audios, This) /\ pc' = "decode"
  /\ UNCHANGED <<clips, tmp, path, recognizing, outcome>>

\* The comprehension of decode_request turns to its next clip, whose base64
\* text is decoded first; a ValueError of any clip is a 400 for the request.
BadRequest ==
  /\ outcome' = "400" /\ pc' = "over"
  /\ UNCHANGED <<clips, audios, tmp, path, recognizing>>

RefusePayload ==
  /\ pc = "decode" /\ This <= Len(clips)
  /\ Kind \in {"not base64", "nothing"}
  /\ failure' = None
  /\ BadRequest

\* NamedTemporaryFile(delete=False) makes the file; its name is noted only
\* when the bytes are in it.
CreateFile ==
  /\ pc = "decode" /\ This <= Len(clips)
  /\ Kind \notin {"not base64", "nothing"}
  /\ tmp' = tmp \cup {This}
  /\ path' = None /\ failure' = None
  /\ pc' = "write"
  /\ UNCHANGED <<clips, audios, recognizing, outcome>>

WriteFile ==
  /\ pc = "write"
  /\ path' = This
  /\ pc' = "load"
  /\ UNCHANGED <<clips, audios, tmp, failure, recognizing, outcome>>

WriteFails ==
  /\ pc = "write" /\ WritesFail
  /\ failure' = "disk"
  /\ pc' = "finally"
  /\ UNCHANGED <<clips, audios, tmp, path, recognizing, outcome>>

\* librosa.load, and ffmpeg for whatever that cannot read.
Load ==
  /\ pc = "load"
  /\ pc' = IF Kind \in Readable THEN "finally" ELSE "convert"
  /\ UNCHANGED <<clips, decoding, recognizing, outcome>>

Convert ==
  /\ pc = "convert"
  /\ \/ Kind \in Convertible /\ failure' = None
     \/ failure' = "ffmpeg"
  /\ pc' = "finally"
  /\ UNCHANGED <<clips, audios, tmp, path, recognizing, outcome>>

\* A bug to be caught: a file is removed only when it could be read.
FinallyIfRead ==
  /\ pc = "finally"
  /\ tmp' = IF path # None /\ failure = None THEN tmp \ {path} ELSE tmp
  /\ pc' = "check"
  /\ UNCHANGED <<clips, audios, path, failure, recognizing, outcome>>

Finally ==
  /\ pc = "finally"
  /\ tmp' = IF path # None THEN tmp \ {path} ELSE tmp
  /\ pc' = "check"
  /\ UNCHANGED <<clips, audios, path, failure, recognizing, outcome>>

\* A waveform with samples in it is the clip's audio; everything else is a
\* ValueError.
Keep ==
  /\ pc = "check" /\ failure = None /\ Kind # "no samples"
  /\ audios' = Append(audios, This)
  /\ pc' = "decode"
  /\ UNCHANGED <<clips, tmp, path, failure, recognizing, outcome>>

Refuse ==
  /\ pc = "check" /\ (failure # None \/ Kind = "no samples")
  /\ UNCHANGED failure
  /\ BadRequest

Decoded ==
  /\ pc = "decode" /\ This > Len(clips)
  /\ pc' = "batch"
  /\ UNCHANGED <<clips, decoding, recognizing, outcome>>

-----------------------------------------------------------------------------
\* range(0, len(audios), max(1, batch_size)) and the slice
\* audios[start : start + batch_size], with Python's view of a negative end.
Stride == IF BatchSize > 1 THEN BatchSize ELSE 1

Batch ==
  LET end == start + BatchSize
      n == Len(audios)
      stop == IF end < 0 THEN end + n ELSE IF end < n THEN end ELSE n
  IN  SubSeq(audios, start + 1, stop)

\* A stream per clip of the batch, each fed its audio and a second of silence.
Clipped(n) == [i \in 1..n |-> "word"]

Open ==
  /\ pc = "batch" /\ start < Len(audios)
  /\ \E size \in [1..Len(Batch) -> 0..MaxWords] :
       streams' = [i \in 1..Len(Batch) |->
         [clip |-> Batch[i],
          stream |-> AcceptWaveform(AcceptWaveform(Opened, Clipped(size[i])), Silence)]]
  /\ pc' = "recognize"
  /\ UNCHANGED <<clips, decoding, start, results, outcome>>

\* decode_streams takes every stream that is ready one step on.
Ready == {i \in 1..Len(streams) : IsReady(streams[i].stream)}

DecodeFirst ==  \* a bug to be caught: one stream only
  /\ pc = "recognize" /\ Ready # {}
  /\ streams' = IF 1 \in Ready THEN [streams EXCEPT ![1].stream = DecodeStream(@)] ELSE streams
  /\ UNCHANGED <<clips, pc, decoding, start, results, outcome>>

DecodeStreams ==
  /\ pc = "recognize" /\ Ready # {}
  /\ streams' = [i \in 1..Len(streams) |->
       IF i \in Ready THEN [streams[i] EXCEPT !.stream = DecodeStream(@)] ELSE streams[i]]
  /\ UNCHANGED <<clips, pc, decoding, start, results, outcome>>

\* The results of the batch; is_non_speech empties those that are not speech.
Heard(x) ==
  <<x.clip, GetResult(x.stream) = Words(x.stream, 0, Len(x.stream.heard)),
    clips[x.clip].speech>>

CollectEarly ==  \* a bug to be caught: all() for any()
  /\ pc = "recognize" /\ (streams = <<>> \/ Ready # 1..Len(streams))
  /\ results' = results \o [i \in 1..Len(streams) |-> Heard(streams[i])]
  /\ streams' = <<>>
  /\ start' = start + Stride
  /\ pc' = "batch"
  /\ UNCHANGED <<clips, decoding, outcome>>

Collect ==
  /\ pc = "recognize" /\ Ready = {}
  /\ results' = results \o [i \in 1..Len(streams) |-> Heard(streams[i])]
  /\ streams' = <<>>
  /\ start' = start + Stride
  /\ pc' = "batch"
  /\ UNCHANGED <<clips, decoding, outcome>>

\* encode_response makes one Output of every transcript.
Respond ==
  /\ pc = "batch" /\ start >= Len(audios)
  /\ outcome' = "200" /\ pc' = "over"
  /\ UNCHANGED <<clips, decoding, recognizing>>

Work ==
  \/ RefusePayload \/ CreateFile \/ WriteFile \/ WriteFails \/ Load \/ Convert
  \/ Finally \/ Keep \/ Refuse \/ Decoded
  \/ Open \/ DecodeStreams \/ Collect \/ Respond

Over == pc = "over" /\ UNCHANGED vars

Next == Work \/ Over

Spec == Init /\ [][Next]_vars

-----------------------------------------------------------------------------
(***************************************************************************)
(* "Return one transcript string per input audio array": whatever the      *)
(* batches and however long their streams take, the caller finds the i-th  *)
(* transcript to be of its i-th clip, and of all of it.                    *)
(***************************************************************************)
OneTranscriptPerClip ==
  outcome = "200" =>
    /\ Len(results) = Len(clips)
    /\ \A i \in 1..Len(results) : results[i] = <<i, TRUE, clips[i].speech>>

(***************************************************************************)
(* One clip that cannot be decoded refuses the request: no caller is given *)
(* transcripts of some of its clips for those of all.                      *)
(***************************************************************************)
AllOrNothing ==
  /\ outcome = "200" => \A i \in 1..Len(clips) : clips[i].kind \in {"wav", "webm"}
  /\ outcome = "400" => results = <<>>

(***************************************************************************)
(* Between two clips, and when the request is over, no temporary file is   *)
(* left, unless one could not be written.                                  *)
(***************************************************************************)
InDecoder == pc \in {"write", "load", "convert", "finally"}

OnlyFailedWritesLeave == ~InDecoder => tmp = {} \/ failure = "disk"

(***************************************************************************)
(* The loop over ready streams ends, and with it every request.            *)
(***************************************************************************)
RequestEnds == <>(outcome # None)
=============================================================================
